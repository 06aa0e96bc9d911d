---------------------------- MODULE MCRecordRun -----------------------------
(* Instances of RecordRun for TLC.                                         *)
EXTENDS RecordRun

CONSTANTS k   \* a process the command leaves behind

OneKin == {k}
OneSignal == {2}
OneCode == {3}
Stderr == {"stderr"}
NoStreams == {}
OneByte == [stdout |-> 0, stderr |-> 1]
=============================================================================
