----------------------------- MODULE MCCapture -----------------------------
(* Instances of Capture for TLC.                                           *)
EXTENDS Capture

CONSTANTS k   \* a process the command leaves behind

NoProcs == {}
OneKin == {k}
OneSignal == {2}
OneCode == {3}
NoStreams == {}
Stderr == {"stderr"}
TwoBytes == [stdout |-> 0, stderr |-> 2]

(* How much of the environment happens in one history: many signals and a  *)
(* cancellation while there is no output and the live reader reads, or     *)
(* output and one signal.                                                  *)
Quiet == wrote["stderr"] = 0 /\ consumer["stderr"] = "reading"
OneInterrupt == asked <= 1 /\ ctx = "live"
QuietOrOneInterrupt == Quiet \/ OneInterrupt
=============================================================================
