--------------------------- MODULE MCRecordStore ---------------------------
(* Instances of RecordStore for TLC.                                       *)
EXTENDS RecordStore

CONSTANTS w1, w2, r1   \* two runs that record, one that reads

TwoWriters == {w1, w2}
OneReader == {r1}
=============================================================================
