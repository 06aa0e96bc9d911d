----------------------------- MODULE MCRelease ------------------------------
(* An instance of Release for TLC: two platforms, builds that reproduce    *)
(* and builds that do not.                                                 *)
EXTENDS Release

CONSTANTS t1, t2, b1, b2

TwoTargets == {t1, t2}
TwoBinaries == {b1, b2}
=============================================================================
