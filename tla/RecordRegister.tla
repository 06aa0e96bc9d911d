--------------------------- MODULE RecordRegister ---------------------------
(***************************************************************************)
(* What the record file promises: a register that a run of runprint        *)
(* replaces in one step or not at all, and that a reader gets as it was at *)
(* one instant.  RecordStore implements it with temporary files, partial   *)
(* writes and reads, and crashes.                                          *)
(***************************************************************************)
CONSTANTS
    Writers,     \* runs of runprint record
    Readers,     \* runs of runprint check or show
    Initial,     \* what the path may hold before any of them
    NotARecord   \* no file, or a directory

VARIABLES
    current,     \* what the path holds
    run,         \* [Writers -> {"working", "published", "gaveUp"}]
    got          \* [Readers -> what the reader got, or "nothing"]

vars == <<current, run, got>>

Init ==
    /\ current \in Initial
    /\ run = [w \in Writers |-> "working"]
    /\ got = [r \in Readers |-> "nothing"]

(* The record of w replaces whatever was there.                            *)
Publish(w) ==
    /\ run[w] = "working"
    /\ run' = [run EXCEPT ![w] = "published"]
    /\ current' = w
    /\ UNCHANGED got

(* A run that fails or dies leaves the register alone.                     *)
GiveUp(w) ==
    /\ run[w] = "working"
    /\ run' = [run EXCEPT ![w] = "gaveUp"]
    /\ UNCHANGED <<current, got>>

(* A read is atomic; one that comes to nothing gets what is not a record.  *)
Get(r) ==
    /\ got[r] = "nothing"
    /\ got' = [got EXCEPT ![r] = current]
    /\ UNCHANGED <<current, run>>

(* Another program takes the record away.                                  *)
Disturb ==
    /\ current' \in NotARecord
    /\ UNCHANGED <<run, got>>

Next ==
    \/ \E w \in Writers : Publish(w) \/ GiveUp(w)
    \/ \E r \in Readers : Get(r)
    \/ Disturb

Spec == Init /\ [][Next]_vars
=============================================================================
