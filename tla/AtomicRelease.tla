---------------------------- MODULE AtomicRelease ----------------------------
(***************************************************************************)
(* What a reader of the project's release page is promised by              *)
(* docs/decisions/0007-atomic-reproducible-releases.md: there is no        *)
(* release, or there is one with every platform's archive and the          *)
(* checksums of exactly those archives, and it is the one that two         *)
(* independent builds agreed on.  Once public it stays as it is.           *)
(***************************************************************************)
CONSTANTS
    Targets,     \* platforms
    Binaries     \* what builds produce

VARIABLES
    agreed,      \* archive sets that two builds produced alike
    shown        \* what is public: <<archives, checksums>>, or <<>>

Archives == [Targets -> Binaries]
Whole(archives) == <<archives, archives>>

Init == agreed = {} /\ shown = <<>>

Agree == \E a \in Archives : agreed' = agreed \cup {a} /\ UNCHANGED shown

Publish ==
    /\ shown = <<>>
    /\ \E a \in agreed : shown' = Whole(a)
    /\ UNCHANGED agreed

Next == Agree \/ Publish

Spec == Init /\ [][Next]_<<agreed, shown>>
==============================================================================
