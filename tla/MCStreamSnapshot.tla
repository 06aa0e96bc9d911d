-------------------------- MODULE MCStreamSnapshot --------------------------
(* An instance of StreamSnapshot for TLC: leads of runes of two, three and *)
(* four bytes, continuation bytes on both sides of the limits that their   *)
(* second bytes have, and an ASCII letter.                                 *)
EXTENDS StreamSnapshot

Letters == {97, 128, 160, 195, 224, 240}
FewLetters == {97, 195}
=============================================================================
