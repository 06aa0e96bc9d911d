------------------------------ MODULE MCReading ------------------------------
(* An instance of Reading for TLC: options, values that look like options  *)
(* and words; pieces of JSON strings that can fall together to surrogate   *)
(* escapes; runes that break lines and make fences, and phrases of         *)
(* runprint's own.                                                         *)
EXTENDS Reading

SomeArgs == {"--", "-o", "--output", "--output=a", "--output=", "-x", "-", "w",
             "--raw", "--format", "--format=markdown", "markdown"}

(* \ud83d, \ude00, \u0041, \uD8 and what completes or spoils them.         *)
SomePieces == {<<92, 117, 100, 56, 51, 100>>, <<92, 117, 100, 101, 48, 48>>,
               <<92, 117, 48, 48, 52, 49>>, <<92, 117, 68, 56>>, <<48, 48>>,
               <<92>>, <<117>>, <<110>>, <<34>>}

SomeRunes == {NL, 13, Tick, Space, Slash, 8232, UnicodeMax + 13, UnicodeMax + 19}
=============================================================================
