-------------------------- MODULE MCReceiptRecord ---------------------------
(* An instance of ReceiptRecord for TLC: output that is text, output cut   *)
(* in two with the first byte of a two-byte rune at its start, and none.   *)
EXTENDS ReceiptRecord

Cut == [received |-> 6, complete |-> FALSE, head |-> <<195, 1>>,
        omitted |-> 2, tail |-> <<1, 1>>]
Text == [received |-> 2, complete |-> TRUE, head |-> <<195, 169>>,
         omitted |-> 0, tail |-> <<>>]

TheSnapshots == {Cut, Text}
TheExitCodes == {7, 130}
TheCounts == {-1, 1, 2, 10}
TheTexts == {<<>>, <<98>>, <<195>>, RuneError, RuneError \o <<1>>, <<195, 169>>}
TheRaws == {<<>>, <<195>>, <<98>>, <<195, 1>>}
TheSignals == {"SIGINT", "interrupt", "SIGKILL"}
TheCommandJSONBytes == [good |-> 5, many |-> 31]
TheArguments == [good |-> 1, many |-> 10]
TheLegacyTexts == {<<97>>, <<195>>}
=============================================================================
