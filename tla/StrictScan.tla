----------------------------- MODULE StrictScan -----------------------------
(***************************************************************************)
(* rejectUnpairedSurrogates of internal/record/strictjson.go: a scan of    *)
(* the bytes of a JSON text, ahead of encoding/json, which would read an   *)
(* unpaired surrogate as U+FFFD without a word.  Bytes are numbers;        *)
(* sequences are indexed from 1.                                           *)
(***************************************************************************)
EXTENDS Integers, Sequences

Quote == 34
Backslash == 92
LetterU == 117

High == 55296 .. 56319    \* 0xd800 .. 0xdbff
Low == 56320 .. 57343     \* 0xdc00 .. 0xdfff
NoValue == -1             \* ok is false

-----------------------------------------------------------------------------
HexDigit(byte) ==
    CASE byte \in 48 .. 57  -> byte - 48
      [] byte \in 97 .. 102 -> byte - 97 + 10
      [] byte \in 65 .. 70  -> byte - 65 + 10
      [] OTHER -> NoValue

DecodeHex4(data, start) ==
    LET digit(k) == HexDigit(data[start + k])
    IN  IF start + 3 > Len(data) \/ \E k \in 0 .. 3 : digit(k) = NoValue
        THEN NoValue
        ELSE ((digit(0) * 16 + digit(1)) * 16 + digit(2)) * 16 + digit(3)

(* The escape at i is a high surrogate and the one after it a low one.     *)
Paired(data, i) ==
    /\ i + 11 <= Len(data)
    /\ data[i + 6] = Backslash /\ data[i + 7] = LetterU
    /\ DecodeHex4(data, i + 8) \in Low

(* The bytes of the \u escape at i, with the one it is paired to.          *)
EscapeWidth(data, i) ==
    LET value == DecodeHex4(data, i + 2)
    IN  CASE value \in High -> IF Paired(data, i) THEN 12 ELSE 0
          [] value \in Low \cup {NoValue} -> 0
          [] OTHER -> 6

(* As Width below, taking the byte behind a backslash for one of its own.  *)
WidthOne(data, i) ==
    IF data[i] = Backslash /\ i < Len(data) /\ data[i + 1] = LetterU
    THEN EscapeWidth(data, i) ELSE 1

(* The bytes of the character of a string at i; 0 where the scan refuses.  *)
Width(data, i) ==
    IF data[i] # Backslash THEN 1
    ELSE IF i = Len(data) THEN 0
    ELSE IF data[i + 1] # LetterU THEN 2
    ELSE EscapeWidth(data, i)

(* The two loops: outside of strings every byte is skipped, inside of one  *)
(* every character up to the closing quote.                                *)
ScanAccepts(data) ==
    LET from[i \in 1 .. Len(data) + 1] ==
            [quoted \in BOOLEAN |->
                IF i > Len(data) THEN ~quoted
                ELSE IF ~quoted THEN from[i + 1][data[i] = Quote]
                ELSE IF data[i] = Quote THEN from[i + 1][FALSE]
                ELSE Width(data, i) # 0 /\ from[i + Width(data, i)][TRUE]]
    IN  from[1][FALSE]
=============================================================================
