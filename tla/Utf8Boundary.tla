---------------------------- MODULE Utf8Boundary ----------------------------
(***************************************************************************)
(* The functions of internal/capture/collector.go that look at the value   *)
(* of a byte: which bytes at the end of a truncated head, or at the front  *)
(* of a truncated tail, belong to a UTF-8 rune cut by the boundary.        *)
(*                                                                         *)
(* Sequences are indexed from 1; Go's value[i:] is SubSeq from i + 1.      *)
(***************************************************************************)
EXTENDS Integers, Sequences

UTFMax == 4                         \* utf8.UTFMax
UTF8ContextBytes == UTFMax - 1

Bytes == 0 .. 255

Least(S) == CHOOSE i \in S : \A j \in S : i <= j

Continuation(b) == b \in 128 .. 191

(* The length a lead byte announces; 0 for a byte that leads no sequence   *)
(* of two bytes or more.                                                   *)
UTF8SequenceLength(first) ==
    CASE first \in 194 .. 223 -> 2
      [] first \in 224 .. 239 -> 3
      [] first \in 240 .. 244 -> 4
      [] OTHER -> 0

(* Second bytes excluded after some leads: overlong forms, surrogates and  *)
(* values past U+10FFFF.                                                   *)
SecondByteOK(first, second) ==
    CASE first = 224 -> second >= 160
      [] first = 237 -> second <= 159
      [] first = 240 -> second >= 144
      [] first = 244 -> second <= 143
      [] OTHER -> TRUE

(* What can follow the lead of a rune, as far as v goes.                   *)
WellFormed(v) ==
    /\ \A i \in 2 .. Len(v) : Continuation(v[i])
    /\ Len(v) >= 2 => SecondByteOK(v[1], v[2])

ValidIncompleteUTF8Prefix(v) ==
    /\ v # <<>>
    /\ Len(v) < UTF8SequenceLength(v[1])
    /\ WellFormed(v)

(* utf8.Valid of the bytes that the lead of v announces.                   *)
ValidRune(v) ==
    /\ v # <<>>
    /\ IF v[1] < 128 THEN Len(v) = 1 ELSE Len(v) = UTF8SequenceLength(v[1])
    /\ WellFormed(v)

(* The last positions of v, as many as the context has bytes.              *)
LastPositions(v) == {i \in 1 .. Len(v) : i > Len(v) - UTF8ContextBytes}

(* As LastPositions below, one position short.                             *)
LastPositionsShort(v) == {i \in 1 .. Len(v) : i > Len(v) - UTF8ContextBytes + 1}

(* As IncompleteUTF8Suffix below, missing a rune three bytes of which are  *)
(* there.                                                                  *)
IncompleteUTF8SuffixShort(v) ==
    LET starts == {i \in LastPositionsShort(v) :
                      ValidIncompleteUTF8Prefix(SubSeq(v, i, Len(v)))}
    IN  IF starts = {} THEN 0 ELSE Len(v) - Least(starts) + 1

(* How many bytes at the end of v begin a rune that v does not finish.     *)
IncompleteUTF8Suffix(v) ==
    LET starts == {i \in LastPositions(v) :
                      ValidIncompleteUTF8Prefix(SubSeq(v, i, Len(v)))}
    IN  IF starts = {} THEN 0 ELSE Len(v) - Least(starts) + 1

(* As SplitUTF8Prefix below, taking any continuation byte for part of a    *)
(* rune that is cut.                                                       *)
SplitUTF8PrefixGuess(context, tail) ==
    IF context # <<>> /\ tail # <<>> /\ Continuation(tail[1]) THEN 1 ELSE 0

(* How many bytes at the front of tail complete a valid rune that begins   *)
(* in context.  No test of tail[1] is needed: a rune that reaches past the *)
(* boundary has a continuation byte there.                                 *)
SplitUTF8Prefix(context, tail) ==
    LET window   == context \o SubSeq(tail, 1, IF Len(tail) > UTFMax
                                               THEN UTFMax ELSE Len(tail))
        boundary == Len(context)
        end(i)   == i + UTF8SequenceLength(window[i]) - 1
        starts   == {i \in LastPositions(context) :
                        /\ end(i) > boundary /\ end(i) <= Len(window)
                        /\ ValidRune(SubSeq(window, i, end(i)))}
    IN  IF starts = {} THEN 0 ELSE end(Least(starts)) - boundary

-----------------------------------------------------------------------------
(***************************************************************************)
(* Reference: decoding the whole stream from its first byte, as            *)
(* utf8.DecodeRune does; an invalid byte is a unit of its own.             *)
(***************************************************************************)
UnitWidth(s, i) ==
    LET width == UTF8SequenceLength(s[i])
    IN  IF width > 0 /\ i + width - 1 <= Len(s)
           /\ ValidRune(SubSeq(s, i, i + width - 1))
        THEN width ELSE 1

(* The first byte of the unit that byte n belongs to.                      *)
UnitOf(s) ==
    LET unit[n \in 1 .. Len(s)] ==
            IF n = 1 THEN 1
            ELSE LET u == unit[n - 1]
                 IN  IF u + UnitWidth(s, u) > n THEN u ELSE n
    IN  unit

ValidUTF8(s) ==
    LET unit == UnitOf(s)
    IN  \A n \in 1 .. Len(s) : s[n] < 128 \/ UnitWidth(s, unit[n]) > 1

(* A rune of s has bytes on both sides of the boundary between its first b *)
(* bytes and the rest.                                                     *)
RuneCut(s, b) == 0 < b /\ b < Len(s) /\ UnitOf(s)[b] = UnitOf(s)[b + 1]

(* How many bytes of that rune each side has.                              *)
BytesBefore(s, b) == IF RuneCut(s, b) THEN b - UnitOf(s)[b] + 1 ELSE 0

BytesAfter(s, b) ==
    LET u == UnitOf(s)[b]
    IN  IF RuneCut(s, b) THEN u + UnitWidth(s, u) - 1 - b ELSE 0
=============================================================================
