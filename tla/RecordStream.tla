---------------------------- MODULE RecordStream ----------------------------
(***************************************************************************)
(* A stream as a record stores it (internal/record/stream.go): readable    *)
(* text, the exact bytes in Base64 when the text cannot show them, and     *)
(* four byte counts.                                                       *)
(*                                                                         *)
(* A text is its bytes.  A Base64 string is the bytes it decodes to and    *)
(* the way it spells them:                                                 *)
(*   "canonical"  what EncodeToString writes                               *)
(*   "broken"     with a line break inside                                 *)
(*   "loose"      with padding bits that are not zero                      *)
(* Go's empty string in an optional field is Null.                         *)
(***************************************************************************)
EXTENDS Utf8Boundary
LOCAL INSTANCE SequencesExt

CONSTANTS
    Null,
    MaxSafeInteger,
    MaxCapturedBytes

ASSUME RecordStreamAssumption ==
    MaxSafeInteger \in Nat /\ MaxCapturedBytes \in Nat

RuneError == <<239, 191, 189>>      \* U+FFFD

InvalidBytes(s) ==
    LET unit == UnitOf(s)
    IN  {n \in 1 .. Len(s) : s[n] >= 128 /\ UnitWidth(s, unit[n]) = 1}

(* strings.ToValidUTF8: a run of invalid bytes becomes one U+FFFD.         *)
ToValidUTF8(s) ==
    LET bad == InvalidBytes(s)
    IN  FlattenSeq([n \in 1 .. Len(s) |->
            CASE n \notin bad -> <<s[n]>>
              [] n \in bad /\ n - 1 \notin bad -> RuneError
              [] OTHER -> <<>>])

(* encoding/json writing a string: every invalid byte becomes U+FFFD.      *)
JSONText(s) ==
    LET bad == InvalidBytes(s)
    IN  FlattenSeq([n \in 1 .. Len(s) |-> IF n \in bad THEN RuneError ELSE <<s[n]>>])

-----------------------------------------------------------------------------
Base64(bytes) == [bytes |-> bytes, spelling |-> "canonical"]

EncodedLen(n) == 4 * ((n + 2) \div 3)

HasLineBreak(encoded) == encoded.spelling = "broken"

EncodedLength(encoded) ==
    EncodedLen(Len(encoded.bytes)) + IF HasLineBreak(encoded) THEN 1 ELSE 0

(* As Decodes below, with a decoder that ignores padding bits.             *)
DecodesLoose(encoded) == ~HasLineBreak(encoded)

(* decodeRawBase64 returns no error.                                       *)
Decodes(encoded) == ~HasLineBreak(encoded) /\ encoded.spelling = "canonical"

EncodeChunk(raw) ==
    IF ValidUTF8(raw) THEN [text |-> raw, raw |-> Null]
                      ELSE [text |-> ToValidUTF8(raw), raw |-> Base64(raw)]

(* chunkData of a chunk that decodes.                                      *)
ChunkData(text, raw) == IF raw = Null THEN text ELSE raw.bytes

ValidateChunk(count, text, raw) ==
    /\ ValidUTF8(text)
    /\ raw = Null => Len(text) = count
    /\ raw # Null =>
          /\ ~HasLineBreak(raw)
          /\ EncodedLength(raw) = EncodedLen(count)
          /\ Decodes(raw)
          /\ Len(raw.bytes) = count
          /\ ~ValidUTF8(raw.bytes)
          /\ text = ToValidUTF8(raw.bytes)

-----------------------------------------------------------------------------
CountKeys == {"received_bytes", "head_bytes", "omitted_bytes", "tail_bytes"}
TextKeys == {"head_text", "tail_text"}
RawKeys == {"head_raw_base64", "tail_raw_base64"}
StreamKeys == CountKeys \cup {"capture_complete"} \cup TextKeys \cup RawKeys

NewStream(received, captureComplete, head, omitted, tail) ==
    [received_bytes   |-> received,
     capture_complete |-> captureComplete,
     head_bytes       |-> Len(head),
     head_text        |-> EncodeChunk(head).text,
     head_raw_base64  |-> EncodeChunk(head).raw,
     omitted_bytes    |-> omitted,
     tail_bytes       |-> Len(tail),
     tail_text        |-> EncodeChunk(tail).text,
     tail_raw_base64  |-> EncodeChunk(tail).raw]

SafeCount(n) == 0 <= n /\ n <= MaxSafeInteger

(* Stream.Validate *)
ValidateStream(s) ==
    /\ \A key \in CountKeys : SafeCount(s[key])
    /\ s.head_bytes + s.tail_bytes <= MaxCapturedBytes
    /\ s.received_bytes = s.head_bytes + s.omitted_bytes + s.tail_bytes
    /\ s.omitted_bytes = 0 => s.tail_bytes = 0
    /\ ValidateChunk(s.head_bytes, s.head_text, s.head_raw_base64)
    /\ ValidateChunk(s.tail_bytes, s.tail_text, s.tail_raw_base64)

(* streamV2Wire.stream rejects a Base64 field that is there and empty.     *)
PresentButEmpty(wire, key) == wire[key] # Null /\ wire[key].bytes = <<>>

(* As WireComplete below, taking an empty Base64 field for a missing one.  *)
WireCompleteOrEmpty(wire) ==
    \A key \in StreamKeys \ RawKeys : wire[key] # Null

(* streamV2Wire.stream finds every field it requires.                      *)
WireComplete(wire) ==
    /\ \A key \in StreamKeys \ RawKeys : wire[key] # Null
    /\ \A key \in RawKeys : ~PresentButEmpty(wire, key)

WireStream(wire) ==
    [key \in StreamKeys |->
        IF key \in RawKeys /\ PresentButEmpty(wire, key) THEN Null ELSE wire[key]]
=============================================================================
