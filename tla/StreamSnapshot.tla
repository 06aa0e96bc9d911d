--------------------------- MODULE StreamSnapshot ---------------------------
(***************************************************************************)
(* The collector fed with bytes that have values: Collector decides which  *)
(* positions of the stream it keeps, Utf8Boundary which bytes snapshot     *)
(* moves from both sides of the cut into the omitted region, and Validate  *)
(* of internal/record/stream.go what a reader of the record accepts.       *)
(***************************************************************************)
EXTENDS Collector, Utf8Boundary

CONSTANTS
    Alphabet,         \* values of a byte
    MaxVaried,        \* bound: longest stream of bytes that differ
    MaxVariedChunk    \* bound: longest p of one Write to it

ASSUME AlphabetAssumption == Alphabet \subseteq Bytes
ASSUME VariedAssumption == MaxVaried \in Nat /\ MaxVariedChunk \in 0 .. MaxChunk
ASSUME ContextAssumption == Context = UTF8ContextBytes

VARIABLE content      \* the stream received so far

streamVars == <<vars, content>>

StreamInit == Init /\ content = <<>>

WriteBytes(p) ==
    /\ Write(Len(p))
    /\ content' = content \o p

(* A stream of any bytes, and a longer one of a byte that repeats, which   *)
(* turns the ring around.                                                  *)
WriteVaried ==
    \E n \in 1 .. MaxVariedChunk : \E p \in [1 .. n -> Alphabet] :
        received + n <= MaxVaried /\ WriteBytes(p)

WriteRepeated ==
    \E n \in 1 .. MaxChunk, b \in Alphabet :
        /\ \A i \in 1 .. received : content[i] = b
        /\ WriteBytes([i \in 1 .. n |-> b])

StreamNext == WriteVaried \/ WriteRepeated

StreamSpec == StreamInit /\ [][StreamNext]_streamVars

-----------------------------------------------------------------------------
(* The bytes at the positions the collector holds.                         *)
BytesAt(positions) == [i \in 1 .. Len(positions) |-> content[positions[i]]]

(* snapshot, with the trimming it computes from the bytes it holds.        *)
HeadTrim == IncompleteUTF8Suffix(BytesAt(head))
TailSkip == SplitUTF8Prefix(BytesAt(ContextBytes),
                            BytesAt(SubSeq(Window, TailStart + 1, Len(Window))))

RealSnapshot == Snapshot(HeadTrim, TailSkip)

(* Stream.Validate on the counts of a stream made from a snapshot.         *)
Validates(snapshot) ==
    LET h == Len(snapshot.head)
        t == Len(snapshot.tail)
    IN  /\ h + t <= Budget
        /\ snapshot.omitted >= 0
        /\ snapshot.received = h + snapshot.omitted + t
        /\ snapshot.omitted = 0 => t = 0

-----------------------------------------------------------------------------
(* The trimming stays within what SnapshotExact quantifies over, so that   *)
(* the counts and positions of every real snapshot are the exact ones; and *)
(* a reader accepts them (snapshot, Stream.Validate).                      *)
SnapshotValidates ==
    /\ truncated => HeadTrim \in Trims /\ TailSkip \in Skips
    /\ Validates(RealSnapshot)

(* No rune is cut: when decoding the whole stream puts a valid rune across *)
(* the end of the head or the start of the tail, all of its bytes there    *)
(* are moved to the omitted region, and from the tail no other byte is     *)
(* (incompleteUTF8Suffix, splitUTF8Prefix).                                *)
RunesStayWhole ==
    truncated =>
        /\ TailSkip = BytesAfter(content, received - TailLimit)
        /\ LET before == BytesBefore(content, HeadLimit)
           IN  before > 0 => HeadTrim = before

(* A stream of valid UTF-8 is recorded as readable text: its head and tail *)
(* are valid on their own, so neither needs Base64 (snapshot, encodeChunk).*)
ValidStaysValid ==
    ValidUTF8(content) =>
        /\ ValidUTF8(BytesAt(RealSnapshot.head))
        /\ ValidUTF8(BytesAt(RealSnapshot.tail))

(* docs/decisions/0002-bounded-byte-accurate-streams.md: bytes move into   *)
(* the omitted region only when a split rune can be proven; standalone     *)
(* invalid bytes remain retained.                                          *)
OnlyProvenRunesMove ==
    truncated => HeadTrim = BytesBefore(content, HeadLimit)
=============================================================================
