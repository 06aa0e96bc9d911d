----------------------------- MODULE Collector -----------------------------
(***************************************************************************)
(* The bounded byte collector of internal/capture/collector.go: a stream   *)
(* is kept whole until it exceeds HeadLimit + TailLimit bytes; from then   *)
(* on only a fixed prefix (head) and a ring of the latest bytes (tail)     *)
(* survive.                                                                *)
(*                                                                         *)
(* Write never looks at the value of a byte, so a byte is identified with  *)
(* its position in the stream: the i-th byte ever received is the number   *)
(* i, and the zero byte of a fresh ring is 0.  A collector is correct when *)
(* the positions it kept are the right ones.  The trimming of a split      *)
(* UTF-8 rune does look at values; Snapshot takes the number of bytes it   *)
(* removes as arguments, and Utf8Boundary computes them.                   *)
(***************************************************************************)
EXTENDS Integers, Sequences

CONSTANTS
    HeadLimit,    \* defaultHeadBytes
    TailLimit,    \* defaultTailBytes
    Context,      \* utf8ContextBytes: ring bytes kept in front of the tail
    MaxChunk,     \* bound: longest p of one Write
    MaxReceived   \* bound: longest stream explored

ASSUME LimitsAssumption ==
    /\ HeadLimit \in Nat /\ TailLimit \in Nat
    /\ Context \in Nat \ {0}
    /\ MaxChunk \in Nat /\ MaxReceived \in Nat

VARIABLES received, truncated, full, head, tail

vars == <<received, truncated, full, head, tail>>

-----------------------------------------------------------------------------
Budget == HeadLimit + TailLimit

(* As RingLimit below, without room for the rune context.                  *)
RingLimitTailOnly == IF TailLimit = 0 THEN 1 ELSE TailLimit
RingLimit == TailLimit + Context
Slots == 0 .. RingLimit - 1

Smaller(a, b) == IF a <= b THEN a ELSE b

(* append(dst, src[:remaining]...): dst grows up to limit bytes.           *)
AppendPrefix(dst, src, limit) ==
    dst \o SubSeq(src, 1, Smaller(limit - Len(dst), Len(src)))

(***************************************************************************)
(* The ring: buf is indexed from 0 as in Go; length bytes are live, the    *)
(* oldest at start.                                                        *)
(***************************************************************************)
NewByteRing == [buf |-> [j \in Slots |-> 0], start |-> 0, length |-> 0]

(* Two copies: up to the end of buf, then the rest of p from slot 0.       *)
CopyAt(buf, index, p) ==
    LET first == Smaller(RingLimit - index, Len(p))
    IN  [j \in Slots |-> IF j < Len(p) - first THEN p[first + j + 1]
                         ELSE IF j \in index .. index + first - 1
                              THEN p[j - index + 1]
                              ELSE buf[j]]

(* A chunk at least as long as the ring replaces it.  A shorter one first  *)
(* fills the free slots, then overwrites the oldest bytes.                 *)
RingWrite(r, p) ==
    LET n    == Len(p)
        add  == Smaller(RingLimit - r.length, n)
        fill == CopyAt(r.buf, (r.start + r.length) % RingLimit, SubSeq(p, 1, add))
    IN  IF n >= RingLimit
        THEN [buf    |-> CopyAt(r.buf, 0, SubSeq(p, n - RingLimit + 1, n)),
              start  |-> 0,
              length |-> RingLimit]
        ELSE [buf    |-> CopyAt(fill, r.start, SubSeq(p, add + 1, n)),
              start  |-> (r.start + (n - add)) % RingLimit,
              length |-> r.length + add]

(* The live bytes, oldest first.                                           *)
RingBytes(r) ==
    LET firstLength == Smaller(r.length, RingLimit - r.start)
    IN  [i \in 1 .. r.length |-> IF i <= firstLength
                                 THEN r.buf[r.start + i - 1]
                                 ELSE r.buf[i - firstLength - 1]]

-----------------------------------------------------------------------------
Init ==
    /\ received = 0
    /\ truncated = FALSE
    /\ full = <<>>
    /\ head = <<>>
    /\ tail = NewByteRing

(* The n bytes of one call of Write.                                       *)
Chunk(n) == [i \in 1 .. n |-> received + i]

(* Branches of Write: the ring alone, the whole stream, or the switch from *)
(* the second representation to the first.                                 *)
WriteRing(p) ==
    /\ truncated
    /\ tail' = RingWrite(tail, p)
    /\ UNCHANGED <<truncated, full, head>>

WriteFull(p) ==
    /\ ~truncated
    /\ Len(full) + Len(p) <= Budget
    /\ full' = full \o p
    /\ UNCHANGED <<truncated, head, tail>>

(* As Truncate below, with the ring given the new chunk only.              *)
TruncateDropsFull(p) ==
    /\ ~truncated
    /\ Len(full) + Len(p) > Budget
    /\ truncated' = TRUE
    /\ head' = AppendPrefix(AppendPrefix(<<>>, full, HeadLimit), p, HeadLimit)
    /\ tail' = RingWrite(NewByteRing, p)
    /\ full' = <<>>

Truncate(p) ==
    /\ ~truncated
    /\ Len(full) + Len(p) > Budget
    /\ truncated' = TRUE
    /\ head' = AppendPrefix(AppendPrefix(<<>>, full, HeadLimit), p, HeadLimit)
    /\ tail' = RingWrite(RingWrite(NewByteRing, full), p)
    /\ full' = <<>>

(* An empty chunk returns early and changes nothing.                       *)
Write(n) ==
    LET p == Chunk(n)
    IN  /\ n > 0
        /\ received + n <= MaxReceived
        /\ received' = received + n
        /\ \/ WriteRing(p)
           \/ WriteFull(p)
           \/ Truncate(p)

Next == \E n \in 1 .. MaxChunk : Write(n)

Spec == Init /\ [][Next]_vars

-----------------------------------------------------------------------------
(***************************************************************************)
(* snapshot.  window is the ring's content; its last TailLimit bytes are   *)
(* the tail and what precedes them is the context splitUTF8Prefix reads.   *)
(***************************************************************************)
Window == RingBytes(tail)
TailStart == IF Len(Window) > TailLimit THEN Len(Window) - TailLimit ELSE 0
ContextBytes == SubSeq(Window, 1, TailStart)

(* As Snapshot below, with omitted counted before the trimming.            *)
SnapshotForgetsTrim(trim, skip) ==
    LET rawTail == SubSeq(Window, TailStart + 1, Len(Window))
        omitted == received - Len(head) - Len(rawTail)
    IN  IF truncated
        THEN [received |-> received,
              head     |-> SubSeq(head, 1, Len(head) - trim),
              omitted  |-> omitted,
              tail     |-> SubSeq(rawTail, skip + 1, Len(rawTail))]
        ELSE [received |-> received, head |-> full, omitted |-> 0, tail |-> <<>>]

(* trim: bytes incompleteUTF8Suffix removes from the end of the head.      *)
(* skip: bytes splitUTF8Prefix removes from the front of the tail.         *)
Snapshot(trim, skip) ==
    LET rawTail == SubSeq(Window, TailStart + 1, Len(Window))
        omitted == received - Len(head) - Len(rawTail)
    IN  IF truncated
        THEN [received |-> received,
              head     |-> SubSeq(head, 1, Len(head) - trim),
              omitted  |-> omitted + trim + skip,
              tail     |-> SubSeq(rawTail, skip + 1, Len(rawTail))]
        ELSE [received |-> received, head |-> full, omitted |-> 0, tail |-> <<>>]

(* What either trimming can return: at most Context, at most what is there.*)
Trims == 0 .. Smaller(Context, Len(head))
Skips == 0 .. Smaller(Context, Len(Window) - TailStart)

-----------------------------------------------------------------------------
(***************************************************************************)
(* Properties.                                                             *)
(***************************************************************************)

(* Types of the collector's fields: the ring never indexes outside buf.    *)
TypeOK ==
    /\ received \in Nat
    /\ truncated \in BOOLEAN
    /\ full \in Seq(Nat) /\ Len(full) <= Budget
    /\ head \in Seq(Nat) /\ Len(head) <= HeadLimit
    /\ tail \in [buf : [Slots -> Nat], start : Slots, length : 0 .. RingLimit]

(* Positions a .. b of the stream, in order.                               *)
Positions(a, b) == [i \in 1 .. b - a + 1 |-> a + i - 1]

(* A snapshot is a function of how many bytes were received, however they  *)
(* were cut into chunks: the whole stream when it fits the budget, else    *)
(* exactly the first HeadLimit and the last TailLimit bytes less what the  *)
(* rune trimming removes, with omitted counting precisely the bytes        *)
(* between the kept head and the kept tail (collector.go Write, snapshot). *)
SnapshotExact ==
    \A trim \in Trims, skip \in Skips :
        Snapshot(trim, skip) =
            IF received <= Budget
            THEN [received |-> received, head |-> Positions(1, received),
                  omitted |-> 0, tail |-> <<>>]
            ELSE [received |-> received,
                  head     |-> Positions(1, HeadLimit - trim),
                  omitted  |-> received - Budget + trim + skip,
                  tail     |-> Positions(received - TailLimit + 1 + skip, received)]

(* The bytes splitUTF8Prefix inspects to prove that the tail starts inside *)
(* a rune are the ones that really preceded the tail in the stream, as     *)
(* many of them as exist up to Context.                                    *)
ContextExact ==
    truncated =>
        LET kept == Smaller(Context, received - TailLimit)
        IN  ContextBytes = Positions(received - TailLimit - kept + 1,
                                     received - TailLimit)
=============================================================================
