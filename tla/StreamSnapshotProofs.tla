------------------------ MODULE StreamSnapshotProofs ------------------------
(***************************************************************************)
(* Proofs about Collector and StreamSnapshot for every value of the        *)
(* limits.  Whatever chunks arrive, the ring holds exactly the latest      *)
(* bytes, and so a snapshot is the exact head and tail of the stream.      *)
(* Whatever bytes arrive, the trimming that snapshot computes from them    *)
(* stays within the bounds over which that theorem quantifies, so that the *)
(* counts of every real snapshot add up, and it is exactly what decoding   *)
(* the whole stream says about a rune that is cut, so that valid text      *)
(* stays valid.                                                            *)
(***************************************************************************)
EXTENDS StreamSnapshot, Utf8BoundaryProofs

-----------------------------------------------------------------------------
(***************************************************************************)
(* The collector over positions: head, ring and context.                   *)
(***************************************************************************)
(* What is true of a ring (its buf b, start s, length l) into which the    *)
(* positions 1 .. m were written: it holds the last Smaller(m, RingLimit)  *)
(* of them, in slots s .. s+l-1 and, once it has wrapped, 0 .. s-1.        *)
RingHolds(b, s, l, m) ==
    /\ l = Smaller(m, RingLimit)
    /\ s \in Slots
    /\ l < RingLimit => s = 0
    /\ b \in [Slots -> Nat]
    /\ \A j \in Slots :
          /\ j >= s /\ j < s + l => b[j] = m - l + (j - s) + 1
          /\ j < s => b[j] = m - s + j + 1

RingType == [buf : [Slots -> Nat], start : Slots, length : 0 .. RingLimit]

(* A sequence carrying the positions m+1 .. m+Len(p).                      *)
Follows(p, m) ==
    /\ p \in Seq(Nat)
    /\ \A i \in 1 .. Len(p) : p[i] = m + i

(* The inductive invariant: what each representation retains.              *)
IInv ==
    /\ received \in Nat
    /\ truncated \in BOOLEAN
    /\ Follows(full, 0)
    /\ Follows(head, 0)
    /\ truncated =>
          /\ received > Budget
          /\ full = <<>>
          /\ Len(head) = HeadLimit
          /\ RingHolds(tail.buf, tail.start, tail.length, received)
          /\ tail \in RingType
    /\ ~truncated =>
          /\ Len(full) = received
          /\ received <= Budget
          /\ head = <<>>
          /\ tail = NewByteRing

(* Both kinds of limit are natural numbers and the ring is never empty.    *)
LEMMA Limits == /\ HeadLimit \in Nat /\ TailLimit \in Nat /\ Context \in Nat
                /\ Context > 0 /\ Budget \in Nat
                /\ RingLimit \in Nat /\ RingLimit > 0
                /\ RingLimit = TailLimit + Context
                /\ Budget = HeadLimit + TailLimit
BY LimitsAssumption DEF RingLimit, Budget

(* Reducing an index less than twice the ring's size (byteRing.write).     *)
LEMMA Wrap ==
    ASSUME NEW x \in Nat, x < 2 * RingLimit
    PROVE  x % RingLimit = IF x < RingLimit THEN x ELSE x - RingLimit
<1>1. CASE x < RingLimit
  BY <1>1, Limits
<1>2. CASE x >= RingLimit
  BY <1>2, Limits
<1> QED BY <1>1, <1>2, Limits

(* Reading slot j after CopyAt, when p fits the ring.                      *)
LEMMA CopyAtReads ==
    ASSUME NEW buf \in [Slots -> Nat], NEW index \in Slots,
           NEW p \in Seq(Nat), Len(p) <= RingLimit
    PROVE  /\ CopyAt(buf, index, p) \in [Slots -> Nat]
           /\ \A j \in Slots :
                 /\ j >= index /\ j < index + Len(p)
                       => CopyAt(buf, index, p)[j] = p[j - index + 1]
                 /\ j < index + Len(p) - RingLimit
                       => CopyAt(buf, index, p)[j] = p[RingLimit - index + j + 1]
                 /\ j >= index + Len(p) - RingLimit /\ (j < index \/ j >= index + Len(p))
                       => CopyAt(buf, index, p)[j] = buf[j]
<1> DEFINE c == CopyAt(buf, index, p)
           first == Smaller(RingLimit - index, Len(p))
<1>1. /\ index \in Nat /\ index < RingLimit /\ Len(p) \in Nat
      /\ \A j \in Slots : j \in Nat /\ j < RingLimit
      /\ \A i \in 1 .. Len(p) : p[i] \in Nat
  BY Limits DEF Slots
<1>2. /\ first \in Nat /\ first <= Len(p) /\ index + first <= RingLimit
      /\ Len(p) <= RingLimit - index => first = Len(p)
      /\ Len(p) > RingLimit - index => first = RingLimit - index
  BY <1>1, Limits DEF Smaller
<1>3. c = [j \in Slots |-> IF j < Len(p) - first THEN p[first + j + 1]
                           ELSE IF j \in index .. index + first - 1
                                THEN p[j - index + 1]
                                ELSE buf[j]]
  BY DEF CopyAt
<1> HIDE DEF c, first
<1>4. ASSUME NEW j \in Slots
      PROVE  /\ j < Len(p) - first => c[j] = p[first + j + 1] /\ first + j + 1 \in 1 .. Len(p)
             /\ j >= Len(p) - first /\ j >= index /\ j < index + first
                   => c[j] = p[j - index + 1] /\ j - index + 1 \in 1 .. Len(p)
             /\ j >= Len(p) - first /\ (j < index \/ j >= index + first)
                   => c[j] = buf[j]
  <2>1. j \in Nat /\ j < RingLimit
    BY <1>1
  <2>2. c[j] = IF j < Len(p) - first THEN p[first + j + 1]
               ELSE IF j \in index .. index + first - 1
                    THEN p[j - index + 1] ELSE buf[j]
    BY <1>3
  <2> QED BY <1>1, <1>2, <2>1, <2>2
<1>5. c \in [Slots -> Nat]
  <2>1. ASSUME NEW j \in Slots PROVE c[j] \in Nat
    <3>1. CASE j < Len(p) - first
      BY <1>1, <1>4, <2>1, <3>1
    <3>2. CASE j >= Len(p) - first /\ j >= index /\ j < index + first
      BY <1>1, <1>4, <2>1, <3>2
    <3>3. CASE j >= Len(p) - first /\ (j < index \/ j >= index + first)
      BY <1>1, <1>4, <2>1, <3>3
    <3> QED BY <1>1, <1>2, <2>1, <3>1, <3>2, <3>3
  <2> QED BY <1>3, <2>1
<1>6. ASSUME NEW j \in Slots
      PROVE  /\ j >= index /\ j < index + Len(p) => c[j] = p[j - index + 1]
             /\ j < index + Len(p) - RingLimit => c[j] = p[RingLimit - index + j + 1]
             /\ j >= index + Len(p) - RingLimit /\ (j < index \/ j >= index + Len(p))
                   => c[j] = buf[j]
  <2>1. j \in Nat /\ j < RingLimit
    BY <1>1
  <2>2. ASSUME j >= index, j < index + Len(p)
        PROVE  c[j] = p[j - index + 1]
    <3>1. j >= Len(p) - first /\ j < index + first
      BY <1>1, <1>2, <2>1, <2>2, Limits
    <3> QED BY <1>4, <2>2, <3>1
  <2>3. ASSUME j < index + Len(p) - RingLimit
        PROVE  c[j] = p[RingLimit - index + j + 1]
    <3>1. first = RingLimit - index /\ j < Len(p) - first
      BY <1>1, <1>2, <2>1, <2>3, Limits
    <3> QED BY <1>4, <3>1
  <2>4. ASSUME j >= index + Len(p) - RingLimit, j < index \/ j >= index + Len(p)
        PROVE  c[j] = buf[j]
    <3>1. j >= Len(p) - first /\ (j < index \/ j >= index + first)
      BY <1>1, <1>2, <2>1, <2>4, Limits
    <3> QED BY <1>4, <3>1
  <2> QED BY <2>2, <2>3, <2>4
<1> QED BY <1>5, <1>6 DEF c

(* A piece of a chunk follows on from where the chunk was cut.             *)
LEMMA PieceFollows ==
    ASSUME NEW m \in Nat, NEW p, Follows(p, m),
           NEW a \in Nat, NEW b \in Nat, a <= b, b <= Len(p)
    PROVE  /\ Follows(SubSeq(p, a + 1, b), m + a)
           /\ Len(SubSeq(p, a + 1, b)) = b - a
<1> DEFINE q == SubSeq(p, a + 1, b)
<1>1. p \in Seq(Nat) /\ Len(p) \in Nat
  BY DEF Follows
<1>2. q \in Seq(Nat) /\ Len(q) = b - a
  BY <1>1
<1>3. ASSUME NEW i \in 1 .. Len(q)
      PROVE  q[i] = m + a + i
  <2>1. i \in Nat /\ i >= 1 /\ i <= b - a
    BY <1>2
  <2>2. q[i] = p[a + i]
    BY <1>1, <1>2, <2>1
  <2>3. a + i \in 1 .. Len(p)
    BY <1>1, <2>1
  <2>4. p[a + i] = m + (a + i)
    BY <2>3 DEF Follows
  <2> QED BY <2>1, <2>2, <2>4
<1> QED BY <1>2, <1>3 DEF Follows

(* The case of a piece cut from the front of a chunk.                      *)
LEMMA FrontFollows ==
    ASSUME NEW m \in Nat, NEW p, Follows(p, m),
           NEW b \in Nat, b <= Len(p)
    PROVE  Follows(SubSeq(p, 1, b), m) /\ Len(SubSeq(p, 1, b)) = b
<1>1. 0 \in Nat /\ 0 <= b
  OBVIOUS
<1>2. Follows(SubSeq(p, 0 + 1, b), m + 0) /\ Len(SubSeq(p, 0 + 1, b)) = b - 0
  BY <1>1, PieceFollows
<1> QED BY <1>2

(* First copy of byteRing.write: a chunk that fits the free slots.         *)
LEMMA FillHolds ==
    ASSUME NEW m \in Nat, NEW b \in [Slots -> Nat], NEW s \in Slots,
           NEW l \in 0 .. RingLimit,
           RingHolds(b, s, l, m),
           NEW p, Follows(p, m), Len(p) <= RingLimit - l
    PROVE  RingHolds(CopyAt(b, (s + l) % RingLimit, p), s, l + Len(p), m + Len(p))
<1> DEFINE n == Len(p)
           i0 == (s + l) % RingLimit
           c == CopyAt(b, i0, p)
<1>1. /\ p \in Seq(Nat) /\ n \in Nat /\ n <= RingLimit
      /\ s \in Nat /\ s < RingLimit /\ l \in Nat /\ l <= RingLimit
      /\ \A j \in Slots : j \in Nat /\ j < RingLimit
  BY Limits DEF Follows, Slots
<1>2. /\ l = Smaller(m, RingLimit)
      /\ l < RingLimit => s = 0
      /\ \A j \in Slots :
            /\ j >= s /\ j < s + l => b[j] = m - l + (j - s) + 1
            /\ j < s => b[j] = m - s + j + 1
  BY DEF RingHolds
<1>3. i0 = (IF s + l < RingLimit THEN s + l ELSE s + l - RingLimit) /\ i0 \in Slots
  <2> DEFINE x == s + l
  <2>1. x \in Nat /\ x < 2 * RingLimit
    BY <1>1, Limits
  <2>2. i0 = IF x < RingLimit THEN x ELSE x - RingLimit
    <3> HIDE DEF x
    <3>1. x % RingLimit = IF x < RingLimit THEN x ELSE x - RingLimit
      BY <2>1, Wrap, Zenon
    <3> QED BY <3>1 DEF x
  <2> QED BY <1>1, <2>1, <2>2, Limits DEF Slots
<1> HIDE DEF i0
<1>4. /\ c \in [Slots -> Nat]
      /\ \A j \in Slots :
            /\ j >= i0 /\ j < i0 + Len(p) => c[j] = p[j - i0 + 1]
            /\ j < i0 + Len(p) - RingLimit => c[j] = p[RingLimit - i0 + j + 1]
            /\ j >= i0 + Len(p) - RingLimit /\ (j < i0 \/ j >= i0 + Len(p))
                  => c[j] = b[j]
  <2>1. i0 \in Slots
    BY <1>3
  <2>2. p \in Seq(Nat) /\ Len(p) <= RingLimit
    BY <1>1
  <2> QED BY <2>1, <2>2, CopyAtReads, ZenonT(30)
<1> HIDE DEF c, n
<1>5. l + n = Smaller(m + n, RingLimit) /\ (l + n < RingLimit => s = 0)
  <2>1. CASE l < RingLimit
    <3>1. l = m /\ l + n <= RingLimit
      BY <1>1, <1>2, <2>1, Limits DEF Smaller, n
    <3> QED BY <1>1, <1>2, <2>1, <3>1, Limits DEF Smaller
  <2>2. CASE l = RingLimit
    <3>1. n = 0
      BY <1>1, <2>2, Limits DEF n
    <3> QED BY <1>1, <1>2, <2>2, <3>1, Limits DEF Smaller
  <2> QED BY <1>1, <2>1, <2>2, Limits
<1>6. ASSUME NEW j \in Slots
      PROVE  /\ j >= s /\ j < s + (l + n) => c[j] = (m + n) - (l + n) + (j - s) + 1
             /\ j < s => c[j] = (m + n) - s + j + 1
  <2>1. j \in Nat /\ j < RingLimit
    BY <1>1
  <2>2. CASE n = 0
    <3>1. c[j] = b[j]
      <4>1. i0 \in Nat /\ i0 < RingLimit
        BY <1>1, <1>3
      <4>2. j >= i0 + n - RingLimit /\ (j < i0 \/ j >= i0 + n)
        BY <2>1, <2>2, <4>1, Limits
      <4> QED BY <1>4, <4>2 DEF n
    <3> QED BY <1>1, <1>2, <2>1, <2>2, <3>1
  <2>3. CASE n > 0
    <3>1. l < RingLimit /\ s = 0 /\ i0 = l
      BY <1>1, <1>2, <1>3, <2>3, Limits DEF n
    <3>2. CASE j < l
      <4>1. c[j] = b[j]
        <5>1. j >= i0 + n - RingLimit /\ j < i0
          BY <1>1, <2>1, <3>1, <3>2, Limits DEF n
        <5> QED BY <1>4, <5>1 DEF n
      <4>2. b[j] = m - l + (j - s) + 1
        BY <1>2, <2>1, <3>1, <3>2
      <4> QED BY <1>1, <2>1, <3>1, <4>1, <4>2
    <3>3. CASE j >= l /\ j < l + n
      <4>1. c[j] = p[j - l + 1]
        BY <1>4, <3>1, <3>3 DEF n
      <4>2. j - l + 1 \in 1 .. Len(p)
        BY <1>1, <2>1, <3>3 DEF n
      <4>3. p[j - l + 1] = m + (j - l + 1)
        BY <4>2 DEF Follows
      <4> QED BY <1>1, <2>1, <3>1, <4>1, <4>3
    <3> QED BY <1>1, <2>1, <3>1, <3>2, <3>3
  <2> QED BY <1>1, <2>2, <2>3
<1>7. l + n \in Nat
  BY <1>1
<1>8. RingHolds(c, s, l + n, m + n)
  BY <1>1, <1>4, <1>5, <1>6 DEF RingHolds
<1> QED BY <1>8 DEF c, i0, n

(* Second copy of byteRing.write: a chunk shorter than the full ring       *)
(* overwrites the oldest bytes, and start moves past them.                 *)
LEMMA OverwriteHolds ==
    ASSUME NEW m \in Nat, NEW b, NEW s, RingHolds(b, s, RingLimit, m),
           NEW p, Follows(p, m), Len(p) < RingLimit
    PROVE  RingHolds(CopyAt(b, s, p), (s + Len(p)) % RingLimit,
                     RingLimit, m + Len(p))
<1> DEFINE n == Len(p)
           c == CopyAt(b, s, p)
           e == (s + n) % RingLimit
<1>1. /\ p \in Seq(Nat) /\ n \in Nat /\ n < RingLimit
      /\ s \in Slots /\ s \in Nat /\ s < RingLimit
      /\ b \in [Slots -> Nat]
      /\ \A j \in Slots : j \in Nat /\ j < RingLimit
  BY Limits DEF Follows, RingHolds, Slots
<1>2. /\ RingLimit = Smaller(m, RingLimit)
      /\ \A j \in Slots :
            /\ j >= s => b[j] = m - RingLimit + (j - s) + 1
            /\ j < s => b[j] = m - s + j + 1
  <2>1. \A j \in Slots : j < s + RingLimit
    BY <1>1, Limits
  <2> QED BY <2>1 DEF RingHolds
<1>3. e = (IF s + n < RingLimit THEN s + n ELSE s + n - RingLimit) /\ e \in Slots
  <2> DEFINE x == s + n
  <2>1. x \in Nat /\ x < 2 * RingLimit
    BY <1>1, Limits
  <2>2. e = IF x < RingLimit THEN x ELSE x - RingLimit
    <3> HIDE DEF x
    <3>1. x % RingLimit = IF x < RingLimit THEN x ELSE x - RingLimit
      BY <2>1, Wrap, Zenon
    <3> QED BY <3>1 DEF x
  <2> QED BY SMTT(20), <1>1, <2>1, <2>2, Limits DEF Slots
<1> HIDE DEF e
<1>4. /\ c \in [Slots -> Nat]
      /\ \A j \in Slots :
            /\ j >= s /\ j < s + Len(p) => c[j] = p[j - s + 1]
            /\ j < s + Len(p) - RingLimit => c[j] = p[RingLimit - s + j + 1]
            /\ j >= s + Len(p) - RingLimit /\ (j < s \/ j >= s + Len(p))
                  => c[j] = b[j]
  <2>1. p \in Seq(Nat) /\ Len(p) <= RingLimit
    BY <1>1, Limits
  <2>2. b \in [Slots -> Nat] /\ s \in Slots
    BY <1>1
  <2> QED BY <2>1, <2>2, CopyAtReads, Zenon
<1> HIDE DEF c, n
<1>5. RingLimit = Smaller(m + n, RingLimit)
  BY <1>1, <1>2, Limits DEF Smaller
<1>6. ASSUME NEW j \in Slots
      PROVE  /\ j >= e => c[j] = (m + n) - RingLimit + (j - e) + 1
             /\ j < e => c[j] = (m + n) - e + j + 1
  <2>1. j \in Nat /\ j < RingLimit
    BY <1>1
  <2>2. CASE j >= s /\ j < s + n
    <3>1. c[j] = p[j - s + 1]
      BY <1>4, <2>2 DEF n
    <3>2. j - s + 1 \in 1 .. Len(p)
      BY <1>1, <2>1, <2>2 DEF n
    <3>3. p[j - s + 1] = m + (j - s + 1)
      BY <3>2 DEF Follows
    <3> QED BY <1>1, <1>3, <2>1, <2>2, <3>1, <3>3, Limits
  <2>3. CASE j < s + n - RingLimit
    <3>1. c[j] = p[RingLimit - s + j + 1]
      BY <1>4, <2>3 DEF n
    <3>2. RingLimit - s + j + 1 \in 1 .. Len(p)
      BY <1>1, <2>1, <2>3, Limits DEF n
    <3>3. p[RingLimit - s + j + 1] = m + (RingLimit - s + j + 1)
      BY <3>2 DEF Follows
    <3> QED BY <1>1, <1>3, <2>1, <2>3, <3>1, <3>3, Limits
  <2>4. CASE j >= s + n - RingLimit /\ j < s
    <3>1. c[j] = b[j]
      BY <1>4, <2>4 DEF n
    <3>2. b[j] = m - s + j + 1
      BY <1>2, <2>4
    <3> QED BY <1>1, <1>3, <2>1, <2>4, <3>1, <3>2, Limits
  <2>5. CASE j >= s + n
    <3>1. c[j] = b[j]
      <4>1. j >= s + n - RingLimit
        BY <1>1, <2>1, <2>5, Limits
      <4> QED BY <1>4, <2>5, <4>1 DEF n
    <3>2. b[j] = m - RingLimit + (j - s) + 1
      <4>1. j >= s
        BY <1>1, <2>1, <2>5
      <4> QED BY <1>2, <4>1
    <3> QED BY <1>1, <1>3, <2>1, <2>5, <3>1, <3>2, Limits
  <2> QED BY <1>1, <2>1, <2>2, <2>3, <2>4, <2>5, Limits
<1>7. RingHolds(c, e, RingLimit, m + n)
  BY <1>1, <1>3, <1>4, <1>5, <1>6, Limits DEF RingHolds
<1> QED BY <1>7 DEF c, e, n

(* byteRing.write as a whole.                                              *)
LEMMA RingWriteHolds ==
    ASSUME NEW m \in Nat, NEW r \in RingType,
           RingHolds(r.buf, r.start, r.length, m),
           NEW p, Follows(p, m)
    PROVE  /\ RingWrite(r, p) \in RingType
           /\ RingHolds(RingWrite(r, p).buf, RingWrite(r, p).start,
                        RingWrite(r, p).length, m + Len(p))
<1> DEFINE b == r.buf
           s == r.start
           l == r.length
           n == Len(p)
           add == Smaller(RingLimit - l, n)
           fill == CopyAt(b, (s + l) % RingLimit, SubSeq(p, 1, add))
           rest == SubSeq(p, add + 1, n)
           last == SubSeq(p, n - RingLimit + 1, n)
           w == RingWrite(r, p)
<1>1. /\ b \in [Slots -> Nat] /\ s \in Slots /\ l \in 0 .. RingLimit
      /\ p \in Seq(Nat) /\ n \in Nat
      /\ \A j \in Slots : j \in Nat /\ j < RingLimit
  BY Limits DEF RingType, Follows, Slots
<1>2. RingHolds(b, s, l, m)
  OBVIOUS
<1>3. w = IF n >= RingLimit
          THEN [buf |-> CopyAt(b, 0, last), start |-> 0, length |-> RingLimit]
          ELSE [buf    |-> CopyAt(fill, s, rest),
                start  |-> (s + (n - add)) % RingLimit,
                length |-> l + add]
  BY DEF RingWrite
<1> HIDE DEF b, s, l, n, fill, rest, last, w
<1>4. CASE n >= RingLimit
  <2> DEFINE c == CopyAt(b, 0, last)
  <2>1. n - RingLimit \in Nat /\ n - RingLimit <= n /\ n - (n - RingLimit) = RingLimit
    BY <1>1, <1>4, Limits
  <2>2. Follows(last, m + (n - RingLimit)) /\ Len(last) = RingLimit
    <3> DEFINE a == n - RingLimit
    <3>1. a \in Nat /\ n \in Nat /\ a <= n /\ n <= Len(p)
      BY <1>1, <2>1 DEF n
    <3> HIDE DEF a
    <3>2. Follows(SubSeq(p, a + 1, n), m + a) /\ Len(SubSeq(p, a + 1, n)) = n - a
      BY <3>1, PieceFollows
    <3> QED BY <2>1, <3>2 DEF last, a
  <2>3. 0 \in Slots /\ last \in Seq(Nat) /\ Len(last) <= RingLimit
    BY <2>2, Limits DEF Slots, Follows
  <2>4. /\ c \in [Slots -> Nat]
        /\ \A j \in Slots :
              /\ j >= 0 /\ j < 0 + Len(last) => c[j] = last[j - 0 + 1]
              /\ j < 0 + Len(last) - RingLimit => c[j] = last[RingLimit - 0 + j + 1]
              /\ j >= 0 + Len(last) - RingLimit /\ (j < 0 \/ j >= 0 + Len(last))
                    => c[j] = b[j]
    BY <1>1, <2>3, CopyAtReads, Zenon
  <2> HIDE DEF c
  <2>5. ASSUME NEW j \in Slots PROVE c[j] = (m + n) - RingLimit + (j - 0) + 1
    <3>1. j \in Nat /\ j < RingLimit /\ j + 1 \in 1 .. Len(last)
      BY <1>1, <2>2, Limits
    <3>2. c[j] = last[j + 1]
      <4>1. j >= 0 /\ j < 0 + Len(last) /\ j - 0 + 1 = j + 1
        BY <2>2, <3>1, Limits
      <4> QED BY <2>4, <4>1
    <3>3. last[j + 1] = m + (n - RingLimit) + (j + 1)
      BY <2>2, <3>1 DEF Follows
    <3> QED BY <1>1, <2>1, <3>1, <3>2, <3>3, Limits
  <2>6. RingLimit = Smaller(m + n, RingLimit) /\ m + n \in Nat
    BY <1>1, <1>4, Limits DEF Smaller
  <2>7. ASSUME NEW j \in Slots PROVE ~(j < 0)
    BY <1>1
  <2>8. RingHolds(c, 0, RingLimit, m + n)
    BY <2>3, <2>4, <2>5, <2>6, <2>7, Limits DEF RingHolds
  <2>9. w = [buf |-> c, start |-> 0, length |-> RingLimit]
    BY <1>3, <1>4 DEF c
  <2>10. RingLimit \in 0 .. RingLimit
    BY Limits
  <2> QED BY <2>3, <2>4, <2>8, <2>9, <2>10 DEF RingType, w, n
<1>5. CASE ~(n >= RingLimit)
  <2>1. /\ add \in Nat /\ add <= n /\ add <= RingLimit - l /\ n < RingLimit
        /\ l \in Nat /\ l <= RingLimit
        /\ add = n \/ l + add = RingLimit
    BY <1>1, <1>5, Limits DEF Smaller
  <2> HIDE DEF add
  <2>2. /\ Follows(SubSeq(p, 1, add), m) /\ Len(SubSeq(p, 1, add)) = add
    <3>1. add \in Nat /\ add <= Len(p)
      BY <2>1 DEF n
    <3> QED BY <3>1, FrontFollows
  <2>3. Follows(rest, m + add) /\ Len(rest) = n - add
    <3>1. add \in Nat /\ n \in Nat /\ add <= n /\ n <= Len(p)
      BY <1>1, <2>1 DEF n
    <3>2. Follows(SubSeq(p, add + 1, n), m + add) /\ Len(SubSeq(p, add + 1, n)) = n - add
      BY <3>1, PieceFollows
    <3> QED BY <3>2 DEF rest
  <2>4. RingHolds(fill, s, l + add, m + add)
    <3> DEFINE q == SubSeq(p, 1, add)
    <3>1. Follows(q, m) /\ Len(q) = add
      BY <2>2
    <3> HIDE DEF q
    <3>2. Len(q) <= RingLimit - l
      BY <2>1, <3>1
    <3>3. RingHolds(CopyAt(b, (s + l) % RingLimit, q), s, l + Len(q), m + Len(q))
      BY <1>1, <1>2, <3>1, <3>2, FillHolds, Zenon
    <3> QED BY <3>1, <3>3 DEF fill, q
  <2>5. w = [buf    |-> CopyAt(fill, s, rest),
             start  |-> (s + (n - add)) % RingLimit,
             length |-> l + add]
    BY <1>3, <1>5
  <2>6. CASE add = n
    <3>1. /\ (s + (n - add)) % RingLimit = s
          /\ rest = <<>>
          /\ fill \in [Slots -> Nat]
      <4>1. s \in Nat /\ s < RingLimit
        BY <1>1
      <4>2. s + (n - add) = s
        BY <2>1, <2>6, <4>1
      <4>3. s % RingLimit = s
        BY <4>1, Limits
      <4>4. rest \in Seq(Nat) /\ Len(rest) = 0
        BY <1>1, <2>1, <2>3, <2>6 DEF Follows
      <4> QED BY <2>4, <4>2, <4>3, <4>4 DEF RingHolds
    <3>2. CopyAt(fill, s, rest) = fill
      <4> DEFINE c == CopyAt(fill, s, rest)
      <4>1. ASSUME NEW j \in Slots PROVE c[j] = fill[j]
        BY <1>1, <3>1, Limits DEF CopyAt, Smaller
      <4>2. c = [j \in Slots |-> c[j]] /\ fill = [j \in Slots |-> fill[j]]
        BY <3>1 DEF CopyAt
      <4> HIDE DEF c
      <4>3. c = fill
        BY <4>1, <4>2
      <4> QED BY <4>3 DEF c
    <3>3. w = [buf |-> fill, start |-> s, length |-> l + add]
      BY <2>5, <3>1, <3>2
    <3>4. l + add \in 0 .. RingLimit
      BY <2>1, Limits
    <3> QED BY <1>1, <2>4, <2>6, <3>1, <3>3, <3>4 DEF RingType, w, n
  <2>7. CASE l + add = RingLimit
    <3> DEFINE k == m + add
    <3>1. k \in Nat /\ RingHolds(fill, s, RingLimit, k) /\ Follows(rest, k)
      BY <2>1, <2>3, <2>4, <2>7
    <3>2. Len(rest) < RingLimit
      BY <1>1, <2>1, <2>3, Limits
    <3> HIDE DEF k
    <3>3. RingHolds(CopyAt(fill, s, rest), (s + Len(rest)) % RingLimit,
                    RingLimit, k + Len(rest))
      BY <3>1, <3>2, OverwriteHolds, Zenon
    <3>4. k + Len(rest) = m + n
      BY <1>1, <2>1, <2>3 DEF k
    <3>5. w = [buf    |-> CopyAt(fill, s, rest),
               start  |-> (s + Len(rest)) % RingLimit,
               length |-> RingLimit]
      BY <2>3, <2>5, <2>7
    <3>6. /\ CopyAt(fill, s, rest) \in [Slots -> Nat]
          /\ (s + Len(rest)) % RingLimit \in Slots
      BY <3>3 DEF RingHolds
    <3>7. RingLimit \in 0 .. RingLimit
      BY Limits
    <3> QED BY <3>3, <3>4, <3>5, <3>6, <3>7 DEF RingType, w, n
  <2> QED BY <2>1, <2>6, <2>7
<1> QED BY <1>1, <1>4, <1>5, Limits

-----------------------------------------------------------------------------
(* A chunk of the stream carries the positions after those received.       *)
LEMMA ChunkFollows ==
    ASSUME NEW n \in Nat, received \in Nat
    PROVE  Follows(Chunk(n), received) /\ Len(Chunk(n)) = n
BY DEF Chunk, Follows

(* Joining two consecutive pieces of the stream.                           *)
LEMMA JoinFollows ==
    ASSUME NEW p, Follows(p, 0), NEW q, Follows(q, Len(p))
    PROVE  Follows(p \o q, 0) /\ Len(p \o q) = Len(p) + Len(q)
<1>1. p \in Seq(Nat) /\ q \in Seq(Nat) /\ Len(p) \in Nat /\ Len(q) \in Nat
  BY DEF Follows
<1>2. p \o q \in Seq(Nat) /\ Len(p \o q) = Len(p) + Len(q)
  BY <1>1
<1>3. ASSUME NEW i \in 1 .. Len(p \o q) PROVE (p \o q)[i] = 0 + i
  <2>1. i \in Nat /\ i >= 1 /\ i <= Len(p) + Len(q)
    BY <1>1, <1>2
  <2>2. CASE i <= Len(p)
    <3>1. (p \o q)[i] = p[i] /\ i \in 1 .. Len(p)
      BY <1>1, <2>1, <2>2
    <3> QED BY <3>1 DEF Follows
  <2>3. CASE i > Len(p)
    <3>1. (p \o q)[i] = q[i - Len(p)] /\ i - Len(p) \in 1 .. Len(q)
      BY <1>1, <2>1, <2>3
    <3>2. q[i - Len(p)] = Len(p) + (i - Len(p))
      BY <3>1 DEF Follows
    <3> QED BY <1>1, <2>1, <3>1, <3>2
  <2> QED BY <1>1, <2>1, <2>2, <2>3
<1> QED BY <1>2, <1>3 DEF Follows

(* appendPrefix keeps the first limit bytes of what it is given.           *)
LEMMA PrefixFollows ==
    ASSUME NEW limit \in Nat, NEW p, Follows(p, 0), Len(p) <= limit,
           NEW q, Follows(q, Len(p))
    PROVE  /\ Follows(AppendPrefix(p, q, limit), 0)
           /\ Len(AppendPrefix(p, q, limit)) = Smaller(limit, Len(p) + Len(q))
<1> DEFINE k == Smaller(limit - Len(p), Len(q))
           t == SubSeq(q, 1, k)
<1>1. p \in Seq(Nat) /\ q \in Seq(Nat) /\ Len(p) \in Nat /\ Len(q) \in Nat
  BY DEF Follows
<1>2. k \in Nat /\ k <= Len(q) /\ Len(p) + k = Smaller(limit, Len(p) + Len(q))
  BY <1>1 DEF Smaller
<1> HIDE DEF k
<1>3. Follows(t, Len(p)) /\ Len(t) = k
  BY <1>1, <1>2, FrontFollows
<1> HIDE DEF t
<1>4. Follows(p \o t, 0) /\ Len(p \o t) = Len(p) + k
  BY <1>3, JoinFollows
<1> QED BY <1>2, <1>4 DEF AppendPrefix, t, k

(* A fresh ring holds nothing.                                             *)
LEMMA NewRingHolds ==
    /\ NewByteRing \in RingType
    /\ RingHolds(NewByteRing.buf, NewByteRing.start, NewByteRing.length, 0)
BY Limits DEF NewByteRing, RingType, RingHolds, Slots, Smaller

-----------------------------------------------------------------------------
LEMMA InitIInv == Init => IInv
<1> SUFFICES ASSUME Init PROVE IInv
  OBVIOUS
<1>1. <<>> \in Seq(Nat) /\ Len(<<>>) = 0
  OBVIOUS
<1>2. Follows(<<>>, 0)
  BY <1>1 DEF Follows
<1>3. received = 0 /\ truncated = FALSE /\ full = <<>> /\ head = <<>> /\ tail = NewByteRing
  BY DEF Init
<1>4. 0 \in Nat /\ 0 <= Budget /\ FALSE \in BOOLEAN
  BY Limits
<1> QED BY <1>1, <1>2, <1>3, <1>4 DEF IInv

LEMMA NextIInv == IInv /\ [Next]_vars => IInv'
<1> SUFFICES ASSUME IInv, [Next]_vars PROVE IInv'
  OBVIOUS
<1>1. CASE UNCHANGED vars
  BY <1>1 DEF IInv, vars, Follows, RingHolds, RingType, NewByteRing
<1>2. ASSUME NEW n \in 1 .. MaxChunk, Write(n) PROVE IInv'
  <2> DEFINE p == Chunk(n)
  <2>1. n \in Nat /\ n > 0 /\ received \in Nat /\ received' = received + n
    BY <1>2, LimitsAssumption DEF Write, IInv
  <2>2. Follows(p, received) /\ Len(p) = n
    BY <2>1, ChunkFollows
  <2>3. Follows(full, 0) /\ Follows(head, 0)
    BY DEF IInv
  <2> HIDE DEF p
  <2>4. CASE WriteRing(p)
    <3>1. /\ truncated /\ truncated' = truncated /\ full' = full /\ head' = head
          /\ tail' = RingWrite(tail, p)
      BY <2>4 DEF WriteRing
    <3>2. /\ received > Budget /\ full = <<>> /\ Len(head) = HeadLimit
          /\ RingHolds(tail.buf, tail.start, tail.length, received)
          /\ tail \in RingType
      BY <3>1 DEF IInv
    <3>3. /\ RingHolds(tail'.buf, tail'.start, tail'.length, received + n)
          /\ tail' \in RingType
      BY <2>1, <2>2, <3>1, <3>2, RingWriteHolds
    <3>4. received + n \in Nat /\ received + n > Budget
      BY <2>1, <3>2, Limits
    <3> QED BY <2>1, <2>3, <3>1, <3>2, <3>3, <3>4 DEF IInv
  <2>5. CASE WriteFull(p)
    <3>1. /\ ~truncated /\ truncated' = truncated /\ head' = head /\ tail' = tail
          /\ full' = full \o p /\ Len(full) + Len(p) <= Budget
      BY <2>5 DEF WriteFull
    <3>2. Len(full) = received /\ head = <<>> /\ tail = NewByteRing
      BY <3>1 DEF IInv
    <3>3. Follows(full', 0) /\ Len(full') = received + n
      BY <2>2, <2>3, <3>1, <3>2, JoinFollows
    <3>4. received + n \in Nat /\ received + n <= Budget
      BY <2>1, <2>2, <3>1, <3>2
    <3>5. truncated \in BOOLEAN
      BY DEF IInv
    <3> QED BY <2>1, <2>3, <3>1, <3>2, <3>3, <3>4, <3>5 DEF IInv
  <2>6. CASE Truncate(p)
    <3> DEFINE h == AppendPrefix(<<>>, full, HeadLimit)
               r == RingWrite(NewByteRing, full)
    <3>1. /\ ~truncated /\ truncated' = TRUE /\ full' = <<>>
          /\ head' = AppendPrefix(h, p, HeadLimit) /\ tail' = RingWrite(r, p)
          /\ Len(full) + Len(p) > Budget
      BY <2>6 DEF Truncate
    <3>2. Len(full) = received
      BY <3>1 DEF IInv
    <3>3. /\ r \in RingType
          /\ RingHolds(r.buf, r.start, r.length, 0 + received)
      BY <2>3, <3>2, NewRingHolds, RingWriteHolds
    <3>4. received + n \in Nat /\ received + n > Budget /\ 0 + received = received
      BY <2>1, <2>2, <3>1, <3>2
    <3> HIDE DEF r
    <3>5. tail' \in RingType /\ RingHolds(tail'.buf, tail'.start, tail'.length, received + n)
      BY <2>1, <2>2, <3>1, <3>3, <3>4, RingWriteHolds
    <3>6. <<>> \in Seq(Nat) /\ Len(<<>>) = 0 /\ Follows(<<>>, 0)
      BY DEF Follows
    <3>7. Follows(h, 0) /\ Len(h) = Smaller(HeadLimit, received)
      <4> DEFINE e == <<>>
      <4>1. /\ HeadLimit \in Nat /\ Follows(e, 0) /\ Len(e) <= HeadLimit
            /\ Follows(full, Len(e)) /\ Len(e) = 0
        BY <2>3, <3>6, Limits
      <4> HIDE DEF e
      <4>2. /\ Follows(AppendPrefix(e, full, HeadLimit), 0)
            /\ Len(AppendPrefix(e, full, HeadLimit)) = Smaller(HeadLimit, Len(e) + Len(full))
        BY <4>1, PrefixFollows, Zenon
      <4>3. Len(e) + Len(full) = received
        BY <2>1, <3>2, <4>1
      <4> QED BY <4>2, <4>3 DEF e
    <3> HIDE DEF h
    <3>8. Follows(head', 0) /\ Len(head') = HeadLimit
      <4>1. CASE HeadLimit <= received
        <5>1. Len(h) = HeadLimit
          BY <3>7, <4>1 DEF Smaller
        <5>2. head' = h
          BY <2>2, <3>1, <3>7, <5>1, Limits DEF AppendPrefix, Follows, Smaller
        <5> QED BY <3>7, <5>1, <5>2
      <4>2. CASE HeadLimit > received
        <5>1. Len(h) = received /\ Len(h) <= HeadLimit
          BY <2>1, <3>7, <4>2, Limits DEF Smaller
        <5>2. Follows(head', 0) /\ Len(head') = Smaller(HeadLimit, received + n)
          <6>1. HeadLimit \in Nat /\ Follows(h, 0) /\ Follows(p, Len(h)) /\ Len(h) <= HeadLimit
            BY <2>2, <3>7, <5>1, Limits
          <6>2. /\ Follows(AppendPrefix(h, p, HeadLimit), 0)
                /\ Len(AppendPrefix(h, p, HeadLimit)) = Smaller(HeadLimit, Len(h) + Len(p))
            BY <6>1, PrefixFollows, Zenon
          <6> QED BY <2>2, <3>1, <5>1, <6>2
        <5>3. HeadLimit <= received + n
          BY <2>1, <3>4, Limits
        <5> QED BY <5>2, <5>3 DEF Smaller
      <4> QED BY <2>1, <4>1, <4>2, Limits
    <3> QED BY <2>1, <3>1, <3>4, <3>5, <3>6, <3>8 DEF IInv
  <2> QED BY <1>2, <2>4, <2>5, <2>6 DEF Write, p
<1> QED BY <1>1, <1>2 DEF Next

-----------------------------------------------------------------------------
(* A sequence is determined by its length and elements.                    *)
LEMMA FollowsIsPositions ==
    ASSUME NEW m \in Nat, NEW p, Follows(p, m)
    PROVE  p = Positions(m + 1, m + Len(p))
<1>1. p \in Seq(Nat) /\ Len(p) \in Nat
  BY DEF Follows
<1>2. p = [i \in 1 .. Len(p) |-> p[i]]
  BY <1>1
<1>3. \A i \in 1 .. Len(p) : p[i] = (m + 1) + i - 1
  BY <1>1 DEF Follows
<1>4. (m + Len(p)) - (m + 1) + 1 = Len(p)
  BY <1>1
<1> QED BY <1>2, <1>3, <1>4 DEF Positions

(* bytes() lists the positions the ring holds, oldest first.               *)
LEMMA RingBytesFollows ==
    ASSUME NEW m \in Nat, NEW r \in RingType,
           RingHolds(r.buf, r.start, r.length, m)
    PROVE  /\ Len(RingBytes(r)) = Smaller(m, RingLimit)
           /\ Follows(RingBytes(r), m - Smaller(m, RingLimit))
<1> DEFINE b == r.buf
           s == r.start
           l == r.length
           f == Smaller(l, RingLimit - s)
           w == RingBytes(r)
<1>1. /\ b \in [Slots -> Nat] /\ s \in Slots /\ s \in Nat /\ s < RingLimit
      /\ l \in Nat /\ l <= RingLimit
      /\ l = Smaller(m, RingLimit)
      /\ l < RingLimit => s = 0
      /\ \A j \in Slots :
            /\ j >= s /\ j < s + l => b[j] = m - l + (j - s) + 1
            /\ j < s => b[j] = m - s + j + 1
  BY Limits DEF RingType, RingHolds, Slots
<1>2. w = [i \in 1 .. l |-> IF i <= f THEN b[s + i - 1] ELSE b[i - f - 1]]
  BY DEF RingBytes
<1> HIDE DEF b, s, l, w
<1>3. /\ f \in Nat /\ f <= l /\ s + f <= RingLimit
      /\ f < l => f = RingLimit - s /\ l = RingLimit
  BY <1>1, Limits DEF Smaller
<1> HIDE DEF f
<1>4. ASSUME NEW i \in 1 .. l PROVE w[i] = m - l + i
  <2>1. i \in Nat /\ i >= 1 /\ i <= l
    BY <1>1
  <2>2. CASE i <= f
    <3>1. /\ s + i - 1 \in Slots /\ s + i - 1 >= s /\ s + i - 1 < s + l
      BY <1>1, <1>3, <2>1, <2>2, Limits DEF Slots
    <3>2. b[s + i - 1] = m - l + ((s + i - 1) - s) + 1
      BY <1>1, <3>1
    <3> QED BY <1>1, <1>2, <2>1, <2>2, <3>2
  <2>3. CASE i > f
    <3>1. f = RingLimit - s /\ l = RingLimit
      BY <1>1, <1>3, <2>1, <2>3
    <3>2. i - f - 1 \in Slots /\ i - f - 1 < s
      BY <1>1, <1>3, <2>1, <2>3, <3>1, Limits DEF Slots
    <3>3. b[i - f - 1] = m - s + (i - f - 1) + 1
      BY <1>1, <3>2
    <3>4. w[i] = b[i - f - 1]
      BY <1>2, <1>3, <2>1, <2>3
    <3> QED BY <1>1, <1>3, <2>1, <3>1, <3>3, <3>4, Limits
  <2> QED BY <1>3, <2>1, <2>2, <2>3
<1>5. m - l \in Nat
  BY <1>1, Limits DEF Smaller
<1>6. w \in Seq(Nat) /\ Len(w) = l
  <2>1. \A i \in 1 .. l : w[i] \in Nat
    BY <1>1, <1>4, <1>5
  <2>2. w = [i \in 1 .. l |-> w[i]]
    BY <1>2
  <2> QED BY <1>1, <2>1, <2>2
<1> QED BY <1>1, <1>4, <1>5, <1>6 DEF Follows, w

(* The window of a truncated collector: its last TailLimit bytes are the   *)
(* tail, and at least one byte of context precedes them.                   *)
LEMMA WindowFollows ==
    ASSUME IInv, truncated
    PROVE  /\ Len(Window) = Smaller(received, RingLimit)
           /\ Follows(Window, received - Len(Window))
           /\ Len(Window) \in Nat /\ Len(Window) <= received
           /\ TailStart = Len(Window) - TailLimit
           /\ TailStart \in Nat
<1>1. /\ received \in Nat /\ received > Budget /\ tail \in RingType
      /\ RingHolds(tail.buf, tail.start, tail.length, received)
  BY DEF IInv
<1>2. /\ Len(Window) = Smaller(received, RingLimit)
      /\ Follows(Window, received - Smaller(received, RingLimit))
  BY <1>1, RingBytesFollows, Zenon DEF Window
<1>3. /\ Smaller(received, RingLimit) \in Nat
      /\ Smaller(received, RingLimit) <= received
      /\ Smaller(received, RingLimit) > TailLimit
  BY <1>1, Limits DEF Smaller
<1> QED BY <1>2, <1>3, Limits DEF TailStart

LEMMA IInvTypeOK == IInv => TypeOK
<1> SUFFICES ASSUME IInv PROVE TypeOK
  OBVIOUS
<1>1. /\ received \in Nat /\ truncated \in BOOLEAN
      /\ full \in Seq(Nat) /\ head \in Seq(Nat)
  BY DEF IInv, Follows
<1>2. CASE truncated
  <2>1. full = <<>> /\ Len(head) = HeadLimit /\ tail \in RingType
    BY <1>2 DEF IInv
  <2> QED BY <1>1, <2>1, Limits DEF TypeOK, RingType
<1>3. CASE ~truncated
  <2>1. Len(full) <= Budget /\ head = <<>> /\ tail = NewByteRing
    BY <1>3 DEF IInv
  <2> QED BY <1>1, <2>1, NewRingHolds, Limits DEF TypeOK, RingType
<1> QED BY <1>2, <1>3

LEMMA IInvSnapshotExact == IInv => SnapshotExact
<1> SUFFICES ASSUME IInv, NEW trim \in Trims, NEW skip \in Skips
             PROVE  Snapshot(trim, skip) =
                        IF received <= Budget
                        THEN [received |-> received, head |-> Positions(1, received),
                              omitted |-> 0, tail |-> <<>>]
                        ELSE [received |-> received,
                              head     |-> Positions(1, HeadLimit - trim),
                              omitted  |-> received - Budget + trim + skip,
                              tail     |-> Positions(received - TailLimit + 1 + skip,
                                                     received)]
  BY DEF SnapshotExact
<1>1. received \in Nat /\ Follows(full, 0) /\ Follows(head, 0)
  BY DEF IInv
<1>2. CASE ~truncated
  <2>1. Len(full) = received /\ received <= Budget
    BY <1>2 DEF IInv
  <2>2. full = Positions(0 + 1, 0 + received)
    BY <1>1, <2>1, FollowsIsPositions
  <2> QED BY <1>1, <1>2, <2>1, <2>2 DEF Snapshot
<1>3. CASE truncated
  <2> DEFINE rawTail == SubSeq(Window, TailStart + 1, Len(Window))
  <2>1. received > Budget /\ Len(head) = HeadLimit
    BY <1>3 DEF IInv
  <2>2. /\ Follows(Window, received - Len(Window))
        /\ Len(Window) \in Nat /\ Len(Window) <= received
        /\ TailStart = Len(Window) - TailLimit /\ TailStart \in Nat
    BY <1>3, WindowFollows
  <2>3. /\ Follows(rawTail, received - TailLimit)
        /\ Len(rawTail) = TailLimit
    <3> DEFINE m == received - Len(Window)
               e == Len(Window)
               a == TailStart
    <3>1. /\ m \in Nat /\ Follows(Window, m) /\ a \in Nat /\ e \in Nat
          /\ a <= e /\ e <= Len(Window)
      BY <1>1, <2>2, Limits
    <3>2. m + a = received - TailLimit /\ e - a = TailLimit
      BY <1>1, <2>2, Limits
    <3> HIDE DEF m, e, a
    <3>3. Follows(SubSeq(Window, a + 1, e), m + a) /\ Len(SubSeq(Window, a + 1, e)) = e - a
      BY <3>1, PieceFollows
    <3> QED BY <3>2, <3>3 DEF a, e
  <2>4. /\ trim \in Nat /\ trim <= HeadLimit
        /\ skip \in Nat /\ skip <= TailLimit
    BY <2>1, <2>2, Limits DEF Trims, Skips, Smaller
  <2> HIDE DEF rawTail
  <2>5. SubSeq(head, 1, Len(head) - trim) = Positions(1, HeadLimit - trim)
    <3> DEFINE k == HeadLimit - trim
    <3>1. k \in Nat /\ k <= Len(head) /\ Len(head) - trim = k
      BY <2>1, <2>4, Limits
    <3> HIDE DEF k
    <3>2. Follows(SubSeq(head, 1, k), 0) /\ Len(SubSeq(head, 1, k)) = k
      BY <1>1, <3>1, FrontFollows
    <3>3. SubSeq(head, 1, k) = Positions(0 + 1, 0 + k)
      BY <3>2, FollowsIsPositions
    <3> QED BY <3>1, <3>3 DEF k
  <2>6. SubSeq(rawTail, skip + 1, Len(rawTail))
            = Positions(received - TailLimit + 1 + skip, received)
    <3> DEFINE m == received - TailLimit
               e == Len(rawTail)
               t == SubSeq(rawTail, skip + 1, e)
    <3>1. /\ m \in Nat /\ Follows(rawTail, m) /\ e \in Nat
          /\ skip <= e /\ e <= Len(rawTail)
      BY <1>1, <2>1, <2>3, <2>4, Limits
    <3>2. m + e = received /\ e = TailLimit
      BY <1>1, <2>1, <2>3, Limits
    <3> HIDE DEF m, e
    <3>3. Follows(t, m + skip) /\ Len(t) = e - skip
      BY <2>4, <3>1, PieceFollows
    <3>4. t = Positions((m + skip) + 1, (m + skip) + (e - skip))
      <4>1. m + skip \in Nat
        BY <2>4, <3>1
      <4> HIDE DEF t
      <4> QED BY <3>3, <4>1, FollowsIsPositions
    <3>5. (m + skip) + 1 = received - TailLimit + 1 + skip
      BY <1>1, <2>4, Limits DEF m
    <3>6. (m + skip) + (e - skip) = received
      BY <2>4, <3>1, <3>2
    <3> QED BY <3>4, <3>5, <3>6 DEF e
  <2>7. received - Len(head) - Len(rawTail) + trim + skip = received - Budget + trim + skip
    BY <1>1, <2>1, <2>3, <2>4, Limits
  <2>8. ~(received <= Budget)
    BY <1>1, <2>1, Limits
  <2> QED BY <1>3, <2>5, <2>6, <2>7, <2>8 DEF Snapshot, rawTail
<1> QED BY <1>2, <1>3 DEF IInv

LEMMA IInvContextExact == IInv => ContextExact
<1> SUFFICES ASSUME IInv, truncated PROVE ContextExact
  BY DEF ContextExact
<1> DEFINE kept == Smaller(Context, received - TailLimit)
<1>1. received \in Nat /\ received > Budget
  BY DEF IInv
<1>2. /\ Len(Window) = Smaller(received, RingLimit)
      /\ Follows(Window, received - Len(Window))
      /\ Len(Window) \in Nat /\ Len(Window) <= received
      /\ TailStart = Len(Window) - TailLimit /\ TailStart \in Nat
  BY WindowFollows
<1>3. TailStart = kept
  BY <1>1, <1>2, Limits DEF Smaller
<1> HIDE DEF kept
<1> DEFINE m == received - Len(Window)
<1>4. /\ m \in Nat /\ Follows(Window, m) /\ kept \in Nat /\ kept <= Len(Window)
      /\ m + 1 = received - TailLimit - kept + 1
      /\ m + kept = received - TailLimit
  BY <1>1, <1>2, <1>3, Limits
<1> HIDE DEF m
<1>5. Follows(SubSeq(Window, 1, kept), m) /\ Len(SubSeq(Window, 1, kept)) = kept
  BY <1>4, FrontFollows
<1>6. SubSeq(Window, 1, kept) = Positions(m + 1, m + kept)
  BY <1>4, <1>5, FollowsIsPositions
<1> QED BY <1>3, <1>4, <1>6 DEF ContextExact, ContextBytes, kept

-----------------------------------------------------------------------------
LEMMA Invariance == Spec => []IInv
BY InitIInv, NextIInv, PTL DEF Spec

(* The ring never indexes outside its buffer and the retained bytes never  *)
(* outgrow the limits, for every limits and every chunking.                *)
THEOREM TypeCorrect == Spec => []TypeOK
BY Invariance, IInvTypeOK, PTL

(* A snapshot is exactly the head and the tail of the stream, for every    *)
(* limits, every stream and every way of cutting it into writes.           *)
THEOREM SnapshotCorrect == Spec => []SnapshotExact
BY Invariance, IInvSnapshotExact, PTL

(* The context handed to splitUTF8Prefix is what preceded the tail.        *)
THEOREM ContextCorrect == Spec => []ContextExact
BY Invariance, IInvContextExact, PTL

-----------------------------------------------------------------------------
(***************************************************************************)
(* The collector over bytes: what is trimmed at the cut.                   *)
(***************************************************************************)
(* utf8ContextBytes is three.                                              *)
LEMMA ContextIsThree == UTF8ContextBytes = 3 /\ Context = 3 /\ UTFMax = 4
BY ContextAssumption DEF UTF8ContextBytes, UTFMax

(* incompleteUTF8Suffix returns at most three bytes of those there are.    *)
LEMMA SuffixBounded ==
    ASSUME NEW v, Len(v) \in Nat
    PROVE  IncompleteUTF8Suffix(v) \in 0 .. Smaller(3, Len(v))
<1> DEFINE starts == {i \in LastPositions(v) :
                         ValidIncompleteUTF8Prefix(SubSeq(v, i, Len(v)))}
<1>1. starts \subseteq {i \in 1 .. Len(v) : i > Len(v) - 3}
  BY ContextIsThree DEF LastPositions
<1>2. IncompleteUTF8Suffix(v) = IF starts = {} THEN 0 ELSE Len(v) - Least(starts) + 1
  BY DEF IncompleteUTF8Suffix
<1> HIDE DEF starts
<1>3. CASE starts = {}
  BY <1>2, <1>3 DEF Smaller
<1>4. CASE starts # {}
  <2>1. Least(starts) \in starts
    BY <1>1, <1>4, LeastPosition
  <2> DEFINE l == Least(starts)
  <2>2. l \in {i \in 1 .. Len(v) : i > Len(v) - 3}
    BY <1>1, <2>1
  <2> HIDE DEF l
  <2>3. l \in Nat /\ l >= 1 /\ l <= Len(v) /\ l > Len(v) - 3
    BY <2>2
  <2>4. IncompleteUTF8Suffix(v) = Len(v) - l + 1
    BY <1>2, <1>4 DEF l
  <2> QED BY <2>3, <2>4 DEF Smaller
<1> QED BY <1>3, <1>4

(* splitUTF8Prefix returns at most three bytes of those the tail has.      *)
LEMMA PrefixBounded ==
    ASSUME NEW D, NEW context \in Seq(D), NEW t \in Seq(D)
    PROVE  SplitUTF8Prefix(context, t) \in 0 .. Smaller(3, Len(t))
<1> DEFINE k == IF Len(t) > UTFMax THEN UTFMax ELSE Len(t)
           window == context \o SubSeq(t, 1, k)
           boundary == Len(context)
           end(i) == i + UTF8SequenceLength(window[i]) - 1
           starts == {i \in LastPositions(context) :
                         /\ end(i) > boundary /\ end(i) <= Len(window)
                         /\ ValidRune(SubSeq(window, i, end(i)))}
<1>1. SplitUTF8Prefix(context, t) = IF starts = {} THEN 0 ELSE end(Least(starts)) - boundary
  BY DEF SplitUTF8Prefix
<1>2. Len(t) \in Nat /\ boundary \in Nat /\ k \in Nat /\ k <= Len(t)
  BY ContextIsThree
<1>3. Len(window) = boundary + k
  <2>1. SubSeq(t, 1, k) \in Seq(D) /\ Len(SubSeq(t, 1, k)) = k
    BY <1>2
  <2> QED BY <2>1
<1>4. starts \subseteq {i \in 1 .. boundary : i > boundary - 3}
  BY ContextIsThree DEF LastPositions
<1>5. CASE starts = {}
  <2>1. SplitUTF8Prefix(context, t) = 0
    BY <1>1, <1>5
  <2> HIDE DEF starts, end, window, boundary, k
  <2> QED BY <1>2, <2>1 DEF Smaller
<1>6. CASE starts # {}
  <2> DEFINE l == Least(starts)
             w == UTF8SequenceLength(window[l])
  <2>1. l \in starts
    <3> HIDE DEF starts
    <3> QED BY <1>2, <1>4, <1>6, LeastPosition
  <2>2. l \in Nat /\ l >= 1 /\ l <= boundary
    <3> HIDE DEF starts, l
    <3> QED BY <1>2, <1>4, <2>1
  <2>3. end(l) > boundary /\ end(l) <= Len(window)
    BY <2>1
  <2>4. end(l) = l + w - 1
    OBVIOUS
  <2>5. w \in {0, 2, 3, 4}
    BY SequenceLengths
  <2>6. SplitUTF8Prefix(context, t) = end(l) - boundary
    BY <1>1, <1>6
  <2> HIDE DEF l, w, end, starts, window, boundary, k
  <2> QED BY <1>2, <1>3, <2>2, <2>3, <2>4, <2>5, <2>6 DEF Smaller
<1> QED BY <1>5, <1>6

-----------------------------------------------------------------------------
(* A step of the stream is one of the collector, so that its invariant     *)
(* holds whatever the bytes are.                                           *)
LEMMA StepRefines == [StreamNext]_streamVars => [Next]_vars
<1> SUFFICES ASSUME [StreamNext]_streamVars PROVE [Next]_vars
  OBVIOUS
<1>1. CASE UNCHANGED streamVars
  BY <1>1 DEF streamVars
<1>2. CASE WriteVaried
  <2>1. PICK n \in 1 .. MaxVariedChunk : \E p \in [1 .. n -> Alphabet] : WriteBytes(p)
    BY <1>2 DEF WriteVaried
  <2>2. PICK p \in [1 .. n -> Alphabet] : WriteBytes(p)
    BY <2>1
  <2>3. Len(p) = n /\ n \in 1 .. MaxChunk
    BY LimitsAssumption, VariedAssumption
  <2>4. Write(n)
    BY <2>2, <2>3 DEF WriteBytes
  <2> QED BY <2>3, <2>4 DEF Next
<1>3. CASE WriteRepeated
  <2>1. PICK n \in 1 .. MaxChunk, b \in Alphabet : WriteBytes([i \in 1 .. n |-> b])
    BY <1>3 DEF WriteRepeated
  <2>2. Len([i \in 1 .. n |-> b]) = n
    BY LimitsAssumption
  <2>3. Write(n)
    BY <2>1, <2>2 DEF WriteBytes
  <2> QED BY <2>3 DEF Next
<1> QED BY <1>1, <1>2, <1>3 DEF StreamNext

LEMMA StreamInvariance == StreamSpec => []IInv
<1>1. StreamInit => IInv
  BY InitIInv DEF StreamInit
<1>2. IInv /\ [StreamNext]_streamVars => IInv'
  BY StepRefines, NextIInv
<1> QED BY <1>1, <1>2, PTL DEF StreamSpec

(* What is trimmed from a truncated stream is within the collector's       *)
(* Trims and Skips.                                                        *)
LEMMA TrimmingBounded ==
    ASSUME IInv, truncated PROVE HeadTrim \in Trims /\ TailSkip \in Skips
<1>1. /\ Len(Window) \in Nat /\ Window \in Seq(Nat)
      /\ TailStart \in Nat /\ TailStart = Len(Window) - TailLimit
  BY WindowFollows DEF Follows
<1>2. head \in Seq(Nat) /\ Len(head) \in Nat
  BY DEF IInv, Follows
<1>3. HeadTrim \in Trims
  <2>1. Len(BytesAt(head)) = Len(head)
    BY <1>2 DEF BytesAt
  <2>2. IncompleteUTF8Suffix(BytesAt(head)) \in 0 .. Smaller(3, Len(BytesAt(head)))
    BY <1>2, <2>1, SuffixBounded
  <2> QED BY <2>1, <2>2, ContextIsThree DEF HeadTrim, Trims
<1>4. TailSkip \in Skips
  <2> DEFINE raw == SubSeq(Window, TailStart + 1, Len(Window))
             D == {content[i] : i \in Nat}
  <2>1. raw \in Seq(Nat) /\ Len(raw) = Len(Window) - TailStart
    BY <1>1, Limits
  <2>2. ContextBytes \in Seq(Nat)
    BY <1>1, Limits DEF ContextBytes
  <2>3. ASSUME NEW s \in Seq(Nat)
        PROVE  BytesAt(s) \in Seq(D) /\ Len(BytesAt(s)) = Len(s)
    <3>1. Len(s) \in Nat /\ \A i \in 1 .. Len(s) : s[i] \in Nat
      OBVIOUS
    <3>2. \A i \in 1 .. Len(s) : content[s[i]] \in D
      BY <3>1
    <3> HIDE DEF D
    <3> QED BY <3>1, <3>2 DEF BytesAt
  <2> HIDE DEF D, raw
  <2>4. /\ BytesAt(ContextBytes) \in Seq(D)
        /\ BytesAt(raw) \in Seq(D) /\ Len(BytesAt(raw)) = Len(raw)
    BY <2>1, <2>2, <2>3
  <2>5. SplitUTF8Prefix(BytesAt(ContextBytes), BytesAt(raw)) \in 0 .. Smaller(3, Len(raw))
    BY <2>4, PrefixBounded
  <2> QED BY <2>1, <2>5, ContextIsThree DEF TailSkip, Skips, raw
<1> QED BY <1>3, <1>4

LEMMA IInvValidates == IInv => SnapshotValidates
<1> SUFFICES ASSUME IInv
             PROVE  /\ truncated => HeadTrim \in Trims /\ TailSkip \in Skips
                    /\ Validates(RealSnapshot)
  BY DEF SnapshotValidates
<1>1. received \in Nat /\ truncated \in BOOLEAN
  BY DEF IInv
<1>2. CASE ~truncated
  <2>1. Len(full) = received /\ received <= Budget
    BY <1>2 DEF IInv
  <2>2. RealSnapshot = [received |-> received, head |-> full, omitted |-> 0, tail |-> <<>>]
    BY <1>2 DEF RealSnapshot, Snapshot
  <2>3. Len(<<>>) = 0
    OBVIOUS
  <2> QED BY <1>1, <1>2, <2>1, <2>2, <2>3, Limits DEF Validates
<1>3. CASE truncated
  <2> DEFINE trim == HeadTrim
             skip == TailSkip
  <2>1. trim \in Trims /\ skip \in Skips
    BY <1>3, TrimmingBounded
  <2>2. /\ received > Budget /\ Len(head) = HeadLimit
        /\ TailStart = Len(Window) - TailLimit /\ Len(Window) \in Nat
    BY <1>3, WindowFollows DEF IInv
  <2> HIDE DEF trim, skip
  <2>3. /\ trim \in Nat /\ trim <= HeadLimit
        /\ skip \in Nat /\ skip <= TailLimit
    BY <2>1, <2>2, Limits DEF Trims, Skips, Smaller
  <2> DEFINE h == Positions(1, HeadLimit - trim)
             t == Positions(received - TailLimit + 1 + skip, received)
             o == received - Budget + trim + skip
  <2>4. Snapshot(trim, skip) = [received |-> received, head |-> h, omitted |-> o, tail |-> t]
    BY <1>1, <2>1, <2>2, IInvSnapshotExact, Limits DEF SnapshotExact
  <2>5. Len(h) = HeadLimit - trim
    BY <2>3, Limits DEF Positions
  <2>6. Len(t) = TailLimit - skip
    BY <1>1, <2>2, <2>3, Limits DEF Positions
  <2>7. /\ Len(h) + Len(t) <= Budget
        /\ o > 0 /\ received = Len(h) + o + Len(t)
    BY <1>1, <2>2, <2>3, <2>5, <2>6, Limits
  <2> HIDE DEF h, t, o
  <2>8. o >= 0 /\ o # 0
    BY <2>7, <1>1, <2>3, Limits DEF o
  <2>9. Validates(Snapshot(trim, skip))
    BY <2>4, <2>7, <2>8 DEF Validates
  <2> QED BY <1>3, <2>1, <2>9 DEF RealSnapshot, trim, skip
<1> QED BY <1>1, <1>2, <1>3

(* For every limits, alphabet, stream and chunking, the trimming stays     *)
(* within bounds and a reader accepts the counts.                          *)
THEOREM SnapshotsValidate == StreamSpec => []SnapshotValidates
BY StreamInvariance, IInvValidates, PTL

-----------------------------------------------------------------------------
(* content is the stream that the positions are positions of.              *)
ContentInv ==
    /\ content \in Seq(Bytes)
    /\ Len(content) = received

LEMMA NextContentInv ==
    ASSUME IInv, ContentInv, [StreamNext]_streamVars PROVE ContentInv'
<1>1. ASSUME NEW p \in Seq(Bytes), WriteBytes(p) PROVE ContentInv'
  <2>1. content' = content \o p /\ received' = received + Len(p)
    BY <1>1 DEF WriteBytes, Write
  <2> QED BY <1>1, <2>1 DEF ContentInv
<1>2. CASE UNCHANGED streamVars
  BY <1>2 DEF streamVars, vars, ContentInv
<1>3. CASE WriteVaried
  <2>1. PICK n \in 1 .. MaxVariedChunk : \E p \in [1 .. n -> Alphabet] : WriteBytes(p)
    BY <1>3 DEF WriteVaried
  <2>2. PICK p \in [1 .. n -> Alphabet] : WriteBytes(p)
    BY <2>1
  <2>3. n \in Nat
    BY LimitsAssumption, VariedAssumption
  <2>4. p \in Seq(Bytes)
    <3>1. \A i \in 1 .. n : p[i] \in Bytes
      BY AlphabetAssumption, Zenon DEF Bytes
    <3>2. p = [i \in 1 .. n |-> p[i]]
      OBVIOUS
    <3> QED BY <2>3, <3>1, <3>2
  <2> QED BY <1>1, <2>2, <2>4
<1>4. CASE WriteRepeated
  <2>1. PICK n \in 1 .. MaxChunk, b \in Alphabet : WriteBytes([i \in 1 .. n |-> b])
    BY <1>4 DEF WriteRepeated
  <2>2. n \in Nat /\ b \in Bytes
    BY LimitsAssumption, AlphabetAssumption DEF Bytes
  <2>3. [i \in 1 .. n |-> b] \in Seq(Bytes)
    BY <2>2
  <2> QED BY <1>1, <2>1, <2>3
<1> QED BY <1>2, <1>3, <1>4 DEF StreamNext

LEMMA ContentInvariance == StreamSpec => [](IInv /\ ContentInv)
<1>1. StreamInit => IInv /\ ContentInv
  BY InitIInv DEF StreamInit, Init, ContentInv
<1>2. IInv /\ ContentInv /\ [StreamNext]_streamVars => (IInv /\ ContentInv)'
  BY StepRefines, NextIInv, NextContentInv
<1> QED BY <1>1, <1>2, PTL DEF StreamSpec

(* The bytes at positions that follow one another.                         *)
LEMMA BytesAtFollows ==
    ASSUME ContentInv, NEW o \in Nat, NEW n \in Nat, o + n <= received,
           NEW p \in Seq(Nat), Len(p) = n, \A i \in 1 .. n : p[i] = o + i
    PROVE  BytesAt(p) = SubSeq(content, o + 1, o + n)
<1> DEFINE v == SubSeq(content, o + 1, o + n)
<1>1. v \in Seq(Bytes) /\ Len(v) = n /\ \A j \in 1 .. n : v[j] = content[o + j]
  <2>1. content \in Seq(Bytes) /\ o + n <= Len(content)
    BY DEF ContentInv
  <2> QED BY <2>1, StretchAfter
<1> HIDE DEF v
<1>2. BytesAt(p) = [i \in 1 .. n |-> content[p[i]]]
  BY DEF BytesAt
<1>3. \A i \in 1 .. n : content[p[i]] = v[i]
  BY <1>1
<1>4. v = [i \in 1 .. n |-> v[i]]
  BY <1>1
<1>5. BytesAt(p) = v
  BY <1>2, <1>3, <1>4
<1> QED BY <1>5 DEF v

LEMMA BytesAtPositions ==
    ASSUME ContentInv, NEW o \in Nat, NEW n \in Nat, o + n <= received
    PROVE  BytesAt(Positions(o + 1, o + n)) = SubSeq(content, o + 1, o + n)
<1> DEFINE p == Positions(o + 1, o + n)
<1>1. (o + n) - (o + 1) + 1 = n /\ \A i \in 1 .. n : (o + 1) + i - 1 = o + i /\ o + i \in Nat
  OBVIOUS
<1>2. p = [i \in 1 .. n |-> o + i]
  BY <1>1 DEF Positions
<1> HIDE DEF p
<1>3. p \in Seq(Nat) /\ Len(p) = n /\ \A i \in 1 .. n : p[i] = o + i
  BY <1>1, <1>2
<1>4. BytesAt(p) = SubSeq(content, o + 1, o + n)
  BY <1>3, BytesAtFollows
<1> QED BY <1>4 DEF p

(* What the trimming of a truncated stream is computed from: the first     *)
(* HeadLimit bytes, the bytes from position b on, and up to three before.  *)
LEMMA TrimmingReads ==
    ASSUME IInv, ContentInv, truncated
    PROVE  LET b == received - TailLimit
           IN  /\ HeadLimit \in 0 .. Len(content) /\ b \in 1 .. Len(content)
               /\ HeadTrim = IncompleteUTF8Suffix(SubSeq(content, 1, HeadLimit))
               /\ TailSkip = SplitUTF8Prefix(ContextBefore(content, b),
                                             SubSeq(content, b + 1, Len(content)))
<1> DEFINE b == received - TailLimit
           c == IF 3 <= b THEN 3 ELSE b
           w == Len(Window)
           raw == SubSeq(Window, TailStart + 1, w)
<1>1. received \in Nat /\ received > Budget /\ Len(head) = HeadLimit /\ Follows(head, 0)
  BY DEF IInv
<1>2. /\ HeadLimit \in 0 .. received /\ b \in 1 .. received /\ received = Len(content)
      /\ content \in Seq(Bytes)
  BY <1>1, Limits DEF ContentInv
<1>3. HeadTrim = IncompleteUTF8Suffix(SubSeq(content, 1, HeadLimit))
  <2>1. /\ head \in Seq(Nat) /\ 0 + HeadLimit <= received /\ HeadLimit \in Nat
        /\ \A i \in 1 .. HeadLimit : head[i] = 0 + i
    BY <1>1, <1>2, Limits DEF Follows
  <2>2. BytesAt(head) = SubSeq(content, 0 + 1, 0 + HeadLimit)
    BY <1>1, <2>1, BytesAtFollows
  <2>3. 0 + 1 = 1 /\ 0 + HeadLimit = HeadLimit
    BY Limits
  <2> QED BY <2>2, <2>3 DEF HeadTrim
<1>4. /\ w = Smaller(received, RingLimit) /\ w \in Nat /\ w <= received
      /\ Window \in Seq(Nat)
      /\ \A i \in 1 .. w : Window[i] = received - w + i
      /\ TailStart = w - TailLimit /\ TailStart \in Nat
  BY WindowFollows DEF Follows
<1>5. TailStart = c
  BY <1>1, <1>2, <1>4, Limits, ContextIsThree DEF Smaller
<1>6. BytesAt(ContextBytes) = ContextBefore(content, b)
  <2> DEFINE o == b - c
  <2>1. o \in Nat /\ c \in Nat /\ o + c = b /\ o = received - w /\ c <= w
    <3>1. c \in 1 .. 3 /\ c <= b /\ b \in Nat
      BY <1>2
    <3>2. received \in Nat /\ TailLimit \in Nat /\ b = received - TailLimit
      BY <1>1, Limits
    <3>3. w = c + TailLimit
      <4> HIDE DEF b, c, w
      <4> QED BY <1>4, <1>5, <3>1, <3>2
    <3> HIDE DEF b, c, w
    <3> QED BY <3>1, <3>2, <3>3
  <2> HIDE DEF c, o, w
  <2>2. ContextBytes = SubSeq(Window, 1, c)
    BY <1>5 DEF ContextBytes
  <2>3. /\ SubSeq(Window, 1, c) \in Seq(Nat) /\ Len(SubSeq(Window, 1, c)) = c
        /\ \A i \in 1 .. c : SubSeq(Window, 1, c)[i] = Window[i]
    <3>1. c \in 0 .. Len(Window)
      BY <2>1 DEF w
    <3> QED BY <1>4, <3>1, FirstBytes
  <2>4. \A i \in 1 .. c : SubSeq(Window, 1, c)[i] = o + i
    BY <1>4, <2>1, <2>3
  <2>5. o + c <= received
    BY <1>2, <2>1
  <2>6. BytesAt(ContextBytes) = SubSeq(content, o + 1, o + c)
    BY <2>1, <2>2, <2>3, <2>4, <2>5, BytesAtFollows
  <2>7. ContextBefore(content, b) = SubSeq(content, o + 1, b)
    BY DEF ContextBefore, o, c
  <2> QED BY <2>1, <2>6, <2>7
<1>7. BytesAt(raw) = SubSeq(content, b + 1, Len(content))
  <2>1. TailLimit \in Nat /\ TailStart + TailLimit = w /\ b + TailLimit = received /\ b \in Nat
    BY <1>2, <1>4, Limits
  <2>2. /\ SubSeq(Window, TailStart + 1, TailStart + TailLimit) \in Seq(Nat)
        /\ Len(SubSeq(Window, TailStart + 1, TailStart + TailLimit)) = TailLimit
        /\ \A i \in 1 .. TailLimit :
              SubSeq(Window, TailStart + 1, TailStart + TailLimit)[i]
                  = Window[TailStart + i]
    <3>1. /\ TailStart \in Nat /\ TailLimit \in Nat /\ Window \in Seq(Nat)
          /\ TailStart + TailLimit <= Len(Window)
      BY <2>1, <1>4
    <3> QED BY <3>1, StretchAfter
  <2>3. raw \in Seq(Nat) /\ Len(raw) = TailLimit
        /\ \A i \in 1 .. TailLimit : raw[i] = Window[TailStart + i]
    BY <2>1, <2>2
  <2> HIDE DEF raw
  <2>4. \A i \in 1 .. TailLimit : raw[i] = b + i
    <3>1. ASSUME NEW i \in 1 .. TailLimit PROVE raw[i] = b + i
      <4>1. TailStart + i \in 1 .. w
        <5> HIDE DEF w
        <5> QED BY <1>4, <2>1
      <4>2. Window[TailStart + i] = received - w + (TailStart + i)
        BY <1>4, <4>1
      <4>3. received - w + (TailStart + i) = b + i
        BY <1>1, <1>4, <2>1
      <4> QED BY <2>3, <4>2, <4>3
    <3> QED BY <3>1
  <2>5. b + TailLimit <= received
    BY <2>1, <1>1
  <2> HIDE DEF b
  <2>6. BytesAt(raw) = SubSeq(content, b + 1, b + TailLimit)
    BY <2>1, <2>3, <2>4, <2>5, BytesAtFollows
  <2> QED BY <1>2, <2>1, <2>6
<1>8. TailSkip = SplitUTF8Prefix(ContextBefore(content, b),
                                 SubSeq(content, b + 1, Len(content)))
  BY <1>6, <1>7 DEF TailSkip
<1> QED BY <1>2, <1>3, <1>8

LEMMA InvRunesStayWhole == IInv /\ ContentInv => RunesStayWhole
<1> SUFFICES ASSUME IInv, ContentInv, truncated
             PROVE  /\ TailSkip = BytesAfter(content, received - TailLimit)
                    /\ BytesBefore(content, HeadLimit) > 0 =>
                           HeadTrim = BytesBefore(content, HeadLimit)
  BY DEF RunesStayWhole
<1> DEFINE b == received - TailLimit
<1>1. /\ HeadLimit \in 0 .. Len(content) /\ b \in 1 .. Len(content)
      /\ HeadTrim = IncompleteUTF8Suffix(SubSeq(content, 1, HeadLimit))
      /\ TailSkip = SplitUTF8Prefix(ContextBefore(content, b),
                                    SubSeq(content, b + 1, Len(content)))
      /\ content \in Seq(Bytes)
  BY TrimmingReads DEF ContentInv
<1> HIDE DEF b
<1>2. TailSkip = BytesAfter(content, b)
  BY <1>1, PrefixExact
<1>3. ASSUME BytesBefore(content, HeadLimit) > 0
      PROVE  HeadTrim = BytesBefore(content, HeadLimit)
  <2>1. RuneCut(content, HeadLimit)
    BY <1>3 DEF BytesBefore
  <2> QED BY <1>1, <2>1, SuffixFindsCut DEF BytesBefore
<1> QED BY <1>2, <1>3 DEF b

(* For every limits, alphabet, stream and chunking, no rune is cut.        *)
THEOREM NoRuneIsCut == StreamSpec => []RunesStayWhole
BY ContentInvariance, InvRunesStayWhole, PTL

LEMMA EmptyIsValid == ValidUTF8(<<>>) /\ BytesAt(<<>>) = <<>>
<1>1. Len(<<>>) = 0 /\ 1 .. 0 = {}
  OBVIOUS
<1>2. BytesAt(<<>>) = <<>>
  <2>1. BytesAt(<<>>) = [i \in 1 .. 0 |-> content[<<>>[i]]]
    BY <1>1 DEF BytesAt
  <2>2. [i \in 1 .. 0 |-> content[<<>>[i]]] = <<>>
    OBVIOUS
  <2> QED BY <2>1, <2>2
<1> QED BY <1>1, <1>2 DEF ValidUTF8

(* Valid text that is not truncated is recorded as it is; otherwise its    *)
(* head and tail are stretches that no rune reaches out of.                *)
LEMMA InvValidStaysValid == IInv /\ ContentInv => ValidStaysValid
<1> SUFFICES ASSUME IInv, ContentInv, ValidUTF8(content)
             PROVE  /\ ValidUTF8(BytesAt(RealSnapshot.head))
                    /\ ValidUTF8(BytesAt(RealSnapshot.tail))
  BY DEF ValidStaysValid
<1>1. /\ received \in Nat /\ truncated \in BOOLEAN /\ Len(content) = received
      /\ content \in Seq(Bytes)
  BY DEF IInv, ContentInv
<1>2. CASE ~truncated
  <2>1. RealSnapshot.head = full /\ RealSnapshot.tail = <<>>
    BY <1>2 DEF RealSnapshot, Snapshot
  <2>2. full \in Seq(Nat) /\ Len(full) = received /\ \A i \in 1 .. received : full[i] = 0 + i
    BY <1>2 DEF IInv, Follows
  <2>3. BytesAt(full) = SubSeq(content, 0 + 1, 0 + received)
    <3>1. 0 + received <= received
      BY <1>1
    <3> QED BY <1>1, <2>2, <3>1, BytesAtFollows
  <2>4. ValidUTF8(SubSeq(content, 0 + 1, 0 + received))
    <3>1. ~RuneCut(content, 0) /\ ~RuneCut(content, 0 + received) /\ 0 + received <= Len(content)
      BY <1>1 DEF RuneCut
    <3> QED BY <1>1, <3>1, ValidStretch
  <2> QED BY <2>1, <2>3, <2>4, EmptyIsValid
<1>3. CASE truncated
  <2> DEFINE b == received - TailLimit
             trim == HeadTrim
             skip == TailSkip
             h == HeadLimit - trim
             l == TailLimit - skip
  <2>1. /\ HeadLimit \in 0 .. Len(content) /\ b \in 1 .. Len(content)
        /\ trim = IncompleteUTF8Suffix(SubSeq(content, 1, HeadLimit))
        /\ skip = SplitUTF8Prefix(ContextBefore(content, b),
                                  SubSeq(content, b + 1, Len(content)))
    BY <1>3, TrimmingReads
  <2> HIDE DEF b, trim, skip
  <2>2. trim = BytesBefore(content, HeadLimit) /\ skip = BytesAfter(content, b)
    BY <1>1, <2>1, SuffixExact, PrefixExact
  <2>3. h \in 0 .. HeadLimit /\ ~RuneCut(content, h)
    BY <1>1, <2>1, <2>2, NoCutBefore
  <2>4. /\ skip \in Nat /\ b + skip <= Len(content) /\ ~RuneCut(content, b + skip)
    BY <1>1, <2>1, <2>2, NoCutAfter
  <2>5. /\ l \in Nat /\ b + skip \in Nat /\ (b + skip) + l = received
        /\ received - TailLimit + 1 + skip = (b + skip) + 1
    BY <1>1, <2>1, <2>4, Limits DEF b
  <2>6. /\ RealSnapshot.head = Positions(1, h)
        /\ RealSnapshot.tail = Positions((b + skip) + 1, (b + skip) + l)
    <3>1. received > Budget
      BY <1>3 DEF IInv
    <3>2. ~(received <= Budget)
      BY <1>1, <3>1, Limits
    <3>3. trim \in Trims /\ skip \in Skips
      BY <1>3, TrimmingBounded DEF trim, skip
    <3>4. Snapshot(trim, skip) =
              [received |-> received, head |-> Positions(1, HeadLimit - trim),
               omitted |-> received - Budget + trim + skip,
               tail |-> Positions(received - TailLimit + 1 + skip, received)]
      BY <3>2, <3>3, IInvSnapshotExact DEF SnapshotExact
    <3>5. RealSnapshot = Snapshot(trim, skip)
      BY DEF RealSnapshot, trim, skip
    <3> QED BY <2>5, <3>4, <3>5
  <2>7. ValidUTF8(BytesAt(RealSnapshot.head))
    <3> HIDE DEF h
    <3>1. /\ h \in Nat /\ 0 + h <= received /\ 0 + h <= Len(content)
          /\ 0 + h = h /\ 0 + 1 = 1 /\ 0 \in Nat
      BY <1>1, <2>1, <2>3
    <3>2. ~RuneCut(content, 0) /\ ~RuneCut(content, 0 + h)
      BY <2>3, <3>1 DEF RuneCut
    <3>3. BytesAt(Positions(0 + 1, 0 + h)) = SubSeq(content, 0 + 1, 0 + h)
      BY <3>1, BytesAtPositions
    <3>4. ValidUTF8(SubSeq(content, 0 + 1, 0 + h))
      BY <1>1, <3>1, <3>2, ValidStretch
    <3> QED BY <2>6, <3>1, <3>3, <3>4
  <2>8. ValidUTF8(BytesAt(RealSnapshot.tail))
    <3> DEFINE o == b + skip
    <3>1. o \in Nat /\ l \in Nat /\ o + l <= received /\ o + l <= Len(content)
      BY <1>1, <2>5
    <3>2. ~RuneCut(content, o) /\ ~RuneCut(content, o + l)
      BY <1>1, <2>4, <2>5 DEF RuneCut
    <3> HIDE DEF o, l
    <3>3. BytesAt(Positions(o + 1, o + l)) = SubSeq(content, o + 1, o + l)
      BY <3>1, BytesAtPositions
    <3>4. ValidUTF8(SubSeq(content, o + 1, o + l))
      BY <1>1, <3>1, <3>2, ValidStretch
    <3> QED BY <2>6, <3>3, <3>4 DEF o
  <2> QED BY <2>7, <2>8
<1> QED BY <1>1, <1>2, <1>3

(* For every limits, alphabet, stream and chunking, what is kept of valid  *)
(* UTF-8 is valid UTF-8.                                                   *)
THEOREM ValidTextStaysValid == StreamSpec => []ValidStaysValid
BY ContentInvariance, InvValidStaysValid, PTL
=============================================================================
