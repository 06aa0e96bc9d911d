------------------------- MODULE Utf8BoundaryProofs -------------------------
(***************************************************************************)
(* Proofs about Utf8Boundary: what decoding a stream from its first byte   *)
(* says about the bytes around a boundary is what the collector's two      *)
(* functions find out from at most three bytes before it and four after.   *)
(*                                                                         *)
(* UnitOf is a recursive function, so that its facts need induction over   *)
(* the stream.  The induction theorems of the library take an operator; a  *)
(* set of naturals serves as well: Induction below follows from            *)
(* the library's theorem that every set of naturals has a least element.   *)
(* The same goes for FlattenSeq, which other modules' proofs need.         *)
(***************************************************************************)
EXTENDS Utf8Boundary, TLAPS, WellFoundedInduction

LEMMA LeastNat ==
    ASSUME NEW T, T \subseteq Nat, T # {}
    PROVE  \E x \in T : \A y \in T : x <= y
<1> DEFINE R == {p \in Nat \X Nat : p[1] < p[2]}
<1>1. IsWellFoundedOn(R, Nat)
  BY NatLessThanWellFounded DEF OpToRel
<1>2. PICK x \in T : \A y \in T : <<y, x>> \notin R
  <2> HIDE DEF R
  <2> QED BY <1>1, WFMin
<1>3. ASSUME NEW y \in T PROVE x <= y
  <2>1. x \in Nat /\ y \in Nat
    OBVIOUS
  <2>2. <<y, x>> \in R <=> y < x
    BY <2>1
  <2> QED BY <1>2, <2>1, <2>2
<1> QED BY <1>3

LEMMA Induction ==
    ASSUME NEW G, 0 \in G, \A n \in Nat : n \in G => n + 1 \in G
    PROVE  Nat \subseteq G
<1> SUFFICES ASSUME Nat \ G # {} PROVE FALSE
  OBVIOUS
<1>1. PICK x \in Nat \ G : \A y \in Nat \ G : x <= y
  BY LeastNat
<1>2. x # 0 /\ x - 1 \in Nat /\ x - 1 \in G
  BY <1>1
<1> QED BY <1>1, <1>2

-----------------------------------------------------------------------------
(* FlattenSeq, by way of the concatenations of its first elements.         *)
LOCAL INSTANCE SequencesExt

NextPart(ss, part, n) == IF n = 1 THEN ss[n] ELSE part[n - 1] \o ss[n]

LEMMA PartsExist ==
    ASSUME NEW ss, Len(ss) \in Nat
    PROVE  \E part : part = [n \in 1 .. Len(ss) |-> NextPart(ss, part, n)]
<1> DEFINE G == {k \in Nat : \E part : part = [n \in 1 .. k |-> NextPart(ss, part, n)]}
<1>1. 0 \in G
  <2> DEFINE none == [n \in {} |-> 1]
  <2>1. none = [n \in 1 .. 0 |-> NextPart(ss, none, n)]
    OBVIOUS
  <2> HIDE DEF none
  <2> QED BY <2>1
<1>2. ASSUME NEW k \in Nat, k \in G PROVE k + 1 \in G
  <2>1. PICK part : part = [n \in 1 .. k |-> NextPart(ss, part, n)]
    BY <1>2
  <2> DEFINE more == [n \in 1 .. k + 1 |-> IF n <= k THEN part[n] ELSE NextPart(ss, part, n)]
  <2>2. \A n \in 1 .. k : more[n] = part[n]
    OBVIOUS
  <2>3. \A n \in 1 .. k + 1 : NextPart(ss, part, n) = NextPart(ss, more, n)
    BY <2>2 DEF NextPart
  <2>4. \A n \in 1 .. k : part[n] = NextPart(ss, part, n)
    BY <2>1
  <2>5. more = [n \in 1 .. k + 1 |-> NextPart(ss, more, n)]
    <3> HIDE DEF more
    <3> QED BY <2>3, <2>4 DEF more
  <2>6. \E part2 : part2 = [n \in 1 .. k + 1 |-> NextPart(ss, part2, n)]
    <3> HIDE DEF more
    <3> QED BY <2>5
  <2> QED BY <2>6
<1>3. Nat \subseteq G
  <2> HIDE DEF G
  <2> QED BY <1>1, <1>2, Induction
<1> QED BY <1>3

Parts(ss) == CHOOSE part : part = [n \in 1 .. Len(ss) |-> NextPart(ss, part, n)]

Chunks(S) == Seq(Seq(S))

(* The first k elements of ss, put together.                               *)
Upto(ss, k) == IF k = 0 THEN <<>> ELSE Parts(ss)[k]

LEMMA FlattenIsUpto ==
    ASSUME NEW S, NEW ss \in Seq(Seq(S))
    PROVE  /\ FlattenSeq(ss) = Upto(ss, Len(ss))
           /\ \A k \in 1 .. Len(ss) : Upto(ss, k) = Upto(ss, k - 1) \o ss[k]
           /\ \A k \in 0 .. Len(ss) : Upto(ss, k) \in Seq(S)
<1>1. Len(ss) \in Nat /\ \A k \in 1 .. Len(ss) : ss[k] \in Seq(S)
  OBVIOUS
<1>2. Parts(ss) = [n \in 1 .. Len(ss) |-> NextPart(ss, Parts(ss), n)]
  BY <1>1, PartsExist DEF Parts
<1> DEFINE P == Parts(ss)
<1> HIDE DEF P
<1>3. \A k \in 1 .. Len(ss) : P[k] = NextPart(ss, P, k)
  BY <1>2 DEF P
<1>4. FlattenSeq(ss) = Upto(ss, Len(ss))
  <2>1. CASE Len(ss) = 0
    BY <1>1, <2>1 DEF FlattenSeq, Upto
  <2>2. CASE Len(ss) # 0
    <3>1. FlattenSeq(ss) = P[Len(ss)]
      BY <2>2 DEF FlattenSeq, Parts, P, NextPart
    <3> QED BY <2>2, <3>1 DEF Upto, P
  <2> QED BY <2>1, <2>2
<1>5. ASSUME NEW k \in 1 .. Len(ss) PROVE Upto(ss, k) = Upto(ss, k - 1) \o ss[k]
  <2>1. CASE k = 1
    BY <1>1, <1>3, <2>1 DEF Upto, NextPart, P
  <2>2. CASE k # 1
    <3>1. k \in Nat /\ k - 1 \in Nat /\ k # 0 /\ k - 1 # 0
      BY <2>2
    <3>2. Upto(ss, k) = P[k] /\ Upto(ss, k - 1) = P[k - 1]
      BY <3>1 DEF Upto, P
    <3> QED BY <1>3, <2>2, <3>2 DEF NextPart
  <2> QED BY <2>1, <2>2
<1> DEFINE G == {k \in Nat : k <= Len(ss) => Upto(ss, k) \in Seq(S)}
<1>6. 0 \in G
  BY DEF Upto
<1>7. ASSUME NEW k \in Nat, k \in G PROVE k + 1 \in G
  <2>1. ASSUME k + 1 <= Len(ss) PROVE Upto(ss, k + 1) \in Seq(S)
    <3>1. Upto(ss, k) \in Seq(S) /\ k + 1 \in 1 .. Len(ss) /\ (k + 1) - 1 = k
      BY <1>1, <1>7, <2>1
    <3>2. Upto(ss, k + 1) = Upto(ss, k) \o ss[k + 1]
      BY <1>5, <3>1
    <3>3. ss[k + 1] \in Seq(S)
      BY <1>1, <3>1
    <3>4. \A a, b \in Seq(S) : a \o b \in Seq(S)
      OBVIOUS
    <3> HIDE DEF G
    <3> QED BY <3>1, <3>2, <3>3, <3>4
  <2> QED BY <2>1
<1>8. Nat \subseteq G
  <2> HIDE DEF G
  <2> QED BY <1>6, <1>7, Induction
<1>9. \A k \in 0 .. Len(ss) : Upto(ss, k) \in Seq(S)
  BY <1>8
<1> QED BY <1>4, <1>5, <1>9

(* Of sequences all but one of which are empty, that one is left.          *)
LEMMA FlattenOnly ==
    ASSUME NEW S, NEW ss \in Seq(Seq(S)), NEW i \in 1 .. Len(ss),
           \A j \in 1 .. Len(ss) : j # i => ss[j] = <<>>
    PROVE  FlattenSeq(ss) = ss[i]
<1> DEFINE G == {k \in Nat : k <= Len(ss) => Upto(ss, k) = IF k < i THEN <<>> ELSE ss[i]}
<1>1. Len(ss) \in Nat /\ i \in Nat /\ ss[i] \in Seq(S)
  OBVIOUS
<1>2. 0 \in G
  BY <1>1 DEF Upto
<1>3. ASSUME NEW k \in Nat, k \in G PROVE k + 1 \in G
  <2>1. ASSUME k + 1 <= Len(ss)
        PROVE  Upto(ss, k + 1) = IF k + 1 < i THEN <<>> ELSE ss[i]
    <3>1. /\ Upto(ss, k) = IF k < i THEN <<>> ELSE ss[i]
          /\ k + 1 \in 1 .. Len(ss) /\ (k + 1) - 1 = k
      BY <1>1, <1>3, <2>1
    <3>2. Upto(ss, k + 1) = Upto(ss, k) \o ss[k + 1]
      BY <3>1, FlattenIsUpto
    <3>3. \A x \in Seq(S) : <<>> \o x = x /\ x \o <<>> = x
      OBVIOUS
    <3>4. <<>> \in Seq(S)
      OBVIOUS
    <3> HIDE DEF G
    <3>5. CASE k + 1 < i
      <4>1. k < i /\ ss[k + 1] = <<>>
        BY <1>1, <3>1, <3>5
      <4> QED BY <3>1, <3>2, <3>3, <3>4, <3>5, <4>1
    <3>6. CASE k + 1 = i
      <4>1. k < i /\ ~(k + 1 < i)
        BY <1>1, <3>6
      <4> QED BY <1>1, <3>1, <3>2, <3>3, <3>6, <4>1
    <3>7. CASE k + 1 > i
      <4>1. ~(k < i) /\ ~(k + 1 < i) /\ ss[k + 1] = <<>>
        BY <1>1, <3>1, <3>7
      <4> QED BY <1>1, <3>1, <3>2, <3>3, <4>1
    <3> QED BY <1>1, <3>5, <3>6, <3>7
  <2> QED BY <2>1
<1>4. Nat \subseteq G
  <2> HIDE DEF G
  <2> QED BY <1>2, <1>3, Induction
<1>5. Upto(ss, Len(ss)) = ss[i]
  BY <1>1, <1>4
<1> QED BY <1>5, FlattenIsUpto

-----------------------------------------------------------------------------
(* utf8SequenceLength announces at most four bytes, and only a byte that   *)
(* continues nothing announces any.                                        *)
LEMMA SequenceLengths ==
    ASSUME NEW b
    PROVE  /\ UTF8SequenceLength(b) \in {0, 2, 3, 4}
           /\ UTF8SequenceLength(b) > 0 =>
                  b \in 194 .. 244 /\ ~(b < 128) /\ ~Continuation(b)
BY DEF UTF8SequenceLength, Continuation

(* Of at most three positions one is the least.                            *)
LEMMA LeastPosition ==
    ASSUME NEW n \in Nat, NEW T, T \subseteq {i \in 1 .. n : i > n - 3}, T # {}
    PROVE  Least(T) \in T
<1>1. T \subseteq Nat
  OBVIOUS
<1>2. \E i \in T : \A j \in T : i <= j
  BY <1>1, LeastNat
<1> QED BY <1>2 DEF Least

(* The unit of a byte from that of the byte before it.                     *)
NextUnit(s, unit, n) ==
    IF n = 1 THEN 1
    ELSE IF unit[n - 1] + UnitWidth(s, unit[n - 1]) > n THEN unit[n - 1] ELSE n

LEMMA UnitsExist ==
    ASSUME NEW s, Len(s) \in Nat
    PROVE  \E unit : unit = [n \in 1 .. Len(s) |-> NextUnit(s, unit, n)]
<1> DEFINE G == {k \in Nat : \E unit : unit = [n \in 1 .. k |-> NextUnit(s, unit, n)]}
<1>1. 0 \in G
  <2> DEFINE none == [n \in {} |-> 1]
  <2>1. none = [n \in 1 .. 0 |-> NextUnit(s, none, n)]
    OBVIOUS
  <2> HIDE DEF none
  <2> QED BY <2>1
<1>2. ASSUME NEW k \in Nat, k \in G PROVE k + 1 \in G
  <2>1. PICK unit : unit = [n \in 1 .. k |-> NextUnit(s, unit, n)]
    BY <1>2
  <2> DEFINE more == [n \in 1 .. k + 1 |-> IF n <= k THEN unit[n] ELSE NextUnit(s, unit, n)]
  <2>2. \A n \in 1 .. k : more[n] = unit[n]
    OBVIOUS
  <2>3. \A n \in 1 .. k + 1 : NextUnit(s, unit, n) = NextUnit(s, more, n)
    BY <2>2 DEF NextUnit
  <2>4. \A n \in 1 .. k : unit[n] = NextUnit(s, unit, n)
    BY <2>1
  <2>5. more = [n \in 1 .. k + 1 |-> NextUnit(s, more, n)]
    <3> HIDE DEF more
    <3> QED BY <2>3, <2>4 DEF more
  <2>6. \E u : u = [n \in 1 .. k + 1 |-> NextUnit(s, u, n)]
    <3> HIDE DEF more
    <3> QED BY <2>5
  <2> QED BY <2>6
<1>3. Nat \subseteq G
  <2> HIDE DEF G
  <2> QED BY <1>1, <1>2, Induction
<1> QED BY <1>3

LEMMA UnitsUnfold ==
    ASSUME NEW s, Len(s) \in Nat
    PROVE  UnitOf(s) = [n \in 1 .. Len(s) |-> NextUnit(s, UnitOf(s), n)]
<1>1. PICK unit : unit = [n \in 1 .. Len(s) |-> NextUnit(s, unit, n)]
  BY UnitsExist
<1> QED BY <1>1 DEF UnitOf, NextUnit

(* A unit of more than one byte is a whole valid rune.                     *)
LEMMA Widths ==
    ASSUME NEW s \in Seq(Bytes), NEW i \in 1 .. Len(s)
    PROVE  /\ UnitWidth(s, i) \in 1 .. 4
           /\ i + UnitWidth(s, i) - 1 <= Len(s)
           /\ UnitWidth(s, i) > 1 =>
                  /\ UnitWidth(s, i) = UTF8SequenceLength(s[i])
                  /\ ValidRune(SubSeq(s, i, i + UnitWidth(s, i) - 1))
                  /\ ~Continuation(s[i])
BY SequenceLengths DEF UnitWidth

LEMMA WholeRuneIsUnit ==
    ASSUME NEW s \in Seq(Bytes), NEW i \in 1 .. Len(s),
           UTF8SequenceLength(s[i]) > 0,
           i + UTF8SequenceLength(s[i]) - 1 <= Len(s),
           ValidRune(SubSeq(s, i, i + UTF8SequenceLength(s[i]) - 1))
    PROVE  UnitWidth(s, i) = UTF8SequenceLength(s[i])
BY DEF UnitWidth

(* The bytes of a unit after its first are continuation bytes, the second  *)
(* one that its first allows.                                              *)
LEMMA InnerBytes ==
    ASSUME NEW s \in Seq(Bytes), NEW i \in 1 .. Len(s), NEW j \in 1 .. Len(s),
           i < j, j < i + UnitWidth(s, i)
    PROVE  /\ Continuation(s[j])
           /\ SecondByteOK(s[i], s[i + 1])
<1> DEFINE w == UnitWidth(s, i)
           v == SubSeq(s, i, i + w - 1)
<1>1. w \in 2 .. 4 /\ i + w - 1 <= Len(s) /\ ValidRune(v)
  BY Widths
<1> HIDE DEF w
<1>2. /\ Len(v) = w /\ \A k \in 1 .. w : v[k] = s[i + k - 1]
  BY <1>1
<1> HIDE DEF v
<1>3. (\A k \in 2 .. w : Continuation(v[k])) /\ SecondByteOK(v[1], v[2])
  BY <1>1, <1>2 DEF ValidRune, WellFormed
<1>4. j - i + 1 \in 2 .. w /\ s[j] = v[j - i + 1]
  BY <1>1, <1>2 DEF w
<1>5. v[1] = s[i] /\ v[2] = s[i + 1]
  BY <1>1, <1>2
<1> QED BY <1>1, <1>3, <1>4, <1>5

-----------------------------------------------------------------------------
(* The units of s divide it into stretches: a byte's unit starts at or     *)
(* before it, reaches it, and is the unit of every byte from there on.     *)
UnitFrom(s, n) ==
    LET u == UnitOf(s)[n]
    IN  /\ u \in 1 .. n
        /\ n < u + UnitWidth(s, u)
        /\ \A m \in u .. n : UnitOf(s)[m] = u

LEMMA UnitStep ==
    ASSUME NEW s \in Seq(Bytes), NEW n \in 1 .. Len(s)
    PROVE  UnitOf(s)[n] = NextUnit(s, UnitOf(s), n)
<1> DEFINE U == UnitOf(s)
<1>1. U = [m \in 1 .. Len(s) |-> NextUnit(s, U, m)]
  BY UnitsUnfold
<1> HIDE DEF U
<1> QED BY <1>1 DEF U

LEMMA UnitsDivide ==
    ASSUME NEW s \in Seq(Bytes), NEW n \in 1 .. Len(s)
    PROVE  UnitFrom(s, n)
<1> DEFINE U == UnitOf(s)
           G == {k \in Nat : k \in 1 .. Len(s) => UnitFrom(s, k)}
<1>1. 0 \in G
  OBVIOUS
<1>2. ASSUME NEW k \in Nat, k \in G, k + 1 \in 1 .. Len(s)
      PROVE  UnitFrom(s, k + 1)
  <2>1. U[k + 1] = NextUnit(s, U, k + 1)
    BY <1>2, UnitStep
  <2>2. CASE U[k + 1] = k + 1
    <3>1. UnitWidth(s, k + 1) \in 1 .. 4
      BY <1>2, Widths
    <3> HIDE DEF U, G
    <3> QED BY <1>2, <2>2, <3>1 DEF UnitFrom, U
  <2>3. CASE U[k + 1] # k + 1
    <3>1. k \in 1 .. Len(s) /\ U[k + 1] = U[k] /\ U[k] + UnitWidth(s, U[k]) > k + 1
      BY <1>2, <2>1, <2>3 DEF NextUnit
    <3>2. UnitFrom(s, k)
      BY <1>2, <3>1
    <3> HIDE DEF U, G
    <3>3. /\ U[k] \in 1 .. k
          /\ \A m \in U[k] .. k : U[m] = U[k]
      BY <3>2 DEF UnitFrom, U
    <3>4. \A m \in U[k] .. k + 1 : U[m] = U[k]
      <4>1. \A m \in U[k] .. k + 1 : m \in U[k] .. k \/ m = k + 1
        BY <1>2, <3>3
      <4> QED BY <3>1, <3>3, <4>1
    <3>5. U[k] \in 1 .. k + 1
      BY <3>3, <1>2
    <3> QED BY <3>1, <3>4, <3>5 DEF UnitFrom, U
  <2> QED BY <2>2, <2>3
<1>3. ASSUME NEW k \in Nat, k \in G PROVE k + 1 \in G
  <2>1. k + 1 \in 1 .. Len(s) => UnitFrom(s, k + 1)
    BY <1>2, <1>3
  <2> QED BY <2>1
<1>4. Nat \subseteq G
  <2> HIDE DEF G
  <2> QED BY <1>1, <1>3, Induction
<1> QED BY <1>4

(* A byte that continues nothing starts a unit.                            *)
LEMMA LeadsStartUnits ==
    ASSUME NEW s \in Seq(Bytes), NEW i \in 1 .. Len(s), ~Continuation(s[i])
    PROVE  UnitOf(s)[i] = i
<1> DEFINE u == UnitOf(s)[i]
<1>1. u \in 1 .. i /\ i < u + UnitWidth(s, u)
  BY UnitsDivide DEF UnitFrom
<1> HIDE DEF u
<1>2. u < i => Continuation(s[i])
  BY <1>1, InnerBytes
<1> QED BY <1>1, <1>2 DEF u

(* The bytes that the width of a unit's first byte spans are that unit.    *)
LEMMA UnitsSpan ==
    ASSUME NEW s \in Seq(Bytes), NEW u \in 1 .. Len(s), UnitOf(s)[u] = u,
           NEW m \in u .. u + UnitWidth(s, u) - 1
    PROVE  UnitOf(s)[m] = u
<1> DEFINE U == UnitOf(s)
           w == UnitWidth(s, u)
           G == {k \in Nat : k < w => U[u + k] = u}
<1>1. w \in 1 .. 4 /\ u + w - 1 <= Len(s)
  BY Widths
<1>2. 0 \in G
  BY <1>1
<1>3. ASSUME NEW k \in Nat, k \in G, k + 1 < w PROVE U[u + (k + 1)] = u
  <2>1. U[u + k] = u
    BY <1>1, <1>3
  <2>2. u + (k + 1) \in 1 .. Len(s) /\ u + (k + 1) # 1 /\ u + (k + 1) - 1 = u + k
    BY <1>1, <1>3
  <2>3. U[u + (k + 1)] = NextUnit(s, U, u + (k + 1))
    BY <2>2, UnitStep
  <2>4. u + w > u + (k + 1)
    BY <1>1, <1>3
  <2> HIDE DEF U
  <2> QED BY <2>1, <2>2, <2>3, <2>4 DEF NextUnit
<1>4. \A k \in Nat : k \in G => k + 1 \in G
  BY <1>3
<1>5. Nat \subseteq G
  <2> HIDE DEF G
  <2> QED BY <1>2, <1>4, Induction
<1>6. m - u \in Nat /\ m - u < w /\ u + (m - u) = m
  BY <1>1
<1> QED BY <1>5, <1>6

(* A rune of s that begins at or before b and ends after it is the unit of *)
(* byte b, and then s is cut there.                                        *)
LEMMA CutByRune ==
    ASSUME NEW s \in Seq(Bytes), NEW b \in 1 .. Len(s), NEW p \in 1 .. b,
           p + UnitWidth(s, p) - 1 > b
    PROVE  RuneCut(s, b) /\ UnitOf(s)[b] = p
<1>1. p \in 1 .. Len(s)
  OBVIOUS
<1>2. /\ UnitWidth(s, p) \in 2 .. 4 /\ p + UnitWidth(s, p) - 1 <= Len(s)
      /\ ~Continuation(s[p])
  BY <1>1, Widths
<1>3. UnitOf(s)[p] = p
  BY <1>1, <1>2, LeadsStartUnits
<1>4. b \in p .. p + UnitWidth(s, p) - 1 /\ b + 1 \in p .. p + UnitWidth(s, p) - 1
  BY <1>2
<1>5. UnitOf(s)[b] = p /\ UnitOf(s)[b + 1] = p
  BY <1>1, <1>3, <1>4, UnitsSpan
<1> QED BY <1>2, <1>5 DEF RuneCut

LEMMA RuneAtCut ==
    ASSUME NEW s \in Seq(Bytes), NEW b \in Nat, RuneCut(s, b)
    PROVE  LET p == UnitOf(s)[b]
           IN  /\ p \in 1 .. b /\ p > b - 3
               /\ UnitWidth(s, p) \in 2 .. 4
               /\ p + UnitWidth(s, p) - 1 > b
<1> DEFINE p == UnitOf(s)[b]
<1>1. b \in 1 .. Len(s) /\ b + 1 \in 1 .. Len(s) /\ UnitOf(s)[b + 1] = p
  BY DEF RuneCut
<1>2. p \in 1 .. b
  BY <1>1, UnitsDivide DEF UnitFrom
<1>3. b + 1 < p + UnitWidth(s, p)
  BY <1>1, UnitsDivide DEF UnitFrom
<1>4. UnitWidth(s, p) \in 1 .. 4
  BY <1>1, <1>2, Widths
<1> HIDE DEF p
<1>5. p > b - 3 /\ UnitWidth(s, p) \in 2 .. 4 /\ p + UnitWidth(s, p) - 1 > b
  BY <1>1, <1>2, <1>3, <1>4
<1> QED BY <1>2, <1>5 DEF p

-----------------------------------------------------------------------------
(* The bytes m .. n of a stream.                                           *)
LEMMA Stretch ==
    ASSUME NEW D, NEW s \in Seq(D), NEW m \in 1 .. Len(s) + 1, NEW n \in m - 1 .. Len(s)
    PROVE  /\ SubSeq(s, m, n) \in Seq(D)
           /\ Len(SubSeq(s, m, n)) = n - m + 1
           /\ \A j \in 1 .. n - m + 1 : SubSeq(s, m, n)[j] = s[m + j - 1]
<1>1. SubSeq(s, m, n) = [j \in 1 .. n - m + 1 |-> s[m + j - 1]]
  OBVIOUS
<1>2. n - m + 1 \in Nat /\ \A j \in 1 .. n - m + 1 : s[m + j - 1] \in D
  OBVIOUS
<1> QED BY <1>1, <1>2

LEMMA FirstBytes ==
    ASSUME NEW D, NEW s \in Seq(D), NEW n \in 0 .. Len(s)
    PROVE  /\ SubSeq(s, 1, n) \in Seq(D)
           /\ Len(SubSeq(s, 1, n)) = n
           /\ \A j \in 1 .. n : SubSeq(s, 1, n)[j] = s[j]
<1>1. 1 \in 1 .. Len(s) + 1 /\ n \in 1 - 1 .. Len(s) /\ n - 1 + 1 = n
  OBVIOUS
<1>2. \A j \in 1 .. n : 1 + j - 1 = j
  OBVIOUS
<1> DEFINE v == SubSeq(s, 1, n)
<1>3. v \in Seq(D) /\ Len(v) = n - 1 + 1 /\ \A j \in 1 .. n - 1 + 1 : v[j] = s[1 + j - 1]
  BY <1>1, Stretch
<1> HIDE DEF v
<1>4. v \in Seq(D) /\ Len(v) = n /\ \A j \in 1 .. n : v[j] = s[j]
  BY <1>1, <1>2, <1>3
<1> QED BY <1>4 DEF v

LEMMA LeastIs ==
    ASSUME NEW T, T \subseteq Int, NEW x \in T, \A y \in T : x <= y
    PROVE  Least(T) = x
<1>1. \A y \in T : (\A z \in T : y <= z) => y = x
  OBVIOUS
<1>2. \E y \in T : \A z \in T : y <= z
  OBVIOUS
<1> QED BY <1>1, <1>2 DEF Least

(* incompleteUTF8Suffix at position h finds nothing but rune beginnings,   *)
(* whose lead announces more than there is.                                *)
LEMMA SuffixStarts ==
    ASSUME NEW s \in Seq(Bytes), NEW h \in 0 .. Len(s),
           NEW i \in LastPositions(SubSeq(s, 1, h)),
           ValidIncompleteUTF8Prefix(SubSeq(SubSeq(s, 1, h), i, Len(SubSeq(s, 1, h))))
    PROVE  /\ i \in 1 .. h
           /\ UTF8SequenceLength(s[i]) > h - i + 1
           /\ ~Continuation(s[i])
<1> DEFINE v == SubSeq(s, 1, h)
           x == SubSeq(v, i, h)
<1>1. Len(v) = h /\ (\A j \in 1 .. h : v[j] = s[j]) /\ v \in Seq(Bytes)
  BY FirstBytes
<1>2. i \in 1 .. h
  BY <1>1 DEF LastPositions
<1>3. ValidIncompleteUTF8Prefix(x)
  BY <1>1
<1> HIDE DEF v
<1>4. Len(x) = h - i + 1 /\ x[1] = s[i]
  BY <1>1, <1>2
<1> HIDE DEF x
<1>5. UTF8SequenceLength(s[i]) > h - i + 1 /\ UTF8SequenceLength(s[i]) > 0
  BY <1>2, <1>3, <1>4, SequenceLengths DEF ValidIncompleteUTF8Prefix
<1> QED BY <1>2, <1>5, SequenceLengths

(* When a rune of s is cut after position h, incompleteUTF8Suffix counts   *)
(* the bytes it has there.                                                 *)
LEMMA SuffixFindsCut ==
    ASSUME NEW s \in Seq(Bytes), NEW h \in 0 .. Len(s), RuneCut(s, h)
    PROVE  IncompleteUTF8Suffix(SubSeq(s, 1, h)) = h - UnitOf(s)[h] + 1
<1> DEFINE v == SubSeq(s, 1, h)
           p == UnitOf(s)[h]
           w == UnitWidth(s, p)
           x == SubSeq(v, p, h)
           starts == {i \in LastPositions(v) :
                         ValidIncompleteUTF8Prefix(SubSeq(v, i, Len(v)))}
<1>1. /\ p \in 1 .. h /\ p > h - 3
      /\ w \in 2 .. 4 /\ p + w - 1 > h
  BY RuneAtCut
<1>2. Len(v) = h /\ (\A j \in 1 .. h : v[j] = s[j]) /\ v \in Seq(Bytes)
  BY FirstBytes
<1>3. p \in LastPositions(v)
  BY <1>1, <1>2 DEF LastPositions, UTF8ContextBytes, UTFMax
<1>4. ValidIncompleteUTF8Prefix(x)
  <2> HIDE DEF v, p, w
  <2>1. /\ p \in 1 .. Len(s) /\ w = UTF8SequenceLength(s[p])
    BY <1>1, Widths DEF w
  <2>2. Len(x) = h - p + 1 /\ \A j \in 1 .. h - p + 1 : x[j] = s[p + j - 1]
    <3>1. /\ p \in Int /\ h \in Int /\ p >= 1 /\ p <= h
          /\ h - p + 1 \in Nat
          /\ \A j \in 1 .. h - p + 1 : p + j - 1 \in 1 .. h
      BY <1>1
    <3>2. Len(x) = h - p + 1 /\ \A j \in 1 .. h - p + 1 : x[j] = v[p + j - 1]
      BY <1>2, <3>1
    <3> QED BY <1>2, <3>1, <3>2
  <2>3. ASSUME NEW j \in 2 .. Len(x) PROVE Continuation(x[j])
    <3>1. x[j] = s[p + j - 1] /\ p + j - 1 \in 1 .. Len(s) /\ p + j - 1 > p
          /\ p + j - 1 < p + w
      BY <1>1, <2>2
    <3> QED BY <2>1, <3>1, InnerBytes DEF w
  <2>4. ASSUME Len(x) >= 2 PROVE SecondByteOK(x[1], x[2])
    <3>1. x[1] = s[p] /\ x[2] = s[p + 1] /\ p + 1 \in 1 .. Len(s) /\ p + 1 < p + w
      <4> HIDE DEF x
      <4> QED BY <1>1, <2>1, <2>2, <2>4
    <3> QED BY <2>1, <3>1, InnerBytes DEF w
  <2>5. x # <<>> /\ Len(x) < UTF8SequenceLength(x[1])
    <3>1. x[1] = s[p] /\ Len(x) >= 1
      BY <1>1, <2>2
    <3> HIDE DEF x
    <3> QED BY <1>1, <2>1, <2>2, <3>1
  <2> HIDE DEF x
  <2> QED BY <2>3, <2>4, <2>5 DEF ValidIncompleteUTF8Prefix, WellFormed
<1>5. p \in starts
  BY <1>2, <1>3, <1>4
<1>6. ASSUME NEW i \in starts PROVE i \in Int /\ p <= i
  <2>1. i \in 1 .. h /\ ~Continuation(s[i])
    BY <1>2, SuffixStarts
  <2>2. p \in 1 .. Len(s) /\ ~Continuation(s[p])
    BY <1>1, Widths
  <2>3. ASSUME i < p PROVE FALSE
    <3> DEFINE y == SubSeq(v, i, h)
    <3>1. ValidIncompleteUTF8Prefix(y)
      BY <1>2
    <3> HIDE DEF v, p, w, starts
    <3>2. Len(y) = h - i + 1 /\ y[p - i + 1] = s[p] /\ p - i + 1 \in 2 .. Len(y)
      BY <1>1, <1>2, <2>1, <2>3
    <3> HIDE DEF y
    <3>3. Continuation(s[p])
      BY <3>1, <3>2 DEF ValidIncompleteUTF8Prefix, WellFormed
    <3> QED BY <2>2, <3>3
  <2> HIDE DEF p, starts
  <2> QED BY <1>1, <2>1, <2>3
<1>7. Least(starts) = p
  <2> HIDE DEF starts, p
  <2> QED BY <1>5, <1>6, LeastIs
<1>8. IncompleteUTF8Suffix(v) = Len(v) - Least(starts) + 1
  <2>1. IncompleteUTF8Suffix(v) = IF starts = {} THEN 0 ELSE Len(v) - Least(starts) + 1
    BY DEF IncompleteUTF8Suffix
  <2> HIDE DEF starts
  <2> QED BY <1>5, <2>1
<1> QED BY <1>2, <1>7, <1>8

(* In a stream of valid UTF-8 nothing else looks like a rune that is cut.  *)
LEMMA SuffixExact ==
    ASSUME NEW s \in Seq(Bytes), NEW h \in 0 .. Len(s), ValidUTF8(s)
    PROVE  IncompleteUTF8Suffix(SubSeq(s, 1, h)) = BytesBefore(s, h)
<1>1. CASE RuneCut(s, h)
  BY <1>1, SuffixFindsCut DEF BytesBefore
<1>2. CASE ~RuneCut(s, h)
  <2> DEFINE v == SubSeq(s, 1, h)
  <2>1. ASSUME NEW i \in LastPositions(v),
               ValidIncompleteUTF8Prefix(SubSeq(v, i, Len(v)))
        PROVE  FALSE
    <3>1. /\ i \in 1 .. h /\ i \in 1 .. Len(s)
          /\ UTF8SequenceLength(s[i]) > h - i + 1 /\ ~Continuation(s[i])
      BY <2>1, SuffixStarts
    <3>2. UnitOf(s)[i] = i
      BY <3>1, LeadsStartUnits
    <3>3. UTF8SequenceLength(s[i]) > 0
      BY <3>1, SequenceLengths
    <3>4. ~(s[i] < 128)
      BY <3>3, SequenceLengths
    <3>5. UnitWidth(s, i) > 1
      <4>1. s[i] < 128 \/ UnitWidth(s, UnitOf(s)[i]) > 1
        BY <3>1 DEF ValidUTF8
      <4> QED BY <3>2, <3>4, <4>1
    <3>6. UnitWidth(s, i) = UTF8SequenceLength(s[i]) /\ UnitWidth(s, i) \in 1 .. 4
      BY <3>1, <3>5, Widths
    <3>7. h \in 1 .. Len(s) /\ i + UnitWidth(s, i) - 1 > h
      BY <3>1, <3>6
    <3> QED BY <1>2, <3>1, <3>7, CutByRune
  <2>2. IncompleteUTF8Suffix(v) = 0
    <3> HIDE DEF v
    <3> QED BY <2>1 DEF IncompleteUTF8Suffix
  <2> QED BY <1>2, <2>2 DEF BytesBefore
<1> QED BY <1>1, <1>2

LEMMA StretchAfter ==
    ASSUME NEW D, NEW s \in Seq(D), NEW o \in Nat, NEW n \in Nat, o + n <= Len(s)
    PROVE  /\ SubSeq(s, o + 1, o + n) \in Seq(D)
           /\ Len(SubSeq(s, o + 1, o + n)) = n
           /\ \A j \in 1 .. n : SubSeq(s, o + 1, o + n)[j] = s[o + j]
<1>1. SubSeq(s, o + 1, o + n) = [j \in 1 .. n |-> s[o + j]]
  <2>1. /\ (o + n) - (o + 1) + 1 = n
        /\ \A j \in 1 .. n : (o + 1) + j - 1 = o + j
    OBVIOUS
  <2>2. SubSeq(s, o + 1, o + n)
            = [j \in 1 .. (o + n) - (o + 1) + 1 |-> s[(o + 1) + j - 1]]
    OBVIOUS
  <2>3. [j \in 1 .. n |-> s[(o + 1) + j - 1]] = [j \in 1 .. n |-> s[o + j]]
    BY <2>1
  <2> QED BY <2>1, <2>2, <2>3
<1>2. \A j \in 1 .. n : s[o + j] \in D
  OBVIOUS
<1> DEFINE v == SubSeq(s, o + 1, o + n)
<1>3. v = [j \in 1 .. n |-> s[o + j]]
  BY <1>1
<1> HIDE DEF v
<1>4. v \in Seq(D) /\ Len(v) = n /\ \A j \in 1 .. n : v[j] = s[o + j]
  BY <1>2, <1>3
<1> QED BY <1>4 DEF v

LEMMA StretchOfStretch ==
    ASSUME NEW D, NEW s \in Seq(D), NEW o \in Nat, NEW n \in Nat, o + n <= Len(s),
           NEW i \in Nat, NEW j \in Nat, i + j <= n
    PROVE  SubSeq(SubSeq(s, o + 1, o + n), i + 1, i + j)
               = SubSeq(s, (o + i) + 1, (o + i) + j)
<1> DEFINE v == SubSeq(s, o + 1, o + n)
           x == SubSeq(v, i + 1, i + j)
           y == SubSeq(s, (o + i) + 1, (o + i) + j)
<1>1. v \in Seq(D) /\ Len(v) = n /\ \A k \in 1 .. n : v[k] = s[o + k]
  BY StretchAfter
<1> HIDE DEF v
<1>2. x \in Seq(D) /\ Len(x) = j /\ \A k \in 1 .. j : x[k] = v[i + k]
  BY <1>1, StretchAfter
<1>3. y \in Seq(D) /\ Len(y) = j /\ \A k \in 1 .. j : y[k] = s[(o + i) + k]
  <2>1. o + i \in Nat /\ (o + i) + j <= Len(s)
    OBVIOUS
  <2> QED BY <2>1, StretchAfter
<1> HIDE DEF x, y
<1>4. ASSUME NEW k \in 1 .. j PROVE x[k] = y[k]
  <2>1. i + k \in 1 .. n /\ o + (i + k) = (o + i) + k
    OBVIOUS
  <2> QED BY <1>1, <1>2, <1>3, <2>1
<1>5. x = y
  BY <1>2, <1>3, <1>4
<1> QED BY <1>5 DEF v, x, y

(* splitUTF8Prefix given what precedes position b, up to three bytes, and  *)
(* the bytes after it: what it returns are the bytes there of the rune of  *)
(* s that is cut, and nothing when none is.                                *)
ContextBefore(s, b) == SubSeq(s, b - (IF 3 <= b THEN 3 ELSE b) + 1, b)

LEMMA PrefixExact ==
    ASSUME NEW s \in Seq(Bytes), NEW b \in 1 .. Len(s)
    PROVE  SplitUTF8Prefix(ContextBefore(s, b), SubSeq(s, b + 1, Len(s)))
               = BytesAfter(s, b)
<1> DEFINE c == IF 3 <= b THEN 3 ELSE b
           k == IF Len(s) - b > 4 THEN 4 ELSE Len(s) - b
           o == b - c
           context == ContextBefore(s, b)
           rest == SubSeq(s, b + 1, Len(s))
           r == Len(s) - b
           W == SubSeq(s, o + 1, o + (c + k))
           window == context \o SubSeq(rest, 1, IF Len(rest) > UTFMax
                                                THEN UTFMax ELSE Len(rest))
           end(i) == i + UTF8SequenceLength(window[i]) - 1
           starts == {i \in LastPositions(context) :
                         /\ end(i) > Len(context) /\ end(i) <= Len(window)
                         /\ ValidRune(SubSeq(window, i, end(i)))}
<1>1. /\ c \in 1 .. 3 /\ o \in Nat /\ o + c = b /\ (c < 3 => o = 0)
      /\ k \in 0 .. 4 /\ b + k \in b .. Len(s) /\ (k < 4 => b + k = Len(s))
      /\ Len(s) \in Nat /\ r \in Nat /\ b + r = Len(s) /\ k <= r
  OBVIOUS
<1> HIDE DEF c, k, o, r
<1>2. /\ context \in Seq(Bytes) /\ Len(context) = c
      /\ \A i \in 1 .. c : context[i] = s[o + i]
  <2>1. context = SubSeq(s, o + 1, o + c)
    BY <1>1 DEF ContextBefore, o, c
  <2>2. c \in Nat /\ o + c <= Len(s)
    BY <1>1
  <2> HIDE DEF context
  <2> QED BY <1>1, <2>1, <2>2, StretchAfter
<1>3. /\ rest \in Seq(Bytes) /\ Len(rest) = r
      /\ \A i \in 1 .. r : rest[i] = s[b + i]
  <2>1. rest = SubSeq(s, b + 1, b + r)
    BY <1>1
  <2>2. b \in Nat /\ r \in Nat /\ b + r <= Len(s)
    BY <1>1
  <2> HIDE DEF rest
  <2>3. /\ SubSeq(s, b + 1, b + r) \in Seq(Bytes) /\ Len(SubSeq(s, b + 1, b + r)) = r
        /\ \A i \in 1 .. r : SubSeq(s, b + 1, b + r)[i] = s[b + i]
    BY <2>2, StretchAfter
  <2> QED BY <2>1, <2>3
<1>4. /\ W \in Seq(Bytes) /\ Len(W) = c + k
      /\ \A i \in 1 .. c + k : W[i] = s[o + i]
  <2>1. c + k \in Nat /\ o + (c + k) <= Len(s)
    BY <1>1
  <2> QED BY <1>1, <2>1, StretchAfter
<1> HIDE DEF context, rest, W
<1>5. window = W
  <2> DEFINE first == SubSeq(rest, 1, k)
  <2>1. (IF Len(rest) > UTFMax THEN UTFMax ELSE Len(rest)) = k
    BY <1>1, <1>3 DEF UTFMax, k, r
  <2>2. k \in 0 .. Len(rest)
    BY <1>1, <1>3
  <2>3. /\ first \in Seq(Bytes) /\ Len(first) = k
        /\ \A i \in 1 .. k : first[i] = rest[i]
    BY <1>3, <2>2, FirstBytes
  <2>4. window = context \o first
    BY <2>1
  <2> HIDE DEF first, window
  <2>5. Len(window) = c + k /\ window \in Seq(Bytes)
    BY <1>1, <1>2, <2>3, <2>4
  <2>6. ASSUME NEW i \in 1 .. c + k PROVE window[i] = W[i]
    <3>1. CASE i <= c
      <4>1. i \in 1 .. c /\ window[i] = context[i]
        BY <1>1, <1>2, <2>3, <2>4, <3>1
      <4> QED BY <1>2, <1>4, <4>1
    <3>2. CASE i > c
      <4>1. window[i] = first[i - c] /\ i - c \in 1 .. k
        BY <1>1, <1>2, <2>3, <2>4, <3>2
      <4>2. first[i - c] = rest[i - c] /\ i - c \in 1 .. r
        BY <1>1, <2>3, <4>1
      <4>3. rest[i - c] = s[b + (i - c)] /\ b + (i - c) = o + i
        BY <1>1, <1>3, <4>2
      <4> QED BY <1>4, <4>1, <4>2, <4>3
    <3> QED BY <1>1, <3>1, <3>2
  <2> QED BY <1>1, <1>4, <2>5, <2>6
<1> HIDE DEF window
<1>6. ASSUME NEW i \in 1 .. c
      PROVE  /\ o + i \in 1 .. b /\ window[i] = s[o + i]
             /\ end(i) = i + UTF8SequenceLength(s[o + i]) - 1
  BY <1>1, <1>4, <1>5
<1>7. ASSUME NEW i \in 1 .. c, NEW e \in i .. c + k
      PROVE  SubSeq(window, i, e) = SubSeq(s, o + i, o + e)
  <2> DEFINE i1 == i - 1
             j == e - i + 1
             n == c + k
  <2>1. /\ i1 \in Nat /\ j \in Nat /\ n \in Nat /\ o + n <= Len(s) /\ i1 + j <= n
        /\ i1 + 1 = i /\ i1 + j = e /\ (o + i1) + 1 = o + i /\ (o + i1) + j = o + e
    BY <1>1
  <2> HIDE DEF i1, j, n
  <2>2. SubSeq(SubSeq(s, o + 1, o + n), i1 + 1, i1 + j)
            = SubSeq(s, (o + i1) + 1, (o + i1) + j)
    BY <1>1, <2>1, StretchOfStretch
  <2> QED BY <1>5, <2>1, <2>2 DEF W, n
<1>8. LastPositions(context) = 1 .. c
  BY <1>1, <1>2 DEF LastPositions, UTF8ContextBytes, UTFMax
<1>9. ASSUME NEW i \in starts
      PROVE  RuneCut(s, b) /\ UnitOf(s)[b] = o + i
  <2>1. /\ i \in 1 .. c /\ end(i) > c /\ end(i) <= c + k
        /\ ValidRune(SubSeq(window, i, end(i)))
    BY <1>2, <1>4, <1>5, <1>8
  <2> DEFINE p == o + i
             w == UTF8SequenceLength(s[p])
  <2>2. p \in 1 .. b /\ end(i) = i + w - 1 /\ w \in {0, 2, 3, 4}
    BY <1>6, <2>1, SequenceLengths
  <2> DEFINE e == end(i)
  <2>3. e \in i .. c + k /\ o + e = p + w - 1 /\ w > 0
    <3>1. o + i = p /\ i \in Int /\ i >= 1 /\ i <= c /\ c \in Int /\ k \in Int /\ o \in Int
      BY <1>1, <2>1
    <3>2. e = i + w - 1 /\ w \in {0, 2, 3, 4} /\ e > c /\ e <= c + k
      BY <2>1, <2>2
    <3> HIDE DEF p, w, e, end
    <3> QED BY <3>1, <3>2
  <2> HIDE DEF end
  <2>4. ValidRune(SubSeq(s, p, p + w - 1))
    BY <1>7, <2>1, <2>3
  <2>5. p \in 1 .. Len(s) /\ p + w - 1 <= Len(s) /\ p + w - 1 > b
    <3>1. o + c = b /\ b \in Nat /\ b + k <= Len(s) /\ Len(s) \in Nat /\ k \in Nat
      BY <1>1
    <3>2. e > c /\ e <= c + k /\ e \in Int /\ o + e = p + w - 1 /\ c \in Int /\ o \in Int
      BY <1>1, <2>1, <2>3
    <3>3. p + w - 1 <= Len(s) /\ p + w - 1 > b
      <4> HIDE DEF p, w, e
      <4> QED BY <3>1, <3>2
    <3>4. p \in 1 .. b /\ b <= Len(s)
      BY <2>2, <3>1
    <3> QED BY <3>1, <3>3, <3>4
  <2>6. UnitWidth(s, p) = w
    BY <2>3, <2>4, <2>5, WholeRuneIsUnit
  <2> QED BY <2>2, <2>5, <2>6, CutByRune
<1>10. SplitUTF8Prefix(context, rest) = IF starts = {} THEN 0 ELSE end(Least(starts)) - c
  BY <1>2 DEF SplitUTF8Prefix, window
<1>11. CASE ~RuneCut(s, b)
  <2>1. starts = {}
    BY <1>9, <1>11
  <2> HIDE DEF starts
  <2> QED BY <1>10, <1>11, <2>1 DEF BytesAfter, context, rest
<1>12. CASE RuneCut(s, b)
  <2> DEFINE p == UnitOf(s)[b]
             w == UnitWidth(s, p)
             i == p - o
  <2>1. p \in 1 .. b /\ p > b - 3 /\ w \in 2 .. 4 /\ p + w - 1 > b
    BY <1>12, RuneAtCut
  <2>2. p \in 1 .. Len(s)
    BY <2>1
  <2>3. /\ w = UTF8SequenceLength(s[p]) /\ p + w - 1 <= Len(s)
        /\ ValidRune(SubSeq(s, p, p + w - 1))
    BY <2>1, <2>2, Widths
  <2> HIDE DEF p, w
  <2>4. i \in 1 .. c /\ o + i = p
    BY <1>1, <2>1
  <2>5. end(i) = i + w - 1
    BY <1>6, <2>3, <2>4
  <2> HIDE DEF i, end
  <2> DEFINE e == end(i)
  <2>6. e > c /\ e <= c + k /\ e \in i .. c + k /\ o + e = p + w - 1
    <3>1. e = i + w - 1 /\ i \in Int /\ w \in 2 .. 4 /\ i >= 1 /\ i <= c /\ o + i = p
      BY <1>1, <2>1, <2>4, <2>5
    <3> HIDE DEF e
    <3>2. o + e = p + w - 1 /\ e > c
      BY <1>1, <2>1, <3>1
    <3>3. e <= c + k
      <4>1. CASE k = 4
        BY <1>1, <3>1, <4>1
      <4>2. CASE k # 4
        <5>1. b + k = Len(s) /\ o + c = b
          BY <1>1, <4>2
        <5> QED BY <1>1, <2>3, <3>1, <3>2, <5>1
      <4> QED BY <4>1, <4>2
    <3> QED BY <1>1, <3>1, <3>2, <3>3
  <2>7. ValidRune(SubSeq(window, i, end(i)))
    BY <1>7, <2>3, <2>4, <2>6
  <2>8. i \in starts
    BY <1>2, <1>4, <1>5, <1>8, <2>4, <2>6, <2>7
  <2>9. \A j \in starts : j \in 1 .. c /\ o + j = p
    BY <1>8, <1>9 DEF p
  <2>10. \A j \in starts : j \in Int /\ i <= j
    BY <1>1, <2>4, <2>9
  <2>11. Least(starts) = i
    <3> HIDE DEF starts
    <3> QED BY <2>8, <2>10, LeastIs
  <2>12. SplitUTF8Prefix(context, rest) = end(i) - c
    <3> HIDE DEF starts
    <3> QED BY <1>10, <2>8, <2>11
  <2>13. end(i) - c = p + w - 1 - b
    BY <1>1, <2>1, <2>4, <2>5
  <2> QED BY <1>12, <2>12, <2>13 DEF BytesAfter, context, rest, p, w
<1> QED BY <1>11, <1>12

-----------------------------------------------------------------------------
(* A stretch of a stream of valid UTF-8 that begins and ends where no rune *)
(* is cut is valid on its own.                                             *)
LEMMA ValidStretch ==
    ASSUME NEW s \in Seq(Bytes), ValidUTF8(s), NEW o \in Nat, NEW l \in Nat,
           o + l <= Len(s), ~RuneCut(s, o), ~RuneCut(s, o + l)
    PROVE  ValidUTF8(SubSeq(s, o + 1, o + l))
<1> DEFINE v == SubSeq(s, o + 1, o + l)
<1>1. v \in Seq(Bytes) /\ Len(v) = l /\ \A j \in 1 .. l : v[j] = s[o + j]
  BY StretchAfter
<1> HIDE DEF v
<1>2. ASSUME NEW n \in 1 .. l, ~(v[n] < 128)
      PROVE  UnitWidth(v, UnitOf(v)[n]) > 1
  <2> DEFINE p == UnitOf(s)[o + n]
             w == UnitWidth(s, p)
             i == p - o
  <2>1. o + n \in 1 .. Len(s) /\ ~(s[o + n] < 128)
    BY <1>1, <1>2
  <2>2. w > 1
    BY <2>1 DEF ValidUTF8
  <2>3. p \in 1 .. o + n /\ o + n < p + w
    BY <2>1, UnitsDivide DEF UnitFrom
  <2> HIDE DEF p
  <2>4. p \in 1 .. Len(s)
    BY <2>1, <2>3
  <2>5. /\ w \in 2 .. 4 /\ p + w - 1 <= Len(s) /\ w = UTF8SequenceLength(s[p])
        /\ ValidRune(SubSeq(s, p, p + w - 1)) /\ ~Continuation(s[p])
    BY <2>2, <2>4, Widths
  <2>6. p > o
    <3>1. ASSUME p <= o PROVE FALSE
      <4>1. o \in 1 .. Len(s) /\ p \in 1 .. o /\ p + w - 1 > o
        BY <2>1, <2>3, <2>4, <2>5, <3>1
      <4> QED BY <4>1, CutByRune
    <3> QED BY <2>3, <3>1
  <2>7. p + w - 1 <= o + l
    <3>1. ASSUME p + w - 1 > o + l PROVE FALSE
      <4>1. o + l \in 1 .. Len(s) /\ p \in 1 .. o + l
        BY <2>1, <2>3, <2>4
      <4> QED BY <3>1, <4>1, CutByRune
    <3> QED BY <2>5, <3>1, <2>3
  <2> HIDE DEF w
  <2>8. /\ i \in 1 .. l /\ o + i = p /\ i <= n /\ n < i + w /\ i + w - 1 <= l
    <3>1. /\ o \in Int /\ n \in Int /\ l \in Int /\ p \in Int /\ w \in Int /\ n <= l
          /\ o < p /\ p <= o + n /\ o + n < p + w /\ p + w - 1 <= o + l
      BY <2>3, <2>5, <2>6, <2>7
    <3> HIDE DEF p
    <3> QED BY <3>1
  <2> HIDE DEF i
  <2>9. SubSeq(v, i, i + w - 1) = SubSeq(s, p, p + w - 1)
    <3> DEFINE a == i - 1
    <3>1. /\ a \in Nat /\ w \in Nat /\ a + w <= l /\ a + 1 = i /\ a + w = i + w - 1
          /\ (o + a) + 1 = p /\ (o + a) + w = p + w - 1
      <4>1. i \in Nat /\ i >= 1 /\ o + i = p /\ i + w - 1 <= l
        BY <2>8
      <4>2. w \in Nat
        BY <2>5
      <4>3. p \in Nat
        BY <2>3
      <4> QED BY <4>1, <4>2, <4>3
    <3> HIDE DEF a
    <3>2. SubSeq(SubSeq(s, o + 1, o + l), a + 1, a + w)
              = SubSeq(s, (o + a) + 1, (o + a) + w)
      BY <3>1, StretchOfStretch
    <3> QED BY <3>1, <3>2 DEF v
  <2>10. v[i] = s[p] /\ i \in 1 .. Len(v)
    BY <1>1, <2>8
  <2>11. UnitWidth(v, i) = w
    <3>1. UTF8SequenceLength(v[i]) = w
      BY <2>5, <2>10
    <3>2. w > 0
      BY <2>5
    <3>3. i + w - 1 <= Len(v)
      BY <1>1, <2>8
    <3>4. ValidRune(SubSeq(v, i, i + w - 1))
      BY <2>5, <2>9
    <3> QED BY <1>1, <2>10, <3>1, <3>2, <3>3, <3>4, WholeRuneIsUnit
  <2>12. UnitOf(v)[i] = i
    BY <1>1, <2>5, <2>10, LeadsStartUnits
  <2>13. n \in i .. i + w - 1
    BY <2>5, <2>8
  <2>14. UnitOf(v)[n] = i
    BY <1>1, <2>10, <2>11, <2>12, <2>13, UnitsSpan
  <2> QED BY <2>5, <2>11, <2>14
<1> QED BY <1>1, <1>2 DEF ValidUTF8, v

(* What the trimming leaves begins and ends where no rune is cut.          *)
LEMMA NoCutBefore ==
    ASSUME NEW s \in Seq(Bytes), NEW h \in 0 .. Len(s)
    PROVE  h - BytesBefore(s, h) \in 0 .. h /\ ~RuneCut(s, h - BytesBefore(s, h))
<1>1. CASE ~RuneCut(s, h)
  BY <1>1 DEF BytesBefore
<1>2. CASE RuneCut(s, h)
  <2> DEFINE p == UnitOf(s)[h]
  <2>1. p \in 1 .. h /\ h \in 1 .. Len(s)
    BY <1>2, RuneAtCut
  <2>2. \A m \in p .. h : UnitOf(s)[m] = p
    BY <2>1, UnitsDivide DEF UnitFrom
  <2> HIDE DEF p
  <2>3. UnitOf(s)[p] = p
    BY <2>1, <2>2
  <2>4. h - BytesBefore(s, h) = p - 1
    BY <1>2, <2>1 DEF BytesBefore, p
  <2>5. ASSUME p - 1 \in 1 .. Len(s) PROVE UnitOf(s)[p - 1] # p
    <3>1. UnitOf(s)[p - 1] \in 1 .. p - 1
      BY <2>5, UnitsDivide DEF UnitFrom
    <3> QED BY <2>1, <3>1
  <2>6. ~RuneCut(s, p - 1)
    <3>1. RuneCut(s, p - 1) => p - 1 \in 1 .. Len(s) /\ UnitOf(s)[p - 1] = UnitOf(s)[p]
      BY <2>1 DEF RuneCut
    <3> QED BY <2>3, <2>5, <3>1
  <2> QED BY <2>1, <2>4, <2>6
<1> QED BY <1>1, <1>2

LEMMA NoCutAfter ==
    ASSUME NEW s \in Seq(Bytes), NEW b \in 1 .. Len(s)
    PROVE  /\ BytesAfter(s, b) \in Nat /\ b + BytesAfter(s, b) <= Len(s)
           /\ ~RuneCut(s, b + BytesAfter(s, b))
<1>1. CASE ~RuneCut(s, b)
  BY <1>1 DEF BytesAfter
<1>2. CASE RuneCut(s, b)
  <2> DEFINE p == UnitOf(s)[b]
             w == UnitWidth(s, p)
             t == p + w - 1
  <2>1. p \in 1 .. b /\ w \in 2 .. 4 /\ t > b
    BY <1>2, RuneAtCut
  <2>2. p \in 1 .. Len(s)
    BY <2>1
  <2>3. t <= Len(s) /\ ~Continuation(s[p])
    BY <2>1, <2>2, Widths
  <2>4. BytesAfter(s, b) = t - b
    <3> HIDE DEF w
    <3>1. BytesAfter(s, b) = p + w - 1 - b
      BY <1>2 DEF BytesAfter, w
    <3> HIDE DEF p
    <3> QED BY <2>1, <3>1
  <2> HIDE DEF p, w
  <2>5. UnitOf(s)[p] = p
    BY <2>2, <2>3, LeadsStartUnits
  <2>6. t \in p .. p + w - 1
    BY <2>1
  <2>7. UnitOf(s)[t] = p
    BY <2>2, <2>5, <2>6, UnitsSpan DEF w
  <2>8. ASSUME RuneCut(s, t) PROVE FALSE
    <3> HIDE DEF t
    <3>1. t + 1 \in 1 .. Len(s) /\ UnitOf(s)[t + 1] = p
      <4>1. t \in Nat
        BY <2>1 DEF t
      <4> QED BY <2>7, <2>8, <4>1 DEF RuneCut
    <3>2. t + 1 < p + w
      BY <3>1, UnitsDivide DEF UnitFrom, w
    <3> QED BY <2>1, <3>2 DEF t
  <2>9. b + (t - b) = t /\ t - b \in Nat
    BY <2>1
  <2> HIDE DEF t
  <2> QED BY <2>3, <2>4, <2>8, <2>9
<1> QED BY <1>1, <1>2
=============================================================================
