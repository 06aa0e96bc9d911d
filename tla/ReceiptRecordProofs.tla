------------------------ MODULE ReceiptRecordProofs ------------------------
(***************************************************************************)
(* Proofs about ReceiptRecord for every output, every value that edits put *)
(* into a file and every number of edits.  In order:                       *)
(*   - what is encoded: each field that is there, once;                    *)
(*   - ToValidUTF8 gives valid text, and JSON changes nothing in it;       *)
(*   - RecordInv, the inductive invariant, with the types it needs;        *)
(*   - reading: what an accepted object of either version decodes to;      *)
(*   - writing: a good record is encoded so that it reads back;            *)
(*   - edits keep the types;                                               *)
(*   - the size of a record;                                               *)
(*   - the steps; the theorems.                                            *)
(***************************************************************************)
EXTENDS ReceiptRecord, Utf8BoundaryProofs
LOCAL INSTANCE SequencesExt
LOCAL INSTANCE FiniteSetsExt
LOCAL INSTANCE Functions

-----------------------------------------------------------------------------
(* What Pick picks.                                                        *)
LEMMA Picked ==
    ASSUME NEW S, NEW s \in Seq(S), NEW T
    PROVE  LET p == Pick(s, T)
           IN  /\ p \in Seq(S)
               /\ \A i \in 1 .. Len(p) : \E j \in 1 .. Len(s) : j \in T /\ p[i] = s[j]
               /\ \A j \in 1 .. Len(s) : j \in T => \E i \in 1 .. Len(p) : p[i] = s[j]
               /\ (\A i, j \in 1 .. Len(s) : s[i] = s[j] => i = j) =>
                      \A i, j \in 1 .. Len(p) : p[i] = p[j] => i = j
<1> DEFINE ss == [i \in DOMAIN s |-> IF i \in T THEN <<s[i]>> ELSE <<>>]
           U(k) == Upto(ss, k)
           From(k) == \A i \in 1 .. Len(U(k)) : \E j \in 1 .. k : j \in T /\ U(k)[i] = s[j]
           All(k) == \A j \in 1 .. k : j \in T => \E i \in 1 .. Len(U(k)) : U(k)[i] = s[j]
           One(k) == (\A i, j \in 1 .. Len(s) : s[i] = s[j] => i = j) =>
                         \A i, j \in 1 .. Len(U(k)) : U(k)[i] = U(k)[j] => i = j
           G == {k \in Nat : k <= Len(s) => From(k) /\ All(k) /\ One(k)}
<1>1. /\ ss \in Seq(Seq(S)) /\ Len(ss) = Len(s) /\ Len(s) \in Nat
      /\ \A i \in 1 .. Len(s) : ss[i] = IF i \in T THEN <<s[i]>> ELSE <<>>
  <2>1. DOMAIN s = 1 .. Len(s) /\ Len(s) \in Nat
    OBVIOUS
  <2>2. \A i \in 1 .. Len(s) : s[i] \in S
    OBVIOUS
  <2>3. \A x \in S : <<x>> \in Seq(S)
    OBVIOUS
  <2>4. <<>> \in Seq(S)
    OBVIOUS
  <2>5. \A i \in 1 .. Len(s) : (IF i \in T THEN <<s[i]>> ELSE <<>>) \in Seq(S)
    BY <2>2, <2>3, <2>4
  <2> DEFINE Q == Seq(S)
  <2> HIDE DEF Q
  <2>6. ss \in Seq(Q) /\ Len(ss) = Len(s)
    BY <2>1, <2>5 DEF Q
  <2> QED BY <2>1, <2>6 DEF Q
<1> HIDE DEF ss
<1>2. /\ Pick(s, T) = U(Len(s))
      /\ \A k \in 1 .. Len(s) : U(k) = U(k - 1) \o ss[k]
      /\ \A k \in 0 .. Len(s) : U(k) \in Seq(S)
  BY <1>1, FlattenIsUpto DEF Pick, ss
<1>3. 0 \in G
  <2>1. U(0) = <<>>
    BY DEF Upto
  <2>2. Len(<<>>) = 0
    OBVIOUS
  <2> HIDE DEF U
  <2> QED BY <2>1, <2>2
<1>4. ASSUME NEW k \in Nat, k \in G PROVE k + 1 \in G
  <2>1. ASSUME k + 1 <= Len(s) PROVE From(k + 1) /\ All(k + 1) /\ One(k + 1)
    <3>1. /\ From(k) /\ All(k) /\ One(k)
          /\ k + 1 \in 1 .. Len(s) /\ (k + 1) - 1 = k /\ k \in 0 .. Len(s)
      <4> HIDE DEF From, All, One
      <4>1. k <= Len(s) /\ k + 1 \in 1 .. Len(s) /\ (k + 1) - 1 = k /\ k \in 0 .. Len(s)
        BY <1>1, <2>1
      <4> QED BY <1>4, <4>1
    <3>2. U(k + 1) = U(k) \o ss[k + 1] /\ U(k) \in Seq(S)
      BY <1>2, <3>1
    <3> DEFINE u == U(k)
               v == U(k + 1)
    <3>3. u \in Seq(S) /\ v = u \o ss[k + 1]
      BY <3>2
    <3>4. s[k + 1] \in S
      BY <3>1
    <3>5. CASE k + 1 \notin T
      <4>1. ss[k + 1] = <<>>
        BY <1>1, <3>1, <3>5
      <4>2. v = u
        <5> HIDE DEF u, v
        <5> QED BY <3>3, <4>1
      <4>3. \A j \in 1 .. k + 1 : j \in T => j \in 1 .. k
        BY <3>5
      <4>4. U(k + 1) = U(k)
        BY <4>2
      <4>5. \A j \in 1 .. k : j \in 1 .. k + 1
        OBVIOUS
      <4> HIDE DEF u, v, U, G
      <4> QED BY <3>1, <4>3, <4>4, <4>5
    <3>6. CASE k + 1 \in T
      <4>1. ss[k + 1] = <<s[k + 1]>>
        BY <1>1, <3>1, <3>6
      <4> DEFINE l == Len(u)
      <4>2. /\ l \in Nat /\ Len(v) = l + 1 /\ v[l + 1] = s[k + 1]
            /\ \A i \in 1 .. l : v[i] = u[i]
        <5> HIDE DEF u, v
        <5> QED BY <3>3, <3>4, <4>1
      <4>3. \A i \in 1 .. l + 1 : i \in 1 .. l \/ i = l + 1
        BY <4>2
      <4>4. /\ \A i \in 1 .. l : \E j \in 1 .. k : j \in T /\ u[i] = s[j]
            /\ \A j \in 1 .. k : j \in T => \E i \in 1 .. l : u[i] = s[j]
            /\ (\A i, j \in 1 .. Len(s) : s[i] = s[j] => i = j) =>
                   \A i, j \in 1 .. l : u[i] = u[j] => i = j
        BY <3>1
      <4> HIDE DEF u, v, U, G, l, From, All, One
      <4>5. \A i \in 1 .. l + 1 : \E j \in 1 .. k + 1 : j \in T /\ v[i] = s[j]
        <5>1. \A j \in 1 .. k : j \in 1 .. k + 1
          OBVIOUS
        <5>2. k + 1 \in 1 .. k + 1
          OBVIOUS
        <5>3. ASSUME NEW i \in 1 .. l PROVE \E j \in 1 .. k + 1 : j \in T /\ v[i] = s[j]
          <6>1. PICK j \in 1 .. k : j \in T /\ u[i] = s[j]
            BY <4>4
          <6> QED BY <4>2, <5>1, <6>1
        <5>4. \E j \in 1 .. k + 1 : j \in T /\ v[l + 1] = s[j]
          BY <3>6, <4>2, <5>2
        <5> QED BY <4>3, <5>3, <5>4
      <4>6. \A j \in 1 .. k + 1 : j \in T => \E i \in 1 .. l + 1 : v[i] = s[j]
        <5>1. \A j \in 1 .. k + 1 : j \in 1 .. k \/ j = k + 1
          OBVIOUS
        <5>2. l + 1 \in 1 .. l + 1 /\ \A i \in 1 .. l : i \in 1 .. l + 1
          BY <4>2
        <5> QED BY <4>2, <4>4, <5>1, <5>2
      <4>7. ASSUME \A i, j \in 1 .. Len(s) : s[i] = s[j] => i = j,
                   NEW i \in 1 .. l + 1, NEW j \in 1 .. l + 1, v[i] = v[j]
            PROVE  i = j
        <5>1. \A a \in 1 .. l : u[a] # s[k + 1]
          <6>1. ASSUME NEW a \in 1 .. l, u[a] = s[k + 1] PROVE FALSE
            <7>1. PICK b \in 1 .. k : u[a] = s[b]
              BY <4>4
            <7>2. b \in 1 .. Len(s) /\ b # k + 1
              BY <3>1, <1>1
            <7> QED BY <3>1, <4>7, <6>1, <7>1, <7>2
          <6> QED BY <6>1
        <5> QED BY <4>2, <4>3, <4>4, <4>7, <5>1
      <4> QED BY <4>2, <4>5, <4>6, <4>7 DEF From, All, One, v
    <3> QED BY <3>5, <3>6
  <2> QED BY <2>1
<1>5. Nat \subseteq G
  <2> HIDE DEF G
  <2> QED BY <1>3, <1>4, Induction
<1>6. From(Len(s)) /\ All(Len(s)) /\ One(Len(s)) /\ U(Len(s)) \in Seq(S)
  <2> HIDE DEF From, All, One, U
  <2>1. Len(s) \in Nat /\ Len(s) <= Len(s) /\ Len(s) \in 0 .. Len(s)
    BY <1>1
  <2>2. Len(s) \in G
    BY <1>5, <2>1
  <2> QED BY <1>2, <2>1, <2>2
<1> HIDE DEF U, G
<1> QED BY <1>2, <1>6

-----------------------------------------------------------------------------
(* A field that one member of an object gives has the value of that one.   *)
LEMMA LastOfOne ==
    ASSUME NEW object, NEW i \in Nat
    PROVE  LastOf(object, {i}) = object[i].value
<1>1. \E x \in {i} : \A y \in {i} : x >= y
  OBVIOUS
<1>2. Max({i}) = i
  BY <1>1 DEF Max
<1> QED BY <1>2 DEF LastOf

(* The last of some positions is one of them.                              *)
LEMMA LastOfSome ==
    ASSUME NEW n \in Nat, NEW object, NEW T, T \subseteq 1 .. n, T # {}
    PROVE  \E i \in T : LastOf(object, T) = object[i].value
<1> DEFINE N == {n - i : i \in T}
<1>1. N \subseteq Nat /\ N # {}
  OBVIOUS
<1>2. PICK x \in N : \A y \in N : x <= y
  <2> HIDE DEF N
  <2> QED BY <1>1, LeastNat
<1>3. PICK i \in T : x = n - i
  OBVIOUS
<1>4. \A j \in T : i >= j
  <2>1. ASSUME NEW j \in T PROVE i >= j
    <3>1. n - j \in N /\ i \in 1 .. n /\ j \in 1 .. n
      OBVIOUS
    <3>2. n - i <= n - j
      <4> HIDE DEF N
      <4> QED BY <1>2, <1>3, <3>1
    <3> QED BY <3>1, <3>2
  <2> QED BY <2>1
<1>5. Max(T) \in T
  BY <1>4 DEF Max
<1> QED BY <1>5 DEF LastOf

LEMMA FieldOfOne ==
    ASSUME NEW R, NEW object \in Seq(R), NEW i \in 1 .. Len(object),
           \A j \in 1 .. Len(object) : object[j].key = object[i].key => j = i
    PROVE  Field(object, object[i].key) = object[i].value
<1>1. Given(object, object[i].key) = {i}
  BY DEF Given
<1> QED BY <1>1, LastOfOne DEF Field

LEMMA FieldOfNone ==
    ASSUME NEW R, NEW object \in Seq(R), NEW key,
           \A j \in 1 .. Len(object) : object[j].key # key
    PROVE  Field(object, key) = Null
<1>1. Given(object, key) = {}
  BY DEF Given
<1> QED BY <1>1 DEF Field, LastOf

LEMMA MemberFields ==
    \A key, value : /\ Member(key, value).key = key
                    /\ Member(key, value).exact = TRUE
                    /\ Member(key, value).value = value
BY DEF Member

(* What is encoded: the fields in their order, each once, less those that  *)
(* are not there.                                                          *)
Distinct(order) == \A i, j \in 1 .. Len(order) : order[i] = order[j] => i = j

There(order, f) == {order[k] : k \in {k \in 1 .. Len(order) : f[order[k]] # Null}}

MemberSet(order, f) == {Member(key, f[key]) : key \in There(order, f)}

Encodes(ms, order, f) ==
    /\ ms \in Seq(MemberSet(order, f))
    /\ \A i \in 1 .. Len(ms) :
           /\ ms[i].key \in There(order, f)
           /\ ms[i] = Member(ms[i].key, f[ms[i].key])
    /\ \A key \in There(order, f) : \E i \in 1 .. Len(ms) : ms[i].key = key
    /\ \A i, j \in 1 .. Len(ms) : ms[i].key = ms[j].key => i = j
    /\ \A k \in 1 .. Len(order) : Field(ms, order[k]) = f[order[k]]

LEMMA MembersAre ==
    ASSUME NEW S, NEW order \in Seq(S), Distinct(order), NEW f
    PROVE  Encodes(Members(order, f), order, f)
<1> DEFINE ms == Members(order, f)
           T == {i \in DOMAIN order : f[order[i]] # Null}
           p == Pick(order, T)
           there == {order[k] : k \in {k \in 1 .. Len(order) : f[order[k]] # Null}}
           M == {Member(key, f[key]) : key \in there}
<1>1. /\ p \in Seq(S)
      /\ \A i \in 1 .. Len(p) : \E j \in 1 .. Len(order) : j \in T /\ p[i] = order[j]
      /\ \A j \in 1 .. Len(order) : j \in T => \E i \in 1 .. Len(p) : p[i] = order[j]
      /\ \A i, j \in 1 .. Len(p) : p[i] = p[j] => i = j
  <2> HIDE DEF T
  <2> QED BY Picked DEF Distinct
<1>2. ms = [i \in 1 .. Len(p) |-> Member(p[i], f[p[i]])]
  <2>1. DOMAIN p = 1 .. Len(p)
    <3> HIDE DEF p
    <3> QED BY <1>1
  <2> QED BY <2>1 DEF Members
<1>3. T = {i \in 1 .. Len(order) : f[order[i]] # Null}
  OBVIOUS
<1> HIDE DEF p
<1>4. \A i \in 1 .. Len(p) : p[i] \in there
  BY <1>1, <1>3
<1>5. ASSUME NEW key \in there PROVE \E i \in 1 .. Len(p) : p[i] = key
  <2>1. PICK k \in 1 .. Len(order) : f[order[k]] # Null /\ key = order[k]
    OBVIOUS
  <2>2. k \in T
    BY <2>1, <1>3
  <2> HIDE DEF T, there
  <2> QED BY <1>1, <2>1, <2>2
<1> HIDE DEF T, there, M
<1>6. \A i \in 1 .. Len(p) : Member(p[i], f[p[i]]) \in M
  BY <1>4 DEF M
<1>7. Len(p) \in Nat
  BY <1>1
<1>8. ms \in Seq(M) /\ Len(ms) = Len(p) /\ \A i \in 1 .. Len(p) : ms[i] = Member(p[i], f[p[i]])
  <2> HIDE DEF ms
  <2> QED BY <1>2, <1>6, <1>7
<1> HIDE DEF ms
<1>9. ASSUME NEW i \in 1 .. Len(ms)
      PROVE  ms[i].key = p[i] /\ ms[i] = Member(ms[i].key, f[ms[i].key])
  <2>1. ms[i] = Member(p[i], f[p[i]])
    BY <1>8
  <2>2. ms[i].key = p[i]
    <3>1. Member(p[i], f[p[i]]).key = p[i]
      BY MemberFields
    <3> QED BY <2>1, <3>1
  <2> QED BY <2>1, <2>2
<1>10. \A i \in 1 .. Len(ms) : ms[i].key \in there
  BY <1>4, <1>8, <1>9
<1>11. \A key \in there : \E i \in 1 .. Len(ms) : ms[i].key = key
  BY <1>5, <1>8, <1>9
<1>12. \A i, j \in 1 .. Len(ms) : ms[i].key = ms[j].key => i = j
  BY <1>1, <1>8, <1>9
<1>13. ASSUME NEW k \in 1 .. Len(order) PROVE Field(ms, order[k]) = f[order[k]]
  <2>1. CASE f[order[k]] # Null
    <3>1. order[k] \in there
      BY <2>1 DEF there
    <3>2. PICK i \in 1 .. Len(ms) : ms[i].key = order[k]
      BY <3>1, <1>11
    <3>3. \A j \in 1 .. Len(ms) : ms[j].key = ms[i].key => j = i
      BY <1>12
    <3>4. Field(ms, ms[i].key) = ms[i].value
      BY <1>8, <3>3, FieldOfOne
    <3>5. ms[i].value = f[order[k]]
      <4> DEFINE key == order[k]
      <4>1. ms[i] = Member(key, f[key])
        BY <1>9, <3>2
      <4> HIDE DEF key
      <4>2. Member(key, f[key]).value = f[key]
        BY MemberFields
      <4> QED BY <4>1, <4>2 DEF key
    <3> QED BY <3>2, <3>4, <3>5
  <2>2. CASE f[order[k]] = Null
    <3>1. order[k] \notin there
      BY <2>2 DEF there
    <3>2. \A j \in 1 .. Len(ms) : ms[j].key # order[k]
      BY <1>10, <3>1
    <3>3. Field(ms, order[k]) = Null
      BY <1>8, <3>2, FieldOfNone
    <3> QED BY <2>2, <3>3
  <2> QED BY <2>1, <2>2
<1>14. there = There(order, f) /\ M = MemberSet(order, f)
  BY DEF there, M, There, MemberSet
<1> QED BY <1>8, <1>9, <1>10, <1>11, <1>12, <1>13, <1>14 DEF Encodes, ms

-----------------------------------------------------------------------------
(* Texts: a byte that is kept is a piece of its own.                       *)
LEMMA OneMore ==
    ASSUME NEW D, NEW s \in Seq(D), NEW o \in Nat, NEW k \in Nat, o + (k + 1) <= Len(s)
    PROVE  SubSeq(s, o + 1, o + (k + 1)) = SubSeq(s, o + 1, o + k) \o <<s[o + (k + 1)]>>
<1> DEFINE e == s[o + (k + 1)]
           n == k + 1
           x == SubSeq(s, o + 1, o + k)
           y == SubSeq(s, o + 1, o + n)
           z == x \o <<e>>
<1>1. /\ o + k <= Len(s) /\ n \in Nat /\ o + n <= Len(s)
      /\ e \in D /\ s[o + n] = e
  OBVIOUS
<1>2. \A j \in 1 .. n : j \in 1 .. k \/ j = k + 1
  OBVIOUS
<1>3. x \in Seq(D) /\ Len(x) = k /\ \A j \in 1 .. k : x[j] = s[o + j]
  BY <1>1, StretchAfter
<1>4. n = k + 1
  OBVIOUS
<1> HIDE DEF n, e
<1>5. y \in Seq(D) /\ Len(y) = n /\ \A j \in 1 .. n : y[j] = s[o + j]
  BY <1>1, StretchAfter
<1> HIDE DEF x, y
<1>6. /\ z \in Seq(D) /\ Len(z) = n /\ z[n] = e
      /\ \A j \in 1 .. k : z[j] = x[j]
  BY <1>1, <1>3, <1>4
<1> HIDE DEF z
<1>7. n \in 1 .. n /\ \A j \in 1 .. k : j \in 1 .. n
  BY <1>4
<1>8. \A j \in 1 .. n : y[j] = z[j]
  <2>1. y[n] = z[n]
    BY <1>1, <1>5, <1>6, <1>7
  <2>2. \A j \in 1 .. k : y[j] = z[j]
    BY <1>3, <1>5, <1>6, <1>7
  <2> QED BY <1>2, <1>4, <2>1, <2>2
<1>9. y = z
  BY <1>5, <1>6, <1>8
<1> QED BY <1>9 DEF e, n, x, y, z

LEMMA Associative ==
    \A a, b, c \in Seq(Bytes) : (a \o b) \o c = a \o (b \o c)
OBVIOUS

(* The same bytes at two places are the same stretch.                      *)
Same(s, a, v, b, w) == \A j \in 1 .. w : s[a + j] = v[b + j]

LEMMA SameStretch ==
    ASSUME NEW D, NEW s \in Seq(D), NEW v \in Seq(D),
           NEW a \in Nat, NEW b \in Nat, NEW w \in Nat,
           a + w <= Len(s), b + w <= Len(v), Same(s, a, v, b, w)
    PROVE  SubSeq(s, a + 1, a + w) = SubSeq(v, b + 1, b + w)
<1> DEFINE x == SubSeq(s, a + 1, a + w)
           y == SubSeq(v, b + 1, b + w)
<1>1. x \in Seq(D) /\ Len(x) = w /\ \A j \in 1 .. w : x[j] = s[a + j]
  BY StretchAfter
<1>2. y \in Seq(D) /\ Len(y) = w /\ \A j \in 1 .. w : y[j] = v[b + j]
  BY StretchAfter
<1> HIDE DEF x, y
<1>3. \A j \in 1 .. w : x[j] = y[j]
  BY <1>1, <1>2 DEF Same
<1>4. x = y
  BY <1>1, <1>2, <1>3
<1> QED BY <1>4 DEF x, y

Pieces(s, ss, o, l) == \A j \in o + 1 .. o + l : ss[j] = <<s[j]>>

LEMMA KeptBytes ==
    ASSUME NEW s \in Seq(Bytes), NEW ss \in Chunks(Bytes), Len(ss) = Len(s),
           NEW o \in Nat, NEW l \in Nat, o + l <= Len(s), Pieces(s, ss, o, l)
    PROVE  Upto(ss, o + l) = Upto(ss, o) \o SubSeq(s, o + 1, o + l)
<1> DEFINE Kept(k) == k <= l => Upto(ss, o + k) = Upto(ss, o) \o SubSeq(s, o + 1, o + k)
           G == {k \in Nat : Kept(k)}
<1>1. /\ \A k \in 1 .. Len(s) : Upto(ss, k) = Upto(ss, k - 1) \o ss[k]
      /\ \A k \in 0 .. Len(s) : Upto(ss, k) \in Seq(Bytes)
      /\ Len(s) \in Nat
  <2> HIDE DEF G, Kept
  <2>1. \A k \in 1 .. Len(ss) : Upto(ss, k) = Upto(ss, k - 1) \o ss[k]
    BY FlattenIsUpto DEF Chunks
  <2>2. \A k \in 0 .. Len(ss) : Upto(ss, k) \in Seq(Bytes)
    BY FlattenIsUpto DEF Chunks
  <2>3. Len(s) \in Nat
    OBVIOUS
  <2> QED BY <2>1, <2>2, <2>3, Zenon
<1>2. Upto(ss, o) \in Seq(Bytes)
  <2>1. o \in 0 .. Len(s)
    BY <1>1
  <2> QED BY <1>1, <2>1
<1>3. Kept(0)
  <2>1. SubSeq(s, o + 1, o + 0) = <<>>
    <3>1. SubSeq(s, o + 1, o + 0) \in Seq(Bytes) /\ Len(SubSeq(s, o + 1, o + 0)) = 0
      BY StretchAfter
    <3> QED BY <3>1
  <2>2. Upto(ss, o + 0) = Upto(ss, o)
    <3>1. o + 0 = o
      OBVIOUS
    <3> QED BY <3>1
  <2>3. \A x \in Seq(Bytes) : x \o <<>> = x
    OBVIOUS
  <2> QED BY <1>2, <2>1, <2>2, <2>3
<1>4. ASSUME NEW k \in Nat, Kept(k) PROVE Kept(k + 1)
  <2> SUFFICES ASSUME k + 1 <= l
               PROVE  Upto(ss, o + (k + 1))
                          = Upto(ss, o) \o SubSeq(s, o + 1, o + (k + 1))
    OBVIOUS
  <2> DEFINE n == o + (k + 1)
             x == SubSeq(s, o + 1, o + k)
             e == <<s[n]>>
             U == Upto(ss, o)
  <2>1. /\ k <= l /\ n \in 1 .. Len(s) /\ n - 1 = o + k /\ n \in o + 1 .. o + l
        /\ o + k <= Len(s) /\ n <= Len(s)
    BY <1>1
  <2>2. Upto(ss, o + k) = U \o x
    BY <1>4, <2>1
  <2>3. SubSeq(s, o + 1, n) = x \o e
    BY <2>1, OneMore
  <2>4. x \in Seq(Bytes)
    BY <2>1, StretchAfter
  <2> HIDE DEF n, x, U
  <2>5. Upto(ss, n) = Upto(ss, n - 1) \o ss[n]
    BY <1>1, <2>1
  <2>6. ss[n] = e /\ e \in Seq(Bytes)
    <3>1. s[n] \in Bytes
      BY <2>1
    <3>2. ss[n] = e
      BY <2>1 DEF Pieces
    <3> QED BY <3>1, <3>2
  <2>7. U \in Seq(Bytes)
    BY <1>2 DEF U
  <2> HIDE DEF e
  <2>8. (U \o x) \o e = U \o (x \o e)
    <3> HIDE DEF Kept, G
    <3>1. e \in Seq(Bytes)
      BY <2>6
    <3> HIDE DEF U, x, e
    <3> QED BY Zenon, <2>4, <2>7, <3>1, Associative
  <2>9. Upto(ss, n) = U \o SubSeq(s, o + 1, n)
    BY <2>1, <2>2, <2>3, <2>5, <2>6, <2>8
  <2> QED BY <2>9 DEF n, U
<1> HIDE DEF Kept
<1>5. Nat \subseteq G
  <2>1. 0 \in G /\ \A k \in Nat : k \in G => k + 1 \in G
    BY <1>3, <1>4
  <2> HIDE DEF G
  <2> QED BY <2>1, Induction
<1>6. Kept(l) /\ l <= l
  BY <1>5
<1> QED BY <1>6 DEF Kept

(* encoding/json writes valid text as it is.                               *)
LEMMA JSONTextKeepsValid ==
    ASSUME NEW s \in Seq(Bytes), ValidUTF8(s) PROVE JSONText(s) = s
<1> DEFINE ss == [n \in 1 .. Len(s) |-> IF n \in InvalidBytes(s) THEN RuneError ELSE <<s[n]>>]
<1>1. ASSUME NEW n \in 1 .. Len(s) PROVE n \notin InvalidBytes(s)
  <2>1. s[n] < 128 \/ UnitWidth(s, UnitOf(s)[n]) > 1
    BY DEF ValidUTF8
  <2> HIDE DEF ss
  <2>2. s[n] \in Bytes
    OBVIOUS
  <2>3. s[n] \in Int
    <3>1. \A x \in Bytes : x \in Int
      BY DEF Bytes
    <3> QED BY <2>2, <3>1
  <2>4. s[n] < 128 => ~(s[n] >= 128)
    BY <2>3
  <2>5. UnitWidth(s, UnitOf(s)[n]) > 1 => UnitWidth(s, UnitOf(s)[n]) # 1
    OBVIOUS
  <2> QED BY <2>1, <2>4, <2>5 DEF InvalidBytes
<1>2. \A n \in 1 .. Len(s) : s[n] \in Bytes /\ <<s[n]>> \in Seq(Bytes)
  OBVIOUS
<1>3. ss = [n \in 1 .. Len(s) |-> <<s[n]>>]
  BY <1>1
<1> DEFINE Q == Seq(Bytes)
<1>4. ss \in Chunks(Bytes) /\ Len(ss) = Len(s) /\ \A n \in 1 .. Len(s) : ss[n] = <<s[n]>>
  <2> HIDE DEF Q, ss
  <2>1. ss \in Seq(Q) /\ Len(ss) = Len(s) /\ \A n \in 1 .. Len(s) : ss[n] = <<s[n]>>
    BY <1>2, <1>3 DEF Q
  <2> QED BY <2>1 DEF Q, Chunks
<1>5. JSONText(s) = FlattenSeq(ss)
  BY DEF JSONText
<1> HIDE DEF ss
<1> DEFINE l == Len(s)
<1>6. l \in Nat /\ 0 + l <= Len(s) /\ 0 + l = l /\ 0 + 1 = 1
  OBVIOUS
<1>7. Upto(ss, 0 + l) = Upto(ss, 0) \o SubSeq(s, 0 + 1, 0 + l)
  <2>1. 0 + 1 .. 0 + l = 1 .. Len(s)
    OBVIOUS
  <2>2. Pieces(s, ss, 0, l)
    BY <1>4, <2>1 DEF Pieces
  <2> HIDE DEF l
  <2> QED BY <1>4, <1>6, <2>2, KeptBytes
<1>8. FlattenSeq(ss) = Upto(ss, l)
  BY <1>4, FlattenIsUpto DEF Chunks
<1>9. Upto(ss, 0) = <<>> /\ SubSeq(s, 1, l) = s /\ <<>> \o s = s
  BY DEF Upto
<1> QED BY <1>5, <1>6, <1>7, <1>8, <1>9

(* The valid bytes of s are runes wherever they stand.                     *)
StandsAt(s, v, o) == \A i \in 1 .. Len(s) : v[o + i] = s[i]

LEMMA ValidElsewhere ==
    ASSUME NEW s \in Seq(Bytes), ValidUTF8(s), NEW v \in Seq(Bytes),
           NEW o \in Nat, o + Len(s) <= Len(v), StandsAt(s, v, o),
           NEW n \in 1 .. Len(s)
    PROVE  v[o + n] < 128 \/ UnitWidth(v, UnitOf(v)[o + n]) > 1
<1> SUFFICES ASSUME ~(v[o + n] < 128)
             PROVE  UnitWidth(v, UnitOf(v)[o + n]) > 1
  OBVIOUS
<1>1. UnitWidth(s, UnitOf(s)[n]) > 1
  <2>1. s[n] < 128 \/ UnitWidth(s, UnitOf(s)[n]) > 1
    BY DEF ValidUTF8
  <2>2. v[o + n] = s[n]
    BY DEF StandsAt
  <2> QED BY <2>1, <2>2
<1> DEFINE p == UnitOf(s)[n]
           w == UnitWidth(s, p)
           a == p - 1
           q == o + a
<1>2. p \in 1 .. n /\ n < p + w
  BY UnitsDivide DEF UnitFrom
<1>3. p \in 1 .. Len(s) /\ w > 1
  BY <1>1, <1>2
<1> HIDE DEF p
<1>4. w \in 2 .. 4 /\ p + w - 1 <= Len(s)
  BY <1>3, Widths
<1>5. /\ w = UTF8SequenceLength(s[p]) /\ ~Continuation(s[p])
      /\ ValidRune(SubSeq(s, p, p + w - 1))
  BY <1>3, Widths
<1> HIDE DEF w
<1>6. /\ a \in Nat /\ a + 1 = p /\ a + w = p + w - 1 /\ a + w <= Len(s)
      /\ w \in Nat /\ Len(v) \in Nat /\ Len(s) \in Nat
  BY <1>3, <1>4
<1>7. n \in a + 1 .. a + w
  BY <1>2, <1>3, <1>4
<1> HIDE DEF a
<1>8. /\ q \in Nat /\ q + w <= Len(v) /\ q + 1 \in 1 .. Len(v)
      /\ (q + 1) + w - 1 = q + w
  BY <1>4, <1>6
<1>9. v[q + 1] = s[p]
  <2>1. q + 1 = o + p
    BY <1>6
  <2> HIDE DEF q
  <2> QED BY <1>3, <2>1 DEF StandsAt
<1>10. Same(s, a, v, q, w)
  <2>1. \A j \in 1 .. w : a + j \in 1 .. Len(s) /\ q + j = o + (a + j)
    BY <1>6
  <2> HIDE DEF q
  <2> QED BY <2>1 DEF StandsAt, Same
<1>11. o + n \in q + 1 .. q + w
  BY <1>6, <1>7
<1> HIDE DEF q
<1>12. SubSeq(s, a + 1, a + w) = SubSeq(v, q + 1, q + w)
  <2>1. a \in Nat /\ w \in Nat /\ a + w <= Len(s)
    BY <1>6
  <2>2. q \in Nat /\ q + w <= Len(v)
    BY <1>8
  <2> QED BY <2>1, <2>2, <1>10, SameStretch
<1>13. ValidRune(SubSeq(v, q + 1, (q + 1) + w - 1))
  BY <1>5, <1>6, <1>8, <1>12
<1> DEFINE r == q + 1
<1>14. /\ r \in 1 .. Len(v) /\ r + w - 1 <= Len(v) /\ v[r] = s[p]
       /\ ValidRune(SubSeq(v, r, r + w - 1)) /\ o + n \in r .. r + w - 1
  BY <1>8, <1>9, <1>11, <1>13
<1> HIDE DEF r
<1>15. UTF8SequenceLength(v[r]) = w /\ ~Continuation(v[r])
  BY <1>5, <1>14
<1>16. w > 0
  BY <1>4
<1>17. UnitWidth(v, r) = w
  BY <1>14, <1>15, <1>16, WholeRuneIsUnit
<1>18. UnitOf(v)[r] = r
  BY <1>14, <1>15, LeadsStartUnits
<1>19. UnitOf(v)[o + n] = r
  BY <1>14, <1>17, <1>18, UnitsSpan
<1> QED BY <1>4, <1>17, <1>19

LEMMA ConcatValid ==
    ASSUME NEW a \in Seq(Bytes), NEW b \in Seq(Bytes), ValidUTF8(a), ValidUTF8(b)
    PROVE  ValidUTF8(a \o b)
<1> DEFINE v == a \o b
           m == Len(a)
           Whole(n) == v[n] < 128 \/ UnitWidth(v, UnitOf(v)[n]) > 1
<1>1. /\ v \in Seq(Bytes) /\ m \in Nat /\ Len(b) \in Nat /\ Len(v) = m + Len(b)
      /\ \A i \in 1 .. m : v[i] = a[i]
      /\ \A i \in 1 .. Len(b) : v[m + i] = b[i]
  OBVIOUS
<1> HIDE DEF v
<1>2. ASSUME NEW n \in 1 .. Len(v) PROVE Whole(n)
  <2>1. CASE n <= m
    <3>1. n \in 1 .. Len(a) /\ 0 + n = n /\ 0 + Len(a) <= Len(v) /\ 0 \in Nat
      BY <1>1, <2>1
    <3>2. StandsAt(a, v, 0)
      BY <1>1 DEF StandsAt
    <3>3. Whole(0 + n)
      BY <1>1, <3>1, <3>2, ValidElsewhere
    <3> HIDE DEF Whole
    <3> QED BY <3>1, <3>3
  <2>2. CASE n > m
    <3> DEFINE i == n - m
    <3>1. i \in 1 .. Len(b) /\ m + i = n /\ m + Len(b) <= Len(v)
      BY <1>1, <2>2
    <3>3. StandsAt(b, v, m)
      BY <1>1 DEF StandsAt
    <3> HIDE DEF i, m
    <3>2. Whole(m + i)
      BY <1>1, <3>1, <3>3, ValidElsewhere
    <3> HIDE DEF Whole
    <3> QED BY <3>1, <3>2
  <2> QED BY <1>1, <2>1, <2>2
<1> QED BY <1>2 DEF ValidUTF8, v
LEMMA EmptyValid == ValidUTF8(<<>>)
<1>1. 1 .. Len(<<>>) = {}
  OBVIOUS
<1> QED BY <1>1 DEF ValidUTF8

LEMMA ASCIIValid ==
    ASSUME NEW b \in Bytes, b < 128 PROVE ValidUTF8(<<b>>)
<1>1. Len(<<b>>) = 1 /\ <<b>>[1] = b /\ \A n \in 1 .. 1 : n = 1
  OBVIOUS
<1> QED BY <1>1 DEF ValidUTF8

LEMMA RuneValid ==
    ASSUME NEW v \in Seq(Bytes), ValidRune(v), Len(v) > 1 PROVE ValidUTF8(v)
<1>1. /\ 1 \in 1 .. Len(v) /\ Len(v) \in Nat /\ 1 + Len(v) - 1 = Len(v)
      /\ SubSeq(v, 1, Len(v)) = v
  OBVIOUS
<1>2. UTF8SequenceLength(v[1]) = Len(v)
  <2>1. IF v[1] < 128 THEN Len(v) = 1 ELSE Len(v) = UTF8SequenceLength(v[1])
    BY DEF ValidRune
  <2>2. Len(v) # 1
    BY <1>1
  <2> QED BY <2>1, <2>2, Zenon
<1>3. UnitWidth(v, 1) = Len(v)
  <2> DEFINE l == UTF8SequenceLength(v[1])
  <2>1. l > 0 /\ 1 + l - 1 <= Len(v) /\ 1 + l - 1 = Len(v)
    BY <1>1, <1>2
  <2>2. ValidRune(SubSeq(v, 1, 1 + l - 1))
    BY <1>1, <2>1
  <2> QED BY <1>2, <2>1, <2>2 DEF UnitWidth
<1>4. UnitOf(v)[1] = 1
  <2>1. ~Continuation(v[1])
    BY <1>1, <1>2, SequenceLengths
  <2> QED BY <1>1, <2>1, LeadsStartUnits
<1>5. ASSUME NEW n \in 1 .. Len(v) PROVE UnitWidth(v, UnitOf(v)[n]) > 1
  <2>1. n \in 1 .. 1 + UnitWidth(v, 1) - 1
    BY <1>1, <1>3
  <2>2. UnitOf(v)[n] = 1
    BY <1>1, <1>4, <2>1, UnitsSpan
  <2> QED BY <1>3, <2>2
<1> QED BY <1>5 DEF ValidUTF8

LEMMA RuneErrorValid == RuneError \in Seq(Bytes) /\ ValidUTF8(RuneError)
<1>1. /\ Len(RuneError) = 3 /\ RuneError[1] = 239 /\ RuneError[2] = 191
      /\ RuneError[3] = 189 /\ RuneError # <<>>
  BY DEF RuneError
<1>2. 239 \in Bytes /\ 191 \in Bytes /\ 189 \in Bytes
  BY DEF Bytes
<1>3. RuneError \in Seq(Bytes)
  BY <1>2 DEF RuneError
<1>4. UTF8SequenceLength(239) = 3
  BY DEF UTF8SequenceLength
<1>5. ValidRune(RuneError)
  <2>1. \A i \in 2 .. 3 : i = 2 \/ i = 3
    OBVIOUS
  <2>2. WellFormed(RuneError)
    BY <1>1, <2>1 DEF WellFormed, Continuation, SecondByteOK
  <2> QED BY <1>1, <1>4, <2>2 DEF ValidRune
<1> QED BY <1>1, <1>3, <1>5, RuneValid

(* No unit lies across the place where one begins.                         *)
LEMMA NoCutAtUnit ==
    ASSUME NEW s \in Seq(Bytes), NEW p \in 1 .. Len(s), UnitOf(s)[p] = p
    PROVE  ~RuneCut(s, p - 1)
<1> SUFFICES ASSUME RuneCut(s, p - 1) PROVE FALSE
  OBVIOUS
<1> DEFINE b == p - 1
<1>1. b \in 1 .. Len(s) /\ b + 1 = p /\ UnitOf(s)[b] = UnitOf(s)[b + 1]
  BY DEF RuneCut
<1> HIDE DEF b
<1>2. UnitOf(s)[b] \in 1 .. b
  BY <1>1, UnitsDivide DEF UnitFrom
<1> QED BY <1>1, <1>2

(* The text that stands for bytes that are no text is text.                *)
ReadablePieces(s) ==
    [n \in 1 .. Len(s) |->
        CASE n \notin InvalidBytes(s) -> <<s[n]>>
          [] n \in InvalidBytes(s) /\ n - 1 \notin InvalidBytes(s) -> RuneError
          [] OTHER -> <<>>]

LEMMA ReadablePiece ==
    ASSUME NEW s \in Seq(Bytes)
    PROVE  /\ ReadablePieces(s) \in Chunks(Bytes)
           /\ Len(ReadablePieces(s)) = Len(s)
           /\ \A n \in 1 .. Len(s) :
                 /\ n \notin InvalidBytes(s) => ReadablePieces(s)[n] = <<s[n]>>
                 /\ ReadablePieces(s)[n] \in {<<s[n]>>, RuneError, <<>>}
                 /\ n \in InvalidBytes(s) => ReadablePieces(s)[n] \in {RuneError, <<>>}
<1> DEFINE ss == ReadablePieces(s)
           Q == Seq(Bytes)
<1>1. ASSUME NEW n \in 1 .. Len(s)
      PROVE  /\ n \notin InvalidBytes(s) => ss[n] = <<s[n]>>
             /\ ss[n] \in {<<s[n]>>, RuneError, <<>>}
             /\ n \in InvalidBytes(s) => ss[n] \in {RuneError, <<>>}
  BY DEF ReadablePieces
<1>2. ASSUME NEW n \in 1 .. Len(s) PROVE ss[n] \in Q
  <2>1. s[n] \in Bytes
    OBVIOUS
  <2>2. <<s[n]>> \in Q /\ <<>> \in Q /\ RuneError \in Q
    BY <2>1, RuneErrorValid
  <2> HIDE DEF ss, Q
  <2> QED BY <1>1, <2>2
<1>3. ss = [n \in 1 .. Len(s) |-> ss[n]] /\ Len(s) \in Nat
  BY DEF ReadablePieces
<1>4. ss \in Seq(Q) /\ Len(ss) = Len(s)
  <2> HIDE DEF ss, Q
  <2> QED BY <1>2, <1>3
<1> QED BY <1>1, <1>4 DEF Chunks
ValidUpto(s, k) == ~RuneCut(s, k) => ValidUTF8(Upto(ReadablePieces(s), k))

(* One unit of s after another.                                            *)
LEMMA UptoUnit ==
    ASSUME NEW s \in Seq(Bytes), NEW k \in 1 .. Len(s),
           \A m \in 0 .. k - 1 : ValidUpto(s, m)
    PROVE  ValidUpto(s, k)
<1> SUFFICES ASSUME ~RuneCut(s, k) PROVE ValidUTF8(Upto(ReadablePieces(s), k))
  BY DEF ValidUpto
<1> DEFINE p == UnitOf(s)[k]
           w == UnitWidth(s, p)
           o == p - 1
           ss == ReadablePieces(s)
<1>1. p \in 1 .. k /\ UnitOf(s)[p] = p
  <2>1. /\ p \in 1 .. k
        /\ \A m \in p .. k : UnitOf(s)[m] = p
    BY UnitsDivide DEF UnitFrom
  <2>2. p \in p .. k
    BY <2>1
  <2> HIDE DEF p
  <2> QED BY <2>1, <2>2
<1>2. k < p + w
  BY UnitsDivide DEF UnitFrom
<1>3. ss \in Chunks(Bytes) /\ Len(ss) = Len(s)
  BY ReadablePiece
<1> HIDE DEF p, ss
<1>4. p \in 1 .. Len(s)
  BY <1>1
<1>5. w \in 1 .. 4
  BY <1>4, Widths
<1>6. p + w - 1 = k
  <2>1. CASE p + w - 1 > k
    <3>1. k \in 1 .. Len(s)
      OBVIOUS
    <3> QED BY <1>1, <2>1, <3>1, CutByRune
  <2>2. CASE ~(p + w - 1 > k)
    <3> HIDE DEF w
    <3> QED BY <1>1, <1>2, <1>5, <2>2
  <2> QED BY <2>1, <2>2
<1> HIDE DEF w
<1>7. o \in 0 .. k - 1 /\ o \in Nat /\ o + w = k /\ o + 1 = p /\ o + w <= Len(s)
  BY <1>1, <1>4, <1>5, <1>6
<1>8. ValidUTF8(Upto(ss, o))
  <2>1. ~RuneCut(s, o)
    BY <1>1, <1>4, NoCutAtUnit
  <2>2. ValidUpto(s, o)
    BY <1>7
  <2> QED BY <2>1, <2>2 DEF ValidUpto, ss
<1>9. Upto(ss, o) \in Seq(Bytes)
  <2>1. o \in 0 .. Len(ss)
    BY <1>3, <1>7
  <2> HIDE DEF o
  <2> QED BY <1>3, <2>1, FlattenIsUpto DEF Chunks
<1>10. CASE w = 1
  <2>1. p = k /\ o = k - 1
    BY <1>4, <1>6, <1>10
  <2>2. k \in 1 .. Len(ss)
    BY <1>3
  <2>3. Upto(ss, k) = Upto(ss, o) \o ss[k]
    <3>1. Upto(ss, k) = Upto(ss, k - 1) \o ss[k]
      BY <1>3, <2>2, FlattenIsUpto DEF Chunks
    <3> HIDE DEF o
    <3> QED BY <2>1, <3>1
  <2>4. ss[k] \in Seq(Bytes) /\ ValidUTF8(ss[k])
    <3>1. CASE k \in InvalidBytes(s)
      <4>1. ss[k] \in {RuneError, <<>>}
        BY <3>1, ReadablePiece DEF ss
      <4>2. <<>> \in Seq(Bytes)
        OBVIOUS
      <4> QED BY <4>1, <4>2, RuneErrorValid, EmptyValid
    <3>2. CASE k \notin InvalidBytes(s)
      <4>1. ss[k] = <<s[k]>>
        BY <3>2, ReadablePiece DEF ss
      <4>2. ~(s[k] >= 128)
        <5>1. UnitWidth(s, UnitOf(s)[k]) = 1
          BY <1>10 DEF w, p
        <5> QED BY <3>2, <5>1 DEF InvalidBytes
      <4>3. s[k] \in Bytes
        OBVIOUS
      <4>4. s[k] < 128
        <5>1. \A x \in Bytes : x \in Int
          BY DEF Bytes
        <5>2. s[k] \in Int
          BY <4>3, <5>1
        <5> QED BY <4>2, <5>2
      <4>5. <<s[k]>> \in Seq(Bytes)
        BY <4>3
      <4> QED BY <4>1, <4>3, <4>4, <4>5, ASCIIValid
    <3> QED BY <3>1, <3>2
  <2> QED BY <1>8, <1>9, <2>3, <2>4, ConcatValid DEF ss
<1>11. CASE w # 1
  <2> DEFINE v == SubSeq(s, o + 1, o + w)
  <2>1. w > 1 /\ w \in Nat
    BY <1>5, <1>11
  <2>2. Pieces(s, ss, o, w)
    <3>1. ASSUME NEW j \in o + 1 .. o + w PROVE ss[j] = <<s[j]>>
      <4>1. j \in p .. p + w - 1 /\ j \in 1 .. Len(s)
        BY <1>4, <1>6, <1>7
      <4>2. UnitOf(s)[j] = p
        BY <1>1, <1>4, <4>1, UnitsSpan DEF w
      <4>3. UnitWidth(s, UnitOf(s)[j]) # 1
        BY <1>11, <4>2 DEF w
      <4>4. j \notin InvalidBytes(s)
        BY <4>3 DEF InvalidBytes
      <4> QED BY <4>1, <4>4, ReadablePiece DEF ss
    <3> QED BY <3>1 DEF Pieces
  <2>3. Upto(ss, k) = Upto(ss, o) \o v
    <3>1. Upto(ss, o + w) = Upto(ss, o) \o v
      <4> HIDE DEF o
      <4> QED BY <1>3, <1>7, <2>1, <2>2, KeptBytes
    <3> HIDE DEF v, o
    <3> QED BY <1>7, <3>1
  <2>4. v \in Seq(Bytes) /\ Len(v) = w
    <3> HIDE DEF o
    <3> QED BY <1>7, <2>1, StretchAfter
  <2>5. ValidRune(v)
    <3>1. ValidRune(SubSeq(s, p, p + w - 1))
      BY <1>4, <2>1, Widths DEF w
    <3>2. p + w - 1 = o + w
      BY <1>6, <1>7
    <3> HIDE DEF o
    <3> QED BY <1>7, <3>1, <3>2
  <2> HIDE DEF v
  <2>6. ValidUTF8(v)
    BY <2>1, <2>4, <2>5, RuneValid
  <2> QED BY <1>8, <1>9, <2>3, <2>4, <2>6, ConcatValid DEF ss
<1> QED BY <1>10, <1>11

LEMMA ToValidUTF8Valid ==
    ASSUME NEW s \in Seq(Bytes)
    PROVE  ToValidUTF8(s) \in Seq(Bytes) /\ ValidUTF8(ToValidUTF8(s))
<1> DEFINE G == {k \in Nat : \A m \in 0 .. k : m <= Len(s) => ValidUpto(s, m)}
           ss == ReadablePieces(s)
<1>1. Len(s) \in Nat
  OBVIOUS
<1>2. 0 \in G
  <2>1. ValidUpto(s, 0)
    BY EmptyValid DEF ValidUpto, Upto
  <2>2. \A m \in 0 .. 0 : m = 0
    OBVIOUS
  <2> QED BY <2>1, <2>2
<1>3. ASSUME NEW k \in Nat, k \in G PROVE k + 1 \in G
  <2>1. ASSUME NEW m \in 0 .. k + 1, m <= Len(s) PROVE ValidUpto(s, m)
    <3>1. CASE m \in 0 .. k
      BY <1>3, <2>1, <3>1
    <3>2. CASE m = k + 1
      <4>1. m \in 1 .. Len(s)
        BY <1>1, <2>1, <3>2
      <4>2. \A i \in 0 .. m - 1 : i \in 0 .. k /\ i <= Len(s)
        BY <1>1, <2>1, <3>2
      <4>3. \A i \in 0 .. m - 1 : ValidUpto(s, i)
        BY <1>3, <4>2
      <4> QED BY <4>1, <4>3, UptoUnit
    <3> QED BY <3>1, <3>2
  <2> QED BY <2>1
<1>4. Nat \subseteq G
  <2> HIDE DEF G
  <2> QED BY <1>2, <1>3, Induction
<1>5. ValidUpto(s, Len(s))
  <2>1. Len(s) \in 0 .. Len(s) /\ Len(s) <= Len(s)
    BY <1>1
  <2> QED BY <1>1, <1>4, <2>1
<1>6. ~RuneCut(s, Len(s))
  BY <1>1 DEF RuneCut
<1>7. ToValidUTF8(s) = FlattenSeq(ss)
  BY DEF ToValidUTF8, ReadablePieces
<1>8. ss \in Chunks(Bytes) /\ Len(ss) = Len(s)
  BY ReadablePiece
<1> HIDE DEF ss
<1>9. FlattenSeq(ss) = Upto(ss, Len(s)) /\ Upto(ss, Len(s)) \in Seq(Bytes)
  <2>1. Len(s) \in 0 .. Len(s)
    BY <1>1
  <2> QED BY <1>8, <2>1, FlattenIsUpto DEF Chunks
<1> QED BY <1>5, <1>6, <1>7, <1>9 DEF ValidUpto, ss
LEMMA JSONTextTyped ==
    ASSUME NEW s \in Seq(Bytes) PROVE JSONText(s) \in Seq(Bytes)
<1> DEFINE ss == [n \in 1 .. Len(s) |-> IF n \in InvalidBytes(s) THEN RuneError ELSE <<s[n]>>]
           Q == Seq(Bytes)
<1>1. Len(s) \in Nat
  OBVIOUS
<1>2. ASSUME NEW n \in 1 .. Len(s)
      PROVE  (IF n \in InvalidBytes(s) THEN RuneError ELSE <<s[n]>>) \in Q
  <2>1. s[n] \in Bytes
    OBVIOUS
  <2>2. <<s[n]>> \in Q /\ RuneError \in Q
    BY <2>1, RuneErrorValid
  <2> HIDE DEF Q
  <2> QED BY <2>2
<1>3. ss \in Seq(Q) /\ Len(ss) = Len(s)
  <2> HIDE DEF Q
  <2> QED BY <1>1, <1>2
<1>4. JSONText(s) = FlattenSeq(ss)
  BY DEF JSONText
<1> HIDE DEF ss
<1>5. FlattenSeq(ss) = Upto(ss, Len(s)) /\ Upto(ss, Len(s)) \in Seq(Bytes)
  <2>1. Len(s) \in 0 .. Len(s)
    BY <1>1
  <2> QED BY <1>3, <2>1, FlattenIsUpto
<1> QED BY <1>4, <1>5

-----------------------------------------------------------------------------
(* What the members of a file hold, whoever wrote them.                    *)
Absent == {Null, Wrong}

InnerTyped(m) ==
    /\ m.key \in RawKeys => m.value \in Base64Strings \cup Absent
    /\ m.key \in TextKeys => m.value \in Seq(Bytes) \cup Absent
    /\ m.key \in CountKeys => m.value \in Int \cup Absent
    /\ m.key = "capture_complete" => m.value \in BOOLEAN \cup Absent
    /\ m.key = "signal" => m.value \in SignalNames \cup Absent

Inner ==
    {m \in [key : StreamKeys \cup {"signal", "unknown"}, exact : BOOLEAN,
            value : Values \cup Absent] : InnerTyped(m)}

InnerObjects == [members : Seq(Inner)]

OuterTyped(m) ==
    /\ m.key \in ObjectKeys => m.value \in InnerObjects \cup Strings \cup Absent
    /\ m.key \in {"version", "exit_code"} => m.value \in Int \cup Absent
    /\ m.key \in MetadataKeys => m.value \in Words \cup Absent

Outer ==
    {m \in [key : Keys \cup {"unknown"}, exact : BOOLEAN,
            value : Values \cup InnerObjects \cup Strings \cup Absent] : OuterTyped(m)}

(* A stream in memory, and a record of the current schema that is complete *)
(* and valid: what a writer encodes and what a reader returns.             *)
StreamTyped(s) ==
    /\ s = [key \in StreamKeys |-> s[key]]
    /\ \A key \in CountKeys : s[key] \in Int
    /\ s.capture_complete \in BOOLEAN
    /\ \A key \in TextKeys : s[key] \in Seq(Bytes)
    /\ \A key \in RawKeys : s[key] \in Base64Strings \cup {Null}

RecordTyped(r) ==
    /\ r = [key \in Keys |-> r[key]]
    /\ r.version = CurrentVersion
    /\ r.exit_code \in Int
    /\ r.directory \in Words
    /\ \A key \in MetadataKeys : r[key] \in Words \cup {Null}
    /\ "partial" \notin {r.command, r.git}
    /\ "empty" \notin {r.runprint_version, r.git}
    /\ r.interruption \in SignalNames \cup {Null}
    /\ StreamTyped(r.stdout)
    /\ StreamTyped(r.stderr)

GoodRecord(r) == RecordTyped(r) /\ Validate(r)

(* The inductive invariant.                                                *)
FileInv == file = Null \/ file \in Seq(Outer)

Prepared(r) ==
    /\ r = [key \in Keys |-> r[key]]
    /\ r.version = CurrentVersion
    /\ r.runprint_version = "good"
    /\ r.directory = "good"
    /\ r.command \in Commands
    /\ \A key \in {"started_at", "duration_ns"} : r[key] = "good"
    /\ r.git \in {"good", Null}

StageInv ==
    /\ stage \in {"idle", "prepare", "refused", "running", "ended", "recorded", "lost"}
    /\ stage = "running" => Prepared(receipt)
    /\ stage \in {"ended", "recorded", "lost"} =>
          GoodRecord(receipt) /\ receipt.runprint_version # Null
    /\ stage = "lost" => ~FitsLimit(receipt)
    /\ stage = "recorded" /\ edits = 0 => file = Encode(receipt)

RecordInv == FileInv /\ StageInv /\ edits \in Nat

LEMMA NoValue ==
    \A none \in Absent :
        /\ none \notin Words /\ none \notin SignalNames /\ none \notin Int /\ none \notin BOOLEAN
        /\ none \notin Seq(Bytes) /\ none \notin Base64Strings
        /\ none \notin InnerObjects /\ none \notin Strings
        /\ none \notin Seq(Inner) /\ none \notin Records
<1> SUFFICES ASSUME NEW none \in Absent
             PROVE  /\ none \notin Words /\ none \notin SignalNames /\ none \notin Int /\ none \notin BOOLEAN
                    /\ none \notin Seq(Bytes) /\ none \notin Base64Strings
                    /\ none \notin InnerObjects /\ none \notin Strings
                    /\ none \notin Seq(Inner) /\ none \notin Records
  OBVIOUS
<1>1. /\ none \notin Values /\ none \notin Objects /\ none \notin Strings
      /\ none \notin MemberLists /\ none \notin Records
  BY NoValueAssumption DEF Absent
<1> DEFINE R == [key : StreamKeys \cup {"signal", "unknown"}, exact : BOOLEAN,
                 value : Values \cup {Null, Wrong}]
<1>2. Seq(Inner) \subseteq Seq(R)
  <2>1. Inner \subseteq R
    BY DEF Inner, Absent
  <2> HIDE DEF R
  <2> QED BY <2>1
<1>3. InnerObjects \subseteq Objects
  <2> DEFINE a == Seq(Inner)
             b == Seq(R)
  <2>1. a \subseteq b
    BY <1>2
  <2>2. InnerObjects = [members : a] /\ Objects = [members : b]
    BY DEF InnerObjects, Objects, MemberLists
  <2> HIDE DEF a, b
  <2> QED BY <2>1, <2>2
<1>4. MemberLists = Seq(R)
  BY DEF MemberLists
<1> HIDE DEF R
<1>5. none \notin Seq(Inner)
  BY <1>1, <1>2, <1>4
<1> QED BY <1>1, <1>3, <1>5 DEF Values

LEMMA KindsOfObject ==
    /\ \A value \in InnerObjects :
          /\ value.members \in Seq(Inner) /\ value = [members |-> value.members]
          /\ IsObject(value) /\ ~IsText(value)
    /\ \A value \in Strings :
          value.text \in Seq(Bytes) /\ ~IsObject(value) /\ IsText(value)
<1>1. \A value \in InnerObjects : value \notin {Null, Wrong}
  BY NoValue DEF Absent
<1>2. \A value \in Strings : value \notin {Null, Wrong}
  BY NoValue DEF Absent
<1> DEFINE Q == Seq(Inner)
           B == Seq(Bytes)
<1>3. ASSUME NEW value \in InnerObjects
      PROVE  /\ value.members \in Q /\ value = [members |-> value.members]
             /\ DOMAIN value = {"members"}
  <2>1. value \in [members : Q]
    BY DEF InnerObjects
  <2> HIDE DEF Q
  <2> QED BY <2>1
<1>4. ASSUME NEW value \in Strings
      PROVE  value.text \in B /\ DOMAIN value = {"text"}
  <2>1. value \in [text : B]
    BY DEF Strings
  <2> HIDE DEF B
  <2> QED BY <2>1
<1> HIDE DEF Q, B
<1>5. "members" \notin {"text"} /\ "text" \notin {"members"}
  OBVIOUS
<1> QED BY <1>1, <1>2, <1>3, <1>4, <1>5 DEF IsObject, IsText, Q, B

-----------------------------------------------------------------------------
(* Where the fields that are read come from.                               *)
LEMMA FieldFrom ==
    ASSUME NEW R, NEW object \in Seq(R), NEW key, Field(object, key) # Null
    PROVE  \E i \in 1 .. Len(object) :
               object[i].key = key /\ Field(object, key) = object[i].value
<1>1. Given(object, key) = {i \in 1 .. Len(object) : object[i].key = key} /\ Len(object) \in Nat
  BY DEF Given
<1>2. Given(object, key) # {}
  BY DEF Field, LastOf
<1>3. \E i \in Given(object, key) : LastOf(object, Given(object, key)) = object[i].value
  BY <1>1, <1>2, LastOfSome
<1> QED BY <1>1, <1>3 DEF Field

LEMMA PlainFieldFrom ==
    ASSUME NEW object \in Seq(Outer), NEW key, PlainField(object, key) # Null
    PROVE  \E i \in At(object, {key}) :
               /\ i \in 1 .. Len(object) /\ object[i].key = key
               /\ PlainField(object, key) = object[i].value
<1>1. /\ At(object, {key}) \subseteq 1 .. Len(object) /\ Len(object) \in Nat
      /\ \A i \in At(object, {key}) : object[i].key = key
  BY DEF At
<1>2. At(object, {key}) # {}
  BY DEF PlainField, LastOf
<1>3. \E i \in At(object, {key}) : LastOf(object, At(object, {key})) = object[i].value
  BY <1>1, <1>2, LastOfSome
<1> QED BY <1>1, <1>3 DEF PlainField

LEMMA ObjectFieldFrom ==
    ASSUME NEW R, NEW object \in Seq(R), NEW key, NEW S,
           \A i \in 1 .. Len(object) :
               object[i].key = key /\ object[i].value # Null => object[i].value.members \in Seq(S),
           ObjectField(object, key) # Null
    PROVE  ObjectField(object, key) \in Seq(S)
<1> DEFINE live == {i \in Given(object, key) :
                       \A j \in Given(object, key) : j >= i => object[j].value # Null}
           ss == [i \in DOMAIN object |->
                     IF i \in live THEN object[i].value.members ELSE <<>>]
           Q == Seq(S)
<1>1. ObjectField(object, key) = FlattenSeq(ss)
  <2>1. ObjectField(object, key) = IF live = {} THEN Null ELSE FlattenSeq(ss)
    BY DEF ObjectField
  <2> HIDE DEF live, ss
  <2> QED BY <2>1
<1>2. DOMAIN object = 1 .. Len(object) /\ Len(object) \in Nat
  OBVIOUS
<1>3. ASSUME NEW i \in live
      PROVE  i \in 1 .. Len(object) /\ object[i].key = key /\ object[i].value # Null
  <2>1. i \in Given(object, key) /\ i \in 1 .. Len(object) /\ i >= i
    BY <1>2 DEF Given
  <2> QED BY <2>1 DEF Given
<1> HIDE DEF live
<1>4. ASSUME NEW i \in 1 .. Len(object)
      PROVE  (IF i \in live THEN object[i].value.members ELSE <<>>) \in Q
  <2>1. <<>> \in Q
    OBVIOUS
  <2>2. i \in live => object[i].value.members \in Q
    BY <1>3
  <2> HIDE DEF Q
  <2> QED BY <2>1, <2>2
<1>5. ss \in Seq(Q)
  <2> HIDE DEF Q
  <2> QED BY <1>2, <1>4
<1> HIDE DEF ss
<1>6. FlattenSeq(ss) = Upto(ss, Len(ss)) /\ Upto(ss, Len(ss)) \in Seq(S)
  <2>1. Len(ss) \in Nat
    <3> HIDE DEF Q
    <3> QED BY <1>5
  <2>2. Len(ss) \in 0 .. Len(ss)
    BY <2>1
  <2> QED BY <1>5, <2>2, FlattenIsUpto
<1> QED BY <1>1, <1>6

(* An object that gives a field once.                                      *)
LEMMA ObjectFieldOfOne ==
    ASSUME NEW R, NEW object \in Seq(R), NEW i \in 1 .. Len(object), NEW S,
           \A j \in 1 .. Len(object) : object[j].key = object[i].key => j = i,
           object[i].value # Null, object[i].value.members \in Seq(S)
    PROVE  ObjectField(object, object[i].key) = object[i].value.members
<1> DEFINE key == object[i].key
           live == {k \in Given(object, key) :
                       \A j \in Given(object, key) : j >= k => object[j].value # Null}
           ss == [k \in DOMAIN object |->
                     IF k \in live THEN object[k].value.members ELSE <<>>]
           Q == Seq(S)
<1>1. DOMAIN object = 1 .. Len(object) /\ Len(object) \in Nat
  OBVIOUS
<1>2. Given(object, key) = {i}
  BY <1>1 DEF Given
<1>3. live = {i}
  BY <1>2
<1>4. ObjectField(object, key) = FlattenSeq(ss)
  <2>1. ObjectField(object, key) = IF live = {} THEN Null ELSE FlattenSeq(ss)
    BY DEF ObjectField
  <2>2. live # {}
    BY <1>3
  <2> HIDE DEF live, ss
  <2> QED BY <2>1, <2>2
<1> HIDE DEF live
<1>5. <<>> \in Q /\ object[i].value.members \in Q
  OBVIOUS
<1>6. /\ ss \in Seq(Q) /\ Len(ss) = Len(object)
      /\ ss[i] = object[i].value.members
      /\ \A j \in 1 .. Len(ss) : j # i => ss[j] = <<>>
  <2> HIDE DEF Q
  <2> QED BY <1>1, <1>3, <1>5
<1> HIDE DEF ss
<1>7. FlattenSeq(ss) = ss[i]
  BY <1>6, FlattenOnly
<1> QED BY <1>4, <1>6, <1>7

LEMMA ObjectFieldOfNone ==
    ASSUME NEW R, NEW object \in Seq(R), NEW key,
           \A j \in 1 .. Len(object) : object[j].key = key => object[j].value = Null
    PROVE  ObjectField(object, key) = Null
<1>1. ASSUME NEW k \in Given(object, key),
             \A j \in Given(object, key) : j >= k => object[j].value # Null
      PROVE  FALSE
  <2>1. k \in 1 .. Len(object) /\ object[k].key = key /\ k >= k
    BY DEF Given
  <2> QED BY <1>1, <2>1
<1>2. {i \in Given(object, key) :
          \A j \in Given(object, key) : j >= i => object[j].value # Null} = {}
  BY <1>1
<1> QED BY <1>2 DEF ObjectField
(* A member of an object of the schema.                                    *)
Known(key) == {m \in Inner : m.value # Wrong /\ m.key \in FieldsOf(key)}

LEMMA SchemaMembers ==
    ASSUME NEW object \in Seq(Outer), HasSchemaV2(object), NEW i \in 1 .. Len(object),
           object[i].key \in ObjectKeys, object[i].value # Null
    PROVE  /\ object[i].value \in InnerObjects
           /\ object[i].value.members \in Seq(Known(object[i].key))
           /\ HasFields(object[i].value.members, FieldsOf(object[i].key))
<1> DEFINE value == object[i].value
           key == object[i].key
           members == value.members
<1>1. i \in At(object, ObjectKeys)
  BY DEF At
<1>2. IsObject(value) /\ HasFields(members, FieldsOf(key))
  BY <1>1 DEF HasSchemaV2
<1>3. value \in InnerObjects
  <2>1. object[i] \in Outer
    OBVIOUS
  <2>2. value \in InnerObjects \cup Strings \cup Absent
    BY <2>1 DEF Outer, OuterTyped
  <2> HIDE DEF value
  <2>3. value \notin Absent
    BY <1>2 DEF IsObject, Absent
  <2> QED BY <1>2, <2>2, <2>3, KindsOfObject
<1> HIDE DEF value
<1>4. members \in Seq(Inner)
  BY <1>3, KindsOfObject
<1> HIDE DEF key, members
<1>5. \A j \in 1 .. Len(members) : members[j].key \in FieldsOf(key) /\ members[j].value # Wrong
  BY <1>2, <1>4 DEF HasFields
<1>6. members \in Seq(Known(key))
  <2>1. \A j \in 1 .. Len(members) : members[j] \in Known(key)
    BY <1>4, <1>5 DEF Known
  <2> QED BY <1>4, <2>1
<1> QED BY <1>2, <1>3, <1>6 DEF value, key, members

LEMMA SchemaObject ==
    ASSUME NEW object \in Seq(Outer), HasSchemaV2(object), NEW key \in ObjectKeys,
           ObjectField(object, key) # Null
    PROVE  ObjectField(object, key) \in Seq(Known(key))
<1>1. \A i \in 1 .. Len(object) :
          object[i].key = key /\ object[i].value # Null
              => object[i].value.members \in Seq(Known(key))
  BY SchemaMembers
<1> QED BY <1>1, ObjectFieldFrom

(* What a field of it holds.                                               *)
LEMMA KnownField ==
    ASSUME NEW which, NEW members \in Seq(Known(which)), NEW key
    PROVE  /\ key \in RawKeys => Field(members, key) \in Base64Strings \cup {Null}
           /\ key \in TextKeys => Field(members, key) \in Seq(Bytes) \cup {Null}
           /\ key \in CountKeys => Field(members, key) \in Int \cup {Null}
           /\ key = "capture_complete" => Field(members, key) \in BOOLEAN \cup {Null}
           /\ key = "signal" => Field(members, key) \in SignalNames \cup {Null}
           /\ key \notin FieldsOf(which) => Field(members, key) = Null
<1>1. CASE Field(members, key) = Null
  BY <1>1
<1>2. CASE Field(members, key) # Null
  <2>1. PICK i \in 1 .. Len(members) :
            members[i].key = key /\ Field(members, key) = members[i].value
    BY <1>2, FieldFrom
  <2>2. members[i] \in Known(which)
    OBVIOUS
  <2> DEFINE m == members[i]
  <2>3. m \in Inner /\ m.value # Wrong /\ m.key \in FieldsOf(which)
    BY <2>2 DEF Known
  <2> HIDE DEF m
  <2>4. InnerTyped(m)
    BY <2>3 DEF Inner
  <2>5. m.value \notin Absent
    BY <1>2, <2>1, <2>3 DEF Absent, m
  <2>6. key = m.key /\ Field(members, key) = m.value
    BY <2>1 DEF m
  <2> QED BY <2>3, <2>4, <2>5, <2>6 DEF InnerTyped
<1> QED BY <1>1, <1>2

LEMMA KeysOfStream ==
    /\ "capture_complete" \in StreamKeys \ RawKeys
    /\ CountKeys \subseteq StreamKeys \ RawKeys
    /\ TextKeys \subseteq StreamKeys \ RawKeys
    /\ RawKeys \subseteq StreamKeys
    /\ "signal" \notin StreamKeys
    /\ CountKeys \cap TextKeys = {}
BY DEF StreamKeys, CountKeys, TextKeys, RawKeys

LEMMA WireTyped ==
    ASSUME NEW which, NEW members \in Seq(Known(which)), WireComplete(Wire(members))
    PROVE  /\ WireStream(Wire(members)) = Wire(members)
           /\ StreamTyped(Wire(members))
<1> DEFINE w == Wire(members)
<1>1. w = [key \in StreamKeys |-> w[key]]
      /\ \A key \in StreamKeys : w[key] = Field(members, key)
  BY DEF Wire
<1>2. /\ \A key \in StreamKeys \ RawKeys : w[key] # Null
      /\ \A key \in RawKeys : ~PresentButEmpty(w, key)
  BY DEF WireComplete
<1> HIDE DEF w
<1>3. WireStream(w) = w
  BY <1>1, <1>2 DEF WireStream
<1>4. \A key \in CountKeys : w[key] \in Int
  BY <1>1, <1>2, KeysOfStream, KnownField
<1>5. w.capture_complete \in BOOLEAN
  BY <1>1, <1>2, KeysOfStream, KnownField
<1>6. \A key \in TextKeys : w[key] \in Seq(Bytes)
  BY <1>1, <1>2, KeysOfStream, KnownField
<1>7. \A key \in RawKeys : w[key] \in Base64Strings \cup {Null}
  BY <1>1, KeysOfStream, KnownField
<1> QED BY <1>1, <1>3, <1>4, <1>5, <1>6, <1>7 DEF StreamTyped, w

-----------------------------------------------------------------------------
(* Exactness: what Validate requires of a chunk is what makes it the       *)
(* canonical form of its bytes.                                            *)
LEMMA ExactOfValid ==
    ASSUME NEW text, NEW raw \in Base64Strings \cup {Null}, NEW count,
           ValidateChunk(count, text, raw)
    PROVE  ExactChunk(count, text, raw)
<1>1. CASE raw = Null
  BY <1>1 DEF ValidateChunk, ExactChunk, EncodeChunk, ChunkData
<1>2. CASE raw # Null
  <2>1. /\ Decodes(raw) /\ Len(raw.bytes) = count /\ ~ValidUTF8(raw.bytes)
        /\ text = ToValidUTF8(raw.bytes)
    BY <1>2 DEF ValidateChunk
  <2>2. raw.spelling = "canonical"
    BY <2>1 DEF Decodes
  <2>3. raw = Base64(raw.bytes)
    BY <1>2, <2>2 DEF Base64Strings, Base64
  <2>4. EncodeChunk(raw.bytes) = [text |-> text, raw |-> raw]
    BY <2>1, <2>3 DEF EncodeChunk
  <2> QED BY <1>2, <2>1, <2>2, <2>4 DEF ExactChunk, ChunkData
<1> QED BY <1>1, <1>2

LEMMA ExactOfValidStream ==
    ASSUME NEW s, StreamTyped(s), ValidateStream(s)
    PROVE  ExactStream(s)
<1>1. /\ s.head_raw_base64 \in Base64Strings \cup {Null}
      /\ s.tail_raw_base64 \in Base64Strings \cup {Null}
  BY DEF StreamTyped, RawKeys
<1>2. /\ ValidateChunk(s.head_bytes, s.head_text, s.head_raw_base64)
      /\ ValidateChunk(s.tail_bytes, s.tail_text, s.tail_raw_base64)
  BY DEF ValidateStream
<1> QED BY <1>1, <1>2, ExactOfValid DEF ExactStream

LEMMA ExactOfText ==
    ASSUME NEW text \in Seq(Bytes), ValidUTF8(text)
    PROVE  ExactStream(TextStream(text))
<1>1. EncodeChunk(text) = [text |-> text, raw |-> Null]
  BY DEF EncodeChunk
<1>2. EncodeChunk(<<>>) = [text |-> <<>>, raw |-> Null] /\ Len(<<>>) = 0
  BY EmptyValid DEF EncodeChunk
<1>3. /\ ExactChunk(Len(text), text, Null)
      /\ ExactChunk(0, <<>>, Null)
  BY <1>1, <1>2 DEF ExactChunk, ChunkData
<1> QED BY <1>1, <1>2, <1>3 DEF ExactStream, TextStream, NewStream

LEMMA LegacyExact ==
    ASSUME NEW object \in Seq(Outer), StrictJSON(object), DecodeLegacy(object) # Null,
           NEW key \in {"stdout", "stderr"}
    PROVE  ExactStream(LegacyStream(object, key))
<1> DEFINE value == PlainField(object, key)
<1>1. \A i \in At(object, {"stdout", "stderr"}) : IsText(object[i].value)
  BY DEF DecodeLegacy
<1>2. CASE value = Null
  <2>1. LegacyStream(object, key) = TextStream(<<>>)
    BY <1>2 DEF LegacyStream, OrElse
  <2>2. <<>> \in Seq(Bytes)
    OBVIOUS
  <2> QED BY <2>1, <2>2, EmptyValid, ExactOfText
<1>3. CASE value # Null
  <2>1. PICK i \in At(object, {key}) :
            i \in 1 .. Len(object) /\ object[i].key = key /\ value = object[i].value
    <3>1. PlainField(object, key) # Null
      BY <1>3
    <3>2. \E i \in At(object, {key}) :
              /\ i \in 1 .. Len(object) /\ object[i].key = key
              /\ PlainField(object, key) = object[i].value
      BY <3>1, PlainFieldFrom
    <3> QED BY Zenon, <3>2
  <2>2. i \in At(object, {"stdout", "stderr"}) /\ i \in At(object, ObjectKeys)
    BY DEF At, ObjectKeys
  <2>3. IsText(value)
    BY <1>1, <2>1, <2>2
  <2>4. ValidUTF8(value.text)
    BY <2>1, <2>2, <2>3 DEF StrictJSON
  <2>5. value \in InnerObjects \cup Strings \cup Absent
    <3>1. object[i] \in Outer
      BY <2>1
    <3>2. object[i].key \in ObjectKeys
      BY <2>1 DEF ObjectKeys
    <3> QED BY <2>1, <3>1, <3>2 DEF Outer, OuterTyped
  <2> HIDE DEF value
  <2>6. value \in Strings
    <3>1. value \notin Absent
      BY <2>3 DEF IsText, Absent
    <3> QED BY <2>3, <2>5, <3>1, KindsOfObject
  <2>7. value.text \in Seq(Bytes)
    BY <2>6, KindsOfObject
  <2>8. LegacyStream(object, key) = TextStream(value.text)
    BY <1>3 DEF LegacyStream, OrElse, value
  <2> QED BY <2>4, <2>7, <2>8, ExactOfText
<1> QED BY <1>2, <1>3
-----------------------------------------------------------------------------
(* The fields, one by one.                                                 *)
StreamOrder ==
    <<"received_bytes", "capture_complete", "head_bytes", "head_text",
      "head_raw_base64", "omitted_bytes", "tail_bytes", "tail_text",
      "tail_raw_base64">>

LEMMA SequenceIs ==
    ASSUME NEW S, NEW n \in Nat, NEW s, s = [i \in 1 .. n |-> s[i]],
           \A i \in 1 .. n : s[i] \in S
    PROVE  s \in Seq(S)
OBVIOUS

LEMMA RecordOrderIs ==
    /\ RecordOrder \in Seq(Keys) /\ Len(RecordOrder) = 11 /\ Distinct(RecordOrder)
    /\ Keys = {RecordOrder[k] : k \in 1 .. Len(RecordOrder)}
    /\ Keys = {"version", "runprint_version", "command", "directory", "started_at",
               "duration_ns", "exit_code", "interruption", "stdout", "stderr", "git"}
<1>1. /\ RecordOrder[1] = "version" /\ RecordOrder[2] = "runprint_version"
      /\ RecordOrder[3] = "command" /\ RecordOrder[4] = "directory"
      /\ RecordOrder[5] = "started_at" /\ RecordOrder[6] = "duration_ns"
      /\ RecordOrder[7] = "exit_code" /\ RecordOrder[8] = "interruption"
      /\ RecordOrder[9] = "stdout" /\ RecordOrder[10] = "stderr"
      /\ RecordOrder[11] = "git"
  BY DEF RecordOrder
<1>2. Len(RecordOrder) = 11
  BY DEF RecordOrder
<1>3. DOMAIN RecordOrder = 1 .. 11
  BY DEF RecordOrder
<1>4. RecordOrder = [i \in 1 .. 11 |-> RecordOrder[i]]
  BY DEF RecordOrder
<1>5. \A i \in 1 .. 11 :
          \/ i = 1 \/ i = 2 \/ i = 3 \/ i = 4 \/ i = 5 \/ i = 6
          \/ i = 7 \/ i = 8 \/ i = 9 \/ i = 10 \/ i = 11
  OBVIOUS
<1>6. \A i, j \in 1 .. 11 : RecordOrder[i] = RecordOrder[j] => i = j
  BY <1>1, <1>5
<1>7. Distinct(RecordOrder)
  BY <1>2, <1>6 DEF Distinct
<1>8. Keys = {RecordOrder[k] : k \in 1 .. 11}
  BY <1>3 DEF Keys
<1>9. {RecordOrder[k] : k \in 1 .. 11} =
          {"version", "runprint_version", "command", "directory", "started_at",
           "duration_ns", "exit_code", "interruption", "stdout", "stderr", "git"}
  BY <1>1, <1>5
<1>10. RecordOrder \in Seq(Keys)
  <2>1. \A i \in 1 .. 11 : RecordOrder[i] \in Keys
    BY <1>8
  <2> QED BY <1>4, <2>1, SequenceIs
<1> QED BY <1>2, <1>7, <1>8, <1>9, <1>10

LEMMA StreamOrderIs ==
    /\ StreamOrder \in Seq(StreamKeys) /\ Len(StreamOrder) = 9 /\ Distinct(StreamOrder)
    /\ StreamKeys = {StreamOrder[k] : k \in 1 .. Len(StreamOrder)}
<1>1. /\ StreamOrder[1] = "received_bytes" /\ StreamOrder[2] = "capture_complete"
      /\ StreamOrder[3] = "head_bytes" /\ StreamOrder[4] = "head_text"
      /\ StreamOrder[5] = "head_raw_base64" /\ StreamOrder[6] = "omitted_bytes"
      /\ StreamOrder[7] = "tail_bytes" /\ StreamOrder[8] = "tail_text"
      /\ StreamOrder[9] = "tail_raw_base64"
  BY DEF StreamOrder
<1>2. Len(StreamOrder) = 9
  BY DEF StreamOrder
<1>3. StreamOrder = [i \in 1 .. 9 |-> StreamOrder[i]]
  BY DEF StreamOrder
<1>4. \A i \in 1 .. 9 :
          \/ i = 1 \/ i = 2 \/ i = 3 \/ i = 4 \/ i = 5 \/ i = 6
          \/ i = 7 \/ i = 8 \/ i = 9
  OBVIOUS
<1>5. \A i, j \in 1 .. 9 : StreamOrder[i] = StreamOrder[j] => i = j
  BY <1>1, <1>4
<1>6. StreamKeys = {StreamOrder[k] : k \in 1 .. 9}
  BY <1>1, <1>4 DEF StreamKeys, CountKeys, TextKeys, RawKeys
<1>7. StreamOrder \in Seq(StreamKeys)
  <2>1. \A i \in 1 .. 9 : StreamOrder[i] \in StreamKeys
    BY <1>6
  <2> QED BY <1>3, <2>1, SequenceIs
<1> QED BY <1>2, <1>5, <1>6, <1>7 DEF Distinct

LEMMA KeysOfRecord ==
    /\ ObjectKeys \subseteq Keys /\ MetadataKeys \subseteq Keys
    /\ {"version", "exit_code"} \subseteq Keys
    /\ ObjectKeys \cap MetadataKeys = {}
    /\ ObjectKeys \cap {"version", "exit_code"} = {}
    /\ Keys = ObjectKeys \cup MetadataKeys \cup {"version", "exit_code"}
    /\ Keys \cap CountKeys = {}
    /\ RequiredMetadata \subseteq MetadataKeys
    /\ {"command", "directory", "started_at", "duration_ns", "git",
        "runprint_version"} \subseteq MetadataKeys
BY RecordOrderIs DEF ObjectKeys, MetadataKeys, RequiredMetadata, OptionalMetadata, CountKeys

LEMMA OuterField ==
    ASSUME NEW object \in Seq(Outer), HasFields(object, Keys), NEW key
    PROVE  /\ key \in {"version", "exit_code"} => Field(object, key) \in Int \cup {Null}
           /\ key \in MetadataKeys => Field(object, key) \in Words \cup {Null}
<1>1. CASE Field(object, key) = Null
  BY <1>1
<1>2. CASE Field(object, key) # Null
  <2>1. PICK i \in 1 .. Len(object) :
            object[i].key = key /\ Field(object, key) = object[i].value
    BY <1>2, FieldFrom
  <2> DEFINE m == object[i]
  <2>2. m \in Outer /\ m.value # Wrong
    BY DEF HasFields
  <2>3. key = m.key /\ Field(object, key) = m.value
    BY <2>1
  <2> HIDE DEF m
  <2>4. OuterTyped(m) /\ m.value \notin Absent
    BY <1>2, <2>2, <2>3 DEF Outer, Absent
  <2> QED BY <2>3, <2>4 DEF OuterTyped
<1> QED BY <1>1, <1>2

(* What decodeV2 returns.                                                  *)
FieldsFound(object) ==
    [key \in Keys |->
        IF key \in ObjectKeys THEN ObjectField(object, key) ELSE Field(object, key)]

Understood(object, r) ==
    /\ r = [key \in Keys |-> r[key]]
    /\ \A key \in Keys \ (ObjectKeys \cup OptionalMetadata) : r[key] = Field(object, key)
    /\ r.runprint_version = WithoutEmpty(Field(object, "runprint_version"), Null)
    /\ r.git = WithoutEmpty(Field(object, "git"), "good")
    /\ r.interruption = InterruptionSignal(ObjectField(object, "interruption"))
    /\ \A key \in {"stdout", "stderr"} : r[key] = Wire(ObjectField(object, key))

LEMMA FoundIs ==
    ASSUME NEW object
    PROVE  LET f == FieldsFound(object)
           IN  /\ f = [key \in Keys |-> f[key]]
               /\ \A key \in ObjectKeys : f[key] = ObjectField(object, key)
               /\ \A key \in Keys \ ObjectKeys : f[key] = Field(object, key)
BY KeysOfRecord DEF FieldsFound

LEMMA DecodedV2 ==
    ASSUME NEW object \in Seq(Outer), DecodeV2(object) # Null,
           Field(object, "version") = CurrentVersion
    PROVE  /\ HasSchemaV2(object) /\ CompleteV2(FieldsFound(object))
           /\ Understood(object, DecodeV2(object))
           /\ RecordTyped(DecodeV2(object))
           /\ \A key \in {"stdout", "stderr"} : ValidateStream(DecodeV2(object)[key])
<1> DEFINE f == FieldsFound(object)
           r == DecodeV2(object)
<1>1. HasSchemaV2(object) /\ CompleteV2(f) /\ r = RecordV2(f)
  BY DEF DecodeV2, RecordV2, FieldsFound
<1>2. r = [f EXCEPT !.runprint_version = WithoutEmpty(@, Null),
                    !.git = WithoutEmpty(@, "good"),
                    !.interruption = InterruptionSignal(@),
                    !.stdout = WireStream(Wire(@)),
                    !.stderr = WireStream(Wire(@))]
  BY <1>1 DEF RecordV2
<1>3. /\ f = [key \in Keys |-> f[key]]
      /\ \A key \in ObjectKeys : f[key] = ObjectField(object, key)
      /\ \A key \in Keys \ ObjectKeys : f[key] = Field(object, key)
  BY FoundIs
<1> HIDE DEF f, r
<1>4. /\ "interruption" \in Keys /\ "stdout" \in Keys /\ "stderr" \in Keys
      /\ ObjectKeys = {"interruption", "stdout", "stderr"}
  BY KeysOfRecord DEF ObjectKeys
<1>5. /\ r = [key \in Keys |-> r[key]]
      /\ r.interruption = InterruptionSignal(f.interruption)
      /\ r.stdout = WireStream(Wire(f.stdout)) /\ r.stderr = WireStream(Wire(f.stderr))
      /\ r.runprint_version = WithoutEmpty(f.runprint_version, Null)
      /\ r.git = WithoutEmpty(f.git, "good")
      /\ \A key \in Keys \ (ObjectKeys \cup OptionalMetadata) : r[key] = f[key]
  <2>1. /\ "runprint_version" \in Keys /\ "git" \in Keys
        /\ OptionalMetadata = {"runprint_version", "git"}
    BY KeysOfRecord DEF OptionalMetadata
  <2> QED BY <1>2, <1>3, <1>4, <2>1
<1>6. /\ \A key \in RequiredV2 : f[key] # Null
      /\ "partial" \notin {f.command, f.git}
      /\ \A key \in {"stdout", "stderr"} :
            /\ WireComplete(Wire(f[key]))
            /\ ValidateStream(WireStream(Wire(f[key])))
  BY <1>1 DEF CompleteV2
<1>7. ASSUME NEW key \in {"stdout", "stderr"}
      PROVE  /\ WireStream(Wire(f[key])) = Wire(f[key])
             /\ StreamTyped(Wire(f[key]))
  <2>1. key \in ObjectKeys /\ f[key] = ObjectField(object, key) /\ f[key] # Null
    BY <1>3, <1>4, <1>6 DEF RequiredV2
  <2>2. f[key] \in Seq(Known(key))
    BY <1>1, <2>1, SchemaObject
  <2> QED BY <1>6, <2>2, WireTyped
<1>8. \A key \in {"stdout", "stderr"} :
          r[key] = Wire(f[key]) /\ StreamTyped(r[key]) /\ ValidateStream(r[key])
  <2>1. r["stdout"] = WireStream(Wire(f["stdout"])) /\ r["stderr"] = WireStream(Wire(f["stderr"]))
    BY <1>5
  <2> QED BY <1>6, <1>7, <2>1
<1>9. r.interruption \in SignalNames \cup {Null}
  <2>1. CASE f.interruption = Null
    BY <1>5, <2>1 DEF InterruptionSignal
  <2>2. CASE f.interruption # Null
    <3>1. f.interruption = ObjectField(object, "interruption")
      BY <1>3, <1>4
    <3>2. f.interruption \in Seq(Known("interruption"))
      BY <1>1, <1>4, <2>2, <3>1, SchemaObject
    <3>3. Field(f.interruption, "signal") \in SignalNames \cup {Null}
      BY <3>2, KnownField
    <3> QED BY <1>5, <2>2, <3>3 DEF InterruptionSignal
  <2> QED BY <2>1, <2>2
<1>10. Understood(object, r)
  <2>1. "runprint_version" \in Keys \ ObjectKeys /\ "git" \in Keys \ ObjectKeys
    BY KeysOfRecord DEF ObjectKeys
  <2> QED BY <1>3, <1>4, <1>5, <1>8, <2>1 DEF Understood
<1>11. /\ r.version = CurrentVersion /\ r.exit_code \in Int /\ r.directory \in Words
       /\ \A key \in MetadataKeys : r[key] \in Words \cup {Null}
       /\ "partial" \notin {r.command, r.git}
       /\ "empty" \notin {r.runprint_version, r.git}
  <2>1. HasFields(object, Keys)
    BY <1>1 DEF HasSchemaV2
  <2>2. \A key \in RequiredMetadata \cup {"version", "exit_code"} :
            r[key] = f[key] /\ f[key] = Field(object, key)
    <3>1. \A key \in RequiredMetadata \cup {"version", "exit_code"} :
              key \in Keys \ (ObjectKeys \cup OptionalMetadata)
      BY KeysOfRecord DEF RequiredMetadata, OptionalMetadata, ObjectKeys
    <3> QED BY <1>3, <1>5, <3>1
  <2>3. f.exit_code # Null /\ f.directory # Null
    BY <1>6 DEF RequiredV2, RequiredMetadata
  <2>4. r.version = CurrentVersion
    BY <2>2
  <2>5. r.exit_code \in Int
    BY <2>1, <2>2, <2>3, OuterField
  <2>6. \A key \in MetadataKeys : f[key] = Field(object, key) /\ f[key] \in Words \cup {Null}
    <3>1. \A key \in MetadataKeys : f[key] = Field(object, key)
      BY <1>3, KeysOfRecord
    <3> QED BY <2>1, <3>1, OuterField
  <2>7. r.directory \in Words
    BY <2>2, <2>3, <2>6, KeysOfRecord DEF RequiredMetadata
  <2>8. r.command = f.command
    BY <2>2 DEF RequiredMetadata
  <2>9. /\ r.runprint_version \in Words \cup {Null} /\ r.runprint_version # "empty"
        /\ r.git \in Words \cup {Null} /\ r.git # "empty" /\ r.git # "partial"
    <3>1. "good" \in Words /\ "empty" \in Words /\ Null \notin Words
      BY NoValue DEF Words, Commands, Absent
    <3>2. f.runprint_version \in Words \cup {Null} /\ f.git \in Words \cup {Null}
      BY <2>6, KeysOfRecord
    <3> QED BY <1>5, <1>6, <3>1, <3>2 DEF WithoutEmpty
  <2>10. \A key \in MetadataKeys : r[key] \in Words \cup {Null}
    <3>1. \A key \in MetadataKeys :
              key \in RequiredMetadata \/ key = "runprint_version" \/ key = "git"
      BY DEF MetadataKeys, OptionalMetadata
    <3> QED BY <2>2, <2>6, <2>9, <3>1
  <2> QED BY <1>6, <2>4, <2>5, <2>7, <2>8, <2>9, <2>10
<1>12. RecordTyped(r)
  BY <1>5, <1>8, <1>9, <1>11 DEF RecordTyped
<1> QED BY <1>1, <1>8, <1>10, <1>12 DEF f, r

LEMMA DecodeIs ==
    ASSUME NEW object, Decode(object) # Null
    PROVE  /\ StrictJSON(object) /\ Validate(Decode(object))
           /\ \/ /\ Field(object, "version") = LegacyVersion
                 /\ Decode(object) = DecodeLegacy(object)
              \/ /\ Field(object, "version") = CurrentVersion
                 /\ Decode(object) = DecodeV2(object)
BY DEF Decode, Valid

LEMMA AcceptedExact ==
    ASSUME NEW object \in Seq(Outer)
    PROVE  ExactRecord(Decode(object))
<1> SUFFICES ASSUME Decode(object) # Null
             PROVE  ExactStream(Decode(object).stdout) /\ ExactStream(Decode(object).stderr)
  BY DEF ExactRecord
<1>1. CASE Field(object, "version") = LegacyVersion /\ Decode(object) = DecodeLegacy(object)
  <2>1. StrictJSON(object) /\ DecodeLegacy(object) # Null
    BY <1>1, DecodeIs
  <2>2. /\ DecodeLegacy(object).stdout = LegacyStream(object, "stdout")
        /\ DecodeLegacy(object).stderr = LegacyStream(object, "stderr")
    BY <2>1 DEF DecodeLegacy
  <2> QED BY <1>1, <2>1, <2>2, LegacyExact
<1>2. CASE Field(object, "version") = CurrentVersion /\ Decode(object) = DecodeV2(object)
  <2> DEFINE r == DecodeV2(object)
  <2>1. RecordTyped(r) /\ \A key \in {"stdout", "stderr"} : ValidateStream(r[key])
    BY <1>2, DecodedV2
  <2> HIDE DEF r
  <2>2. /\ StreamTyped(r.stdout) /\ ValidateStream(r.stdout)
        /\ StreamTyped(r.stderr) /\ ValidateStream(r.stderr)
    BY <2>1 DEF RecordTyped
  <2>3. ExactStream(r.stdout) /\ ExactStream(r.stderr)
    BY <2>2, ExactOfValidStream
  <2> QED BY <1>2, <2>3 DEF r
<1> QED BY <1>1, <1>2, DecodeIs
-----------------------------------------------------------------------------
(* Encoding a valid stream, and reading it back.                           *)
LEMMA StreamValid ==
    ASSUME NEW s, StreamTyped(s), ValidateStream(s)
    PROVE  /\ \A key \in TextKeys : s[key] \in Seq(Bytes) /\ ValidUTF8(s[key])
           /\ \A key \in CountKeys : s[key] \in Int /\ SafeCount(s[key])
           /\ \A key \in RawKeys : s[key] # Null => s[key].bytes # <<>>
           /\ \A key \in StreamKeys \ RawKeys : s[key] # Null
           /\ \A key \in StreamKeys : s[key] \in Values \cup {Null} /\ (s[key] # Null => s[key] # Wrong)
<1>1. /\ \A key \in CountKeys : s[key] \in Int
      /\ s.capture_complete \in BOOLEAN
      /\ \A key \in TextKeys : s[key] \in Seq(Bytes)
      /\ \A key \in RawKeys : s[key] \in Base64Strings \cup {Null}
  BY DEF StreamTyped
<1>2. /\ \A key \in CountKeys : SafeCount(s[key])
      /\ ValidateChunk(s.head_bytes, s.head_text, s.head_raw_base64)
      /\ ValidateChunk(s.tail_bytes, s.tail_text, s.tail_raw_base64)
  BY DEF ValidateStream
<1>3. /\ ValidUTF8(s.head_text) /\ ValidUTF8(s.tail_text)
      /\ s.head_raw_base64 # Null => ~ValidUTF8(s.head_raw_base64.bytes)
      /\ s.tail_raw_base64 # Null => ~ValidUTF8(s.tail_raw_base64.bytes)
  BY <1>2 DEF ValidateChunk
<1>4. \A key \in TextKeys : ValidUTF8(s[key])
  BY <1>3 DEF TextKeys
<1>5. \A key \in RawKeys : s[key] # Null => s[key].bytes # <<>>
  BY <1>3, EmptyValid DEF RawKeys
<1>6. \A key \in StreamKeys :
          key \in CountKeys \/ key = "capture_complete" \/ key \in TextKeys \/ key \in RawKeys
  BY DEF StreamKeys
<1>7. ASSUME NEW key \in StreamKeys
      PROVE  /\ s[key] \in Values \cup {Null} /\ (s[key] # Null => s[key] # Wrong)
             /\ key \notin RawKeys => s[key] # Null
  <2> DEFINE x == s[key]
  <2>1. \/ x \in Int \/ x \in BOOLEAN \/ x \in Seq(Bytes) \/ x \in Base64Strings
        \/ key \in RawKeys /\ x = Null
    BY <1>1, <1>6
  <2> HIDE DEF x
  <2>2. CASE x \in Int \/ x \in BOOLEAN \/ x \in Seq(Bytes) \/ x \in Base64Strings
    <3>1. x \in Values
      BY <2>2 DEF Values
    <3>2. x # Null /\ x # Wrong
      BY <2>2, NoValue DEF Absent
    <3> QED BY <3>1, <3>2 DEF x
  <2>3. CASE key \in RawKeys /\ x = Null
    BY <2>3 DEF x
  <2> QED BY <2>1, <2>2, <2>3
<1> QED BY <1>1, <1>2, <1>4, <1>5, <1>7
LEMMA EncodedStream ==
    ASSUME NEW s, StreamTyped(s), ValidateStream(s)
    PROVE  LET ms == EncodeStream(s).members
           IN  /\ EncodeStream(s) = [members |-> ms]
               /\ ms = Members(StreamOrder, s)
               /\ ms \in Seq(Known("stdout"))
               /\ \A i \in 1 .. Len(ms) :
                     /\ ms[i].key \in StreamKeys /\ ms[i].exact
                     /\ ms[i].value = s[ms[i].key] /\ ms[i].value # Null
               /\ \A i, j \in 1 .. Len(ms) : ms[i].key = ms[j].key => i = j
               /\ \A key \in StreamKeys : Field(ms, key) = s[key]
<1> DEFINE f == [key \in StreamKeys |-> IF key \in TextKeys THEN JSONText(s[key]) ELSE s[key]]
           ms == EncodeStream(s).members
           there == There(StreamOrder, s)
           M == MemberSet(StreamOrder, s)
<1>1. f = s
  <2>1. \A key \in TextKeys : JSONText(s[key]) = s[key]
    BY StreamValid, JSONTextKeepsValid
  <2>2. s = [key \in StreamKeys |-> s[key]]
    BY DEF StreamTyped
  <2>3. \A key \in StreamKeys : (IF key \in TextKeys THEN JSONText(s[key]) ELSE s[key]) = s[key]
    BY <2>1
  <2> QED BY <2>2, <2>3
<1>2. EncodeStream(s) = [members |-> Members(StreamOrder, f)]
  BY DEF EncodeStream, StreamOrder
<1> HIDE DEF f
<1>3. EncodeStream(s) = [members |-> ms] /\ ms = Members(StreamOrder, s)
  BY <1>1, <1>2
<1> HIDE DEF ms
<1>4. /\ ms \in Seq(M)
      /\ \A i \in 1 .. Len(ms) :
             ms[i].key \in there /\ ms[i] = Member(ms[i].key, s[ms[i].key])
      /\ \A i, j \in 1 .. Len(ms) : ms[i].key = ms[j].key => i = j
      /\ \A k \in 1 .. Len(StreamOrder) : Field(ms, StreamOrder[k]) = s[StreamOrder[k]]
  <2>1. StreamOrder \in Seq(StreamKeys) /\ Distinct(StreamOrder)
    BY StreamOrderIs
  <2>2. Encodes(ms, StreamOrder, s)
    BY <1>3, <2>1, MembersAre
  <2> QED BY <2>2 DEF Encodes
<1>5. \A key \in there : key \in StreamKeys /\ s[key] # Null
  BY StreamOrderIs DEF There
<1> HIDE DEF there
<1>6. ASSUME NEW i \in 1 .. Len(ms)
      PROVE  /\ ms[i].key \in StreamKeys /\ ms[i].exact
             /\ ms[i].value = s[ms[i].key] /\ ms[i].value # Null
  <2> DEFINE key == ms[i].key
  <2>1. key \in there /\ ms[i] = Member(key, s[key])
    BY <1>4
  <2> HIDE DEF key
  <2>2. ms[i].exact = TRUE /\ ms[i].value = s[key]
    <3>1. Member(key, s[key]).exact = TRUE /\ Member(key, s[key]).value = s[key]
      BY MemberFields
    <3> QED BY <2>1, <3>1
  <2> QED BY <1>5, <2>1, <2>2 DEF key
<1>7. ASSUME NEW key \in there PROVE Member(key, s[key]) \in Known("stdout")
  <2> DEFINE m == Member(key, s[key])
  <2>1. key \in StreamKeys /\ s[key] # Null
    BY <1>5
  <2>2. s[key] \in Values /\ s[key] # Wrong
    BY <2>1, StreamValid
  <2>3. m = [key |-> key, exact |-> TRUE, value |-> s[key]]
    BY DEF Member
  <2>4. m \in [key : StreamKeys \cup {"signal", "unknown"}, exact : BOOLEAN,
               value : Values \cup Absent]
    BY <2>1, <2>2, <2>3
  <2>5. m.key = key /\ m.value = s[key]
    BY <2>3
  <2> HIDE DEF m
  <2>6. InnerTyped(m)
    <3>1. /\ \A k \in CountKeys : s[k] \in Int
          /\ s.capture_complete \in BOOLEAN
          /\ \A k \in TextKeys : s[k] \in Seq(Bytes)
          /\ \A k \in RawKeys : s[k] \in Base64Strings \cup {Null}
      BY DEF StreamTyped
    <3>2. key # "signal"
      BY <2>1, KeysOfStream
    <3> QED BY <2>5, <3>1, <3>2 DEF InnerTyped, Absent
  <2>7. FieldsOf("stdout") = StreamKeys
    BY DEF FieldsOf
  <2> QED BY <2>1, <2>2, <2>4, <2>5, <2>6, <2>7 DEF Known, Inner, m
<1>8. ms \in Seq(Known("stdout"))
  <2>1. M \subseteq Known("stdout")
    BY <1>7 DEF MemberSet, there
  <2> HIDE DEF M
  <2> QED BY <1>4, <2>1
<1>9. \A key \in StreamKeys : Field(ms, key) = s[key]
  BY <1>4, StreamOrderIs
<1> HIDE DEF M
<1> QED BY <1>3, <1>4, <1>6, <1>8, <1>9 DEF ms

(* What strict reading and the schema require of it, and what they give.   *)
LEMMA StreamRoundTrip ==
    ASSUME NEW s, StreamTyped(s), ValidateStream(s)
    PROVE  LET ms == EncodeStream(s).members
           IN  /\ DistinctKeys(ms)
               /\ \A j \in At(ms, TextKeys) : ValidUTF8(ms[j].value)
               /\ HasFields(ms, StreamKeys)
               /\ Wire(ms) = s /\ WireComplete(s) /\ WireStream(s) = s
<1> DEFINE ms == EncodeStream(s).members
<1>1. /\ ms \in Seq(Known("stdout"))
      /\ \A i \in 1 .. Len(ms) :
            /\ ms[i].key \in StreamKeys /\ ms[i].exact
            /\ ms[i].value = s[ms[i].key] /\ ms[i].value # Null
      /\ \A i, j \in 1 .. Len(ms) : ms[i].key = ms[j].key => i = j
      /\ \A key \in StreamKeys : Field(ms, key) = s[key]
  BY EncodedStream
<1> HIDE DEF ms
<1>2. DOMAIN ms = 1 .. Len(ms)
  BY <1>1
<1>3. DistinctKeys(ms)
  BY <1>1, <1>2 DEF DistinctKeys
<1>4. \A j \in At(ms, TextKeys) : ValidUTF8(ms[j].value)
  <2>1. \A j \in At(ms, TextKeys) : j \in 1 .. Len(ms) /\ ms[j].key \in TextKeys
    BY <1>2 DEF At
  <2> QED BY <1>1, <2>1, StreamValid
<1>5. HasFields(ms, StreamKeys)
  <2>1. \A j \in At(ms, CountKeys) : j \in 1 .. Len(ms) /\ ms[j].key \in CountKeys
    BY <1>2 DEF At
  <2>2. \A j \in At(ms, CountKeys) : SafeCount(ms[j].value)
    BY <1>1, <2>1, StreamValid
  <2>3. \A i \in DOMAIN ms : ms[i].key \in StreamKeys /\ ms[i].value # Wrong
    BY <1>1, <1>2, StreamValid
  <2> QED BY <2>2, <2>3 DEF HasFields
<1>6. s = [key \in StreamKeys |-> s[key]]
  BY DEF StreamTyped
<1>7. Wire(ms) = s
  BY <1>1, <1>6 DEF Wire
<1>8. \A key \in RawKeys : ~PresentButEmpty(s, key)
  BY StreamValid DEF PresentButEmpty
<1>9. WireComplete(s)
  BY <1>8, StreamValid DEF WireComplete
<1>10. WireStream(s) = s
  BY <1>6, <1>8 DEF WireStream
<1> QED BY <1>3, <1>4, <1>5, <1>7, <1>9, <1>10 DEF ms

(* The object that names a signal.                                         *)
SignalObject(name) == [members |-> <<Member("signal", name)>>]

LEMMA SignalMembers ==
    ASSUME NEW name \in SignalNames
    PROVE  LET ms == SignalObject(name).members
           IN  /\ SignalObject(name) = [members |-> ms]
               /\ ms \in Seq(Known("interruption"))
               /\ \A i \in 1 .. Len(ms) :
                     i = 1 /\ ms[i].key = "signal" /\ ms[i].exact /\ ms[i].value = name
               /\ Field(ms, "signal") = name /\ name # Null
               /\ DistinctKeys(ms) /\ At(ms, TextKeys) = {}
               /\ HasFields(ms, {"signal"})
<1> DEFINE m == Member("signal", name)
           ms == <<m>>
<1>1. SignalObject(name) = [members |-> ms]
  BY DEF SignalObject
<1>2. m = [key |-> "signal", exact |-> TRUE, value |-> name]
  BY DEF Member
<1>3. name \in Values /\ name # Null /\ name # Wrong
  BY NoValue DEF Values, Absent
<1>4. m.key = "signal" /\ m.exact = TRUE /\ m.value = name
  BY <1>2
<1>5. m \in [key : StreamKeys \cup {"signal", "unknown"}, exact : BOOLEAN,
             value : Values \cup Absent]
  <2> DEFINE K == StreamKeys \cup {"signal", "unknown"}
             V == Values \cup Absent
  <2>1. "signal" \in K /\ name \in V /\ TRUE \in BOOLEAN
    BY <1>3
  <2> HIDE DEF K, V, m, ms
  <2>2. m \in [key : K, exact : BOOLEAN, value : V]
    BY <1>2, <2>1
  <2> QED BY <2>2 DEF K, V
<1> HIDE DEF m
<1>6. m \in Known("interruption")
  <2>1. "signal" \notin StreamKeys /\ RawKeys \subseteq StreamKeys
        /\ CountKeys \subseteq StreamKeys /\ TextKeys \subseteq StreamKeys
        /\ "capture_complete" # "signal"
    BY KeysOfStream
  <2>2. InnerTyped(m)
    BY <1>4, <2>1 DEF InnerTyped
  <2>3. FieldsOf("interruption") = {"signal"}
    BY DEF FieldsOf
  <2> QED BY <1>3, <1>4, <1>5, <2>2, <2>3 DEF Known, Inner
<1>7. ms \in Seq(Known("interruption")) /\ Len(ms) = 1 /\ DOMAIN ms = 1 .. 1 /\ ms[1] = m
  BY <1>6
<1> HIDE DEF ms
<1>8. \A i \in 1 .. Len(ms) :
          i = 1 /\ ms[i].key = "signal" /\ ms[i].exact /\ ms[i].value = name
  <2>1. \A i \in 1 .. 1 : i = 1
    OBVIOUS
  <2> QED BY <1>4, <1>7, <2>1
<1>9. Field(ms, "signal") = name
  <2>1. 1 \in 1 .. Len(ms) /\ \A j \in 1 .. Len(ms) : ms[j].key = ms[1].key => j = 1
    BY <1>7, <1>8
  <2>2. Field(ms, ms[1].key) = ms[1].value
    BY <1>7, <2>1, FieldOfOne
  <2> QED BY <1>4, <1>7, <2>2
<1>10. DistinctKeys(ms)
  BY <1>7, <1>8 DEF DistinctKeys
<1>11. At(ms, TextKeys) = {} /\ At(ms, CountKeys) = {}
  <2>1. "signal" \notin TextKeys /\ "signal" \notin CountKeys
    BY KeysOfStream
  <2> QED BY <1>7, <1>8, <2>1 DEF At
<1>12. HasFields(ms, {"signal"})
  BY <1>3, <1>7, <1>8, <1>11 DEF HasFields
<1> QED BY <1>1, <1>3, <1>7, <1>8, <1>9, <1>10, <1>11, <1>12 DEF ms
-----------------------------------------------------------------------------
(* Encoding a valid record, and reading it back.                           *)
EncodedFields(r) ==
    [key \in Keys |->
        IF key = "interruption"
        THEN IF r.interruption = Null THEN Null ELSE SignalObject(r.interruption)
        ELSE IF key \in {"stdout", "stderr"} THEN EncodeStream(r[key])
        ELSE r[key]]

LEMMA EncodeIs ==
    ASSUME NEW r, r = [key \in Keys |-> r[key]]
    PROVE  Encode(r) = Members(RecordOrder, EncodedFields(r))
<1> DEFINE g == [r EXCEPT !.interruption = IF @ = Null THEN Null
                                           ELSE [members |-> <<Member("signal", @)>>],
                          !.stdout = EncodeStream(@),
                          !.stderr = EncodeStream(@)]
<1>1. "interruption" \in Keys /\ "stdout" \in Keys /\ "stderr" \in Keys
  BY KeysOfRecord DEF ObjectKeys
<1>2. g = EncodedFields(r)
  <2>1. DOMAIN r = Keys
    OBVIOUS
  <2>2. g = [key \in Keys |-> g[key]]
    BY <2>1
  <2>3. ASSUME NEW key \in Keys PROVE g[key] = EncodedFields(r)[key]
    BY <1>1, <2>1, <2>3 DEF EncodedFields, SignalObject
  <2>4. EncodedFields(r) = [key \in Keys |-> EncodedFields(r)[key]]
    BY DEF EncodedFields
  <2> HIDE DEF g
  <2> QED BY <2>2, <2>3, <2>4
<1> QED BY <1>2 DEF Encode

LEMMA KnownMembers ==
    ASSUME NEW which, NEW ms \in Seq(Known(which)) PROVE ms \in Seq(Inner)
BY DEF Known

LEMMA KnownIsInner ==
    ASSUME NEW which, NEW ms \in Seq(Known(which)), NEW object, object = [members |-> ms]
    PROVE  object \in InnerObjects /\ object.members = ms
<1>1. ms \in Seq(Inner)
  BY DEF Known
<1> DEFINE Q == Seq(Inner)
<1>2. ms \in Q
  BY <1>1
<1> HIDE DEF Q
<1>3. object \in [members : Q]
  BY <1>2
<1> QED BY <1>3 DEF InnerObjects, Q

LEMMA GoodStreams ==
    ASSUME NEW r, GoodRecord(r), NEW key \in {"stdout", "stderr"}
    PROVE  StreamTyped(r[key]) /\ ValidateStream(r[key])
<1>1. ValidateV2(r)
  BY DEF GoodRecord, RecordTyped, Validate
<1> QED BY <1>1 DEF GoodRecord, RecordTyped, ValidateV2

LEMMA FieldValues ==
    ASSUME NEW r, GoodRecord(r), NEW key \in Keys
    PROVE  LET x == EncodedFields(r)[key]
           IN  /\ key \in ObjectKeys => x \in InnerObjects \cup {Null}
               /\ key \in {"version", "exit_code"} => x \in Int
               /\ key \in MetadataKeys => x \in Words \cup {Null}
               /\ x # Null => x \in Values \cup InnerObjects /\ x # Wrong
               /\ x = Null <=> key \notin {"stdout", "stderr"} /\ r[key] = Null
<1> DEFINE x == EncodedFields(r)[key]
<1>1. CASE key = "interruption"
  <2>1. x = IF r.interruption = Null THEN Null ELSE SignalObject(r.interruption)
    BY <1>1 DEF EncodedFields
  <2>2. key \in ObjectKeys /\ key \notin {"version", "exit_code"} /\ key \notin MetadataKeys
    BY <1>1, KeysOfRecord DEF ObjectKeys
  <2>3. r.interruption \in SignalNames \cup {Null}
    BY DEF GoodRecord, RecordTyped
  <2>4. r.interruption # Null => SignalObject(r.interruption) \in InnerObjects
    BY <2>3, SignalMembers, KnownIsInner
  <2> HIDE DEF x
  <2>5. CASE r.interruption = Null
    BY <1>1, <2>1, <2>2, <2>5 DEF x
  <2>6. CASE r.interruption # Null
    <3>1. x \in InnerObjects
      BY <2>1, <2>4, <2>6
    <3>2. x # Null /\ x # Wrong
      BY <3>1, NoValue DEF Absent
    <3> QED BY <1>1, <2>2, <2>6, <3>1, <3>2 DEF x
  <2> QED BY <2>5, <2>6
<1>2. CASE key \in {"stdout", "stderr"}
  <2>1. x = EncodeStream(r[key])
    BY <1>2 DEF EncodedFields
  <2>2. key \in ObjectKeys /\ key \notin {"version", "exit_code"} /\ key \notin MetadataKeys
    BY <1>2, KeysOfRecord DEF ObjectKeys
  <2>3. StreamTyped(r[key]) /\ ValidateStream(r[key])
    BY <1>2, GoodStreams
  <2>4. x \in InnerObjects
    BY <2>1, <2>3, EncodedStream, KnownIsInner
  <2> HIDE DEF x
  <2>5. x # Null /\ x # Wrong
    BY <2>4, NoValue DEF Absent
  <2> QED BY <1>2, <2>2, <2>4, <2>5 DEF x
<1>3. CASE key \in MetadataKeys \cup {"version", "exit_code"}
  <2>1. key \notin ObjectKeys
    BY <1>3, KeysOfRecord
  <2>2. x = r[key]
    BY <2>1 DEF EncodedFields, ObjectKeys
  <2>3. /\ r.version \in Int /\ r.exit_code \in Int
        /\ \A k \in MetadataKeys : r[k] \in Words \cup {Null}
    BY DEF GoodRecord, RecordTyped, CurrentVersion
  <2> HIDE DEF x
  <2>4. /\ key \in {"version", "exit_code"} => x \in Int
        /\ key \in MetadataKeys => x \in Words \cup {Null}
    BY <2>2, <2>3
  <2>5. x # Null => x \in Values /\ x # Wrong
    <3>1. x # Null => x \in Int \/ x \in Words
      BY <1>3, <2>4
    <3> QED BY <3>1, NoValue DEF Values, Absent
  <2>6. key \notin {"stdout", "stderr"}
    BY <2>1 DEF ObjectKeys
  <2> QED BY <2>1, <2>2, <2>4, <2>5, <2>6 DEF x
<1> QED BY <1>1, <1>2, <1>3, KeysOfRecord DEF ObjectKeys
LEMMA EncodedRecord ==
    ASSUME NEW r, GoodRecord(r)
    PROVE  LET E == Encode(r)
               g == EncodedFields(r)
           IN  /\ E \in Seq(Outer)
               /\ \A i \in 1 .. Len(E) :
                     /\ E[i].key \in Keys /\ E[i].exact
                     /\ E[i].value = g[E[i].key] /\ E[i].value # Null /\ E[i].value # Wrong
               /\ \A i, j \in 1 .. Len(E) : E[i].key = E[j].key => i = j
               /\ \A key \in Keys : g[key] # Null => \E i \in 1 .. Len(E) : E[i].key = key
               /\ \A key \in Keys : Field(E, key) = g[key]
<1> DEFINE E == Encode(r)
           g == EncodedFields(r)
           there == There(RecordOrder, g)
           M == MemberSet(RecordOrder, g)
<1>1. E = Members(RecordOrder, g)
  BY EncodeIs DEF GoodRecord, RecordTyped
<1> HIDE DEF E, g
<1>2. Encodes(E, RecordOrder, g)
  <2>1. RecordOrder \in Seq(Keys) /\ Distinct(RecordOrder)
    BY RecordOrderIs
  <2> QED BY <1>1, <2>1, MembersAre
<1>3. /\ E \in Seq(M)
      /\ \A i \in 1 .. Len(E) :
             E[i].key \in there /\ E[i] = Member(E[i].key, g[E[i].key])
      /\ \A i, j \in 1 .. Len(E) : E[i].key = E[j].key => i = j
      /\ \A key \in there : \E i \in 1 .. Len(E) : E[i].key = key
      /\ \A k \in 1 .. Len(RecordOrder) : Field(E, RecordOrder[k]) = g[RecordOrder[k]]
  BY <1>2 DEF Encodes
<1>4. \A key : key \in there <=> key \in Keys /\ g[key] # Null
  BY RecordOrderIs DEF There
<1> HIDE DEF there
<1>5. ASSUME NEW i \in 1 .. Len(E)
      PROVE  /\ E[i].key \in Keys /\ E[i].exact
             /\ E[i].value = g[E[i].key] /\ E[i].value # Null /\ E[i].value # Wrong
  <2> DEFINE key == E[i].key
  <2>1. key \in there /\ E[i] = Member(key, g[key])
    BY <1>3
  <2> HIDE DEF key
  <2>2. Member(key, g[key]).exact = TRUE /\ Member(key, g[key]).value = g[key]
    BY MemberFields
  <2>3. E[i].exact = TRUE /\ E[i].value = g[key]
    BY <2>1, <2>2
  <2>4. key \in Keys /\ g[key] # Null
    BY <1>4, <2>1
  <2>5. g[key] # Wrong
    BY <2>4, FieldValues DEF g
  <2> QED BY <2>3, <2>4, <2>5 DEF key
<1>6. ASSUME NEW key \in there PROVE Member(key, g[key]) \in Outer
  <2> DEFINE m == Member(key, g[key])
             V == Values \cup InnerObjects \cup Strings \cup Absent
             K == Keys \cup {"unknown"}
  <2>1. key \in Keys /\ g[key] # Null
    BY <1>4
  <2>2. /\ key \in ObjectKeys => g[key] \in InnerObjects \cup {Null}
        /\ key \in {"version", "exit_code"} => g[key] \in Int
        /\ key \in MetadataKeys => g[key] \in Words \cup {Null}
        /\ g[key] \in Values \cup InnerObjects
    BY <2>1, FieldValues DEF g
  <2>3. m = [key |-> key, exact |-> TRUE, value |-> g[key]]
    BY DEF Member
  <2>4. m.key = key /\ m.value = g[key]
    BY <2>3
  <2>5. key \in K /\ g[key] \in V /\ TRUE \in BOOLEAN
    BY <2>1, <2>2
  <2> HIDE DEF K, V, m
  <2>6. m \in [key : K, exact : BOOLEAN, value : V]
    BY <2>3, <2>5
  <2>7. OuterTyped(m)
    BY <2>1, <2>2, <2>4 DEF OuterTyped
  <2> QED BY <2>6, <2>7 DEF Outer, K, V, m
<1>7. E \in Seq(Outer)
  <2>1. M \subseteq Outer
    BY <1>6 DEF MemberSet, there
  <2> HIDE DEF M
  <2> QED BY <1>3, <2>1
<1>8. \A key \in Keys : Field(E, key) = g[key]
  BY <1>3, RecordOrderIs
<1> HIDE DEF M
<1> QED BY <1>3, <1>4, <1>5, <1>7, <1>8 DEF E, g

LEMMA EncodedObject ==
    ASSUME NEW r, GoodRecord(r), NEW key \in ObjectKeys
    PROVE  ObjectField(Encode(r), key) =
               IF EncodedFields(r)[key] = Null THEN Null ELSE EncodedFields(r)[key].members
<1> DEFINE E == Encode(r)
           x == EncodedFields(r)[key]
<1>1. key \in Keys
  BY KeysOfRecord
<1>2. /\ E \in Seq(Outer)
      /\ \A i \in 1 .. Len(E) : E[i].value = EncodedFields(r)[E[i].key]
      /\ \A i, j \in 1 .. Len(E) : E[i].key = E[j].key => i = j
      /\ x # Null => \E i \in 1 .. Len(E) : E[i].key = key
  BY <1>1, EncodedRecord
<1> HIDE DEF E
<1>3. CASE x = Null
  <2>1. \A j \in 1 .. Len(E) : E[j].key = key => E[j].value = Null
    BY <1>2, <1>3
  <2>2. ObjectField(E, key) = Null
    BY <1>2, <2>1, ObjectFieldOfNone
  <2> QED BY <1>3, <2>2 DEF E
<1>4. CASE x # Null
  <2>1. PICK i \in 1 .. Len(E) : E[i].key = key
    BY <1>2, <1>4
  <2>2. E[i].value = x
    BY <1>2, <2>1
  <2>3. x \in InnerObjects
    BY <1>1, <1>4, FieldValues
  <2>4. x.members \in Seq(Inner)
    BY <2>3, KindsOfObject
  <2> HIDE DEF x
  <2>5. \A j \in 1 .. Len(E) : E[j].key = E[i].key => j = i
    BY <1>2
  <2>6. E[i].value # Null /\ E[i].value.members \in Seq(Inner)
    BY <1>4, <2>2, <2>4
  <2>7. ObjectField(E, E[i].key) = E[i].value.members
    BY <1>2, <2>5, <2>6, ObjectFieldOfOne
  <2> QED BY <1>4, <2>1, <2>2, <2>7 DEF E, x
<1> QED BY <1>3, <1>4

(* Nothing stands in the way of reading it.                                *)
LEMMA EncodedIsStrict ==
    ASSUME NEW r, GoodRecord(r)
    PROVE  StrictJSON(Encode(r)) /\ HasSchemaV2(Encode(r))
<1> DEFINE E == Encode(r)
           g == EncodedFields(r)
<1>1. /\ E \in Seq(Outer)
      /\ \A i \in 1 .. Len(E) :
            /\ E[i].key \in Keys /\ E[i].exact
            /\ E[i].value = g[E[i].key] /\ E[i].value # Null /\ E[i].value # Wrong
      /\ \A i, j \in 1 .. Len(E) : E[i].key = E[j].key => i = j
  BY EncodedRecord
<1>2. ASSUME NEW key \in ObjectKeys, g[key] # Null
      PROVE  LET x == g[key]
             IN  /\ IsObject(x) /\ ~IsText(x)
                 /\ DistinctKeys(x.members)
                 /\ \A j \in At(x.members, TextKeys) : ValidUTF8(x.members[j].value)
                 /\ HasFields(x.members, FieldsOf(key))
  <2> DEFINE x == g[key]
  <2>1. key \in Keys
    BY KeysOfRecord
  <2>2. x \in InnerObjects
    BY <1>2, <2>1, FieldValues
  <2>3. IsObject(x) /\ ~IsText(x)
    BY <2>2, KindsOfObject
  <2>4. CASE key = "interruption"
    <3>1. r.interruption # Null /\ x = SignalObject(r.interruption)
      BY <1>2, <2>1, <2>4 DEF EncodedFields
    <3>2. r.interruption \in SignalNames
      BY <3>1 DEF GoodRecord, RecordTyped
    <3> HIDE DEF x
    <3>3. /\ DistinctKeys(x.members) /\ At(x.members, TextKeys) = {}
          /\ HasFields(x.members, {"signal"})
      BY <3>1, <3>2, SignalMembers
    <3>4. FieldsOf(key) = {"signal"}
      BY <2>4 DEF FieldsOf
    <3> QED BY <2>3, <3>3, <3>4 DEF x
  <2>5. CASE key \in {"stdout", "stderr"}
    <3>1. x = EncodeStream(r[key])
      BY <2>1, <2>5 DEF EncodedFields
    <3>2. StreamTyped(r[key]) /\ ValidateStream(r[key])
      BY <2>5, GoodStreams
    <3> HIDE DEF x
    <3>3. /\ DistinctKeys(x.members)
          /\ \A j \in At(x.members, TextKeys) : ValidUTF8(x.members[j].value)
          /\ HasFields(x.members, StreamKeys)
      BY <3>1, <3>2, StreamRoundTrip
    <3>4. FieldsOf(key) = StreamKeys
      BY <2>5 DEF FieldsOf
    <3> QED BY <2>3, <3>3, <3>4 DEF x
  <2> QED BY <2>4, <2>5 DEF ObjectKeys
<1> HIDE DEF E, g
<1>3. DOMAIN E = 1 .. Len(E)
  BY <1>1
<1>4. DistinctKeys(E)
  BY <1>1, <1>3 DEF DistinctKeys
<1>5. ASSUME NEW i \in At(E, ObjectKeys)
      PROVE  LET value == E[i].value
             IN  /\ IsObject(value) /\ ~IsText(value)
                 /\ DistinctKeys(value.members)
                 /\ \A j \in At(value.members, TextKeys) : ValidUTF8(value.members[j].value)
                 /\ HasFields(value.members, FieldsOf(E[i].key))
  <2>1. i \in 1 .. Len(E) /\ E[i].key \in ObjectKeys
    BY <1>3 DEF At
  <2>2. E[i].value = g[E[i].key] /\ g[E[i].key] # Null
    BY <1>1, <2>1
  <2> QED BY <1>2, <2>1, <2>2
<1>6. StrictJSON(E)
  BY <1>4, <1>5 DEF StrictJSON
<1>7. HasFields(E, Keys)
  <2>1. At(E, CountKeys) = {}
    BY <1>1, <1>3, KeysOfRecord DEF At
  <2> QED BY <1>1, <1>3, <2>1 DEF HasFields
<1>8. HasSchemaV2(E)
  BY <1>5, <1>7 DEF HasSchemaV2
<1> QED BY <1>6, <1>8 DEF E

LEMMA GoodIsRecord ==
    ASSUME NEW r, GoodRecord(r) PROVE r \in Records /\ r # Null
<1>1. \A key \in {"stdout", "stderr"} : r[key] \in Streams
  <2> SUFFICES ASSUME NEW key \in {"stdout", "stderr"} PROVE r[key] \in Streams
    OBVIOUS
  <2> DEFINE s == r[key]
             V == Values \cup {Null}
  <2>1. StreamTyped(s) /\ ValidateStream(s)
    BY GoodStreams
  <2> HIDE DEF s
  <2>2. \A k \in StreamKeys : s[k] \in V
    BY <2>1, StreamValid
  <2>3. s = [k \in StreamKeys |-> s[k]]
    BY <2>1 DEF StreamTyped
  <2> HIDE DEF V
  <2> QED BY <2>2, <2>3 DEF Streams, V, s
<1>2. RecordTyped(r)
  BY DEF GoodRecord
<1> DEFINE V == Values \cup Streams \cup {Null}
<1>3. ASSUME NEW key \in Keys PROVE r[key] \in V
  <2>1. CASE key \in MetadataKeys
    BY <1>2, <2>1 DEF RecordTyped, Values
  <2>2. CASE key \in {"version", "exit_code"}
    <3>1. r.version \in Int /\ r.exit_code \in Int
      BY <1>2 DEF RecordTyped, CurrentVersion
    <3> QED BY <2>2, <3>1 DEF Values
  <2>3. CASE key = "interruption"
    BY <1>2, <2>3 DEF RecordTyped, Values
  <2>4. CASE key \in {"stdout", "stderr"}
    BY <1>1, <2>4
  <2> QED BY <2>1, <2>2, <2>3, <2>4, KeysOfRecord DEF ObjectKeys
<1>4. r = [key \in Keys |-> r[key]]
  BY <1>2 DEF RecordTyped
<1> HIDE DEF V
<1>5. r \in [Keys -> V]
  BY <1>3, <1>4
<1>6. r \in Records
  BY <1>5 DEF Records, V
<1> QED BY <1>6, NoValue DEF Absent

LEMMA RoundTrip ==
    ASSUME NEW r, GoodRecord(r) PROVE Decode(Encode(r)) = r
<1> DEFINE E == Encode(r)
           g == EncodedFields(r)
           f == FieldsFound(E)
<1>1. /\ \A key \in Keys : Field(E, key) = g[key]
      /\ \A key \in ObjectKeys :
            ObjectField(E, key) = IF g[key] = Null THEN Null ELSE g[key].members
  BY EncodedRecord, EncodedObject
<1>2. StrictJSON(E) /\ HasSchemaV2(E)
  BY EncodedIsStrict
<1>3. RecordTyped(r) /\ Validate(r)
  BY DEF GoodRecord
<1> HIDE DEF E
<1>4. /\ f = [key \in Keys |-> f[key]]
      /\ \A key \in ObjectKeys : f[key] = ObjectField(E, key)
      /\ \A key \in Keys \ ObjectKeys : f[key] = Field(E, key)
  BY FoundIs
<1>5. \A key \in Keys \ ObjectKeys : f[key] = r[key]
  <2>1. \A key \in Keys \ ObjectKeys : g[key] = r[key]
    BY DEF EncodedFields, ObjectKeys
  <2> HIDE DEF f, g
  <2> QED BY <1>1, <1>4, <2>1
<1>6. ASSUME NEW key \in {"stdout", "stderr"}
      PROVE  /\ f[key] # Null /\ Wire(f[key]) = r[key]
             /\ WireComplete(r[key]) /\ WireStream(r[key]) = r[key]
             /\ ValidateStream(r[key])
  <2>1. key \in ObjectKeys /\ key \in Keys
    BY KeysOfRecord DEF ObjectKeys
  <2>2. g[key] = EncodeStream(r[key])
    BY <2>1 DEF EncodedFields
  <2>3. g[key] # Null
    BY <2>1, FieldValues
  <2>4. StreamTyped(r[key]) /\ ValidateStream(r[key])
    BY GoodStreams
  <2> HIDE DEF f, g
  <2>5. f[key] = EncodeStream(r[key]).members
    BY <1>1, <1>4, <2>1, <2>2, <2>3
  <2>6. f[key] \in Seq(Inner)
    <3> DEFINE ms == EncodeStream(r[key]).members
    <3>1. ms \in Seq(Known("stdout"))
      BY <2>4, EncodedStream
    <3> HIDE DEF ms
    <3>2. ms \in Seq(Inner)
      BY <3>1, KnownMembers
    <3> QED BY <2>5, <3>2 DEF ms
  <2>7. f[key] # Null
    BY <2>6, NoValue DEF Absent
  <2> QED BY <2>4, <2>5, <2>7, StreamRoundTrip
<1>7. /\ f.interruption = IF r.interruption = Null THEN Null
                           ELSE SignalObject(r.interruption).members
      /\ InterruptionSignal(f.interruption) = r.interruption
      /\ f.interruption # Null => Field(f.interruption, "signal") # Null
  <2> DEFINE k == "interruption"
             ms == SignalObject(r.interruption).members
  <2>1. k \in ObjectKeys /\ k \in Keys
    BY KeysOfRecord DEF ObjectKeys
  <2>2. g[k] = IF r.interruption = Null THEN Null ELSE SignalObject(r.interruption)
    BY <2>1 DEF EncodedFields
  <2>3. g[k] = Null <=> r.interruption = Null
    BY <2>1, FieldValues
  <2>4. r.interruption \in SignalNames \cup {Null}
    BY <1>3 DEF RecordTyped
  <2>5. r.interruption # Null =>
            /\ ms \in Seq(Inner) /\ Field(ms, "signal") = r.interruption
    <3> SUFFICES ASSUME r.interruption # Null
                 PROVE  ms \in Seq(Inner) /\ Field(ms, "signal") = r.interruption
      OBVIOUS
    <3>1. r.interruption \in SignalNames
      BY <2>4
    <3>2. ms \in Seq(Known("interruption")) /\ Field(ms, "signal") = r.interruption
      BY <3>1, SignalMembers
    <3> HIDE DEF ms
    <3> QED BY <3>2, KnownMembers
  <2> HIDE DEF f, g, ms
  <2>6. f[k] = IF r.interruption = Null THEN Null ELSE ms
    BY <1>1, <1>4, <2>1, <2>2, <2>3 DEF ms
  <2>7. r.interruption # Null => ms # Null
    BY <2>5, NoValue DEF Absent
  <2> QED BY <2>5, <2>6, <2>7 DEF InterruptionSignal, ms
<1> HIDE DEF f, g
<1>8. /\ r.version = CurrentVersion /\ r.exit_code \in Int /\ r.directory \in Words
      /\ "partial" \notin {r.command, r.git} /\ "empty" \notin {r.runprint_version, r.git}
      /\ r.command \in Commands /\ r.started_at = "good" /\ r.duration_ns = "good"
  BY <1>3 DEF RecordTyped, Validate
<1>9. \A key \in RequiredV2 : f[key] # Null
  <2>1. \A key \in {"version", "exit_code"} \cup RequiredMetadata :
            key \in Keys \ ObjectKeys
    BY KeysOfRecord DEF RequiredMetadata, ObjectKeys
  <2>2. \A key \in {"version", "exit_code"} \cup RequiredMetadata : r[key] # Null
    <3>1. "good" \in Words /\ Commands \subseteq Words /\ CurrentVersion \in Int
      BY DEF Words, Commands, CurrentVersion
    <3>2. Null \notin Int /\ Null \notin Words
      BY NoValue DEF Absent
    <3> QED BY <1>8, <3>1, <3>2 DEF RequiredMetadata
  <2> QED BY <1>5, <1>6, <2>1, <2>2 DEF RequiredV2
<1>10. CompleteV2(f)
  <2>1. f.command = r.command /\ f.git = r.git
    BY <1>5, KeysOfRecord DEF ObjectKeys
  <2> QED BY <1>6, <1>7, <1>8, <1>9, <2>1 DEF CompleteV2
<1>11. RecordV2(f) = r
  <2> DEFINE x == [f EXCEPT !.runprint_version = WithoutEmpty(@, Null),
                            !.git = WithoutEmpty(@, "good"),
                            !.interruption = InterruptionSignal(@),
                            !.stdout = WireStream(Wire(@)),
                            !.stderr = WireStream(Wire(@))]
  <2>1. "interruption" \in Keys /\ "stdout" \in Keys /\ "stderr" \in Keys
        /\ ObjectKeys = {"interruption", "stdout", "stderr"}
    BY KeysOfRecord DEF ObjectKeys
  <2>2. /\ x = [key \in Keys |-> x[key]]
        /\ x.interruption = InterruptionSignal(f.interruption)
        /\ x.stdout = WireStream(Wire(f.stdout)) /\ x.stderr = WireStream(Wire(f.stderr))
        /\ \A key \in Keys \ ObjectKeys : x[key] = f[key]
    <3>1. /\ "runprint_version" \in Keys \ ObjectKeys /\ "git" \in Keys \ ObjectKeys
          /\ f.runprint_version # "empty" /\ f.git # "empty"
      BY <1>5, <1>8, KeysOfRecord DEF ObjectKeys
    <3>2. /\ WithoutEmpty(f.runprint_version, Null) = f.runprint_version
          /\ WithoutEmpty(f.git, "good") = f.git
      BY <3>1 DEF WithoutEmpty
    <3> QED BY <1>4, <2>1, <3>1, <3>2
  <2> HIDE DEF x
  <2>3. x["stdout"] = r["stdout"] /\ x["stderr"] = r["stderr"]
        /\ x["interruption"] = r["interruption"]
    BY <1>6, <1>7, <2>2
  <2>4. \A key \in Keys : x[key] = r[key]
    BY <1>5, <2>1, <2>2, <2>3
  <2>5. r = [key \in Keys |-> r[key]]
    BY <1>3 DEF RecordTyped
  <2>6. x = r
    BY <2>2, <2>4, <2>5
  <2> QED BY <1>10, <2>6 DEF RecordV2, x
<1>12. DecodeV2(E) = r
  BY <1>2, <1>11 DEF DecodeV2, FieldsFound, f
<1>13. Field(E, "version") = CurrentVersion
  <2>1. "version" \in Keys \ ObjectKeys
    BY KeysOfRecord DEF ObjectKeys
  <2> QED BY <1>4, <1>5, <1>8, <2>1
<1>14. CurrentVersion # LegacyVersion
  BY DEF CurrentVersion, LegacyVersion
<1> QED BY <1>2, <1>3, <1>12, <1>13, <1>14, GoodIsRecord DEF Decode, Valid, E
-----------------------------------------------------------------------------
(* What can stand in a file: edits and older writers included.             *)
LEMMA WrittenMembers ==
    ASSUME NEW S, NEW order \in Seq(S), Distinct(order), NEW f, NEW T,
           \A key \in S : f[key] # Null => Member(key, f[key]) \in T
    PROVE  Members(order, f) \in Seq(T)
<1> DEFINE M == MemberSet(order, f)
           ms == Members(order, f)
<1>1. ms \in Seq(M)
  BY MembersAre DEF Encodes
<1>2. \A key \in There(order, f) : key \in S /\ f[key] # Null
  BY DEF There
<1>3. M \subseteq T
  BY <1>2 DEF MemberSet
<1> HIDE DEF M, ms
<1> QED BY <1>1, <1>3 DEF ms

LEMMA OuterMember ==
    ASSUME NEW key \in Keys \cup {"unknown"}, NEW exact \in BOOLEAN, NEW value,
           \/ key \in ObjectKeys /\ value \in InnerObjects \cup Strings
           \/ key \in {"version", "exit_code"} /\ value \in Int
           \/ key \in MetadataKeys /\ value \in Words
           \/ value \in Absent
    PROVE  [key |-> key, exact |-> exact, value |-> value] \in Outer
<1> DEFINE m == [key |-> key, exact |-> exact, value |-> value]
           K == Keys \cup {"unknown"}
           V == Values \cup InnerObjects \cup Strings \cup Absent
<1>1. m.key = key /\ m.value = value
  OBVIOUS
<1>2. value \in V
  <2>1. Int \subseteq Values /\ Words \subseteq Values
    BY DEF Values
  <2> QED BY <2>1
<1>3. key \in K
  OBVIOUS
<1> HIDE DEF K, V
<1>4. m \in [key : K, exact : BOOLEAN, value : V]
  BY <1>2, <1>3
<1> HIDE DEF m
<1>5. OuterTyped(m)
  <2>1. CASE key \in ObjectKeys /\ value \in InnerObjects \cup Strings
    <3>1. key \notin {"version", "exit_code"} /\ key \notin MetadataKeys
      BY <2>1, KeysOfRecord
    <3> QED BY <1>1, <2>1, <3>1 DEF OuterTyped
  <2>2. CASE key \in {"version", "exit_code"} /\ value \in Int
    <3>1. key \notin ObjectKeys /\ key \notin MetadataKeys
      BY <2>2 DEF ObjectKeys, MetadataKeys, RequiredMetadata, OptionalMetadata
    <3> QED BY <1>1, <2>2, <3>1 DEF OuterTyped
  <2>3. CASE key \in MetadataKeys /\ value \in Words
    <3>1. key \notin ObjectKeys /\ key \notin {"version", "exit_code"}
      BY <2>3 DEF ObjectKeys, MetadataKeys, RequiredMetadata, OptionalMetadata
    <3> QED BY <1>1, <2>3, <3>1 DEF OuterTyped
  <2>4. CASE value \in Absent
    BY <1>1, <2>4 DEF OuterTyped
  <2> QED BY <2>1, <2>2, <2>3, <2>4
<1> QED BY <1>4, <1>5 DEF Outer, K, V, m

LEMMA InnerMember ==
    ASSUME NEW key \in StreamKeys \cup {"signal", "unknown"}, NEW exact \in BOOLEAN, NEW value,
           \/ key \in RawKeys /\ value \in Base64Strings
           \/ key \in TextKeys /\ value \in Seq(Bytes)
           \/ key \in CountKeys /\ value \in Int
           \/ key = "capture_complete" /\ value \in BOOLEAN
           \/ key = "signal" /\ value \in SignalNames
           \/ value \in Absent
    PROVE  [key |-> key, exact |-> exact, value |-> value] \in Inner
<1> DEFINE m == [key |-> key, exact |-> exact, value |-> value]
           K == StreamKeys \cup {"signal", "unknown"}
           V == Values \cup Absent
<1>1. m.key = key /\ m.value = value
  OBVIOUS
<1>2. value \in V
  <2>1. /\ Int \subseteq Values /\ BOOLEAN \subseteq Values /\ SignalNames \subseteq Values
        /\ Seq(Bytes) \subseteq Values /\ Base64Strings \subseteq Values
    BY DEF Values
  <2> QED BY <2>1
<1>3. key \in K
  OBVIOUS
<1> HIDE DEF K, V
<1>4. m \in [key : K, exact : BOOLEAN, value : V]
  BY <1>2, <1>3
<1> HIDE DEF m
<1>5. InnerTyped(m)
  BY <1>1 DEF InnerTyped, RawKeys, TextKeys, CountKeys
<1> QED BY <1>4, <1>5 DEF Inner, K, V, m

LEMMA LegacyFileTyped ==
    ASSUME NEW code \in ExitCodes, NEW text \in LegacyTexts
    PROVE  LegacyFile(code, text) \in Seq(Outer)
<1> DEFINE f == [key \in Keys |->
                    CASE key = "version" -> LegacyVersion
                      [] key \in {"stdout", "stderr"} -> [text |-> JSONText(text)]
                      [] key = "exit_code" -> code
                      [] key \in {"runprint_version", "interruption"} -> Null
                      [] OTHER -> "good"]
<1>1. /\ f.version = LegacyVersion /\ f.exit_code = code
      /\ f.interruption = Null /\ f.runprint_version = Null
      /\ \A key \in {"stdout", "stderr"} : f[key] = [text |-> JSONText(text)]
      /\ \A key \in MetadataKeys \ {"runprint_version"} : f[key] = "good"
  <2>1. \A key \in MetadataKeys \ {"runprint_version"} :
            /\ key \in Keys
            /\ key \notin {"version", "stdout", "stderr", "exit_code", "runprint_version",
                          "interruption"}
    BY KeysOfRecord DEF ObjectKeys, MetadataKeys, RequiredMetadata, OptionalMetadata
  <2>2. {"version", "exit_code", "interruption", "runprint_version", "stdout", "stderr"}
            \subseteq Keys
    BY KeysOfRecord DEF ObjectKeys
  <2> QED BY <2>1, <2>2
<1>2. code \in Int /\ text \in Seq(Bytes) /\ LegacyVersion \in Int
  BY EditsAssumption DEF LegacyVersion
<1>3. [text |-> JSONText(text)] \in Strings
  BY <1>2, JSONTextTyped DEF Strings
<1>4. ASSUME NEW key \in Keys, f[key] # Null PROVE Member(key, f[key]) \in Outer
  <2> HIDE DEF f
  <2>1. \/ key \in ObjectKeys /\ f[key] \in InnerObjects \cup Strings
        \/ key \in {"version", "exit_code"} /\ f[key] \in Int
        \/ key \in MetadataKeys /\ f[key] \in Words
    <3>1. CASE key \in ObjectKeys
      BY <1>1, <1>3, <1>4, <3>1 DEF ObjectKeys
    <3>2. CASE key \in {"version", "exit_code"}
      BY <1>1, <1>2, <3>2
    <3>3. CASE key \in MetadataKeys
      BY <1>1, <1>4, <3>3 DEF Words, Commands
    <3> QED BY <3>1, <3>2, <3>3, KeysOfRecord
  <2> DEFINE value == f[key]
  <2>2. [key |-> key, exact |-> TRUE, value |-> value] \in Outer
    BY <2>1, OuterMember
  <2> QED BY <2>2 DEF Member
<1>5. RecordOrder \in Seq(Keys) /\ Distinct(RecordOrder)
  BY RecordOrderIs
<1>6. LegacyFile(code, text) = Members(RecordOrder, f)
  BY DEF LegacyFile
<1> HIDE DEF f
<1> QED BY <1>4, <1>5, <1>6, WrittenMembers

LEMMA ValuesTyped ==
    ASSUME NEW key, NEW exact \in BOOLEAN, NEW value \in ValuesOf(key)
    PROVE  LET m == [key |-> key, exact |-> exact, value |-> value]
           IN  /\ key \in Keys => m \in Outer
               /\ key \in StreamKeys \cup {"signal"} => m \in Inner
<1> DEFINE m == [key |-> key, exact |-> exact, value |-> value]
<1>1. ASSUME key \in Keys
      PROVE  \/ key \in ObjectKeys /\ value \in InnerObjects \cup Strings
             \/ key \in {"version", "exit_code"} /\ value \in Int
             \/ key \in MetadataKeys /\ value \in Words
             \/ value \in Absent
  <2>1. CASE key = "version"
    BY <2>1 DEF ValuesOf, Absent, MetadataKeys, RequiredMetadata,
           OptionalMetadata, CountKeys, TextKeys, RawKeys, LegacyVersion, CurrentVersion
  <2>2. CASE key \in MetadataKeys
    BY <2>2 DEF ValuesOf, Absent, MetadataKeys, RequiredMetadata,
           OptionalMetadata, CountKeys, TextKeys, RawKeys, Words, Commands
  <2>3. CASE key = "exit_code"
    BY <2>3, EditsAssumption
       DEF ValuesOf, Absent, MetadataKeys, RequiredMetadata,
           OptionalMetadata, CountKeys, TextKeys, RawKeys
  <2>4. CASE key \in {"stdout", "stderr"}
    <3>1. \/ value \in Absent
          \/ \E text \in LegacyTexts : value = [text |-> text]
          \/ value = [members |-> <<>>]
      BY <2>4 DEF ValuesOf, Absent, MetadataKeys, RequiredMetadata,
           OptionalMetadata, CountKeys, TextKeys, RawKeys
    <3>2. \A text \in LegacyTexts : [text |-> text] \in Strings
      BY EditsAssumption DEF Strings
    <3>3. [members |-> <<>>] \in InnerObjects
      BY DEF InnerObjects
    <3> QED BY <2>4, <3>1, <3>2, <3>3 DEF ObjectKeys
  <2>5. CASE key = "interruption"
    <3>1. value \in Absent \/ \E signal \in Signals : value = SignalObject(signal)
      BY <2>5 DEF ValuesOf, Absent, MetadataKeys, RequiredMetadata,
           OptionalMetadata, CountKeys, TextKeys, RawKeys, SignalObject
    <3>2. \A signal \in Signals : SignalObject(signal) \in InnerObjects
      BY SignalMembers, KnownIsInner DEF SignalNames
    <3> QED BY <2>5, <3>1, <3>2 DEF ObjectKeys
  <2> QED BY <1>1, <2>1, <2>2, <2>3, <2>4, <2>5, KeysOfRecord DEF ObjectKeys
<1>2. ASSUME key \in StreamKeys \cup {"signal"}
      PROVE  \/ key \in RawKeys /\ value \in Base64Strings
             \/ key \in TextKeys /\ value \in Seq(Bytes)
             \/ key \in CountKeys /\ value \in Int
             \/ key = "capture_complete" /\ value \in BOOLEAN
             \/ key = "signal" /\ value \in SignalNames
             \/ value \in Absent
  <2>1. CASE key = "signal"
    BY <2>1 DEF ValuesOf, Absent, MetadataKeys, RequiredMetadata,
           OptionalMetadata, CountKeys, TextKeys, RawKeys, SignalNames
  <2>2. CASE key = "capture_complete"
    BY <2>2 DEF ValuesOf, Absent, MetadataKeys, RequiredMetadata,
           OptionalMetadata, CountKeys, TextKeys, RawKeys
  <2>3. CASE key \in CountKeys
    BY <2>3, EditsAssumption
       DEF ValuesOf, Absent, MetadataKeys, RequiredMetadata,
           OptionalMetadata, CountKeys, TextKeys, RawKeys
  <2>4. CASE key \in TextKeys
    BY <2>4, EditsAssumption
       DEF ValuesOf, Absent, MetadataKeys, RequiredMetadata,
           OptionalMetadata, CountKeys, TextKeys, RawKeys
  <2>5. CASE key \in RawKeys
    <3> DEFINE ways == {"canonical", "broken", "loose"}
               Q == Seq(Bytes)
    <3>1. value \in Absent \/ value \in [bytes : Raws, spelling : ways]
      BY <2>5 DEF ValuesOf, Absent, MetadataKeys, RequiredMetadata,
           OptionalMetadata, CountKeys, TextKeys, RawKeys
    <3>2. Raws \subseteq Q
      BY EditsAssumption
    <3> HIDE DEF Q, ways
    <3>3. [bytes : Raws, spelling : ways] \subseteq [bytes : Q, spelling : ways]
      BY <3>2
    <3> QED BY <2>5, <3>1, <3>3 DEF Base64Strings, Q, ways
  <2> QED BY <1>2, <2>1, <2>2, <2>3, <2>4, <2>5 DEF StreamKeys
<1>3. key \in Keys => m \in Outer
  BY <1>1, OuterMember
<1>4. key \in StreamKeys \cup {"signal"} => m \in Inner
  BY <1>2, InnerMember
<1> QED BY <1>3, <1>4
LEMMA ChangedMember ==
    ASSUME NEW T, NEW object \in Seq(T), NEW i \in 1 .. Len(object), NEW value,
           NEW key, NEW exact, object[i] = [key |-> key, exact |-> exact, value |-> object[i].value],
           [key |-> key, exact |-> exact, value |-> value] \in T
    PROVE  [object EXCEPT ![i].value = value] \in Seq(T)
<1> DEFINE m == [key |-> key, exact |-> exact, value |-> value]
<1>1. [object[i] EXCEPT !.value = value] = m
  OBVIOUS
<1>2. [object EXCEPT ![i].value = value] = [object EXCEPT ![i] = m]
  BY <1>1
<1> HIDE DEF m
<1>3. [object EXCEPT ![i] = m] \in Seq(T)
  BY DEF m
<1> QED BY <1>2, <1>3

LEMMA RemovedMember ==
    ASSUME NEW T, NEW object \in Seq(T), NEW i \in 1 .. Len(object)
    PROVE  RemoveAt(object, i) \in Seq(T)
<1>1. SubSeq(object, 1, i - 1) \in Seq(T) /\ SubSeq(object, i + 1, Len(object)) \in Seq(T)
  OBVIOUS
<1> QED BY <1>1 DEF RemoveAt

(* A set of members that edits stay in.                                    *)
Editable(T, fields) ==
    /\ \A m \in T : m = [key |-> m.key, exact |-> m.exact, value |-> m.value] /\ m.exact \in BOOLEAN
    /\ \A key \in fields, exact \in BOOLEAN : \A value \in ValuesOf(key) :
          [key |-> key, exact |-> exact, value |-> value] \in T
    /\ Member("unknown", Null) \in T

LEMMA EditedTyped ==
    ASSUME NEW T, NEW fields, Editable(T, fields), NEW object \in Seq(T),
           NEW other \in Edited(object, fields)
    PROVE  other \in Seq(T)
<1>1. DOMAIN object = 1 .. Len(object)
  OBVIOUS
<1>2. \/ \E i \in At(object, fields) : \E value \in ValuesOf(object[i].key) :
             other = Changed(object, i, value)
      \/ \E i \in 1 .. Len(object) : other = RemoveAt(object, i)
      \/ \E key \in fields, exact \in BOOLEAN : \E value \in ValuesOf(key) :
             other = Added(object, key, exact, value)
      \/ other = Added(object, "unknown", TRUE, Null)
  <2>1. \A key \in fields : Spellings(key) \subseteq BOOLEAN
    BY DEF Spellings
  <2>2. \/ other \in WithAChange(object, fields)
        \/ \E i \in 1 .. Len(object) : other = RemoveAt(object, i)
        \/ other \in WithAnAddition(object, fields)
        \/ other = Added(object, "unknown", TRUE, Null)
    BY <1>1 DEF Edited
  <2>3. ASSUME other \in WithAChange(object, fields)
        PROVE  \E i \in At(object, fields) : \E value \in ValuesOf(object[i].key) :
                   other = Changed(object, i, value)
    BY <2>3 DEF WithAChange
  <2>4. ASSUME other \in WithAnAddition(object, fields)
        PROVE  \E key \in fields : \E exact \in Spellings(key), value \in ValuesOf(key) :
                   other = Added(object, key, exact, value)
    BY <2>4 DEF WithAnAddition
  <2> QED BY <2>1, <2>2, <2>3, <2>4
<1>3. ASSUME NEW i \in At(object, fields), NEW value \in ValuesOf(object[i].key)
      PROVE  Changed(object, i, value) \in Seq(T)
  <2> DEFINE key == object[i].key
             exact == object[i].exact
  <2>1. i \in 1 .. Len(object) /\ key \in fields
    BY <1>1 DEF At
  <2>2. object[i] = [key |-> key, exact |-> exact, value |-> object[i].value] /\ exact \in BOOLEAN
    BY <2>1 DEF Editable
  <2>3. [key |-> key, exact |-> exact, value |-> value] \in T
    BY <1>3, <2>1, <2>2 DEF Editable
  <2> HIDE DEF key, exact
  <2> QED BY <2>1, <2>2, <2>3, ChangedMember DEF Changed
<1>4. ASSUME NEW key \in fields, NEW exact \in BOOLEAN, NEW value \in ValuesOf(key)
      PROVE  Added(object, key, exact, value) \in Seq(T)
  <2>1. [key |-> key, exact |-> exact, value |-> value] \in T
    BY DEF Editable
  <2> QED BY <2>1 DEF Added
<1>5. Added(object, "unknown", TRUE, Null) \in Seq(T)
  <2>1. Member("unknown", Null) \in T
    BY DEF Editable
  <2> QED BY <2>1 DEF Added, Member
<1> QED BY <1>2, <1>3, <1>4, <1>5, RemovedMember

LEMMA OuterEditable == Editable(Outer, Keys)
<1>1. ASSUME NEW m \in Outer
      PROVE  m = [key |-> m.key, exact |-> m.exact, value |-> m.value] /\ m.exact \in BOOLEAN
  <2> DEFINE K == Keys \cup {"unknown"}
             V == Values \cup InnerObjects \cup Strings \cup Absent
  <2>1. m \in [key : K, exact : BOOLEAN, value : V]
    BY DEF Outer
  <2> HIDE DEF K, V
  <2> QED BY <2>1
<1>2. Member("unknown", Null) \in Outer
  BY OuterMember DEF Member, Absent
<1> QED BY <1>1, <1>2, ValuesTyped DEF Editable

LEMMA InnerEditable ==
    ASSUME NEW key \in ObjectKeys PROVE Editable(Inner, FieldsOf(key))
<1>1. ASSUME NEW m \in Inner
      PROVE  m = [key |-> m.key, exact |-> m.exact, value |-> m.value] /\ m.exact \in BOOLEAN
  <2> DEFINE K == StreamKeys \cup {"signal", "unknown"}
             V == Values \cup Absent
  <2>1. m \in [key : K, exact : BOOLEAN, value : V]
    BY DEF Inner
  <2> HIDE DEF K, V
  <2> QED BY <2>1
<1>2. Member("unknown", Null) \in Inner
  BY InnerMember DEF Member, Absent
<1>3. FieldsOf(key) \subseteq StreamKeys \cup {"signal"}
  BY DEF FieldsOf
<1> QED BY <1>1, <1>2, <1>3, ValuesTyped DEF Editable

LEMMA RechunkedTyped ==
    ASSUME NEW object \in Seq(Inner), NEW other \in Rechunked(object)
    PROVE  other \in Seq(Inner)
<1>1. PICK keys \in ChunkKeys, count \in Counts, text \in Texts,
           raw \in ValuesOf("head_raw_base64") \ {Wrong} :
           other = ChunkReplaced(object, keys, count, text, raw)
  BY DEF Rechunked
<1> DEFINE T == {i \in DOMAIN object : object[i].key \notin Range(keys)}
           f == [key \in Range(keys) |->
                    CASE key \in CountKeys -> count
                      [] key \in TextKeys -> text
                      [] key \in RawKeys -> raw]
           p == Pick(object, T)
           ms == Members(keys, f)
<1>2. p \in Seq(Inner)
  <2> HIDE DEF T
  <2> QED BY Picked
<1>3. PICK a \in CountKeys, b \in TextKeys, c \in RawKeys : keys = <<a, b, c>>
  BY DEF ChunkKeys, CountKeys, TextKeys, RawKeys
<1>4. Range(keys) = {a, b, c} /\ a # b /\ a # c /\ b # c
  <2>1. a # b /\ a # c /\ b # c
    BY DEF CountKeys, TextKeys, RawKeys
  <2>2. DOMAIN keys = 1 .. 3 /\ keys[1] = a /\ keys[2] = b /\ keys[3] = c
    BY <1>3
  <2>3. \A i \in 1 .. 3 : i = 1 \/ i = 2 \/ i = 3
    OBVIOUS
  <2>4. 1 \in 1 .. 3 /\ 2 \in 1 .. 3 /\ 3 \in 1 .. 3
    OBVIOUS
  <2> QED BY <2>1, <2>2, <2>3, <2>4 DEF Range
<1>5. keys \in Seq({a, b, c}) /\ Distinct(keys)
  BY <1>3, <1>4 DEF Distinct
<1>6. f[a] = count /\ f[b] = text /\ f[c] = raw
  BY <1>4 DEF CountKeys, TextKeys, RawKeys
<1>7. ASSUME NEW key \in {a, b, c}, f[key] # Null PROVE Member(key, f[key]) \in Inner
  <2> HIDE DEF f
  <2>1. /\ key \in StreamKeys
        /\ \/ key \in RawKeys /\ f[key] \in Base64Strings
           \/ key \in TextKeys /\ f[key] \in Seq(Bytes)
           \/ key \in CountKeys /\ f[key] \in Int
           \/ f[key] \in Absent
    <3>1. CASE key = a
      BY <1>6, <3>1, EditsAssumption DEF StreamKeys
    <3>2. CASE key = b
      BY <1>6, <3>2, EditsAssumption DEF StreamKeys
    <3>3. CASE key = c
      <4> DEFINE m == [key |-> "head_raw_base64", exact |-> TRUE, value |-> raw]
      <4>1. m \in Inner
        BY ValuesTyped DEF StreamKeys, RawKeys
      <4>2. m.key \in RawKeys /\ m.value = raw
        BY DEF RawKeys
      <4> HIDE DEF m
      <4>3. raw \in Base64Strings \cup Absent
        BY <4>1, <4>2 DEF Inner, InnerTyped
      <4> QED BY <1>6, <3>3, <4>3 DEF StreamKeys
    <3> QED BY <3>1, <3>2, <3>3
  <2> DEFINE value == f[key]
  <2>2. [key |-> key, exact |-> TRUE, value |-> value] \in Inner
    BY <2>1, InnerMember
  <2> QED BY <2>2 DEF Member
<1> HIDE DEF f
<1>8. ms \in Seq(Inner)
  BY <1>5, <1>7, WrittenMembers
<1> HIDE DEF p, ms
<1>9. other = p \o ms
  BY <1>1 DEF ChunkReplaced, p, ms, T, f
<1> QED BY <1>2, <1>8, <1>9
-----------------------------------------------------------------------------
(* The steps.                                                              *)
FileTyped(object) == object = Null \/ object \in Seq(Outer)

LEMMA ObjectReplaced ==
    ASSUME NEW object \in Seq(Outer), NEW i \in At(object, ObjectKeys), NEW members \in Seq(Inner)
    PROVE  [object EXCEPT ![i].value = [members |-> members]] \in Seq(Outer)
<1> DEFINE key == object[i].key
           exact == object[i].exact
           value == [members |-> members]
<1>1. i \in 1 .. Len(object) /\ key \in ObjectKeys /\ key \in Keys
  BY KeysOfRecord DEF At
<1>2. object[i] = [key |-> key, exact |-> exact, value |-> object[i].value] /\ exact \in BOOLEAN
  BY <1>1, OuterEditable DEF Editable
<1>3. value \in InnerObjects
  BY DEF InnerObjects
<1> HIDE DEF key, exact, value
<1>4. [key |-> key, exact |-> exact, value |-> value] \in Outer
  BY <1>1, <1>2, <1>3, OuterMember
<1>5. [object EXCEPT ![i].value = value] \in Seq(Outer)
  BY <1>1, <1>2, <1>4, ChangedMember
<1> QED BY <1>5 DEF value

LEMMA MembersOfObject ==
    ASSUME NEW object \in Seq(Outer), NEW i \in At(object, ObjectKeys), IsObject(object[i].value)
    PROVE  object[i].value \in InnerObjects /\ object[i].value.members \in Seq(Inner)
<1> DEFINE value == object[i].value
<1>1. object[i] \in Outer /\ object[i].key \in ObjectKeys /\ value # Null
  BY DEF At
<1>2. value \in InnerObjects \cup Strings \cup Absent
  BY <1>1 DEF Outer, OuterTyped
<1> HIDE DEF value
<1>3. value \notin Absent /\ IsObject(value)
  BY DEF IsObject, Absent, value
<1>4. value \in InnerObjects
  BY <1>2, <1>3, KindsOfObject
<1> QED BY <1>4, KindsOfObject DEF value

LEMMA EditKeepsTypes ==
    ASSUME FileTyped(file), Edit PROVE FileTyped(file')
<1>1. file \in Seq(Outer)
  BY DEF FileTyped, Edit
<1>2. CASE EditRecord
  <2>1. file' \in Edited(file, Keys)
    BY <1>2 DEF EditRecord
  <2>2. file' \in Seq(Outer)
    BY <1>1, <2>1, OuterEditable, EditedTyped
  <2> QED BY <2>2 DEF FileTyped
<1>3. ASSUME NEW i \in At(file, ObjectKeys), EditObject(i)
      PROVE  FileTyped(file')
  <2>1. PICK members \in Edited(file[i].value.members, FieldsOf(file[i].key)) :
            file' = [file EXCEPT ![i].value = [members |-> members]]
    BY <1>3 DEF EditObject
  <2>2. file[i].value.members \in Seq(Inner)
    BY <1>1, <1>3, MembersOfObject DEF EditObject
  <2>3. Editable(Inner, FieldsOf(file[i].key))
    BY InnerEditable DEF At
  <2> DEFINE old == file[i].value.members
             fields == FieldsOf(file[i].key)
  <2>4. old \in Seq(Inner) /\ Editable(Inner, fields) /\ members \in Edited(old, fields)
    BY <2>1, <2>2, <2>3
  <2> HIDE DEF old, fields
  <2>5. members \in Seq(Inner)
    BY <2>4, EditedTyped
  <2>6. file' \in Seq(Outer)
    BY <1>1, <2>1, <2>5, ObjectReplaced
  <2> QED BY <2>6 DEF FileTyped
<1>4. ASSUME NEW i \in At(file, {"stdout", "stderr"}), EditChunk(i)
      PROVE  FileTyped(file')
  <2>1. PICK members \in Rechunked(file[i].value.members) :
            file' = [file EXCEPT ![i].value = [members |-> members]]
    BY <1>4 DEF EditChunk
  <2>2. i \in At(file, ObjectKeys)
    BY DEF At, ObjectKeys
  <2>3. file[i].value.members \in Seq(Inner)
    BY <1>1, <1>4, <2>2, MembersOfObject DEF EditChunk
  <2>4. members \in Seq(Inner)
    BY <2>1, <2>3, RechunkedTyped
  <2>5. file' \in Seq(Outer)
    BY <1>1, <2>1, <2>2, <2>4, ObjectReplaced
  <2> QED BY <2>5 DEF FileTyped
<1> QED BY <1>2, <1>3, <1>4 DEF Edit

-----------------------------------------------------------------------------
(* The size of a text: what its first bytes cost.                          *)
NextSum(s, upto, n) == IF n = 0 THEN 0 ELSE upto[n - 1] + JSONBytes(s, n)

Sums(s) == CHOOSE upto : upto = [n \in 0 .. Len(s) |-> NextSum(s, upto, n)]

LEMMA SumsExist ==
    ASSUME NEW s, NEW k \in Nat
    PROVE  \E upto : upto = [n \in 0 .. k |-> NextSum(s, upto, n)]
<1> DEFINE G == {m \in Nat : \E upto : upto = [n \in 0 .. m |-> NextSum(s, upto, n)]}
<1>1. 0 \in G
  <2> DEFINE first == [n \in 0 .. 0 |-> 0]
  <2>1. \A n \in 0 .. 0 : NextSum(s, first, n) = 0
    BY DEF NextSum
  <2>2. first = [n \in 0 .. 0 |-> NextSum(s, first, n)]
    <3> DEFINE next(n) == NextSum(s, first, n)
    <3> HIDE DEF next
    <3>1. \A n \in 0 .. 0 : next(n) = 0
      BY <2>1 DEF next
    <3>2. first = [n \in 0 .. 0 |-> next(n)]
      BY <3>1
    <3> QED BY <3>2 DEF next
  <2> HIDE DEF first
  <2> QED BY <2>2
<1>2. ASSUME NEW m \in Nat, m \in G PROVE m + 1 \in G
  <2>1. PICK upto : upto = [n \in 0 .. m |-> NextSum(s, upto, n)]
    BY <1>2
  <2> DEFINE more == [n \in 0 .. m + 1 |-> IF n <= m THEN upto[n] ELSE NextSum(s, upto, n)]
  <2>2. \A n \in 0 .. m : more[n] = upto[n]
    OBVIOUS
  <2>3. \A n \in 0 .. m + 1 : NextSum(s, upto, n) = NextSum(s, more, n)
    BY <2>2 DEF NextSum
  <2>4. \A n \in 0 .. m : upto[n] = NextSum(s, upto, n)
    BY <2>1
  <2>5. more = [n \in 0 .. m + 1 |-> NextSum(s, more, n)]
    <3> HIDE DEF more
    <3> QED BY <2>3, <2>4 DEF more
  <2> HIDE DEF more
  <2> QED BY <2>5
<1>3. Nat \subseteq G
  <2> HIDE DEF G
  <2> QED BY <1>1, <1>2, Induction
<1> QED BY <1>3

(* What one byte costs.                                                    *)
LEMMA ByteCost ==
    ASSUME NEW s \in Seq(Bytes), NEW n \in 1 .. Len(s)
    PROVE  /\ JSONBytes(s, n) \in 1 .. 6
           /\ s[n] \in {239, 191, 189} => JSONBytes(s, n) = 1
<1>1. ShortEscapes \cap LongEscapes = {}
  BY DEF LongEscapes
<1>2. {239, 191, 189, 168, 169} \cap (ShortEscapes \cup LongEscapes) = {}
  BY DEF LongEscapes, ShortEscapes
<1> QED BY <1>1, <1>2 DEF JSONBytes

LEMMA SumsAre ==
    ASSUME NEW s \in Seq(Bytes)
    PROVE  /\ TextBytes(s) = Sums(s)[Len(s)]
           /\ Sums(s)[0] = 0
           /\ \A k \in 1 .. Len(s) : Sums(s)[k] = Sums(s)[k - 1] + JSONBytes(s, k)
           /\ \A k \in 0 .. Len(s) : Sums(s)[k] \in Nat /\ Sums(s)[k] <= 6 * k
<1> DEFINE f == Sums(s)
<1>1. Len(s) \in Nat
  OBVIOUS
<1>2. f = [n \in 0 .. Len(s) |-> NextSum(s, f, n)]
  BY <1>1, SumsExist DEF Sums
<1>3. TextBytes(s) = f[Len(s)]
  BY DEF TextBytes, Sums, NextSum
<1> HIDE DEF f
<1>4. \A n \in 0 .. Len(s) : f[n] = NextSum(s, f, n)
  BY <1>2
<1>5. f[0] = 0
  BY <1>1, <1>4 DEF NextSum
<1>6. \A k \in 1 .. Len(s) : f[k] = f[k - 1] + JSONBytes(s, k)
  BY <1>4 DEF NextSum
<1> DEFINE G == {k \in Nat : k <= Len(s) => f[k] \in Nat /\ f[k] <= 6 * k}
<1>7. 0 \in G
  BY <1>5
<1>8. ASSUME NEW k \in Nat, k \in G PROVE k + 1 \in G
  <2>1. ASSUME k + 1 <= Len(s) PROVE f[k + 1] \in Nat /\ f[k + 1] <= 6 * (k + 1)
    <3>1. k + 1 \in 1 .. Len(s) /\ (k + 1) - 1 = k /\ f[k] \in Nat /\ f[k] <= 6 * k
      BY <1>1, <1>8, <2>1
    <3>2. f[k + 1] = f[k] + JSONBytes(s, k + 1)
      BY <1>6, <3>1
    <3>3. JSONBytes(s, k + 1) \in 1 .. 6
      BY <3>1, ByteCost
    <3> HIDE DEF G
    <3> QED BY <3>1, <3>2, <3>3
  <2> QED BY <2>1
<1>9. Nat \subseteq G
  <2> HIDE DEF G
  <2> QED BY <1>7, <1>8, Induction
<1>10. \A k \in 0 .. Len(s) : f[k] \in Nat /\ f[k] <= 6 * k
  BY <1>9
<1> QED BY <1>3, <1>5, <1>6, <1>10 DEF f

(* The bytes of a text cost the same whatever follows.                     *)
LEMMA FrontCost ==
    ASSUME NEW a \in Seq(Bytes), NEW b \in Seq(Bytes)
    PROVE  Sums(a \o b)[Len(a)] = TextBytes(a)
<1> DEFINE v == a \o b
<1>1. /\ v \in Seq(Bytes) /\ Len(v) = Len(a) + Len(b)
      /\ Len(a) \in Nat /\ Len(b) \in Nat
      /\ \A i \in 1 .. Len(a) : v[i] = a[i]
  OBVIOUS
<1> HIDE DEF v
<1>2. \A n \in 1 .. Len(a) : JSONBytes(v, n) = JSONBytes(a, n)
  <2>1. ASSUME NEW n \in 1 .. Len(a) PROVE JSONBytes(v, n) = JSONBytes(a, n)
    <3>1. v[n] = a[n]
      BY <1>1
    <3>2. n > 2 => v[n - 1] = a[n - 1] /\ v[n - 2] = a[n - 2]
      <4>1. n > 2 => n - 1 \in 1 .. Len(a) /\ n - 2 \in 1 .. Len(a)
        BY <1>1
      <4> QED BY <1>1, <4>1
    <3> QED BY <3>1, <3>2 DEF JSONBytes
  <2> QED BY <2>1
<1> DEFINE G == {k \in Nat : k <= Len(a) => Sums(v)[k] = Sums(a)[k]}
<1>3. 0 \in G
  BY <1>1, SumsAre
<1>4. ASSUME NEW k \in Nat, k \in G PROVE k + 1 \in G
  <2>1. ASSUME k + 1 <= Len(a) PROVE Sums(v)[k + 1] = Sums(a)[k + 1]
    <3>1. /\ k + 1 \in 1 .. Len(a) /\ k + 1 \in 1 .. Len(v) /\ (k + 1) - 1 = k
          /\ Sums(v)[k] = Sums(a)[k]
      BY <1>1, <1>4, <2>1
    <3>2. /\ Sums(v)[k + 1] = Sums(v)[k] + JSONBytes(v, k + 1)
          /\ Sums(a)[k + 1] = Sums(a)[k] + JSONBytes(a, k + 1)
      <4> DEFINE n == k + 1
      <4>1. n \in 1 .. Len(a) /\ n \in 1 .. Len(v) /\ n - 1 = k
        BY <3>1
      <4> HIDE DEF n, G
      <4>2. /\ Sums(v)[n] = Sums(v)[n - 1] + JSONBytes(v, n)
            /\ Sums(a)[n] = Sums(a)[n - 1] + JSONBytes(a, n)
        BY <1>1, <4>1, SumsAre
      <4> QED BY <4>1, <4>2 DEF n
    <3>3. JSONBytes(v, k + 1) = JSONBytes(a, k + 1)
      BY <1>2, <3>1
    <3> HIDE DEF G
    <3> QED BY <3>1, <3>2, <3>3
  <2> QED BY <2>1
<1>5. Nat \subseteq G
  <2> HIDE DEF G
  <2> QED BY <1>3, <1>4, Induction
<1>6. Sums(v)[Len(a)] = Sums(a)[Len(a)]
  BY <1>1, <1>5
<1> HIDE DEF G
<1> QED BY <1>6, SumsAre DEF v

(* A piece of readable text costs at most six bytes.                       *)
LEMMA PieceCost ==
    ASSUME NEW a \in Seq(Bytes), NEW x \in Bytes, NEW p \in {<<x>>, RuneError, <<>>}
    PROVE  TextBytes(a \o p) <= TextBytes(a) + 6
<1> DEFINE v == a \o p
           l == Len(a)
<1>1. TextBytes(a) \in Nat
  <2>1. l \in 0 .. l
    OBVIOUS
  <2> HIDE DEF l
  <2> QED BY <2>1, SumsAre DEF l
<1>2. CASE p = <<>>
  <2>1. a \o <<>> = a
    OBVIOUS
  <2> QED BY <1>1, <1>2, <2>1
<1>3. CASE p = <<x>>
  <2>1. p \in Seq(Bytes) /\ v \in Seq(Bytes) /\ Len(v) = l + 1 /\ l \in Nat
    BY <1>3
  <2>2. Sums(v)[l] = TextBytes(a)
    BY <2>1, FrontCost
  <2> HIDE DEF v, l
  <2> DEFINE n == l + 1
  <2>3. n \in 1 .. Len(v) /\ n - 1 = l /\ Len(v) = n
    BY <2>1
  <2> HIDE DEF n
  <2>4. Sums(v)[n] = Sums(v)[n - 1] + JSONBytes(v, n) /\ JSONBytes(v, n) \in 1 .. 6
    BY <2>1, <2>3, SumsAre, ByteCost
  <2>5. TextBytes(v) = Sums(v)[n]
    BY <2>1, <2>3, SumsAre
  <2>6. TextBytes(v) <= TextBytes(a) + 6
    BY <1>1, <2>2, <2>3, <2>4, <2>5
  <2> QED BY <2>6 DEF v
<1>4. CASE p = RuneError
  <2>1. /\ p \in Seq(Bytes) /\ v \in Seq(Bytes) /\ Len(v) = l + 3 /\ l \in Nat
        /\ v[l + 1] = 239 /\ v[l + 2] = 191 /\ v[l + 3] = 189
    BY <1>4 DEF RuneError, Bytes
  <2>2. Sums(v)[l] = TextBytes(a)
    BY <2>1, FrontCost
  <2> HIDE DEF v, l
  <2> DEFINE one == l + 1
             two == l + 2
             three == l + 3
  <2>3. /\ one \in 1 .. Len(v) /\ one - 1 = l
        /\ two \in 1 .. Len(v) /\ two - 1 = one
        /\ three \in 1 .. Len(v) /\ three - 1 = two /\ Len(v) = three
    BY <2>1
  <2>4. v[one] = 239 /\ v[two] = 191 /\ v[three] = 189
    BY <2>1
  <2> HIDE DEF one, two, three
  <2>5. JSONBytes(v, one) = 1 /\ JSONBytes(v, two) = 1 /\ JSONBytes(v, three) = 1
    BY <2>1, <2>3, <2>4, ByteCost
  <2>6. /\ Sums(v)[one] = Sums(v)[one - 1] + JSONBytes(v, one)
        /\ Sums(v)[two] = Sums(v)[two - 1] + JSONBytes(v, two)
        /\ Sums(v)[three] = Sums(v)[three - 1] + JSONBytes(v, three)
    BY <2>1, <2>3, SumsAre
  <2>7. TextBytes(v) = Sums(v)[three]
    BY <2>1, <2>3, SumsAre
  <2>8. TextBytes(v) <= TextBytes(a) + 6
    BY <1>1, <2>2, <2>3, <2>5, <2>6, <2>7
  <2> QED BY <2>8 DEF v
<1> QED BY <1>2, <1>3, <1>4

LEMMA ReadableCost ==
    ASSUME NEW s \in Seq(Bytes)
    PROVE  /\ TextBytes(s) \in Nat /\ TextBytes(s) <= 6 * Len(s)
           /\ TextBytes(ToValidUTF8(s)) \in Nat
           /\ TextBytes(ToValidUTF8(s)) <= 6 * Len(s)
<1> DEFINE ss == ReadablePieces(s)
           t == ToValidUTF8(s)
           G == {k \in Nat : k <= Len(s) => TextBytes(Upto(ss, k)) <= 6 * k}
<1>1. /\ ss \in Chunks(Bytes) /\ Len(ss) = Len(s) /\ Len(s) \in Nat
      /\ \A n \in 1 .. Len(s) : ss[n] \in {<<s[n]>>, RuneError, <<>>}
  BY ReadablePiece
<1>2. t = FlattenSeq(ss)
  BY DEF ToValidUTF8, ReadablePieces
<1> HIDE DEF ss, t
<1>3. /\ t = Upto(ss, Len(s))
      /\ \A k \in 1 .. Len(s) : Upto(ss, k) = Upto(ss, k - 1) \o ss[k]
      /\ \A k \in 0 .. Len(s) : Upto(ss, k) \in Seq(Bytes)
  BY <1>1, <1>2, FlattenIsUpto DEF Chunks
<1>4. ASSUME NEW v \in Seq(Bytes) PROVE TextBytes(v) \in Nat /\ TextBytes(v) <= 6 * Len(v)
  <2>1. Len(v) \in 0 .. Len(v)
    OBVIOUS
  <2> QED BY <2>1, SumsAre
<1>5. 0 \in G
  <2>1. Upto(ss, 0) = <<>> /\ <<>> \in Seq(Bytes) /\ Len(<<>>) = 0
    BY DEF Upto
  <2> QED BY <1>4, <2>1
<1>6. ASSUME NEW k \in Nat, k \in G PROVE k + 1 \in G
  <2>1. ASSUME k + 1 <= Len(s) PROVE TextBytes(Upto(ss, k + 1)) <= 6 * (k + 1)
    <3> DEFINE n == k + 1
    <3>1. n \in 1 .. Len(s) /\ n - 1 = k /\ k \in 0 .. Len(s) /\ TextBytes(Upto(ss, k)) <= 6 * k
      BY <1>1, <1>6, <2>1
    <3> HIDE DEF n, G
    <3>2. Upto(ss, n) = Upto(ss, k) \o ss[n] /\ Upto(ss, k) \in Seq(Bytes) /\ s[n] \in Bytes
      <4>1. Upto(ss, n) = Upto(ss, n - 1) \o ss[n]
        BY <1>3, <3>1
      <4>2. Upto(ss, k) \in Seq(Bytes)
        BY <1>3, <3>1
      <4>3. s[n] \in Bytes
        BY <3>1
      <4> QED BY <3>1, <4>1, <4>2, <4>3
    <3>3. TextBytes(Upto(ss, k) \o ss[n]) <= TextBytes(Upto(ss, k)) + 6
      BY <1>1, <3>1, <3>2, PieceCost
    <3>4. n \in 0 .. Len(s)
      BY <3>1
    <3>5. TextBytes(Upto(ss, n)) \in Nat /\ TextBytes(Upto(ss, k)) \in Nat
      BY <1>3, <1>4, <3>1, <3>4
    <3>6. TextBytes(Upto(ss, n)) <= 6 * n
      <4> DEFINE x == TextBytes(Upto(ss, n))
                 y == TextBytes(Upto(ss, k))
      <4>1. x <= y + 6 /\ x \in Nat /\ y \in Nat /\ y <= 6 * k
        BY <3>1, <3>2, <3>3, <3>5
      <4> HIDE DEF x, y
      <4>2. x <= 6 * n
        BY <3>1, <4>1
      <4> QED BY <4>2 DEF x
    <3> QED BY <3>6 DEF n
  <2> QED BY <2>1
<1>7. Nat \subseteq G
  <2> HIDE DEF G
  <2> QED BY <1>5, <1>6, Induction
<1>8. TextBytes(t) <= 6 * Len(s)
  BY <1>1, <1>3, <1>7
<1>9. t \in Seq(Bytes)
  <2>1. Len(s) \in 0 .. Len(s)
    BY <1>1
  <2> QED BY <1>3, <2>1
<1> QED BY <1>4, <1>8, <1>9 DEF t

LEMMA ChunkCost ==
    ASSUME NEW text \in Seq(Bytes), NEW raw \in Base64Strings \cup {Null}, NEW count \in Nat,
           ValidateChunk(count, text, raw)
    PROVE  /\ TextBytes(text) + RawBytes(raw) \in Nat
           /\ TextBytes(text) + RawBytes(raw) <= 6 * count + EncodedLen(count)
<1>1. EncodedLen(count) \in Nat
  BY DEF EncodedLen
<1>2. CASE raw = Null
  <2>1. Len(text) = count /\ RawBytes(raw) = 0
    BY <1>2 DEF ValidateChunk, RawBytes
  <2>2. TextBytes(text) \in Nat /\ TextBytes(text) <= 6 * count
    BY <2>1, ReadableCost
  <2> QED BY <1>1, <2>1, <2>2
<1>3. CASE raw # Null
  <2>1. /\ EncodedLength(raw) = EncodedLen(count) /\ Len(raw.bytes) = count
        /\ text = ToValidUTF8(raw.bytes)
    BY <1>3 DEF ValidateChunk
  <2>2. raw.bytes \in Seq(Bytes)
    <3> DEFINE Q == Seq(Bytes)
    <3>1. raw \in [bytes : Q, spelling : {"canonical", "broken", "loose"}]
      BY <1>3 DEF Base64Strings
    <3> HIDE DEF Q
    <3>2. raw.bytes \in Q
      BY <3>1
    <3> QED BY <3>2 DEF Q
  <2>3. TextBytes(text) \in Nat /\ TextBytes(text) <= 6 * count
    BY <2>1, <2>2, ReadableCost
  <2>4. RawBytes(raw) = EncodedLen(count)
    BY <1>3, <2>1 DEF RawBytes
  <2> QED BY <1>1, <2>3, <2>4
<1> QED BY <1>2, <1>3

LEMMA StreamCost ==
    ASSUME NEW s, StreamTyped(s), ValidateStream(s)
    PROVE  StreamBytes(s) \in Nat /\ StreamBytes(s) <= WorstStream
<1> DEFINE h == s.head_bytes
           t == s.tail_bytes
           x == TextBytes(s.head_text) + RawBytes(s.head_raw_base64)
           y == TextBytes(s.tail_text) + RawBytes(s.tail_raw_base64)
<1>1. /\ s.head_text \in Seq(Bytes) /\ s.tail_text \in Seq(Bytes)
      /\ s.head_raw_base64 \in Base64Strings \cup {Null}
      /\ s.tail_raw_base64 \in Base64Strings \cup {Null}
      /\ h \in Int /\ t \in Int
  BY DEF StreamTyped, TextKeys, RawKeys, CountKeys
<1>2. /\ SafeCount(h) /\ SafeCount(t)
      /\ h + t <= MaxCapturedBytes
      /\ ValidateChunk(h, s.head_text, s.head_raw_base64)
      /\ ValidateChunk(t, s.tail_text, s.tail_raw_base64)
  BY DEF ValidateStream, CountKeys
<1>3. h \in Nat /\ t \in Nat
  BY <1>1, <1>2 DEF SafeCount
<1> HIDE DEF h, t
<1>4. /\ x \in Nat /\ x <= 6 * h + EncodedLen(h)
      /\ y \in Nat /\ y <= 6 * t + EncodedLen(t)
  BY <1>1, <1>2, <1>3, ChunkCost
<1>5. StreamBytes(s) = x + y
  <2>1. \A text \in {s.head_text, s.tail_text} : TextBytes(text) \in Nat
    BY <1>1, ReadableCost
  <2>2. RawBytes(s.head_raw_base64) \in Int /\ RawBytes(s.tail_raw_base64) \in Int
    <3>1. \A raw \in Base64Strings : Len(raw.bytes) \in Nat
      <4> DEFINE Q == Seq(Bytes)
      <4>1. Base64Strings = [bytes : Q, spelling : {"canonical", "broken", "loose"}]
        BY DEF Base64Strings
      <4> HIDE DEF Q
      <4>2. \A raw \in Base64Strings : raw.bytes \in Q
        BY <4>1
      <4> QED BY <4>2 DEF Q
    <3>2. \A raw \in Base64Strings : EncodedLength(raw) \in Int
      BY <3>1 DEF EncodedLength, EncodedLen
    <3> QED BY <1>1, <3>2 DEF RawBytes
  <2> QED BY <2>1, <2>2 DEF StreamBytes
<1> HIDE DEF x, y
<1>6. EncodedLen(h) + EncodedLen(t) <= EncodedLen(MaxCapturedBytes) + 4
  BY <1>2, <1>3, RecordStreamAssumption DEF EncodedLen
<1>7. \A n \in Nat : EncodedLen(n) \in Nat
  BY DEF EncodedLen
<1> QED BY <1>2, <1>3, <1>4, <1>5, <1>6, <1>7, RecordStreamAssumption DEF WorstStream

LEMMA UnfitIsLong ==
    ASSUME NEW r, GoodRecord(r), ~FitsLimit(r)
    PROVE  5 * Arguments[r.command] > Room
<1>1. /\ StreamTyped(r.stdout) /\ ValidateStream(r.stdout)
      /\ StreamTyped(r.stderr) /\ ValidateStream(r.stderr)
      /\ r.command \in Commands
  BY GoodStreams DEF GoodRecord, RecordTyped, Validate
<1> DEFINE o == StreamBytes(r.stdout)
           e == StreamBytes(r.stderr)
           c == CommandJSONBytes[r.command]
           a == Arguments[r.command]
<1>2. o \in Nat /\ o <= WorstStream /\ e \in Nat /\ e <= WorstStream
  BY <1>1, StreamCost
<1>3. /\ c \in Nat /\ c <= MaxCommandJSONBytes /\ a \in Nat
      /\ MaxCommandJSONBytes \in Nat /\ MaxRecordBytes \in Nat /\ OtherBytes \in Nat
  BY <1>1, SizesAssumption
<1>4. WorstStream \in Int
  BY RecordStreamAssumption DEF WorstStream, EncodedLen
<1>5. OtherBytes + c + 5 * a + o + e > MaxRecordBytes
  <2>1. EncodedBytes(r) = OtherBytes + c + 5 * a + o + e
    BY DEF EncodedBytes
  <2> HIDE DEF o, e, c, a
  <2>2. EncodedBytes(r) \in Int
    BY <1>2, <1>3, <2>1
  <2> QED BY <1>3, <2>1, <2>2 DEF FitsLimit
<1> HIDE DEF o, e, c, a
<1>6. 5 * a > Room
  BY <1>2, <1>3, <1>4, <1>5 DEF Room
<1> QED BY <1>6 DEF a

-----------------------------------------------------------------------------
(* What the recording program holds.                                      *)
LEMMA ChunkIsValid ==
    ASSUME NEW raw \in Seq(Bytes)
    PROVE  /\ EncodeChunk(raw).text \in Seq(Bytes)
           /\ EncodeChunk(raw).raw \in Base64Strings \cup {Null}
           /\ ValidateChunk(Len(raw), EncodeChunk(raw).text, EncodeChunk(raw).raw)
<1>1. CASE ValidUTF8(raw)
  BY <1>1 DEF EncodeChunk, ValidateChunk
<1>2. CASE ~ValidUTF8(raw)
  <2> DEFINE Q == Seq(Bytes)
  <2>1. EncodeChunk(raw).text = ToValidUTF8(raw) /\ EncodeChunk(raw).raw = Base64(raw)
    BY <1>2 DEF EncodeChunk
  <2>2. ToValidUTF8(raw) \in Seq(Bytes) /\ ValidUTF8(ToValidUTF8(raw))
    BY ToValidUTF8Valid
  <2>3. Base64(raw) \in Base64Strings
    <3>1. raw \in Q
      OBVIOUS
    <3> HIDE DEF Q
    <3>2. Base64(raw) \in [bytes : Q, spelling : {"canonical", "broken", "loose"}]
      BY <3>1 DEF Base64
    <3> QED BY <3>2 DEF Base64Strings, Q
  <2>4. Base64(raw) # Null
    BY <2>3, NoValue DEF Absent
  <2>5. /\ ~HasLineBreak(Base64(raw)) /\ Decodes(Base64(raw)) /\ Base64(raw).bytes = raw
        /\ EncodedLength(Base64(raw)) = EncodedLen(Len(raw))
    BY DEF Base64, HasLineBreak, Decodes, EncodedLength, EncodedLen
  <2> QED BY <1>2, <2>1, <2>2, <2>3, <2>4, <2>5 DEF ValidateChunk
<1> QED BY <1>1, <1>2

LEMMA SnapshotIsValid ==
    ASSUME NEW s \in Snapshots
    PROVE  StreamTyped(SnapshotStream(s)) /\ ValidateStream(SnapshotStream(s))
<1> DEFINE n == SnapshotStream(s)
           h == s.head
           t == s.tail
<1>1. /\ s.received \in Nat /\ s.complete \in BOOLEAN /\ h \in Seq(Bytes)
      /\ s.omitted \in Nat /\ t \in Seq(Bytes)
      /\ s.received = Len(h) + s.omitted + Len(t)
      /\ s.received <= MaxSafeInteger
      /\ Len(h) + Len(t) <= MaxCapturedBytes
      /\ s.omitted = 0 => t = <<>>
  <2> DEFINE Q == Seq(Bytes)
  <2>1. s \in [received : Nat, complete : BOOLEAN, head : Q, omitted : Nat, tail : Q]
    BY SnapshotsAssumption
  <2>2. /\ s.received = Len(h) + s.omitted + Len(t)
        /\ s.received <= MaxSafeInteger
        /\ Len(h) + Len(t) <= MaxCapturedBytes
        /\ s.omitted = 0 => t = <<>>
    BY SnapshotsAssumption
  <2> HIDE DEF Q
  <2>3. s.received \in Nat /\ s.complete \in BOOLEAN /\ h \in Q /\ s.omitted \in Nat /\ t \in Q
    BY <2>1
  <2> QED BY <2>2, <2>3 DEF Q
<1>2. /\ n.received_bytes = s.received /\ n.capture_complete = s.complete
      /\ n.head_bytes = Len(h) /\ n.head_text = EncodeChunk(h).text
      /\ n.head_raw_base64 = EncodeChunk(h).raw
      /\ n.omitted_bytes = s.omitted
      /\ n.tail_bytes = Len(t) /\ n.tail_text = EncodeChunk(t).text
      /\ n.tail_raw_base64 = EncodeChunk(t).raw
  BY DEF SnapshotStream, NewStream
<1>3. n = [key \in StreamKeys |-> n[key]]
  BY DEF SnapshotStream, NewStream, StreamKeys, CountKeys, TextKeys, RawKeys
<1> HIDE DEF n, h, t
<1>4. Len(h) \in Nat /\ Len(t) \in Nat /\ MaxSafeInteger \in Nat /\ (t = <<>> => Len(t) = 0)
  BY <1>1, RecordStreamAssumption
<1>5. \A key \in CountKeys : n[key] \in Int /\ SafeCount(n[key])
  <2>1. \A m \in {s.received, Len(h), s.omitted, Len(t)} : m \in Int /\ SafeCount(m)
    BY <1>1, <1>4 DEF SafeCount
  <2>2. \A key \in CountKeys : n[key] \in {s.received, Len(h), s.omitted, Len(t)}
    BY <1>2 DEF CountKeys
  <2> QED BY <2>1, <2>2
<1>6. StreamTyped(n)
  <2>1. \A key \in TextKeys : n[key] \in Seq(Bytes)
    BY <1>1, <1>2, ChunkIsValid DEF TextKeys
  <2>2. \A key \in RawKeys : n[key] \in Base64Strings \cup {Null}
    BY <1>1, <1>2, ChunkIsValid DEF RawKeys
  <2> QED BY <1>1, <1>2, <1>3, <1>5, <2>1, <2>2 DEF StreamTyped
<1>7. ValidateStream(n)
  <2>1. /\ ValidateChunk(n.head_bytes, n.head_text, n.head_raw_base64)
        /\ ValidateChunk(n.tail_bytes, n.tail_text, n.tail_raw_base64)
    BY <1>1, <1>2, ChunkIsValid
  <2>2. /\ n.head_bytes + n.tail_bytes <= MaxCapturedBytes
        /\ n.received_bytes = n.head_bytes + n.omitted_bytes + n.tail_bytes
        /\ n.omitted_bytes = 0 => n.tail_bytes = 0
    BY <1>1, <1>2, <1>4
  <2> QED BY <1>5, <2>1, <2>2 DEF ValidateStream
<1> QED BY <1>6, <1>7 DEF n
LEMMA PrepareIsGood ==
    ASSUME NEW producer \in {"good", "bad"}, NEW command \in {"good", "many", "bad"},
           NEW directory \in {"good", "bad"}, NEW git \in {Null, "good", "bad"},
           Prepare(producer, command, directory, git)
    PROVE  stage' = "refused" \/ (stage' = "running" /\ Prepared(receipt'))
<1> DEFINE m == [version |-> CurrentVersion, runprint_version |-> producer,
                 command |-> command, directory |-> directory,
                 started_at |-> "good", duration_ns |-> "good",
                 exit_code |-> 0, interruption |-> Null,
                 stdout |-> NewStream(0, TRUE, <<>>, 0, <<>>),
                 stderr |-> NewStream(0, TRUE, <<>>, 0, <<>>), git |-> git]
<1>1. \/ stage' = "refused"
      \/ Validate(m) /\ stage' = "running" /\ receipt' = m
  BY DEF Prepare
<1>2. /\ m.version = CurrentVersion /\ m.runprint_version = producer
      /\ m.command = command /\ m.directory = directory
      /\ m.started_at = "good" /\ m.duration_ns = "good" /\ m.git = git
  OBVIOUS
<1>3. m = [key \in Keys |-> m[key]]
  BY RecordOrderIs
<1> HIDE DEF m
<1>4. ASSUME Validate(m) PROVE Prepared(m)
  <2>1. m.command \in Commands /\ ValidateV2(m)
    BY <1>2, <1>4 DEF Validate
  <2>2. m.directory # "bad" /\ m.runprint_version # "bad" /\ m.git # "bad"
    BY <2>1 DEF ValidateV2, OptionalMetadata
  <2> QED BY <1>2, <1>3, <2>1, <2>2 DEF Prepared
<1> QED BY <1>1, <1>4

(* The name of a signal goes with the exit code it is reported as.         *)
LEMMA SignalIsNamed ==
    ASSUME NEW sig \in HandledSignals
    PROVE  /\ PortableSignalName(sig) \in SignalNames
           /\ ValidateSignalName(PortableSignalName(sig)) = SignalExitCode(sig)
           /\ SignalExitCode(sig) \in Int /\ SignalExitCode(sig) # 0
<1>1. sig = 1 \/ sig = 2 \/ sig = 3 \/ sig = 15
  BY DEF HandledSignals
<1>2. ValidateSignalName("SIGHUP") = 129 /\ ValidateSignalName("SIGINT") = 130
      /\ ValidateSignalName("SIGQUIT") = 131 /\ ValidateSignalName("SIGTERM") = 143
  BY DEF ValidateSignalName
<1>3. CASE sig = 1
  BY <1>2, <1>3 DEF PortableSignalName, SignalExitCode, SignalNames
<1>4. CASE sig = 2
  BY <1>2, <1>4 DEF PortableSignalName, SignalExitCode, SignalNames
<1>5. CASE sig = 3
  BY <1>2, <1>5 DEF PortableSignalName, SignalExitCode, SignalNames
<1>6. CASE sig = 15
  BY <1>2, <1>6 DEF PortableSignalName, SignalExitCode, SignalNames
<1> QED BY <1>1, <1>3, <1>4, <1>5, <1>6

LEMMA FinishIsGood ==
    ASSUME Prepared(receipt), NEW code \in ExitCodes, NEW sig \in HandledSignals \cup {Null},
           NEW out \in Snapshots, NEW err \in Snapshots, Finish(code, sig, out, err)
    PROVE  GoodRecord(receipt') /\ receipt'.runprint_version # Null
<1> DEFINE r == receipt'
           exit == IF sig = Null THEN code ELSE SignalExitCode(sig)
           name == IF sig = Null THEN Null ELSE PortableSignalName(sig)
           o == SnapshotStream(out)
           e == SnapshotStream(err)
<1>1. r = [receipt EXCEPT !.exit_code = exit, !.interruption = name, !.stdout = o, !.stderr = e]
  BY DEF Finish
<1>2. /\ receipt = [key \in Keys |-> receipt[key]]
      /\ receipt.version = CurrentVersion /\ receipt.runprint_version = "good"
      /\ receipt.directory = "good"
      /\ receipt.command \in Commands /\ receipt.started_at = "good" /\ receipt.duration_ns = "good"
      /\ receipt.git \in {"good", Null}
  BY DEF Prepared
<1>3. /\ exit \in Int
      /\ name \in SignalNames \cup {Null}
      /\ name # Null => ValidateSignalName(name) # 0 /\ exit = ValidateSignalName(name)
  <2>1. CASE sig = Null
    BY <2>1, EditsAssumption
  <2>2. CASE sig # Null
    BY <2>2, SignalIsNamed
  <2> QED BY <2>1, <2>2
<1>4. /\ StreamTyped(o) /\ ValidateStream(o)
      /\ StreamTyped(e) /\ ValidateStream(e)
  BY SnapshotIsValid
<1> HIDE DEF exit, name, o, e, r
<1>5. /\ "exit_code" \in Keys /\ "interruption" \in Keys /\ "stdout" \in Keys /\ "stderr" \in Keys
  BY RecordOrderIs
<1>6. /\ r = [key \in Keys |-> r[key]]
      /\ r.exit_code = exit /\ r.interruption = name /\ r.stdout = o /\ r.stderr = e
      /\ \A key \in Keys \ {"exit_code", "interruption", "stdout", "stderr"} :
            r[key] = receipt[key]
  BY <1>1, <1>2, <1>5
<1>7. /\ r.version = CurrentVersion /\ r.runprint_version = "good" /\ r.directory = "good"
      /\ r.command \in Commands /\ r.started_at = "good" /\ r.duration_ns = "good"
      /\ r.git \in {"good", Null}
  <2>1. \A key \in MetadataKeys \cup {"version"} :
            key \in Keys \ {"exit_code", "interruption", "stdout", "stderr"}
    BY RecordOrderIs DEF MetadataKeys, RequiredMetadata, OptionalMetadata
  <2> QED BY <1>2, <1>6, <2>1, KeysOfRecord
<1>8. RecordTyped(r)
  <2>1. \A key \in MetadataKeys : r[key] \in Words \cup {Null}
    BY <1>7 DEF MetadataKeys, RequiredMetadata, OptionalMetadata, Words, Commands
  <2>2. "partial" \notin {r.command, r.git} /\ "empty" \notin {r.runprint_version, r.git}
    <3>1. Null # "partial" /\ Null # "empty"
      BY NoValue DEF Absent, Words, Commands
    <3> QED BY <1>7, <3>1 DEF Commands
  <2> QED BY <1>3, <1>4, <1>6, <1>7, <2>1, <2>2 DEF RecordTyped, Words, Commands
<1>9. Validate(r)
  <2>1. Null # "bad"
    BY NoValue DEF Absent, Words, Commands
  <2>2. \A key \in {"directory"} \cup OptionalMetadata : r[key] # "bad"
    BY <1>7, <2>1 DEF OptionalMetadata
  <2>3. ValidateV2(r)
    BY <1>3, <1>4, <1>6, <2>2 DEF ValidateV2
  <2> QED BY <1>7, <2>3 DEF Validate
<1>10. r.runprint_version # Null
  BY <1>7, NoValue DEF Absent, Words, Commands
<1> QED BY <1>8, <1>9, <1>10 DEF GoodRecord, r

LEMMA GoodIsWritable ==
    ASSUME NEW r, GoodRecord(r), r.runprint_version # Null, FitsLimit(r)
    PROVE  Writable(r)
<1>1. Decode(Encode(r)) # Null
  BY RoundTrip, GoodIsRecord
<1> QED BY <1>1 DEF Writable, GoodRecord, RecordTyped

(* What holds of every reachable state.                                    *)
LEMMA RecordInitial ==
    ASSUME Init PROVE RecordInv
<1>1. FileInv
  BY LegacyFileTyped DEF Init, FileInv
<1>2. StageInv
  BY DEF Init, StageInv
<1> QED BY <1>1, <1>2 DEF Init, RecordInv

LEMMA RecordStep ==
    ASSUME RecordInv, [Next]_vars PROVE RecordInv'
<1>1. ASSUME NEW producer \in {"good", "bad"}, NEW command \in {"good", "many", "bad"},
             NEW directory \in {"good", "bad"}, NEW git \in {Null, "good", "bad"},
             Prepare(producer, command, directory, git)
      PROVE  RecordInv'
  <2>1. stage' = "refused" \/ (stage' = "running" /\ Prepared(receipt'))
    BY <1>1, PrepareIsGood
  <2>2. UNCHANGED <<file, edits>>
    BY <1>1 DEF Prepare
  <2>3. StageInv'
    BY <2>1 DEF StageInv
  <2> QED BY <2>2, <2>3 DEF RecordInv, FileInv
<1>2. ASSUME NEW code \in ExitCodes, NEW sig \in HandledSignals \cup {Null},
             NEW out \in Snapshots, NEW err \in Snapshots, Finish(code, sig, out, err)
      PROVE  RecordInv'
  <2>1. Prepared(receipt) /\ stage' = "ended" /\ UNCHANGED <<file, edits>>
    BY <1>2 DEF Finish, RecordInv, StageInv
  <2>2. GoodRecord(receipt') /\ receipt'.runprint_version # Null
    BY <1>2, <2>1, FinishIsGood
  <2>3. StageInv'
    BY <2>1, <2>2 DEF StageInv
  <2> QED BY <2>1, <2>3 DEF RecordInv, FileInv
<1>3. CASE WriteFile
  <2>1. GoodRecord(receipt) /\ receipt.runprint_version # Null
    BY <1>3 DEF WriteFile, RecordInv, StageInv
  <2>2. UNCHANGED <<receipt, edits>>
    BY <1>3 DEF WriteFile
  <2>3. CASE FitsLimit(receipt)
    <3>1. stage' = "recorded" /\ file' = Encode(receipt)
      BY <1>3, <2>1, <2>3, GoodIsWritable DEF WriteFile
    <3>2. file' \in Seq(Outer)
      BY <2>1, <3>1, EncodedRecord
    <3>3. FileInv'
      BY <3>2 DEF FileInv
    <3>4. StageInv'
      BY <2>1, <2>2, <3>1 DEF StageInv
    <3> QED BY <2>2, <3>3, <3>4 DEF RecordInv
  <2>4. CASE ~FitsLimit(receipt)
    <3>1. stage' = "lost" /\ file' = file
      BY <1>3, <2>4 DEF WriteFile, Writable
    <3>2. FileInv'
      BY <3>1 DEF RecordInv, FileInv
    <3>3. StageInv'
      BY <2>1, <2>2, <2>4, <3>1 DEF StageInv, FitsLimit, EncodedBytes, GoodRecord
    <3> QED BY <2>2, <3>2, <3>3 DEF RecordInv
  <2> QED BY <2>3, <2>4
<1>4. CASE Edit
  <2>1. FileInv'
    BY <1>4, EditKeepsTypes DEF RecordInv, FileInv, FileTyped
  <2>2. edits' = edits + 1 /\ UNCHANGED <<stage, receipt>> /\ edits \in Nat
    BY <1>4 DEF Edit, RecordInv
  <2>3. StageInv'
    BY <2>2 DEF RecordInv, StageInv
  <2> QED BY <2>1, <2>2, <2>3 DEF RecordInv
<1>5. CASE UNCHANGED vars
  BY <1>5 DEF vars, RecordInv, FileInv, StageInv
<1> QED BY <1>1, <1>2, <1>3, <1>4, <1>5 DEF Next

LEMMA RecordInvariant == Spec => []RecordInv
BY RecordInitial, RecordStep, PTL DEF Spec

(* What the checks before the command let through, the checks after it     *)
(* accept, whatever the command wrote and however it ended, unless its     *)
(* arguments are so many that their layout takes more than the longest     *)
(* record has left after the worst of everything else (run, WriteFile).    *)
THEOREM CommandThatRanIsRecorded == Spec => []OnlyLongCommandsAreLost
<1>1. RecordInv => OnlyLongCommandsAreLost
  BY UnfitIsLong DEF RecordInv, StageInv, OnlyLongCommandsAreLost
<1> QED BY <1>1, RecordInvariant, PTL

(* Decoding what WriteFile wrote gives the record in memory, for every     *)
(* output, exit and signal (WriteFileWithContentID, DecodeWithContentID).  *)
THEOREM WrittenRecordReadsBack == Spec => []ReadsBack
<1>1. RecordInv => ReadsBack
  BY RoundTrip DEF RecordInv, StageInv, ReadsBack
<1> QED BY <1>1, RecordInvariant, PTL

(* However a file was edited, the streams of a record that is read from it *)
(* are the canonical form of bytes of the length they state                *)
(* (decodeRawBase64, validateChunk).                                       *)
THEOREM AcceptedStreamsAreCanonical == Spec => []AcceptedStreamsAreExact
<1>1. RecordInv => AcceptedStreamsAreExact
  BY AcceptedExact DEF RecordInv, FileInv, AcceptedStreamsAreExact
<1> QED BY <1>1, RecordInvariant, PTL
-----------------------------------------------------------------------------
(* What a file says.  In the spelling of the schema no field is there      *)
(* twice, so that what is found for a field is all the file says of it.    *)
Unique(object) ==
    \A i, j \in 1 .. Len(object) : object[i].key = object[j].key => i = j

LEMMA KeysSaid ==
    ASSUME NEW R, NEW object \in Seq(R), Unique(object), NEW K
    PROVE  {object[i].key : i \in At(object, K)} = {key \in K : Field(object, key) # Null}
<1> DEFINE A == {object[i].key : i \in At(object, K)}
           B == {key \in K : Field(object, key) # Null}
<1>1. ASSUME NEW i \in At(object, K)
      PROVE  object[i].key \in B
  <2>1. i \in 1 .. Len(object) /\ object[i].key \in K /\ object[i].value # Null
    BY DEF At
  <2>2. Field(object, object[i].key) = object[i].value
    BY <2>1, FieldOfOne DEF Unique
  <2> QED BY <2>1, <2>2
<1>2. ASSUME NEW key \in B
      PROVE  \E i \in At(object, K) : object[i].key = key
  <2>1. PICK i \in 1 .. Len(object) :
            object[i].key = key /\ Field(object, key) = object[i].value
    BY FieldFrom
  <2>2. i \in At(object, K)
    BY <2>1 DEF At
  <2> QED BY <2>1, <2>2
<1>3. \A x : x \in A <=> x \in B
  <2> HIDE DEF B
  <2> QED BY <1>1, <1>2
<1> QED BY <1>3

LEMMA SaidSame ==
    ASSUME NEW R, NEW a \in Seq(R), Unique(a), NEW S, NEW b \in Seq(S), Unique(b),
           \A key \in StreamKeys \cup {"signal"} : Field(a, key) = Field(b, key)
    PROVE  Said(a) = Said(b)
<1> DEFINE K == StreamKeys \cup {"signal"}
           A == {key \in K : Field(a, key) # Null}
           B == {key \in K : Field(b, key) # Null}
<1>1. {a[i].key : i \in At(a, K)} = A
  <2> HIDE DEF K
  <2> QED BY KeysSaid
<1>2. {b[i].key : i \in At(b, K)} = B
  <2> HIDE DEF K
  <2> QED BY KeysSaid
<1>3. A = B /\ A \subseteq K
  OBVIOUS
<1>4. Said(a) = [key \in A |-> Field(a, key)]
  BY <1>1 DEF Said
<1>5. Said(b) = [key \in B |-> Field(b, key)]
  BY <1>2 DEF Said
<1>6. \A key \in A : Field(a, key) = Field(b, key)
  OBVIOUS
<1> HIDE DEF A, B
<1> QED BY <1>3, <1>4, <1>5, <1>6

(* The fields of which an object says something, and what.                 *)
Told(object) ==
    {key \in Keys : /\ Field(object, key) # Null
                    /\ key = "runprint_version" => Field(object, key) # "empty"}

SaysOf(object, key) ==
    CASE key \in ObjectKeys -> Said(Field(object, key).members)
      [] key = "git" -> WithoutEmpty(Field(object, key), "good")
      [] OTHER -> Field(object, key)

LEMMA KeysTold ==
    ASSUME NEW R, NEW object \in Seq(R), Unique(object)
    PROVE  {object[i].key : i \in {i \in At(object, Keys) : Says(object[i])}} = Told(object)
<1> DEFINE A == {object[i].key : i \in {i \in At(object, Keys) : Says(object[i])}}
           B == Told(object)
<1>1. ASSUME NEW i \in At(object, Keys), Says(object[i])
      PROVE  object[i].key \in B
  <2>1. i \in 1 .. Len(object) /\ object[i].key \in Keys /\ object[i].value # Null
    BY DEF At
  <2>2. Field(object, object[i].key) = object[i].value
    BY <2>1, FieldOfOne DEF Unique
  <2> QED BY <1>1, <2>1, <2>2 DEF Told, Says
<1>2. ASSUME NEW key \in B
      PROVE  \E i \in At(object, Keys) : Says(object[i]) /\ object[i].key = key
  <2>1. /\ key \in Keys /\ Field(object, key) # Null
        /\ key = "runprint_version" => Field(object, key) # "empty"
    BY DEF Told
  <2>2. PICK i \in 1 .. Len(object) :
            object[i].key = key /\ Field(object, key) = object[i].value
    BY <2>1, FieldFrom
  <2>3. i \in At(object, Keys)
    BY <2>1, <2>2 DEF At
  <2>4. Says(object[i])
    BY <2>1, <2>2 DEF Says
  <2> QED BY <2>2, <2>3, <2>4
<1>3. \A x : x \in A <=> x \in B
  <2> HIDE DEF B
  <2> QED BY <1>1, <1>2
<1> QED BY <1>3

LEMMA ContentSame ==
    ASSUME NEW R, NEW a \in Seq(R), Unique(a), NEW S, NEW b \in Seq(S), Unique(b),
           Told(a) = Told(b),
           \A key \in Told(a) : SaysOf(a, key) = SaysOf(b, key)
    PROVE  Content(a) = Content(b)
<1>1. {a[i].key : i \in {i \in At(a, Keys) : Says(a[i])}} = Told(a)
  BY KeysTold
<1>2. {b[i].key : i \in {i \in At(b, Keys) : Says(b[i])}} = Told(b)
  BY KeysTold
<1>3. Content(a) = [key \in Told(a) |-> SaysOf(a, key)]
  BY <1>1 DEF Content, SaysOf
<1>4. Content(b) = [key \in Told(b) |-> SaysOf(b, key)]
  BY <1>2 DEF Content, SaysOf
<1> QED BY <1>3, <1>4

LEMMA SpelledIsUnique ==
    ASSUME NEW T, \A m \in T : m.exact \in BOOLEAN, NEW object \in Seq(T),
           DistinctKeys(object), \A i \in DOMAIN object : object[i].exact
    PROVE  Unique(object)
<1> SUFFICES ASSUME NEW i \in 1 .. Len(object), NEW j \in 1 .. Len(object),
                    object[i].key = object[j].key
             PROVE  i = j
  BY DEF Unique
<1>1. i \in DOMAIN object /\ j \in DOMAIN object
  OBVIOUS
<1>2. object[i].exact = TRUE /\ object[j].exact = TRUE
  BY <1>1
<1> QED BY <1>1, <1>2 DEF DistinctKeys

LEMMA FileIsUnique ==
    ASSUME NEW object \in Seq(Outer), StrictJSON(object), SchemaSpelling(object)
    PROVE  /\ Unique(object)
           /\ \A i \in At(object, ObjectKeys) :
                 IsObject(object[i].value) => Unique(object[i].value.members)
<1>1. Unique(object)
  BY SpelledIsUnique, OuterEditable DEF StrictJSON, SchemaSpelling, Editable
<1>2. ASSUME NEW i \in At(object, ObjectKeys), IsObject(object[i].value)
      PROVE  Unique(object[i].value.members)
  <2> DEFINE ms == object[i].value.members
  <2>1. ms \in Seq(Inner)
    BY <1>2, MembersOfObject
  <2>2. DistinctKeys(ms)
    BY <1>2 DEF StrictJSON
  <2>3. \A j \in DOMAIN ms : ms[j].exact
    BY <1>2 DEF SchemaSpelling
  <2>4. \A m \in Inner : m.exact \in BOOLEAN
    BY InnerEditable DEF Editable, ObjectKeys
  <2> HIDE DEF ms
  <2>5. Unique(ms)
    BY <2>1, <2>2, <2>3, <2>4, SpelledIsUnique
  <2> QED BY <2>5 DEF ms
<1> QED BY <1>1, <1>2

(* A file of the current version was decoded as one.                       *)
LEMMA CurrentIsV2 ==
    ASSUME NEW object \in Seq(Outer), SchemaSpelling(object), Decode(object) # Null,
           Decode(object).version = CurrentVersion
    PROVE  /\ Field(object, "version") = CurrentVersion
           /\ Decode(object) = DecodeV2(object)
<1>1. StrictJSON(object)
  BY DecodeIs
<1>2. Unique(object)
  BY <1>1, FileIsUnique
<1>3. ASSUME Field(object, "version") = LegacyVersion,
             Decode(object) = DecodeLegacy(object)
      PROVE  FALSE
  <2>1. LegacyVersion # Null /\ LegacyVersion # CurrentVersion
    BY NoValue DEF Absent, LegacyVersion, CurrentVersion
  <2>2. PICK i \in 1 .. Len(object) :
            object[i].key = "version" /\ object[i].value = LegacyVersion
    BY <1>3, <2>1, FieldFrom
  <2>3. At(object, {"version"}) = {i}
    BY <1>2, <2>1, <2>2 DEF At, Unique
  <2>4. PlainField(object, "version") = LegacyVersion
    BY <2>2, <2>3, LastOfOne DEF PlainField
  <2>5. DecodeLegacy(object) # Null
    BY <1>3
  <2>6. DecodeLegacy(object).version = PlainField(object, "version")
    BY <2>5 DEF DecodeLegacy
  <2> QED BY <1>3, <2>1, <2>4, <2>6
<1> QED BY <1>3, DecodeIs
(* An object that is there once is what is found for its field.            *)
LEMMA OneObject ==
    ASSUME NEW object \in Seq(Outer), HasSchemaV2(object), StrictJSON(object),
           SchemaSpelling(object), NEW key \in ObjectKeys
    PROVE  LET ms == Field(object, key).members
           IN  /\ ObjectField(object, key) = Null <=> Field(object, key) = Null
               /\ Field(object, key) # Null =>
                     /\ ObjectField(object, key) = ms
                     /\ ms \in Seq(Known(key))
                     /\ Unique(ms)
<1>1. /\ Unique(object)
      /\ \A i \in At(object, ObjectKeys) :
            IsObject(object[i].value) => Unique(object[i].value.members)
  BY FileIsUnique
<1>2. CASE \A j \in 1 .. Len(object) : object[j].key = key => object[j].value = Null
  <2>1. ObjectField(object, key) = Null
    BY <1>2, ObjectFieldOfNone
  <2>2. Field(object, key) = Null
    BY <1>2, FieldFrom
  <2> QED BY <2>1, <2>2
<1>3. CASE \E i \in 1 .. Len(object) : object[i].key = key /\ object[i].value # Null
  <2>1. PICK i \in 1 .. Len(object) : object[i].key = key /\ object[i].value # Null
    BY <1>3
  <2> DEFINE value == object[i].value
             ms == value.members
  <2>2. value \in InnerObjects /\ ms \in Seq(Known(key))
    BY <2>1, SchemaMembers
  <2>3. \A j \in 1 .. Len(object) : object[j].key = object[i].key => j = i
    BY <1>1 DEF Unique
  <2>4. Field(object, key) = value
    BY <2>1, <2>3, FieldOfOne
  <2>5. ObjectField(object, key) = ms
    <3>1. ObjectField(object, object[i].key) = ms
      BY <2>1, <2>2, <2>3, ObjectFieldOfOne
    <3> QED BY <2>1, <3>1
  <2>6. Unique(ms)
    <3>1. i \in At(object, ObjectKeys)
      BY <2>1 DEF At
    <3>2. IsObject(value)
      BY <2>2, KindsOfObject
    <3> QED BY <1>1, <3>1, <3>2
  <2>7. value # Null
    BY <2>1
  <2> HIDE DEF value
  <2>8. ms # Null
    <3>1. ms \in Seq(Inner)
      BY <2>2, KindsOfObject
    <3> QED BY <3>1, NoValue DEF Absent
  <2> QED BY <2>2, <2>4, <2>5, <2>6, <2>7, <2>8
<1> QED BY <1>2, <1>3

LEMMA NoSignalField ==
    ASSUME NEW which \in {"stdout", "stderr"}, NEW ms \in Seq(Known(which))
    PROVE  Field(ms, "signal") = Null
<1>1. \A j \in 1 .. Len(ms) : ms[j].key \in StreamKeys
  BY DEF Known, FieldsOf
<1>2. \A j \in 1 .. Len(ms) : ms[j].key # "signal"
  BY <1>1, KeysOfStream
<1> QED BY <1>2, FieldOfNone

LEMMA OnlySignalField ==
    ASSUME NEW ms \in Seq(Known("interruption")), NEW key \in StreamKeys
    PROVE  Field(ms, key) = Null
<1>1. \A j \in 1 .. Len(ms) : ms[j].key = "signal"
  BY DEF Known, FieldsOf
<1>2. \A j \in 1 .. Len(ms) : ms[j].key # key
  BY <1>1, KeysOfStream
<1> QED BY <1>2, FieldOfNone

LEMMA SaysWhatItMeans ==
    ASSUME NEW object \in Seq(Outer), SchemaSpelling(object), Decode(object) # Null,
           Decode(object).version = CurrentVersion
    PROVE  LET r == Decode(object)
           IN  GoodRecord(r) /\ Content(Encode(r)) = Content(object)
<1> DEFINE r == Decode(object)
           f == FieldsFound(object)
           E == Encode(r)
           g == EncodedFields(r)
<1>1. /\ StrictJSON(object) /\ Validate(r) /\ r # Null
      /\ Field(object, "version") = CurrentVersion /\ r = DecodeV2(object)
  BY DecodeIs, CurrentIsV2
<1>2. /\ HasSchemaV2(object) /\ CompleteV2(f) /\ Understood(object, r) /\ RecordTyped(r)
  BY <1>1, DecodedV2
<1>3. GoodRecord(r)
  BY <1>1, <1>2 DEF GoodRecord
<1> HIDE DEF r
<1>4. /\ E \in Seq(Outer)
      /\ \A i, j \in 1 .. Len(E) : E[i].key = E[j].key => i = j
      /\ \A key \in Keys : Field(E, key) = g[key]
  BY <1>3, EncodedRecord
<1>5. Unique(E) /\ Unique(object)
  BY <1>1, <1>4, FileIsUnique DEF Unique
<1> HIDE DEF E
<1>6. \A key \in Keys \ ObjectKeys : Field(E, key) = r[key]
  <2>1. \A key \in Keys \ ObjectKeys : g[key] = r[key]
    BY DEF EncodedFields, ObjectKeys
  <2> QED BY <1>4, <2>1
<1>7. ASSUME NEW key \in {"stdout", "stderr"}
      PROVE  /\ Field(E, key) # Null /\ Field(object, key) # Null
             /\ Said(Field(E, key).members) = Said(Field(object, key).members)
  <2> DEFINE ms == Field(object, key).members
             es == EncodeStream(r[key]).members
  <2>1. key \in ObjectKeys /\ key \in Keys
    BY KeysOfRecord DEF ObjectKeys
  <2>2. f[key] # Null /\ f[key] = ObjectField(object, key)
    BY <1>2, <2>1, FoundIs DEF CompleteV2, RequiredV2
  <2>3. Field(object, key) # Null /\ ObjectField(object, key) = ms
        /\ ms \in Seq(Known(key)) /\ Unique(ms)
    BY <1>1, <1>2, <2>1, <2>2, OneObject
  <2>4. g[key] = EncodeStream(r[key])
    BY <2>1 DEF EncodedFields
  <2>5. g[key] # Null
    BY <1>3, <2>1, FieldValues
  <2>6. StreamTyped(r[key]) /\ ValidateStream(r[key])
    BY <1>3, GoodStreams
  <2>7. /\ es \in Seq(Known("stdout"))
        /\ \A i, j \in 1 .. Len(es) : es[i].key = es[j].key => i = j
        /\ \A k \in StreamKeys : Field(es, k) = r[key][k]
    BY <2>6, EncodedStream
  <2>8. r[key] = Wire(ObjectField(object, key))
    BY <1>2 DEF Understood
  <2>9. Field(E, key) = EncodeStream(r[key])
    BY <1>4, <2>1, <2>4
  <2> HIDE DEF ms, es, f, g
  <2>10. \A k \in StreamKeys : r[key][k] = Field(ms, k)
    BY <2>3, <2>8 DEF Wire
  <2>11. Field(es, "signal") = Null /\ Field(ms, "signal") = Null
    BY <2>3, <2>7, NoSignalField
  <2>12. \A k \in StreamKeys \cup {"signal"} : Field(es, k) = Field(ms, k)
    BY <2>7, <2>10, <2>11
  <2>13. Unique(es)
    BY <2>7 DEF Unique
  <2>14. Said(es) = Said(ms)
    BY <2>3, <2>7, <2>12, <2>13, SaidSame
  <2> QED BY <1>4, <2>1, <2>3, <2>5, <2>9, <2>14 DEF ms, es
<1>8. LET key == "interruption"
      IN  /\ Field(E, key) # Null <=> Field(object, key) # Null
          /\ Field(E, key) # Null =>
                Said(Field(E, key).members) = Said(Field(object, key).members)
  <2> DEFINE key == "interruption"
             ms == Field(object, key).members
             es == SignalObject(r.interruption).members
  <2>1. key \in ObjectKeys /\ key \in Keys
    BY KeysOfRecord DEF ObjectKeys
  <2>2. /\ ObjectField(object, key) = Null <=> Field(object, key) = Null
        /\ Field(object, key) # Null =>
              ObjectField(object, key) = ms /\ ms \in Seq(Known(key)) /\ Unique(ms)
    BY <1>1, <1>2, <2>1, OneObject
  <2>3. r.interruption = InterruptionSignal(ObjectField(object, key))
    BY <1>2 DEF Understood
  <2>4. g[key] = Null <=> r.interruption = Null
    BY <1>3, <2>1, FieldValues
  <2>5. r.interruption # Null => g[key] = SignalObject(r.interruption)
    BY <2>1 DEF EncodedFields
  <2>6. ObjectField(object, key) # Null => Field(ObjectField(object, key), "signal") # Null
    BY <1>2, <2>1, FoundIs DEF CompleteV2
  <2>7. r.interruption \in SignalNames \cup {Null}
    BY <1>2 DEF RecordTyped
  <2>8. CASE r.interruption = Null
    <3>1. ObjectField(object, key) = Null
      BY <2>3, <2>6, <2>8 DEF InterruptionSignal
    <3> QED BY <1>4, <2>1, <2>2, <2>4, <2>8, <3>1
  <2>9. CASE r.interruption # Null
    <3>1. /\ es \in Seq(Known("interruption")) /\ Field(es, "signal") = r.interruption
          /\ \A i \in 1 .. Len(es) : i = 1
      BY <2>7, <2>9, SignalMembers
    <3>2. Field(E, key) = SignalObject(r.interruption) /\ Field(E, key) # Null
      BY <1>4, <2>1, <2>4, <2>5, <2>9
    <3>3. ObjectField(object, key) # Null
      BY <2>3, <2>9 DEF InterruptionSignal
    <3>4. /\ Field(object, key) # Null /\ ObjectField(object, key) = ms
          /\ ms \in Seq(Known(key)) /\ Unique(ms)
      BY <2>2, <3>3
    <3>5. Field(ms, "signal") = r.interruption
      BY <2>3, <3>3, <3>4 DEF InterruptionSignal
    <3> HIDE DEF ms, es
    <3>6. \A k \in StreamKeys \cup {"signal"} : Field(es, k) = Field(ms, k)
      BY <3>1, <3>4, <3>5, OnlySignalField
    <3>7. Unique(es)
      BY <3>1 DEF Unique
    <3>8. Said(es) = Said(ms)
      BY <3>1, <3>4, <3>6, <3>7, SaidSame
    <3> QED BY <3>2, <3>4, <3>8 DEF ms, es
  <2> QED BY <2>8, <2>9
<1>9. ASSUME NEW key \in Keys
      PROVE  /\ key \in Told(E) <=> key \in Told(object)
             /\ key \in Told(E) => SaysOf(E, key) = SaysOf(object, key)
  <2> DEFINE a == Field(E, key)
             b == Field(object, key)
  <2>1. \A k \in ObjectKeys : k # "runprint_version" /\ k # "git"
    BY DEF ObjectKeys
  <2>2. Null # "empty" /\ Null # "good"
    BY NoValue DEF Absent, Words, Commands
  <2>3. CASE key \in Keys \ (ObjectKeys \cup OptionalMetadata)
    <3>1. a = b
      BY <1>2, <1>6, <2>3 DEF Understood
    <3>2. key # "git" /\ key # "runprint_version" /\ key \notin ObjectKeys
      BY <2>3 DEF OptionalMetadata
    <3> QED BY <3>1, <3>2 DEF SaysOf, Told
  <2>4. CASE key \in {"stdout", "stderr"}
    BY <1>7, <2>1, <2>4 DEF SaysOf, Told, ObjectKeys
  <2>5. CASE key = "interruption"
    BY <1>8, <2>1, <2>5 DEF SaysOf, Told, ObjectKeys
  <2>6. CASE key = "runprint_version"
    <3>1. a = WithoutEmpty(b, Null) /\ key \notin ObjectKeys /\ key # "git"
      BY <1>2, <1>6, <2>1, <2>6 DEF Understood
    <3> HIDE DEF a, b
    <3>2. a # Null /\ a # "empty" <=> b # Null /\ b # "empty"
      BY <2>2, <3>1 DEF WithoutEmpty
    <3>3. b # Null /\ b # "empty" => a = b
      BY <3>1 DEF WithoutEmpty
    <3> QED BY <2>6, <3>1, <3>2, <3>3 DEF SaysOf, Told, a, b
  <2>7. CASE key = "git"
    <3>1. a = WithoutEmpty(b, "good") /\ key \notin ObjectKeys /\ key # "runprint_version"
      BY <1>2, <1>6, <2>1, <2>7 DEF Understood
    <3> HIDE DEF a, b
    <3>2. a # Null <=> b # Null
      BY <2>2, <3>1 DEF WithoutEmpty
    <3>3. WithoutEmpty(a, "good") = WithoutEmpty(b, "good")
      BY <3>1 DEF WithoutEmpty
    <3> QED BY <2>7, <3>1, <3>2, <3>3 DEF SaysOf, Told, a, b
  <2> QED BY <2>3, <2>4, <2>5, <2>6, <2>7 DEF ObjectKeys, OptionalMetadata
<1>10. Content(E) = Content(object)
  <2>1. Told(E) = Told(object)
    <3>1. \A key : key \in Told(E) <=> key \in Told(object)
      BY <1>9 DEF Told
    <3> QED BY <3>1
  <2>2. \A key \in Told(E) : SaysOf(E, key) = SaysOf(object, key)
    BY <1>9 DEF Told
  <2> QED BY <1>4, <1>5, <2>1, <2>2, ContentSame
<1> QED BY <1>3, <1>10 DEF r, E

(* A v2 file that is accepted and spelled as the schema spells it says     *)
(* what the reader understands, whatever edits it went through: the record *)
(* read is encoded as the same fields with the same values but the empty   *)
(* strings of optional fields, and would be written, given a producer and  *)
(* the room (decodeV2, Validate, WriteFile).                               *)
THEOREM AcceptedFilesSayWhatTheyMean == Spec => []AcceptedSaysWhatItMeans
<1>1. ASSUME RecordInv, file # Null, SchemaSpelling(file),
             Decode(file) # Null, Decode(file).version = CurrentVersion
      PROVE  /\ Content(Encode(Decode(file))) = Content(file)
             /\ Decode(file).runprint_version # Null /\ FitsLimit(Decode(file)) =>
                   Writable(Decode(file))
  <2>1. file \in Seq(Outer)
    BY <1>1 DEF RecordInv, FileInv
  <2>2. GoodRecord(Decode(file)) /\ Content(Encode(Decode(file))) = Content(file)
    BY <1>1, <2>1, SaysWhatItMeans
  <2> QED BY <2>2, GoodIsWritable
<1>2. RecordInv => AcceptedSaysWhatItMeans
  BY <1>1 DEF AcceptedSaysWhatItMeans, Means
<1> QED BY <1>2, RecordInvariant, PTL
=============================================================================
