---------------------------- MODULE ReadingProofs ----------------------------
(***************************************************************************)
(* Proofs about Reading for every argument, string and text; the one about *)
(* a Markdown page is in MarkdownProofs.                                   *)
(***************************************************************************)
EXTENDS Reading, Utf8BoundaryProofs
LOCAL INSTANCE SequencesExt

-----------------------------------------------------------------------------
(***************************************************************************)
(* The scan of a JSON string.                                              *)
(***************************************************************************)
LEMMA Surrogates ==
    /\ High \cap Low = {} /\ NoValue \notin High \cup Low
    /\ 0 .. 255 \cap (High \cup Low \cup {NoValue}) = {}
    /\ High \cup Low \subseteq Nat
BY DEF High, Low, NoValue

LEMMA HexFits ==
    ASSUME NEW data, NEW start
    PROVE  DecodeHex4(data, start) # NoValue => ~(start + 3 > Len(data))
BY DEF DecodeHex4

LEMMA WidthFits ==
    ASSUME NEW data, Len(data) \in Nat, NEW i \in 1 .. Len(data)
    PROVE  /\ Width(data, i) \in {0, 1, 2, 6, 12}
           /\ i + Width(data, i) <= Len(data) + 1
<1> DEFINE value == DecodeHex4(data, i + 2)
<1>1. value # NoValue => i + 5 <= Len(data)
  <2>1. value # NoValue => ~(i + 2 + 3 > Len(data))
    BY HexFits
  <2> HIDE DEF value
  <2> QED BY <2>1
<1> HIDE DEF value
<1>2. EscapeWidth(data, i) = CASE value \in High -> IF Paired(data, i) THEN 12 ELSE 0
                               [] value \in Low \cup {NoValue} -> 0
                               [] OTHER -> 6
  BY DEF EscapeWidth, value
<1>3. /\ EscapeWidth(data, i) \in {0, 6, 12}
      /\ EscapeWidth(data, i) = 12 => Paired(data, i)
      /\ EscapeWidth(data, i) = 6 => value # NoValue
  <2>1. CASE value \in High
    BY <1>2, <2>1
  <2>2. CASE value \in Low \cup {NoValue}
    <3>1. value \notin High
      BY <2>2, Surrogates
    <3> QED BY <1>2, <2>2, <3>1
  <2>3. CASE value \notin High /\ value \notin Low \cup {NoValue}
    BY <1>2, <2>3
  <2> QED BY <2>1, <2>2, <2>3
<1>4. i + EscapeWidth(data, i) <= Len(data) + 1
  <2>1. Paired(data, i) => i + 11 <= Len(data)
    BY DEF Paired
  <2> QED BY <1>1, <1>3, <2>1
<1> QED BY <1>3, <1>4 DEF Width

(* ScanAccepts, as a function of the position it has reached.              *)
ScanRest(data, from, i) ==
    [quoted \in BOOLEAN |->
        IF i > Len(data) THEN ~quoted
        ELSE IF ~quoted THEN from[i + 1][data[i] = Quote]
        ELSE IF data[i] = Quote THEN from[i + 1][FALSE]
        ELSE Width(data, i) # 0 /\ from[i + Width(data, i)][TRUE]]

ScanFrom(data) == CHOOSE from : from = [i \in 1 .. Len(data) + 1 |-> ScanRest(data, from, i)]

LEMMA ScanRestSame ==
    ASSUME NEW data, Len(data) \in Nat, NEW i \in 1 .. Len(data) + 1, NEW f, NEW g,
           \A j \in i + 1 .. Len(data) + 1 : f[j] = g[j]
    PROVE  ScanRest(data, f, i) = ScanRest(data, g, i)
<1>1. CASE i > Len(data)
  BY <1>1 DEF ScanRest
<1>2. CASE i <= Len(data)
  <2> DEFINE w == Width(data, i)
  <2>1. w \in Nat /\ i + w <= Len(data) + 1 /\ i + 1 \in i + 1 .. Len(data) + 1
    BY <1>2, WidthFits
  <2> HIDE DEF w
  <2>2. w # 0 => f[i + w] = g[i + w]
    BY <2>1
  <2>3. f[i + 1] = g[i + 1]
    BY <2>1
  <2> QED BY <2>2, <2>3 DEF ScanRest, w
<1> QED BY <1>1, <1>2

LEMMA ScanUnfolds ==
    ASSUME NEW data, Len(data) \in Nat
    PROVE  /\ ScanAccepts(data) = ScanFrom(data)[1][FALSE]
           /\ \A i \in 1 .. Len(data) + 1 : ScanFrom(data)[i] = ScanRest(data, ScanFrom(data), i)
<1> DEFINE n == Len(data) + 1
           Is(f, k) == f = [i \in n + 1 - k .. n |-> ScanRest(data, f, i)]
           G == {k \in Nat : k <= n => \E f : Is(f, k)}
<1>1. 0 \in G
  <2> DEFINE none == [i \in {} |-> 1]
  <2>1. Is(none, 0)
    OBVIOUS
  <2> HIDE DEF none
  <2> QED BY <2>1
<1>2. ASSUME NEW k \in Nat, k \in G PROVE k + 1 \in G
  <2> SUFFICES ASSUME k + 1 <= n PROVE \E f : Is(f, k + 1)
    OBVIOUS
  <2>1. PICK f : Is(f, k)
    BY <1>2
  <2> DEFINE h == n - k
             more == [i \in h .. n |-> IF i > h THEN f[i] ELSE ScanRest(data, f, i)]
  <2>2. /\ h \in 1 .. n /\ n + 1 - k = h + 1 /\ n + 1 - (k + 1) = h
        /\ \A i \in h + 1 .. n : more[i] = f[i]
    OBVIOUS
  <2>3. ASSUME NEW i \in h .. n PROVE ScanRest(data, f, i) = ScanRest(data, more, i)
    <3>1. i \in 1 .. Len(data) + 1 /\ \A j \in i + 1 .. Len(data) + 1 : f[j] = more[j]
      BY <2>2
    <3> HIDE DEF more, n
    <3> QED BY <3>1, ScanRestSame
  <2>4. \A i \in h + 1 .. n : f[i] = ScanRest(data, f, i)
    <3>1. f = [i \in h + 1 .. n |-> ScanRest(data, f, i)]
      BY <2>1, <2>2
    <3> QED BY <3>1
  <2>5. more = [i \in h .. n |-> ScanRest(data, more, i)]
    <3>1. \A i \in h .. n : (IF i > h THEN f[i] ELSE ScanRest(data, f, i)) = ScanRest(data, f, i)
      BY <2>4
    <3>2. more = [i \in h .. n |-> ScanRest(data, f, i)]
      BY <3>1
    <3> HIDE DEF more, h, n
    <3> QED BY <2>3, <3>2
  <2>6. Is(more, k + 1)
    <3> HIDE DEF more
    <3> QED BY <2>2, <2>5
  <2> HIDE DEF more, Is
  <2> QED BY <2>6
<1>3. \E f : f = [i \in 1 .. n |-> ScanRest(data, f, i)]
  <2>1. Nat \subseteq G
    <3> HIDE DEF G
    <3> QED BY <1>1, <1>2, Induction
  <2>2. n \in Nat /\ n + 1 - n = 1
    OBVIOUS
  <2>3. \E f : Is(f, n)
    <3> HIDE DEF Is
    <3> QED BY <2>1, <2>2
  <2> QED BY <2>2, <2>3
<1>4. ScanFrom(data) = [i \in 1 .. n |-> ScanRest(data, ScanFrom(data), i)]
  BY <1>3 DEF ScanFrom
<1>5. ScanAccepts(data) = ScanFrom(data)[1][FALSE]
  BY DEF ScanAccepts, ScanFrom, ScanRest
<1> QED BY <1>4, <1>5

-----------------------------------------------------------------------------
(* CodeUnits, as a function of the position it begins at.                  *)
SimpleEscapes == {34, 92, 47, 98, 102, 110, 114, 116}

UnitsRest(body, from, i) ==
    IF i > Len(body) THEN <<>>
    ELSE IF body[i] \notin {Quote, Backslash} THEN <<body[i]>> \o from[i + 1]
    ELSE IF Escaped(body, i, SimpleEscapes) THEN <<body[i + 1]>> \o from[i + 2]
    ELSE IF Escaped(body, i, {LetterU}) /\ DecodeHex4(body, i + 2) # NoValue
    THEN <<DecodeHex4(body, i + 2)>> \o from[i + 6]
    ELSE <<NoValue>>

UnitsFrom(body) == CHOOSE from : from = [i \in 1 .. Len(body) + 1 |-> UnitsRest(body, from, i)]

(* The four ways a string goes on, and the one in which it is none.        *)
PlainAt(body, i) == i <= Len(body) /\ body[i] \notin {Quote, Backslash}
SimpleAt(body, i) == i <= Len(body) /\ Escaped(body, i, SimpleEscapes)
HexAt(body, i) ==
    i <= Len(body) /\ Escaped(body, i, {LetterU}) /\ DecodeHex4(body, i + 2) # NoValue

LEMMA UnitsRestIs ==
    ASSUME NEW body, Len(body) \in Nat, NEW i \in Nat, NEW f
    PROVE  /\ i > Len(body) => UnitsRest(body, f, i) = <<>>
           /\ PlainAt(body, i) => UnitsRest(body, f, i) = <<body[i]>> \o f[i + 1]
           /\ SimpleAt(body, i) => UnitsRest(body, f, i) = <<body[i + 1]>> \o f[i + 2]
           /\ HexAt(body, i) =>
                UnitsRest(body, f, i) = <<DecodeHex4(body, i + 2)>> \o f[i + 6]
           /\ i <= Len(body) /\ ~PlainAt(body, i) /\ ~SimpleAt(body, i) /\ ~HexAt(body, i)
                => UnitsRest(body, f, i) = <<NoValue>>
<1>1. PlainAt(body, i) => i <= Len(body) /\ body[i] \notin {Quote, Backslash}
  BY DEF PlainAt
<1>2. SimpleAt(body, i) =>
        i <= Len(body) /\ body[i] \in {Quote, Backslash} /\ Escaped(body, i, SimpleEscapes)
  BY DEF SimpleAt, Escaped
<1>3. HexAt(body, i) =>
        /\ i <= Len(body) /\ body[i] \in {Quote, Backslash}
        /\ Escaped(body, i, {LetterU}) /\ DecodeHex4(body, i + 2) # NoValue
        /\ ~Escaped(body, i, SimpleEscapes)
  BY DEF HexAt, Escaped, SimpleEscapes, LetterU
<1> HIDE DEF PlainAt, SimpleAt, HexAt
<1>4. i <= Len(body) <=> ~(i > Len(body))
  OBVIOUS
<1>5. i > Len(body) => UnitsRest(body, f, i) = <<>>
  BY Zenon DEF UnitsRest
<1>6. PlainAt(body, i) => UnitsRest(body, f, i) = <<body[i]>> \o f[i + 1]
  BY Zenon, <1>1, <1>4 DEF UnitsRest
<1>7. SimpleAt(body, i) => UnitsRest(body, f, i) = <<body[i + 1]>> \o f[i + 2]
  BY Zenon, <1>2, <1>4 DEF UnitsRest
<1>8. HexAt(body, i) => UnitsRest(body, f, i) = <<DecodeHex4(body, i + 2)>> \o f[i + 6]
  BY Zenon, <1>3, <1>4 DEF UnitsRest
<1>9. i <= Len(body) /\ ~PlainAt(body, i) /\ ~SimpleAt(body, i) /\ ~HexAt(body, i)
        => UnitsRest(body, f, i) = <<NoValue>>
  BY Zenon, <1>4 DEF UnitsRest, PlainAt, SimpleAt, HexAt
<1> QED BY <1>5, <1>6, <1>7, <1>8, <1>9

LEMMA UnitsRestSame ==
    ASSUME NEW body, Len(body) \in Nat, NEW i \in 1 .. Len(body) + 1, NEW f, NEW g,
           \A j \in i + 1 .. Len(body) + 1 : f[j] = g[j]
    PROVE  UnitsRest(body, f, i) = UnitsRest(body, g, i)
<1>0. i \in Nat
  OBVIOUS
<1>1. CASE i > Len(body)
  BY Zenon, <1>0, <1>1, UnitsRestIs
<1>2. CASE PlainAt(body, i)
  <2>1. i + 1 \in i + 1 .. Len(body) + 1
    BY <1>2 DEF PlainAt
  <2> QED BY Zenon, <1>0, <1>2, <2>1, UnitsRestIs
<1>3. CASE SimpleAt(body, i)
  <2>1. i + 2 \in i + 1 .. Len(body) + 1
    BY <1>3 DEF SimpleAt, Escaped
  <2> QED BY Zenon, <1>0, <1>3, <2>1, UnitsRestIs
<1>4. CASE HexAt(body, i)
  <2>1. ~(i + 2 + 3 > Len(body))
    BY <1>4, HexFits DEF HexAt
  <2>2. i + 6 \in i + 1 .. Len(body) + 1
    BY <2>1
  <2> QED BY Zenon, <1>0, <1>4, <2>2, UnitsRestIs
<1>5. CASE i <= Len(body) /\ ~PlainAt(body, i) /\ ~SimpleAt(body, i) /\ ~HexAt(body, i)
  BY Zenon, <1>0, <1>5, UnitsRestIs
<1> QED BY <1>1, <1>2, <1>3, <1>4, <1>5

LEMMA CodeUnitsUnfold ==
    ASSUME NEW body, Len(body) \in Nat
    PROVE  /\ CodeUnits(body) = UnitsFrom(body)[1]
           /\ \A i \in 1 .. Len(body) + 1 :
                  UnitsFrom(body)[i] = UnitsRest(body, UnitsFrom(body), i)
<1> DEFINE n == Len(body) + 1
           Is(f, k) == f = [i \in n + 1 - k .. n |-> UnitsRest(body, f, i)]
           G == {k \in Nat : k <= n => \E f : Is(f, k)}
<1>1. 0 \in G
  <2> DEFINE none == [i \in {} |-> 1]
  <2>1. Is(none, 0)
    OBVIOUS
  <2> HIDE DEF none
  <2> QED BY <2>1
<1>2. ASSUME NEW k \in Nat, k \in G PROVE k + 1 \in G
  <2> SUFFICES ASSUME k + 1 <= n PROVE \E f : Is(f, k + 1)
    OBVIOUS
  <2>1. PICK f : Is(f, k)
    BY <1>2
  <2> DEFINE h == n - k
             more == [i \in h .. n |-> IF i > h THEN f[i] ELSE UnitsRest(body, f, i)]
  <2>2. /\ h \in 1 .. n /\ n + 1 - k = h + 1 /\ n + 1 - (k + 1) = h
        /\ \A i \in h + 1 .. n : more[i] = f[i]
    OBVIOUS
  <2>3. ASSUME NEW i \in h .. n PROVE UnitsRest(body, f, i) = UnitsRest(body, more, i)
    <3>1. i \in 1 .. Len(body) + 1 /\ \A j \in i + 1 .. Len(body) + 1 : f[j] = more[j]
      BY <2>2
    <3> HIDE DEF more, n
    <3> QED BY <3>1, UnitsRestSame
  <2>4. \A i \in h + 1 .. n : f[i] = UnitsRest(body, f, i)
    <3>1. f = [i \in h + 1 .. n |-> UnitsRest(body, f, i)]
      BY <2>1, <2>2
    <3> QED BY <3>1
  <2>5. more = [i \in h .. n |-> UnitsRest(body, more, i)]
    <3>1. \A i \in h .. n : (IF i > h THEN f[i] ELSE UnitsRest(body, f, i)) = UnitsRest(body, f, i)
      BY <2>4
    <3>2. more = [i \in h .. n |-> UnitsRest(body, f, i)]
      BY <3>1
    <3> HIDE DEF more, h, n
    <3> QED BY <2>3, <3>2
  <2>6. Is(more, k + 1)
    <3> HIDE DEF more
    <3> QED BY <2>2, <2>5
  <2> HIDE DEF more, Is
  <2> QED BY <2>6
<1>3. \E f : f = [i \in 1 .. n |-> UnitsRest(body, f, i)]
  <2>1. Nat \subseteq G
    <3> HIDE DEF G
    <3> QED BY <1>1, <1>2, Induction
  <2>2. n \in Nat /\ n + 1 - n = 1
    OBVIOUS
  <2>3. \E f : Is(f, n)
    <3> HIDE DEF Is
    <3> QED BY <2>1, <2>2
  <2> QED BY <2>2, <2>3
<1>4. UnitsFrom(body) = [i \in 1 .. n |-> UnitsRest(body, UnitsFrom(body), i)]
  BY <1>3 DEF UnitsFrom
<1>5. CodeUnits(body) = UnitsFrom(body)[1]
  BY DEF CodeUnits, UnitsFrom, UnitsRest, SimpleEscapes
<1> QED BY <1>4, <1>5

LEMMA UnitsAt ==
    ASSUME NEW body, Len(body) \in Nat, NEW i \in 1 .. Len(body) + 1
    PROVE  LET C == UnitsFrom(body)
           IN  /\ i > Len(body) => C[i] = <<>>
               /\ PlainAt(body, i) => C[i] = <<body[i]>> \o C[i + 1]
               /\ SimpleAt(body, i) => C[i] = <<body[i + 1]>> \o C[i + 2]
               /\ HexAt(body, i) => C[i] = <<DecodeHex4(body, i + 2)>> \o C[i + 6]
               /\ i <= Len(body) /\ ~PlainAt(body, i) /\ ~SimpleAt(body, i) /\ ~HexAt(body, i)
                    => C[i] = <<NoValue>>
<1> DEFINE C == UnitsFrom(body)
<1>1. C[i] = UnitsRest(body, C, i) /\ i \in Nat
  BY CodeUnitsUnfold
<1> HIDE DEF C
<1>2. /\ i > Len(body) => UnitsRest(body, C, i) = <<>>
      /\ PlainAt(body, i) => UnitsRest(body, C, i) = <<body[i]>> \o C[i + 1]
      /\ SimpleAt(body, i) => UnitsRest(body, C, i) = <<body[i + 1]>> \o C[i + 2]
      /\ HexAt(body, i) => UnitsRest(body, C, i) = <<DecodeHex4(body, i + 2)>> \o C[i + 6]
      /\ i <= Len(body) /\ ~PlainAt(body, i) /\ ~SimpleAt(body, i) /\ ~HexAt(body, i)
           => UnitsRest(body, C, i) = <<NoValue>>
  BY <1>1, UnitsRestIs
<1> QED BY <1>1, <1>2 DEF C

LEMMA HexTyped == ASSUME NEW data, NEW start PROVE DecodeHex4(data, start) \in Int
<1> DEFINE d(k) == HexDigit(data[start + k])
<1>1. \A byte : HexDigit(byte) \in Int
  BY DEF HexDigit, NoValue
<1>2. d(0) \in Int /\ d(1) \in Int /\ d(2) \in Int /\ d(3) \in Int
  BY <1>1
<1>3. DecodeHex4(data, start) = IF start + 3 > Len(data) \/ \E k \in 0 .. 3 : d(k) = NoValue
                                THEN NoValue ELSE ((d(0) * 16 + d(1)) * 16 + d(2)) * 16 + d(3)
  BY DEF DecodeHex4
<1> HIDE DEF d
<1>4. ((d(0) * 16 + d(1)) * 16 + d(2)) * 16 + d(3) \in Int /\ NoValue \in Int
  BY <1>2 DEF NoValue
<1> QED BY <1>3, <1>4

LEMMA ElementsOf ==
    ASSUME NEW D, NEW s \in Seq(D)
    PROVE  Len(s) \in Nat /\ \A i \in 1 .. Len(s) : s[i] \in D
OBVIOUS

LEMMA ConsIs ==
    ASSUME NEW D, NEW v \in D, NEW u \in Seq(D)
    PROVE  LET w == <<v>> \o u
           IN  /\ w \in Seq(D) /\ Len(w) = Len(u) + 1 /\ w[1] = v
               /\ \A k \in 1 .. Len(u) : w[k + 1] = u[k]
OBVIOUS

LEMMA CodeUnitsTyped ==
    ASSUME NEW body \in Seq(0 .. 255)
    PROVE  \A i \in 1 .. Len(body) + 1 : UnitsFrom(body)[i] \in Seq(Int)
<1> DEFINE C == UnitsFrom(body)
           n == Len(body)
           G == {k \in Nat : \A i \in 1 .. n + 1 : i + k > n => C[i] \in Seq(Int)}
<1>1. n \in Nat /\ \A i \in 1 .. n : body[i] \in Int
  <2>1. Len(body) \in Nat /\ \A i \in 1 .. Len(body) : body[i] \in 0 .. 255
    BY ElementsOf
  <2>2. \A b \in 0 .. 255 : b \in Int
    OBVIOUS
  <2> QED BY <2>1, <2>2
<1>2. \A i \in 1 .. n + 1 : C[i] = UnitsRest(body, C, i)
  BY <1>1, CodeUnitsUnfold
<1> HIDE DEF C
<1>3. 0 \in G
  <2>1. ASSUME NEW i \in 1 .. n + 1, i + 0 > n PROVE C[i] \in Seq(Int)
    <3>1. i > Len(body) /\ i \in Nat
      BY <2>1
    <3>2. C[i] = <<>>
      BY <1>1, <1>2, <3>1, UnitsRestIs
    <3> QED BY <3>2
  <2> QED BY <2>1
<1>4. ASSUME NEW k \in Nat, k \in G PROVE k + 1 \in G
  <2>1. ASSUME NEW i \in 1 .. n + 1, i + (k + 1) > n PROVE C[i] \in Seq(Int)
    <3>1. \A j \in i + 1 .. n + 1 : C[j] \in Seq(Int)
      <4>1. \A j \in i + 1 .. n + 1 : j \in 1 .. n + 1 /\ j + k > n
        BY <1>1, <2>1
      <4> QED BY <1>4, <4>1
    <3>2. i \in Nat /\ C[i] = UnitsRest(body, C, i)
      BY <1>2
    <3>3. \A v \in Int : \A u \in Seq(Int) : <<v>> \o u \in Seq(Int)
      OBVIOUS
    <3> HIDE DEF G
    <3>4. CASE i > n
      <4>1. C[i] = <<>>
        BY <1>1, <3>2, <3>4, UnitsRestIs
      <4> QED BY <4>1
    <3>5. CASE PlainAt(body, i)
      <4>1. body[i] \in Int /\ i + 1 \in i + 1 .. n + 1
        BY <1>1, <3>5 DEF PlainAt
      <4>2. C[i] = <<body[i]>> \o C[i + 1]
        BY <1>1, <3>2, <3>5, UnitsRestIs
      <4> QED BY <3>1, <3>3, <4>1, <4>2
    <3>6. CASE SimpleAt(body, i)
      <4>1. body[i + 1] \in Int /\ i + 2 \in i + 1 .. n + 1
        BY <1>1, <3>6 DEF SimpleAt, Escaped
      <4>2. C[i] = <<body[i + 1]>> \o C[i + 2]
        BY <1>1, <3>2, <3>6, UnitsRestIs
      <4> QED BY <3>1, <3>3, <4>1, <4>2
    <3>7. CASE HexAt(body, i)
      <4>1. ~(i + 2 + 3 > n) /\ DecodeHex4(body, i + 2) \in Int
        BY <3>7, HexFits, HexTyped DEF HexAt
      <4>2. i + 6 \in i + 1 .. n + 1
        BY <1>1, <4>1
      <4>3. C[i] = <<DecodeHex4(body, i + 2)>> \o C[i + 6]
        BY <1>1, <3>2, <3>7, UnitsRestIs
      <4> QED BY <3>1, <3>3, <4>1, <4>2, <4>3
    <3>8. CASE i <= n /\ ~PlainAt(body, i) /\ ~SimpleAt(body, i) /\ ~HexAt(body, i)
      <4>1. C[i] = <<NoValue>>
        BY <1>1, <3>2, <3>8, UnitsRestIs
      <4>2. NoValue \in Int
        BY DEF NoValue
      <4> QED BY <4>1, <4>2
    <3> QED BY <1>1, <3>4, <3>5, <3>6, <3>7, <3>8
  <2> QED BY <2>1
<1>5. Nat \subseteq G
  <2> HIDE DEF G
  <2> QED BY <1>3, <1>4, Induction
<1>6. n \in G
  <2> HIDE DEF G
  <2> QED BY <1>1, <1>5
<1>7. \A i \in 1 .. n + 1 : i + n > n
  BY <1>1
<1> QED BY <1>6, <1>7 DEF C

(* A unit in front of others, and a pair of surrogates.                    *)
AllPaired(units) == \A k \in 1 .. Len(units) : ~Unpaired(units, k)

LEMMA UnpairedShifts ==
    ASSUME NEW u \in Seq(Int), NEW v \in Int, NEW k \in 1 .. Len(u), v \notin High \/ k > 1
    PROVE  Unpaired(<<v>> \o u, k + 1) <=> Unpaired(u, k)
<1> DEFINE w == <<v>> \o u
<1>1. /\ Len(w) = Len(u) + 1 /\ w[1] = v
      /\ \A j \in 1 .. Len(u) : w[j + 1] = u[j]
  BY ConsIs
<1> HIDE DEF w
<1>2. k + 1 < Len(w) <=> k < Len(u)
  BY <1>1
<1>3. w[k + 1] = u[k] /\ (k < Len(u) => w[k + 2] = u[k + 1])
  <2>1. k < Len(u) => k + 1 \in 1 .. Len(u) /\ (k + 1) + 1 = k + 2
    OBVIOUS
  <2> QED BY <1>1, <2>1
<1>4. (k + 1 > 1 /\ w[k] \in High) <=> (k > 1 /\ u[k - 1] \in High)
  <2>1. CASE k = 1
    <3>1. w[k] = v
      BY <1>1, <2>1
    <3> QED BY <2>1, <3>1
  <2>2. CASE k > 1
    <3>1. k - 1 \in 1 .. Len(u) /\ (k - 1) + 1 = k
      BY <2>2
    <3>2. w[(k - 1) + 1] = u[k - 1]
      BY <1>1, <3>1
    <3>3. w[k] = u[k - 1] /\ k + 1 > 1
      BY <3>1, <3>2
    <3> QED BY <2>2, <3>3
  <2> QED BY <2>1, <2>2
<1>5. (k + 1) + 1 = k + 2 /\ (k + 1) - 1 = k
  OBVIOUS
<1> QED BY <1>2, <1>3, <1>4, <1>5 DEF Unpaired, w

LEMMA PlainUnit ==
    ASSUME NEW u \in Seq(Int), NEW v \in Int, v \notin High \cup Low
    PROVE  AllPaired(<<v>> \o u) <=> AllPaired(u)
<1> DEFINE w == <<v>> \o u
<1>1. Len(w) = Len(u) + 1 /\ w[1] = v /\ Len(u) \in Nat
  BY ConsIs
<1>2. \A k \in 1 .. Len(u) : Unpaired(w, k + 1) <=> Unpaired(u, k)
  BY UnpairedShifts
<1>3. ~Unpaired(w, 1)
  BY <1>1 DEF Unpaired
<1> HIDE DEF w
<1>4. \A k \in 1 .. Len(w) : k = 1 \/ (k - 1 \in 1 .. Len(u) /\ (k - 1) + 1 = k)
  BY <1>1
<1>5. \A k \in 1 .. Len(u) : k + 1 \in 1 .. Len(w)
  BY <1>1
<1>6. AllPaired(w) => AllPaired(u)
  BY <1>2, <1>5 DEF AllPaired
<1>7. AllPaired(u) => AllPaired(w)
  <2> SUFFICES ASSUME AllPaired(u), NEW k \in 1 .. Len(w) PROVE ~Unpaired(w, k)
    BY DEF AllPaired
  <2>1. CASE k = 1
    BY <1>3, <2>1
  <2>2. CASE k # 1
    <3>1. k - 1 \in 1 .. Len(u) /\ (k - 1) + 1 = k
      BY <1>4, <2>2
    <3> QED BY <1>2, <3>1 DEF AllPaired
  <2> QED BY <2>1, <2>2
<1> QED BY <1>6, <1>7 DEF w

LEMMA PairOfUnits ==
    ASSUME NEW u \in Seq(Int), NEW high \in High, NEW low \in Low
    PROVE  AllPaired(<<high>> \o (<<low>> \o u)) <=> AllPaired(u)
<1> DEFINE w == <<low>> \o u
           x == <<high>> \o w
<1>1. high \in Int /\ low \in Int /\ low \notin High /\ high \notin Low
  <2>1. high \in Nat /\ low \in Nat
    BY Surrogates
  <2>2. low \notin High /\ high \notin Low
    BY Surrogates
  <2> QED BY <2>1, <2>2
<1>2. /\ w \in Seq(Int) /\ Len(w) = Len(u) + 1 /\ w[1] = low
      /\ Len(u) \in Nat
  BY <1>1, ConsIs
<1>3. \A k \in 1 .. Len(u) : Unpaired(w, k + 1) <=> Unpaired(u, k)
  BY <1>1, UnpairedShifts
<1> HIDE DEF w
<1>4. Len(x) = Len(w) + 1 /\ x[1] = high /\ x[2] = low
  <2>1. Len(x) = Len(w) + 1 /\ x[1] = high /\ \A k \in 1 .. Len(w) : x[k + 1] = w[k]
    BY <1>1, <1>2, ConsIs
  <2>2. 1 \in 1 .. Len(w) /\ 1 + 1 = 2
    BY <1>2
  <2> HIDE DEF x
  <2> QED BY <1>2, <2>1, <2>2
<1>5. \A k \in 1 .. Len(w) : k > 1 => (Unpaired(x, k + 1) <=> Unpaired(w, k))
  BY <1>1, <1>2, UnpairedShifts
<1> HIDE DEF x
<1>6. ~Unpaired(x, 1) /\ ~Unpaired(x, 2)
  BY <1>1, <1>2, <1>4 DEF Unpaired
<1>7. ASSUME NEW k \in 1 .. Len(u) PROVE Unpaired(x, k + 2) <=> Unpaired(u, k)
  <2>1. k + 1 \in 1 .. Len(w) /\ k + 1 > 1 /\ (k + 1) + 1 = k + 2
    BY <1>2
  <2> QED BY <1>3, <1>5, <2>1
<1>8. \A k \in 1 .. Len(x) : k \in {1, 2} \/ (k - 2 \in 1 .. Len(u) /\ (k - 2) + 2 = k)
  BY <1>2, <1>4
<1>9. \A k \in 1 .. Len(u) : k + 2 \in 1 .. Len(x)
  BY <1>2, <1>4
<1>10. AllPaired(x) => AllPaired(u)
  BY <1>7, <1>9 DEF AllPaired
<1>11. AllPaired(u) => AllPaired(x)
  <2> SUFFICES ASSUME AllPaired(u), NEW k \in 1 .. Len(x) PROVE ~Unpaired(x, k)
    BY DEF AllPaired
  <2>1. CASE k \in {1, 2}
    BY <1>6, <2>1
  <2>2. CASE k \notin {1, 2}
    <3>1. k - 2 \in 1 .. Len(u) /\ (k - 2) + 2 = k
      BY <1>8, <2>2
    <3> QED BY <1>7, <3>1 DEF AllPaired
  <2> QED BY <2>1, <2>2
<1> QED BY <1>10, <1>11 DEF w, x

-----------------------------------------------------------------------------
(* The scan and the code units of the same string.                         *)
Scans(data, S, i) ==
    /\ i > Len(data) => S[i][FALSE] = TRUE /\ S[i][TRUE] = FALSE
    /\ i <= Len(data) => S[i][FALSE] = S[i + 1][data[i] = Quote]
    /\ i <= Len(data) /\ data[i] = Quote => S[i][TRUE] = S[i + 1][FALSE]
    /\ i <= Len(data) /\ data[i] # Quote =>
          S[i][TRUE] = (Width(data, i) # 0 /\ S[i + Width(data, i)][TRUE])

LEMMA ScanStep ==
    ASSUME NEW data, Len(data) \in Nat, NEW i \in 1 .. Len(data) + 1
    PROVE  Scans(data, ScanFrom(data), i)
<1> DEFINE S == ScanFrom(data)
           w == Width(data, i)
<1>1. S[i] = ScanRest(data, S, i)
  BY ScanUnfolds
<1> HIDE DEF S, w
<1>2. \A q \in BOOLEAN :
        S[i][q] = IF i > Len(data) THEN ~q
                  ELSE IF ~q THEN S[i + 1][data[i] = Quote]
                  ELSE IF data[i] = Quote THEN S[i + 1][FALSE]
                  ELSE w # 0 /\ S[i + w][TRUE]
  BY <1>1 DEF ScanRest, w
<1>3. i <= Len(data) <=> ~(i > Len(data))
  OBVIOUS
<1> QED BY <1>2, <1>3 DEF Scans, S, w

LEMMA ScanBoolean ==
    ASSUME NEW data, Len(data) \in Nat
    PROVE  \A i \in 1 .. Len(data) + 1 : \A q \in BOOLEAN : ScanFrom(data)[i][q] \in BOOLEAN
<1> DEFINE S == ScanFrom(data)
           n == Len(data)
           G == {k \in Nat : \A i \in 1 .. n + 1 : i + k > n => \A q \in BOOLEAN : S[i][q] \in BOOLEAN}
<1>0. \A i \in 1 .. n + 1 : Scans(data, S, i)
  BY ScanStep
<1> HIDE DEF S
<1>1. 0 \in G
  <2>1. ASSUME NEW i \in 1 .. n + 1, i + 0 > n PROVE \A q \in BOOLEAN : S[i][q] \in BOOLEAN
    <3>1. i > n
      BY <2>1
    <3>2. S[i][FALSE] = TRUE /\ S[i][TRUE] = FALSE
      BY <1>0, <3>1 DEF Scans
    <3> QED BY <3>2
  <2> QED BY <2>1
<1>2. ASSUME NEW k \in Nat, k \in G PROVE k + 1 \in G
  <2>1. ASSUME NEW i \in 1 .. n + 1, i + (k + 1) > n PROVE \A q \in BOOLEAN : S[i][q] \in BOOLEAN
    <3>1. CASE i > n
      <4>1. S[i][FALSE] = TRUE /\ S[i][TRUE] = FALSE
        BY <1>0, <3>1 DEF Scans
      <4> QED BY <4>1
    <3>2. CASE i <= n
      <4>1. i + 1 \in 1 .. n + 1 /\ (i + 1) + k > n
        BY <2>1, <3>2
      <4>2. S[i + 1][TRUE] \in BOOLEAN /\ S[i + 1][FALSE] \in BOOLEAN
        BY <1>2, <4>1
      <4>3. S[i][FALSE] = S[i + 1][data[i] = Quote] /\ (data[i] = Quote) \in BOOLEAN
        BY <1>0, <3>2 DEF Scans
      <4>4. data[i] = Quote => S[i][TRUE] = S[i + 1][FALSE]
        BY <1>0, <3>2 DEF Scans
      <4>5. data[i] # Quote =>
              S[i][TRUE] = (Width(data, i) # 0 /\ S[i + Width(data, i)][TRUE])
        BY <1>0, <3>2 DEF Scans
      <4>6. S[i][FALSE] \in BOOLEAN
        BY <4>2, <4>3
      <4>7. S[i][TRUE] \in BOOLEAN
        BY <4>2, <4>4, <4>5
      <4> QED BY <4>6, <4>7
    <3> QED BY <3>1, <3>2
  <2> QED BY <2>1
<1>3. Nat \subseteq G
  <2> HIDE DEF G
  <2> QED BY <1>1, <1>2, Induction
<1>4. n \in G
  <2> HIDE DEF G
  <2> QED BY <1>3
<1>5. \A i \in 1 .. n + 1 : i + n > n
  OBVIOUS
<1> QED BY <1>4, <1>5 DEF S

QuotedString(body) == <<Quote>> \o body \o <<Quote>>

LEMMA QuotedIs ==
    ASSUME NEW body \in Seq(0 .. 255)
    PROVE  LET data == QuotedString(body)
           IN  /\ Len(data) = Len(body) + 2 /\ Len(data) \in Nat
               /\ data[1] = Quote /\ data[Len(body) + 2] = Quote
               /\ \A i \in 1 .. Len(body) : data[i + 1] = body[i]
<1> DEFINE first == <<Quote>> \o body
           data == first \o <<Quote>>
<1>1. Quote \in 0 .. 255 /\ <<Quote>> \in Seq(0 .. 255)
  BY DEF Quote
<1>2. /\ first \in Seq(0 .. 255) /\ Len(first) = Len(body) + 1 /\ first[1] = Quote
      /\ \A i \in 1 .. Len(body) : first[i + 1] = body[i]
  <2> HIDE DEF first
  <2> QED BY <1>1, ConsIs DEF first
<1>3. Len(body) \in Nat
  OBVIOUS
<1> HIDE DEF first
<1>4. Len(data) = Len(first) + 1 /\ data[Len(first) + 1] = Quote
      /\ \A i \in 1 .. Len(first) : data[i] = first[i]
  BY <1>1, <1>2
<1> HIDE DEF data
<1>5. Len(data) = Len(body) + 2 /\ Len(body) + 2 = Len(first) + 1 /\ 1 \in 1 .. Len(first)
  BY <1>2, <1>3, <1>4
<1>6. \A i \in 1 .. Len(body) : i + 1 \in 1 .. Len(first)
  BY <1>2, <1>3
<1>7. data[1] = Quote /\ data[Len(body) + 2] = Quote
  BY <1>2, <1>4, <1>5
<1>8. \A i \in 1 .. Len(body) : data[i + 1] = body[i]
  BY <1>2, <1>4, <1>6
<1> QED BY <1>3, <1>5, <1>7, <1>8 DEF QuotedString, data, first

LEMMA HexShifts ==
    ASSUME NEW body \in Seq(0 .. 255), NEW j \in 1 .. Len(body) + 1
    PROVE  DecodeHex4(QuotedString(body), j + 1) = DecodeHex4(body, j)
<1> DEFINE data == QuotedString(body)
           n == Len(body)
<1>1. /\ Len(data) = n + 2 /\ n \in Nat /\ data[n + 2] = Quote
      /\ \A i \in 1 .. n : data[i + 1] = body[i]
  BY QuotedIs
<1> HIDE DEF data
<1>2. CASE j + 3 <= n
  <2>1. ASSUME NEW k \in 0 .. 3 PROVE data[j + 1 + k] = body[j + k]
    <3>1. j + k \in 1 .. n /\ j + 1 + k = (j + k) + 1
      BY <1>1, <1>2
    <3> QED BY <1>1, <3>1
  <2>2. 0 \in 0 .. 3 /\ 1 \in 0 .. 3 /\ 2 \in 0 .. 3 /\ 3 \in 0 .. 3
    OBVIOUS
  <2>3. ~(j + 1 + 3 > Len(data)) /\ ~(j + 3 > Len(body))
    BY <1>1, <1>2
  <2> DEFINE Dd(k) == HexDigit(data[j + 1 + k])
             Db(k) == HexDigit(body[j + k])
  <2>4. \A k \in 0 .. 3 : Dd(k) = Db(k)
    BY <2>1
  <2>5. DecodeHex4(data, j + 1) = IF \E k \in 0 .. 3 : Dd(k) = NoValue THEN NoValue
                                  ELSE ((Dd(0) * 16 + Dd(1)) * 16 + Dd(2)) * 16 + Dd(3)
    BY <2>3 DEF DecodeHex4
  <2>6. DecodeHex4(body, j) = IF \E k \in 0 .. 3 : Db(k) = NoValue THEN NoValue
                              ELSE ((Db(0) * 16 + Db(1)) * 16 + Db(2)) * 16 + Db(3)
    BY <2>3 DEF DecodeHex4
  <2>7. (\E k \in 0 .. 3 : Dd(k) = NoValue) <=> (\E k \in 0 .. 3 : Db(k) = NoValue)
    BY <2>4
  <2>8. Dd(0) = Db(0) /\ Dd(1) = Db(1) /\ Dd(2) = Db(2) /\ Dd(3) = Db(3)
    BY <2>2, <2>4
  <2> HIDE DEF Dd, Db
  <2> QED BY <2>5, <2>6, <2>7, <2>8 DEF data
<1>3. CASE j + 3 > n
  <2>1. DecodeHex4(body, j) = NoValue
    BY <1>3 DEF DecodeHex4
  <2>2. DecodeHex4(data, j + 1) = NoValue
    <3>1. CASE j + 3 = n + 1
      <4>1. HexDigit(data[j + 1 + 3]) = NoValue
        <5>1. j + 1 + 3 = n + 2
          BY <1>1, <3>1
        <5>2. HexDigit(Quote) = NoValue
          BY DEF HexDigit, Quote
        <5> QED BY <1>1, <5>1, <5>2
      <4>2. 3 \in 0 .. 3
        OBVIOUS
      <4> QED BY <4>1, <4>2 DEF DecodeHex4
    <3>2. CASE j + 3 # n + 1
      <4>1. j + 1 + 3 > Len(data)
        BY <1>1, <1>3, <3>2
      <4> QED BY <4>1 DEF DecodeHex4
    <3> QED BY <3>1, <3>2
  <2> QED BY <2>1, <2>2 DEF data
<1> QED BY <1>1, <1>2, <1>3

LEMMA EscapeWidths ==
    ASSUME NEW data, NEW i, NEW value, value = DecodeHex4(data, i + 2)
    PROVE  /\ value \in High => EscapeWidth(data, i) = IF Paired(data, i) THEN 12 ELSE 0
           /\ value \in Low => EscapeWidth(data, i) = 0
           /\ value \notin High \cup Low \cup {NoValue} => EscapeWidth(data, i) = 6
<1>1. EscapeWidth(data, i) = CASE value \in High -> IF Paired(data, i) THEN 12 ELSE 0
                               [] value \in Low \cup {NoValue} -> 0
                               [] OTHER -> 6
  BY DEF EscapeWidth
<1>2. value \in Low => value \notin High
  BY Surrogates
<1>3. CASE value \in High
  <2>1. value \notin Low \cup {NoValue}
    BY <1>3, Surrogates
  <2>2. EscapeWidth(data, i) = IF Paired(data, i) THEN 12 ELSE 0
    BY <1>1, <1>3, <2>1
  <2> QED BY <1>3, <2>1, <2>2
<1>4. CASE value \in Low
  BY <1>1, <1>2, <1>4
<1>5. CASE value \notin High \cup Low \cup {NoValue}
  BY <1>1, <1>5
<1>6. CASE value = NoValue
  BY <1>6, Surrogates
<1> QED BY <1>3, <1>4, <1>5, <1>6

(* What follows a high surrogate pairs it in the scan's eyes exactly when  *)
(* the next code unit is a low one.                                        *)
LEMMA PairedIs ==
    ASSUME NEW body \in Seq(0 .. 255), NEW i \in 1 .. Len(body), i + 5 <= Len(body)
    PROVE  Paired(QuotedString(body), i + 1) <=>
               HexAt(body, i + 6) /\ DecodeHex4(body, i + 8) \in Low
<1> DEFINE data == QuotedString(body)
           n == Len(body)
           v == DecodeHex4(body, i + 8)
<1>1. /\ Len(data) = n + 2 /\ n \in Nat
      /\ \A j \in 1 .. n : data[j + 1] = body[j]
  BY QuotedIs
<1>2. \A j \in 1 .. n + 1 : DecodeHex4(data, j + 1) = DecodeHex4(body, j)
  BY HexShifts
<1>3. v # NoValue => i + 11 <= n
  <2>1. v # NoValue => ~(i + 8 + 3 > Len(body))
    BY HexFits
  <2> HIDE DEF v
  <2> QED BY <1>1, <2>1
<1>4. v \in Low => v # NoValue
  BY Surrogates
<1>5. Paired(data, i + 1) <=> /\ (i + 1) + 11 <= Len(data)
                              /\ data[(i + 1) + 6] = Backslash /\ data[(i + 1) + 7] = LetterU
                              /\ DecodeHex4(data, (i + 1) + 8) \in Low
  BY DEF Paired
<1>6. HexAt(body, i + 6) <=> /\ i + 6 <= n /\ i + 6 < n
                             /\ body[i + 6] = Backslash /\ body[i + 7] = LetterU
                             /\ v # NoValue
  <2>1. (i + 6) + 1 = i + 7 /\ (i + 6) + 2 = i + 8
    OBVIOUS
  <2> QED BY <2>1 DEF HexAt, Escaped, v
<1> HIDE DEF data, v
<1>7. ASSUME i + 11 <= n
      PROVE  /\ (i + 1) + 11 <= Len(data) /\ i + 6 <= n /\ i + 6 < n
             /\ data[(i + 1) + 6] = body[i + 6] /\ data[(i + 1) + 7] = body[i + 7]
             /\ DecodeHex4(data, (i + 1) + 8) = v
  <2>1. /\ i + 6 \in 1 .. n /\ i + 7 \in 1 .. n /\ i + 8 \in 1 .. n + 1
        /\ (i + 1) + 6 = (i + 6) + 1 /\ (i + 1) + 7 = (i + 7) + 1 /\ (i + 1) + 8 = (i + 8) + 1
    BY <1>1, <1>7
  <2>2. (i + 1) + 11 <= Len(data) /\ i + 6 <= n /\ i + 6 < n
    BY <1>1, <1>7
  <2> QED BY <1>1, <1>2, <2>1, <2>2 DEF v
<1>8. (i + 1) + 11 <= Len(data) => i + 10 <= n
  BY <1>1
<1>9. Paired(data, i + 1) => i + 11 <= n
  <2>1. ASSUME Paired(data, i + 1) PROVE v \in Low
    <3>1. i + 8 \in 1 .. n + 1 /\ (i + 1) + 8 = (i + 8) + 1
      BY <1>1, <1>5, <1>8, <2>1
    <3> QED BY <1>2, <1>5, <2>1, <3>1 DEF v
  <2> QED BY <1>3, <1>4, <2>1
<1> QED BY <1>3, <1>4, <1>5, <1>6, <1>7, <1>9 DEF data, v

(* A code unit that is a low surrogate was written as an escape.           *)
LEMMA LowUnit ==
    ASSUME NEW body \in Seq(0 .. 255), NEW j \in 1 .. Len(body) + 1,
           Len(UnitsFrom(body)[j]) >= 1, UnitsFrom(body)[j][1] \in Low
    PROVE  HexAt(body, j) /\ DecodeHex4(body, j + 2) \in Low
<1> DEFINE C == UnitsFrom(body)
           n == Len(body)
<1>1. n \in Nat /\ \A i \in 1 .. n : body[i] \in 0 .. 255
  BY ElementsOf
<1>2. C[j] = UnitsRest(body, C, j) /\ j \in Nat
  BY <1>1, CodeUnitsUnfold
<1>3. \A i \in 1 .. n + 1 : C[i] \in Seq(Int)
  BY CodeUnitsTyped
<1>4. \A b \in 0 .. 255 : b \in Int /\ b \notin Low
  <2>1. \A b \in 0 .. 255 : b \in Int
    OBVIOUS
  <2> QED BY <2>1, Surrogates
<1>5. Len(C[j]) >= 1 /\ C[j][1] \in Low
  OBVIOUS
<1> HIDE DEF C
<1>6. \A v \in Int : \A u \in Seq(Int) : (<<v>> \o u)[1] = v
  BY ConsIs
<1>7. CASE j > n
  <2>1. C[j] = <<>>
    BY <1>1, <1>2, <1>7, UnitsRestIs
  <2> QED BY <1>5, <2>1
<1>8. CASE PlainAt(body, j)
  <2>1. j \in 1 .. n /\ j + 1 \in 1 .. n + 1
    BY <1>1, <1>8 DEF PlainAt
  <2>2. C[j] = <<body[j]>> \o C[j + 1]
    BY <1>1, <1>2, <1>8, UnitsRestIs
  <2>3. body[j] \in Int /\ body[j] \notin Low
    BY <1>1, <1>4, <2>1
  <2>4. C[j][1] = body[j]
    <3>1. C[j + 1] \in Seq(Int)
      BY <1>3, <2>1
    <3>2. (<<body[j]>> \o C[j + 1])[1] = body[j]
      BY <1>6, <2>3, <3>1
    <3> QED BY <2>2, <3>2
  <2> QED BY Zenon, <1>5, <2>3, <2>4
<1>9. CASE SimpleAt(body, j)
  <2>1. j + 1 \in 1 .. n /\ j + 2 \in 1 .. n + 1
    BY <1>1, <1>9 DEF SimpleAt, Escaped
  <2>2. C[j] = <<body[j + 1]>> \o C[j + 2]
    BY <1>1, <1>2, <1>9, UnitsRestIs
  <2>3. body[j + 1] \in Int /\ body[j + 1] \notin Low
    BY <1>1, <1>4, <2>1
  <2>4. C[j][1] = body[j + 1]
    <3>1. C[j + 2] \in Seq(Int)
      BY <1>3, <2>1
    <3>2. (<<body[j + 1]>> \o C[j + 2])[1] = body[j + 1]
      BY <1>6, <2>3, <3>1
    <3> QED BY <2>2, <3>2
  <2> QED BY Zenon, <1>5, <2>3, <2>4
<1>10. CASE HexAt(body, j)
  <2>1. ~(j + 2 + 3 > n) /\ DecodeHex4(body, j + 2) \in Int
    BY <1>10, HexFits, HexTyped DEF HexAt
  <2>2. j + 6 \in 1 .. n + 1
    BY <1>1, <2>1
  <2>3. C[j] = <<DecodeHex4(body, j + 2)>> \o C[j + 6]
    BY <1>1, <1>2, <1>10, UnitsRestIs
  <2>4. C[j][1] = DecodeHex4(body, j + 2)
    BY <1>3, <1>6, <2>1, <2>2, <2>3
  <2> QED BY <1>5, <1>10, <2>4
<1>11. CASE j <= n /\ ~PlainAt(body, j) /\ ~SimpleAt(body, j) /\ ~HexAt(body, j)
  <2>1. C[j] = <<NoValue>>
    BY <1>1, <1>2, <1>11, UnitsRestIs
  <2> QED BY <1>5, <2>1, Surrogates
<1> QED BY <1>1, <1>7, <1>8, <1>9, <1>10, <1>11

Clean(units) == \A k \in 1 .. Len(units) : units[k] # NoValue

LEMMA CleanCons ==
    ASSUME NEW u \in Seq(Int), NEW v \in Int, Clean(<<v>> \o u)
    PROVE  v # NoValue /\ Clean(u)
<1> DEFINE w == <<v>> \o u
<1>1. Len(w) = Len(u) + 1 /\ w[1] = v /\ Len(u) \in Nat /\ \A k \in 1 .. Len(u) : w[k + 1] = u[k]
  BY ConsIs
<1>2. \A k \in 1 .. Len(w) : w[k] # NoValue
  BY DEF Clean
<1> HIDE DEF w
<1>3. 1 \in 1 .. Len(w) /\ \A k \in 1 .. Len(u) : k + 1 \in 1 .. Len(w)
  BY <1>1
<1> QED BY <1>1, <1>2, <1>3 DEF Clean

Matches(body, i) ==
    Clean(UnitsFrom(body)[i]) =>
        (ScanFrom(QuotedString(body))[i + 1][TRUE] <=> AllPaired(UnitsFrom(body)[i]))

LEMMA HexMatches ==
    ASSUME NEW body \in Seq(0 .. 255), NEW i \in 1 .. Len(body), HexAt(body, i),
           \A j \in i + 1 .. Len(body) + 1 : Matches(body, j)
    PROVE  Matches(body, i)
<1> DEFINE data == QuotedString(body)
           S == ScanFrom(data)
           C == UnitsFrom(body)
           n == Len(body)
           v == DecodeHex4(body, i + 2)
           low == DecodeHex4(body, i + 8)
           w == Width(data, i + 1)
<1> SUFFICES ASSUME Clean(C[i]) PROVE S[i + 1][TRUE] <=> AllPaired(C[i])
  BY DEF Matches
<1>1. /\ Len(data) = n + 2 /\ n \in Nat /\ Len(data) \in Nat
      /\ \A j \in 1 .. n : data[j + 1] = body[j]
  BY QuotedIs
<1>2. ~(i + 2 + 3 > n) /\ v # NoValue /\ v \in Int
  BY HexFits, HexTyped DEF HexAt
<1>3. i + 5 <= n
  BY <1>1, <1>2
<1>4. C[i] = <<v>> \o C[i + 6]
  <2>1. i \in 1 .. Len(body) + 1 /\ Len(body) \in Nat
    BY <1>1
  <2> HIDE DEF C
  <2> QED BY <2>1, UnitsAt DEF C
<1>5. \A j \in 1 .. n + 1 : C[j] \in Seq(Int)
  BY CodeUnitsTyped
<1>6. w = EscapeWidth(data, i + 1) /\ data[i + 1] # Quote
  <2>1. data[i + 1] = Backslash /\ data[i + 2] = LetterU
    <3>1. i + 1 \in 1 .. n /\ (i + 1) + 1 = i + 2 /\ body[i] = Backslash /\ body[i + 1] = LetterU
      BY <1>3 DEF HexAt, Escaped
    <3> QED BY <1>1, <3>1
  <2>2. i + 1 # Len(data) /\ (i + 1) + 1 = i + 2
    BY <1>1
  <2> QED BY <2>1, <2>2 DEF Width, Backslash, Quote
<1>7. DecodeHex4(data, (i + 1) + 2) = v
  <2>1. i + 2 \in 1 .. n + 1 /\ (i + 1) + 2 = (i + 2) + 1
    BY <1>3
  <2> QED BY <2>1, HexShifts
<1>8. S[i + 1][TRUE] <=> w # 0 /\ S[(i + 1) + w][TRUE]
  <2>1. i + 1 \in 1 .. Len(data) + 1 /\ i + 1 <= Len(data)
    BY <1>1
  <2>2. Scans(data, S, i + 1)
    BY <1>1, <2>1, ScanStep
  <2> QED BY <1>6, <2>1, <2>2 DEF Scans
<1>9. Paired(data, i + 1) <=> HexAt(body, i + 6) /\ low \in Low
  BY <1>3, PairedIs
<1>10. C[i + 6] \in Seq(Int) /\ Clean(C[i + 6])
  <2>1. C[i + 6] \in Seq(Int)
    BY <1>3, <1>5
  <2>2. Clean(<<v>> \o C[i + 6])
    BY <1>4
  <2> HIDE DEF v, C
  <2> QED BY <1>2, <2>1, <2>2, CleanCons
<1>11. \A j \in i + 1 .. n + 1 : Clean(C[j]) => (S[j + 1][TRUE] <=> AllPaired(C[j]))
  BY DEF Matches
<1>12. /\ v \in High => w = IF Paired(data, i + 1) THEN 12 ELSE 0
       /\ v \in Low => w = 0
       /\ v \notin High \cup Low \cup {NoValue} => w = 6
  BY <1>6, <1>7, EscapeWidths
<1>13. C[i][1] = v /\ Len(C[i]) = Len(C[i + 6]) + 1 /\ Len(C[i + 6]) \in Nat
       /\ \A k \in 1 .. Len(C[i + 6]) : C[i][k + 1] = C[i + 6][k]
  BY <1>2, <1>4, <1>10, ConsIs
<1> HIDE DEF data, S, C, v, low, w
<1>14. CASE v \notin High \cup Low
  <2>1. w = 6
    BY <1>2, <1>12, <1>14
  <2>2. AllPaired(C[i]) <=> AllPaired(C[i + 6])
    BY <1>2, <1>4, <1>10, <1>14, PlainUnit
  <2>3. i + 6 \in i + 1 .. n + 1 /\ (i + 1) + 6 = (i + 6) + 1
    BY <1>1, <1>3
  <2>4. S[(i + 6) + 1][TRUE] <=> AllPaired(C[i + 6])
    BY <1>10, <1>11, <2>3
  <2>5. S[(i + 1) + w][TRUE] <=> S[(i + 6) + 1][TRUE]
    BY Zenon, <2>1, <2>3
  <2>6. w # 0
    BY <2>1
  <2> QED BY Zenon, <1>8, <2>2, <2>4, <2>5, <2>6
<1>15. CASE v \in Low
  <2>1. w = 0
    BY <1>12, <1>15
  <2>2. Unpaired(C[i], 1)
    BY <1>13, <1>15 DEF Unpaired
  <2>3. 1 \in 1 .. Len(C[i])
    BY <1>13
  <2> QED BY <1>8, <2>1, <2>2, <2>3 DEF AllPaired
<1>16. CASE v \in High /\ Paired(data, i + 1)
  <2>1. w = 12 /\ HexAt(body, i + 6) /\ low \in Low
    BY <1>9, <1>12, <1>16
  <2>2. i + 11 <= n
    <3>1. ~((i + 6) + 2 + 3 > n)
      BY <2>1, HexFits DEF HexAt
    <3> QED BY <1>1, <3>1
  <2>3. C[i + 6] = <<low>> \o C[i + 12]
    <3>1. i + 6 \in 1 .. n + 1 /\ i + 6 \in Nat /\ (i + 6) + 2 = i + 8 /\ (i + 6) + 6 = i + 12
      BY <1>1, <2>2
    <3>2. C[i + 6] = <<DecodeHex4(body, (i + 6) + 2)>> \o C[(i + 6) + 6]
      BY <1>1, <2>1, <3>1, UnitsAt DEF C
    <3> QED BY Zenon, <3>1, <3>2 DEF low
  <2>4. C[i + 12] \in Seq(Int) /\ low \in Int
    <3>1. i + 12 \in 1 .. n + 1
      BY <1>1, <2>2
    <3>2. low \in Int
      BY HexTyped DEF low
    <3> QED BY <1>5, <3>1, <3>2
  <2>5. AllPaired(C[i]) <=> AllPaired(C[i + 12])
    <3>1. C[i] = <<v>> \o (<<low>> \o C[i + 12])
      BY <1>4, <2>3
    <3>2. v \in High
      BY <1>16
    <3>3. AllPaired(<<v>> \o (<<low>> \o C[i + 12])) <=> AllPaired(C[i + 12])
      <4> DEFINE rest == C[i + 12]
      <4>1. rest \in Seq(Int)
        BY <2>4
      <4>2. AllPaired(<<v>> \o (<<low>> \o rest)) <=> AllPaired(rest)
        <5> HIDE DEF rest
        <5> QED BY <2>1, <3>2, <4>1, PairOfUnits
      <4> QED BY <4>2
    <3> QED BY Zenon, <3>1, <3>3
  <2>6. Clean(C[i + 12])
    BY <1>10, <2>3, <2>4, CleanCons
  <2>7. i + 12 \in i + 1 .. n + 1 /\ (i + 1) + 12 = (i + 12) + 1
    BY <1>1, <2>2
  <2>8. S[(i + 12) + 1][TRUE] <=> AllPaired(C[i + 12])
    BY <1>11, <2>6, <2>7
  <2>9. S[(i + 1) + w][TRUE] <=> S[(i + 12) + 1][TRUE]
    BY Zenon, <2>1, <2>7
  <2>10. w # 0
    BY <2>1
  <2> QED BY Zenon, <1>8, <2>5, <2>8, <2>9, <2>10
<1>17. CASE v \in High /\ ~Paired(data, i + 1)
  <2>1. w = 0
    BY <1>12, <1>17
  <2>2. ~(1 < Len(C[i]) /\ C[i][2] \in Low)
    <3> SUFFICES ASSUME 1 < Len(C[i]), C[i][2] \in Low PROVE FALSE
      OBVIOUS
    <3>1. Len(C[i + 6]) >= 1 /\ C[i + 6][1] \in Low
      <4>1. 1 \in 1 .. Len(C[i + 6]) /\ 1 + 1 = 2
        BY <1>13
      <4> QED BY <1>13, <4>1
    <3>2. i + 6 \in 1 .. n + 1 /\ (i + 6) + 2 = i + 8
      BY <1>1, <1>3
    <3>3. HexAt(body, i + 6) /\ low \in Low
      BY <3>1, <3>2, LowUnit DEF C, low
    <3> QED BY <1>9, <1>17, <3>3
  <2>3. Unpaired(C[i], 1)
    <3>1. 1 + 1 = 2
      OBVIOUS
    <3> QED BY <1>13, <1>17, <2>2, <3>1 DEF Unpaired
  <2>4. 1 \in 1 .. Len(C[i])
    BY <1>13
  <2> QED BY <1>8, <2>1, <2>3, <2>4 DEF AllPaired
<1> QED BY <1>14, <1>15, <1>16, <1>17 DEF S, data, C

LEMMA ScanMatches ==
    ASSUME NEW body \in Seq(0 .. 255)
    PROVE  \A i \in 1 .. Len(body) + 1 : Matches(body, i)
<1> DEFINE data == QuotedString(body)
           S == ScanFrom(data)
           C == UnitsFrom(body)
           n == Len(body)
           G == {k \in Nat : \A i \in 1 .. n + 1 : i + k > n => Matches(body, i)}
<1>1. /\ Len(data) = n + 2 /\ n \in Nat /\ Len(data) \in Nat /\ data[n + 2] = Quote
      /\ \A j \in 1 .. n : data[j + 1] = body[j]
  BY QuotedIs
<1>2. \A j \in 1 .. n + 1 : C[j] \in Seq(Int)
  BY CodeUnitsTyped
<1>3. \A j \in 1 .. n + 3 : Scans(data, S, j)
  BY <1>1, ScanStep
<1>4. \A i \in 1 .. n + 1 : Matches(body, i) <=>
          (Clean(C[i]) => (S[i + 1][TRUE] <=> AllPaired(C[i])))
  BY DEF Matches
<1>5. \A b \in 0 .. 255 : b \in Int /\ b \notin High \cup Low
  <2>1. \A b \in 0 .. 255 : b \in Int
    OBVIOUS
  <2> QED BY <2>1, Surrogates
<1>0. \A j \in 1 .. n : body[j] \in Int /\ body[j] \notin High \cup Low
  <2>1. \A j \in 1 .. n : body[j] \in 0 .. 255
    BY ElementsOf
  <2> QED BY <1>5, <2>1
<1> HIDE DEF data, S
<1>6. Matches(body, n + 1)
  <2>1. C[n + 1] = <<>>
    <3>1. n + 1 > n /\ n + 1 \in 1 .. n + 1
      BY <1>1
    <3> QED BY <1>1, <3>1, UnitsAt
  <2>2. AllPaired(C[n + 1])
    BY <2>1 DEF AllPaired
  <2>3. S[n + 2][TRUE]
    <3>1. S[n + 2][TRUE] = S[n + 3][FALSE]
      <4>1. n + 2 \in 1 .. n + 3 /\ n + 2 <= Len(data) /\ (n + 2) + 1 = n + 3
        BY <1>1
      <4>2. Scans(data, S, n + 2)
        BY <1>3, <4>1
      <4> QED BY <1>1, <4>1, <4>2 DEF Scans
    <3>2. S[n + 3][FALSE]
      <4>1. n + 3 \in 1 .. n + 3 /\ n + 3 > Len(data)
        BY <1>1
      <4>2. Scans(data, S, n + 3)
        BY <1>3, <4>1
      <4> QED BY <4>1, <4>2 DEF Scans
    <3> QED BY <3>1, <3>2
  <2>4. n + 1 \in 1 .. n + 1 /\ (n + 1) + 1 = n + 2
    BY <1>1
  <2> QED BY <1>4, <2>2, <2>3, <2>4
<1>7. ASSUME NEW i \in 1 .. n, \A j \in i + 1 .. n + 1 : Matches(body, j)
      PROVE  Matches(body, i)
  <2>1. /\ i + 1 \in 1 .. n + 3 /\ i + 1 <= Len(data) /\ i + 1 # Len(data)
        /\ (i + 1) + 1 = i + 2 /\ i \in Nat /\ i \in 1 .. n + 1 /\ i <= n
    BY <1>1
  <2>2. Scans(data, S, i + 1) /\ data[i + 1] = body[i]
    BY <1>1, <1>3, <2>1
  <2> HIDE DEF C
  <2>4. CASE PlainAt(body, i)
    <3>1. C[i] = <<body[i]>> \o C[i + 1] /\ body[i] # Quote /\ body[i] # Backslash
      <4>1. C[i] = <<body[i]>> \o C[i + 1]
        BY <1>1, <2>1, <2>4, UnitsAt DEF C
      <4> QED BY <2>4, <4>1 DEF PlainAt
    <3>2. Width(data, i + 1) = 1
      BY <2>2, <3>1 DEF Width
    <3>3. S[i + 1][TRUE] <=> S[(i + 1) + 1][TRUE]
      BY <2>1, <2>2, <3>1, <3>2 DEF Scans
    <3>4. body[i] \in Int /\ body[i] \notin High \cup Low
      BY <1>0
    <3>5. i + 1 \in i + 1 .. n + 1 /\ i + 1 \in 1 .. n + 1
      BY <1>1
    <3>6. AllPaired(C[i]) <=> AllPaired(C[i + 1])
      BY <1>2, <3>1, <3>4, <3>5, PlainUnit
    <3>7. Clean(C[i]) => Clean(C[i + 1])
      BY <1>2, <3>1, <3>4, <3>5, CleanCons
    <3>8. Matches(body, i + 1)
      BY <1>7, <3>5
    <3> QED BY <1>4, <2>1, <3>3, <3>5, <3>6, <3>7, <3>8
  <2>5. CASE SimpleAt(body, i)
    <3>1. /\ C[i] = <<body[i + 1]>> \o C[i + 2] /\ body[i] = Backslash
          /\ i + 1 \in 1 .. n /\ body[i + 1] \in SimpleEscapes
      <4>1. C[i] = <<body[i + 1]>> \o C[i + 2]
        BY <1>1, <2>1, <2>5, UnitsAt DEF C
      <4>2. body[i] = Backslash /\ i + 1 \in 1 .. n /\ body[i + 1] \in SimpleEscapes
        BY <1>1, <2>5 DEF SimpleAt, Escaped
      <4> QED BY <4>1, <4>2
    <3>2. data[(i + 1) + 1] # LetterU
      <4>1. data[(i + 1) + 1] = body[i + 1]
        BY <1>1, <3>1
      <4> QED BY <3>1, <4>1 DEF SimpleEscapes, LetterU
    <3>3. Width(data, i + 1) = 2 /\ body[i] # Quote
      BY <2>1, <2>2, <3>1, <3>2 DEF Width, Backslash, Quote
    <3>4. S[i + 1][TRUE] <=> S[(i + 2) + 1][TRUE]
      <4>1. (i + 1) + 2 = (i + 2) + 1
        OBVIOUS
      <4>2. S[i + 1][TRUE] <=> S[(i + 1) + 2][TRUE]
        <5>1. S[i + 1][TRUE] =
                (Width(data, i + 1) # 0 /\ S[(i + 1) + Width(data, i + 1)][TRUE])
          BY <2>1, <2>2, <3>3 DEF Scans
        <5>2. Width(data, i + 1) = 2 /\ Width(data, i + 1) # 0
          BY <3>3
        <5>3. S[(i + 1) + Width(data, i + 1)][TRUE] <=> S[(i + 1) + 2][TRUE]
          BY Zenon, <5>2
        <5> QED BY Zenon, <5>1, <5>2, <5>3
      <4> QED BY <4>1, <4>2
    <3>5. body[i + 1] \in Int /\ body[i + 1] \notin High \cup Low
      BY <1>0, <3>1
    <3>6. i + 2 \in i + 1 .. n + 1 /\ i + 2 \in 1 .. n + 1
      BY <1>1, <3>1
    <3>7. AllPaired(C[i]) <=> AllPaired(C[i + 2])
      BY <1>2, <3>1, <3>5, <3>6, PlainUnit
    <3>8. Clean(C[i]) => Clean(C[i + 2])
      BY <1>2, <3>1, <3>5, <3>6, CleanCons
    <3>9. Matches(body, i + 2)
      BY <1>7, <3>6
    <3> QED BY <1>4, <2>1, <3>4, <3>6, <3>7, <3>8, <3>9
  <2>6. CASE HexAt(body, i)
    BY <1>7, <2>6, HexMatches
  <2>7. CASE ~PlainAt(body, i) /\ ~SimpleAt(body, i) /\ ~HexAt(body, i)
    <3>1. C[i] = <<NoValue>>
      BY <1>1, <2>1, <2>7, UnitsAt DEF C
    <3>2. ~Clean(C[i])
      BY <3>1 DEF Clean
    <3> QED BY <1>4, <2>1, <3>2
  <2> QED BY <2>4, <2>5, <2>6, <2>7
<1>8. 0 \in G
  <2>1. ASSUME NEW i \in 1 .. n + 1, i + 0 > n PROVE i = n + 1
    BY <1>1, <2>1
  <2> QED BY <1>6, <2>1
<1>9. ASSUME NEW k \in Nat, k \in G PROVE k + 1 \in G
  <2> SUFFICES ASSUME NEW i \in 1 .. n + 1, i + (k + 1) > n PROVE Matches(body, i)
    OBVIOUS
  <2>1. \A j \in i + 1 .. n + 1 : Matches(body, j)
    <3>1. ASSUME NEW j \in i + 1 .. n + 1 PROVE j \in 1 .. n + 1 /\ j + k > n
      BY <1>1
    <3> QED BY <1>9, <3>1
  <2>2. i = n + 1 \/ i \in 1 .. n
    BY <1>1
  <2> QED BY <1>6, <1>7, <2>1, <2>2
<1>10. Nat \subseteq G
  <2> HIDE DEF G
  <2> QED BY <1>8, <1>9, Induction
<1>11. n + 1 \in G
  <2>1. n + 1 \in Nat
    BY <1>1
  <2> HIDE DEF G
  <2> QED BY <1>10, <2>1
<1>12. \A i \in 1 .. n + 1 : i + (n + 1) > n
  BY <1>1
<1> QED BY <1>11, <1>12

LEMMA ScanOfString ==
    ASSUME NEW body \in Seq(0 .. 255)
    PROVE  LET accepts == ScanAccepts(QuotedString(body))
               units == CodeUnits(body)
           IN  /\ accepts \in BOOLEAN
               /\ Clean(units) => (accepts <=> AllPaired(units))
<1> DEFINE data == QuotedString(body)
           S == ScanFrom(data)
<1>1. Len(data) = Len(body) + 2 /\ Len(data) \in Nat /\ Len(body) \in Nat /\ data[1] = Quote
  BY QuotedIs
<1>2. 1 \in 1 .. Len(data) + 1 /\ 1 \in 1 .. Len(body) + 1 /\ 1 <= Len(data) /\ 1 + 1 = 2
  BY <1>1
<1>3. ScanAccepts(data) = S[1][FALSE] /\ S[1][FALSE] \in BOOLEAN
  BY <1>1, <1>2, ScanUnfolds, ScanBoolean
<1>4. S[1][FALSE] = S[2][TRUE]
  <2>1. Scans(data, S, 1)
    BY <1>1, <1>2, ScanStep
  <2> HIDE DEF S, data
  <2> QED BY <1>1, <1>2, <2>1 DEF Scans
<1>5. Matches(body, 1) /\ CodeUnits(body) = UnitsFrom(body)[1]
  BY <1>1, <1>2, ScanMatches, CodeUnitsUnfold
<1> QED BY <1>2, <1>3, <1>4, <1>5 DEF Matches

-----------------------------------------------------------------------------
(***************************************************************************)
(* The behaviours.                                                         *)
(***************************************************************************)
(* What has been written so far is arguments, pieces of a string and runes.*)
Written == args \in Seq(Args) /\ string \in Seq(Pieces) /\ text \in Seq(Runes)

LEMMA WrittenInvariant == Spec => []Written
<1>1. Init => Written
  BY DEF Init, Written
<1>2. Written /\ [Next]_vars => Written'
  <2> SUFFICES ASSUME Written, [Next]_vars PROVE Written'
    OBVIOUS
  <2>1. ASSUME NEW arg \in Args, WriteArgument(arg) PROVE Written'
    BY <2>1 DEF WriteArgument, Written
  <2>2. ASSUME NEW piece \in Pieces, WriteString(piece) PROVE Written'
    BY <2>2 DEF WriteString, Written
  <2>3. ASSUME NEW rune \in Runes, WriteText(rune) PROVE Written'
    BY <2>3 DEF WriteText, Written
  <2>4. CASE UNCHANGED vars
    BY <2>4 DEF Written, vars
  <2> QED BY <2>1, <2>2, <2>3, <2>4 DEF Next
<1> QED BY <1>1, <1>2, PTL DEF Spec

(* Whatever pieces a string is put together from, the scan answers, and if *)
(* it is a JSON string refuses it exactly when it holds an unpaired        *)
(* surrogate escape (rejectUnpairedSurrogates).                            *)
THEOREM ScanRefusesUnpaired == Spec => []ScanIsExact
<1>1. Written => ScanIsExact
  <2> SUFFICES ASSUME Written PROVE ScanIsExact
    OBVIOUS
  <2> DEFINE body == FlattenSeq(string)
  <2>1. body \in Seq(0 .. 255)
    <3>1. string \in Seq(Seq(0 .. 255))
      BY InputsAssumption DEF Written
    <3>2. Len(string) \in 0 .. Len(string)
      BY <3>1
    <3> DEFINE ss == string
               S == 0 .. 255
    <3>3. ss \in Seq(Seq(S)) /\ Len(ss) \in 0 .. Len(ss)
      BY <3>1, <3>2
    <3>4. FlattenSeq(ss) \in Seq(S)
      <4> HIDE DEF ss, S
      <4>1. FlattenSeq(ss) = Upto(ss, Len(ss))
        BY <3>3, FlattenIsUpto
      <4>2. Upto(ss, Len(ss)) \in Seq(S)
        BY <3>3, FlattenIsUpto
      <4> QED BY <4>1, <4>2
    <3> QED BY <3>4
  <2> HIDE DEF body
  <2>2. LET accepts == ScanAccepts(QuotedString(body))
            units == CodeUnits(body)
        IN  /\ accepts \in BOOLEAN
            /\ Clean(units) => (accepts <=> AllPaired(units))
    BY <2>1, ScanOfString
  <2> QED BY <2>2 DEF ScanIsExact, QuotedString, Clean, AllPaired, body
<1> QED BY <1>1, WrittenInvariant, PTL

-----------------------------------------------------------------------------
(***************************************************************************)
(* The argument parsers: loops over the arguments.                         *)
(***************************************************************************)
ShowStart ==
    [at |-> "options", path |-> Latest, pathSet |-> FALSE, format |-> "terminal", raw |-> FALSE]
RecordStart == [at |-> "options", path |-> Latest, command |-> <<>>]

ShowNext(words, after, i) ==
    IF i = 0 THEN ShowStart ELSE ShowStep(after[i - 1], words[i])
RecordNext(words, after, i) ==
    IF i = 0 THEN RecordStart ELSE RecordStep(after[i - 1], words[i])
NextOf(show, words, after, i) ==
    IF show THEN ShowNext(words, after, i) ELSE RecordNext(words, after, i)

LEMMA NextSame ==
    ASSUME NEW show \in BOOLEAN, NEW words, NEW i, NEW f, NEW g, i # 0 => f[i - 1] = g[i - 1]
    PROVE  NextOf(show, words, f, i) = NextOf(show, words, g, i)
BY DEF NextOf, ShowNext, RecordNext

LEMMA LoopExists ==
    ASSUME NEW show \in BOOLEAN, NEW words
    PROVE  \A n \in Nat : \E after : after = [i \in 0 .. n |-> NextOf(show, words, after, i)]
<1> DEFINE Is(f, k) == f = [i \in 0 .. k |-> NextOf(show, words, f, i)]
           G == {k \in Nat : \E f : Is(f, k)}
<1>1. 0 \in G
  <2> DEFINE first == [i \in 0 .. 0 |-> NextOf(show, words, <<>>, i)]
  <2>1. \A i \in 0 .. 0 : NextOf(show, words, <<>>, i) = NextOf(show, words, first, i)
    <3>1. \A i \in 0 .. 0 : i = 0
      OBVIOUS
    <3> HIDE DEF first
    <3> QED BY <3>1, NextSame
  <2>2. Is(first, 0)
    <3> HIDE DEF first
    <3> QED BY <2>1 DEF first
  <2> HIDE DEF first, Is
  <2> QED BY <2>2
<1>2. ASSUME NEW k \in Nat, k \in G PROVE k + 1 \in G
  <2>1. PICK f : Is(f, k)
    BY <1>2
  <2> DEFINE more == [i \in 0 .. k + 1 |-> IF i <= k THEN f[i] ELSE NextOf(show, words, f, i)]
  <2>2. \A i \in 0 .. k : more[i] = f[i]
    OBVIOUS
  <2>3. \A i \in 0 .. k + 1 : NextOf(show, words, f, i) = NextOf(show, words, more, i)
    <3>1. ASSUME NEW i \in 0 .. k + 1, i # 0 PROVE i - 1 \in 0 .. k
      BY <3>1
    <3> HIDE DEF more
    <3> QED BY <2>2, <3>1, NextSame
  <2>4. \A i \in 0 .. k : f[i] = NextOf(show, words, f, i)
    BY <2>1
  <2>5. Is(more, k + 1)
    <3>1. \A i \in 0 .. k + 1 : (IF i <= k THEN f[i] ELSE NextOf(show, words, f, i))
                                    = NextOf(show, words, f, i)
      BY <2>4
    <3>2. more = [i \in 0 .. k + 1 |-> NextOf(show, words, f, i)]
      BY <3>1
    <3> HIDE DEF more
    <3> QED BY <2>3, <3>2
  <2> HIDE DEF more, Is
  <2> QED BY <2>5
<1>3. Nat \subseteq G
  <2> HIDE DEF G
  <2> QED BY <1>1, <1>2, Induction
<1> QED BY <1>3

(* What a parser has read of words when it has come to each.               *)
ShowAfter(words) ==
    CHOOSE after : after = [i \in 0 .. Len(words) |-> ShowNext(words, after, i)]
RecordAfter(words) ==
    CHOOSE after : after = [i \in 0 .. Len(words) |-> RecordNext(words, after, i)]

LEMMA Loops ==
    ASSUME NEW words, Len(words) \in Nat
    PROVE  \A i \in 0 .. Len(words) :
               /\ ShowAfter(words)[i] = ShowNext(words, ShowAfter(words), i)
               /\ RecordAfter(words)[i] = RecordNext(words, RecordAfter(words), i)
<1>1. \E after : after = [i \in 0 .. Len(words) |-> ShowNext(words, after, i)]
  <2>1. \E after : after = [i \in 0 .. Len(words) |-> NextOf(TRUE, words, after, i)]
    BY LoopExists
  <2> QED BY <2>1 DEF NextOf
<1>2. \E after : after = [i \in 0 .. Len(words) |-> RecordNext(words, after, i)]
  <2>1. \E after : after = [i \in 0 .. Len(words) |-> NextOf(FALSE, words, after, i)]
    BY LoopExists
  <2> QED BY <2>1 DEF NextOf
<1>3. ShowAfter(words) = [i \in 0 .. Len(words) |-> ShowNext(words, ShowAfter(words), i)]
  BY <1>1 DEF ShowAfter
<1>4. RecordAfter(words) = [i \in 0 .. Len(words) |-> RecordNext(words, RecordAfter(words), i)]
  BY <1>2 DEF RecordAfter
<1> QED BY <1>3, <1>4

(* What the parsers answer, of what they have read in the end.             *)
ShowAnswer(s) ==
    IF \/ s.at \in {"format", "refused"}
       \/ s.format \notin {"terminal", "markdown"}
       \/ s.raw /\ s.format # "terminal"
    THEN Refused
    ELSE [ok |-> TRUE, path |-> s.path, format |-> s.format, raw |-> s.raw]

RecordAnswer(s) ==
    IF s.at \in {"path", "refused"} \/ s.path \in {"", "-"} \/ s.command = <<>>
    THEN Refused
    ELSE [ok |-> TRUE, path |-> s.path, command |-> s.command]

LEMMA Answers ==
    ASSUME NEW words
    PROVE  /\ ParseShowOptions(words) = ShowAnswer(ShowAfter(words)[Len(words)])
           /\ ParseRecordOptions(words) = RecordAnswer(RecordAfter(words)[Len(words)])
<1>1. ParseShowOptions(words) = ShowAnswer(ShowAfter(words)[Len(words)])
  BY DEF ParseShowOptions, ShowAnswer, ShowAfter, ShowNext, ShowStart
<1>2. ParseRecordOptions(words) = RecordAnswer(RecordAfter(words)[Len(words)])
  BY DEF ParseRecordOptions, RecordAnswer, RecordAfter, RecordNext, RecordStart
<1> QED BY <1>1, <1>2

LEMMA Texts ==
    /\ DOMAIN OutputValue = {"--output=a", "--output="}
    /\ DOMAIN FormatValue = {"--format=markdown", "--format=pdf"}
BY DEF OutputValue, FormatValue

ShowState(at, path, set, format, raw) ==
    [at |-> at, path |-> path, pathSet |-> set, format |-> format, raw |-> raw]

LEMMA ShowOptionIs ==
    ASSUME NEW s, s.at = "options", NEW arg
    PROVE  /\ arg = "--raw" => ShowStep(s, arg) = [s EXCEPT !.raw = TRUE]
           /\ arg \in DOMAIN FormatValue =>
                 ShowStep(s, arg) = [s EXCEPT !.format = FormatValue[arg]]
           /\ ~Dashed(arg) => ShowStep(s, arg) = ShowPath(s, arg)
           /\ Dashed(arg) /\ arg \notin {"--", "--format", "--raw"} \cup DOMAIN FormatValue
                => ShowStep(s, arg) = [s EXCEPT !.at = "refused"]
<1> DEFINE f == FormatValue[arg]
<1>1. ShowStep(s, arg) = CASE arg = "--"                 -> [s EXCEPT !.at = "paths"]
                           [] arg = "--raw"              -> [s EXCEPT !.raw = TRUE]
                           [] arg = "--format"           -> [s EXCEPT !.at = "format"]
                           [] arg \in DOMAIN FormatValue -> [s EXCEPT !.format = f]
                           [] ~Dashed(arg)               -> ShowPath(s, arg)
                           [] OTHER                      -> [s EXCEPT !.at = "refused"]
  BY DEF ShowStep, ShowOption
<1> HIDE DEF f
<1>2. arg = "--raw" => ShowStep(s, arg) = [s EXCEPT !.raw = TRUE]
  BY <1>1, Texts DEF Dashed, DashedTexts
<1>3. arg \in DOMAIN FormatValue => ShowStep(s, arg) = [s EXCEPT !.format = f]
  BY <1>1, Texts DEF Dashed, DashedTexts
<1>4. ~Dashed(arg) => ShowStep(s, arg) = ShowPath(s, arg)
  BY <1>1, Texts DEF Dashed, DashedTexts
<1>5. Dashed(arg) /\ arg \notin {"--", "--format", "--raw"} \cup DOMAIN FormatValue
        => ShowStep(s, arg) = [s EXCEPT !.at = "refused"]
  BY <1>1
<1> QED BY <1>2, <1>3, <1>4, <1>5 DEF f

(* In one state of a parser of show everything has its place.              *)
IsShow(s) ==
    /\ s = [at |-> s.at, path |-> s.path, pathSet |-> s.pathSet, format |-> s.format, raw |-> s.raw]
    /\ s.at \in {"options", "format", "paths", "refused"} /\ s.pathSet \in BOOLEAN

LEMMA ShowStepIs ==
    ASSUME NEW s, IsShow(s), NEW arg
    PROVE  LET t == ShowStep(s, arg)
           IN  /\ IsShow(t)
               /\ s.at = "refused" => t.at = "refused"
               /\ s.at = "options" /\ arg \notin {"--", "--format"}
                    => t.at \in {"options", "refused"}
<1> DEFINE at == s.at
           path == s.path
           set == s.pathSet
           format == s.format
           raw == s.raw
<1>1. /\ s = [at |-> at, path |-> path, pathSet |-> set, format |-> format, raw |-> raw]
      /\ at \in {"options", "format", "paths", "refused"} /\ set \in BOOLEAN
  BY DEF IsShow
<1> HIDE DEF at, path, set, format, raw
<1>2. CASE at = "refused"
  BY <1>1, <1>2 DEF ShowStep, IsShow
<1>3. CASE at = "format"
  BY <1>1, <1>3 DEF ShowStep, IsShow
<1>4. CASE at = "paths"
  BY <1>1, <1>4 DEF ShowStep, ShowPath, IsShow
<1>5. CASE at = "options"
  <2>1. ShowStep(s, arg) = ShowOption(s, arg)
    BY <1>1, <1>5 DEF ShowStep
  <2>2. /\ IsShow(ShowOption(s, arg))
        /\ arg \notin {"--", "--format"} => ShowOption(s, arg).at \in {"options", "refused"}
    BY <1>1, <1>5, Texts DEF ShowOption, ShowPath, IsShow
  <2> QED BY <1>1, <1>5, <2>1, <2>2
<1> QED BY <1>1, <1>2, <1>3, <1>4, <1>5

(* Two states answer the same.                                             *)
Alike(s, t) == s = t \/ (s.at = "refused" /\ t.at = "refused")

LEMMA RawCommutes ==
    ASSUME NEW s, IsShow(s), s.at \in {"options", "refused"},
           NEW arg, arg \notin {"--", "--format"}
    PROVE  Alike(ShowStep(ShowStep(s, "--raw"), arg), ShowStep(ShowStep(s, arg), "--raw"))
<1> DEFINE path == s.path
           set == s.pathSet
           format == s.format
           raw == s.raw
           r == ShowState("options", path, set, format, TRUE)
<1>1. CASE s.at = "refused"
  BY <1>1 DEF ShowStep, Alike
<1>2. CASE s.at = "options"
  <2>1. s = ShowState("options", path, set, format, raw) /\ set \in BOOLEAN
    BY <1>2 DEF IsShow, ShowState
  <2> HIDE DEF path, set, format, raw
  <2>2. ShowStep(s, "--raw") = r
    <3>1. ShowStep(s, "--raw") = [s EXCEPT !.raw = TRUE]
      BY <1>2, ShowOptionIs
    <3> QED BY <2>1, <3>1 DEF ShowState
  <2>3. r.at = "options" /\ r.pathSet = set
    BY DEF ShowState
  <2> HIDE DEF r
  <2>4. CASE arg = "--raw"
    BY <2>4 DEF Alike
  <2>5. CASE arg \in DOMAIN FormatValue
    <3> DEFINE f == FormatValue[arg]
               t == ShowState("options", path, set, f, raw)
    <3>1. ShowStep(s, arg) = [s EXCEPT !.format = f] /\ ShowStep(r, arg) = [r EXCEPT !.format = f]
      BY <1>2, <2>3, <2>5, ShowOptionIs
    <3> HIDE DEF f
    <3>2. ShowStep(s, arg) = t
      BY <2>1, <3>1 DEF ShowState
    <3>3. ShowStep(r, arg) = ShowState("options", path, set, f, TRUE)
      BY <3>1 DEF r, ShowState
    <3>4. t = ShowState("options", path, set, f, raw) /\ t.at = "options"
      BY DEF ShowState
    <3> HIDE DEF t
    <3>5. ShowStep(t, "--raw") = [t EXCEPT !.raw = TRUE]
      BY <3>4, ShowOptionIs
    <3>6. ShowStep(t, "--raw") = ShowState("options", path, set, f, TRUE)
      BY <3>4, <3>5 DEF ShowState
    <3> QED BY <2>2, <3>2, <3>3, <3>6 DEF Alike
  <2>6. CASE ~Dashed(arg)
    <3>1. ShowStep(s, arg) = ShowPath(s, arg) /\ ShowStep(r, arg) = ShowPath(r, arg)
      BY <1>2, <2>3, <2>6, ShowOptionIs
    <3>2. CASE set
      <4>1. /\ ShowPath(s, arg) = [s EXCEPT !.at = "refused"]
            /\ ShowPath(r, arg) = [r EXCEPT !.at = "refused"]
        BY <2>1, <2>3, <3>2 DEF ShowPath, ShowState
      <4>2. ShowPath(s, arg).at = "refused" /\ ShowPath(r, arg).at = "refused"
        BY <2>1, <4>1 DEF r, ShowState
      <4>3. ShowStep(ShowPath(s, arg), "--raw") = ShowPath(s, arg)
        BY <4>2 DEF ShowStep
      <4> QED BY <2>2, <3>1, <4>2, <4>3 DEF Alike
    <3>3. CASE ~set
      <4> DEFINE t == ShowState("options", arg, TRUE, format, raw)
      <4>1. ShowPath(s, arg) = t
        <5>1. ShowPath(s, arg) = [s EXCEPT !.path = arg, !.pathSet = TRUE]
          BY <2>1, <3>3 DEF ShowPath, ShowState
        <5> QED BY <2>1, <5>1 DEF ShowState
      <4>2. ShowPath(r, arg) = ShowState("options", arg, TRUE, format, TRUE)
        <5>1. ShowPath(r, arg) = [r EXCEPT !.path = arg, !.pathSet = TRUE]
          BY <2>3, <3>3 DEF ShowPath
        <5> QED BY <5>1 DEF r, ShowState
      <4>3. t = ShowState("options", arg, TRUE, format, raw) /\ t.at = "options"
        BY DEF ShowState
      <4> HIDE DEF t
      <4>4. ShowStep(t, "--raw") = [t EXCEPT !.raw = TRUE]
        BY <4>3, ShowOptionIs
      <4>5. ShowStep(t, "--raw") = ShowState("options", arg, TRUE, format, TRUE)
        BY <4>3, <4>4 DEF ShowState
      <4> QED BY <2>2, <3>1, <4>1, <4>2, <4>5 DEF Alike
    <3> QED BY <2>1, <3>2, <3>3
  <2>7. CASE arg # "--raw" /\ arg \notin DOMAIN FormatValue /\ Dashed(arg)
    <3>1. /\ ShowStep(s, arg) = [s EXCEPT !.at = "refused"]
          /\ ShowStep(r, arg) = [r EXCEPT !.at = "refused"]
      BY <1>2, <2>3, <2>7, ShowOptionIs
    <3>2. ShowStep(s, arg).at = "refused" /\ ShowStep(r, arg).at = "refused"
      BY <2>1, <3>1 DEF r, ShowState
    <3>3. ShowStep(ShowStep(s, arg), "--raw") = ShowStep(s, arg)
      BY <3>2 DEF ShowStep
    <3> QED BY <2>2, <3>2, <3>3 DEF Alike
  <2> QED BY <2>4, <2>5, <2>6, <2>7
<1> QED BY <1>1, <1>2

LEMMA AlikeStays ==
    ASSUME NEW s, NEW t, Alike(s, t), NEW arg
    PROVE  /\ Alike(ShowStep(s, arg), ShowStep(t, arg))
           /\ ShowAnswer(s) = ShowAnswer(t)
BY DEF Alike, ShowStep, ShowAnswer

LEMMA RawMoves ==
    ASSUME NEW S, NEW words \in Seq(S), NEW i \in 2 .. Len(words),
           "--raw" \in {words[i - 1], words[i]},
           {words[j] : j \in 1 .. i} \cap {"--", "--format"} = {}
    PROVE  ParseShowOptions(words) =
           ParseShowOptions([words EXCEPT ![i - 1] = words[i], ![i] = words[i - 1]])
<1> DEFINE other == [words EXCEPT ![i - 1] = words[i], ![i] = words[i - 1]]
           n == Len(words)
           A == ShowAfter(words)
           B == ShowAfter(other)
<1>1. /\ n \in Nat /\ Len(other) = n /\ other[i - 1] = words[i] /\ other[i] = words[i - 1]
      /\ \A k \in 1 .. n : k # i - 1 /\ k # i => other[k] = words[k]
  <2>1. n \in Nat /\ i - 1 \in 1 .. n /\ i \in 1 .. n /\ i # i - 1 /\ DOMAIN words = 1 .. n
    OBVIOUS
  <2>2. /\ other[i - 1] = words[i] /\ other[i] = words[i - 1]
        /\ \A k \in 1 .. n : k # i - 1 /\ k # i => other[k] = words[k]
    BY <2>1
  <2>3. words[i] \in S /\ words[i - 1] \in S
    BY <2>1
  <2>4. Len(other) = n
    BY <2>1, <2>3
  <2> QED BY <2>1, <2>2, <2>4
<1> HIDE DEF other
<1>2. \A k \in 0 .. n : /\ A[k] = IF k = 0 THEN ShowStart ELSE ShowStep(A[k - 1], words[k])
                        /\ B[k] = IF k = 0 THEN ShowStart ELSE ShowStep(B[k - 1], other[k])
  BY <1>1, Loops DEF ShowNext
<1>3. ParseShowOptions(words) = ShowAnswer(A[n]) /\ ParseShowOptions(other) = ShowAnswer(B[n])
  BY <1>1, Answers
<1>4. \A k \in 1 .. i : words[k] \notin {"--", "--format"}
  OBVIOUS
<1> HIDE DEF n, A, B
<1> DEFINE G == {k \in Nat : k <= i - 2 => /\ IsShow(A[k]) /\ A[k] = B[k]
                                          /\ A[k].at \in {"options", "refused"}}
           H == {k \in Nat : k <= n - i => Alike(A[i + k], B[i + k])}
<1>5. i \in 2 .. n
  BY DEF n
<1>6. Nat \subseteq G
  <2>1. 0 \in G
    <3>1. A[0] = ShowStart /\ B[0] = ShowStart
      BY <1>1, <1>2
    <3>2. IsShow(ShowStart) /\ ShowStart.at = "options"
      BY DEF IsShow, ShowStart
    <3> QED BY <3>1, <3>2
  <2>2. ASSUME NEW k \in Nat, k \in G PROVE k + 1 \in G
    <3> SUFFICES ASSUME k + 1 <= i - 2
                 PROVE  /\ IsShow(A[k + 1]) /\ A[k + 1] = B[k + 1]
                        /\ A[k + 1].at \in {"options", "refused"}
      OBVIOUS
    <3>1. IsShow(A[k]) /\ A[k] = B[k] /\ A[k].at \in {"options", "refused"}
      BY <2>2
    <3>2. /\ k + 1 \in 0 .. n /\ k + 1 # 0 /\ (k + 1) - 1 = k /\ k + 1 \in 1 .. i
          /\ k + 1 # i /\ k + 1 # i - 1 /\ k + 1 \in 1 .. n
      BY <1>1, <1>5
    <3>3. A[k + 1] = ShowStep(A[k], words[k + 1]) /\ B[k + 1] = ShowStep(B[k], words[k + 1])
      BY <1>1, <1>2, <3>2
    <3>4. words[k + 1] \notin {"--", "--format"}
      BY <1>4, <3>2
    <3> HIDE DEF G
    <3> QED BY <3>1, <3>3, <3>4, ShowStepIs
  <2> HIDE DEF G
  <2> QED BY <2>1, <2>2, Induction
<1>7. Alike(A[i], B[i])
  <2> DEFINE s == A[i - 2]
             x == IF words[i] = "--raw" THEN words[i - 1] ELSE words[i]
  <2>1. /\ i - 2 \in Nat /\ i - 1 \in 0 .. n /\ i \in 0 .. n /\ i - 1 # 0 /\ i # 0
        /\ (i - 1) - 1 = i - 2 /\ i - 1 \in 1 .. i /\ i \in 1 .. i
    BY <1>1, <1>5
  <2>2. IsShow(s) /\ s = B[i - 2] /\ s.at \in {"options", "refused"}
    BY <1>6, <2>1
  <2>3. /\ A[i] = ShowStep(ShowStep(s, words[i - 1]), words[i])
        /\ B[i] = ShowStep(ShowStep(B[i - 2], words[i]), words[i - 1])
    BY <1>1, <1>2, <2>1
  <2>4. x \notin {"--", "--format"}
    BY <1>4, <2>1
  <2>5. \/ words[i] = "--raw" /\ words[i - 1] = x
        \/ words[i - 1] = "--raw" /\ words[i] = x
    OBVIOUS
  <2> HIDE DEF s, x, G
  <2>6. Alike(ShowStep(ShowStep(s, "--raw"), x), ShowStep(ShowStep(s, x), "--raw"))
    BY <2>2, <2>4, RawCommutes
  <2> QED BY <2>2, <2>3, <2>5, <2>6 DEF Alike
<1>8. Nat \subseteq H
  <2>1. 0 \in H
    <3>1. i + 0 = i
      BY <1>5
    <3> QED BY <1>7, <3>1
  <2>2. ASSUME NEW k \in Nat, k \in H PROVE k + 1 \in H
    <3> SUFFICES ASSUME k + 1 <= n - i PROVE Alike(A[i + (k + 1)], B[i + (k + 1)])
      OBVIOUS
    <3> DEFINE m == i + k
    <3>1. Alike(A[m], B[m])
      BY <1>1, <1>5, <2>2
    <3>2. /\ i + (k + 1) = m + 1 /\ m + 1 \in 0 .. n /\ m + 1 # 0 /\ (m + 1) - 1 = m
          /\ m + 1 # i /\ m + 1 # i - 1 /\ m + 1 \in 1 .. n
      BY <1>1, <1>5
    <3> HIDE DEF H, G, m
    <3>3. A[m + 1] = ShowStep(A[m], words[m + 1]) /\ B[m + 1] = ShowStep(B[m], words[m + 1])
      BY <1>1, <1>2, <3>2
    <3>4. Alike(A[m + 1], B[m + 1])
      BY <3>1, <3>3, AlikeStays
    <3> QED BY <3>2, <3>4
  <2> HIDE DEF H, G
  <2> QED BY <2>1, <2>2, Induction
<1>9. Alike(A[n], B[n])
  <2>1. n - i \in Nat /\ i + (n - i) = n
    BY <1>1, <1>5
  <2>2. n - i \in H
    <3> HIDE DEF H, G
    <3> QED BY <1>8, <2>1
  <2> QED BY <2>1, <2>2
<1> QED BY <1>3, <1>9, AlikeStays DEF other

(* Wherever --raw stands among the options before a format's own value or  *)
(* the end of options, the argument next to it may as well stand on its    *)
(* other side (parseShowOptions).                                          *)
THEOREM RawStandsAnywhere == Spec => []RawWhereverItStands
<1>1. Written => RawWhereverItStands
  <2> SUFFICES ASSUME Written, NEW i \in 2 .. Len(args),
                      "--raw" \in {args[i - 1], args[i]},
                      {args[j] : j \in 1 .. i} \cap {"--", "--format"} = {}
               PROVE  ParseShowOptions(args) =
                      ParseShowOptions([args EXCEPT ![i - 1] = args[i], ![i] = args[i - 1]])
    BY DEF RawWhereverItStands
  <2>1. args \in Seq(Args)
    BY DEF Written
  <2> QED BY <2>1, RawMoves
<1> QED BY <1>1, WrittenInvariant, PTL

-----------------------------------------------------------------------------
IsRecord(s) == s = [at |-> s.at, path |-> s.path, command |-> s.command]

LEMMA RecordOptionIs ==
    ASSUME NEW s, s.at = "options", NEW arg
    PROVE  /\ arg = "--" => RecordStep(s, arg) = [s EXCEPT !.at = "command"]
           /\ arg \in {"-o", "--output"} => RecordStep(s, arg) = [s EXCEPT !.at = "path"]
           /\ arg \in DOMAIN OutputValue =>
                 RecordStep(s, arg) = [s EXCEPT !.path = OutputValue[arg]]
           /\ ~Dashed(arg) => RecordStep(s, arg) = [s EXCEPT !.at = "command", !.command = <<arg>>]
           /\ Dashed(arg) /\ arg \notin {"--", "-o", "--output"} \cup DOMAIN OutputValue
                => RecordStep(s, arg) = [s EXCEPT !.at = "refused"]
<1> DEFINE f == OutputValue[arg]
           c == [s EXCEPT !.at = "command", !.command = <<arg>>]
<1>1. RecordStep(s, arg) = CASE arg = "--"                   -> [s EXCEPT !.at = "command"]
                             [] arg \in {"-o", "--output"}   -> [s EXCEPT !.at = "path"]
                             [] arg \in DOMAIN OutputValue   -> [s EXCEPT !.path = f]
                             [] ~Dashed(arg)                 -> c
                             [] OTHER                        -> [s EXCEPT !.at = "refused"]
  BY DEF RecordStep, RecordOption
<1> HIDE DEF f, c
<1>2. arg = "--" => RecordStep(s, arg) = [s EXCEPT !.at = "command"]
  BY <1>1, Texts DEF Dashed, DashedTexts
<1>3. arg \in {"-o", "--output"} => RecordStep(s, arg) = [s EXCEPT !.at = "path"]
  BY <1>1, Texts DEF Dashed, DashedTexts
<1>4. arg \in DOMAIN OutputValue => RecordStep(s, arg) = [s EXCEPT !.path = f]
  BY <1>1, Texts DEF Dashed, DashedTexts
<1>5. ~Dashed(arg) => RecordStep(s, arg) = c
  BY <1>1, Texts DEF Dashed, DashedTexts
<1>6. Dashed(arg) /\ arg \notin {"--", "-o", "--output"} \cup DOMAIN OutputValue
        => RecordStep(s, arg) = [s EXCEPT !.at = "refused"]
  BY <1>1
<1> QED BY <1>2, <1>3, <1>4, <1>5, <1>6 DEF f, c

LEMMA RecordStepIs ==
    ASSUME NEW s, IsRecord(s), NEW arg
    PROVE  LET t == RecordStep(s, arg)
           IN  /\ s.at \in {"options", "path", "command", "refused"} => IsRecord(t)
               /\ s.at = "refused" => t.at = "refused"
               /\ s.at = "path" =>
                     t.at = "options" /\ t.path = arg /\ t.command = s.command
               /\ s.at = "command" =>
                     t.at = "command" /\ t.path = s.path /\ t.command = Append(s.command, arg)
               /\ s.at = "options" /\ arg = "--" =>
                     t.at = "command" /\ t.path = s.path /\ t.command = s.command
               /\ s.at = "options" /\ arg \in {"-o", "--output"} =>
                     t.at = "path" /\ t.command = s.command
               /\ s.at = "options" /\ arg \in DOMAIN OutputValue =>
                     t.at = "options" /\ t.path = OutputValue[arg] /\ t.command = s.command
               /\ s.at = "options" /\ ~Dashed(arg) =>
                     t.at = "command" /\ t.path = s.path /\ t.command = <<arg>>
               /\ s.at = "options" /\ Dashed(arg)
                    /\ arg \notin {"--", "-o", "--output"} \cup DOMAIN OutputValue
                    => t.at = "refused"
<1> DEFINE at == s.at
           path == s.path
           command == s.command
           t == RecordStep(s, arg)
           f == OutputValue[arg]
<1>1. s = [at |-> at, path |-> path, command |-> command]
  BY DEF IsRecord
<1> HIDE DEF at, path, command, t
<1>2. CASE at = "refused"
  <2>1. t = s
    BY <1>1, <1>2 DEF RecordStep, t
  <2> QED BY <1>1, <1>2, <2>1 DEF t, at
<1>3. CASE at = "path"
  <2>1. t = [s EXCEPT !.at = "options", !.path = arg]
    BY <1>1, <1>3 DEF RecordStep, t
  <2> QED BY <1>1, <1>3, <2>1 DEF t, at, command, IsRecord
<1>4. CASE at = "command"
  <2>1. t = [s EXCEPT !.command = Append(s.command, arg)]
    BY <1>1, <1>4 DEF RecordStep, t
  <2> QED BY <1>1, <1>4, <2>1 DEF t, at, path, command, IsRecord
<1>5. CASE at = "options"
  <2>1. s.at = "options"
    BY <1>5 DEF at
  <2>2. /\ arg = "--" => t = [s EXCEPT !.at = "command"]
        /\ arg \in {"-o", "--output"} => t = [s EXCEPT !.at = "path"]
        /\ arg \in DOMAIN OutputValue => t = [s EXCEPT !.path = f]
        /\ ~Dashed(arg) => t = [s EXCEPT !.at = "command", !.command = <<arg>>]
        /\ Dashed(arg) /\ arg \notin {"--", "-o", "--output"} \cup DOMAIN OutputValue
                => t = [s EXCEPT !.at = "refused"]
    BY <2>1, RecordOptionIs DEF t
  <2>3. \/ arg = "--" \/ arg \in {"-o", "--output"} \/ arg \in DOMAIN OutputValue \/ ~Dashed(arg)
        \/ Dashed(arg) /\ arg \notin {"--", "-o", "--output"} \cup DOMAIN OutputValue
    OBVIOUS
  <2> DEFINE word == <<arg>>
  <2> HIDE DEF f, word
  <2>4. IsRecord(t)
    BY <1>1, <2>2, <2>3 DEF IsRecord, word
  <2>5. arg = "--" => t.at = "command" /\ t.path = s.path /\ t.command = s.command
    BY <1>1, <2>2
  <2>6. arg \in {"-o", "--output"} => t.at = "path" /\ t.command = s.command
    BY <1>1, <2>2
  <2>7. arg \in DOMAIN OutputValue => t.at = "options" /\ t.path = f /\ t.command = s.command
    BY <1>1, <1>5, <2>2
  <2>8. ~Dashed(arg) => t.at = "command" /\ t.path = s.path /\ t.command = word
    BY <1>1, <2>2 DEF word
  <2>9. Dashed(arg) /\ arg \notin {"--", "-o", "--output"} \cup DOMAIN OutputValue
          => t.at = "refused"
    BY <1>1, <2>2
  <2> QED BY <2>1, <2>4, <2>5, <2>6, <2>7, <2>8, <2>9 DEF t, f, word
<1>6. CASE at \notin {"options", "path", "command", "refused"}
  BY <1>6 DEF at
<1> QED BY <1>2, <1>3, <1>4, <1>5, <1>6

-----------------------------------------------------------------------------
LEMMA MaxIs ==
    ASSUME NEW T, T \subseteq Nat, T # {}, NEW n \in Nat, \A x \in T : x <= n
    PROVE  Max(T) \in T /\ \A x \in T : x <= Max(T)
<1> DEFINE U == {m \in Nat : \A x \in T : x <= m}
<1>1. PICK m \in U : \A y \in U : m <= y
  <2>1. U \subseteq Nat /\ n \in U
    OBVIOUS
  <2> HIDE DEF U
  <2> QED BY <2>1, LeastNat
<1>2. m \in T
  <2> SUFFICES ASSUME m \notin T PROVE FALSE
    OBVIOUS
  <2>1. \A x \in T : x < m /\ x \in Nat /\ m \in Nat
    BY <1>1
  <2>2. m - 1 \in U
    <3>1. PICK x \in T : TRUE
      OBVIOUS
    <3>2. m - 1 \in Nat
      BY <2>1, <3>1
    <3>3. \A y \in T : y <= m - 1
      BY <2>1
    <3> QED BY <3>2, <3>3
  <2> QED BY <1>1, <2>1, <2>2
<1>3. \E x \in T : \A y \in T : x >= y
  BY <1>1, <1>2
<1>4. \A x \in T : Max(T) >= x
  BY <1>3 DEF Max
<1>5. Max(T) \in T
  BY <1>3 DEF Max
<1> QED BY <1>4, <1>5

LEMMA MaxOf ==
    ASSUME NEW T, T \subseteq Nat, NEW m \in T, \A x \in T : x <= m
    PROVE  Max(T) = m
<1>1. Max(T) \in T /\ \A x \in T : x <= Max(T)
  BY MaxIs
<1>2. Max(T) \in Nat /\ m \in Nat /\ m <= Max(T) /\ Max(T) <= m
  BY <1>1
<1> QED BY <1>2

LEMMA MinIs ==
    ASSUME NEW T, T \subseteq Nat, T # {}
    PROVE  Min(T) \in T /\ \A x \in T : Min(T) <= x
<1>1. \E x \in T : \A y \in T : x <= y
  BY LeastNat
<1> QED BY <1>1 DEF Min

(* Options and values alternate as long as options take values.            *)
LEMMA ValueNext ==
    /\ ~IsValue(1)
    /\ \A i \in Nat : i >= 1 => (IsValue(i + 1) <=> TakesValue(i) /\ ~IsValue(i))
<1> DEFINE T(i) == {j \in 1 .. i - 1 : ~TakesValue(j)} \cup {0}
<1>1. \A i : IsValue(i) <=> (i - 1 - Max(T(i))) % 2 = 1
  BY DEF IsValue
<1>2. ~IsValue(1)
  <2>1. T(1) = {0}
    OBVIOUS
  <2>2. Max({0}) = 0
    BY MaxOf
  <2>3. (1 - 1 - 0) % 2 # 1
    OBVIOUS
  <2> HIDE DEF T
  <2> QED BY <1>1, <2>1, <2>2, <2>3
<1>3. ASSUME NEW i \in Nat, i >= 1
      PROVE  IsValue(i + 1) <=> TakesValue(i) /\ ~IsValue(i)
  <2>1. T(i) \subseteq Nat /\ T(i) # {} /\ \A x \in T(i) : x <= i - 1
    BY <1>3
  <2>2. T(i + 1) = IF TakesValue(i) THEN T(i) ELSE T(i) \cup {i}
    BY <1>3
  <2> DEFINE m == Max(T(i))
  <2>3. m \in T(i) /\ m \in Nat /\ m <= i - 1
    <3>1. i - 1 \in Nat
      BY <1>3
    <3> HIDE DEF T
    <3> QED BY <2>1, <3>1, MaxIs
  <2>4. ~TakesValue(i) => Max(T(i + 1)) = i
    <3> SUFFICES ASSUME ~TakesValue(i) PROVE Max(T(i) \cup {i}) = i
      BY <2>2
    <3>1. /\ T(i) \cup {i} \subseteq Nat /\ i \in T(i) \cup {i}
          /\ \A x \in T(i) \cup {i} : x <= i
      BY <2>1
    <3> HIDE DEF T
    <3> QED BY <3>1, MaxOf
  <2> HIDE DEF T
  <2>5. CASE ~TakesValue(i)
    <3>1. (i + 1) - 1 - i = 0 /\ 0 % 2 # 1
      OBVIOUS
    <3>2. IsValue(i + 1) <=> ((i + 1) - 1 - Max(T(i + 1))) % 2 = 1
      BY <1>1
    <3> QED BY <2>4, <2>5, <3>1, <3>2
  <2>6. CASE TakesValue(i)
    <3>1. IsValue(i + 1) <=> ((i + 1) - 1 - m) % 2 = 1
      BY <1>1, <2>2, <2>6
    <3>2. IsValue(i) <=> (i - 1 - m) % 2 = 1
      BY <1>1
    <3>3. ((i + 1) - 1 - m) % 2 = 1 <=> (i - 1 - m) % 2 # 1
      <4> HIDE DEF m
      <4> QED BY <2>3
    <3> QED BY <2>6, <3>1, <3>2, <3>3
  <2> QED BY <2>5, <2>6
<1> QED BY <1>2, <1>3

-----------------------------------------------------------------------------
(* What the options among the first k arguments say.                       *)
Options(k) == {i \in 1 .. k : ~IsValue(i)}
Strays(k) == \E i \in Options(k) : ~TakesValue(i) /\ args[i] \notin DOMAIN OutputValue
PathOf(options) ==
    IF options = {} THEN Latest
    ELSE LET i == Max(options)
         IN  IF TakesValue(i) THEN args[i + 1] ELSE OutputValue[args[i]]

(* What parseRecordOptions has read when it has come to k, short of where  *)
(* the options end.                                                        *)
ReadsOptions(s, k) ==
    /\ IsRecord(s)
    /\ s.at = IF Strays(k) THEN "refused" ELSE IF IsValue(k + 1) THEN "path" ELSE "options"
    /\ s.at = "options" => s.path = PathOf(Options(k))
    /\ s.at # "refused" => s.command = <<>>

LEMMA OptionsGrow ==
    ASSUME NEW k \in Nat
    PROVE  /\ Options(k + 1) = IF IsValue(k + 1) THEN Options(k) ELSE Options(k) \cup {k + 1}
           /\ \A i \in Options(k) : i \in Nat /\ 1 <= i /\ i <= k
<1>1. 1 .. k + 1 = (1 .. k) \cup {k + 1} /\ k + 1 \notin 1 .. k
  OBVIOUS
<1>2. Options(k + 1) = IF IsValue(k + 1) THEN Options(k) ELSE Options(k) \cup {k + 1}
  BY <1>1 DEF Options
<1>3. \A i \in Options(k) : i \in Nat /\ 1 <= i /\ i <= k
  BY DEF Options
<1> QED BY <1>2, <1>3

LEMMA LastOption ==
    ASSUME NEW k \in Nat, k >= 1, ~IsValue(k)
    PROVE  PathOf(Options(k)) = IF TakesValue(k) THEN args[k + 1] ELSE OutputValue[args[k]]
<1>1. k \in Options(k) /\ Options(k) \subseteq Nat /\ \A i \in Options(k) : i <= k
  BY DEF Options
<1>2. Max(Options(k)) = k
  BY <1>1, MaxOf
<1> QED BY <1>1, <1>2 DEF PathOf

LEMMA OptionRead ==
    ASSUME NEW k \in Nat, NEW s, ReadsOptions(s, k), ~Stops(k + 1)
    PROVE  ReadsOptions(RecordStep(s, args[k + 1]), k + 1)
<1> DEFINE i == k + 1
           arg == args[i]
           t == RecordStep(s, arg)
<1> SUFFICES ReadsOptions(t, i)
  OBVIOUS
<1>1. /\ i \in Nat /\ i >= 1 /\ IsRecord(s)
      /\ s.at = IF Strays(k) THEN "refused" ELSE IF IsValue(i) THEN "path" ELSE "options"
      /\ s.at = "options" => s.path = PathOf(Options(k))
      /\ s.at # "refused" => s.command = <<>>
  BY DEF ReadsOptions
<1>2. IsRecord(t) /\ s.at \in {"options", "path", "command", "refused"}
  BY <1>1, RecordStepIs
<1>3. /\ Options(i) = IF IsValue(i) THEN Options(k) ELSE Options(k) \cup {i}
      /\ IsValue(i + 1) <=> TakesValue(i) /\ ~IsValue(i)
  BY <1>1, OptionsGrow, ValueNext
<1>4. TakesValue(i) <=> arg \in {"-o", "--output"}
  BY DEF TakesValue
<1>5. ~IsValue(i) => arg # "--" /\ Dashed(arg)
  BY DEF Stops
<1>6. Strays(i) <=> \/ Strays(k)
                    \/ ~IsValue(i) /\ ~TakesValue(i) /\ arg \notin DOMAIN OutputValue
  BY <1>3 DEF Strays
<1>7. ReadsOptions(t, i) <=>
        /\ IsRecord(t)
        /\ t.at = IF Strays(i) THEN "refused" ELSE IF IsValue(i + 1) THEN "path" ELSE "options"
        /\ t.at = "options" => t.path = PathOf(Options(i))
        /\ t.at # "refused" => t.command = <<>>
  BY DEF ReadsOptions
<1>8. CASE Strays(k)
  <2>1. s.at = "refused"
    BY <1>1, <1>8
  <2>2. t.at = "refused"
    BY <1>1, <2>1, RecordStepIs
  <2> QED BY <1>2, <1>6, <1>7, <1>8, <2>2
<1>9. CASE ~Strays(k) /\ IsValue(i)
  <2>1. s.at = "path" /\ s.command = <<>>
    BY <1>1, <1>9
  <2>2. t.at = "options" /\ t.path = arg /\ t.command = <<>>
    BY <1>1, <2>1, RecordStepIs
  <2>3. k >= 1 /\ TakesValue(k) /\ ~IsValue(k)
    <3>1. k # 0
      <4>1. k = 0 => i = 1
        OBVIOUS
      <4> QED BY <1>9, <4>1, ValueNext
    <3>2. k >= 1
      BY <3>1
    <3> QED BY <1>9, <3>2, ValueNext
  <2>4. PathOf(Options(i)) = arg
    BY <1>3, <1>9, <2>3, LastOption
  <2> HIDE DEF i, arg, t
  <2> QED BY <1>2, <1>3, <1>6, <1>7, <1>9, <2>2, <2>4
<1>10. CASE ~Strays(k) /\ ~IsValue(i)
  <2>1. s.at = "options" /\ s.command = <<>>
    BY <1>1, <1>10
  <2>2. PathOf(Options(i)) = IF TakesValue(i) THEN args[i + 1] ELSE OutputValue[arg]
    BY <1>1, <1>10, LastOption
  <2>3. CASE TakesValue(i)
    <3>1. t.at = "path" /\ t.command = <<>>
      BY <1>1, <1>4, <2>1, <2>3, RecordStepIs
    <3> HIDE DEF i, arg, t
    <3> QED BY <1>2, <1>3, <1>6, <1>7, <1>10, <2>3, <3>1
  <2>4. CASE ~TakesValue(i) /\ arg \in DOMAIN OutputValue
    <3>1. t.at = "options" /\ t.path = OutputValue[arg] /\ t.command = <<>>
      BY <1>1, <2>1, <2>4, RecordStepIs
    <3> HIDE DEF i, arg, t
    <3> QED BY <1>2, <1>3, <1>6, <1>7, <1>10, <2>2, <2>4, <3>1
  <2>5. CASE ~TakesValue(i) /\ arg \notin DOMAIN OutputValue
    <3>1. t.at = "refused"
      BY <1>1, <1>4, <1>5, <1>10, <2>1, <2>5, RecordStepIs
    <3> HIDE DEF i, arg, t
    <3> QED BY <1>2, <1>3, <1>6, <1>7, <1>10, <2>5, <3>1
  <2> QED BY <2>3, <2>4, <2>5
<1> QED BY <1>8, <1>9, <1>10

LEMMA BeforeStop ==
    ASSUME Len(args) \in Nat
    PROVE  \A k \in 0 .. Len(args) :
               (\A i \in 1 .. k : ~Stops(i)) => ReadsOptions(RecordAfter(args)[k], k)
<1> DEFINE n == Len(args)
           R == RecordAfter(args)
           G == {k \in Nat : k <= n /\ (\A i \in 1 .. k : ~Stops(i)) => ReadsOptions(R[k], k)}
<1>1. \A k \in 0 .. n : R[k] = IF k = 0 THEN RecordStart ELSE RecordStep(R[k - 1], args[k])
  BY Loops DEF RecordNext
<1> HIDE DEF R
<1>2. 0 \in G
  <2>1. R[0] = RecordStart
    BY <1>1
  <2>2. Options(0) = {} /\ ~Strays(0) /\ ~IsValue(0 + 1)
    <3>1. Options(0) = {}
      BY DEF Options
    <3>2. 0 + 1 = 1
      OBVIOUS
    <3> QED BY <3>1, <3>2, ValueNext DEF Strays
  <2>3. ReadsOptions(RecordStart, 0)
    BY <2>2 DEF ReadsOptions, RecordStart, IsRecord, PathOf
  <2> QED BY <2>1, <2>3
<1>3. ASSUME NEW k \in Nat, k \in G PROVE k + 1 \in G
  <2> SUFFICES ASSUME k + 1 <= n, \A i \in 1 .. k + 1 : ~Stops(i)
               PROVE  ReadsOptions(R[k + 1], k + 1)
    OBVIOUS
  <2>1. k + 1 \in 0 .. n /\ k + 1 # 0 /\ (k + 1) - 1 = k /\ k <= n
    OBVIOUS
  <2>2. (\A i \in 1 .. k : ~Stops(i)) /\ ~Stops(k + 1)
    OBVIOUS
  <2>3. ReadsOptions(R[k], k)
    BY <1>3, <2>1, <2>2
  <2>4. R[k + 1] = RecordStep(R[k], args[k + 1])
    BY <1>1, <2>1
  <2> HIDE DEF G, n
  <2> QED BY <2>2, <2>3, <2>4, OptionRead
<1>4. Nat \subseteq G
  <2> HIDE DEF G
  <2> QED BY <1>2, <1>3, Induction
<1> QED BY <1>4 DEF R

LEMMA AppendIs ==
    ASSUME NEW D, NEW s \in Seq(D), NEW v \in D
    PROVE  LET u == Append(s, v)
           IN  /\ u \in Seq(D) /\ Len(u) = Len(s) + 1 /\ u[Len(s) + 1] = v
               /\ \A i \in 1 .. Len(s) : u[i] = s[i]
OBVIOUS

LEMMA SubSeqIs ==
    ASSUME NEW D, NEW w \in Seq(D), NEW m \in 1 .. Len(w) + 1, NEW k \in m - 1 .. Len(w)
    PROVE  LET s == SubSeq(w, m, k)
           IN  /\ s \in Seq(D) /\ Len(s) = k - m + 1
               /\ \A i \in 1 .. Len(s) : s[i] = w[m + i - 1]
OBVIOUS

LEMMA SubSeqGrows ==
    ASSUME NEW D, NEW w \in Seq(D), NEW m \in 1 .. Len(w) + 1, NEW k \in m - 1 .. Len(w)
    PROVE  /\ SubSeq(w, m, m - 1) = <<>>
           /\ m <= Len(w) => SubSeq(w, m, m) = <<w[m]>>
           /\ k + 1 <= Len(w) => SubSeq(w, m, k + 1) = Append(SubSeq(w, m, k), w[k + 1])
<1>1. Len(w) \in Nat /\ m \in Nat /\ k \in Nat /\ m >= 1 /\ \A i \in 1 .. Len(w) : w[i] \in D
  OBVIOUS
<1>2. SubSeq(w, m, m - 1) = <<>>
  BY <1>1
<1>3. ASSUME m <= Len(w) PROVE SubSeq(w, m, m) = <<w[m]>>
  <2> DEFINE s == SubSeq(w, m, m)
             u == <<w[m]>>
  <2>1. s \in Seq(D) /\ Len(s) = 1 /\ s[1] = w[m]
    BY <1>1, <1>3
  <2>2. u \in Seq(D) /\ Len(u) = 1 /\ u[1] = w[m]
    BY <1>1, <1>3
  <2> HIDE DEF s, u
  <2>3. s = u
    BY <2>1, <2>2
  <2> QED BY <2>3 DEF s, u
<1>4. ASSUME k + 1 <= Len(w)
      PROVE  SubSeq(w, m, k + 1) = Append(SubSeq(w, m, k), w[k + 1])
  <2> DEFINE s == SubSeq(w, m, k)
             t == SubSeq(w, m, k + 1)
             v == w[k + 1]
             u == Append(s, v)
  <2>1. /\ s \in Seq(D) /\ Len(s) = k - m + 1 /\ \A i \in 1 .. Len(s) : s[i] = w[m + i - 1]
        /\ t \in Seq(D) /\ Len(t) = k + 1 - m + 1 /\ \A i \in 1 .. Len(t) : t[i] = w[m + i - 1]
    <3>1. k + 1 \in m - 1 .. Len(w)
      BY <1>1, <1>4
    <3> QED BY <3>1, SubSeqIs
  <2> HIDE DEF s, t
  <2>2. w[k + 1] \in D
    BY <1>1, <1>4
  <2>3. /\ u \in Seq(D) /\ Len(u) = Len(s) + 1 /\ u[Len(s) + 1] = v
        /\ \A i \in 1 .. Len(s) : u[i] = s[i]
    <3>1. s \in Seq(D) /\ v \in D
      BY <2>1, <2>2
    <3> HIDE DEF v
    <3> QED BY <3>1, AppendIs
  <2> HIDE DEF u
  <2>4. Len(t) = Len(u)
    BY <1>1, <2>1, <2>3
  <2>5. ASSUME NEW i \in 1 .. Len(t) PROVE t[i] = u[i]
    <3>1. i \in 1 .. Len(s) \/ (i = Len(s) + 1 /\ m + i - 1 = k + 1)
      BY <1>1, <2>1
    <3> QED BY <2>1, <2>3, <3>1
  <2> QED BY <2>1, <2>3, <2>4, <2>5 DEF s, t, u
<1> QED BY <1>2, <1>3, <1>4

(* Behind the options everything is a word of the command.                 *)
FirstWord(stop) == IF args[stop] = "--" THEN stop + 1 ELSE stop

ReadsCommand(s, stop, k) ==
    /\ IsRecord(s)
    /\ s.at = IF Strays(stop - 1) THEN "refused" ELSE "command"
    /\ s.at = "command" => /\ s.path = PathOf(Options(stop - 1))
                           /\ s.command = SubSeq(args, FirstWord(stop), k)

LEMMA AtStop ==
    ASSUME NEW S, args \in Seq(S), NEW stop \in 1 .. Len(args), Stops(stop),
           \A i \in 1 .. stop - 1 : ~Stops(i)
    PROVE  ReadsCommand(RecordAfter(args)[stop], stop, stop)
<1> DEFINE n == Len(args)
           R == RecordAfter(args)
           s == R[stop - 1]
           arg == args[stop]
           t == R[stop]
<1>1. n \in Nat /\ stop - 1 \in 0 .. n /\ stop \in 0 .. n /\ stop # 0 /\ (stop - 1) + 1 = stop
  OBVIOUS
<1>2. t = RecordStep(s, arg)
  <2>1. \A k \in 0 .. n : R[k] = IF k = 0 THEN RecordStart ELSE RecordStep(R[k - 1], args[k])
    BY <1>1, Loops DEF RecordNext
  <2> HIDE DEF R
  <2> QED BY <1>1, <2>1
<1>3. ReadsOptions(s, stop - 1)
  <2>1. \A k \in 0 .. n : (\A i \in 1 .. k : ~Stops(i)) => ReadsOptions(R[k], k)
    BY <1>1, BeforeStop
  <2> HIDE DEF R
  <2> QED BY <1>1, <2>1
<1>4. ~IsValue(stop) /\ (arg = "--" \/ ~Dashed(arg))
  BY DEF Stops
<1> HIDE DEF s, t
<1>5. /\ IsRecord(s) /\ s.at = IF Strays(stop - 1) THEN "refused" ELSE "options"
      /\ s.at = "options" => s.path = PathOf(Options(stop - 1)) /\ s.command = <<>>
  BY <1>1, <1>3, <1>4 DEF ReadsOptions
<1>6. IsRecord(t)
  BY <1>2, <1>5, RecordStepIs
<1>7. CASE Strays(stop - 1)
  <2>1. t.at = "refused"
    BY <1>2, <1>5, <1>7, RecordStepIs
  <2> QED BY <1>6, <1>7, <2>1 DEF ReadsCommand, t
<1>8. CASE ~Strays(stop - 1) /\ arg = "--"
  <2>1. t.at = "command" /\ t.path = PathOf(Options(stop - 1)) /\ t.command = <<>>
    BY <1>2, <1>5, <1>8, RecordStepIs
  <2>2. SubSeq(args, FirstWord(stop), stop) = <<>>
    <3>1. stop + 1 \in 1 .. Len(args) + 1 /\ (stop + 1) - 1 = stop
          /\ stop \in (stop + 1) - 1 .. Len(args)
      BY <1>1
    <3>2. SubSeq(args, stop + 1, (stop + 1) - 1) = <<>>
      BY <3>1, SubSeqGrows
    <3> QED BY <1>8, <3>1, <3>2 DEF FirstWord
  <2> QED BY <1>6, <1>8, <2>1, <2>2 DEF ReadsCommand, t
<1>9. CASE ~Strays(stop - 1) /\ arg # "--"
  <2>1. t.at = "command" /\ t.path = PathOf(Options(stop - 1)) /\ t.command = <<arg>>
    BY <1>2, <1>4, <1>5, <1>9, RecordStepIs
  <2>2. SubSeq(args, FirstWord(stop), stop) = <<arg>>
    <3>1. stop \in 1 .. Len(args) + 1 /\ stop <= Len(args) /\ stop \in stop - 1 .. Len(args)
      BY <1>1
    <3>2. SubSeq(args, stop, stop) = <<args[stop]>>
      BY <3>1, SubSeqGrows
    <3> QED BY <1>9, <3>2 DEF FirstWord
  <2> QED BY <1>6, <1>9, <2>1, <2>2 DEF ReadsCommand, t
<1> QED BY <1>7, <1>8, <1>9

LEMMA AfterStop ==
    ASSUME NEW S, args \in Seq(S), NEW stop \in 1 .. Len(args), Stops(stop),
           \A i \in 1 .. stop - 1 : ~Stops(i)
    PROVE  ReadsCommand(RecordAfter(args)[Len(args)], stop, Len(args))
<1> DEFINE n == Len(args)
           R == RecordAfter(args)
           G == {k \in Nat : k <= n - stop => ReadsCommand(R[stop + k], stop, stop + k)}
<1>1. n \in Nat /\ stop \in 1 .. n /\ n - stop \in Nat /\ stop + (n - stop) = n /\ stop + 0 = stop
  OBVIOUS
<1>2. \A k \in 0 .. n : R[k] = IF k = 0 THEN RecordStart ELSE RecordStep(R[k - 1], args[k])
  BY <1>1, Loops DEF RecordNext
<1>3. ReadsCommand(R[stop], stop, stop)
  BY AtStop
<1> HIDE DEF R
<1>4. 0 \in G
  BY <1>1, <1>3
<1>5. ASSUME NEW k \in Nat, k \in G PROVE k + 1 \in G
  <2> DEFINE m == stop + k
             s == R[m]
             arg == args[m + 1]
             t == RecordStep(s, arg)
  <2> SUFFICES ASSUME k + 1 <= n - stop PROVE ReadsCommand(R[m + 1], stop, m + 1)
    <3>1. stop + (k + 1) = m + 1
      BY <1>1
    <3> QED BY <3>1
  <2>1. /\ m \in stop .. n /\ m + 1 <= n /\ m + 1 \in 0 .. n /\ m + 1 # 0 /\ (m + 1) - 1 = m
        /\ k <= n - stop
    BY <1>1
  <2>2. ReadsCommand(s, stop, m)
    BY <1>5, <2>1
  <2>3. R[m + 1] = t
    BY <1>2, <2>1
  <2>4. SubSeq(args, FirstWord(stop), m + 1) = Append(SubSeq(args, FirstWord(stop), m), arg)
    <3>1. FirstWord(stop) \in 1 .. Len(args) + 1 /\ m \in FirstWord(stop) - 1 .. Len(args)
          /\ m + 1 <= Len(args)
      BY <1>1, <2>1 DEF FirstWord
    <3> HIDE DEF m
    <3> QED BY <3>1, SubSeqGrows
  <2> HIDE DEF s, m, G, n
  <2>5. IsRecord(t)
    BY <2>2, RecordStepIs DEF ReadsCommand
  <2>6. CASE Strays(stop - 1)
    <3>1. t.at = "refused"
      BY <2>2, <2>6, RecordStepIs DEF ReadsCommand
    <3> HIDE DEF t
    <3> QED BY <2>3, <2>5, <2>6, <3>1 DEF ReadsCommand
  <2>7. CASE ~Strays(stop - 1)
    <3>1. s.at = "command" /\ IsRecord(s) /\ s.path = PathOf(Options(stop - 1))
          /\ s.command = SubSeq(args, FirstWord(stop), m)
      BY <2>2, <2>7 DEF ReadsCommand
    <3>2. t.at = "command" /\ t.path = s.path /\ t.command = Append(s.command, arg)
      BY <3>1, RecordStepIs
    <3> HIDE DEF t
    <3> QED BY <2>3, <2>4, <2>5, <2>7, <3>1, <3>2 DEF ReadsCommand
  <2> QED BY <2>6, <2>7
<1>6. n - stop \in G
  <2>1. Nat \subseteq G
    <3> HIDE DEF G
    <3> QED BY <1>4, <1>5, Induction
  <2> HIDE DEF G
  <2> QED BY <1>1, <2>1
<1>7. ReadsCommand(R[n], stop, n)
  BY <1>1, <1>6
<1> QED BY <1>7 DEF R

(* The command line of run is taken apart as its options say: what follows *)
(* them is the command, word for word (parseRecordOptions).                *)
THEOREM CommandsAreVerbatim == Spec => []CommandIsVerbatim
<1>1. Written => CommandIsVerbatim
  <2> SUFFICES ASSUME Written PROVE CommandIsVerbatim
    OBVIOUS
  <2> DEFINE n == Len(args)
             s == RecordAfter(args)[n]
             parsed == ParseRecordOptions(args)
             stops == {i \in 1 .. n : Stops(i)}
             stop == Min(stops \cup {n + 1})
             options == {i \in 1 .. stop - 1 : ~IsValue(i)}
             known == \A i \in options : \/ TakesValue(i) /\ i + 1 < stop
                                         \/ args[i] \in DOMAIN OutputValue
             path == IF options = {} THEN Latest
                     ELSE LET i == Max(options)
                          IN  IF TakesValue(i) THEN args[i + 1] ELSE OutputValue[args[i]]
             command == IF stop > n THEN <<>>
                        ELSE SubSeq(args, IF args[stop] = "--" THEN stop + 1 ELSE stop, n)
  <2>1. args \in Seq(Args) /\ n \in Nat
    BY DEF Written
  <2>2. parsed = RecordAnswer(s)
    BY Answers
  <2>3. /\ stop \in stops \cup {n + 1} /\ stop \in Nat /\ \A i \in stops \cup {n + 1} : stop <= i
    <3>1. stops \cup {n + 1} \subseteq Nat /\ stops \cup {n + 1} # {}
      BY <2>1
    <3> HIDE DEF stops
    <3> QED BY <3>1, MinIs
  <2>4. options = Options(stop - 1) /\ path = PathOf(Options(stop - 1))
    BY DEF Options, PathOf
  <2> HIDE DEF s, stop, options, path, parsed
  <2>5. CASE stop = n + 1
    <3>1. command = <<>>
      <4>1. stop > n
        BY <2>1, <2>5
      <4> QED BY <4>1
    <3>2. \A i \in 1 .. n : ~Stops(i)
      BY <2>1, <2>3, <2>5
    <3>3. ReadsOptions(s, n)
      BY <2>1, <3>2, BeforeStop DEF s
    <3>4. s.at \in {"path", "refused"} \/ s.command = <<>>
      BY <3>3 DEF ReadsOptions
    <3>5. parsed = Refused
      BY <2>2, <3>4 DEF RecordAnswer
    <3> HIDE DEF command, known
    <3>6. parsed = IF ~known \/ command = <<>> \/ path \in {"", "-"} THEN Refused
                   ELSE [ok |-> TRUE, path |-> path, command |-> command]
      BY <3>1, <3>5
    <3> QED BY <3>6 DEF CommandIsVerbatim, known, command, path, options, stop, parsed
  <2>6. CASE stop \in 1 .. n
    <3>1. Stops(stop) /\ \A i \in 1 .. stop - 1 : ~Stops(i)
      <4>1. stop \in stops
        BY <2>1, <2>3, <2>6
      <4>2. \A i \in 1 .. stop - 1 : i \in 1 .. n /\ ~(stop <= i)
        BY <2>1, <2>6
      <4> QED BY <2>3, <4>1, <4>2
    <3>2. ReadsCommand(s, stop, n)
      BY <2>1, <2>6, <3>1, AfterStop DEF s
    <3>3. known <=> ~Strays(stop - 1)
      <4>1. ASSUME NEW i \in options, TakesValue(i) PROVE i + 1 < stop
        <5>1. i \in 1 .. stop - 1 /\ ~IsValue(i)
          BY DEF options
        <5>2. i # stop - 1
          <6> SUFFICES ASSUME i = stop - 1 PROVE FALSE
            OBVIOUS
          <6>1. IsValue(i + 1)
            BY <4>1, <5>1, ValueNext
          <6>2. i + 1 = stop
            BY <2>1, <2>6
          <6>3. ~IsValue(stop)
            BY <3>1 DEF Stops
          <6> QED BY <6>1, <6>2, <6>3
        <5> QED BY <2>1, <2>6, <5>1, <5>2
      <4>2. known <=> \A i \in options : TakesValue(i) \/ args[i] \in DOMAIN OutputValue
        BY <4>1
      <4> HIDE DEF known
      <4> QED BY <2>4, <4>2 DEF Strays
    <3>4. command = SubSeq(args, FirstWord(stop), n)
      BY <2>1, <2>6 DEF FirstWord
    <3> HIDE DEF command, known
    <3>5. s.at = (IF known THEN "command" ELSE "refused")
          /\ (known => s.path = path /\ s.command = command)
      BY <2>4, <3>2, <3>3, <3>4 DEF ReadsCommand
    <3>6. parsed = IF ~known \/ command = <<>> \/ path \in {"", "-"} THEN Refused
                   ELSE [ok |-> TRUE, path |-> path, command |-> command]
      BY <2>2, <3>5 DEF RecordAnswer
    <3> QED BY <3>6 DEF CommandIsVerbatim, known, command, path, options, stop, parsed
  <2> QED BY <2>1, <2>3, <2>5, <2>6
<1> QED BY <1>1, WrittenInvariant, PTL

-----------------------------------------------------------------------------
(***************************************************************************)
(* Sequences.                                                              *)
(***************************************************************************)
LEMMA ConcatIs ==
    ASSUME NEW D, NEW a \in Seq(D), NEW b \in Seq(D)
    PROVE  LET c == a \o b
           IN  /\ c \in Seq(D) /\ Len(c) = Len(a) + Len(b) /\ Len(a) \in Nat /\ Len(b) \in Nat
               /\ \A i \in 1 .. Len(a) : c[i] = a[i]
               /\ \A i \in 1 .. Len(b) : c[Len(a) + i] = b[i]
OBVIOUS

LEMMA ConcatEmpty ==
    ASSUME NEW D, NEW a \in Seq(D)
    PROVE  <<>> \o a = a /\ a \o <<>> = a /\ <<>> \in Seq(D)
OBVIOUS

LEMMA SeqsEqual ==
    ASSUME NEW D, NEW a \in Seq(D), NEW b \in Seq(D), Len(a) = Len(b),
           \A i \in 1 .. Len(a) : a[i] = b[i]
    PROVE  a = b
OBVIOUS

LEMMA ConcatAssoc ==
    ASSUME NEW D, NEW a \in Seq(D), NEW b \in Seq(D), NEW c \in Seq(D)
    PROVE  (a \o b) \o c = a \o (b \o c)
OBVIOUS

LEMMA SubSeqOfConcat ==
    ASSUME NEW D, NEW a \in Seq(D), NEW b \in Seq(D),
           NEW m \in 1 .. Len(b) + 1, NEW k \in m - 1 .. Len(b)
    PROVE  /\ SubSeq(a \o b, Len(a) + m, Len(a) + k) = SubSeq(b, m, k)
           /\ SubSeq(a \o b, 1, Len(a)) = a
<1> DEFINE c == a \o b
           n == Len(a)
           s == SubSeq(c, n + m, n + k)
           t == SubSeq(b, m, k)
           u == SubSeq(c, 1, n)
<1>1. /\ c \in Seq(D) /\ Len(c) = n + Len(b) /\ n \in Nat /\ Len(b) \in Nat
      /\ \A i \in 1 .. n : c[i] = a[i]
      /\ \A i \in 1 .. Len(b) : c[n + i] = b[i]
  BY ConcatIs
<1> HIDE DEF c, n
<1>2. n + m \in 1 .. Len(c) + 1 /\ n + k \in (n + m) - 1 .. Len(c) /\ k \in Nat /\ m \in Nat /\ m >= 1
  BY <1>1
<1>3. s \in Seq(D) /\ Len(s) = (n + k) - (n + m) + 1 /\ \A i \in 1 .. Len(s) : s[i] = c[(n + m) + i - 1]
  BY <1>1, <1>2, SubSeqIs
<1>4. t \in Seq(D) /\ Len(t) = k - m + 1 /\ \A i \in 1 .. Len(t) : t[i] = b[m + i - 1]
  BY SubSeqIs
<1>5. u \in Seq(D) /\ Len(u) = n - 1 + 1 /\ \A i \in 1 .. Len(u) : u[i] = c[1 + i - 1]
  <2>1. 1 \in 1 .. Len(c) + 1 /\ n \in 1 - 1 .. Len(c)
    BY <1>1
  <2> QED BY <1>1, <2>1, SubSeqIs
<1> HIDE DEF s, t, u
<1>6. Len(s) = Len(t) /\ Len(t) \in Nat
  BY <1>1, <1>2, <1>3, <1>4
<1>7. ASSUME NEW i \in 1 .. Len(s) PROVE s[i] = t[i]
  <2>1. m + i - 1 \in 1 .. Len(b) /\ (n + m) + i - 1 = n + (m + i - 1)
    BY <1>1, <1>2, <1>4, <1>6
  <2>2. s[i] = c[n + (m + i - 1)] /\ t[i] = b[m + i - 1]
    BY <1>3, <1>4, <1>6, <2>1
  <2> QED BY <1>1, <2>1, <2>2
<1>8. s = t
  BY <1>3, <1>4, <1>6, <1>7, SeqsEqual
<1>9. u = a
  <2>1. Len(u) = Len(a)
    BY <1>1, <1>5 DEF n
  <2>2. ASSUME NEW i \in 1 .. Len(u) PROVE u[i] = a[i]
    <3>1. i \in 1 .. n /\ 1 + i - 1 = i
      BY <2>1 DEF n
    <3> QED BY <1>1, <1>5, <3>1
  <2> QED BY <1>5, <2>1, <2>2, SeqsEqual
<1> QED BY <1>8, <1>9 DEF c, n, s, t, u

-----------------------------------------------------------------------------
(***************************************************************************)
(* Lines.                                                                  *)
(***************************************************************************)
LEMMA LineEndIs ==
    ASSUME NEW value, Len(value) \in Nat, NEW i \in 1 .. Len(value) + 1, NEW breaks
    PROVE  LET e == LineEnd(value, i, breaks)
           IN  /\ e \in i .. Len(value) + 1
               /\ \A j \in i .. e - 1 : value[j] \notin breaks
               /\ e <= Len(value) => value[e] \in breaks
<1> DEFINE T == {j \in i .. Len(value) : value[j] \in breaks} \cup {Len(value) + 1}
           e == Min(T)
<1>1. T \subseteq Nat /\ T # {} /\ Len(value) + 1 \in T
  OBVIOUS
<1>2. e \in T /\ \A x \in T : e <= x
  <2> HIDE DEF T
  <2> QED BY <1>1, MinIs
<1>3. LineEnd(value, i, breaks) = e
  BY DEF LineEnd
<1> HIDE DEF e
<1>4. e \in i .. Len(value) + 1 /\ (e <= Len(value) => value[e] \in breaks)
  BY <1>2
<1>5. ASSUME NEW j \in i .. e - 1 PROVE value[j] \notin breaks
  <2>1. j \in i .. Len(value) /\ ~(e <= j)
    BY <1>4
  <2> QED BY <1>2, <2>1
<1> QED BY <1>3, <1>4, <1>5

LEMMA LineEndWhere ==
    ASSUME NEW value, Len(value) \in Nat, NEW i \in 1 .. Len(value) + 1, NEW breaks,
           NEW e \in i .. Len(value) + 1, \A j \in i .. e - 1 : value[j] \notin breaks,
           e <= Len(value) => value[e] \in breaks
    PROVE  LineEnd(value, i, breaks) = e
<1> DEFINE f == LineEnd(value, i, breaks)
<1>1. /\ f \in i .. Len(value) + 1
      /\ \A j \in i .. f - 1 : value[j] \notin breaks
      /\ f <= Len(value) => value[f] \in breaks
  BY LineEndIs
<1> HIDE DEF f
<1>2. ~(f < e)
  <2> SUFFICES ASSUME f < e PROVE FALSE
    OBVIOUS
  <2>1. f \in i .. e - 1 /\ f <= Len(value)
    BY <1>1
  <2> QED BY <1>1, <2>1
<1>3. ~(e < f)
  <2> SUFFICES ASSUME e < f PROVE FALSE
    OBVIOUS
  <2>1. e \in i .. f - 1 /\ e <= Len(value)
    BY <1>1
  <2> QED BY <1>1, <2>1
<1>4. f = e
  BY <1>1, <1>2, <1>3
<1> QED BY <1>4 DEF f

(* A sequence written piece by piece, each position naming the end of its  *)
(* piece: the recursion of LinesOf and of WritePrefixed.                   *)
Piecewise(n, piece, end, f, i) == IF i > n THEN <<>> ELSE piece[i] \o f[end[i] + 1]

LEMMA PiecewiseExists ==
    ASSUME NEW n \in Nat, NEW piece, NEW end, \A i \in 1 .. n : end[i] \in i .. n + 1
    PROVE  \E f : f = [i \in 1 .. n + 2 |-> Piecewise(n, piece, end, f, i)]
<1> DEFINE top == n + 2
           Is(f, k) == f = [i \in top + 1 - k .. top |-> Piecewise(n, piece, end, f, i)]
           G == {k \in Nat : k <= top => \E f : Is(f, k)}
<1>0. ASSUME NEW i \in 1 .. top, NEW f, NEW g, \A j \in i + 1 .. top : f[j] = g[j]
      PROVE  Piecewise(n, piece, end, f, i) = Piecewise(n, piece, end, g, i)
  <2>1. CASE i > n
    BY <2>1 DEF Piecewise
  <2>2. CASE i <= n
    <3>1. end[i] \in i .. n + 1
      BY <2>2
    <3>2. end[i] + 1 \in i + 1 .. top
      BY <3>1
    <3>3. f[end[i] + 1] = g[end[i] + 1]
      BY <1>0, <3>2
    <3> QED BY Zenon, <3>3 DEF Piecewise
  <2> QED BY <2>1, <2>2
<1>1. 0 \in G
  <2> DEFINE none == [i \in {} |-> 1]
  <2>1. Is(none, 0)
    OBVIOUS
  <2> HIDE DEF none
  <2> QED BY <2>1
<1>2. ASSUME NEW k \in Nat, k \in G PROVE k + 1 \in G
  <2> SUFFICES ASSUME k + 1 <= top PROVE \E f : Is(f, k + 1)
    OBVIOUS
  <2>1. PICK f : Is(f, k)
    BY <1>2
  <2> DEFINE h == top - k
             more == [i \in h .. top |->
                        IF i > h THEN f[i] ELSE Piecewise(n, piece, end, f, i)]
  <2>2. /\ h \in 1 .. top /\ top + 1 - k = h + 1 /\ top + 1 - (k + 1) = h
        /\ \A i \in h + 1 .. top : more[i] = f[i]
    OBVIOUS
  <2>3. ASSUME NEW i \in h .. top
        PROVE  Piecewise(n, piece, end, f, i) = Piecewise(n, piece, end, more, i)
    <3>1. i \in 1 .. top /\ \A j \in i + 1 .. top : f[j] = more[j]
      BY <2>2
    <3> HIDE DEF more, top
    <3> QED BY <3>1, <1>0
  <2>4. \A i \in h + 1 .. top : f[i] = Piecewise(n, piece, end, f, i)
    <3>1. f = [i \in h + 1 .. top |-> Piecewise(n, piece, end, f, i)]
      BY <2>1, <2>2
    <3> QED BY <3>1
  <2>5. more = [i \in h .. top |-> Piecewise(n, piece, end, more, i)]
    <3>1. \A i \in h .. top : (IF i > h THEN f[i] ELSE Piecewise(n, piece, end, f, i))
                                = Piecewise(n, piece, end, f, i)
      BY <2>4
    <3>2. more = [i \in h .. top |-> Piecewise(n, piece, end, f, i)]
      BY <3>1
    <3> HIDE DEF more, h, top
    <3> QED BY <2>3, <3>2
  <2>6. Is(more, k + 1)
    <3> HIDE DEF more
    <3> QED BY <2>2, <2>5
  <2> HIDE DEF more, Is
  <2> QED BY <2>6
<1>3. Nat \subseteq G
  <2> HIDE DEF G
  <2> QED BY <1>1, <1>2, Induction
<1>4. top \in Nat /\ top + 1 - top = 1
  OBVIOUS
<1>5. \E f : Is(f, top)
  <2> HIDE DEF Is
  <2> QED BY <1>3, <1>4
<1> QED BY <1>4, <1>5

(* Ends of lines and what stands between them.                             *)
EndsOf(value, breaks) == [i \in 1 .. Len(value) |-> LineEnd(value, i, breaks)]
Body(value, i, breaks) == SubSeq(value, i, LineEnd(value, i, breaks) - 1)

LinesFrom(value) ==
    CHOOSE from : from = [i \in 1 .. Len(value) + 2 |->
        IF i > Len(value) THEN <<>>
        ELSE <<SubSeq(value, i, LineEnd(value, i, Breaks) - 1)>>
                 \o from[LineEnd(value, i, Breaks) + 1]]

PrefixedFrom(value) ==
    CHOOSE from : from = [i \in 1 .. Len(value) + 2 |->
        IF i > Len(value) THEN <<>>
        ELSE Prefix \o SubSeq(value, i, LineEnd(value, i, {NL}) - 1) \o <<NL>>
                 \o from[LineEnd(value, i, {NL}) + 1]]

LEMMA LinesUnfold ==
    ASSUME NEW value, Len(value) \in Nat
    PROVE  /\ LinesOf(value) = LinesFrom(value)[1]
           /\ \A i \in 1 .. Len(value) + 2 :
                LinesFrom(value)[i] =
                    IF i > Len(value) THEN <<>>
                    ELSE <<Body(value, i, Breaks)>>
                           \o LinesFrom(value)[LineEnd(value, i, Breaks) + 1]
<1> DEFINE n == Len(value)
           piece == [i \in 1 .. n |-> <<Body(value, i, Breaks)>>]
           end == EndsOf(value, Breaks)
           Rest(f, i) == IF i > n THEN <<>>
                         ELSE <<Body(value, i, Breaks)>> \o f[LineEnd(value, i, Breaks) + 1]
<1>1. \A i \in 1 .. n : end[i] = LineEnd(value, i, Breaks) /\ piece[i] = <<Body(value, i, Breaks)>>
  BY DEF EndsOf
<1>2. \A i \in 1 .. n : end[i] \in i .. n + 1
  <2> SUFFICES ASSUME NEW i \in 1 .. n PROVE end[i] \in i .. n + 1
    OBVIOUS
  <2>1. i \in 1 .. Len(value) + 1
    OBVIOUS
  <2>2. LineEnd(value, i, Breaks) \in i .. Len(value) + 1
    BY <2>1, LineEndIs
  <2> QED BY <1>1, <2>2
<1> HIDE DEF piece, end
<1>3. \A f : \A i \in 1 .. n + 2 : Piecewise(n, piece, end, f, i) = Rest(f, i)
  <2> SUFFICES ASSUME NEW f, NEW i \in 1 .. n + 2 PROVE Piecewise(n, piece, end, f, i) = Rest(f, i)
    OBVIOUS
  <2>1. ~(i > n) => i \in 1 .. n
    OBVIOUS
  <2> QED BY Zenon, <1>1, <2>1 DEF Piecewise
<1>4. PICK f : f = [i \in 1 .. n + 2 |-> Piecewise(n, piece, end, f, i)]
  BY <1>2, PiecewiseExists
<1>5. f = [i \in 1 .. n + 2 |-> Rest(f, i)]
  BY <1>3, <1>4
<1>6. LinesFrom(value) = CHOOSE from : from = [i \in 1 .. n + 2 |-> Rest(from, i)]
  BY DEF LinesFrom, Body
<1>7. LinesFrom(value) = [i \in 1 .. n + 2 |-> Rest(LinesFrom(value), i)]
  <2> HIDE DEF Rest, n
  <2> QED BY <1>5, <1>6
<1>8. LinesOf(value) = LinesFrom(value)[1]
  BY DEF LinesOf, LinesFrom
<1> QED BY <1>7, <1>8

LEMMA PrefixedUnfold ==
    ASSUME NEW value, Len(value) \in Nat
    PROVE  /\ WritePrefixed(value) = PrefixedFrom(value)[1]
           /\ \A i \in 1 .. Len(value) + 2 :
                PrefixedFrom(value)[i] =
                    IF i > Len(value) THEN <<>>
                    ELSE Prefix \o Body(value, i, {NL}) \o <<NL>>
                           \o PrefixedFrom(value)[LineEnd(value, i, {NL}) + 1]
<1> DEFINE n == Len(value)
           piece == [i \in 1 .. n |-> Prefix \o Body(value, i, {NL}) \o <<NL>>]
           end == EndsOf(value, {NL})
           Rest(f, i) == IF i > n THEN <<>>
                         ELSE Prefix \o Body(value, i, {NL}) \o <<NL>>
                                \o f[LineEnd(value, i, {NL}) + 1]
<1>1. \A i \in 1 .. n : /\ end[i] = LineEnd(value, i, {NL})
                        /\ piece[i] = Prefix \o Body(value, i, {NL}) \o <<NL>>
  BY DEF EndsOf
<1>2. \A i \in 1 .. n : end[i] \in i .. n + 1
  <2> SUFFICES ASSUME NEW i \in 1 .. n PROVE end[i] \in i .. n + 1
    OBVIOUS
  <2>1. i \in 1 .. Len(value) + 1
    OBVIOUS
  <2>2. LineEnd(value, i, {NL}) \in i .. Len(value) + 1
    BY <2>1, LineEndIs
  <2> QED BY <1>1, <2>2
<1> HIDE DEF piece, end
<1>3. \A f : \A i \in 1 .. n + 2 : Piecewise(n, piece, end, f, i) = Rest(f, i)
  <2> SUFFICES ASSUME NEW f, NEW i \in 1 .. n + 2 PROVE Piecewise(n, piece, end, f, i) = Rest(f, i)
    OBVIOUS
  <2>1. ~(i > n) => i \in 1 .. n
    OBVIOUS
  <2> QED BY Zenon, <1>1, <2>1 DEF Piecewise
<1>4. PICK f : f = [i \in 1 .. n + 2 |-> Piecewise(n, piece, end, f, i)]
  BY <1>2, PiecewiseExists
<1>5. f = [i \in 1 .. n + 2 |-> Rest(f, i)]
  BY <1>3, <1>4
<1>6. PrefixedFrom(value) = CHOOSE from : from = [i \in 1 .. n + 2 |-> Rest(from, i)]
  BY DEF PrefixedFrom, Body
<1>7. PrefixedFrom(value) = [i \in 1 .. n + 2 |-> Rest(PrefixedFrom(value), i)]
  <2> HIDE DEF Rest, n
  <2> QED BY <1>5, <1>6
<1>8. WritePrefixed(value) = PrefixedFrom(value)[1]
  BY DEF WritePrefixed, PrefixedFrom
<1> QED BY <1>7, <1>8

LEMMA LinesTyped ==
    ASSUME NEW D, NEW value \in Seq(D)
    PROVE  \A i \in 1 .. Len(value) + 2 : LinesFrom(value)[i] \in Seq(Seq(D))
<1> DEFINE n == Len(value)
           L == LinesFrom(value)
           G == {k \in Nat : \A i \in 1 .. n + 2 : i + k > n => L[i] \in Seq(Seq(D))}
<1>1. n \in Nat
  OBVIOUS
<1>2. \A i \in 1 .. n + 2 : L[i] = IF i > n THEN <<>>
                                   ELSE <<Body(value, i, Breaks)>>
                                          \o L[LineEnd(value, i, Breaks) + 1]
  BY <1>1, LinesUnfold
<1> HIDE DEF L
<1>3. 0 \in G
  <2>1. \A i \in 1 .. n + 2 : i + 0 > n => i > n
    OBVIOUS
  <2>2. <<>> \in Seq(Seq(D))
    OBVIOUS
  <2> HIDE DEF n
  <2> QED BY <1>2, <2>1, <2>2
<1>4. ASSUME NEW k \in Nat, k \in G PROVE k + 1 \in G
  <2> SUFFICES ASSUME NEW i \in 1 .. n + 2, i + (k + 1) > n PROVE L[i] \in Seq(Seq(D))
    OBVIOUS
  <2>1. CASE i > n
    <3>1. L[i] = <<>>
      BY Zenon, <1>2, <2>1
    <3> QED BY <3>1
  <2>2. CASE i <= n
    <3> DEFINE e == LineEnd(value, i, Breaks)
               b == Body(value, i, Breaks)
    <3>1. i \in 1 .. Len(value) + 1 /\ ~(i > n)
      BY <2>2
    <3>2. e \in i .. n + 1
      BY <1>1, <3>1, LineEndIs
    <3>3. b \in Seq(D)
      <4> HIDE DEF e
      <4>1. e - 1 \in i - 1 .. Len(value)
        BY <3>2
      <4>2. SubSeq(value, i, e - 1) \in Seq(D)
        BY <3>1, <4>1, SubSeqIs
      <4> QED BY <4>2 DEF Body, e
    <3> HIDE DEF e, b
    <3>4. e + 1 \in 1 .. n + 2 /\ (e + 1) + k > n
      BY <2>2, <3>2
    <3>5. L[e + 1] \in Seq(Seq(D))
      BY <1>4, <3>4
    <3>6. L[i] = <<b>> \o L[e + 1]
      BY Zenon, <1>2, <3>1 DEF e, b
    <3> QED BY <3>3, <3>5, <3>6, ConsIs
  <2> QED BY <2>1, <2>2
<1>5. Nat \subseteq G
  <2> HIDE DEF G
  <2> QED BY <1>3, <1>4, Induction
<1>6. \A i \in 1 .. n + 2 : i + n > n
  BY <1>1
<1>7. \A i \in 1 .. n + 2 : L[i] \in Seq(Seq(D))
  BY <1>1, <1>5, <1>6
<1> QED BY <1>7 DEF L

(* What stands in front of a position does not change the lines behind it. *)
LEMMA LinesShift ==
    ASSUME NEW D, NEW a \in Seq(D), NEW b \in Seq(D)
    PROVE  \A j \in 1 .. Len(b) + 2 : LinesFrom(a \o b)[Len(a) + j] = LinesFrom(b)[j]
<1> DEFINE c == a \o b
           m == Len(a)
           n == Len(b)
           L == LinesFrom(c)
           M == LinesFrom(b)
           G == {k \in Nat : \A j \in 1 .. n + 2 : j + k > n => L[m + j] = M[j]}
<1>1. /\ c \in Seq(D) /\ Len(c) = m + n /\ m \in Nat /\ n \in Nat
      /\ \A i \in 1 .. n : c[m + i] = b[i]
  BY ConcatIs
<1>2. \A i \in 1 .. m + n + 2 : L[i] = IF i > m + n THEN <<>>
                                       ELSE <<Body(c, i, Breaks)>>
                                              \o L[LineEnd(c, i, Breaks) + 1]
  <2>1. \A i \in 1 .. Len(c) + 2 : L[i] = IF i > Len(c) THEN <<>>
                                          ELSE <<Body(c, i, Breaks)>>
                                                 \o L[LineEnd(c, i, Breaks) + 1]
    <3>1. Len(c) \in Nat
      BY <1>1
    <3> HIDE DEF c
    <3> QED BY <3>1, LinesUnfold
  <2> HIDE DEF c, m, n, L
  <2> QED BY <1>1, <2>1
<1>3. \A j \in 1 .. n + 2 : M[j] = IF j > n THEN <<>>
                                   ELSE <<Body(b, j, Breaks)>>
                                          \o M[LineEnd(b, j, Breaks) + 1]
  BY <1>1, LinesUnfold
<1> HIDE DEF L, M
<1>4. ASSUME NEW j \in 1 .. n
      PROVE  /\ LineEnd(c, m + j, Breaks) = m + LineEnd(b, j, Breaks)
             /\ Body(c, m + j, Breaks) = Body(b, j, Breaks)
  <2> DEFINE e == LineEnd(b, j, Breaks)
  <2>1. /\ e \in j .. n + 1
        /\ \A i \in j .. e - 1 : b[i] \notin Breaks
        /\ e <= n => b[e] \in Breaks
    <3>1. j \in 1 .. Len(b) + 1
      OBVIOUS
    <3> QED BY <1>1, <3>1, LineEndIs
  <2> HIDE DEF e, c, m, n
  <2>2. /\ m + j \in 1 .. Len(c) + 1 /\ m + e \in m + j .. Len(c) + 1
        /\ m + e <= Len(c) => c[m + e] \in Breaks
    BY <1>1, <2>1
  <2>3. ASSUME NEW i \in m + j .. (m + e) - 1 PROVE c[i] \notin Breaks
    <3>1. i - m \in j .. e - 1 /\ i - m \in 1 .. n /\ m + (i - m) = i
      BY <1>1, <2>1
    <3>2. c[m + (i - m)] = b[i - m]
      BY <1>1, <3>1
    <3> QED BY <2>1, <3>1, <3>2
  <2>4. LineEnd(c, m + j, Breaks) = m + e
    <3>1. Len(c) \in Nat
      BY <1>1
    <3> QED BY <2>2, <2>3, <3>1, LineEndWhere
  <2>5. SubSeq(c, m + j, m + (e - 1)) = SubSeq(b, j, e - 1)
    <3> DEFINE k == e - 1
    <3>1. j \in 1 .. Len(b) + 1 /\ k \in j - 1 .. Len(b)
      BY <1>1, <2>1 DEF n
    <3> HIDE DEF k
    <3>2. SubSeq(a \o b, Len(a) + j, Len(a) + k) = SubSeq(b, j, k)
      BY <3>1, SubSeqOfConcat
    <3> QED BY <3>2 DEF c, m, k
  <2>6. m + (e - 1) = (m + e) - 1
    BY <1>1, <2>1
  <2> QED BY <2>4, <2>5, <2>6 DEF Body, e
<1> HIDE DEF c, m, n
<1>5. 0 \in G
  <2>1. \A j \in 1 .. n + 2 : j + 0 > n => j > n /\ m + j > m + n /\ m + j \in 1 .. m + n + 2
    BY <1>1
  <2> QED BY <1>2, <1>3, <2>1
<1>6. ASSUME NEW k \in Nat, k \in G PROVE k + 1 \in G
  <2> SUFFICES ASSUME NEW j \in 1 .. n + 2, j + (k + 1) > n PROVE L[m + j] = M[j]
    OBVIOUS
  <2>0. m + j \in 1 .. m + n + 2
    BY <1>1
  <2>1. CASE j > n
    <3>1. m + j > m + n
      BY <1>1, <2>1
    <3>2. L[m + j] = <<>> /\ M[j] = <<>>
      BY Zenon, <1>2, <1>3, <2>0, <2>1, <3>1
    <3> QED BY <3>2
  <2>2. CASE j <= n
    <3> DEFINE e == LineEnd(b, j, Breaks)
    <3>1. j \in 1 .. n /\ ~(j > n) /\ ~(m + j > m + n)
      BY <1>1, <2>2
    <3>2. e \in j .. n + 1
      <4>1. j \in 1 .. Len(b) + 1
        BY <1>1, <3>1 DEF n
      <4> QED BY <1>1, <4>1, LineEndIs DEF n
    <3>3. LineEnd(c, m + j, Breaks) = m + e /\ Body(c, m + j, Breaks) = Body(b, j, Breaks)
      BY <1>4, <3>1
    <3>4. /\ L[m + j] = <<Body(c, m + j, Breaks)>> \o L[LineEnd(c, m + j, Breaks) + 1]
          /\ M[j] = <<Body(b, j, Breaks)>> \o M[e + 1]
      BY Zenon, <1>2, <1>3, <2>0, <3>1
    <3> HIDE DEF e
    <3>5. e + 1 \in 1 .. n + 2 /\ (e + 1) + k > n /\ (m + e) + 1 = m + (e + 1)
      BY <1>1, <2>2, <3>2
    <3>6. L[m + (e + 1)] = M[e + 1]
      BY <1>6, <3>5
    <3>7. L[m + j] = <<Body(b, j, Breaks)>> \o L[m + (e + 1)]
      BY <3>3, <3>4, <3>5
    <3> QED BY <3>4, <3>6, <3>7
  <2> QED BY <1>1, <2>1, <2>2
<1>7. Nat \subseteq G
  <2> HIDE DEF G
  <2> QED BY <1>5, <1>6, Induction
<1>8. \A j \in 1 .. n + 2 : j + n > n
  BY <1>1
<1>9. \A j \in 1 .. n + 2 : L[m + j] = M[j]
  BY <1>1, <1>7, <1>8
<1> QED BY <1>9 DEF L, M, c, m, n

(* What may stand on a line.                                               *)
Inline == Nat \ Breaks

LEMMA InlineText == ASSUME NEW line \in Seq(Inline) PROVE line \in Seq(Nat)
BY DEF Inline

(* The first line, and the lines of what follows it.                       *)
LEMMA LinesFirst ==
    ASSUME NEW line \in Seq(Inline), NEW rest \in Seq(Nat)
    PROVE  LinesOf(line \o <<NL>> \o rest) = <<line>> \o LinesOf(rest)
<1> DEFINE a == line \o <<NL>>
           c == a \o rest
           m == Len(line)
<1>0. line \in Seq(Nat) /\ <<NL>> \in Seq(Nat) /\ Len(<<NL>>) = 1 /\ <<NL>>[1] = NL
  BY InlineText DEF NL
<1>1. /\ a \in Seq(Nat) /\ Len(a) = m + 1 /\ m \in Nat
      /\ (\A i \in 1 .. m : a[i] = line[i]) /\ a[m + 1] = NL
  <2>1. /\ a \in Seq(Nat) /\ Len(a) = m + Len(<<NL>>) /\ m \in Nat
        /\ (\A i \in 1 .. m : a[i] = line[i])
        /\ \A i \in 1 .. Len(<<NL>>) : a[m + i] = <<NL>>[i]
    BY <1>0, ConcatIs
  <2> HIDE DEF a, m
  <2> QED BY <1>0, <2>1
<1>2. /\ c \in Seq(Nat) /\ Len(c) = m + 1 + Len(rest) /\ Len(rest) \in Nat
      /\ (\A i \in 1 .. m : c[i] = line[i]) /\ c[m + 1] = NL
  <2>1. /\ c \in Seq(Nat) /\ Len(c) = Len(a) + Len(rest) /\ Len(rest) \in Nat
        /\ \A i \in 1 .. Len(a) : c[i] = a[i]
    <3> HIDE DEF a
    <3> QED BY ZenonT(30), <1>1, ConcatIs
  <2> HIDE DEF a, c, m
  <2> QED BY <1>1, <2>1
<1>3. \A i \in 1 .. m : line[i] \notin Breaks
  BY ElementsOf DEF Inline
<1>4. LineEnd(c, 1, Breaks) = m + 1
  <2>1. 1 \in 1 .. Len(c) + 1 /\ m + 1 \in 1 .. Len(c) + 1 /\ Len(c) \in Nat /\ (m + 1) - 1 = m
    BY <1>1, <1>2
  <2>2. \A i \in 1 .. (m + 1) - 1 : c[i] \notin Breaks
    BY <1>2, <1>3, <2>1
  <2>3. c[m + 1] \in Breaks
    BY <1>2 DEF NL, Breaks
  <2> HIDE DEF c, m
  <2> QED BY <2>1, <2>2, <2>3, LineEndWhere
<1>5. Body(c, 1, Breaks) = line
  <2>1. (m + 1) - 1 = m
    BY <1>1
  <2>2. SubSeq(c, 1, m) = line
    <3>1. c = line \o (<<NL>> \o rest) /\ <<NL>> \o rest \in Seq(Nat)
      BY <1>0, ConcatAssoc, ConcatIs
    <3>2. 1 \in 1 .. Len(<<NL>> \o rest) + 1 /\ 0 \in 1 - 1 .. Len(<<NL>> \o rest)
      BY <3>1
    <3> QED BY <1>0, <3>1, <3>2, SubSeqOfConcat
  <2> QED BY <1>4, <2>1, <2>2 DEF Body
<1>6. LinesFrom(c)[1] = <<line>> \o LinesFrom(c)[m + 1 + 1]
  <2>1. 1 \in 1 .. Len(c) + 2 /\ ~(1 > Len(c)) /\ Len(c) \in Nat
    BY <1>1, <1>2
  <2>2. LinesFrom(c)[1] = <<Body(c, 1, Breaks)>> \o LinesFrom(c)[LineEnd(c, 1, Breaks) + 1]
    <3> HIDE DEF c
    <3>1. LinesFrom(c)[1] = IF 1 > Len(c) THEN <<>>
                            ELSE <<Body(c, 1, Breaks)>> \o LinesFrom(c)[LineEnd(c, 1, Breaks) + 1]
      BY <2>1, LinesUnfold
    <3> QED BY Zenon, <2>1, <3>1
  <2> QED BY <1>4, <1>5, <2>2
<1>7. LinesFrom(c)[Len(a) + 1] = LinesFrom(rest)[1]
  <2>1. 1 \in 1 .. Len(rest) + 2
    BY <1>2
  <2> HIDE DEF a
  <2> QED BY <1>1, <2>1, LinesShift
<1>8. LinesOf(c) = LinesFrom(c)[1] /\ LinesOf(rest) = LinesFrom(rest)[1]
  <2>1. Len(c) \in Nat /\ Len(rest) \in Nat
    BY <1>1, <1>2
  <2> HIDE DEF c
  <2> QED BY <2>1, LinesUnfold
<1>9. LinesFrom(c)[1] = <<line>> \o LinesFrom(rest)[1]
  BY <1>1, <1>6, <1>7
<1> HIDE DEF c
<1>10. LinesOf(c) = <<line>> \o LinesOf(rest)
  BY <1>8, <1>9
<1> QED BY <1>10 DEF c, a

-----------------------------------------------------------------------------
(***************************************************************************)
(* What a terminal shows, line by line.                                    *)
(***************************************************************************)
Items == [own : BOOLEAN, line : Seq(Nat)]

LEMMA TextAssoc == \A x, y, z \in Seq(Nat) : (x \o y) \o z = x \o (y \o z)
BY SMTT(30)

LEMMA ItemsAssoc == \A x, y, z \in Seq(Items) : (x \o y) \o z = x \o (y \o z)
OBVIOUS

ReadLine(line) ==
    IF Beginning(line, 2) = Prefix THEN Others(SubSeq(line, 3, Len(line))) ELSE Own(line)

LEMMA BeginningIs ==
    ASSUME NEW D, NEW line \in Seq(D), NEW n \in Nat
    PROVE  LET b == Beginning(line, n)
           IN  /\ b \in Seq(D)
               /\ Len(b) = IF n <= Len(line) THEN n ELSE Len(line)
               /\ \A i \in 1 .. Len(b) : b[i] = line[i]
<1> DEFINE T == {n, Len(line)}
           k == Min(T)
<1>1. T \subseteq Nat /\ T # {} /\ Len(line) \in Nat
  OBVIOUS
<1>2. k \in T /\ \A x \in T : k <= x
  <2> HIDE DEF T
  <2> QED BY <1>1, MinIs
<1>3. Beginning(line, n) = SubSeq(line, 1, k)
  BY DEF Beginning
<1> HIDE DEF k
<1>4. k \in 0 .. Len(line) /\ k = IF n <= Len(line) THEN n ELSE Len(line)
  BY <1>1, <1>2
<1> HIDE DEF T
<1> DEFINE b == SubSeq(line, 1, k)
<1>5. b \in Seq(D) /\ Len(b) = k - 1 + 1 /\ \A i \in 1 .. Len(b) : b[i] = line[1 + i - 1]
  <2>1. 1 \in 1 .. Len(line) + 1 /\ k \in 1 - 1 .. Len(line)
    BY <1>1, <1>4
  <2> QED BY <2>1, SubSeqIs
<1> HIDE DEF b
<1>6. \A i \in 1 .. Len(b) : 1 + i - 1 = i
  BY <1>5
<1> QED BY <1>3, <1>4, <1>5, <1>6 DEF b

LEMMA ReadLineTyped == ASSUME NEW line \in Seq(Nat) PROVE ReadLine(line) \in Items
<1>1. CASE Beginning(line, 2) = Prefix
  <2> DEFINE t == SubSeq(line, 3, Len(line))
  <2>1. Len(line) \in Nat /\ Len(line) >= 2
    <3>1. Len(Beginning(line, 2)) = IF 2 <= Len(line) THEN 2 ELSE Len(line)
      BY BeginningIs
    <3>2. Len(Prefix) = 2
      BY DEF Prefix
    <3>3. Len(line) \in Nat
      OBVIOUS
    <3>4. 2 = IF 2 <= Len(line) THEN 2 ELSE Len(line)
      BY Zenon, <1>1, <3>1, <3>2
    <3>5. \A n \in Nat : 2 = (IF 2 <= n THEN 2 ELSE n) => n >= 2
      OBVIOUS
    <3> HIDE DEF t
    <3> QED BY Zenon, <3>3, <3>4, <3>5
  <2>2. 3 \in 1 .. Len(line) + 1 /\ Len(line) \in 3 - 1 .. Len(line)
    BY <2>1
  <2>3. t \in Seq(Nat)
    BY <2>2, SubSeqIs
  <2> HIDE DEF t
  <2>4. ReadLine(line) = Others(t)
    BY <1>1 DEF ReadLine, t
  <2> QED BY <2>3, <2>4 DEF Others, Items
<1>2. CASE Beginning(line, 2) # Prefix
  <2>1. Beginning(line, 1) \in Seq(Nat)
    BY BeginningIs
  <2>2. ReadLine(line) = Own(line)
    BY <1>2 DEF ReadLine
  <2> QED BY <2>1, <2>2 DEF Own, Items
<1> QED BY <1>1, <1>2

LEMMA ReadIs ==
    ASSUME NEW output \in Seq(Nat)
    PROVE  LET lines == LinesOf(output)
               shown == ReadTerminal(output)
           IN  /\ lines \in Seq(Seq(Nat)) /\ shown \in Seq(Items) /\ Len(shown) = Len(lines)
               /\ \A i \in 1 .. Len(lines) : shown[i] = ReadLine(lines[i])
<1> DEFINE lines == LinesOf(output)
           shown == [i \in 1 .. Len(lines) |-> ReadLine(lines[i])]
<1>1. lines \in Seq(Seq(Nat))
  <2>1. 1 \in 1 .. Len(output) + 2 /\ Len(output) \in Nat
    OBVIOUS
  <2> QED BY <2>1, LinesTyped, LinesUnfold
<1>2. ReadTerminal(output) = shown
  BY DEF ReadTerminal, ReadLine
<1> HIDE DEF lines
<1>3. Len(lines) \in Nat /\ \A i \in 1 .. Len(lines) : ReadLine(lines[i]) \in Items
  BY <1>1, ElementsOf, ReadLineTyped
<1>4. shown \in Seq(Items) /\ Len(shown) = Len(lines)
  BY <1>3
<1>5. \A i \in 1 .. Len(lines) : shown[i] = ReadLine(lines[i])
  OBVIOUS
<1> HIDE DEF shown
<1> QED BY <1>1, <1>2, <1>4, <1>5 DEF lines

LEMMA ReadFirst ==
    ASSUME NEW line \in Seq(Inline), NEW rest \in Seq(Nat)
    PROVE  ReadTerminal(line \o <<NL>> \o rest) = <<ReadLine(line)>> \o ReadTerminal(rest)
<1> DEFINE c == line \o <<NL>> \o rest
           lines == LinesOf(c)
           more == LinesOf(rest)
           shown == ReadTerminal(c)
           then == ReadTerminal(rest)
           both == <<ReadLine(line)>> \o then
<1>1. line \in Seq(Nat) /\ <<NL>> \in Seq(Nat)
  BY InlineText DEF NL
<1>2. c \in Seq(Nat)
  BY <1>1, ConcatIs
<1>3. lines = <<line>> \o more
  BY LinesFirst
<1> HIDE DEF c
<1>4. /\ shown \in Seq(Items) /\ Len(shown) = Len(lines)
      /\ \A i \in 1 .. Len(lines) : shown[i] = ReadLine(lines[i])
  BY <1>2, ReadIs
<1>5. /\ more \in Seq(Seq(Nat)) /\ then \in Seq(Items) /\ Len(then) = Len(more)
      /\ \A i \in 1 .. Len(more) : then[i] = ReadLine(more[i])
  BY ReadIs
<1> HIDE DEF shown, then, more, lines
<1>6. /\ Len(lines) = Len(more) + 1 /\ lines[1] = line /\ Len(more) \in Nat
      /\ \A k \in 1 .. Len(more) : lines[k + 1] = more[k]
  BY <1>1, <1>3, <1>5, ConsIs, ElementsOf
<1>7. /\ both \in Seq(Items) /\ Len(both) = Len(then) + 1 /\ both[1] = ReadLine(line)
      /\ \A k \in 1 .. Len(then) : both[k + 1] = then[k]
  BY SMTT(30), <1>1, <1>5, ReadLineTyped, ConsIs
<1> HIDE DEF both
<1>8. Len(shown) = Len(both)
  BY <1>4, <1>5, <1>6, <1>7
<1>9. ASSUME NEW i \in 1 .. Len(shown) PROVE shown[i] = both[i]
  <2>1. CASE i = 1
    <3>1. 1 \in 1 .. Len(lines)
      BY <1>6
    <3> QED BY <1>4, <1>6, <1>7, <2>1, <3>1
  <2>2. CASE i # 1
    <3>1. i - 1 \in 1 .. Len(more) /\ (i - 1) + 1 = i /\ i \in 1 .. Len(lines)
      BY <1>4, <1>6, <2>2
    <3>2. lines[i] = more[i - 1] /\ both[i] = then[i - 1]
      BY <1>5, <1>6, <1>7, <3>1
    <3>3. shown[i] = ReadLine(lines[i]) /\ then[i - 1] = ReadLine(more[i - 1])
      BY <1>4, <1>5, <3>1
    <3> QED BY <3>2, <3>3
  <2> QED BY <2>1, <2>2
<1>10. shown = both
  BY <1>4, <1>7, <1>8, <1>9, SeqsEqual
<1> QED BY <1>10 DEF shown, both, then, c

(* Output that ends with a line: what follows it is read on its own.       *)
WholeLines ==
    {a \in Seq(Nat) : \A b \in Seq(Nat) : ReadTerminal(a \o b) = ReadTerminal(a) \o ReadTerminal(b)}

LEMMA NoLine == <<>> \in WholeLines /\ ReadTerminal(<<>>) = <<>>
<1>1. <<>> \in Seq(Nat) /\ Len(<<>>) = 0
  OBVIOUS
<1>2. LinesOf(<<>>) = <<>>
  <2>1. Len(<<>>) \in Nat /\ 1 \in 1 .. Len(<<>>) + 2 /\ 1 > Len(<<>>)
    OBVIOUS
  <2> QED BY <2>1, LinesUnfold
<1>3. ReadTerminal(<<>>) = <<>>
  <2>1. ReadTerminal(<<>>) \in Seq(Items) /\ Len(ReadTerminal(<<>>)) = Len(LinesOf(<<>>))
    BY <1>1, ReadIs
  <2> QED BY <1>1, <1>2, <2>1
<1>4. ASSUME NEW b \in Seq(Nat)
      PROVE  ReadTerminal(<<>> \o b) = ReadTerminal(<<>>) \o ReadTerminal(b)
  <2>1. ReadTerminal(b) \in Seq(Items)
    BY ReadIs
  <2>2. <<>> \o ReadTerminal(b) = ReadTerminal(b) /\ <<>> \o b = b
    BY <2>1, ConcatEmpty
  <2> QED BY <1>3, <2>2
<1> QED BY <1>1, <1>3, <1>4 DEF WholeLines

LEMMA OneLine ==
    ASSUME NEW line \in Seq(Inline)
    PROVE  /\ line \o <<NL>> \in WholeLines
           /\ ReadTerminal(line \o <<NL>>) = <<ReadLine(line)>>
<1> DEFINE a == line \o <<NL>>
           item == ReadLine(line)
<1>1. line \in Seq(Nat) /\ <<NL>> \in Seq(Nat) /\ <<>> \in Seq(Nat)
  BY InlineText DEF NL
<1>2. a \in Seq(Nat)
  BY <1>1, ConcatIs
<1>3. \A b \in Seq(Nat) : ReadTerminal(a \o b) = <<item>> \o ReadTerminal(b)
  BY ReadFirst
<1>4. item \in Items
  BY <1>1, ReadLineTyped
<1> HIDE DEF a, item
<1>5. ReadTerminal(a) = <<item>>
  <2>1. a \o <<>> = a
    BY <1>2, ConcatEmpty
  <2>2. <<item>> \o <<>> = <<item>>
    BY <1>4
  <2> QED BY <1>1, <1>3, <2>1, <2>2, NoLine
<1>6. a \in WholeLines
  BY <1>2, <1>3, <1>5 DEF WholeLines
<1> QED BY <1>5, <1>6 DEF a, item

LEMMA LinesJoin ==
    ASSUME NEW a \in WholeLines, NEW b \in WholeLines
    PROVE  a \o b \in WholeLines /\ ReadTerminal(a \o b) = ReadTerminal(a) \o ReadTerminal(b)
<1>1. /\ a \in Seq(Nat) /\ b \in Seq(Nat)
      /\ \A t \in Seq(Nat) : ReadTerminal(a \o t) = ReadTerminal(a) \o ReadTerminal(t)
      /\ \A t \in Seq(Nat) : ReadTerminal(b \o t) = ReadTerminal(b) \o ReadTerminal(t)
  BY DEF WholeLines
<1>2. a \o b \in Seq(Nat)
  BY <1>1, ConcatIs
<1>3. ASSUME NEW t \in Seq(Nat)
      PROVE  ReadTerminal((a \o b) \o t) = ReadTerminal(a \o b) \o ReadTerminal(t)
  <2>1. (a \o b) \o t = a \o (b \o t) /\ b \o t \in Seq(Nat)
    <3>1. b \o t \in Seq(Nat)
      BY <1>1, ConcatIs
    <3> QED BY Zenon, <1>1, <3>1, TextAssoc
  <2>2. ReadTerminal(a) \in Seq(Items) /\ ReadTerminal(b) \in Seq(Items)
        /\ ReadTerminal(t) \in Seq(Items)
    BY <1>1, ReadIs
  <2>3. ReadTerminal(a) \o (ReadTerminal(b) \o ReadTerminal(t))
          = (ReadTerminal(a) \o ReadTerminal(b)) \o ReadTerminal(t)
    BY Zenon, <2>2, ItemsAssoc
  <2> QED BY <1>1, <2>1, <2>3
<1> QED BY <1>1, <1>2, <1>3 DEF WholeLines

LEMMA Retyped ==
    ASSUME NEW D, NEW E, NEW s \in Seq(D), \A i \in 1 .. Len(s) : s[i] \in E
    PROVE  s \in Seq(E)
OBVIOUS

(* A line of runprint's own shows its phrase, whatever value follows it.   *)
Mark(label) == [own |-> TRUE, line |-> label]

LEMMA OwnLine ==
    ASSUME NEW n \in Nat, NEW value \in Seq(Inline)
    PROVE  /\ Line(Phrase(n), value) \in WholeLines
           /\ ReadTerminal(Line(Phrase(n), value)) = <<Mark(Phrase(n))>>
<1> DEFINE line == Phrase(n) \o value
           u == UnicodeMax + n
<1>1. u \in Inline /\ u # Bar /\ Phrase(n) = <<u>>
  BY DEF UnicodeMax, Breaks, Bar, Phrase, Inline
<1> HIDE DEF u
<1>2. line \in Seq(Inline) /\ Len(line) = Len(value) + 1 /\ line[1] = u
  BY <1>1, ConsIs
<1>3. Len(value) \in Nat
  OBVIOUS
<1> HIDE DEF line
<1>4. \A k \in Nat :
        /\ Beginning(line, k) \in Seq(Inline)
        /\ Len(Beginning(line, k)) = (IF k <= Len(line) THEN k ELSE Len(line))
        /\ \A i \in 1 .. Len(Beginning(line, k)) : Beginning(line, k)[i] = line[i]
  BY Zenon, <1>2, BeginningIs
<1>5. 1 <= Len(line) /\ 1 \in Nat /\ 2 \in Nat
  BY <1>2, <1>3
<1>6. 1 \in 1 .. Len(Beginning(line, 2))
  <2>1. Len(Beginning(line, 2)) = (IF 2 <= Len(line) THEN 2 ELSE Len(line))
    BY Zenon, <1>4, <1>5
  <2> QED BY <1>2, <1>3, <2>1
<1>7. Beginning(line, 2) # Prefix
  <2>1. Beginning(line, 2)[1] = u
    BY Zenon, <1>2, <1>4, <1>5, <1>6
  <2>2. Prefix[1] = Bar
    BY DEF Prefix
  <2> QED BY <1>1, <2>1, <2>2
<1>8. Beginning(line, 1) = <<u>>
  <2>1. Beginning(line, 1) \in Seq(Inline) /\ Len(Beginning(line, 1)) = 1
    BY Zenon, <1>4, <1>5
  <2>2. 1 \in 1 .. Len(Beginning(line, 1))
    BY <2>1
  <2>3. Beginning(line, 1)[1] = u
    BY Zenon, <1>2, <1>4, <1>5, <2>2
  <2> HIDE DEF u
  <2> QED BY <2>1, <2>3
<1>9. ReadLine(line) = Mark(Phrase(n))
  BY <1>1, <1>7, <1>8 DEF ReadLine, Own, Mark
<1>10. line \o <<NL>> \in WholeLines /\ ReadTerminal(line \o <<NL>>) = <<ReadLine(line)>>
  BY <1>2, OneLine
<1>11. Line(Phrase(n), value) = line \o <<NL>>
  BY DEF Line, line
<1> QED BY <1>9, <1>10, <1>11

LEMMA BlankLine ==
    <<NL>> \in WholeLines /\ ReadTerminal(<<NL>>) = <<Mark(<<>>)>>
<1>1. <<>> \in Seq(Inline) /\ Len(<<>>) = 0
  OBVIOUS
<1>2. <<>> \o <<NL>> = <<NL>>
  OBVIOUS
<1>3. <<NL>> \in WholeLines /\ ReadTerminal(<<NL>>) = <<ReadLine(<<>>)>>
  BY <1>1, <1>2, OneLine
<1>4. \A n \in 1 .. 2 : Beginning(<<>>, n) = <<>>
  <2> SUFFICES ASSUME NEW n \in 1 .. 2 PROVE Beginning(<<>>, n) = <<>>
    OBVIOUS
  <2>1. n \in Nat /\ ~(n <= 0)
    OBVIOUS
  <2>2. Beginning(<<>>, n) \in Seq(Inline) /\ Len(Beginning(<<>>, n)) = 0
    BY <1>1, <2>1, BeginningIs
  <2> QED BY <2>2
<1>5. <<>> # Prefix
  BY DEF Prefix
<1>6. ReadLine(<<>>) = Mark(<<>>)
  <2>1. Beginning(<<>>, 1) = <<>> /\ Beginning(<<>>, 2) # Prefix
    BY <1>4, <1>5
  <2> QED BY Zenon, <2>1 DEF ReadLine, Own, Mark
<1> QED BY <1>3, <1>6

LEMMA TextLine ==
    ASSUME NEW words \in Seq(Inline)
    PROVE  /\ Prefix \o words \o <<NL>> \in WholeLines
           /\ ReadTerminal(Prefix \o words \o <<NL>>) = <<Others(words)>>
<1> DEFINE line == Prefix \o words
           t == SubSeq(line, 3, Len(line))
<1>1. Prefix \in Seq(Inline) /\ Len(Prefix) = 2
  BY DEF Prefix, Bar, Space, Breaks, Inline
<1>2. /\ line \in Seq(Inline) /\ Len(line) = 2 + Len(words) /\ Len(words) \in Nat
      /\ \A i \in 1 .. 2 : line[i] = Prefix[i]
  <2>1. /\ line \in Seq(Inline) /\ Len(line) = Len(Prefix) + Len(words) /\ Len(words) \in Nat
        /\ \A i \in 1 .. Len(Prefix) : line[i] = Prefix[i]
    BY ZenonT(30), <1>1, ConcatIs
  <2>2. Len(Prefix) = 2
    BY <1>1
  <2> HIDE DEF line
  <2> QED BY <2>1, <2>2
<1>3. t = words
  <2>1. 1 \in 1 .. Len(words) + 1 /\ Len(words) \in 1 - 1 .. Len(words) /\ 2 + 1 = 3
    BY <1>2
  <2>2. SubSeq(line, Len(Prefix) + 1, Len(Prefix) + Len(words)) = SubSeq(words, 1, Len(words))
    <3> DEFINE p == Prefix
               k == Len(words)
    <3>1. p \in Seq(Inline) /\ k \in 1 - 1 .. Len(words) /\ 1 \in 1 .. Len(words) + 1
      BY <1>1, <2>1
    <3> HIDE DEF p, k
    <3>2. SubSeq(p \o words, Len(p) + 1, Len(p) + k) = SubSeq(words, 1, k)
      BY <3>1, SubSeqOfConcat
    <3> QED BY <3>2 DEF p, k
  <2>3. SubSeq(words, 1, Len(words)) = words
    OBVIOUS
  <2> QED BY <1>1, <1>2, <2>1, <2>2, <2>3
<1> HIDE DEF line
<1>4. Beginning(line, 2) = Prefix
  <2>1. /\ Beginning(line, 2) \in Seq(Inline)
        /\ Len(Beginning(line, 2)) = (IF 2 <= Len(line) THEN 2 ELSE Len(line))
        /\ \A i \in 1 .. Len(Beginning(line, 2)) : Beginning(line, 2)[i] = line[i]
    <3>1. 2 \in Nat
      OBVIOUS
    <3> QED BY Zenon, <1>2, <3>1, BeginningIs
  <2>2. Len(Beginning(line, 2)) = 2
    BY <1>2, <2>1
  <2>3. \A i \in 1 .. Len(Beginning(line, 2)) : Beginning(line, 2)[i] = Prefix[i]
    BY <1>2, <2>1, <2>2
  <2> QED BY <1>1, <2>1, <2>2, <2>3, SeqsEqual
<1>5. ReadLine(line) = Others(words)
  BY <1>3, <1>4 DEF ReadLine
<1>6. line \o <<NL>> \in WholeLines /\ ReadTerminal(line \o <<NL>>) = <<ReadLine(line)>>
  BY <1>2, OneLine
<1> QED BY <1>5, <1>6 DEF line

LEMMA OthersFirst ==
    ASSUME NEW line \in Seq(Nat), NEW lines \in Seq(Seq(Nat))
    PROVE  /\ AllOthers(<<line>> \o lines) = <<Others(line)>> \o AllOthers(lines)
           /\ AllOthers(lines) \in Seq(Items) /\ Len(AllOthers(lines)) = Len(lines)
           /\ \A i \in 1 .. Len(lines) : AllOthers(lines)[i] = Others(lines[i])
<1> DEFINE all == <<line>> \o lines
           s == AllOthers(all)
           more == AllOthers(lines)
           both == <<Others(line)>> \o more
<1>1. \A l \in Seq(Nat) : Others(l) \in Items
  BY DEF Others, Items
<1>2. /\ all \in Seq(Seq(Nat)) /\ Len(all) = Len(lines) + 1 /\ all[1] = line
      /\ \A k \in 1 .. Len(lines) : all[k + 1] = lines[k]
  BY ConsIs
<1> HIDE DEF all
<1>3. \A ls \in Seq(Seq(Nat)) :
        /\ AllOthers(ls) \in Seq(Items) /\ Len(AllOthers(ls)) = Len(ls) /\ Len(ls) \in Nat
        /\ \A i \in 1 .. Len(ls) : AllOthers(ls)[i] = Others(ls[i])
  <2> SUFFICES ASSUME NEW ls \in Seq(Seq(Nat))
               PROVE  /\ AllOthers(ls) \in Seq(Items) /\ Len(AllOthers(ls)) = Len(ls)
                      /\ Len(ls) \in Nat
                      /\ \A i \in 1 .. Len(ls) : AllOthers(ls)[i] = Others(ls[i])
    OBVIOUS
  <2>1. Len(ls) \in Nat /\ \A i \in 1 .. Len(ls) : Others(ls[i]) \in Items
    BY <1>1, ElementsOf
  <2> QED BY <2>1 DEF AllOthers
<1>4. /\ more \in Seq(Items) /\ Len(more) = Len(lines) /\ Len(lines) \in Nat
      /\ \A i \in 1 .. Len(lines) : more[i] = Others(lines[i])
  BY <1>3
<1>5. s \in Seq(Items) /\ Len(s) = Len(all) /\ \A i \in 1 .. Len(all) : s[i] = Others(all[i])
  BY <1>2, <1>3
<1> HIDE DEF more, s
<1>6. /\ both \in Seq(Items) /\ Len(both) = Len(more) + 1 /\ both[1] = Others(line)
      /\ \A k \in 1 .. Len(more) : both[k + 1] = more[k]
  BY <1>1, <1>4, ConsIs
<1> HIDE DEF both
<1>7. ASSUME NEW i \in 1 .. Len(s) PROVE s[i] = both[i]
  <2>1. CASE i = 1
    <3>1. 1 \in 1 .. Len(all)
      BY <1>2, <1>4
    <3> QED BY <1>2, <1>5, <1>6, <2>1, <3>1
  <2>2. CASE i # 1
    <3>1. i - 1 \in 1 .. Len(lines) /\ (i - 1) + 1 = i /\ i \in 1 .. Len(all)
      BY <1>2, <1>4, <1>5, <2>2
    <3>2. all[i] = lines[i - 1] /\ both[i] = more[i - 1]
      BY <1>2, <1>4, <1>6, <3>1
    <3>3. s[i] = Others(all[i]) /\ more[i - 1] = Others(lines[i - 1])
      BY <1>4, <1>5, <3>1
    <3> QED BY <3>2, <3>3
  <2> QED BY <2>1, <2>2
<1>8. s = both
  <2>1. Len(s) = Len(both)
    BY <1>2, <1>4, <1>5, <1>6
  <2> QED BY <1>5, <1>6, <1>7, <2>1, SeqsEqual
<1> QED BY <1>4, <1>8 DEF s, both, all, more

(* A text whose only breaks are newlines is shown line by line.            *)
LEMMA TextLines ==
    ASSUME NEW value \in Seq(Inline \cup {NL})
    PROVE  /\ WritePrefixed(value) \in WholeLines
           /\ ReadTerminal(WritePrefixed(value)) = AllOthers(LinesOf(value))
<1> DEFINE D == Inline \cup {NL}
           n == Len(value)
           L == LinesFrom(value)
           W == PrefixedFrom(value)
           Shown(i) == W[i] \in WholeLines /\ ReadTerminal(W[i]) = AllOthers(L[i])
           G == {k \in Nat : \A i \in 1 .. n + 2 : i + k > n => Shown(i)}
<1>1. n \in Nat /\ value \in Seq(Nat) /\ \A i \in 1 .. n : value[i] \in D
  <2>1. n \in Nat /\ \A i \in 1 .. n : value[i] \in D
    BY ElementsOf
  <2>2. \A r \in D : r \in Nat
    BY DEF NL, Inline
  <2> HIDE DEF D
  <2>3. \A i \in 1 .. n : value[i] \in Nat
    BY <2>1, <2>2
  <2> QED BY <2>1, <2>3, Retyped
<1>2. \A i \in 1 .. n + 2 : L[i] = IF i > n THEN <<>>
                                   ELSE <<Body(value, i, Breaks)>>
                                          \o L[LineEnd(value, i, Breaks) + 1]
  BY <1>1, LinesUnfold
<1>3. \A i \in 1 .. n + 2 : W[i] = IF i > n THEN <<>>
                                   ELSE Prefix \o Body(value, i, {NL}) \o <<NL>>
                                          \o W[LineEnd(value, i, {NL}) + 1]
  BY <1>1, PrefixedUnfold
<1>4. \A i \in 1 .. n + 2 : L[i] \in Seq(Seq(Nat))
  BY <1>1, LinesTyped
<1> HIDE DEF L, W
<1>5. ASSUME NEW i \in 1 .. n
      PROVE  /\ LineEnd(value, i, {NL}) = LineEnd(value, i, Breaks)
             /\ LineEnd(value, i, {NL}) \in i .. n + 1
             /\ Body(value, i, {NL}) = Body(value, i, Breaks)
             /\ Body(value, i, {NL}) \in Seq(Inline)
  <2> DEFINE e == LineEnd(value, i, {NL})
             b == SubSeq(value, i, e - 1)
  <2>0. i \in 1 .. Len(value) + 1
    OBVIOUS
  <2>1. /\ e \in i .. n + 1
        /\ \A j \in i .. e - 1 : value[j] \notin {NL}
        /\ e <= n => value[e] \in {NL}
    BY <1>1, <2>0, LineEndIs
  <2> HIDE DEF e
  <2>2. \A j \in i .. e - 1 : value[j] \in Inline
    <3>1. \A j \in i .. e - 1 : j \in 1 .. n
      BY <1>1, <2>1
    <3> QED BY <1>1, <2>1, <3>1 DEF D
  <2>3. e <= n => value[e] \in Breaks
    BY <2>1 DEF NL, Breaks
  <2>4. LineEnd(value, i, Breaks) = e
    <3>1. \A j \in i .. e - 1 : value[j] \notin Breaks
      BY <2>2 DEF Inline
    <3> QED BY <1>1, <2>0, <2>1, <2>3, <3>1, LineEndWhere
  <2>5. b \in Seq(Nat) /\ Len(b) = (e - 1) - i + 1 /\ \A j \in 1 .. Len(b) : b[j] = value[i + j - 1]
    <3>1. e - 1 \in i - 1 .. Len(value)
      BY <1>1, <2>1
    <3> QED BY ZenonT(30), <1>1, <2>0, <3>1, SubSeqIs
  <2> HIDE DEF b
  <2>6. \A j \in 1 .. Len(b) : b[j] \in Inline
    <3>1. \A j \in 1 .. Len(b) : i + j - 1 \in i .. e - 1
      BY <1>1, <2>1, <2>5
    <3> QED BY <2>2, <2>5, <3>1
  <2>7. b \in Seq(Inline)
    BY <2>5, <2>6, Retyped
  <2>8. LineEnd(value, i, {NL}) = e /\ Body(value, i, {NL}) = b
    BY DEF Body, e, b
  <2>9. Body(value, i, Breaks) = b
    BY <2>4 DEF Body, b
  <2> QED BY <2>1, <2>4, <2>7, <2>8, <2>9
<1> HIDE DEF D
<1>6. \A i \in 1 .. n + 2 : i > n => Shown(i)
  <2>1. AllOthers(<<>>) = <<>>
    BY DEF AllOthers
  <2>2. \A i \in 1 .. n + 2 : i > n => W[i] = <<>> /\ L[i] = <<>>
    BY Zenon, <1>2, <1>3
  <2> QED BY <2>1, <2>2, NoLine
<1>7. 0 \in G
  <2>1. \A i \in 1 .. n + 2 : i + 0 > n => i > n
    BY <1>1
  <2> HIDE DEF Shown
  <2> QED BY <1>6, <2>1
<1>8. ASSUME NEW k \in Nat, k \in G PROVE k + 1 \in G
  <2> SUFFICES ASSUME NEW i \in 1 .. n + 2, i + (k + 1) > n PROVE Shown(i)
    OBVIOUS
  <2>1. CASE i > n
    BY <1>6, <2>1
  <2>2. CASE i <= n
    <3> DEFINE e == LineEnd(value, i, {NL})
               b == Body(value, i, {NL})
               first == Prefix \o b \o <<NL>>
    <3>1. i \in 1 .. n /\ ~(i > n)
      BY <1>1, <2>2
    <3>2. /\ LineEnd(value, i, Breaks) = e /\ e \in i .. n + 1
          /\ Body(value, i, Breaks) = b /\ b \in Seq(Inline)
      BY <1>5, <3>1
    <3>3. W[i] = first \o W[e + 1]
      BY Zenon, <1>3, <3>1
    <3>4. L[i] = <<b>> \o L[e + 1]
      BY Zenon, <1>2, <3>1, <3>2
    <3> HIDE DEF e, b
    <3>5. first \in WholeLines /\ ReadTerminal(first) = <<Others(b)>>
      BY <3>2, TextLine
    <3>6. e + 1 \in 1 .. n + 2 /\ (e + 1) + k > n
      BY <1>1, <2>2, <3>2
    <3>7. Shown(e + 1)
      <4> HIDE DEF Shown
      <4> QED BY <1>8, <3>6
    <3> HIDE DEF first
    <3>8. W[i] \in WholeLines /\ ReadTerminal(W[i]) = <<Others(b)>> \o AllOthers(L[e + 1])
      BY <3>3, <3>5, <3>7, LinesJoin
    <3>9. AllOthers(L[i]) = <<Others(b)>> \o AllOthers(L[e + 1])
      <4>1. b \in Seq(Nat)
        BY <3>2, InlineText
      <4>2. L[e + 1] \in Seq(Seq(Nat))
        BY <1>4, <3>6
      <4> QED BY <3>4, <4>1, <4>2, OthersFirst
    <3> QED BY <3>8, <3>9
  <2> QED BY <1>1, <2>1, <2>2
<1>9. Nat \subseteq G
  <2> HIDE DEF G
  <2> QED BY <1>7, <1>8, Induction
<1>10. Shown(1)
  <2>1. 1 \in 1 .. n + 2 /\ 1 + n > n
    BY <1>1
  <2> HIDE DEF Shown
  <2> QED BY <1>1, <1>9, <2>1
<1>11. WritePrefixed(value) = W[1] /\ LinesOf(value) = L[1]
  BY <1>1, LinesUnfold, PrefixedUnfold DEF W, L
<1> QED BY <1>10, <1>11

-----------------------------------------------------------------------------
(***************************************************************************)
(* What an escaped text may contain.                                       *)
(***************************************************************************)
LEMMA FlattenTyped ==
    ASSUME NEW E, NEW n \in Nat, NEW f, \A i \in 1 .. n : f[i] \in Seq(E)
    PROVE  FlattenSeq([i \in 1 .. n |-> f[i]]) \in Seq(E)
<1> DEFINE ss == [i \in 1 .. n |-> f[i]]
<1>1. ss \in Seq(Seq(E)) /\ Len(ss) = n
  OBVIOUS
<1> HIDE DEF ss
<1>2. FlattenSeq(ss) = Upto(ss, Len(ss)) /\ \A k \in 0 .. Len(ss) : Upto(ss, k) \in Seq(E)
  BY <1>1, FlattenIsUpto
<1>3. n \in 0 .. n
  OBVIOUS
<1> QED BY <1>1, <1>2, <1>3 DEF ss

(* The letters and digits of an escape.                                    *)
Signs == 48 .. 57 \cup 97 .. 102 \cup {85, 92, 117, 120}

LEMMA HexIs ==
    ASSUME NEW r \in Nat, NEW width \in 1 .. 8
    PROVE  Hex(r, width) \in Seq(Signs)
<1> DEFINE d(k) == (r \div 16 ^ (width - k)) % 16
           digit(k) == IF d(k) < 10 THEN 48 + d(k) ELSE 87 + d(k)
<1>1. \A p \in 0 .. 7 : 16 ^ p \in Nat \ {0}
  <2> SUFFICES ASSUME NEW p \in 0 .. 7 PROVE 16 ^ p \in Nat \ {0}
    OBVIOUS
  <2>0. CASE p = 0
    BY <2>0
  <2>1. CASE p = 1
    BY <2>1
  <2>2. CASE p = 2
    BY <2>2
  <2>3. CASE p = 3
    BY <2>3
  <2>4. CASE p = 4
    BY <2>4
  <2>5. CASE p = 5
    BY <2>5
  <2>6. CASE p = 6
    BY <2>6
  <2>7. CASE p = 7
    BY <2>7
  <2> QED BY <2>0, <2>1, <2>2, <2>3, <2>4, <2>5, <2>6, <2>7
<1>2. ASSUME NEW k \in 1 .. width PROVE d(k) \in 0 .. 15
  <2> DEFINE q == 16 ^ (width - k)
  <2>1. width - k \in 0 .. 7
    OBVIOUS
  <2>2. q \in Nat \ {0}
    BY <1>1, <2>1
  <2> HIDE DEF q
  <2>3. \A x \in Nat : \A y \in Nat \ {0} : (x \div y) % 16 \in 0 .. 15
    OBVIOUS
  <2>4. (r \div q) % 16 \in 0 .. 15
    BY <2>2, <2>3
  <2> QED BY <2>4 DEF q
<1>3. \A x \in 0 .. 15 : (IF x < 10 THEN 48 + x ELSE 87 + x) \in Signs
  BY DEF Signs
<1>4. Hex(r, width) = [k \in 1 .. width |-> digit(k)]
  BY DEF Hex
<1> HIDE DEF d
<1>5. \A k \in 1 .. width : digit(k) \in Signs
  BY <1>2, <1>3
<1> HIDE DEF digit
<1> QED BY <1>4, <1>5

LEMMA RuneEscapeIs == ASSUME NEW r \in Nat PROVE RuneEscape(r) \in Seq(Signs)
<1>1. Hex(r, 2) \in Seq(Signs) /\ Hex(r, 4) \in Seq(Signs) /\ Hex(r, 8) \in Seq(Signs)
  BY HexIs
<1>2. /\ <<92, 85>> \o Hex(r, 8) \in Seq(Signs)
      /\ <<92, 117>> \o Hex(r, 4) \in Seq(Signs)
      /\ <<92, 120>> \o Hex(r, 2) \in Seq(Signs)
  <2> SUFFICES ASSUME NEW s \in Seq(Signs), NEW c \in {85, 117, 120}
               PROVE  <<92, c>> \o s \in Seq(Signs)
    BY <1>1
  <2>1. <<92, c>> \in Seq(Signs)
    BY DEF Signs
  <2> HIDE DEF Signs
  <2> QED BY <2>1, ConcatIs
<1>4. CASE r <= 255
  <2>1. RuneEscape(r) = <<92, 120>> \o Hex(r, 2)
    <3>1. ~(255 < r /\ r <= 65535) /\ ~(r > 65535)
      BY <1>4
    <3> QED BY <1>4, <3>1 DEF RuneEscape
  <2> QED BY Zenon, <1>2, <2>1
<1>5. CASE 255 < r /\ r <= 65535
  <2>1. RuneEscape(r) = <<92, 117>> \o Hex(r, 4)
    <3>1. ~(r <= 255) /\ ~(r > 65535)
      BY <1>5
    <3> QED BY <1>5, <3>1 DEF RuneEscape
  <2> QED BY Zenon, <1>2, <2>1
<1>6. CASE r > 65535
  <2>1. RuneEscape(r) = <<92, 85>> \o Hex(r, 8)
    <3>1. ~(255 < r /\ r <= 65535) /\ ~(r <= 255)
      BY <1>6
    <3> QED BY <1>6, <3>1 DEF RuneEscape
  <2> QED BY Zenon, <1>2, <2>1
<1> QED BY <1>4, <1>5, <1>6

(* An escaped text has no breaks but those that were kept.                 *)
LEMMA EscapeIs ==
    ASSUME NEW V, V \subseteq Nat, NEW value \in Seq(V), NEW kept
    PROVE  Escape(value, kept) \in Seq(Inline \cup (V \cap kept))
<1> DEFINE E == Inline \cup (V \cap kept)
           escaped(r) == IF r \in kept \/ (IsPrint(r) /\ r \notin BidiControls)
                         THEN <<r>> ELSE RuneEscape(r)
           f == [i \in 1 .. Len(value) |-> escaped(value[i])]
<1>1. Len(value) \in Nat /\ \A i \in 1 .. Len(value) : value[i] \in V
  BY ElementsOf
<1>2. ASSUME NEW r \in V PROVE escaped(r) \in Seq(E)
  <2>1. CASE r \in kept
    <3>1. r \in E
      BY <2>1
    <3>2. escaped(r) = <<r>>
      BY <2>1
    <3> HIDE DEF E, escaped
    <3> QED BY <3>1, <3>2
  <2>2. CASE r \notin kept /\ IsPrint(r) /\ r \notin BidiControls
    <3>1. r \in E
      BY <2>2 DEF IsPrint, Inline, Breaks
    <3>2. escaped(r) = <<r>>
      BY <2>2
    <3> HIDE DEF E, escaped
    <3> QED BY <3>1, <3>2
  <2>3. CASE r \notin kept /\ ~(IsPrint(r) /\ r \notin BidiControls)
    <3>1. escaped(r) = RuneEscape(r)
      BY <2>3
    <3>2. RuneEscape(r) \in Seq(Signs)
      <4>1. r \in Nat
        OBVIOUS
      <4> QED BY <4>1, RuneEscapeIs
    <3>3. Signs \subseteq E
      BY DEF Signs, Inline, Breaks
    <3> HIDE DEF E, escaped
    <3>4. \A s \in Seq(Signs) : s \in Seq(E)
      BY <3>3
    <3> QED BY <3>1, <3>2, <3>4
  <2> QED BY <2>1, <2>2, <2>3
<1>3. Escape(value, kept) = FlattenSeq(f)
  BY DEF Escape
<1> HIDE DEF escaped, E
<1>4. \A i \in 1 .. Len(value) : f[i] \in Seq(E)
  BY <1>1, <1>2
<1>5. f = [i \in 1 .. Len(value) |-> f[i]]
  OBVIOUS
<1> HIDE DEF f
<1>6. FlattenSeq([i \in 1 .. Len(value) |-> f[i]]) \in Seq(E)
  BY <1>1, <1>4, FlattenTyped
<1> QED BY <1>3, <1>5, <1>6 DEF E

(* A command line's JSON breaks a line for no argument.                    *)
LEMMA CommandJSONIs ==
    ASSUME NEW value \in Seq(Nat)
    PROVE  CommandJSON(value) \in Seq(Nat \ {NL}) /\ CommandJSON(value) # <<>>
<1> DEFINE V == Nat \ {NL}
           f == [i \in 1 .. Len(value) |-> JSONRune(value[i])]
           json == CommandJSON(value)
<1>1. ASSUME NEW r \in Nat PROVE JSONRune(r) \in Seq(V)
  <2>0. Hex(r, 4) \in Seq(V)
    <3>1. Hex(r, 4) \in Seq(Signs)
      <4>1. 4 \in 1 .. 8
        OBVIOUS
      <4> QED BY <4>1, HexIs
    <3>2. Signs \subseteq V
      BY DEF Signs, NL
    <3> HIDE DEF V
    <3>3. \A s \in Seq(Signs) : s \in Seq(V)
      BY <3>2
    <3> QED BY <3>1, <3>3
  <2>1. CASE r \in {NL, Tab, 13}
    <3>1. PICK c \in {110, 114, 116} : JSONRune(r) = <<92, c>>
      BY SMTT(30), <2>1 DEF JSONRune, NL, Tab
    <3>2. 92 \in V /\ c \in V
      BY DEF NL
    <3> HIDE DEF V
    <3> QED BY <3>1, <3>2
  <2>2. CASE r \in {34, 92}
    <3>1. JSONRune(r) = <<92, r>>
      <4>1. r # NL /\ r # Tab /\ r # 13
            /\ r \notin (0 .. 31 \ {NL, Tab, 13}) \cup {38, 60, 62, 8232, 8233}
        BY <2>2 DEF NL, Tab
      <4> QED BY <2>2, <4>1 DEF JSONRune
    <3>2. 92 \in V /\ r \in V
      BY <2>2 DEF NL
    <3> HIDE DEF V
    <3> QED BY <3>1, <3>2
  <2>3. CASE r \in (0 .. 31 \ {NL, Tab, 13}) \cup {38, 60, 62, 8232, 8233}
    <3>1. JSONRune(r) = <<92, 117>> \o Hex(r, 4)
      <4>1. r # NL /\ r # Tab /\ r # 13 /\ r \notin {34, 92}
        BY <2>3 DEF NL, Tab
      <4> QED BY <2>3, <4>1 DEF JSONRune
    <3>2. <<92, 117>> \in Seq(V)
      BY DEF NL
    <3> HIDE DEF V
    <3> QED BY <2>0, <3>1, <3>2, ConcatIs
  <2>4. CASE /\ r \notin {NL, Tab, 13} /\ r \notin {34, 92}
             /\ r \notin (0 .. 31 \ {NL, Tab, 13}) \cup {38, 60, 62, 8232, 8233}
    <3>1. JSONRune(r) = <<r>>
      BY <2>4 DEF JSONRune
    <3>2. r \in V
      BY <2>4
    <3> HIDE DEF V
    <3> QED BY <3>1, <3>2
  <2> QED BY <2>1, <2>2, <2>3, <2>4
<1>2. Len(value) \in Nat /\ \A i \in 1 .. Len(value) : value[i] \in Nat
  BY ElementsOf
<1>3. json = <<91, 34>> \o FlattenSeq(f) \o <<34, 93>>
  BY DEF CommandJSON
<1>4. <<91, 34>> \in Seq(V) /\ <<34, 93>> \in Seq(V) /\ V \subseteq Nat
  BY DEF NL
<1> HIDE DEF V
<1>5. FlattenSeq(f) \in Seq(V)
  <2>1. \A i \in 1 .. Len(value) : f[i] \in Seq(V)
    BY <1>1, <1>2
  <2>2. f = [i \in 1 .. Len(value) |-> f[i]]
    OBVIOUS
  <2> HIDE DEF f
  <2>3. FlattenSeq([i \in 1 .. Len(value) |-> f[i]]) \in Seq(V)
    BY <1>2, <2>1, FlattenTyped
  <2> QED BY <2>2, <2>3
<1> HIDE DEF f, json
<1>6. json \in Seq(V)
  BY <1>3, <1>4, <1>5, ConcatIs
<1>7. json # <<>>
  <2>1. \A x \in Seq(V) : <<91, 34>> \o x \o <<34, 93>> # <<>>
    BY <1>4
  <2> QED BY <1>3, <1>5, <2>1
<1> QED BY <1>6, <1>7 DEF json, V

LEMMA EscapesAre ==
    ASSUME NEW value \in Seq(Nat)
    PROVE  /\ EscapeInline(value) \in Seq(Inline)
           /\ EscapeControls(value) \in Seq(Inline \cup {NL})
           /\ SafeCommandJSON(value) \in Seq(Inline)
<1>1. EscapeInline(value) \in Seq(Inline)
  <2>1. Escape(value, {}) \in Seq(Inline \cup (Nat \cap {}))
    BY EscapeIs
  <2>2. Inline \cup (Nat \cap {}) = Inline
    OBVIOUS
  <2> QED BY <2>1, <2>2 DEF EscapeInline
<1>2. EscapeControls(value) \in Seq(Inline \cup {NL})
  <2>1. Escape(value, {NL, Tab}) \in Seq(Inline \cup (Nat \cap {NL, Tab}))
    BY EscapeIs
  <2>2. Inline \cup (Nat \cap {NL, Tab}) = Inline \cup {NL}
    BY DEF Inline, Breaks, NL, Tab
  <2> QED BY <2>1, <2>2 DEF EscapeControls
<1>3. SafeCommandJSON(value) \in Seq(Inline)
  <2> DEFINE V == Nat \ {NL}
             json == CommandJSON(value)
  <2>1. json \in Seq(V)
    BY CommandJSONIs
  <2>2. V \subseteq Nat
    OBVIOUS
  <2> HIDE DEF V, json
  <2>3. Escape(json, {NL, Tab}) \in Seq(Inline \cup (V \cap {NL, Tab}))
    BY <2>1, <2>2, EscapeIs
  <2>4. Inline \cup (V \cap {NL, Tab}) = Inline
    BY DEF V, Inline, Breaks, NL, Tab
  <2> QED BY <2>3, <2>4 DEF SafeCommandJSON, EscapeControls, json
<1> QED BY <1>1, <1>2, <1>3

-----------------------------------------------------------------------------
(***************************************************************************)
(* The n-th line that is not runprint's own.                               *)
(***************************************************************************)
OtherOne(report, i) == IF report[i].own THEN 0 ELSE 1
CountNext(report, others, i) == IF i = 0 THEN 0 ELSE others[i - 1] + OtherOne(report, i)
OthersUpto(report) ==
    CHOOSE others : others = [i \in 0 .. Len(report) |-> CountNext(report, others, i)]
Foreign(report) == OthersUpto(report)[Len(report)]

LEMMA CountExists ==
    ASSUME NEW report
    PROVE  \A n \in Nat : \E others : others = [i \in 0 .. n |-> CountNext(report, others, i)]
<1> DEFINE Is(f, k) == f = [i \in 0 .. k |-> CountNext(report, f, i)]
           G == {k \in Nat : \E f : Is(f, k)}
<1>0. ASSUME NEW i, NEW f, NEW g, i # 0 => f[i - 1] = g[i - 1]
      PROVE  CountNext(report, f, i) = CountNext(report, g, i)
  BY <1>0 DEF CountNext
<1>1. 0 \in G
  <2> DEFINE first == [i \in 0 .. 0 |-> CountNext(report, <<>>, i)]
  <2>1. \A i \in 0 .. 0 : CountNext(report, <<>>, i) = CountNext(report, first, i)
    <3>1. \A i \in 0 .. 0 : i = 0
      OBVIOUS
    <3> HIDE DEF first
    <3> QED BY <3>1, <1>0
  <2>2. Is(first, 0)
    <3> HIDE DEF first
    <3> QED BY <2>1 DEF first
  <2> HIDE DEF first, Is
  <2> QED BY <2>2
<1>2. ASSUME NEW k \in Nat, k \in G PROVE k + 1 \in G
  <2>1. PICK f : Is(f, k)
    BY <1>2
  <2> DEFINE more == [i \in 0 .. k + 1 |-> IF i <= k THEN f[i] ELSE CountNext(report, f, i)]
  <2>2. \A i \in 0 .. k : more[i] = f[i]
    OBVIOUS
  <2>3. \A i \in 0 .. k + 1 : CountNext(report, f, i) = CountNext(report, more, i)
    <3>1. ASSUME NEW i \in 0 .. k + 1, i # 0 PROVE i - 1 \in 0 .. k
      BY <3>1
    <3> HIDE DEF more
    <3> QED BY <2>2, <3>1, <1>0
  <2>4. \A i \in 0 .. k : f[i] = CountNext(report, f, i)
    BY <2>1
  <2>5. Is(more, k + 1)
    <3>1. \A i \in 0 .. k + 1 : (IF i <= k THEN f[i] ELSE CountNext(report, f, i))
                                    = CountNext(report, f, i)
      BY <2>4
    <3>2. more = [i \in 0 .. k + 1 |-> CountNext(report, f, i)]
      BY <3>1
    <3> HIDE DEF more
    <3> QED BY <2>3, <3>2
  <2> HIDE DEF more, Is
  <2> QED BY <2>5
<1>3. Nat \subseteq G
  <2> HIDE DEF G
  <2> QED BY <1>1, <1>2, Induction
<1> QED BY <1>3

LEMMA CountIs ==
    ASSUME NEW report \in Seq(Items)
    PROVE  LET N == OthersUpto(report)
           IN  /\ N[0] = 0
               /\ \A i \in 1 .. Len(report) : N[i] = N[i - 1] + OtherOne(report, i)
               /\ \A i \in 0 .. Len(report) : N[i] \in Nat
               /\ \A i \in 0 .. Len(report) : N[i] <= N[Len(report)]
<1> DEFINE n == Len(report)
           N == OthersUpto(report)
           G == {k \in Nat : k <= n => N[k] \in Nat}
           H == {k \in Nat : k <= n => N[n - k] <= N[n]}
<1>1. n \in Nat
  OBVIOUS
<1>2. \E others : others = [i \in 0 .. n |-> CountNext(report, others, i)]
  BY <1>1, CountExists
<1>3. N = [i \in 0 .. n |-> CountNext(report, N, i)]
  BY <1>2 DEF OthersUpto
<1> HIDE DEF N
<1>4. \A i \in 0 .. n : N[i] = CountNext(report, N, i)
  BY <1>3
<1>5. N[0] = 0 /\ \A i \in 1 .. n : N[i] = N[i - 1] + OtherOne(report, i)
  BY <1>1, <1>4 DEF CountNext
<1>6. \A i : OtherOne(report, i) \in {0, 1}
  BY DEF OtherOne
<1>7. 0 \in G
  BY <1>5
<1>8. ASSUME NEW k \in Nat, k \in G PROVE k + 1 \in G
  <2> SUFFICES ASSUME k + 1 <= n PROVE N[k + 1] \in Nat
    OBVIOUS
  <2>1. k + 1 \in 1 .. n /\ (k + 1) - 1 = k /\ k <= n
    BY <1>1
  <2>2. N[k] \in Nat /\ N[k + 1] = N[k] + OtherOne(report, k + 1)
    BY <1>5, <1>8, <2>1
  <2> QED BY <1>6, <2>2
<1>9. Nat \subseteq G
  <2> HIDE DEF G
  <2> QED BY <1>7, <1>8, Induction
<1>10. \A i \in 0 .. n : N[i] \in Nat
  BY <1>1, <1>9
<1>11. 0 \in H
  BY <1>1, <1>10
<1>12. ASSUME NEW k \in Nat, k \in H PROVE k + 1 \in H
  <2> SUFFICES ASSUME k + 1 <= n PROVE N[n - (k + 1)] <= N[n]
    OBVIOUS
  <2>1. n - k \in 1 .. n /\ (n - k) - 1 = n - (k + 1) /\ n - (k + 1) \in 0 .. n /\ k <= n
        /\ n \in 0 .. n /\ n - k \in 0 .. n
    BY <1>1
  <2>2. N[n - k] <= N[n] /\ N[n - k] = N[n - (k + 1)] + OtherOne(report, n - k)
    BY <1>5, <1>12, <2>1
  <2>3. N[n - k] \in Nat /\ N[n] \in Nat /\ N[n - (k + 1)] \in Nat
    BY <1>10, <2>1
  <2>4. OtherOne(report, n - k) \in {0, 1}
    BY <1>6
  <2> QED BY <2>2, <2>3, <2>4
<1>13. Nat \subseteq H
  <2> HIDE DEF H
  <2> QED BY <1>11, <1>12, Induction
<1>14. \A i \in 0 .. n : N[i] <= N[n]
  <2> SUFFICES ASSUME NEW i \in 0 .. n PROVE N[i] <= N[n]
    OBVIOUS
  <2>1. n - i \in Nat /\ n - i <= n /\ n - (n - i) = i
    BY <1>1
  <2>2. n - i \in H
    BY <1>13, <2>1
  <2> QED BY <2>1, <2>2
<1> QED BY <1>5, <1>10, <1>14 DEF N

LEMMA CountJoin ==
    ASSUME NEW a \in Seq(Items), NEW b \in Seq(Items)
    PROVE  /\ \A i \in 0 .. Len(a) : OthersUpto(a \o b)[i] = OthersUpto(a)[i]
           /\ \A j \in 0 .. Len(b) :
                  OthersUpto(a \o b)[Len(a) + j] = Foreign(a) + OthersUpto(b)[j]
<1> DEFINE c == a \o b
           m == Len(a)
           n == Len(b)
           C == OthersUpto(c)
           A == OthersUpto(a)
           B == OthersUpto(b)
           G == {k \in Nat : k <= m => C[k] = A[k]}
           H == {k \in Nat : k <= n => C[m + k] = A[m] + B[k]}
<1>1. /\ c \in Seq(Items) /\ Len(c) = m + n /\ m \in Nat /\ n \in Nat
      /\ \A i \in 1 .. m : c[i] = a[i]
      /\ \A i \in 1 .. n : c[m + i] = b[i]
  BY ConcatIs
<1> HIDE DEF c
<1>2. /\ C[0] = 0 /\ \A i \in 1 .. Len(c) : C[i] = C[i - 1] + OtherOne(c, i)
  BY <1>1, CountIs
<1>3. /\ A[0] = 0 /\ \A i \in 1 .. m : A[i] = A[i - 1] + OtherOne(a, i)
      /\ \A i \in 0 .. m : A[i] \in Nat
  BY CountIs
<1>4. /\ B[0] = 0 /\ \A i \in 1 .. n : B[i] = B[i - 1] + OtherOne(b, i)
      /\ \A i \in 0 .. n : B[i] \in Nat
  BY CountIs
<1> HIDE DEF A, B, C
<1>5. 0 \in G
  BY <1>2, <1>3
<1>6. ASSUME NEW k \in Nat, k \in G PROVE k + 1 \in G
  <2> SUFFICES ASSUME k + 1 <= m PROVE C[k + 1] = A[k + 1]
    OBVIOUS
  <2>1. k + 1 \in 1 .. m /\ k + 1 \in 1 .. Len(c) /\ (k + 1) - 1 = k /\ k <= m
    BY <1>1
  <2>2. C[k + 1] = C[k] + OtherOne(c, k + 1) /\ A[k + 1] = A[k] + OtherOne(a, k + 1)
    BY <1>2, <1>3, <2>1
  <2>3. C[k] = A[k] /\ OtherOne(c, k + 1) = OtherOne(a, k + 1)
    BY <1>1, <1>6, <2>1 DEF OtherOne
  <2> QED BY <2>2, <2>3
<1>7. Nat \subseteq G
  <2> HIDE DEF G
  <2> QED BY <1>5, <1>6, Induction
<1>8. \A i \in 0 .. m : C[i] = A[i]
  BY <1>1, <1>7
<1>9. 0 \in H
  <2>1. m \in 0 .. m /\ m + 0 = m
    BY <1>1
  <2>2. C[m] = A[m] /\ A[m] \in Nat
    BY <1>3, <1>8, <2>1
  <2> QED BY <1>4, <2>1, <2>2
<1>10. ASSUME NEW k \in Nat, k \in H PROVE k + 1 \in H
  <2> SUFFICES ASSUME k + 1 <= n PROVE C[m + (k + 1)] = A[m] + B[k + 1]
    OBVIOUS
  <2>1. /\ k + 1 \in 1 .. n /\ m + (k + 1) \in 1 .. Len(c) /\ (m + (k + 1)) - 1 = m + k
        /\ (k + 1) - 1 = k /\ k <= n /\ k \in 0 .. n /\ m \in 0 .. m
    BY <1>1
  <2>2. C[m + (k + 1)] = C[m + k] + OtherOne(c, m + (k + 1))
    BY <1>2, <2>1
  <2>3. B[k + 1] = B[k] + OtherOne(b, k + 1)
    BY <1>4, <2>1
  <2>4. OtherOne(c, m + (k + 1)) = OtherOne(b, k + 1) /\ OtherOne(b, k + 1) \in {0, 1}
    BY <1>1, <2>1 DEF OtherOne
  <2>5. C[m + k] = A[m] + B[k] /\ A[m] \in Nat /\ B[k] \in Nat
    BY <1>3, <1>4, <1>10, <2>1
  <2> QED BY <2>2, <2>3, <2>4, <2>5
<1>11. Nat \subseteq H
  <2> HIDE DEF H
  <2> QED BY <1>9, <1>10, Induction
<1>12. \A j \in 0 .. n : C[m + j] = A[m] + B[j]
  BY <1>1, <1>11
<1> QED BY <1>8, <1>12 DEF A, B, C, c, Foreign

LEMMA ForeignJoin ==
    ASSUME NEW a \in Seq(Items), NEW b \in Seq(Items)
    PROVE  /\ Foreign(a \o b) = Foreign(a) + Foreign(b)
           /\ Foreign(a) \in Nat
<1>1. Len(a \o b) = Len(a) + Len(b) /\ Len(b) \in 0 .. Len(b) /\ Len(a) \in 0 .. Len(a)
  OBVIOUS
<1>2. OthersUpto(a \o b)[Len(a) + Len(b)] = Foreign(a) + OthersUpto(b)[Len(b)]
  BY <1>1, CountJoin
<1>3. Foreign(a) \in Nat
  BY <1>1, CountIs DEF Foreign
<1> QED BY <1>1, <1>2, <1>3 DEF Foreign

LEMMA ForeignOne ==
    ASSUME NEW item \in Items
    PROVE  /\ <<item>> \in Seq(Items) /\ Foreign(<<>>) = 0
           /\ Foreign(<<item>>) = IF item.own THEN 0 ELSE 1
<1>1. Len(<<item>>) = 1 /\ <<item>>[1] = item /\ <<item>> \in Seq(Items)
      /\ <<>> \in Seq(Items) /\ Len(<<>>) = 0
  OBVIOUS
<1>2. 1 \in 1 .. 1 /\ 1 - 1 = 0
  OBVIOUS
<1>3. OthersUpto(<<item>>)[0] = 0
      /\ OthersUpto(<<item>>)[1] = OthersUpto(<<item>>)[1 - 1] + OtherOne(<<item>>, 1)
  BY <1>1, <1>2, CountIs
<1>4. OthersUpto(<<>>)[0] = 0
  BY <1>1, CountIs
<1>5. OtherOne(<<item>>, 1) = IF item.own THEN 0 ELSE 1
  BY <1>1 DEF OtherOne
<1> QED BY <1>1, <1>2, <1>3, <1>4, <1>5 DEF Foreign

LEMMA InsteadIs ==
    ASSUME NEW a \in Seq(Items), NEW item \in Items, NEW b \in Seq(Items), ~item.own, NEW lines
    PROVE  Instead(a \o <<item>> \o b, Foreign(a) + 1, lines) = a \o AllOthers(lines) \o b
<1> DEFINE first == a \o <<item>>
           report == first \o b
           p == Len(a) + 1
           n == Foreign(a) + 1
           N == OthersUpto(report)
           T == {i \in 1 .. Len(report) : N[i] = n}
<1>0. <<item>> \in Seq(Items) /\ Len(<<item>>) = 1 /\ 1 \in 0 .. 1
  OBVIOUS
<1>1. /\ first \in Seq(Items) /\ Len(first) = p /\ p \in Nat /\ Len(a) \in Nat /\ p - 1 = Len(a)
  <2>1. first \in Seq(Items) /\ Len(first) = Len(a) + Len(<<item>>) /\ Len(a) \in Nat
    BY <1>0, ConcatIs
  <2> HIDE DEF first
  <2> QED BY <1>0, <2>1
<1> HIDE DEF first
<1>2. /\ report \in Seq(Items) /\ Len(report) = p + Len(b) /\ Len(b) \in Nat
  <2> HIDE DEF p
  <2> QED BY <1>1, ConcatIs
<1>3. Foreign(a) \in Nat /\ \A i \in 0 .. Len(a) : OthersUpto(a)[i] <= Foreign(a)
                         /\ OthersUpto(a)[i] \in Nat
  <2>1. Len(a) \in 0 .. Len(a)
    BY <1>1
  <2> QED BY <2>1, CountIs DEF Foreign
<1>4. /\ \A i \in 0 .. Len(a) : OthersUpto(first)[i] = OthersUpto(a)[i]
      /\ OthersUpto(first)[p] = Foreign(a) + 1
  <2>1. /\ \A i \in 0 .. Len(a) : OthersUpto(a \o <<item>>)[i] = OthersUpto(a)[i]
        /\ \A j \in 0 .. 1 :
                OthersUpto(a \o <<item>>)[Len(a) + j] = Foreign(a) + OthersUpto(<<item>>)[j]
    <3> DEFINE s == <<item>>
    <3>1. s \in Seq(Items) /\ Len(s) = 1
      OBVIOUS
    <3> HIDE DEF s
    <3>2. /\ \A i \in 0 .. Len(a) : OthersUpto(a \o s)[i] = OthersUpto(a)[i]
          /\ \A j \in 0 .. Len(s) : OthersUpto(a \o s)[Len(a) + j] = Foreign(a) + OthersUpto(s)[j]
      BY <3>1, CountJoin
    <3>3. /\ \A i \in 0 .. Len(a) : OthersUpto(a \o s)[i] = OthersUpto(a)[i]
          /\ \A j \in 0 .. 1 : OthersUpto(a \o s)[Len(a) + j] = Foreign(a) + OthersUpto(s)[j]
      BY Zenon, <3>1, <3>2
    <3> QED BY <3>3 DEF s
  <2>2. OthersUpto(<<item>>)[1] = 1
    BY <1>0, ForeignOne DEF Foreign
  <2>3. OthersUpto(a \o <<item>>)[Len(a) + 1] = Foreign(a) + 1
    BY <1>0, <2>1, <2>2
  <2> QED BY <2>1, <2>3 DEF first, p
<1>5. \A i \in 0 .. p : N[i] = OthersUpto(first)[i]
  <2>1. \A i \in 0 .. Len(first) : OthersUpto(first \o b)[i] = OthersUpto(first)[i]
    BY <1>1, CountJoin
  <2> QED BY <1>1, <2>1
<1>6. p \in T
  <2>1. p \in 1 .. Len(report) /\ p \in 0 .. p
    BY <1>1, <1>2
  <2> HIDE DEF N, report, p
  <2> QED BY <1>4, <1>5, <2>1
<1> HIDE DEF N, report
<1>7. ASSUME NEW i \in T, i < p PROVE FALSE
  <2>1. i \in 0 .. Len(a) /\ i \in 0 .. p
    BY <1>1, <1>2, <1>7
  <2>2. N[i] = OthersUpto(a)[i] /\ N[i] = n
    BY <1>4, <1>5, <2>1
  <2>3. OthersUpto(a)[i] <= Foreign(a) /\ OthersUpto(a)[i] \in Nat
    BY <1>3, <2>1
  <2> QED BY <1>3, <2>2, <2>3
<1>8. Min(T) = p
  <2>1. T \subseteq Nat /\ T # {}
    <3> HIDE DEF p, n
    <3> QED BY <1>6
  <2> HIDE DEF T, p, n
  <2>2. Min(T) \in T /\ \A x \in T : Min(T) <= x
    BY <2>1, MinIs
  <2>3. Min(T) \in Nat /\ ~(Min(T) < p) /\ Min(T) <= p
    BY <1>6, <1>7, <2>1, <2>2
  <2> QED BY <1>1, <2>3
<1>9. Instead(report, n, lines) =
        SubSeq(report, 1, p - 1) \o AllOthers(lines) \o SubSeq(report, p + 1, Len(report))
  <2> DEFINE at == Min(T)
  <2>1. Instead(report, n, lines) =
          SubSeq(report, 1, at - 1) \o AllOthers(lines) \o SubSeq(report, at + 1, Len(report))
    BY DEF Instead, OthersUpto, CountNext, OtherOne, N
  <2> HIDE DEF at, n, p
  <2> QED BY <1>8, <2>1 DEF at
<1>10. SubSeq(report, 1, p - 1) = a
  <2>1. report = a \o (<<item>> \o b) /\ <<item>> \o b \in Seq(Items)
    <3>1. <<item>> \o b \in Seq(Items)
      BY <1>0, ConcatIs
    <3> QED BY ZenonT(30), <1>0, <3>1, ItemsAssoc DEF report, first
  <2> DEFINE rest == <<item>> \o b
  <2> HIDE DEF rest
  <2>2. 1 \in 1 .. Len(rest) + 1 /\ 0 \in 1 - 1 .. Len(rest) /\ rest \in Seq(Items)
    BY <2>1 DEF rest
  <2>3. SubSeq(a \o rest, 1, Len(a)) = a
    BY <2>2, SubSeqOfConcat
  <2> QED BY <1>1, <2>1, <2>3 DEF rest
<1>11. SubSeq(report, p + 1, Len(report)) = b
  <2> DEFINE k == Len(b)
  <2>1. 1 \in 1 .. Len(b) + 1 /\ k \in 1 - 1 .. Len(b) /\ first \in Seq(Items)
    BY <1>1, <1>2
  <2>2. SubSeq(b, 1, k) = b
    OBVIOUS
  <2> HIDE DEF k
  <2>3. SubSeq(first \o b, Len(first) + 1, Len(first) + k) = SubSeq(b, 1, k)
    <3> HIDE DEF first
    <3> QED BY SMTT(30), <2>1, SubSeqOfConcat
  <2> HIDE DEF p
  <2> QED BY <1>1, <1>2, <2>2, <2>3 DEF report, k
<1> QED BY <1>9, <1>10, <1>11 DEF report, first

-----------------------------------------------------------------------------
(***************************************************************************)
(* The terminal report.                                                    *)
(***************************************************************************)
Labels == {Phrase(n) : n \in Nat}

LEMMA LabelsAre ==
    {RecordLabel, CommandLabel, DirectoryLabel, VersionLabel, CommitLabel, BranchLabel, StreamLabel,
     Facts, LegacyNote, IncompleteNote, InvalidNote, OmittedNote} \subseteq Labels
BY DEF Labels, RecordLabel, CommandLabel, DirectoryLabel, VersionLabel, CommitLabel, BranchLabel,
       StreamLabel, Facts, LegacyNote, IncompleteNote, InvalidNote, OmittedNote

(* Output that shows lines of runprint's own and nothing else.             *)
OwnLines(a, shown) ==
    /\ a \in WholeLines
    /\ ReadTerminal(a) = shown /\ shown \in Seq(Items) /\ Foreign(shown) = 0

LEMMA OwnMark ==
    ASSUME NEW line \in Seq(Nat)
    PROVE  Mark(line) \in Items /\ <<Mark(line)>> \in Seq(Items) /\ Foreign(<<Mark(line)>>) = 0
<1>1. Mark(line) \in Items /\ Mark(line).own
  BY DEF Mark, Items
<1> QED BY <1>1, ForeignOne

LEMMA OwnLabel ==
    ASSUME NEW label \in Labels, NEW value \in Seq(Inline)
    PROVE  OwnLines(Line(label, value), <<Mark(label)>>)
<1>1. PICK n \in Nat : label = Phrase(n)
  BY DEF Labels
<1>2. label \in Seq(Nat)
  BY <1>1 DEF Phrase, UnicodeMax
<1>3. Line(label, value) \in WholeLines /\ ReadTerminal(Line(label, value)) = <<Mark(label)>>
  BY <1>1, OwnLine
<1> QED BY <1>2, <1>3, OwnMark DEF OwnLines

LEMMA OwnBlank == OwnLines(<<NL>>, <<Mark(<<>>)>>)
<1>1. <<>> \in Seq(Nat)
  OBVIOUS
<1> QED BY <1>1, BlankLine, OwnMark DEF OwnLines

LEMMA OwnJoin ==
    ASSUME NEW a, NEW b, NEW shown, NEW more, OwnLines(a, shown), OwnLines(b, more)
    PROVE  OwnLines(a \o b, shown \o more)
<1>1. /\ a \in WholeLines /\ b \in WholeLines /\ ReadTerminal(a) = shown /\ ReadTerminal(b) = more
      /\ shown \in Seq(Items) /\ more \in Seq(Items) /\ Foreign(shown) = 0 /\ Foreign(more) = 0
  BY DEF OwnLines
<1>2. a \o b \in WholeLines /\ ReadTerminal(a \o b) = shown \o more
  BY <1>1, LinesJoin
<1>3. shown \o more \in Seq(Items)
  BY <1>1, ConcatIs
<1>4. Foreign(shown \o more) = 0
  BY <1>1, ForeignJoin
<1> QED BY <1>2, <1>3, <1>4 DEF OwnLines

LEMMA OwnOptional ==
    ASSUME NEW a, NEW shown, OwnLines(a, shown), NEW condition
    PROVE  OwnLines(OnlyIf(condition, a), OnlyIf(condition, shown))
<1>1. CASE condition
  BY <1>1 DEF OnlyIf
<1>2. CASE ~condition
  <2>1. OnlyIf(condition, a) = <<>> /\ OnlyIf(condition, shown) = <<>>
    BY <1>2 DEF OnlyIf
  <2>2. Foreign(<<>>) = 0 /\ <<>> \in Seq(Items)
    <3>1. <<>> \in Seq(Nat) /\ <<>> \in Seq(Items)
      OBVIOUS
    <3>2. Mark(<<>>) \in Items
      BY <3>1, OwnMark
    <3> QED BY <3>1, <3>2, ForeignOne
  <2> QED BY <2>1, <2>2, NoLine DEF OwnLines
<1> QED BY <1>1, <1>2

(* Everything in front of the stream.                                      *)
Git(r) == Line(CommitLabel, EscapeInline(ValueOrUnknown(r.commit)))
            \o Line(BranchLabel, EscapeInline(ValueOrUnknown(r.branch)))
Summary(r) ==
    Line(CommandLabel, SafeCommandJSON(r.command))
      \o Line(DirectoryLabel, EscapeInline(r.directory))
      \o Line(Facts, <<>>)
      \o Line(VersionLabel, EscapeInline(ValueOrUnknown(r.version)))
      \o OnlyIf(r.git, Git(r))
      \o OnlyIf(r.legacy, Line(LegacyNote, <<>>))
HeadOf(path, r) == Line(RecordLabel, EscapeInline(path)) \o Line(Facts, <<>>) \o Summary(r)

IsText(r) ==
    /\ r.command \in Seq(Nat) /\ r.directory \in Seq(Nat) /\ r.version \in Seq(Nat)
    /\ r.commit \in Seq(Nat) /\ r.branch \in Seq(Nat)

SummaryMarks(git, legacy) ==
    <<Mark(CommandLabel)>> \o <<Mark(DirectoryLabel)>> \o <<Mark(Facts)>> \o <<Mark(VersionLabel)>>
      \o OnlyIf(git, <<Mark(CommitLabel)>> \o <<Mark(BranchLabel)>>)
      \o OnlyIf(legacy, <<Mark(LegacyNote)>>)

LEMMA SummaryShown ==
    ASSUME NEW r, IsText(r)
    PROVE  OwnLines(Summary(r), SummaryMarks(r.git, r.legacy))
<1>1. \A label \in Labels : \A value \in Seq(Inline) : OwnLines(Line(label, value), <<Mark(label)>>)
  BY OwnLabel
<1>2. \A value \in Seq(Nat) : /\ EscapeInline(value) \in Seq(Inline)
                              /\ SafeCommandJSON(value) \in Seq(Inline)
  BY EscapesAre
<1>3. <<>> \in Seq(Inline)
  OBVIOUS
<1>4. \A value \in Seq(Nat) : ValueOrUnknown(value) \in Seq(Nat)
  BY DEF ValueOrUnknown, Unknown, Phrase, UnicodeMax
<1>5. /\ r.command \in Seq(Nat) /\ r.directory \in Seq(Nat) /\ r.version \in Seq(Nat)
      /\ r.commit \in Seq(Nat) /\ r.branch \in Seq(Nat)
  BY DEF IsText
<1>6. /\ CommandLabel \in Labels /\ DirectoryLabel \in Labels
      /\ VersionLabel \in Labels /\ CommitLabel \in Labels /\ BranchLabel \in Labels
      /\ Facts \in Labels /\ LegacyNote \in Labels
  BY LabelsAre
<1>7. \A a, b, s, t : OwnLines(a, s) /\ OwnLines(b, t) => OwnLines(a \o b, s \o t)
  BY OwnJoin
<1>8. \A a, s, c : OwnLines(a, s) => OwnLines(OnlyIf(c, a), OnlyIf(c, s))
  BY OwnOptional
<1> DEFINE l2 == Line(Facts, <<>>)
           l3 == Line(CommandLabel, SafeCommandJSON(r.command))
           l4 == Line(DirectoryLabel, EscapeInline(r.directory))
           l5 == Line(VersionLabel, EscapeInline(ValueOrUnknown(r.version)))
           l6 == Line(CommitLabel, EscapeInline(ValueOrUnknown(r.commit)))
           l7 == Line(BranchLabel, EscapeInline(ValueOrUnknown(r.branch)))
           l8 == Line(LegacyNote, <<>>)
<1>9. /\ OwnLines(l2, <<Mark(Facts)>>)
      /\ OwnLines(l3, <<Mark(CommandLabel)>>) /\ OwnLines(l4, <<Mark(DirectoryLabel)>>)
  BY Zenon, <1>1, <1>2, <1>3, <1>5, <1>6
<1>10. /\ OwnLines(l5, <<Mark(VersionLabel)>>) /\ OwnLines(l6, <<Mark(CommitLabel)>>)
       /\ OwnLines(l7, <<Mark(BranchLabel)>>) /\ OwnLines(l8, <<Mark(LegacyNote)>>)
  BY Zenon, <1>1, <1>2, <1>3, <1>4, <1>5, <1>6
<1> HIDE DEF l2, l3, l4, l5, l6, l7, l8
<1>11. /\ OwnLines(OnlyIf(r.git, l6 \o l7),
                   OnlyIf(r.git, <<Mark(CommitLabel)>> \o <<Mark(BranchLabel)>>))
       /\ OwnLines(OnlyIf(r.legacy, l8), OnlyIf(r.legacy, <<Mark(LegacyNote)>>))
  BY Zenon, <1>7, <1>8, <1>10
<1>12. OwnLines(l3 \o l4 \o l2, <<Mark(CommandLabel)>> \o <<Mark(DirectoryLabel)>> \o <<Mark(Facts)>>)
  BY Zenon, <1>7, <1>9
<1>13. OwnLines(l3 \o l4 \o l2 \o l5,
                <<Mark(CommandLabel)>> \o <<Mark(DirectoryLabel)>> \o <<Mark(Facts)>>
                  \o <<Mark(VersionLabel)>>)
  BY Zenon, <1>7, <1>10, <1>12
<1>14. Summary(r) = l3 \o l4 \o l2 \o l5 \o OnlyIf(r.git, l6 \o l7) \o OnlyIf(r.legacy, l8)
  BY DEF Summary, Git, l2, l3, l4, l5, l6, l7, l8
<1> QED BY Zenon, <1>7, <1>11, <1>13, <1>14 DEF SummaryMarks

HeadMarks(git, legacy) ==
    <<Mark(RecordLabel)>> \o <<Mark(Facts)>> \o SummaryMarks(git, legacy)

LEMMA HeadShown ==
    ASSUME NEW path \in Seq(Nat), NEW r, IsText(r)
    PROVE  OwnLines(HeadOf(path, r), HeadMarks(r.git, r.legacy))
<1> DEFINE l1 == Line(RecordLabel, EscapeInline(path))
           l2 == Line(Facts, <<>>)
<1>1. EscapeInline(path) \in Seq(Inline) /\ <<>> \in Seq(Inline)
  BY EscapesAre
<1>2. OwnLines(l1, <<Mark(RecordLabel)>>) /\ OwnLines(l2, <<Mark(Facts)>>)
  BY <1>1, OwnLabel, LabelsAre
<1>3. OwnLines(Summary(r), SummaryMarks(r.git, r.legacy))
  BY SummaryShown
<1> HIDE DEF l1, l2
<1>4. OwnLines(l1 \o l2, <<Mark(RecordLabel)>> \o <<Mark(Facts)>>)
  BY <1>2, OwnJoin
<1>5. HeadOf(path, r) = l1 \o l2 \o Summary(r)
  BY DEF HeadOf, l1, l2
<1> QED BY <1>3, <1>4, <1>5, OwnJoin DEF HeadMarks

LEMMA HeadStands ==
    ASSUME NEW path \in Seq(Nat), NEW r, IsText(r), NEW raw,
           WriteTerminalStream(r.stream, raw) \in Seq(Nat)
    PROVE  ShowTerminal(path, r, raw) = HeadOf(path, r) \o WriteTerminalStream(r.stream, raw)
<1> DEFINE l1 == Line(RecordLabel, EscapeInline(path))
           l2 == Line(Facts, <<>>)
           front == l1 \o l2
           s == WriteTerminalStream(r.stream, raw)
<1>1. l1 \in Seq(Nat) /\ l2 \in Seq(Nat) /\ s \in Seq(Nat)
  <2>1. EscapeInline(path) \in Seq(Inline) /\ <<>> \in Seq(Inline)
    BY EscapesAre
  <2>2. OwnLines(l1, <<Mark(RecordLabel)>>) /\ OwnLines(l2, <<Mark(Facts)>>)
    BY <2>1, OwnLabel, LabelsAre
  <2> QED BY <2>2 DEF OwnLines, WholeLines
<1>2. front \in Seq(Nat)
  BY <1>1, ConcatIs
<1>3. ShowTerminal(path, r, raw) = front \o WriteTerminal(r, raw)
  BY DEF ShowTerminal
<1>4. WriteTerminal(r, raw) = Summary(r) \o s
  BY DEF WriteTerminal, Summary, Git
<1>5. HeadOf(path, r) = front \o Summary(r)
  BY DEF HeadOf
<1> HIDE DEF l1, l2, front, s
<1>6. Summary(r) \in Seq(Nat)
  BY SummaryShown DEF OwnLines, WholeLines
<1>7. (front \o Summary(r)) \o s = front \o (Summary(r) \o s)
  <2> DEFINE sum == Summary(r)
  <2>1. front \in Seq(Nat) /\ sum \in Seq(Nat) /\ s \in Seq(Nat)
    BY <1>1, <1>2, <1>6
  <2> HIDE DEF sum
  <2>2. (front \o sum) \o s = front \o (sum \o s)
    BY SMTT(30), <2>1
  <2> QED BY <2>2 DEF sum
<1> QED BY <1>3, <1>4, <1>5, <1>7 DEF s

(* The stream: its own lines, then what was received.                      *)
StreamHead(s, raw) ==
    <<NL>> \o Line(StreamLabel, <<>>)
      \o OnlyIf(~s.complete, Line(IncompleteNote, <<>>))
      \o OnlyIf(s.invalid /\ ~raw, Line(InvalidNote, <<>>))
StreamMarks(s, raw) ==
    <<Mark(<<>>)>> \o <<Mark(StreamLabel)>>
      \o OnlyIf(~s.complete, <<Mark(IncompleteNote)>>)
      \o OnlyIf(s.invalid /\ ~raw, <<Mark(InvalidNote)>>)
Received(s, raw) ==
    LET Part(value) == IF raw THEN WriteRawPart(value) ELSE WritePrefixed(EscapeControls(value))
    IN  Part(s.head) \o OnlyIf(s.truncated, Line(OmittedNote, <<>>)) \o Part(s.tail)
StreamBody(s, raw) == IF NothingReceived(s) THEN Line(Empty, <<>>) ELSE Received(s, raw)

LEMMA StreamIs ==
    ASSUME NEW s, NEW raw
    PROVE  WriteTerminalStream(s, raw) = StreamHead(s, raw) \o StreamBody(s, raw)
BY DEF WriteTerminalStream, StreamHead, StreamBody, Received

LEMMA StreamHeadShown ==
    ASSUME NEW s, NEW raw
    PROVE  OwnLines(StreamHead(s, raw), StreamMarks(s, raw))
<1> DEFINE l1 == Line(StreamLabel, <<>>)
           l2 == Line(IncompleteNote, <<>>)
           l3 == Line(InvalidNote, <<>>)
<1>1. \A a, b, x, y : OwnLines(a, x) /\ OwnLines(b, y) => OwnLines(a \o b, x \o y)
  BY OwnJoin
<1>2. \A a, x, c : OwnLines(a, x) => OwnLines(OnlyIf(c, a), OnlyIf(c, x))
  BY OwnOptional
<1>3. <<>> \in Seq(Inline)
  OBVIOUS
<1>4. /\ OwnLines(l1, <<Mark(StreamLabel)>>) /\ OwnLines(l2, <<Mark(IncompleteNote)>>)
      /\ OwnLines(l3, <<Mark(InvalidNote)>>)
  BY <1>3, OwnLabel, LabelsAre
<1> HIDE DEF l1, l2, l3
<1>5. OwnLines(<<NL>> \o l1, <<Mark(<<>>)>> \o <<Mark(StreamLabel)>>)
  BY Zenon, <1>1, <1>4, OwnBlank
<1>6. /\ OwnLines(OnlyIf(~s.complete, l2), OnlyIf(~s.complete, <<Mark(IncompleteNote)>>))
      /\ OwnLines(OnlyIf(s.invalid /\ ~raw, l3), OnlyIf(s.invalid /\ ~raw, <<Mark(InvalidNote)>>))
  BY Zenon, <1>2, <1>4
<1>7. StreamHead(s, raw) =
        <<NL>> \o l1 \o OnlyIf(~s.complete, l2) \o OnlyIf(s.invalid /\ ~raw, l3)
  BY DEF StreamHead, l1, l2, l3
<1> QED BY Zenon, <1>1, <1>5, <1>6, <1>7 DEF StreamMarks

(* A text as a reader finds it, each of its lines behind the prefix.       *)
Text(value) == AllOthers(LinesOf(EscapeControls(value)))

LEMMA TextShown ==
    ASSUME NEW value \in Seq(Nat)
    PROVE  LET part == WritePrefixed(EscapeControls(value))
           IN  /\ part \in WholeLines /\ ReadTerminal(part) = Text(value)
               /\ part \in Seq(Nat) /\ Text(value) \in Seq(Items)
<1> DEFINE part == WritePrefixed(EscapeControls(value))
<1>1. part \in WholeLines /\ ReadTerminal(part) = Text(value)
  BY EscapesAre, TextLines DEF Text
<1> HIDE DEF part
<1>2. part \in Seq(Nat)
  BY <1>1 DEF WholeLines
<1>3. ReadTerminal(part) \in Seq(Items)
  BY <1>2, ReadIs
<1> QED BY <1>1, <1>2, <1>3 DEF part

LEMMA EmptyText == Text(<<>>) = <<>>
<1>1. Len(<<>>) = 0 /\ <<>> \in Seq(Nat)
  OBVIOUS
<1>2. EscapeControls(<<>>) = <<>>
  <2> DEFINE e == EscapeControls(<<>>)
  <2>1. \A f : [i \in 1 .. Len(<<>>) |-> f[i]] = <<>>
    BY <1>1
  <2>2. e = FlattenSeq(<<>>)
    BY <1>1 DEF EscapeControls, Escape
  <2>3. <<>> \in Seq(Seq(Nat)) /\ Upto(<<>>, 0) = <<>>
    BY DEF Upto
  <2> QED BY <1>1, <2>2, <2>3, FlattenIsUpto
<1>3. LinesOf(<<>>) = <<>>
  <2>1. Len(<<>>) \in Nat /\ 1 \in 1 .. Len(<<>>) + 2 /\ 1 > Len(<<>>)
    OBVIOUS
  <2> QED BY <2>1, LinesUnfold
<1> QED BY <1>1, <1>2, <1>3 DEF Text, AllOthers

LEMMA PlainText == Text(Plain) = <<Others(Plain)>> /\ Plain \in Seq(Nat)
<1>1. Plain \in Seq(Nat) /\ Len(Plain) = 1 /\ Plain[1] = 120 /\ Plain = <<120>>
  BY DEF Plain
<1>2. EscapeControls(Plain) = Plain
  <2> DEFINE ss == <<Plain>>
             e == [i \in 1 .. Len(Plain) |->
                     IF Plain[i] \in {NL, Tab} \/ (IsPrint(Plain[i]) /\ Plain[i] \notin BidiControls)
                     THEN <<Plain[i]>>
                     ELSE RuneEscape(Plain[i])]
  <2>1. IsPrint(120) /\ 120 \notin BidiControls
    BY DEF IsPrint, BidiControls
  <2>2. e = <<Plain>>
    BY <1>1, <2>1
  <2>3. EscapeControls(Plain) = FlattenSeq(e)
    BY DEF EscapeControls, Escape
  <2>4. ss \in Seq(Seq(Nat)) /\ Len(ss) = 1 /\ ss[1] = Plain /\ 1 \in 1 .. Len(ss)
        /\ \A j \in 1 .. Len(ss) : j # 1 => ss[j] = <<>>
    BY <1>1
  <2> HIDE DEF ss, e
  <2>5. FlattenSeq(ss) = ss[1]
    BY <2>4, FlattenOnly
  <2> QED BY <2>2, <2>3, <2>4, <2>5 DEF ss
<1>3. LinesOf(Plain) = <<Plain>>
  <2> DEFINE end == LineEnd(Plain, 1, Breaks)
  <2>1. end = 2
    <3>1. end \in 1 .. 2 /\ (end <= 1 => Plain[end] \in Breaks)
      BY <1>1, LineEndIs
    <3>2. 120 \notin Breaks
      BY DEF Breaks
    <3> HIDE DEF end
    <3> QED BY <1>1, <3>1, <3>2
  <2>2. Body(Plain, 1, Breaks) = Plain
    <3> DEFINE b == SubSeq(Plain, 1, 1)
    <3>1. b \in Seq(Nat) /\ Len(b) = 1 /\ b[1] = Plain[1]
      BY <1>1, SubSeqIs
    <3>2. Body(Plain, 1, Breaks) = b
      BY <2>1 DEF Body
    <3> HIDE DEF b
    <3>3. b = Plain
      BY <1>1, <3>1, SeqsEqual
    <3> QED BY <3>2, <3>3
  <2>3. /\ Len(Plain) \in Nat /\ 1 \in 1 .. Len(Plain) + 2 /\ 3 \in 1 .. Len(Plain) + 2
        /\ ~ 1 > Len(Plain) /\ 3 > Len(Plain)
    BY <1>1
  <2>4. LinesOf(Plain) = LinesFrom(Plain)[1] /\ LinesFrom(Plain)[3] = <<>>
    BY <2>3, LinesUnfold
  <2>5. LinesFrom(Plain)[1] = <<Body(Plain, 1, Breaks)>> \o LinesFrom(Plain)[end + 1]
    BY <2>3, LinesUnfold
  <2>6. <<Plain>> \in Seq(Seq(Nat))
    BY <1>1
  <2>7. <<Plain>> \o <<>> = <<Plain>>
    BY <2>6, ConcatEmpty
  <2>8. end + 1 = 3
    BY <2>1
  <2> HIDE DEF end
  <2> QED BY <2>2, <2>4, <2>5, <2>7, <2>8
<1>4. AllOthers(<<Plain>>) = <<Others(Plain)>>
  BY DEF AllOthers
<1> QED BY <1>1, <1>2, <1>3, <1>4 DEF Text

LEMMA StreamText ==
    ASSUME NEW s, NEW raw, s.head \in Seq(Nat), s.tail \in Seq(Nat)
    PROVE  WriteTerminalStream(s, raw) \in Seq(Nat)
<1> DEFINE Part(value) == IF raw THEN WriteRawPart(value) ELSE WritePrefixed(EscapeControls(value))
           omitted == OnlyIf(s.truncated, Line(OmittedNote, <<>>))
           first == Part(s.head)
           last == Part(s.tail)
<1>1. \A value \in Seq(Nat) : Part(value) \in Seq(Nat)
  <2> TAKE value \in Seq(Nat)
  <2>1. WritePrefixed(EscapeControls(value)) \in Seq(Nat)
    BY TextShown
  <2>2. WriteRawPart(value) \in Seq(Nat)
    <3>1. OnlyIf(value # <<>> /\ value[Len(value)] # NL, <<NL>>) \in Seq(Nat)
      BY DEF OnlyIf, NL
    <3> QED BY <3>1, ConcatIs DEF WriteRawPart
  <2> QED BY <2>1, <2>2
<1>2. \A label \in Labels : Line(label, <<>>) \in Seq(Nat)
  <2>1. <<>> \in Seq(Inline)
    OBVIOUS
  <2> QED BY <2>1, OwnLabel DEF OwnLines, WholeLines
<1>3. omitted \in Seq(Nat)
  BY <1>2, LabelsAre DEF OnlyIf
<1>4. first \in Seq(Nat) /\ last \in Seq(Nat)
  BY <1>1
<1>5. Received(s, raw) = first \o omitted \o last
  BY DEF Received
<1> HIDE DEF omitted, first, last
<1>6. first \o omitted \o last \in Seq(Nat)
  BY <1>3, <1>4, ConcatIs
<1>7. Empty \in Labels
  BY DEF Empty, Labels
<1>8. StreamBody(s, raw) \in Seq(Nat)
  BY <1>2, <1>5, <1>6, <1>7 DEF StreamBody
<1>9. StreamHead(s, raw) \in Seq(Nat)
  BY StreamHeadShown DEF OwnLines, WholeLines
<1> QED BY <1>8, <1>9, StreamIs, ConcatIs

(* Whatever is received, what stands in front of the stream is shown as it *)
(* is and does not say what the stream is.                                 *)
LEMMA StreamFollows ==
    ASSUME NEW path \in Seq(Nat), NEW r, IsText(r), NEW raw,
           r.stream.head \in Seq(Nat), r.stream.tail \in Seq(Nat)
    PROVE  ReadTerminal(ShowTerminal(path, r, raw)) =
             HeadMarks(r.git, r.legacy) \o ReadTerminal(WriteTerminalStream(r.stream, raw))
<1>1. WriteTerminalStream(r.stream, raw) \in Seq(Nat)
  BY StreamText
<1>2. ShowTerminal(path, r, raw) = HeadOf(path, r) \o WriteTerminalStream(r.stream, raw)
  BY <1>1, HeadStands
<1>3. OwnLines(HeadOf(path, r), HeadMarks(r.git, r.legacy))
  BY HeadShown
<1> QED BY <1>1, <1>2, <1>3 DEF OwnLines, WholeLines

FrontMarks(r) == HeadMarks(r.git, r.legacy) \o StreamMarks(r.stream, FALSE)
Omission(s) == OnlyIf(s.truncated, <<Mark(OmittedNote)>>)

LEMMA OmissionShown ==
    ASSUME NEW s
    PROVE  OwnLines(OnlyIf(s.truncated, Line(OmittedNote, <<>>)), Omission(s))
<1>1. <<>> \in Seq(Inline)
  OBVIOUS
<1>2. OwnLines(Line(OmittedNote, <<>>), <<Mark(OmittedNote)>>)
  BY <1>1, OwnLabel, LabelsAre
<1> QED BY <1>2, OwnOptional DEF Omission

LEMMA ReceivedShown ==
    ASSUME NEW s, s.head \in Seq(Nat), s.tail \in Seq(Nat)
    PROVE  /\ Received(s, FALSE) \in WholeLines
           /\ ReadTerminal(Received(s, FALSE)) = Text(s.head) \o Omission(s) \o Text(s.tail)
<1> DEFINE omitted == OnlyIf(s.truncated, Line(OmittedNote, <<>>))
           first == WritePrefixed(EscapeControls(s.head))
           last == WritePrefixed(EscapeControls(s.tail))
<1>1. /\ first \in WholeLines /\ ReadTerminal(first) = Text(s.head)
      /\ last \in WholeLines /\ ReadTerminal(last) = Text(s.tail)
  BY TextShown
<1>2. omitted \in WholeLines /\ ReadTerminal(omitted) = Omission(s)
  BY OmissionShown DEF OwnLines
<1>3. Received(s, FALSE) = first \o omitted \o last
  BY DEF Received
<1> HIDE DEF omitted, first, last
<1>4. \A a, b \in WholeLines :
        a \o b \in WholeLines /\ ReadTerminal(a \o b) = ReadTerminal(a) \o ReadTerminal(b)
  BY LinesJoin
<1>5. first \o omitted \in WholeLines /\ ReadTerminal(first \o omitted) = Text(s.head) \o Omission(s)
  <2>1. /\ first \o omitted \in WholeLines
        /\ ReadTerminal(first \o omitted) = ReadTerminal(first) \o ReadTerminal(omitted)
    BY Zenon, <1>1, <1>2, <1>4
  <2> QED BY Zenon, <1>1, <1>2, <2>1
<1> QED BY Zenon, <1>1, <1>3, <1>4, <1>5

LEMMA TerminalShown ==
    ASSUME NEW path \in Seq(Nat), NEW r, IsText(r), ~NothingReceived(r.stream),
           r.stream.head \in Seq(Nat), r.stream.tail \in Seq(Nat)
    PROVE  /\ FrontMarks(r) \in Seq(Items) /\ Foreign(FrontMarks(r)) = 0
           /\ ReadTerminal(ShowTerminal(path, r, FALSE)) =
                FrontMarks(r) \o (Text(r.stream.head) \o Omission(r.stream) \o Text(r.stream.tail))
<1> DEFINE s == r.stream
           head == HeadMarks(r.git, r.legacy)
           marks == StreamMarks(s, FALSE)
           in == StreamHead(s, FALSE)
           received == Received(s, FALSE)
           shown == Text(s.head) \o Omission(s) \o Text(s.tail)
<1>1. head \in Seq(Items) /\ Foreign(head) = 0
  BY HeadShown DEF OwnLines
<1>2. in \in WholeLines /\ ReadTerminal(in) = marks /\ marks \in Seq(Items) /\ Foreign(marks) = 0
  BY StreamHeadShown DEF OwnLines
<1>3. received \in WholeLines /\ ReadTerminal(received) = shown
  BY ReceivedShown
<1>4. WriteTerminalStream(s, FALSE) = in \o received
  BY StreamIs DEF StreamBody
<1>5. ReadTerminal(ShowTerminal(path, r, FALSE)) =
        head \o ReadTerminal(WriteTerminalStream(s, FALSE))
  BY ZenonT(30), StreamFollows
<1>6. FrontMarks(r) = head \o marks
  BY DEF FrontMarks
<1> HIDE DEF s, head, marks, in, received, shown
<1>7. ReadTerminal(in \o received) = marks \o shown
  BY <1>2, <1>3, LinesJoin
<1>8. shown \in Seq(Items)
  BY <1>3, ReadIs DEF WholeLines
<1>9. head \o (marks \o shown) = (head \o marks) \o shown
  BY Zenon, <1>1, <1>2, <1>8, ItemsAssoc
<1>10. FrontMarks(r) \in Seq(Items) /\ Foreign(FrontMarks(r)) = 0
  BY <1>1, <1>2, <1>6, ConcatIs, ForeignJoin
<1>11. ReadTerminal(ShowTerminal(path, r, FALSE)) = FrontMarks(r) \o shown
  BY <1>4, <1>5, <1>6, <1>7, <1>9
<1> QED BY <1>10, <1>11 DEF shown, s

(* The record that has a text somewhere, for any text.                     *)
LEMMA RecordIs ==
    ASSUME NEW t \in Seq(Nat)
    PROVE  LET r == RecordWith(t)
               s == r.stream
           IN  /\ IsText(r) /\ s.head \in Seq(Nat) /\ s.tail \in Seq(Nat)
               /\ HeadMarks(r.git, r.legacy) = HeadMarks(TRUE, note = "legacy")
               /\ FrontMarks(r) = FrontMarks(RecordWith(Plain))
               /\ Omission(s) = Omission(RecordWith(Plain).stream)
               /\ place \notin {"head", "tail"} => s = RecordWith(Plain).stream
<1> DEFINE r == RecordWith(t)
           q == RecordWith(Plain)
<1>1. Plain \in Seq(Nat) /\ <<>> \in Seq(Nat)
  BY PlainText
<1>2. IsText(r)
  BY <1>1 DEF RecordWith, IsText
<1>3. r.stream = StreamWith(t) /\ q.stream = StreamWith(Plain)
  BY DEF RecordWith
<1>4. StreamWith(t).head \in Seq(Nat) /\ StreamWith(t).tail \in Seq(Nat)
  BY <1>1 DEF StreamWith
<1>5. r.git = TRUE /\ r.legacy = (note = "legacy") /\ q.git = TRUE /\ q.legacy = (note = "legacy")
  BY DEF RecordWith
<1>6. /\ StreamWith(t).complete = StreamWith(Plain).complete
      /\ StreamWith(t).invalid = StreamWith(Plain).invalid
      /\ StreamWith(t).truncated = StreamWith(Plain).truncated
  BY DEF StreamWith
<1>7. place \notin {"head", "tail"} => StreamWith(t) = StreamWith(Plain)
  BY DEF StreamWith
<1> HIDE DEF r, q
<1>8. StreamMarks(r.stream, FALSE) = StreamMarks(q.stream, FALSE)
  BY <1>3, <1>6 DEF StreamMarks
<1>9. FrontMarks(r) = FrontMarks(q)
  BY <1>5, <1>8 DEF FrontMarks
<1>10. Omission(r.stream) = Omission(q.stream)
  BY <1>3, <1>6 DEF Omission
<1> QED BY <1>2, <1>3, <1>4, <1>5, <1>7, <1>9, <1>10 DEF r, q

(* Wherever a text stands and whatever it holds, line breaks, escape       *)
(* sequences and runprint's own phrases included, the lines that runprint  *)
(* wrote are shown as for any other text, and a stream's text is shown in  *)
(* its place, whole (writePrefixed, escape, writeTerminal, showCommand).   *)
THEOREM TerminalLinesStayOurs == Spec => []TerminalLinesAreOurs
<1>1. ASSUME Written PROVE TerminalLinesAreOurs
  <2> DEFINE Path(t) == IF place = "path" THEN t ELSE Plain
             Shows(t, raw) == ReadTerminal(ShowTerminal(Path(t), RecordWith(t), raw))
             lines == LinesOf(EscapeControls(text))
             front == FrontMarks(RecordWith(Plain))
             omitted == <<Mark(OmittedNote)>>
             plain == Others(Plain)
  <2>1. text \in Seq(Nat) /\ Plain \in Seq(Nat)
    <3>1. Runes \subseteq Nat /\ text \in Seq(Runes)
      BY <1>1, InputsAssumption DEF Written
    <3>2. \A i \in 1 .. Len(text) : text[i] \in Nat
      BY <3>1, ElementsOf
    <3>3. text \in Seq(Nat)
      BY <3>1, <3>2, Retyped
    <3> QED BY <3>3, PlainText
  <2>2. \A t \in Seq(Nat) : Path(t) \in Seq(Nat)
    BY <2>1
  <2>3. Text(Plain) = <<plain>> /\ plain \in Items /\ ~plain.own /\ <<plain>> \in Seq(Items)
    BY PlainText DEF Others, Items
  <2>4. Text(text) = AllOthers(lines) /\ Text(text) \in Seq(Items)
    BY <2>1, TextShown DEF Text
  <2>5. front \in Seq(Items) /\ Foreign(front) = 0
    <3>1. ~NothingReceived(RecordWith(Plain).stream)
      BY DEF RecordWith, StreamWith, NothingReceived, Plain
    <3> QED BY <2>1, <3>1, RecordIs, TerminalShown
  <2>6. omitted \in Seq(Items) /\ Foreign(omitted) = 0
    <3>1. OmittedNote \in Seq(Nat)
      BY DEF OmittedNote, Phrase, UnicodeMax
    <3> QED BY <3>1, OwnMark
  <2>7. ASSUME NEW t \in Seq(Nat), t # <<>>
        PROVE  LET s == StreamWith(t)
               IN  Shows(t, FALSE) = front \o (Text(s.head) \o Omission(StreamWith(Plain)) \o Text(s.tail))
    <3>1. ~NothingReceived(RecordWith(t).stream)
      BY <2>7 DEF RecordWith, StreamWith, NothingReceived, Plain
    <3>2. RecordWith(t).stream = StreamWith(t) /\ RecordWith(Plain).stream = StreamWith(Plain)
      BY DEF RecordWith
    <3>3. Path(t) \in Seq(Nat)
      BY <2>2
    <3> HIDE DEF Path
    <3>4. Shows(t, FALSE) =
            FrontMarks(RecordWith(t)) \o (Text(RecordWith(t).stream.head)
               \o Omission(RecordWith(t).stream) \o Text(RecordWith(t).stream.tail))
      BY <3>1, <3>3, RecordIs, TerminalShown
    <3> QED BY <3>2, <3>4, RecordIs
  <2>8. Plain # <<>>
    BY DEF Plain
  <2>9. ASSUME text # <<>>, place = "head"
        PROVE  Shows(text, FALSE) = Instead(Shows(Plain, FALSE), 1, lines)
    <3> DEFINE rest == Omission(StreamWith(Plain)) \o Text(StreamWith(Plain).tail)
    <3>1. \A t \in Seq(Nat) : StreamWith(t).head = t /\ StreamWith(t).tail = StreamWith(Plain).tail
      BY <2>9 DEF StreamWith
    <3>2. /\ Omission(StreamWith(Plain)) \in Seq(Items) /\ Text(StreamWith(Plain).tail) \in Seq(Items)
          /\ rest \in Seq(Items)
      <4>1. StreamWith(Plain).tail \in Seq(Nat)
        BY <2>1 DEF StreamWith
      <4>2. Text(StreamWith(Plain).tail) \in Seq(Items)
        BY <4>1, TextShown
      <4>3. Omission(StreamWith(Plain)) \in Seq(Items)
        BY OmissionShown DEF OwnLines
      <4> QED BY <4>2, <4>3, ConcatIs
    <3>3. ASSUME NEW t \in Seq(Nat), t # <<>>, Text(t) \in Seq(Items)
          PROVE  Shows(t, FALSE) = front \o Text(t) \o rest
      <4>1. Shows(t, FALSE) =
              front \o (Text(t) \o Omission(StreamWith(Plain)) \o Text(StreamWith(Plain).tail))
        BY <2>7, <3>1, <3>3
      <4>2. Text(t) \o Omission(StreamWith(Plain)) \o Text(StreamWith(Plain).tail) = Text(t) \o rest
        BY ZenonT(30), <3>2, <3>3, ItemsAssoc
      <4> HIDE DEF rest, Shows, front
      <4>3. front \o (Text(t) \o rest) = front \o Text(t) \o rest
        BY Zenon, <2>5, <3>2, <3>3, ItemsAssoc
      <4> QED BY <4>1, <4>2, <4>3
    <3> HIDE DEF Shows, front, rest, plain, lines
    <3>4. Shows(Plain, FALSE) = front \o <<plain>> \o rest
      BY <2>1, <2>3, <2>8, <3>3
    <3>5. Instead(front \o <<plain>> \o rest, Foreign(front) + 1, lines) = front \o AllOthers(lines) \o rest
      <4>1. /\ front \in Seq(Items) /\ plain \in Items /\ rest \in Seq(Items)
            /\ ~plain.own
        BY <2>3, <2>5, <3>2
      <4> QED BY ZenonT(30), <4>1, InsteadIs
    <3>6. Shows(text, FALSE) = front \o Text(text) \o rest
      BY <2>1, <2>4, <2>9, <3>3
    <3>7. Foreign(front) + 1 = 1
      BY <2>5
    <3> QED BY <2>4, <3>4, <3>5, <3>6, <3>7
  <2>10. ASSUME text # <<>>, place = "tail"
         PROVE  Shows(text, FALSE) = Instead(Shows(Plain, FALSE), 2, lines)
    <3> DEFINE a == front \o (<<plain>> \o omitted)
    <3>1. /\ \A t \in Seq(Nat) : StreamWith(t).head = Plain /\ StreamWith(t).tail = t
          /\ Omission(StreamWith(Plain)) = omitted
      BY <2>10 DEF StreamWith, Omission, OnlyIf
    <3>2. ASSUME NEW t \in Seq(Nat), t # <<>>, Text(t) \in Seq(Items)
          PROVE  Shows(t, FALSE) = a \o Text(t)
      <4>1. Shows(t, FALSE) = front \o ((<<plain>> \o omitted) \o Text(t))
        BY <2>3, <2>7, <3>1, <3>2
      <4> HIDE DEF Shows, front, plain, omitted
      <4>2. <<plain>> \o omitted \in Seq(Items)
        BY <2>3, <2>6, ConcatIs
      <4>3. front \o ((<<plain>> \o omitted) \o Text(t)) = a \o Text(t)
        BY Zenon, <2>5, <3>2, <4>2, ItemsAssoc
      <4> QED BY <4>1, <4>3
    <3> HIDE DEF Shows, front, plain, omitted, lines
    <3>3. a \in Seq(Items) /\ Foreign(a) = 1
      <4>1. <<plain>> \o omitted \in Seq(Items) /\ Foreign(<<plain>> \o omitted) = 1
        <5>1. Foreign(<<plain>>) = 1
          BY <2>3, ForeignOne
        <5>2. <<plain>> \o omitted \in Seq(Items)
          BY <2>3, <2>6, ConcatIs
        <5>3. Foreign(<<plain>> \o omitted) = Foreign(<<plain>>) + Foreign(omitted)
          BY <2>3, <2>6, ForeignJoin
        <5> QED BY <2>6, <5>1, <5>2, <5>3
      <4> DEFINE in == <<plain>> \o omitted
      <4> HIDE DEF in
      <4>2. in \in Seq(Items) /\ Foreign(in) = 1
        BY <4>1 DEF in
      <4>3. front \o in \in Seq(Items)
        BY <2>5, <4>2, ConcatIs
      <4>4. Foreign(front \o in) = Foreign(front) + Foreign(in)
        BY <2>5, <4>2, ForeignJoin
      <4>5. a = front \o in
        BY DEF in
      <4> HIDE DEF a
      <4> QED BY <2>5, <4>2, <4>3, <4>4, <4>5
    <3> HIDE DEF a
    <3>4. Shows(Plain, FALSE) = a \o <<plain>> \o <<>>
      <4>1. Shows(Plain, FALSE) = a \o <<plain>>
        BY <2>1, <2>3, <2>8, <3>2
      <4>2. a \o <<plain>> \in Seq(Items)
        BY <2>3, <3>3, ConcatIs
      <4> HIDE DEF Shows
      <4>3. (a \o <<plain>>) \o <<>> = a \o <<plain>>
        BY <4>2, ConcatEmpty
      <4> QED BY <4>1, <4>3
    <3>5. <<>> \in Seq(Items)
      OBVIOUS
    <3>6. Instead(a \o <<plain>> \o <<>>, Foreign(a) + 1, lines) = a \o AllOthers(lines) \o <<>>
      <4>1. plain \in Items /\ ~plain.own
        BY <2>3
      <4>2. a \in Seq(Items)
        BY <3>3
      <4> QED BY ZenonT(30), <3>5, <4>1, <4>2, InsteadIs
    <3>7. a \o AllOthers(lines) \o <<>> = a \o AllOthers(lines)
      <4>1. a \o AllOthers(lines) \in Seq(Items)
        BY <2>4, <3>3, ConcatIs
      <4> QED BY <4>1, ConcatEmpty
    <3>8. Shows(text, FALSE) = a \o Text(text)
      BY <2>1, <2>4, <2>10, <3>2
    <3>9. Foreign(a) + 1 = 2
      BY <3>3
    <3> QED BY <2>4, <3>4, <3>6, <3>7, <3>8, <3>9
  <2>11. ASSUME place \notin {"head", "tail"}, NEW raw \in BOOLEAN
         PROVE  Shows(text, raw) = Shows(Plain, raw)
    <3>1. ASSUME NEW t \in Seq(Nat)
          PROVE  Shows(t, raw) = HeadMarks(TRUE, note = "legacy")
                                   \o ReadTerminal(WriteTerminalStream(RecordWith(Plain).stream, raw))
      <4>1. Path(t) \in Seq(Nat)
        BY <2>2
      <4> DEFINE path == Path(t)
                 r == RecordWith(t)
      <4> HIDE DEF Path
      <4>2. /\ IsText(r) /\ r.stream.head \in Seq(Nat) /\ r.stream.tail \in Seq(Nat)
            /\ HeadMarks(r.git, r.legacy) = HeadMarks(TRUE, note = "legacy")
            /\ r.stream = RecordWith(Plain).stream
        BY <2>11, RecordIs
      <4>3. Shows(t, raw) = ReadTerminal(ShowTerminal(path, r, raw))
        OBVIOUS
      <4> HIDE DEF path, r, Shows
      <4>4. ReadTerminal(ShowTerminal(path, r, raw)) =
              HeadMarks(r.git, r.legacy) \o ReadTerminal(WriteTerminalStream(r.stream, raw))
        BY ZenonT(30), <4>1, <4>2, StreamFollows DEF path
      <4> QED BY <4>2, <4>3, <4>4
    <3> HIDE DEF Shows
    <3> QED BY <2>1, <3>1
  <2> HIDE DEF lines
  <2>12. TerminalLinesAreOurs <=>
           (text # <<>> =>
              CASE place = "head" -> Shows(text, FALSE) = Instead(Shows(Plain, FALSE), 1, lines)
                [] place = "tail" -> Shows(text, FALSE) = Instead(Shows(Plain, FALSE), 2, lines)
                [] OTHER -> \A raw \in BOOLEAN : Shows(text, raw) = Shows(Plain, raw))
    BY DEF TerminalLinesAreOurs, lines
  <2> HIDE DEF Shows
  <2> QED BY <2>9, <2>10, <2>11, <2>12
<1> QED BY <1>1, WrittenInvariant, PTL
==============================================================================
