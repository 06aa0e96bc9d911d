--------------------------- MODULE MarkdownProofs ---------------------------
(***************************************************************************)
(* Proof that a Markdown page shows a text in its place and nowhere else,  *)
(* for every text.                                                         *)
(***************************************************************************)
EXTENDS ReadingProofs
LOCAL INSTANCE SequencesExt

-----------------------------------------------------------------------------
(***************************************************************************)
(* What a Markdown page shows, line by line.                               *)
(***************************************************************************)
(* A value for every position, each from the one before it: the fence open *)
(* behind each line of a page, the backticks that end at each rune.        *)
Stepwise(start, step, f, i) == IF i = 0 THEN start ELSE step[i][f[i - 1]]

LEMMA StepwiseExists ==
    ASSUME NEW n \in Nat, NEW start \in Nat, NEW step \in [1 .. n -> [Nat -> Nat]]
    PROVE  \E f \in [0 .. n -> Nat] : f = [i \in 0 .. n |-> Stepwise(start, step, f, i)]
<1> DEFINE Is(f, k) == f = [i \in 0 .. k |-> Stepwise(start, step, f, i)]
           Some(k) == \E f \in [0 .. k -> Nat] : Is(f, k)
           G == {k \in Nat : k <= n => Some(k)}
<1> HIDE DEF Is, Some
<1>0. ASSUME NEW i, NEW f, NEW g, i # 0 => f[i - 1] = g[i - 1]
      PROVE  Stepwise(start, step, f, i) = Stepwise(start, step, g, i)
  BY Zenon, <1>0 DEF Stepwise
<1>1. 0 \in G
  <2> DEFINE one == [i \in 0 .. 0 |-> start]
  <2>1. one \in [0 .. 0 -> Nat]
    OBVIOUS
  <2>2. \A i \in 0 .. 0 : Stepwise(start, step, one, i) = start
    BY DEF Stepwise
  <2>3. Is(one, 0)
    <3> HIDE DEF one
    <3> QED BY <2>2 DEF one, Is
  <2> HIDE DEF one
  <2> QED BY <2>1, <2>3 DEF Some
<1>2. ASSUME NEW k \in Nat, k \in G PROVE k + 1 \in G
  <2> SUFFICES ASSUME k + 1 <= n PROVE Some(k + 1)
    OBVIOUS
  <2>0. Some(k)
    BY <1>2
  <2>1. PICK f \in [0 .. k -> Nat] : Is(f, k)
    BY <2>0 DEF Some
  <2> DEFINE last == step[k + 1][f[k]]
             more == [i \in 0 .. k + 1 |-> IF i <= k THEN f[i] ELSE last]
  <2>2. last \in Nat
    <3>1. k + 1 \in 1 .. n /\ k \in 0 .. k
      OBVIOUS
    <3> QED BY <3>1
  <2> HIDE DEF last
  <2>3. more \in [0 .. k + 1 -> Nat] /\ \A i \in 0 .. k : more[i] = f[i]
    BY <2>2
  <2>4. \A i \in 0 .. k : f[i] = Stepwise(start, step, f, i)
    BY <2>1 DEF Is
  <2>5. \A i \in 0 .. k : more[i] = Stepwise(start, step, more, i)
    <3> SUFFICES ASSUME NEW i \in 0 .. k PROVE more[i] = Stepwise(start, step, more, i)
      OBVIOUS
    <3>1. i # 0 => i - 1 \in 0 .. k
      OBVIOUS
    <3> HIDE DEF more
    <3>2. Stepwise(start, step, f, i) = Stepwise(start, step, more, i)
      BY <1>0, <2>3, <3>1
    <3> QED BY <2>3, <2>4, <3>2
  <2>6. more[k + 1] = Stepwise(start, step, more, k + 1)
    <3>1. more[k + 1] = last /\ k \in 0 .. k /\ (k + 1) - 1 = k /\ k + 1 # 0
      OBVIOUS
    <3> HIDE DEF more
    <3> QED BY <2>3, <3>1 DEF Stepwise, last
  <2>7. Is(more, k + 1)
    <3>1. \A i \in 0 .. k + 1 : i \in 0 .. k \/ i = k + 1
      OBVIOUS
    <3> HIDE DEF more
    <3>2. \A i \in 0 .. k + 1 : more[i] = Stepwise(start, step, more, i)
      BY <2>5, <2>6, <3>1
    <3> QED BY <2>3, <3>2 DEF Is
  <2> HIDE DEF more
  <2> QED BY <2>3, <2>7 DEF Some
<1>3. Nat \subseteq G
  <2> HIDE DEF G
  <2> QED BY <1>1, <1>2, Induction
<1>4. Some(n)
  BY <1>3
<1> QED BY <1>4 DEF Some, Is

(* The fence behind each line, if one of so many ticks is open before them.*)
FencesFrom(lines, start) ==
    CHOOSE fence : fence = [i \in 0 .. Len(lines) |->
        IF i = 0 THEN start ELSE Behind(lines[i], fence[i - 1])]

Page(lines, start) ==
    [i \in 1 .. Len(lines) |-> Found(lines[i], FencesFrom(lines, start)[i - 1])]
FenceAfter(lines, start) == FencesFrom(lines, start)[Len(lines)]

LEMMA LeadingAre ==
    ASSUME NEW line \in Seq(Nat)
    PROVE  /\ LeadingTicks(line) \in 0 .. Len(line)
           /\ \A i \in 1 .. LeadingTicks(line) : line[i] = Tick
           /\ LeadingTicks(line) < Len(line) => line[LeadingTicks(line) + 1] # Tick
<1> DEFINE T == {i \in 1 .. Len(line) : line[i] # Tick} \cup {Len(line) + 1}
           m == Min(T)
<1>1. T \subseteq Nat /\ T # {} /\ Len(line) \in Nat /\ Len(line) + 1 \in T
  OBVIOUS
<1>2. m \in T /\ \A x \in T : m <= x
  <2> HIDE DEF T
  <2> QED BY <1>1, MinIs
<1>3. LeadingTicks(line) = m - 1
  BY DEF LeadingTicks
<1> HIDE DEF m
<1>4. m \in 1 .. Len(line) + 1 /\ (m <= Len(line) => line[m] # Tick)
  BY <1>1, <1>2
<1>5. \A i \in 1 .. m - 1 : line[i] = Tick
  <2> SUFFICES ASSUME NEW i \in 1 .. m - 1 PROVE line[i] = Tick
    OBVIOUS
  <2>1. i \in 1 .. Len(line) /\ ~(m <= i)
    BY <1>1, <1>4
  <2> QED BY <1>2, <2>1
<1> QED BY <1>1, <1>3, <1>4, <1>5

LEMMA BehindTyped ==
    ASSUME NEW line \in Seq(Nat), NEW fence \in Nat
    PROVE  Behind(line, fence) \in Nat
<1>1. LeadingTicks(line) \in Nat
  BY LeadingAre
<1> QED BY <1>1 DEF Behind

LEMMA FoundTyped ==
    ASSUME NEW line \in Seq(Nat), NEW fence PROVE Found(line, fence) \in Items
<1>1. 1 \in Nat
  OBVIOUS
<1>2. Beginning(line, 1) \in Seq(Nat)
  BY <1>1, BeginningIs
<1> QED BY <1>2 DEF Found, Own, Others, Items

LEMMA FencesUnfold ==
    ASSUME NEW lines \in Seq(Seq(Nat)), NEW start \in Nat
    PROVE  LET F == FencesFrom(lines, start)
           IN  /\ F[0] = start
               /\ \A i \in 1 .. Len(lines) : F[i] = Behind(lines[i], F[i - 1])
               /\ \A i \in 0 .. Len(lines) : F[i] \in Nat
<1> DEFINE n == Len(lines)
           step == [i \in 1 .. n |-> [x \in Nat |-> Behind(lines[i], x)]]
           Rest(f, i) == IF i = 0 THEN start ELSE Behind(lines[i], f[i - 1])
           F == FencesFrom(lines, start)
<1>1. n \in Nat /\ \A i \in 1 .. n : lines[i] \in Seq(Nat)
  BY ElementsOf
<1> HIDE DEF n
<1>2. step \in [1 .. n -> [Nat -> Nat]]
  BY <1>1, BehindTyped
<1>3. \A i \in 1 .. n : \A x \in Nat : step[i][x] = Behind(lines[i], x)
  OBVIOUS
<1> HIDE DEF step
<1>4. PICK f \in [0 .. n -> Nat] : f = [i \in 0 .. n |-> Stepwise(start, step, f, i)]
  <2>1. \E f \in [0 .. n -> Nat] : f = [i \in 0 .. n |-> Stepwise(start, step, f, i)]
    BY <1>1, <1>2, StepwiseExists
  <2> QED BY <2>1
<1>5. \A g \in [0 .. n -> Nat] : \A i \in 0 .. n : Stepwise(start, step, g, i) = Rest(g, i)
  <2> SUFFICES ASSUME NEW g \in [0 .. n -> Nat], NEW i \in 0 .. n
               PROVE  Stepwise(start, step, g, i) = Rest(g, i)
    OBVIOUS
  <2>1. i # 0 => i \in 1 .. n /\ g[i - 1] \in Nat
    BY <1>1
  <2> QED BY Zenon, <1>3, <2>1 DEF Stepwise
<1>6. f = [i \in 0 .. n |-> Rest(f, i)]
  BY <1>4, <1>5
<1>7. F = CHOOSE fence : fence = [i \in 0 .. n |-> Rest(fence, i)]
  BY DEF FencesFrom, n
<1>8. F = [i \in 0 .. n |-> Rest(F, i)]
  <2> HIDE DEF Rest, F
  <2> QED BY <1>6, <1>7
<1> HIDE DEF F
<1>9. F[0] = start /\ \A i \in 1 .. n : F[i] = Behind(lines[i], F[i - 1])
  <2>1. \A i \in 0 .. n : F[i] = Rest(F, i)
    <3> HIDE DEF Rest
    <3> QED BY <1>8
  <2> QED BY <1>1, <2>1
<1> DEFINE G == {k \in Nat : k <= n => F[k] \in Nat}
<1>10. 0 \in G
  BY <1>9
<1>11. ASSUME NEW k \in Nat, k \in G PROVE k + 1 \in G
  <2> SUFFICES ASSUME k + 1 <= n PROVE F[k + 1] \in Nat
    OBVIOUS
  <2>1. k + 1 \in 1 .. n /\ (k + 1) - 1 = k /\ k <= n
    BY <1>1
  <2>2. F[k] \in Nat /\ F[k + 1] = Behind(lines[k + 1], F[k])
    BY <1>9, <1>11, <2>1
  <2> QED BY <1>1, <2>1, <2>2, BehindTyped
<1>12. Nat \subseteq G
  <2> HIDE DEF G
  <2> QED BY <1>10, <1>11, Induction
<1>13. \A i \in 0 .. n : F[i] \in Nat
  BY <1>1, <1>12
<1> QED BY <1>9, <1>13 DEF F, n

LEMMA PageIs ==
    ASSUME NEW lines \in Seq(Seq(Nat)), NEW start \in Nat
    PROVE  LET page == Page(lines, start)
           IN  /\ page \in Seq(Items) /\ Len(page) = Len(lines)
               /\ \A i \in 1 .. Len(lines) :
                      page[i] = Found(lines[i], FencesFrom(lines, start)[i - 1])
               /\ FenceAfter(lines, start) \in Nat
<1> DEFINE page == [i \in 1 .. Len(lines) |-> Found(lines[i], FencesFrom(lines, start)[i - 1])]
<1>1. Len(lines) \in Nat /\ \A i \in 1 .. Len(lines) : lines[i] \in Seq(Nat)
  BY ElementsOf
<1>2. \A i \in 1 .. Len(lines) : Found(lines[i], FencesFrom(lines, start)[i - 1]) \in Items
  BY <1>1, FoundTyped
<1>3. page \in Seq(Items) /\ Len(page) = Len(lines)
  BY <1>1, <1>2
<1>4. FenceAfter(lines, start) \in Nat
  <2>1. Len(lines) \in 0 .. Len(lines)
    BY <1>1
  <2> QED BY <2>1, FencesUnfold DEF FenceAfter
<1> QED BY <1>3, <1>4 DEF Page

LEMMA FencesJoin ==
    ASSUME NEW a \in Seq(Seq(Nat)), NEW b \in Seq(Seq(Nat)), NEW start \in Nat
    PROVE  /\ \A i \in 0 .. Len(a) : FencesFrom(a \o b, start)[i] = FencesFrom(a, start)[i]
           /\ \A j \in 0 .. Len(b) :
                  FencesFrom(a \o b, start)[Len(a) + j] =
                      FencesFrom(b, FenceAfter(a, start))[j]
<1> DEFINE c == a \o b
           m == Len(a)
           n == Len(b)
           then == FenceAfter(a, start)
           C == FencesFrom(c, start)
           A == FencesFrom(a, start)
           B == FencesFrom(b, then)
           G == {k \in Nat : k <= m => C[k] = A[k]}
           H == {k \in Nat : k <= n => C[m + k] = B[k]}
<1>1. /\ c \in Seq(Seq(Nat)) /\ Len(c) = m + n /\ m \in Nat /\ n \in Nat
      /\ \A i \in 1 .. m : c[i] = a[i]
      /\ \A i \in 1 .. n : c[m + i] = b[i]
  BY ConcatIs
<1>2. then \in Nat /\ then = A[m]
  BY PageIs DEF FenceAfter
<1> HIDE DEF c, then
<1>3. C[0] = start /\ \A i \in 1 .. Len(c) : C[i] = Behind(c[i], C[i - 1])
  BY <1>1, FencesUnfold
<1>4. A[0] = start /\ \A i \in 1 .. m : A[i] = Behind(a[i], A[i - 1])
  BY FencesUnfold
<1>5. B[0] = then /\ \A i \in 1 .. n : B[i] = Behind(b[i], B[i - 1])
  BY <1>2, FencesUnfold
<1> HIDE DEF A, B, C, m, n
<1>6. 0 \in G
  BY <1>3, <1>4
<1>7. ASSUME NEW k \in Nat, k \in G PROVE k + 1 \in G
  <2> SUFFICES ASSUME k + 1 <= m PROVE C[k + 1] = A[k + 1]
    OBVIOUS
  <2>1. k + 1 \in 1 .. m /\ k + 1 \in 1 .. Len(c) /\ (k + 1) - 1 = k /\ k <= m
    BY <1>1
  <2>2. C[k + 1] = Behind(c[k + 1], C[k]) /\ A[k + 1] = Behind(a[k + 1], A[k])
    BY <1>3, <1>4, <2>1
  <2>3. C[k] = A[k] /\ c[k + 1] = a[k + 1]
    BY <1>1, <1>7, <2>1
  <2> QED BY <2>2, <2>3
<1>8. Nat \subseteq G
  <2> HIDE DEF G
  <2> QED BY <1>6, <1>7, Induction
<1>9. \A i \in 0 .. m : C[i] = A[i]
  BY <1>1, <1>8
<1>10. 0 \in H
  <2>1. m \in 0 .. m /\ m + 0 = m
    BY <1>1
  <2>2. C[m] = A[m]
    BY <1>9, <2>1
  <2> QED BY <1>2, <1>5, <2>1, <2>2
<1>11. ASSUME NEW k \in Nat, k \in H PROVE k + 1 \in H
  <2> SUFFICES ASSUME k + 1 <= n PROVE C[m + (k + 1)] = B[k + 1]
    OBVIOUS
  <2>1. /\ k + 1 \in 1 .. n /\ m + (k + 1) \in 1 .. Len(c) /\ (m + (k + 1)) - 1 = m + k
        /\ (k + 1) - 1 = k /\ k <= n
    BY <1>1
  <2>2. C[m + (k + 1)] = Behind(c[m + (k + 1)], C[m + k])
    BY <1>3, <2>1
  <2>3. B[k + 1] = Behind(b[k + 1], B[k])
    BY <1>5, <2>1
  <2>4. C[m + k] = B[k] /\ c[m + (k + 1)] = b[k + 1]
    BY <1>1, <1>11, <2>1
  <2> QED BY <2>2, <2>3, <2>4
<1>12. Nat \subseteq H
  <2> HIDE DEF H
  <2> QED BY <1>10, <1>11, Induction
<1>13. \A j \in 0 .. n : C[m + j] = B[j]
  BY <1>1, <1>12
<1> QED BY <1>9, <1>13 DEF A, B, C, c, m, n, then

(* A page is read line by line, with nothing but the fence to remember.    *)
LEMMA PageJoin ==
    ASSUME NEW a \in Seq(Seq(Nat)), NEW b \in Seq(Seq(Nat)), NEW start \in Nat
    PROVE  /\ Page(a \o b, start) = Page(a, start) \o Page(b, FenceAfter(a, start))
           /\ FenceAfter(a \o b, start) = FenceAfter(b, FenceAfter(a, start))
<1> DEFINE c == a \o b
           m == Len(a)
           n == Len(b)
           then == FenceAfter(a, start)
           C == FencesFrom(c, start)
           A == FencesFrom(a, start)
           B == FencesFrom(b, then)
           p == Page(c, start)
           q == Page(a, start)
           r == Page(b, then)
           both == q \o r
<1>1. /\ c \in Seq(Seq(Nat)) /\ Len(c) = m + n /\ m \in Nat /\ n \in Nat
      /\ \A i \in 1 .. m : c[i] = a[i]
      /\ \A i \in 1 .. n : c[m + i] = b[i]
  BY ConcatIs
<1>2. /\ \A i \in 0 .. m : C[i] = A[i]
      /\ \A j \in 0 .. n : C[m + j] = B[j]
  BY FencesJoin
<1>3. then \in Nat
  BY PageIs
<1> HIDE DEF c, then
<1>4. p \in Seq(Items) /\ Len(p) = m + n /\ \A i \in 1 .. m + n : p[i] = Found(c[i], C[i - 1])
  <2>1. p \in Seq(Items) /\ Len(p) = Len(c) /\ \A i \in 1 .. Len(c) : p[i] = Found(c[i], C[i - 1])
    BY <1>1, PageIs
  <2> HIDE DEF p, C
  <2> QED BY <1>1, <2>1
<1>5. q \in Seq(Items) /\ Len(q) = m /\ \A i \in 1 .. m : q[i] = Found(a[i], A[i - 1])
  BY PageIs
<1>6. r \in Seq(Items) /\ Len(r) = n /\ \A i \in 1 .. n : r[i] = Found(b[i], B[i - 1])
  BY <1>3, PageIs
<1> HIDE DEF p, q, r, A, B, C
<1>7. /\ both \in Seq(Items) /\ Len(both) = Len(q) + Len(r)
      /\ \A i \in 1 .. Len(q) : both[i] = q[i]
      /\ \A i \in 1 .. Len(r) : both[Len(q) + i] = r[i]
  <2>1. q \in Seq(Items) /\ r \in Seq(Items)
    BY <1>5, <1>6
  <2> QED BY SMTT(30), <2>1
<1> HIDE DEF both, m, n
<1>8. ASSUME NEW i \in 1 .. Len(p) PROVE p[i] = both[i]
  <2>1. CASE i <= m
    <3>1. i \in 1 .. m /\ i - 1 \in 0 .. m /\ i \in 1 .. m + n
      BY <1>1, <1>4, <2>1
    <3>2. p[i] = Found(c[i], C[i - 1]) /\ both[i] = q[i]
      BY <1>4, <1>5, <1>7, <3>1
    <3>3. q[i] = Found(a[i], A[i - 1]) /\ c[i] = a[i] /\ C[i - 1] = A[i - 1]
      BY <1>1, <1>2, <1>5, <3>1
    <3> QED BY <3>2, <3>3
  <2>2. CASE ~(i <= m)
    <3> DEFINE j == i - m
    <3>1. j \in 1 .. n /\ j - 1 \in 0 .. n /\ i \in 1 .. m + n /\ m + j = i /\ m + (j - 1) = i - 1
      BY <1>1, <1>4, <2>2
    <3> HIDE DEF j
    <3>2. p[i] = Found(c[i], C[i - 1]) /\ both[i] = r[j]
      BY <1>4, <1>5, <1>6, <1>7, <3>1
    <3>3. r[j] = Found(b[j], B[j - 1]) /\ c[i] = b[j] /\ C[i - 1] = B[j - 1]
      BY <1>1, <1>2, <1>6, <3>1
    <3> QED BY <3>2, <3>3
  <2> QED BY <2>1, <2>2
<1>9. p = both
  BY <1>4, <1>5, <1>6, <1>7, <1>8, SeqsEqual
<1>10. FenceAfter(c, start) = FenceAfter(b, then)
  <2>1. n \in 0 .. n
    BY <1>1
  <2> QED BY <1>1, <1>2, <2>1 DEF FenceAfter, B, C, n
<1> QED BY <1>9, <1>10 DEF p, both, q, r, c, then

LEMMA PageOne ==
    ASSUME NEW line \in Seq(Nat), NEW start \in Nat
    PROVE  /\ Page(<<line>>, start) = <<Found(line, start)>>
           /\ FenceAfter(<<line>>, start) = Behind(line, start)
           /\ Page(<<>>, start) = <<>> /\ FenceAfter(<<>>, start) = start
<1> DEFINE one == <<line>>
           none == <<>>
           page == Page(one, start)
<1>1. one \in Seq(Seq(Nat)) /\ Len(one) = 1 /\ one[1] = line /\ none \in Seq(Seq(Nat)) /\ Len(none) = 0
  OBVIOUS
<1> HIDE DEF one, none
<1>2. /\ FencesFrom(one, start)[0] = start
      /\ \A i \in 1 .. 1 : FencesFrom(one, start)[i] = Behind(one[i], FencesFrom(one, start)[i - 1])
  <2>1. /\ FencesFrom(one, start)[0] = start
        /\ \A i \in 1 .. Len(one) :
             FencesFrom(one, start)[i] = Behind(one[i], FencesFrom(one, start)[i - 1])
    BY <1>1, FencesUnfold
  <2> QED BY <1>1, <2>1
<1>3. FencesFrom(none, start)[0] = start
  BY <1>1, FencesUnfold
<1>4. 1 \in 1 .. 1 /\ 1 - 1 = 0
  OBVIOUS
<1>5. FenceAfter(one, start) = Behind(line, start) /\ FenceAfter(none, start) = start
  BY <1>1, <1>2, <1>3, <1>4 DEF FenceAfter
<1>6. /\ page \in Seq(Items) /\ Len(page) = 1
      /\ \A i \in 1 .. 1 : page[i] = Found(one[i], FencesFrom(one, start)[i - 1])
  <2>1. /\ page \in Seq(Items) /\ Len(page) = Len(one)
        /\ \A i \in 1 .. Len(one) : page[i] = Found(one[i], FencesFrom(one, start)[i - 1])
    BY <1>1, PageIs
  <2> HIDE DEF page
  <2> QED BY <1>1, <2>1
<1>7. Page(none, start) \in Seq(Items) /\ Len(Page(none, start)) = 0
  BY <1>1, PageIs
<1> HIDE DEF page
<1>8. page = <<Found(line, start)>>
  <2>1. page[1] = Found(line, start)
    BY <1>1, <1>2, <1>4, <1>6
  <2> QED BY <1>6, <2>1
<1>9. Page(none, start) = <<>>
  BY <1>7
<1> QED BY <1>5, <1>8, <1>9 DEF one, none, page

-----------------------------------------------------------------------------
(* Output that ends with a line, and the lines that it is.                 *)
Writes(a, lines) ==
    /\ a \in Seq(Nat) /\ lines \in Seq(Seq(Nat)) /\ LinesOf(a) = lines
    /\ \A b \in Seq(Nat) : LinesOf(a \o b) = lines \o LinesOf(b)

LEMMA LinesAssoc == \A x, y, z \in Seq(Seq(Nat)) : (x \o y) \o z = x \o (y \o z)
OBVIOUS

LEMMA LinesOfTyped == ASSUME NEW a \in Seq(Nat) PROVE LinesOf(a) \in Seq(Seq(Nat))
BY ReadIs

LEMMA NoLines == LinesOf(<<>>) = <<>> /\ Writes(<<>>, <<>>)
<1>1. Len(<<>>) \in Nat /\ 1 \in 1 .. Len(<<>>) + 2 /\ 1 > Len(<<>>) /\ <<>> \in Seq(Nat)
      /\ <<>> \in Seq(Seq(Nat))
  OBVIOUS
<1>2. LinesOf(<<>>) = <<>>
  BY <1>1, LinesUnfold
<1>3. \A b \in Seq(Nat) : <<>> \o b = b
  OBVIOUS
<1>4. \A b \in Seq(Nat) : <<>> \o LinesOf(b) = LinesOf(b)
  BY LinesOfTyped
<1> QED BY <1>1, <1>2, <1>3, <1>4 DEF Writes

LEMMA WritesLine ==
    ASSUME NEW line \in Seq(Inline)
    PROVE  Writes(line \o <<NL>>, <<line>>)
<1> DEFINE a == line \o <<NL>>
           lines == <<line>>
<1>1. line \in Seq(Nat) /\ <<NL>> \in Seq(Nat) /\ <<>> \in Seq(Nat)
  BY InlineText DEF NL
<1>2. a \in Seq(Nat)
  BY <1>1, ConcatIs
<1>3. lines \in Seq(Seq(Nat))
  BY <1>1
<1>4. \A b \in Seq(Nat) : LinesOf(a \o b) = lines \o LinesOf(b)
  BY LinesFirst
<1> HIDE DEF a, lines
<1>5. LinesOf(a) = lines
  <2>1. a \o <<>> = a
    BY <1>2, ConcatEmpty
  <2>2. lines \o <<>> = lines
    BY <1>3, ConcatEmpty
  <2> QED BY <1>1, <1>4, <2>1, <2>2, NoLines
<1> QED BY <1>2, <1>3, <1>4, <1>5 DEF Writes, a, lines

LEMMA WritesJoin ==
    ASSUME NEW a, NEW x, NEW b, NEW y, Writes(a, x), Writes(b, y)
    PROVE  Writes(a \o b, x \o y)
<1>1. /\ a \in Seq(Nat) /\ x \in Seq(Seq(Nat)) /\ b \in Seq(Nat) /\ y \in Seq(Seq(Nat))
      /\ LinesOf(b) = y
      /\ \A t \in Seq(Nat) : LinesOf(a \o t) = x \o LinesOf(t)
      /\ \A t \in Seq(Nat) : LinesOf(b \o t) = y \o LinesOf(t)
  BY DEF Writes
<1>2. a \o b \in Seq(Nat) /\ x \o y \in Seq(Seq(Nat))
  BY <1>1, ConcatIs
<1>3. ASSUME NEW t \in Seq(Nat) PROVE LinesOf((a \o b) \o t) = (x \o y) \o LinesOf(t)
  <2>1. (a \o b) \o t = a \o (b \o t) /\ b \o t \in Seq(Nat)
    <3>1. b \o t \in Seq(Nat)
      BY <1>1, ConcatIs
    <3> QED BY Zenon, <1>1, <3>1, TextAssoc
  <2>2. LinesOf(t) \in Seq(Seq(Nat))
    BY LinesOfTyped
  <2>3. x \o (y \o LinesOf(t)) = (x \o y) \o LinesOf(t)
    BY Zenon, <1>1, <2>2, LinesAssoc
  <2> QED BY <1>1, <2>1, <2>3
<1>4. LinesOf(a \o b) = x \o y
  BY <1>1
<1> QED BY <1>2, <1>3, <1>4 DEF Writes

(* Output that a page shows so: in front of it a fence of so many ticks is *)
(* open, behind it one of so many.                                         *)
Passes(a, before, shown, after) ==
    /\ before \in Nat /\ after \in Nat /\ shown \in Seq(Items)
    /\ \E lines : /\ Writes(a, lines) /\ Page(lines, before) = shown
                  /\ FenceAfter(lines, before) = after

LEMMA PassesJoin ==
    ASSUME NEW a, NEW b, NEW shown, NEW more, NEW before, NEW between, NEW after,
           Passes(a, before, shown, between), Passes(b, between, more, after)
    PROVE  Passes(a \o b, before, shown \o more, after)
<1>1. PICK x : /\ Writes(a, x) /\ Page(x, before) = shown
               /\ FenceAfter(x, before) = between
  BY DEF Passes
<1>2. PICK y : /\ Writes(b, y) /\ Page(y, between) = more
               /\ FenceAfter(y, between) = after
  BY DEF Passes
<1>3. Writes(a \o b, x \o y)
  BY <1>1, <1>2, WritesJoin
<1>4. /\ x \in Seq(Seq(Nat)) /\ y \in Seq(Seq(Nat))
      /\ before \in Nat /\ after \in Nat /\ shown \in Seq(Items) /\ more \in Seq(Items)
  BY <1>1, <1>2 DEF Writes, Passes
<1>5. /\ Page(x \o y, before) = Page(x, before) \o Page(y, FenceAfter(x, before))
      /\ FenceAfter(x \o y, before) = FenceAfter(y, FenceAfter(x, before))
  BY <1>4, PageJoin
<1>6. Page(x \o y, before) = shown \o more /\ FenceAfter(x \o y, before) = after
  BY <1>1, <1>2, <1>5
<1>7. shown \o more \in Seq(Items)
  BY <1>4, ConcatIs
<1> QED BY <1>3, <1>4, <1>6, <1>7 DEF Passes

(* One line.                                                               *)
LEMMA PassesLine ==
    ASSUME NEW line \in Seq(Inline), NEW before \in Nat
    PROVE  Passes(line \o <<NL>>, before, <<Found(line, before)>>, Behind(line, before))
<1>1. line \in Seq(Nat)
  BY InlineText
<1>2. Writes(line \o <<NL>>, <<line>>)
  BY WritesLine
<1>3. /\ Page(<<line>>, before) = <<Found(line, before)>>
      /\ FenceAfter(<<line>>, before) = Behind(line, before)
  BY <1>1, PageOne
<1>4. Found(line, before) \in Items /\ Behind(line, before) \in Nat
  BY <1>1, FoundTyped, BehindTyped
<1>5. <<Found(line, before)>> \in Seq(Items)
  BY <1>4
<1> QED BY <1>2, <1>3, <1>4, <1>5 DEF Passes

(* Output with no fence open in front of it or behind it.                  *)
Blocks(a, shown) == Passes(a, 0, shown, 0)

(* Reading line by line is knowing the fence in front of each line.        *)
ReadNext(lines, read, i) ==
    IF i = 0 THEN [fence |-> 0, found |-> <<>>]
    ELSE LET before == read[i - 1]
         IN  [fence |-> Behind(lines[i], before.fence),
              found |-> Append(before.found, Found(lines[i], before.fence))]

LEMMA ReadIsPage ==
    ASSUME NEW a \in Seq(Nat)
    PROVE  ReadMarkdown(a) = Page(LinesOf(a), 0)
<1> DEFINE lines == LinesOf(a)
           n == Len(lines)
           fence == FencesFrom(lines, 0)
           page == Page(lines, 0)
           whole == [i \in 0 .. n |-> [fence |-> fence[i], found |-> SubSeq(page, 1, i)]]
           read == CHOOSE r : r = [i \in 0 .. n |-> ReadNext(lines, r, i)]
           G == {k \in Nat : k <= n => read[k] = whole[k]}
<1>1. lines \in Seq(Seq(Nat)) /\ n \in Nat
  <2>1. lines \in Seq(Seq(Nat))
    BY LinesOfTyped
  <2> HIDE DEF lines
  <2> QED BY <2>1
<1>2. ReadMarkdown(a) = read[n].found
  BY DEF ReadMarkdown, ReadNext
<1> HIDE DEF lines
<1>3. /\ fence[0] = 0 /\ \A i \in 1 .. n : fence[i] = Behind(lines[i], fence[i - 1])
      /\ page \in Seq(Items) /\ Len(page) = n
      /\ \A i \in 1 .. n : page[i] = Found(lines[i], fence[i - 1])
  <2>1. 0 \in Nat
    OBVIOUS
  <2> QED BY <1>1, <2>1, FencesUnfold, PageIs
<1> HIDE DEF n, fence, page
<1>4. /\ \A i \in 0 .. n : whole[i] = [fence |-> fence[i], found |-> SubSeq(page, 1, i)]
      /\ whole = [i \in 0 .. n |-> whole[i]]
  OBVIOUS
<1> HIDE DEF whole
<1>5. ASSUME NEW i \in 0 .. n PROVE whole[i] = ReadNext(lines, whole, i)
  <2>1. CASE i = 0
    <3>1. SubSeq(page, 1, 0) = <<>> /\ 0 \in 0 .. n
      BY <1>1, <1>3
    <3>2. whole[0] = [fence |-> 0, found |-> <<>>]
      BY <1>3, <1>4, <3>1
    <3> QED BY <2>1, <3>2 DEF ReadNext
  <2>2. CASE i # 0
    <3>1. i \in 1 .. n /\ i - 1 \in 0 .. n /\ (i - 1) + 1 = i
      BY <1>1, <2>2
    <3>2. SubSeq(page, 1, i) = Append(SubSeq(page, 1, i - 1), page[i])
      <4>1. 1 \in 1 .. Len(page) + 1 /\ i - 1 \in 1 - 1 .. Len(page) /\ (i - 1) + 1 <= Len(page)
        BY <1>1, <1>3, <3>1
      <4>2. SubSeq(page, 1, (i - 1) + 1) = Append(SubSeq(page, 1, i - 1), page[(i - 1) + 1])
        BY <1>3, <4>1, SubSeqGrows
      <4> QED BY <3>1, <4>2
    <3>3. /\ whole[i] = [fence |-> fence[i], found |-> SubSeq(page, 1, i)]
          /\ whole[i - 1].fence = fence[i - 1] /\ whole[i - 1].found = SubSeq(page, 1, i - 1)
      BY <1>4, <3>1
    <3>4. fence[i] = Behind(lines[i], fence[i - 1]) /\ page[i] = Found(lines[i], fence[i - 1])
      BY <1>3, <3>1
    <3> QED BY <2>2, <3>2, <3>3, <3>4 DEF ReadNext
  <2> QED BY <2>1, <2>2
<1>6. whole = [i \in 0 .. n |-> ReadNext(lines, whole, i)]
  BY <1>4, <1>5
<1>7. read = [i \in 0 .. n |-> ReadNext(lines, read, i)]
  BY <1>6
<1> HIDE DEF read
<1>8. ASSUME NEW i \in 0 .. n, i # 0 => read[i - 1] = whole[i - 1] PROVE read[i] = whole[i]
  <2>1. read[i] = ReadNext(lines, read, i) /\ whole[i] = ReadNext(lines, whole, i)
    BY <1>5, <1>7
  <2>2. ReadNext(lines, read, i) = ReadNext(lines, whole, i)
    BY <1>8 DEF ReadNext
  <2> QED BY <2>1, <2>2
<1>9. 0 \in G
  BY <1>8
<1>10. ASSUME NEW k \in Nat, k \in G PROVE k + 1 \in G
  <2> SUFFICES ASSUME k + 1 <= n PROVE read[k + 1] = whole[k + 1]
    OBVIOUS
  <2>1. k + 1 \in 0 .. n /\ (k + 1) - 1 = k /\ k <= n
    BY <1>1
  <2>2. read[k] = whole[k]
    BY <1>10, <2>1
  <2> QED BY <1>8, <2>1, <2>2
<1>11. Nat \subseteq G
  <2> HIDE DEF G
  <2> QED BY <1>9, <1>10, Induction
<1>12. read[n].found = SubSeq(page, 1, n)
  <2>1. n \in 0 .. n /\ read[n] = whole[n]
    BY <1>1, <1>11
  <2> QED BY <1>4, <2>1
<1>13. SubSeq(page, 1, n) = page
  BY <1>1, <1>3
<1> QED BY <1>2, <1>12, <1>13 DEF page, lines

LEMMA BlocksRead ==
    ASSUME NEW a, NEW shown, Blocks(a, shown)
    PROVE  ReadMarkdown(a) = shown /\ shown \in Seq(Items) /\ a \in Seq(Nat)
<1>1. PICK lines : Writes(a, lines) /\ Page(lines, 0) = shown
  BY DEF Blocks, Passes
<1>2. LinesOf(a) = lines
  BY <1>1 DEF Writes
<1>3. ReadMarkdown(a) = Page(LinesOf(a), 0)
  BY <1>1, ReadIsPage DEF Writes
<1> QED BY <1>1, <1>2, <1>3 DEF Blocks, Passes, Writes

LEMMA BlocksJoin ==
    ASSUME NEW a, NEW b, NEW shown, NEW more, Blocks(a, shown), Blocks(b, more)
    PROVE  Blocks(a \o b, shown \o more)
BY PassesJoin DEF Blocks

LEMMA BlocksOptional ==
    ASSUME NEW a, NEW shown, Blocks(a, shown), NEW condition
    PROVE  Blocks(OnlyIf(condition, a), OnlyIf(condition, shown))
<1>1. CASE condition
  BY <1>1 DEF OnlyIf
<1>2. CASE ~condition
  <2>1. OnlyIf(condition, a) = <<>> /\ OnlyIf(condition, shown) = <<>>
    BY <1>2 DEF OnlyIf
  <2>2. <<>> \in Seq(Nat) /\ <<>> \in Seq(Items) /\ 0 \in Nat
    OBVIOUS
  <2>3. Page(<<>>, 0) = <<>> /\ FenceAfter(<<>>, 0) = 0
    BY <2>2, PageOne
  <2> QED BY <2>1, <2>2, <2>3, NoLines DEF Blocks, Passes
<1> QED BY <1>1, <1>2

LEMMA OwnBegins ==
    ASSUME NEW line \in Seq(Nat)
    PROVE  Own(line) = Mark(IF line = <<>> THEN <<>> ELSE <<line[1]>>)
<1> DEFINE b == Beginning(line, 1)
<1>1. /\ b \in Seq(Nat) /\ Len(b) = (IF 1 <= Len(line) THEN 1 ELSE Len(line))
      /\ \A i \in 1 .. Len(b) : b[i] = line[i]
  <2>1. 1 \in Nat
    OBVIOUS
  <2> QED BY <2>1, BeginningIs
<1> HIDE DEF b
<1>2. CASE line = <<>>
  <2>1. Len(line) = 0
    BY <1>2
  <2>2. b = <<>>
    BY <1>1, <2>1
  <2> QED BY <1>2, <2>2 DEF Own, Mark, b
<1>3. CASE line # <<>>
  <2>1. Len(line) \in Nat /\ 1 <= Len(line)
    BY <1>3
  <2>2. Len(b) = 1 /\ b[1] = line[1]
    BY <1>1, <2>1
  <2>3. b = <<line[1]>>
    BY <1>1, <2>2
  <2> QED BY <1>3, <2>3 DEF Own, Mark, b
<1> QED BY <1>2, <1>3

(* A line that does not begin with a backtick, outside of a fence.         *)
LEMMA BlocksPlain ==
    ASSUME NEW line \in Seq(Inline), line # <<>> => line[1] # Tick
    PROVE  Blocks(line \o <<NL>>, <<Own(line)>>)
<1>1. line \in Seq(Nat) /\ 0 \in Nat
  BY InlineText
<1>2. ~Opens(line)
  <2> SUFFICES ASSUME Opens(line) PROVE FALSE
    OBVIOUS
  <2>1. Len(line) >= 3 /\ line[1] = Tick /\ Len(line) \in Nat
    BY <1>1 DEF Opens
  <2>2. line # <<>>
    BY <2>1
  <2> QED BY <2>1, <2>2
<1>3. Behind(line, 0) = 0 /\ Found(line, 0) = Own(line)
  BY <1>2 DEF Behind, Found
<1> QED BY <1>1, <1>3, PassesLine DEF Blocks

LEMMA BlocksLabel ==
    ASSUME NEW label \in Labels, NEW value \in Seq(Inline)
    PROVE  /\ Blocks(Line(label, value), <<Mark(label)>>)
           /\ label \o value \in Seq(Inline) /\ label \in Seq(Nat)
<1>1. PICK n \in Nat : label = Phrase(n)
  BY DEF Labels
<1> DEFINE line == label \o value
           u == UnicodeMax + n
<1>2. u \in Inline /\ u # Tick /\ label = <<u>>
  BY <1>1 DEF UnicodeMax, Breaks, Tick, Phrase, Inline
<1> HIDE DEF u
<1>3. line \in Seq(Inline) /\ Len(line) = Len(value) + 1 /\ line[1] = u /\ Len(value) \in Nat
  BY <1>2, ConsIs, ElementsOf
<1> HIDE DEF line
<1>4. line # <<>> /\ line[1] # Tick
  BY <1>2, <1>3
<1>5. line \in Seq(Nat)
  BY <1>3, InlineText
<1>6. Own(line) = Mark(label)
  BY <1>2, <1>3, <1>4, <1>5, OwnBegins
<1>7. Blocks(line \o <<NL>>, <<Mark(label)>>)
  BY <1>3, <1>4, <1>6, BlocksPlain
<1>8. label \in Seq(Nat)
  BY <1>2 DEF Inline
<1> QED BY <1>3, <1>7, <1>8 DEF Line, line

LEMMA BlocksBlank == Blocks(<<NL>>, <<Mark(<<>>)>>)
<1>1. <<>> \in Seq(Inline) /\ <<>> \in Seq(Nat) /\ <<>> \o <<NL>> = <<NL>>
  OBVIOUS
<1>2. Own(<<>>) = Mark(<<>>)
  BY <1>1, OwnBegins
<1> QED BY <1>1, <1>2, BlocksPlain

-----------------------------------------------------------------------------
(* A text that is closed with a newline if it does not end with one is     *)
(* written as the lines that it has.                                       *)
LEMMA WritesContent ==
    ASSUME NEW value \in Seq(Inline \cup {NL}), value # <<>>
    PROVE  Writes(value \o OnlyIf(value[Len(value)] # NL, <<NL>>), LinesOf(value))
<1> DEFINE n == Len(value)
           end == OnlyIf(value[Len(value)] # NL, <<NL>>)
           w == value \o end
           m == Len(w)
<1>1. /\ n \in Nat /\ n >= 1 /\ value \in Seq(Nat)
      /\ \A i \in 1 .. n : value[i] \in Breaks => value[i] = NL
  <2>1. n \in Nat /\ n >= 1 /\ \A i \in 1 .. n : value[i] \in Inline \cup {NL}
    OBVIOUS
  <2>2. \A r \in Inline \cup {NL} : r \in Nat /\ (r \in Breaks => r = NL)
    BY DEF NL, Inline
  <2>3. \A i \in 1 .. n : value[i] \in Nat
    BY <2>1, <2>2
  <2> QED BY <2>1, <2>2, <2>3, Retyped
<1>2. /\ w \in Seq(Nat) /\ m \in Nat /\ \A i \in 1 .. n : w[i] = value[i]
      /\ value[n] = NL => m = n
      /\ value[n] # NL => m = n + 1 /\ w[n + 1] = NL
  <2>1. CASE value[n] = NL
    <3>1. end = <<>>
      BY <2>1 DEF OnlyIf
    <3>2. w = value
      BY <1>1, <3>1, ConcatEmpty
    <3> QED BY <1>1, <2>1, <3>2
  <2>2. CASE value[n] # NL
    <3>1. end = <<NL>> /\ <<NL>> \in Seq(Nat) /\ Len(<<NL>>) = 1 /\ <<NL>>[1] = NL /\ 1 \in 1 .. 1
      BY <2>2 DEF OnlyIf, NL
    <3> HIDE DEF end
    <3>2. /\ w \in Seq(Nat) /\ m = n + Len(end) /\ \A i \in 1 .. n : w[i] = value[i]
          /\ \A i \in 1 .. Len(end) : w[n + i] = end[i]
      BY <1>1, <3>1, ConcatIs
    <3> HIDE DEF w, m
    <3> QED BY <1>1, <2>2, <3>1, <3>2
  <2> QED BY <2>1, <2>2
<1>3. ASSUME NEW e \in 1 .. n + 1, e <= n => value[e] \in Breaks, e = n + 1 => value[n] \notin Breaks
      PROVE  e <= m /\ w[e] = NL /\ (e + 1 <= n \/ e + 1 = m + 1)
  <2>1. CASE e <= n
    <3>1. value[e] = NL /\ e \in 1 .. n
      BY <1>1, <1>3, <2>1
    <3> HIDE DEF w, m
    <3> QED BY SMTT(30), <1>1, <1>2, <3>1
  <2>2. CASE e = n + 1
    <3>1. value[n] # NL
      BY <1>3, <2>2 DEF NL, Breaks
    <3> HIDE DEF w, m
    <3> QED BY <1>1, <1>2, <2>2, <3>1
  <2> QED BY <1>1, <2>1, <2>2
<1> HIDE DEF w, n
<1>4. ASSUME NEW b \in Seq(Nat) PROVE LinesOf(w \o b) = LinesOf(value) \o LinesOf(b)
  <2> DEFINE c == w \o b
             L == LinesFrom(c)
             M == LinesFrom(value)
             Same(i) == L[i] = M[i] \o LinesOf(b)
             G == {k \in Nat : \A i \in 1 .. m + 1 : (i <= n \/ i = m + 1) /\ i + k > n => Same(i)}
  <2>1. c \in Seq(Nat) /\ Len(c) = m + Len(b) /\ Len(b) \in Nat /\ \A i \in 1 .. m : c[i] = w[i]
    BY <1>2, ConcatIs
  <2>2. L[m + 1] = LinesOf(b)
    <3> HIDE DEF w
    <3>1. \A j \in 1 .. Len(b) + 2 : LinesFrom(w \o b)[Len(w) + j] = LinesFrom(b)[j]
      BY <1>2, LinesShift
    <3>2. LinesOf(b) = LinesFrom(b)[1]
      BY <2>1, LinesUnfold
    <3>3. 1 \in 1 .. Len(b) + 2
      BY <2>1
    <3>4. LinesFrom(w \o b)[Len(w) + 1] = LinesFrom(b)[1]
      BY <3>1, <3>3
    <3> QED BY <3>2, <3>4
  <2> HIDE DEF c
  <2>3. \A i \in 1 .. Len(c) + 2 : L[i] = IF i > Len(c) THEN <<>>
                                          ELSE <<Body(c, i, Breaks)>>
                                                 \o L[LineEnd(c, i, Breaks) + 1]
    BY <2>1, LinesUnfold
  <2>4. \A i \in 1 .. n + 2 : M[i] = IF i > n THEN <<>>
                                     ELSE <<Body(value, i, Breaks)>>
                                            \o M[LineEnd(value, i, Breaks) + 1]
    BY <1>1, LinesUnfold DEF n
  <2>5. \A i \in 1 .. n + 2 : M[i] \in Seq(Seq(Nat))
    BY <1>1, LinesTyped DEF n
  <2>6. LinesOf(b) \in Seq(Seq(Nat))
    BY LinesOfTyped
  <2>7. L[1] = LinesOf(c) /\ M[1] = LinesOf(value)
    BY <1>1, <2>1, LinesUnfold DEF n
  <2> HIDE DEF L, M, m
  <2>8. m \in n .. n + 1
    BY <1>1, <1>2 DEF m
  <2>9. \A i \in 1 .. n : c[i] = value[i]
    <3>1. \A i \in 1 .. n : i \in 1 .. m
      BY <1>1, <2>8
    <3> QED BY <1>2, <2>1, <3>1
  <2>10. Same(m + 1)
    <3>1. m + 1 > n /\ m + 1 \in 1 .. n + 2
      BY <1>1, <2>8
    <3>2. M[m + 1] = <<>>
      BY Zenon, <2>4, <3>1
    <3>3. <<>> \o LinesOf(b) = LinesOf(b)
      BY <2>6, ConcatEmpty
    <3> QED BY <2>2, <3>2, <3>3
  <2>11. ASSUME NEW i \in 1 .. n
         PROVE  LET e == LineEnd(value, i, Breaks)
                IN  /\ e \in i .. n + 1 /\ (e + 1 <= n \/ e + 1 = m + 1)
                    /\ LineEnd(c, i, Breaks) = e
                    /\ Body(c, i, Breaks) = Body(value, i, Breaks)
                    /\ Body(value, i, Breaks) \in Seq(Nat)
    <3> DEFINE e == LineEnd(value, i, Breaks)
               k == e - 1
               s == SubSeq(value, i, k)
               t == SubSeq(c, i, k)
    <3>1. /\ e \in i .. n + 1
          /\ \A j \in i .. e - 1 : value[j] \notin Breaks
          /\ e <= n => value[e] \in Breaks
      <4>1. i \in 1 .. Len(value) + 1
        BY <1>1 DEF n
      <4> QED BY <1>1, <4>1, LineEndIs DEF n
    <3> HIDE DEF e
    <3>2. e <= m /\ w[e] = NL /\ (e + 1 <= n \/ e + 1 = m + 1)
      <4>1. e \in 1 .. n + 1
        BY <1>1, <3>1
      <4>2. e = n + 1 => value[n] \notin Breaks
        BY <1>1, <3>1
      <4> QED BY <1>3, <3>1, <4>1, <4>2 DEF m
    <3>3. c[e] \in Breaks
      <4>1. e \in 1 .. m
        BY <1>1, <2>8, <3>1, <3>2
      <4>2. c[e] = NL
        BY <2>1, <3>2, <4>1
      <4> QED BY <4>2 DEF NL, Breaks
    <3>4. LineEnd(c, i, Breaks) = e
      <4>1. i \in 1 .. Len(c) + 1 /\ e \in i .. Len(c) + 1 /\ Len(c) \in Nat
        BY <1>1, <2>1, <2>8, <3>1, <3>2
      <4>2. \A j \in i .. e - 1 : c[j] \notin Breaks
        <5>1. \A j \in i .. e - 1 : j \in 1 .. n
          BY <1>1, <3>1
        <5> QED BY <2>9, <3>1, <5>1
      <4> QED BY <3>3, <4>1, <4>2, LineEndWhere
    <3>5. k \in i - 1 .. n /\ i \in 1 .. n + 1 /\ k \in i - 1 .. Len(c) /\ i \in 1 .. Len(c) + 1
      BY <1>1, <2>1, <2>8, <3>1, <3>2
    <3> HIDE DEF k
    <3>6. s \in Seq(Nat) /\ Len(s) = k - i + 1 /\ \A j \in 1 .. Len(s) : s[j] = value[i + j - 1]
      BY SMTT(30), <1>1, <3>5, SubSeqIs DEF n
    <3>7. t \in Seq(Nat) /\ Len(t) = k - i + 1 /\ \A j \in 1 .. Len(t) : t[j] = c[i + j - 1]
      BY <2>1, <3>5, SubSeqIs
    <3> HIDE DEF s, t
    <3>8. \A j \in 1 .. Len(t) : t[j] = s[j]
      <4>1. \A j \in 1 .. Len(t) : i + j - 1 \in 1 .. n
        BY <1>1, <3>5, <3>7
      <4> QED BY <2>9, <3>6, <3>7, <4>1
    <3>9. t = s
      BY <3>6, <3>7, <3>8, SeqsEqual
    <3> QED BY <3>1, <3>2, <3>4, <3>6, <3>9 DEF Body, k, s, t, e
  <2>12. 0 \in G
    <3>1. \A i \in 1 .. m + 1 : (i <= n \/ i = m + 1) /\ i + 0 > n => i = m + 1
      BY <1>1, <2>8
    <3> HIDE DEF Same
    <3> QED BY <2>10, <3>1
  <2>13. ASSUME NEW k \in Nat, k \in G PROVE k + 1 \in G
    <3> SUFFICES ASSUME NEW i \in 1 .. m + 1, i <= n \/ i = m + 1, i + (k + 1) > n PROVE Same(i)
      OBVIOUS
    <3>1. CASE i = m + 1
      BY <2>10, <3>1
    <3>2. CASE i <= n
      <4> DEFINE e == LineEnd(value, i, Breaks)
                 l == Body(value, i, Breaks)
      <4>1. i \in 1 .. n /\ ~(i > n) /\ ~(i > Len(c)) /\ i \in 1 .. Len(c) + 2 /\ i \in 1 .. n + 2
        BY <1>1, <2>1, <2>8, <3>2
      <4>2. /\ e \in i .. n + 1 /\ (e + 1 <= n \/ e + 1 = m + 1)
            /\ LineEnd(c, i, Breaks) = e /\ Body(c, i, Breaks) = l /\ l \in Seq(Nat)
        BY <2>11, <4>1
      <4>3. L[i] = <<l>> \o L[e + 1] /\ M[i] = <<l>> \o M[e + 1]
        BY Zenon, <2>3, <2>4, <4>1, <4>2
      <4> HIDE DEF e, l
      <4>4. e + 1 \in 1 .. m + 1 /\ (e + 1) + k > n /\ e + 1 \in 1 .. n + 2
        BY <1>1, <2>8, <3>2, <4>1, <4>2
      <4>5. Same(e + 1)
        <5> HIDE DEF Same
        <5> QED BY <2>13, <4>2, <4>4
      <4>6. <<l>> \in Seq(Seq(Nat)) /\ M[e + 1] \in Seq(Seq(Nat))
        BY <2>5, <4>2, <4>4
      <4>7. <<l>> \o (M[e + 1] \o LinesOf(b)) = (<<l>> \o M[e + 1]) \o LinesOf(b)
        BY Zenon, <2>6, <4>6, LinesAssoc
      <4> QED BY <4>3, <4>5, <4>7
    <3> QED BY <3>1, <3>2
  <2>14. Nat \subseteq G
    <3> HIDE DEF G
    <3> QED BY <2>12, <2>13, Induction
  <2>15. Same(1)
    <3>1. 1 \in 1 .. m + 1 /\ 1 <= n /\ 1 + n > n
      BY <1>1, <2>8
    <3> HIDE DEF Same
    <3> QED BY <1>1, <2>14, <3>1
  <2> QED BY <2>7, <2>15 DEF c
<1>5. LinesOf(value) \in Seq(Seq(Nat))
  BY <1>1, LinesOfTyped
<1>6. LinesOf(w) = LinesOf(value)
  <2>1. <<>> \in Seq(Nat) /\ w \o <<>> = w
    BY <1>2, ConcatEmpty
  <2>2. LinesOf(value) \o <<>> = LinesOf(value)
    BY <1>5, ConcatEmpty
  <2> QED BY <1>4, <2>1, <2>2, NoLines
<1> QED BY <1>2, <1>4, <1>5, <1>6 DEF Writes, w

(* Every line of a text is a part of it.                                   *)
LEMMA LinesWithin ==
    ASSUME NEW value, Len(value) \in Nat
    PROVE  \A i \in 1 .. Len(value) + 2 :
               LinesFrom(value)[i] \in Seq({Body(value, q, Breaks) : q \in 1 .. Len(value)})
<1> DEFINE n == Len(value)
           L == LinesFrom(value)
           D == {Body(value, q, Breaks) : q \in 1 .. n}
           G == {k \in Nat : \A i \in 1 .. n + 2 : i + k > n => L[i] \in Seq(D)}
<1>1. n \in Nat
  OBVIOUS
<1>2. \A i \in 1 .. n + 2 : L[i] = IF i > n THEN <<>>
                                   ELSE <<Body(value, i, Breaks)>>
                                          \o L[LineEnd(value, i, Breaks) + 1]
  BY <1>1, LinesUnfold
<1>3. \A q \in 1 .. n : Body(value, q, Breaks) \in D
  OBVIOUS
<1> HIDE DEF L, D
<1>4. \A i \in 1 .. n + 2 : i > n => L[i] \in Seq(D)
  <2>1. \A i \in 1 .. n + 2 : i > n => L[i] = <<>>
    BY Zenon, <1>2
  <2>2. <<>> \in Seq(D)
    OBVIOUS
  <2> QED BY <2>1, <2>2
<1>5. 0 \in G
  <2>1. \A i \in 1 .. n + 2 : i + 0 > n => i > n
    OBVIOUS
  <2> HIDE DEF n
  <2> QED BY <1>4, <2>1
<1>6. ASSUME NEW k \in Nat, k \in G PROVE k + 1 \in G
  <2> SUFFICES ASSUME NEW i \in 1 .. n + 2, i + (k + 1) > n PROVE L[i] \in Seq(D)
    OBVIOUS
  <2>1. CASE i > n
    BY <1>4, <2>1
  <2>2. CASE i <= n
    <3> DEFINE e == LineEnd(value, i, Breaks)
               b == Body(value, i, Breaks)
    <3>1. i \in 1 .. Len(value) + 1 /\ i \in 1 .. n /\ ~(i > n)
      BY <2>2
    <3>2. e \in i .. n + 1
      BY <1>1, <3>1, LineEndIs
    <3>3. b \in D
      BY <1>3, <3>1
    <3>4. L[i] = <<b>> \o L[e + 1]
      BY Zenon, <1>2, <3>1
    <3> HIDE DEF e, b
    <3>5. e + 1 \in 1 .. n + 2 /\ (e + 1) + k > n
      BY <2>2, <3>2
    <3>6. L[e + 1] \in Seq(D)
      BY <1>6, <3>5
    <3> QED BY <3>3, <3>4, <3>6, ConsIs
  <2> QED BY <2>1, <2>2
<1>7. Nat \subseteq G
  <2> HIDE DEF G
  <2> QED BY <1>5, <1>6, Induction
<1>8. \A i \in 1 .. n + 2 : i + n > n
  BY <1>1
<1>9. \A i \in 1 .. n + 2 : L[i] \in Seq(D)
  BY <1>1, <1>7, <1>8
<1> QED BY <1>9 DEF L, D

(* The backticks that end at each position.                                *)
RunsOf(value) ==
    CHOOSE current : current = [i \in 0 .. Len(value) |->
        IF i = 0 THEN 0 ELSE IF value[i] = Tick THEN current[i - 1] + 1 ELSE 0]

LEMMA LongestIs ==
    ASSUME NEW value, Len(value) \in Nat
    PROVE  /\ LongestBacktickRun(value) \in Nat
           /\ \A i, j \in 1 .. Len(value) :
                  (\A k \in i .. j : value[k] = Tick) => j - i + 1 <= LongestBacktickRun(value)
<1> DEFINE n == Len(value)
           step == [i \in 1 .. n |-> [x \in Nat |-> IF value[i] = Tick THEN x + 1 ELSE 0]]
           Rest(f, i) == IF i = 0 THEN 0 ELSE IF value[i] = Tick THEN f[i - 1] + 1 ELSE 0
           F == RunsOf(value)
           T == {F[i] : i \in 0 .. n}
           G == {k \in Nat : k <= n => F[k] \in 0 .. k}
<1>1. n \in Nat
  OBVIOUS
<1> HIDE DEF n
<1>2. step \in [1 .. n -> [Nat -> Nat]]
  OBVIOUS
<1>3. \A i \in 1 .. n : \A x \in Nat : step[i][x] = IF value[i] = Tick THEN x + 1 ELSE 0
  OBVIOUS
<1> HIDE DEF step
<1>4. PICK f \in [0 .. n -> Nat] : f = [i \in 0 .. n |-> Stepwise(0, step, f, i)]
  <2>1. 0 \in Nat
    OBVIOUS
  <2> QED BY <1>1, <1>2, <2>1, StepwiseExists
<1>5. \A g \in [0 .. n -> Nat] : \A i \in 0 .. n : Stepwise(0, step, g, i) = Rest(g, i)
  <2> SUFFICES ASSUME NEW g \in [0 .. n -> Nat], NEW i \in 0 .. n
               PROVE  Stepwise(0, step, g, i) = Rest(g, i)
    OBVIOUS
  <2>1. i # 0 => i \in 1 .. n /\ g[i - 1] \in Nat
    BY <1>1
  <2> QED BY Zenon, <1>3, <2>1 DEF Stepwise
<1>6. f = [i \in 0 .. n |-> Rest(f, i)]
  BY <1>4, <1>5
<1>7. F = CHOOSE current : current = [i \in 0 .. n |-> Rest(current, i)]
  BY DEF RunsOf, n
<1>8. F = [i \in 0 .. n |-> Rest(F, i)]
  <2> HIDE DEF Rest, F
  <2> QED BY <1>6, <1>7
<1> HIDE DEF F
<1>9. F[0] = 0 /\ \A i \in 1 .. n : F[i] = IF value[i] = Tick THEN F[i - 1] + 1 ELSE 0
  <2>1. \A i \in 0 .. n : F[i] = Rest(F, i)
    <3> HIDE DEF Rest
    <3> QED BY <1>8
  <2> QED BY <1>1, <2>1
<1>10. 0 \in G
  BY <1>9
<1>11. ASSUME NEW k \in Nat, k \in G PROVE k + 1 \in G
  <2> SUFFICES ASSUME k + 1 <= n PROVE F[k + 1] \in 0 .. k + 1
    OBVIOUS
  <2>1. k + 1 \in 1 .. n /\ (k + 1) - 1 = k /\ k <= n
    BY <1>1
  <2>2. F[k] \in 0 .. k /\ F[k + 1] = IF value[k + 1] = Tick THEN F[k] + 1 ELSE 0
    BY <1>9, <1>11, <2>1
  <2> QED BY <2>2
<1>12. Nat \subseteq G
  <2> HIDE DEF G
  <2> QED BY <1>10, <1>11, Induction
<1>13. \A i \in 0 .. n : F[i] \in 0 .. i
  BY <1>1, <1>12
<1>14. LongestBacktickRun(value) = Max(T)
  BY DEF LongestBacktickRun, RunsOf, F, n
<1>15. Max(T) \in T /\ \A x \in T : x <= Max(T)
  <2>1. T \subseteq Nat /\ T # {} /\ \A x \in T : x <= n
    BY <1>1, <1>13
  <2> HIDE DEF T
  <2> QED BY <1>1, <2>1, MaxIs
<1>16. Max(T) \in Nat /\ \A i \in 0 .. n : F[i] <= Max(T)
  BY <1>13, <1>15
<1> HIDE DEF T
<1>17. ASSUME NEW i \in 1 .. n, NEW j \in 1 .. n, \A k \in i .. j : value[k] = Tick
       PROVE  j - i + 1 <= Max(T)
  <2> DEFINE H == {k \in Nat : i + k <= j => F[i + k] >= k + 1}
  <2>1. 0 \in H
    <3> SUFFICES ASSUME i <= j PROVE F[i] >= 1
      BY <1>1
    <3>1. value[i] = Tick /\ i - 1 \in 0 .. n
      BY <1>1, <1>17
    <3>2. F[i] = F[i - 1] + 1
      BY <1>9, <3>1
    <3>3. F[i - 1] \in Nat
      BY <1>13, <3>1
    <3> QED BY <3>2, <3>3
  <2>2. ASSUME NEW k \in Nat, k \in H PROVE k + 1 \in H
    <3> SUFFICES ASSUME i + (k + 1) <= j PROVE F[i + (k + 1)] >= (k + 1) + 1
      OBVIOUS
    <3>1. /\ i + (k + 1) \in 1 .. n /\ i + (k + 1) \in i .. j /\ (i + (k + 1)) - 1 = i + k
          /\ i + k <= j /\ i + k \in 0 .. n
      BY <1>1
    <3>2. F[i + (k + 1)] = F[i + k] + 1
      BY <1>9, <1>17, <3>1
    <3>3. F[i + k] >= k + 1 /\ F[i + k] \in Nat
      BY <1>13, <2>2, <3>1
    <3> QED BY <3>2, <3>3
  <2>3. Nat \subseteq H
    <3> HIDE DEF H
    <3> QED BY <2>1, <2>2, Induction
  <2>4. CASE i <= j
    <3>1. j - i \in Nat /\ i + (j - i) = j /\ j \in 0 .. n
      BY <1>1, <2>4
    <3>2. F[j] >= (j - i) + 1
      <4> DEFINE d == j - i
      <4>1. d \in Nat /\ i + d = j
        BY <3>1
      <4> HIDE DEF d
      <4>2. d \in H /\ i + d <= j
        BY <1>1, <2>3, <4>1
      <4>3. F[i + d] >= d + 1
        BY <4>2
      <4> QED BY <4>1, <4>3 DEF d
    <3>3. F[j] <= Max(T) /\ F[j] \in Nat
      BY <1>13, <1>16, <3>1
    <3> QED BY <1>16, <3>1, <3>2, <3>3
  <2>5. CASE ~(i <= j)
    BY <1>16, <2>5
  <2> QED BY <2>4, <2>5
<1> QED BY <1>14, <1>16, <1>17 DEF n

LEMMA FenceLengthIs ==
    ASSUME NEW value, Len(value) \in Nat
    PROVE  /\ FenceLength(value) \in Nat /\ FenceLength(value) >= 3
           /\ FenceLength(value) > LongestBacktickRun(value)
<1> DEFINE k == LongestBacktickRun(value) + 1
           T == {k, 3}
<1>1. k \in Nat
  BY LongestIs
<1>2. FenceLength(value) = Max(T)
  BY DEF FenceLength
<1> HIDE DEF k
<1>3. Max(T) \in T /\ \A x \in T : x <= Max(T)
  <2>1. T \subseteq Nat /\ T # {} /\ k + 3 \in Nat /\ \A x \in T : x <= k + 3
    BY <1>1
  <2> HIDE DEF T
  <2> QED BY <2>1, MaxIs
<1>4. Max(T) \in Nat /\ Max(T) >= 3 /\ Max(T) >= k
  BY <1>1, <1>3
<1> HIDE DEF T
<1>5. LongestBacktickRun(value) \in Nat
  BY LongestIs
<1> QED BY <1>2, <1>4, <1>5 DEF k

(* No line of a text is a run of backticks as long as the text's fence.    *)
LEMMA StaysOpen ==
    ASSUME NEW value \in Seq(Nat), NEW i \in 1 .. Len(LinesOf(value))
    PROVE  ~Closes(LinesOf(value)[i], FenceLength(value))
<1> DEFINE n == Len(value)
           D == {Body(value, q, Breaks) : q \in 1 .. n}
           fence == FenceLength(value)
           longest == LongestBacktickRun(value)
<1>1. n \in Nat /\ 1 \in 1 .. n + 2
  OBVIOUS
<1>2. LinesOf(value) \in Seq(D)
  BY <1>1, LinesWithin, LinesUnfold
<1>3. PICK q \in 1 .. n : LinesOf(value)[i] = Body(value, q, Breaks)
  <2>1. LinesOf(value)[i] \in D
    <3> HIDE DEF D
    <3> QED BY <1>2, ElementsOf
  <2> QED BY <2>1
<1>4. /\ fence \in Nat /\ fence > longest /\ fence >= 3 /\ longest \in Nat
      /\ \A a, b \in 1 .. n : (\A k \in a .. b : value[k] = Tick) => b - a + 1 <= longest
  BY <1>1, FenceLengthIs, LongestIs
<1> HIDE DEF fence, longest
<1> DEFINE e == LineEnd(value, q, Breaks)
           h == e - 1
           line == SubSeq(value, q, h)
<1>5. e \in q .. n + 1
  BY <1>1, LineEndIs
<1> HIDE DEF e
<1>6. h \in q - 1 .. n /\ q \in 1 .. n + 1
  BY <1>1, <1>5
<1> HIDE DEF h
<1>7. line \in Seq(Nat) /\ Len(line) = h - q + 1 /\ \A k \in 1 .. Len(line) : line[k] = value[q + k - 1]
  BY SMTT(30), <1>6, SubSeqIs
<1> HIDE DEF line
<1>8. ~Closes(line, fence)
  <2> SUFFICES ASSUME Closes(line, fence) PROVE FALSE
    OBVIOUS
  <2>1. PICK a, b \in 1 .. Len(line) :
            /\ b - a + 1 >= fence
            /\ \A k \in 1 .. Len(line) : line[k] = IF k \in a .. b THEN Tick ELSE Space
    BY DEF Closes
  <2> DEFINE x == q + a - 1
             y == q + b - 1
  <2>2. x \in 1 .. n /\ y \in 1 .. n /\ y - x + 1 = b - a + 1
    BY SMTT(30), <1>1, <1>6, <1>7
  <2>3. ASSUME NEW k \in x .. y PROVE value[k] = Tick
    <3>1. k - q + 1 \in a .. b /\ k - q + 1 \in 1 .. Len(line) /\ q + (k - q + 1) - 1 = k
      BY <1>6, <1>7
    <3>2. line[k - q + 1] = Tick
      BY <2>1, <3>1
    <3> QED BY <1>7, <3>1, <3>2
  <2> HIDE DEF x, y
  <2>4. y - x + 1 <= longest
    BY <1>4, <2>2, <2>3
  <2> QED BY <1>4, <1>7, <2>1, <2>2, <2>4
<1> QED BY <1>3, <1>8 DEF Body, fence, line, h, e

LEMMA StaysFenced ==
    ASSUME NEW lines \in Seq(Seq(Nat)), NEW fence \in Nat \ {0},
           \A i \in 1 .. Len(lines) : ~Closes(lines[i], fence)
    PROVE  Page(lines, fence) = AllOthers(lines) /\ FenceAfter(lines, fence) = fence
<1> DEFINE n == Len(lines)
           F == FencesFrom(lines, fence)
           G == {k \in Nat : k <= n => F[k] = fence}
           page == Page(lines, fence)
           others == AllOthers(lines)
<1>1. n \in Nat /\ F[0] = fence /\ \A i \in 1 .. n : F[i] = Behind(lines[i], F[i - 1])
  BY FencesUnfold
<1>2. /\ page \in Seq(Items) /\ Len(page) = n
      /\ \A i \in 1 .. n : page[i] = Found(lines[i], F[i - 1])
  BY PageIs
<1>3. /\ others \in Seq(Items) /\ Len(others) = n
      /\ \A i \in 1 .. n : others[i] = Others(lines[i])
  <2>1. <<>> \in Seq(Nat)
    OBVIOUS
  <2> QED BY <2>1, OthersFirst
<1> HIDE DEF F, n, page, others
<1>4. \A i \in 1 .. n : ~Closes(lines[i], fence)
  BY DEF n
<1>5. 0 \in G
  BY <1>1
<1>6. ASSUME NEW k \in Nat, k \in G PROVE k + 1 \in G
  <2> SUFFICES ASSUME k + 1 <= n PROVE F[k + 1] = fence
    OBVIOUS
  <2>1. k + 1 \in 1 .. n /\ (k + 1) - 1 = k /\ k <= n
    BY <1>1
  <2>2. F[k + 1] = Behind(lines[k + 1], fence)
    BY <1>1, <1>6, <2>1
  <2>3. ~Closes(lines[k + 1], fence) /\ fence # 0
    BY <1>4, <2>1
  <2> QED BY Zenon, <2>2, <2>3 DEF Behind
<1>7. Nat \subseteq G
  <2> HIDE DEF G
  <2> QED BY <1>5, <1>6, Induction
<1>8. \A i \in 0 .. n : F[i] = fence
  BY <1>1, <1>7
<1>9. \A i \in 1 .. n : page[i] = others[i]
  <2> SUFFICES ASSUME NEW i \in 1 .. n PROVE page[i] = others[i]
    OBVIOUS
  <2>1. i - 1 \in 0 .. n
    BY <1>1
  <2>2. page[i] = Found(lines[i], fence) /\ others[i] = Others(lines[i])
    BY <1>2, <1>3, <1>8, <2>1
  <2>3. ~Closes(lines[i], fence) /\ fence # 0
    BY <1>4
  <2> QED BY Zenon, <2>2, <2>3 DEF Found
<1>10. page = others
  BY <1>2, <1>3, <1>9, SeqsEqual
<1>11. FenceAfter(lines, fence) = fence
  <2>1. n \in 0 .. n
    BY <1>1
  <2> QED BY <1>8, <2>1 DEF FenceAfter, F, n
<1> QED BY <1>10, <1>11 DEF page, others

(* A fence's own lines and between them what it holds.                     *)
Fenced(shown) ==
    <<Mark(<<>>)>> \o <<Mark(<<Tick>>)>> \o shown \o <<Mark(<<Tick>>)>>

LEMMA FenceOpens ==
    ASSUME NEW n \in Nat, n >= 3
    PROVE  Passes(Line(Ticks(n), Language), 0, <<Mark(<<Tick>>)>>, n)
<1> DEFINE fence == Ticks(n)
           line == fence \o Language
           u == UnicodeMax + 17
<1>1. u \in Inline /\ u # Tick /\ Language = <<u>> /\ Language \in Seq(Inline) /\ Len(Language) = 1
  BY DEF UnicodeMax, Breaks, Tick, Phrase, Inline, Language
<1> HIDE DEF u
<1>2. fence \in Seq(Inline) /\ Len(fence) = n /\ \A i \in 1 .. n : fence[i] = Tick
  BY DEF Ticks, Tick, Inline, Breaks
<1> HIDE DEF fence
<1>3. /\ line \in Seq(Inline) /\ Len(line) = n + 1
      /\ (\A i \in 1 .. n : line[i] = Tick) /\ line[n + 1] # Tick
  <2>1. /\ line \in Seq(Inline) /\ Len(line) = Len(fence) + Len(Language)
        /\ \A i \in 1 .. Len(fence) : line[i] = fence[i]
        /\ \A i \in 1 .. Len(Language) : line[Len(fence) + i] = Language[i]
    BY <1>1, <1>2, ConcatIs
  <2>2. Language[1] = u /\ 1 \in 1 .. 1
    BY <1>1
  <2> HIDE DEF line
  <2> QED BY <1>1, <1>2, <2>1, <2>2
<1> HIDE DEF line
<1>4. line \in Seq(Nat)
  BY <1>3, InlineText
<1>5. LeadingTicks(line) = n
  <2> DEFINE l == LeadingTicks(line)
  <2>1. /\ l \in 0 .. n + 1 /\ \A i \in 1 .. l : line[i] = Tick
        /\ l < n + 1 => line[l + 1] # Tick
    BY <1>3, <1>4, LeadingAre
  <2> HIDE DEF l
  <2>2. ~(l < n)
    <3> SUFFICES ASSUME l < n PROVE FALSE
      OBVIOUS
    <3>1. l + 1 \in 1 .. n /\ l < n + 1
      BY <2>1
    <3> QED BY <1>3, <2>1, <3>1
  <2>3. l # n + 1
    <3> SUFFICES ASSUME l = n + 1 PROVE FALSE
      OBVIOUS
    <3>1. n + 1 \in 1 .. l
      OBVIOUS
    <3> QED BY <1>3, <2>1, <3>1
  <2>4. l = n
    BY <2>1, <2>2, <2>3
  <2> QED BY <2>4 DEF l
<1>6. Opens(line)
  <2>1. Len(line) >= 3 /\ \A i \in 1 .. 3 : line[i] = Tick
    BY <1>3
  <2>2. \A i \in n + 1 .. Len(line) : line[i] # Tick
    BY <1>3
  <2> QED BY <1>5, <2>1, <2>2 DEF Opens
<1>7. Behind(line, 0) = n /\ Found(line, 0) = Own(line)
  BY <1>5, <1>6 DEF Behind, Found
<1>8. Own(line) = Mark(<<Tick>>)
  <2>1. line # <<>> /\ line[1] = Tick
    BY <1>3
  <2> QED BY <1>4, <2>1, OwnBegins
<1>9. Passes(line \o <<NL>>, 0, <<Found(line, 0)>>, Behind(line, 0))
  <2>1. 0 \in Nat
    OBVIOUS
  <2> QED BY <1>3, <2>1, PassesLine
<1> QED BY <1>7, <1>8, <1>9 DEF Line, line, fence

LEMMA FenceCloses ==
    ASSUME NEW n \in Nat, n >= 3
    PROVE  Passes(Line(Ticks(n), <<>>), n, <<Mark(<<Tick>>)>>, 0)
<1> DEFINE fence == Ticks(n)
<1>1. fence \in Seq(Inline) /\ Len(fence) = n /\ \A i \in 1 .. n : fence[i] = Tick
  BY DEF Ticks, Tick, Inline, Breaks
<1> HIDE DEF fence
<1>2. fence \in Seq(Nat) /\ fence \o <<>> = fence
  BY <1>1, InlineText, ConcatEmpty
<1>3. Closes(fence, n)
  <2>1. 1 \in 1 .. Len(fence) /\ n \in 1 .. Len(fence) /\ n - 1 + 1 >= n
    BY <1>1
  <2>2. \A k \in 1 .. Len(fence) : fence[k] = IF k \in 1 .. n THEN Tick ELSE Space
    BY <1>1
  <2> QED BY <2>1, <2>2 DEF Closes
<1>4. Behind(fence, n) = 0 /\ Found(fence, n) = Own(fence)
  BY <1>3 DEF Behind, Found
<1>5. Own(fence) = Mark(<<Tick>>)
  <2>1. fence # <<>> /\ fence[1] = Tick
    BY <1>1
  <2> QED BY <1>2, <2>1, OwnBegins
<1>6. Passes(fence \o <<NL>>, n, <<Found(fence, n)>>, Behind(fence, n))
  BY <1>1, PassesLine
<1> QED BY <1>2, <1>4, <1>5, <1>6 DEF Line, fence

(* A fence shows its text in between its own lines, whatever the text is.  *)
LEMMA FenceShown ==
    ASSUME NEW value \in Seq(Inline \cup {NL}), value # <<>>
    PROVE  Blocks(WriteMarkdownFence(value), Fenced(AllOthers(LinesOf(value))))
<1> DEFINE n == FenceLength(value)
           lines == LinesOf(value)
           first == Line(Ticks(n), Language)
           end == OnlyIf(value[Len(value)] # NL, <<NL>>)
           last == Line(Ticks(n), <<>>)
<1>1. value \in Seq(Nat)
  <2>1. \A r \in Inline \cup {NL} : r \in Nat
    BY DEF NL, Inline
  <2>2. \A i \in 1 .. Len(value) : value[i] \in Inline \cup {NL}
    OBVIOUS
  <2> QED BY <2>1, <2>2, Retyped
<1>2. n \in Nat /\ n >= 3
  <2>1. Len(value) \in Nat
    OBVIOUS
  <2> QED BY <2>1, FenceLengthIs
<1>3. Writes(value \o end, lines)
  BY WritesContent
<1>4. \A i \in 1 .. Len(lines) : ~Closes(lines[i], n)
  BY <1>1, StaysOpen
<1>5. WriteMarkdownFence(value) = <<NL>> \o first \o value \o end \o last
  BY DEF WriteMarkdownFence
<1>6. <<NL>> \in Seq(Nat) /\ end \in Seq(Nat)
  BY DEF OnlyIf, NL
<1> HIDE DEF n, lines, end
<1>7. lines \in Seq(Seq(Nat))
  BY <1>3 DEF Writes
<1>8. Passes(value \o end, n, AllOthers(lines), n)
  <2>1. n \in Nat \ {0}
    BY <1>2
  <2>2. Page(lines, n) = AllOthers(lines) /\ FenceAfter(lines, n) = n
    BY <1>4, <1>7, <2>1, StaysFenced
  <2>3. AllOthers(lines) \in Seq(Items)
    BY <1>2, <1>7, <2>2, PageIs
  <2> QED BY <1>2, <1>3, <2>2, <2>3 DEF Passes
<1>9. Passes(first, 0, <<Mark(<<Tick>>)>>, n) /\ Passes(last, n, <<Mark(<<Tick>>)>>, 0)
  BY <1>2, FenceOpens, FenceCloses
<1> HIDE DEF first, last
<1>10. Passes(<<NL>> \o first, 0, <<Mark(<<>>)>> \o <<Mark(<<Tick>>)>>, n)
  BY <1>9, BlocksBlank, PassesJoin DEF Blocks
<1>11. Passes((<<NL>> \o first) \o (value \o end), 0,
              <<Mark(<<>>)>> \o <<Mark(<<Tick>>)>> \o AllOthers(lines), n)
  BY <1>8, <1>10, PassesJoin
<1>12. (<<NL>> \o first) \o (value \o end) = <<NL>> \o first \o value \o end
  <2>1. <<NL>> \o first \in Seq(Nat)
    BY <1>10 DEF Passes, Writes
  <2> QED BY Zenon, <1>1, <1>6, <2>1, TextAssoc
<1>13. Passes(<<NL>> \o first \o value \o end \o last, 0, Fenced(AllOthers(lines)), 0)
  BY <1>9, <1>11, <1>12, PassesJoin DEF Fenced
<1> QED BY <1>5, <1>13 DEF Blocks, lines

-----------------------------------------------------------------------------
(* x is y with its n-th line that is not runprint's own replaced by lines. *)
Replaced(x, y, n, lines) ==
    /\ AllOthers(lines) \in Seq(Items)
    /\ \E a, b \in Seq(Items), item \in Items :
          /\ ~item.own /\ n = Foreign(a) + 1
          /\ y = a \o <<item>> \o b /\ x = a \o AllOthers(lines) \o b

LEMMA ReplacedIs ==
    ASSUME NEW x, NEW y, NEW n, NEW lines, Replaced(x, y, n, lines)
    PROVE  x = Instead(y, n, lines)
<1>1. PICK a \in Seq(Items), b \in Seq(Items), item \in Items :
          /\ ~item.own /\ n = Foreign(a) + 1
          /\ y = a \o <<item>> \o b /\ x = a \o AllOthers(lines) \o b
  BY DEF Replaced
<1>2. Instead(a \o <<item>> \o b, Foreign(a) + 1, lines) = a \o AllOthers(lines) \o b
  BY <1>1, InsteadIs
<1> QED BY <1>1, <1>2

LEMMA ReplacedOne ==
    ASSUME NEW item \in Items, ~item.own, NEW lines, AllOthers(lines) \in Seq(Items)
    PROVE  Replaced(AllOthers(lines), <<item>>, 1, lines)
<1> DEFINE m == AllOthers(lines)
           one == <<item>>
<1>1. Foreign(<<>>) = 0 /\ one \in Seq(Items) /\ <<>> \in Seq(Items)
  <2>1. <<>> \in Seq(Items)
    OBVIOUS
  <2> QED BY Zenon, <2>1, ForeignOne
<1> HIDE DEF m, one
<1>2. m \in Seq(Items)
  BY DEF m
<1>3. <<>> \o m \o <<>> = m /\ <<>> \o one \o <<>> = one
  BY <1>1, <1>2, ConcatEmpty
<1>4. 1 = Foreign(<<>>) + 1 /\ one = <<>> \o <<item>> \o <<>> /\ m = <<>> \o AllOthers(lines) \o <<>>
  BY <1>1, <1>3 DEF m, one
<1> QED BY <1>1, <1>2, <1>4 DEF Replaced, m, one

LEMMA ReplacedBehind ==
    ASSUME NEW x, NEW y, NEW n, NEW lines, Replaced(x, y, n, lines), NEW c \in Seq(Items)
    PROVE  Replaced(c \o x, c \o y, Foreign(c) + n, lines)
<1> DEFINE m == AllOthers(lines)
<1>1. PICK a \in Seq(Items), b \in Seq(Items), item \in Items :
          /\ ~item.own /\ n = Foreign(a) + 1
          /\ y = a \o <<item>> \o b /\ x = a \o m \o b
  BY DEF Replaced
<1>2. m \in Seq(Items)
  BY DEF Replaced
<1> DEFINE one == <<item>>
<1>3. one \in Seq(Items)
  OBVIOUS
<1> HIDE DEF m, one
<1>4. a \o m \in Seq(Items) /\ a \o one \in Seq(Items) /\ c \o a \in Seq(Items)
  BY <1>2, <1>3, ConcatIs
<1>5. \A s \in Seq(Items) : c \o (a \o s \o b) = (c \o a) \o s \o b
  BY SMTT(30)
<1>6. /\ c \o (a \o m \o b) = (c \o a) \o m \o b
      /\ c \o (a \o one \o b) = (c \o a) \o one \o b
  BY Zenon, <1>2, <1>3, <1>5
<1>7. Foreign(c) + n = Foreign(c \o a) + 1
  <2>1. Foreign(c \o a) = Foreign(c) + Foreign(a) /\ Foreign(c) \in Nat /\ Foreign(a) \in Nat
    BY ForeignJoin
  <2> QED BY <1>1, <2>1
<1>8. \E s, t \in Seq(Items), i \in Items :
          /\ ~i.own /\ Foreign(c) + n = Foreign(s) + 1
          /\ c \o y = s \o <<i>> \o t /\ c \o x = s \o m \o t
  <2>1. c \o y = (c \o a) \o <<item>> \o b /\ c \o x = (c \o a) \o m \o b
    BY <1>1, <1>6 DEF one
  <2> QED BY Zenon, <1>1, <1>4, <1>7, <2>1
<1> QED BY <1>2, <1>8 DEF Replaced, m

LEMMA ReplacedBefore ==
    ASSUME NEW x, NEW y, NEW n, NEW lines, Replaced(x, y, n, lines), NEW c \in Seq(Items)
    PROVE  Replaced(x \o c, y \o c, n, lines)
<1> DEFINE m == AllOthers(lines)
<1>1. PICK a \in Seq(Items), b \in Seq(Items), item \in Items :
          /\ ~item.own /\ n = Foreign(a) + 1
          /\ y = a \o <<item>> \o b /\ x = a \o m \o b
  BY DEF Replaced
<1>2. m \in Seq(Items)
  BY DEF Replaced
<1> DEFINE one == <<item>>
<1>3. one \in Seq(Items)
  OBVIOUS
<1> HIDE DEF m, one
<1>4. a \o m \in Seq(Items) /\ a \o one \in Seq(Items) /\ b \o c \in Seq(Items)
  BY <1>2, <1>3, ConcatIs
<1>5. \A s \in Seq(Items) : (a \o s \o b) \o c = a \o s \o (b \o c)
  BY SMTT(30)
<1>6. /\ (a \o m \o b) \o c = a \o m \o (b \o c)
      /\ (a \o one \o b) \o c = a \o one \o (b \o c)
  BY Zenon, <1>2, <1>3, <1>5
<1>7. y \o c = a \o <<item>> \o (b \o c) /\ x \o c = a \o m \o (b \o c)
  BY <1>1, <1>6 DEF one
<1>8. \E s, t \in Seq(Items), i \in Items :
          /\ ~i.own /\ n = Foreign(s) + 1
          /\ y \o c = s \o <<i>> \o t /\ x \o c = s \o m \o t
  BY Zenon, <1>1, <1>4, <1>7
<1> QED BY <1>2, <1>8 DEF Replaced, m

(* Items of runprint's own in front and behind do not change the count.    *)
IsOwn(marks) == marks \in Seq(Items) /\ Foreign(marks) = 0

LEMMA OwnsJoin == \A a, b : IsOwn(a) /\ IsOwn(b) => IsOwn(a \o b)
<1> SUFFICES ASSUME NEW a, NEW b, IsOwn(a), IsOwn(b) PROVE IsOwn(a \o b)
  OBVIOUS
<1>1. a \in Seq(Items) /\ b \in Seq(Items) /\ Foreign(a) = 0 /\ Foreign(b) = 0
  BY DEF IsOwn
<1>2. a \o b \in Seq(Items)
  BY <1>1, ConcatIs
<1>3. Foreign(a \o b) = Foreign(a) + Foreign(b)
  BY <1>1, ForeignJoin
<1> QED BY <1>1, <1>2, <1>3 DEF IsOwn

LEMMA OwnsOptional == \A a, c : IsOwn(a) => IsOwn(OnlyIf(c, a))
<1>1. IsOwn(<<>>)
  <2>1. <<>> \in Seq(Nat) /\ <<>> \in Seq(Items)
    OBVIOUS
  <2>2. Mark(<<>>) \in Items
    BY <2>1, OwnMark
  <2> QED BY <2>1, <2>2, ForeignOne DEF IsOwn
<1> QED BY <1>1 DEF OnlyIf

LEMMA WithinOwn ==
    ASSUME NEW x \in Seq(Items), NEW a, IsOwn(a), NEW b, IsOwn(b)
    PROVE  /\ a \o x \o b \in Seq(Items) /\ Foreign(a \o x \o b) = Foreign(x)
           /\ \A y, n, lines : Replaced(x, y, n, lines) /\ n \in Nat =>
                  Replaced(a \o x \o b, a \o y \o b, n, lines)
<1>1. a \in Seq(Items) /\ b \in Seq(Items) /\ Foreign(a) = 0 /\ Foreign(b) = 0
  BY DEF IsOwn
<1>2. a \o x \in Seq(Items) /\ a \o x \o b \in Seq(Items)
  BY <1>1, ConcatIs
<1>3. Foreign(a \o x \o b) = Foreign(x)
  <2>1. Foreign(a \o x) = Foreign(a) + Foreign(x) /\ Foreign(x) \in Nat
    BY <1>1, ForeignJoin
  <2>2. Foreign((a \o x) \o b) = Foreign(a \o x) + Foreign(b)
    BY <1>1, <1>2, ForeignJoin
  <2> QED BY <1>1, <2>1, <2>2
<1>4. ASSUME NEW y, NEW n \in Nat, NEW lines, Replaced(x, y, n, lines)
      PROVE  Replaced(a \o x \o b, a \o y \o b, n, lines)
  <2>1. Replaced(a \o x, a \o y, Foreign(a) + n, lines)
    BY <1>1, <1>4, ReplacedBehind
  <2>2. Foreign(a) + n = n
    BY <1>1
  <2>3. Replaced(a \o x, a \o y, n, lines)
    BY <2>1, <2>2
  <2> QED BY <1>1, <2>3, ReplacedBefore
<1> QED BY <1>2, <1>3, <1>4

LEMMA FencedIs ==
    ASSUME NEW x \in Seq(Items)
    PROVE  /\ Fenced(x) \in Seq(Items) /\ Foreign(Fenced(x)) = Foreign(x)
           /\ \A y, n, lines : Replaced(x, y, n, lines) /\ n \in Nat =>
                  Replaced(Fenced(x), Fenced(y), n, lines)
<1> DEFINE a == <<Mark(<<>>)>> \o <<Mark(<<Tick>>)>>
           b == <<Mark(<<Tick>>)>>
<1>1. IsOwn(<<Mark(<<>>)>>) /\ IsOwn(b)
  <2>1. <<>> \in Seq(Nat) /\ <<Tick>> \in Seq(Nat)
    BY DEF Tick
  <2> QED BY <2>1, OwnMark DEF IsOwn
<1>2. IsOwn(a)
  BY <1>1, OwnsJoin
<1>3. \A z : Fenced(z) = a \o z \o b
  BY DEF Fenced
<1> HIDE DEF a, b
<1> QED BY <1>1, <1>2, <1>3, WithinOwn

-----------------------------------------------------------------------------
(***************************************************************************)
(* Escaping goes rune by rune.                                             *)
(***************************************************************************)
LEMMA FlattenJoin ==
    ASSUME NEW ss \in Seq(Seq(Nat)), NEW tt \in Seq(Seq(Nat))
    PROVE  FlattenSeq(ss \o tt) = FlattenSeq(ss) \o FlattenSeq(tt)
<1> DEFINE c == ss \o tt
           m == Len(ss)
           n == Len(tt)
           G == {k \in Nat : k <= m => Upto(c, k) = Upto(ss, k)}
           H == {k \in Nat : k <= n => Upto(c, m + k) = Upto(ss, m) \o Upto(tt, k)}
<1>1. /\ c \in Seq(Seq(Nat)) /\ Len(c) = m + n /\ m \in Nat /\ n \in Nat
      /\ \A i \in 1 .. m : c[i] = ss[i]
      /\ \A i \in 1 .. n : c[m + i] = tt[i]
  BY ConcatIs
<1> HIDE DEF c
<1>2. \A u : Upto(u, 0) = <<>>
  BY DEF Upto
<1>3. FlattenSeq(c) = Upto(c, Len(c)) /\ \A k \in 1 .. Len(c) : Upto(c, k) = Upto(c, k - 1) \o c[k]
  BY <1>1, FlattenIsUpto
<1>4. /\ FlattenSeq(ss) = Upto(ss, m) /\ \A k \in 1 .. m : Upto(ss, k) = Upto(ss, k - 1) \o ss[k]
      /\ \A k \in 0 .. m : Upto(ss, k) \in Seq(Nat)
  BY FlattenIsUpto
<1>5. /\ FlattenSeq(tt) = Upto(tt, n) /\ \A k \in 1 .. n : Upto(tt, k) = Upto(tt, k - 1) \o tt[k]
      /\ \A k \in 0 .. n : Upto(tt, k) \in Seq(Nat)
  BY FlattenIsUpto
<1>6. \A i \in 1 .. n : tt[i] \in Seq(Nat)
  BY ElementsOf
<1> HIDE DEF m, n
<1>7. 0 \in G
  BY <1>2
<1>8. ASSUME NEW k \in Nat, k \in G PROVE k + 1 \in G
  <2> SUFFICES ASSUME k + 1 <= m PROVE Upto(c, k + 1) = Upto(ss, k + 1)
    OBVIOUS
  <2>1. k + 1 \in 1 .. m /\ k + 1 \in 1 .. Len(c) /\ (k + 1) - 1 = k /\ k <= m
    BY <1>1
  <2>2. Upto(c, k + 1) = Upto(c, k) \o c[k + 1] /\ Upto(ss, k + 1) = Upto(ss, k) \o ss[k + 1]
    BY <1>3, <1>4, <2>1
  <2>3. Upto(c, k) = Upto(ss, k) /\ c[k + 1] = ss[k + 1]
    BY <1>1, <1>8, <2>1
  <2> QED BY <2>2, <2>3
<1>9. Nat \subseteq G
  <2> HIDE DEF G
  <2> QED BY <1>7, <1>8, Induction
<1>10. Upto(c, m) = Upto(ss, m) /\ Upto(ss, m) \in Seq(Nat)
  BY <1>1, <1>4, <1>9
<1>11. 0 \in H
  <2>1. m + 0 = m
    BY <1>1
  <2>2. Upto(ss, m) \o <<>> = Upto(ss, m)
    BY <1>10, ConcatEmpty
  <2> QED BY <1>2, <1>10, <2>1, <2>2
<1>12. ASSUME NEW k \in Nat, k \in H PROVE k + 1 \in H
  <2> SUFFICES ASSUME k + 1 <= n PROVE Upto(c, m + (k + 1)) = Upto(ss, m) \o Upto(tt, k + 1)
    OBVIOUS
  <2>1. /\ k + 1 \in 1 .. n /\ m + (k + 1) \in 1 .. Len(c) /\ (m + (k + 1)) - 1 = m + k
        /\ (k + 1) - 1 = k /\ k <= n /\ k \in 0 .. n
    BY <1>1
  <2>2. Upto(c, m + (k + 1)) = Upto(c, m + k) \o c[m + (k + 1)]
    BY <1>3, <2>1
  <2>3. Upto(tt, k + 1) = Upto(tt, k) \o tt[k + 1]
    BY <1>5, <2>1
  <2>4. c[m + (k + 1)] = tt[k + 1] /\ tt[k + 1] \in Seq(Nat) /\ Upto(tt, k) \in Seq(Nat)
    BY <1>1, <1>5, <1>6, <2>1
  <2>5. Upto(c, m + k) = Upto(ss, m) \o Upto(tt, k)
    BY <1>12, <2>1
  <2>6. (Upto(ss, m) \o Upto(tt, k)) \o tt[k + 1] = Upto(ss, m) \o (Upto(tt, k) \o tt[k + 1])
    BY Zenon, <1>10, <2>4, TextAssoc
  <2> QED BY <2>2, <2>3, <2>4, <2>5, <2>6
<1>13. Nat \subseteq H
  <2> HIDE DEF H
  <2> QED BY <1>11, <1>12, Induction
<1>14. Upto(c, m + n) = Upto(ss, m) \o Upto(tt, n)
  BY <1>1, <1>13
<1> QED BY <1>1, <1>3, <1>4, <1>5, <1>14 DEF c

EscapeRune(r, kept) ==
    IF r \in kept \/ (IsPrint(r) /\ r \notin BidiControls) THEN <<r>> ELSE RuneEscape(r)
EscapedRunes(value, kept) == [i \in 1 .. Len(value) |-> EscapeRune(value[i], kept)]

LEMMA EscapeRuneIs ==
    ASSUME NEW E, E \subseteq Nat, Signs \subseteq E, NEW r \in E, NEW kept
    PROVE  /\ EscapeRune(r, kept) \in Seq(E) /\ EscapeRune(r, kept) # <<>>
           /\ EscapeRune(r, kept)[1] \in {r, 92}
<1>1. CASE r \in kept \/ (IsPrint(r) /\ r \notin BidiControls)
  <2>1. EscapeRune(r, kept) = <<r>>
    BY <1>1 DEF EscapeRune
  <2>2. <<r>>[1] = r /\ <<r>> \in Seq(E) /\ <<r>> # <<>>
    OBVIOUS
  <2> QED BY <2>1, <2>2
<1>2. CASE ~(r \in kept \/ (IsPrint(r) /\ r \notin BidiControls))
  <2> DEFINE e == RuneEscape(r)
  <2>1. r \in Nat
    OBVIOUS
  <2>2. e \in Seq(Signs)
    BY <2>1, RuneEscapeIs
  <2>3. Hex(r, 2) \in Seq(Signs) /\ Hex(r, 4) \in Seq(Signs) /\ Hex(r, 8) \in Seq(Signs)
    BY <2>1, HexIs
  <2>4. \A c : \A s \in Seq(Signs) : <<92, c>> \o s # <<>> /\ (<<92, c>> \o s)[1] = 92
    OBVIOUS
  <2>5. e # <<>> /\ e[1] = 92
    <3>1. CASE r <= 255
      <4>1. e = <<92, 120>> \o Hex(r, 2)
        <5>1. ~(255 < r /\ r <= 65535) /\ ~(r > 65535)
          BY <2>1, <3>1
        <5> QED BY <3>1, <5>1 DEF RuneEscape
      <4> HIDE DEF e
      <4> QED BY <2>3, <2>4, <4>1
    <3>2. CASE 255 < r /\ r <= 65535
      <4>1. e = <<92, 117>> \o Hex(r, 4)
        <5>1. ~(r <= 255) /\ ~(r > 65535)
          BY <2>1, <3>2
        <5> QED BY <3>2, <5>1 DEF RuneEscape
      <4> HIDE DEF e
      <4> QED BY <2>3, <2>4, <4>1
    <3>3. CASE r > 65535
      <4>1. e = <<92, 85>> \o Hex(r, 8)
        <5>1. ~(r <= 255) /\ ~(255 < r /\ r <= 65535)
          BY <2>1, <3>3
        <5> QED BY <3>3, <5>1 DEF RuneEscape
      <4> HIDE DEF e
      <4> QED BY <2>3, <2>4, <4>1
    <3> QED BY <2>1, <3>1, <3>2, <3>3
  <2> HIDE DEF e
  <2>6. e \in Seq(E)
    <3>1. \A i \in 1 .. Len(e) : e[i] \in Signs
      BY <2>2, ElementsOf
    <3>2. \A i \in 1 .. Len(e) : e[i] \in E
      BY <3>1
    <3> QED BY <2>2, <3>2, Retyped
  <2>7. EscapeRune(r, kept) = e
    BY <1>2 DEF EscapeRune, e
  <2> QED BY <2>5, <2>6, <2>7
<1> QED BY <1>1, <1>2

LEMMA SignsAre == Signs \subseteq Nat /\ Slash \notin Signs /\ UnicodeMax + 19 \notin Signs
BY DEF Signs, Slash, UnicodeMax

LEMMA EscapedIs ==
    ASSUME NEW E, E \subseteq Nat, Signs \subseteq E, NEW value \in Seq(E), NEW kept
    PROVE  /\ Escape(value, kept) = FlattenSeq(EscapedRunes(value, kept))
           /\ EscapedRunes(value, kept) \in Seq(Seq(E)) /\ Escape(value, kept) \in Seq(E)
<1> DEFINE f == EscapedRunes(value, kept)
<1>1. Escape(value, kept) = FlattenSeq(f)
  BY DEF Escape, EscapedRunes, EscapeRune
<1>2. \A i \in 1 .. Len(value) : EscapeRune(value[i], kept) \in Seq(E)
  BY ElementsOf, EscapeRuneIs
<1>3. f \in Seq(Seq(E))
  <2>1. Len(value) \in Nat
    OBVIOUS
  <2> QED BY <1>2, <2>1 DEF EscapedRunes
<1> HIDE DEF f
<1>4. FlattenSeq(f) = Upto(f, Len(f)) /\ Upto(f, Len(f)) \in Seq(E)
  <2>1. Len(f) \in 0 .. Len(f)
    BY <1>3
  <2> QED BY <1>3, <2>1, FlattenIsUpto
<1> QED BY <1>1, <1>3, <1>4 DEF f

LEMMA EscapeJoin ==
    ASSUME NEW a \in Seq(Nat), NEW b \in Seq(Nat), NEW kept
    PROVE  Escape(a \o b, kept) = Escape(a, kept) \o Escape(b, kept)
<1> DEFINE c == a \o b
           f == EscapedRunes(a, kept)
           g == EscapedRunes(b, kept)
           h == EscapedRunes(c, kept)
           both == f \o g
<1>1. /\ c \in Seq(Nat) /\ Len(c) = Len(a) + Len(b) /\ Len(a) \in Nat /\ Len(b) \in Nat
      /\ \A i \in 1 .. Len(a) : c[i] = a[i]
      /\ \A i \in 1 .. Len(b) : c[Len(a) + i] = b[i]
  BY ConcatIs
<1> HIDE DEF c
<1>2. \A x \in Seq(Nat) : /\ Escape(x, kept) = FlattenSeq(EscapedRunes(x, kept))
                          /\ EscapedRunes(x, kept) \in Seq(Seq(Nat))
  BY SignsAre, EscapedIs
<1>3. \A x \in Seq(Nat) : /\ Len(EscapedRunes(x, kept)) = Len(x)
                          /\ \A i \in 1 .. Len(x) : EscapedRunes(x, kept)[i] = EscapeRune(x[i], kept)
  BY DEF EscapedRunes
<1>4. /\ f \in Seq(Seq(Nat)) /\ g \in Seq(Seq(Nat)) /\ h \in Seq(Seq(Nat))
      /\ Len(f) = Len(a) /\ Len(g) = Len(b) /\ Len(h) = Len(c)
      /\ \A i \in 1 .. Len(a) : f[i] = EscapeRune(a[i], kept)
      /\ \A i \in 1 .. Len(b) : g[i] = EscapeRune(b[i], kept)
      /\ \A i \in 1 .. Len(c) : h[i] = EscapeRune(c[i], kept)
  BY <1>1, <1>2, <1>3
<1>5. Escape(c, kept) = FlattenSeq(h) /\ Escape(a, kept) = FlattenSeq(f) /\ Escape(b, kept) = FlattenSeq(g)
  BY <1>1, <1>2
<1> HIDE DEF f, g, h
<1>6. /\ both \in Seq(Seq(Nat)) /\ Len(both) = Len(f) + Len(g)
      /\ \A i \in 1 .. Len(f) : both[i] = f[i]
      /\ \A i \in 1 .. Len(g) : both[Len(f) + i] = g[i]
  <2>1. f \in Seq(Seq(Nat)) /\ g \in Seq(Seq(Nat))
    BY <1>4
  <2> QED BY SMTT(30), <2>1
<1> HIDE DEF both
<1>7. ASSUME NEW i \in 1 .. Len(h) PROVE h[i] = both[i]
  <2>1. CASE i <= Len(a)
    <3>1. i \in 1 .. Len(a) /\ i \in 1 .. Len(c) /\ i \in 1 .. Len(f)
      BY <1>1, <1>4, <2>1
    <3>2. h[i] = EscapeRune(c[i], kept) /\ f[i] = EscapeRune(a[i], kept) /\ both[i] = f[i]
      BY <1>4, <1>6, <3>1
    <3> QED BY <1>1, <3>1, <3>2
  <2>2. CASE ~(i <= Len(a))
    <3> DEFINE j == i - Len(a)
    <3>1. j \in 1 .. Len(b) /\ j \in 1 .. Len(g) /\ i \in 1 .. Len(c) /\ Len(a) + j = i
          /\ Len(f) + j = i
      BY SMTT(30), <1>1, <1>4, <2>2
    <3> HIDE DEF j
    <3>2. h[i] = EscapeRune(c[i], kept) /\ g[j] = EscapeRune(b[j], kept) /\ both[i] = g[j]
      BY <1>4, <1>6, <3>1
    <3>3. c[i] = b[j]
      BY <1>1, <3>1
    <3> QED BY <3>2, <3>3
  <2> QED BY <2>1, <2>2
<1>8. h = both
  <2>1. Len(h) = Len(both)
    BY <1>1, <1>4, <1>6
  <2> QED BY <1>4, <1>6, <1>7, <2>1, SeqsEqual
<1>9. FlattenSeq(both) = FlattenSeq(f) \o FlattenSeq(g)
  BY <1>4, FlattenJoin DEF both
<1> QED BY <1>5, <1>8, <1>9 DEF c

LEMMA EscapeOne ==
    ASSUME NEW r \in Nat, NEW kept
    PROVE  Escape(<<r>>, kept) = EscapeRune(r, kept) /\ Escape(<<>>, kept) = <<>>
<1> DEFINE one == <<r>>
           ss == <<EscapeRune(r, kept)>>
<1>1. one \in Seq(Nat) /\ Len(one) = 1 /\ one[1] = r
  OBVIOUS
<1>2. EscapeRune(r, kept) \in Seq(Nat)
  BY SignsAre, EscapeRuneIs
<1>3. ss \in Seq(Seq(Nat)) /\ Len(ss) = 1 /\ ss[1] = EscapeRune(r, kept) /\ 1 \in 1 .. Len(ss)
      /\ \A j \in 1 .. Len(ss) : j # 1 => ss[j] = <<>>
  BY <1>2
<1>4. EscapedRunes(one, kept) = ss
  BY DEF EscapedRunes
<1>5. Escape(one, kept) = FlattenSeq(EscapedRunes(one, kept))
  BY <1>1, SignsAre, EscapedIs
<1> HIDE DEF one, ss
<1>6. FlattenSeq(ss) = ss[1]
  BY <1>3, FlattenOnly
<1>7. Escape(<<>>, kept) = <<>>
  <2> DEFINE none == <<>>
  <2>1. none \in Seq(Nat) /\ EscapedRunes(none, kept) = <<>>
    BY DEF EscapedRunes
  <2>2. Escape(none, kept) = FlattenSeq(EscapedRunes(none, kept))
    BY <2>1, SignsAre, EscapedIs
  <2>3. <<>> \in Seq(Seq(Nat)) /\ Len(<<>>) = 0 /\ Upto(<<>>, 0) = <<>>
    BY DEF Upto
  <2>4. FlattenSeq(<<>>) = <<>>
    BY <2>3, FlattenIsUpto
  <2> QED BY <2>1, <2>2, <2>4
<1> QED BY <1>3, <1>4, <1>5, <1>6, <1>7 DEF one

LEMMA FirstAndRest ==
    ASSUME NEW D, NEW t \in Seq(D), t # <<>>
    PROVE  /\ Len(t) \in Nat /\ 1 \in 1 .. Len(t) /\ t[1] \in D
           /\ SubSeq(t, 2, Len(t)) \in Seq(D)
           /\ t = <<t[1]>> \o SubSeq(t, 2, Len(t))
<1> DEFINE u == SubSeq(t, 2, Len(t))
           one == <<t[1]>>
           w == one \o u
<1>1. Len(t) \in Nat /\ 1 \in 1 .. Len(t) /\ t[1] \in D
  OBVIOUS
<1>2. u \in Seq(D) /\ Len(u) = Len(t) - 1 /\ \A i \in 1 .. Len(u) : u[i] = t[2 + i - 1]
  <2>1. 2 \in 1 .. Len(t) + 1 /\ Len(t) \in 2 - 1 .. Len(t) /\ Len(t) - 2 + 1 = Len(t) - 1
    BY <1>1
  <2>2. u \in Seq(D) /\ Len(u) = Len(t) - 2 + 1 /\ \A i \in 1 .. Len(u) : u[i] = t[2 + i - 1]
    BY <2>1, SubSeqIs
  <2> HIDE DEF u
  <2> QED BY <2>1, <2>2
<1> HIDE DEF u
<1>3. w \in Seq(D) /\ Len(w) = Len(u) + 1 /\ w[1] = t[1] /\ \A k \in 1 .. Len(u) : w[k + 1] = u[k]
  BY <1>1, <1>2, ConsIs
<1> HIDE DEF w
<1>4. ASSUME NEW i \in 1 .. Len(t) PROVE t[i] = w[i]
  <2>1. CASE i = 1
    BY <1>3, <2>1
  <2>2. CASE i # 1
    <3>1. i - 1 \in 1 .. Len(u) /\ (i - 1) + 1 = i /\ 2 + (i - 1) - 1 = i
      BY <1>1, <1>2, <2>2
    <3> QED BY <1>2, <1>3, <3>1
  <2> QED BY <2>1, <2>2
<1>5. t = w
  <2>1. Len(t) = Len(w)
    BY <1>1, <1>2, <1>3
  <2> QED BY <1>3, <1>4, <2>1, SeqsEqual
<1> QED BY <1>1, <1>2, <1>5 DEF w, u

LEMMA EscapeFirst ==
    ASSUME NEW t \in Seq(Nat), t # <<>>, NEW kept
    PROVE  /\ Escape(t, kept) = EscapeRune(t[1], kept) \o Escape(SubSeq(t, 2, Len(t)), kept)
           /\ Escape(t, kept) # <<>> /\ Escape(t, kept)[1] = EscapeRune(t[1], kept)[1]
<1> DEFINE u == SubSeq(t, 2, Len(t))
           a == EscapeRune(t[1], kept)
           b == Escape(u, kept)
<1>1. t[1] \in Nat /\ <<t[1]>> \in Seq(Nat) /\ u \in Seq(Nat) /\ t = <<t[1]>> \o u
  BY FirstAndRest
<1>2. a \in Seq(Nat) /\ a # <<>>
  BY SMTT(30), <1>1, SignsAre, EscapeRuneIs
<1>3. b \in Seq(Nat)
  BY <1>1, SignsAre, EscapedIs
<1>4. Escape(<<t[1]>>, kept) = a
  BY <1>1, EscapeOne
<1> HIDE DEF u, a
<1>5. Escape(t, kept) = a \o b
  <2>1. Escape(<<t[1]>> \o u, kept) = Escape(<<t[1]>>, kept) \o Escape(u, kept)
    BY <1>1, EscapeJoin
  <2> QED BY <1>1, <1>4, <2>1
<1> HIDE DEF b
<1>6. a \o b # <<>> /\ (a \o b)[1] = a[1]
  BY <1>2, <1>3
<1> QED BY <1>5, <1>6 DEF a, b, u

LEMMA EscapesShow ==
    ASSUME NEW t \in Seq(Nat)
    PROVE  /\ t # <<>> => EscapeInline(t) # <<>> /\ EscapeControls(t) # <<>>
           /\ SafeCommandJSON(t) # <<>>
<1>1. \A s \in Seq(Nat) : s # <<>> => EscapeInline(s) # <<>> /\ EscapeControls(s) # <<>>
  BY EscapeFirst DEF EscapeInline, EscapeControls
<1>2. CommandJSON(t) \in Seq(Nat) /\ CommandJSON(t) # <<>>
  <2> DEFINE json == CommandJSON(t)
  <2>1. json \in Seq(Nat \ {NL}) /\ json # <<>>
    BY CommandJSONIs
  <2> HIDE DEF json
  <2>2. json \in Seq(Nat)
    BY <2>1
  <2> QED BY <2>1, <2>2 DEF json
<1> QED BY <1>1, <1>2 DEF SafeCommandJSON

LEMMA FirstOf ==
    ASSUME NEW D, NEW t \in Seq(D), t # <<>>
    PROVE  SubSeq(t, 1, 1) = <<t[1]>>
<1> DEFINE s == SubSeq(t, 1, 1)
<1>1. Len(t) \in Nat /\ 1 \in 1 .. Len(t) + 1 /\ 1 \in 1 - 1 .. Len(t)
  OBVIOUS
<1>2. s \in Seq(D) /\ Len(s) = 1 - 1 + 1 /\ \A i \in 1 .. Len(s) : s[i] = t[1 + i - 1]
  BY <1>1, SubSeqIs
<1> HIDE DEF s
<1>3. s[1] = t[1] /\ Len(s) = 1
  BY <1>2
<1>4. s = <<t[1]>>
  BY <1>2, <1>3
<1> QED BY <1>4 DEF s

(* A text that breaks no line is one.                                      *)
LEMMA SingleLine ==
    ASSUME NEW line \in Seq(Inline), line # <<>>
    PROVE  LinesOf(line) = <<line>>
<1> DEFINE last == line[Len(line)]
<1>1. line \in Seq(Inline \cup {NL})
  OBVIOUS
<1>2. last # NL
  <2>1. last \in Inline
    OBVIOUS
  <2> QED BY <2>1 DEF Inline, Breaks, NL
<1>3. Writes(line \o OnlyIf(line[Len(line)] # NL, <<NL>>), LinesOf(line))
  BY <1>1, WritesContent
<1>4. OnlyIf(last # NL, <<NL>>) = <<NL>>
  BY <1>2 DEF OnlyIf
<1>5. LinesOf(line \o <<NL>>) = LinesOf(line)
  BY <1>3, <1>4 DEF Writes
<1>6. LinesOf(line \o <<NL>>) = <<line>>
  BY WritesLine DEF Writes
<1> QED BY <1>5, <1>6

(* A home directory's name ends at the next slash, in a path and in its    *)
(* escaped form, so that it does not matter which of the two comes first.  *)
LEMMA HomeIs ==
    ASSUME NEW name \in Seq(Nat \ {Slash}), NEW tail \in Seq(Nat), tail # <<>> => tail[1] = Slash
    PROVE  AbbreviateHome(HomePrefix \o name \o tail) = <<Tilde>> \o tail
<1> DEFINE a == HomePrefix \o name
           path == a \o tail
           m == Len(a)
           slashes == {i \in 2 .. Len(path) : path[i] = Slash}
<1>1. /\ HomePrefix \in Seq(Nat) /\ Len(HomePrefix) = 1 /\ HomePrefix = <<UnicodeMax + 19>>
      /\ 1 \in 1 .. 1
  BY DEF HomePrefix, Phrase, UnicodeMax
<1>2. /\ a \in Seq(Nat) /\ m = Len(name) + 1 /\ m \in Nat /\ Len(name) \in Nat
      /\ a[1] = UnicodeMax + 19 /\ \A i \in 2 .. m : a[i] # Slash
  <2>1. name \in Seq(Nat)
    OBVIOUS
  <2>2. \A i \in 1 .. Len(name) : name[i] # Slash
    OBVIOUS
  <2>3. /\ a \in Seq(Nat) /\ m = Len(name) + 1 /\ a[1] = UnicodeMax + 19
        /\ \A k \in 1 .. Len(name) : a[k + 1] = name[k]
    <3>1. UnicodeMax + 19 \in Nat
      BY DEF UnicodeMax
    <3> QED BY <1>1, <2>1, <3>1, ConsIs
  <2> HIDE DEF a
  <2>4. ASSUME NEW i \in 2 .. m PROVE a[i] # Slash
    <3>1. i - 1 \in 1 .. Len(name) /\ (i - 1) + 1 = i
      BY <2>1, <2>3
    <3> QED BY <2>2, <2>3, <3>1
  <2> QED BY <2>1, <2>3, <2>4
<1> HIDE DEF a
<1>3. /\ path \in Seq(Nat) /\ Len(path) = m + Len(tail) /\ Len(tail) \in Nat
      /\ \A i \in 1 .. m : path[i] = a[i]
      /\ \A i \in 1 .. Len(tail) : path[m + i] = tail[i]
  <2>1. a \in Seq(Nat)
    BY <1>2
  <2> QED BY SMTT(30), <2>1
<1> HIDE DEF path, m
<1>4. path # <<>> /\ SubSeq(path, 1, 1) = HomePrefix
  <2>1. 1 \in 1 .. m /\ path[1] = UnicodeMax + 19 /\ Len(path) \in Nat /\ Len(path) >= 1
    BY SMTT(30), <1>2, <1>3
  <2>2. SubSeq(path, 1, 1) = <<path[1]>>
    BY <1>3, <2>1, FirstOf
  <2> QED BY <1>1, <1>3, <2>1, <2>2
<1>5. ASSUME NEW i \in 2 .. m PROVE path[i] # Slash
  <2>1. i \in 1 .. m /\ a[i] # Slash
    BY <1>2
  <2> QED BY <1>3, <2>1
<1>6. AbbreviateHome(path) =
        <<Tilde>> \o IF slashes = {} THEN <<>> ELSE SubSeq(path, Min(slashes), Len(path))
  BY <1>4 DEF AbbreviateHome
<1>7. ASSUME tail = <<>> PROVE AbbreviateHome(path) = <<Tilde>> \o tail
  <2>1. Len(path) = m
    BY <1>2, <1>3, <1>7
  <2>2. slashes = {}
    BY <1>5, <2>1
  <2> HIDE DEF slashes
  <2> QED BY <1>6, <1>7, <2>2
<1>8. ASSUME tail # <<>> PROVE AbbreviateHome(path) = <<Tilde>> \o tail
  <2>1. 1 \in 1 .. Len(tail) /\ path[m + 1] = Slash
    <3>1. 1 \in 1 .. Len(tail)
      BY <1>3, <1>8
    <3> QED BY <1>3, <1>8, <3>1
  <2>2. m + 1 \in 2 .. Len(path) /\ Len(path) \in Nat /\ m \in Nat
    BY SMTT(30), <1>2, <1>3, <2>1
  <2>3. m + 1 \in slashes /\ slashes \subseteq Nat /\ slashes # {}
    BY SMTT(30), <2>1, <2>2
  <2>4. \A i \in slashes : i >= m + 1
    <3> SUFFICES ASSUME NEW i \in 2 .. Len(path), path[i] = Slash, ~(i >= m + 1) PROVE FALSE
      BY <2>2
    <3>1. i \in 2 .. m
      BY <2>2
    <3> QED BY <1>5, <3>1
  <2>5. Min(slashes) \in slashes /\ \A i \in slashes : Min(slashes) <= i
    <3> HIDE DEF slashes
    <3> QED BY <2>3, MinIs
  <2> HIDE DEF slashes
  <2>6. Min(slashes) = m + 1
    <3>1. Min(slashes) \in Nat /\ Min(slashes) <= m + 1 /\ Min(slashes) >= m + 1 /\ m \in Nat
      BY <2>2, <2>3, <2>4, <2>5
    <3> QED BY <3>1
  <2>7. SubSeq(path, m + 1, m + Len(tail)) = tail
    <3>1. 1 \in 1 .. Len(tail) + 1 /\ Len(tail) \in 1 - 1 .. Len(tail)
      BY <1>3
    <3>2. SubSeq(a \o tail, Len(a) + 1, Len(a) + Len(tail)) = SubSeq(tail, 1, Len(tail))
      <4>1. a \in Seq(Nat)
        BY <1>2
      <4> QED BY SMTT(30), <3>1, <4>1, SubSeqOfConcat
    <3>3. SubSeq(tail, 1, Len(tail)) = tail
      OBVIOUS
    <3> QED BY <3>2, <3>3 DEF path, m
  <2>8. SubSeq(path, Min(slashes), Len(path)) = tail
    BY <1>3, <2>6, <2>7
  <2> QED BY <1>6, <2>3, <2>8
<1> QED BY <1>7, <1>8 DEF path, a

LEMMA PathParts ==
    ASSUME NEW path \in Seq(Nat)
    PROVE  \E name \in Seq(Nat \ {Slash}), tail \in Seq(Nat) :
              path = name \o tail /\ (tail # <<>> => tail[1] = Slash)
<1> DEFINE e == LineEnd(path, 1, {Slash})
           name == SubSeq(path, 1, e - 1)
           tail == SubSeq(path, e, Len(path))
           both == name \o tail
<1>1. Len(path) \in Nat /\ 1 \in 1 .. Len(path) + 1
  OBVIOUS
<1>2. /\ e \in 1 .. Len(path) + 1 /\ \A j \in 1 .. e - 1 : path[j] # Slash
      /\ e <= Len(path) => path[e] = Slash
  <2>1. /\ e \in 1 .. Len(path) + 1 /\ \A j \in 1 .. e - 1 : path[j] \notin {Slash}
        /\ e <= Len(path) => path[e] \in {Slash}
    BY <1>1, LineEndIs
  <2> QED BY <2>1
<1> HIDE DEF e
<1>3. name \in Seq(Nat) /\ Len(name) = e - 1 /\ \A i \in 1 .. Len(name) : name[i] = path[i]
  <2>1. 1 \in 1 .. Len(path) + 1 /\ e - 1 \in 1 - 1 .. Len(path)
    BY <1>1, <1>2
  <2>2. name \in Seq(Nat) /\ Len(name) = (e - 1) - 1 + 1 /\ \A i \in 1 .. Len(name) : name[i] = path[1 + i - 1]
    BY <2>1, SubSeqIs
  <2> HIDE DEF name
  <2>3. \A i \in 1 .. Len(name) : 1 + i - 1 = i
    BY <2>2
  <2> QED BY <1>2, <2>2, <2>3
<1>4. /\ tail \in Seq(Nat) /\ Len(tail) = Len(path) - e + 1
      /\ \A i \in 1 .. Len(tail) : tail[i] = path[e + i - 1]
  <2>1. e \in 1 .. Len(path) + 1 /\ Len(path) \in e - 1 .. Len(path)
    BY <1>1, <1>2
  <2> QED BY <2>1, SubSeqIs
<1> HIDE DEF name, tail
<1>5. name \in Seq(Nat \ {Slash})
  <2>1. \A i \in 1 .. Len(name) : name[i] \in Nat /\ name[i] # Slash
    BY SMTT(30), <1>2, <1>3
  <2>2. \A i \in 1 .. Len(name) : name[i] \in Nat \ {Slash}
    BY <2>1
  <2> QED BY <1>3, <2>2, Retyped
<1>6. tail # <<>> => tail[1] = Slash
  <2> SUFFICES ASSUME tail # <<>> PROVE tail[1] = Slash
    OBVIOUS
  <2>1. 1 \in 1 .. Len(tail) /\ Len(tail) \in Nat
    BY <1>4
  <2>2. tail[1] = path[e] /\ e <= Len(path)
    BY <1>1, <1>2, <1>4, <2>1
  <2> QED BY <1>2, <2>2
<1>7. path = both
  <2>1. /\ both \in Seq(Nat) /\ Len(both) = Len(name) + Len(tail)
        /\ \A i \in 1 .. Len(name) : both[i] = name[i]
        /\ \A i \in 1 .. Len(tail) : both[Len(name) + i] = tail[i]
    <3>1. name \in Seq(Nat) /\ tail \in Seq(Nat)
      BY <1>3, <1>4
    <3> QED BY SMTT(30), <3>1
  <2> HIDE DEF both
  <2>2. Len(path) = Len(both)
    BY <1>1, <1>2, <1>3, <1>4, <2>1
  <2>3. ASSUME NEW i \in 1 .. Len(path) PROVE path[i] = both[i]
    <3>1. CASE i < e
      <4>1. i \in 1 .. Len(name)
        BY <1>1, <1>2, <1>3, <3>1
      <4> QED BY <1>3, <2>1, <4>1
    <3>2. CASE ~(i < e)
      <4> DEFINE j == i - e + 1
      <4>1. j \in 1 .. Len(tail) /\ Len(name) + j = i /\ e + j - 1 = i
        BY <1>1, <1>2, <1>3, <1>4, <3>2
      <4> HIDE DEF j
      <4>2. both[i] = tail[j] /\ tail[j] = path[i]
        BY <1>4, <2>1, <4>1
      <4> QED BY <4>2
    <3> QED BY <3>1, <3>2
  <2> QED BY <2>1, <2>2, <2>3, SeqsEqual
<1> QED BY <1>4, <1>5, <1>6, <1>7 DEF both

LEMMA HomeOf ==
    ASSUME NEW path \in Seq(Nat), path # <<>>
    PROVE  /\ AbbreviateHome(path) \in Seq(Nat) /\ AbbreviateHome(path) # <<>>
           /\ EscapeInline(AbbreviateHome(path)) = AbbreviateHome(EscapeInline(path))
<1> DEFINE r == path[1]
           rest == SubSeq(path, 2, Len(path))
           escaped == EscapeInline(path)
           h == UnicodeMax + 19
<1>1. r \in Nat /\ <<r>> \in Seq(Nat) /\ rest \in Seq(Nat) /\ path = <<r>> \o rest
  BY FirstAndRest
<1>2. escaped \in Seq(Nat) /\ escaped # <<>> /\ escaped[1] = EscapeRune(r, {})[1]
  <2>1. Escape(path, {}) \in Seq(Nat)
    BY SignsAre, EscapedIs
  <2> QED BY <2>1, EscapeFirst DEF EscapeInline
<1>3. HomePrefix = <<h>> /\ h \in Nat /\ h # 92 /\ Tilde \in Nat /\ <<Tilde>> \in Seq(Nat) /\ Slash # Tilde
  BY DEF HomePrefix, Phrase, UnicodeMax, Tilde, Slash
<1>4. EscapeRune(h, {}) = <<h>> /\ EscapeRune(Tilde, {}) = <<Tilde>> /\ EscapeRune(Slash, {}) = <<Slash>>
  BY DEF EscapeRune, IsPrint, BidiControls, UnicodeMax, Tilde, Slash
<1> HIDE DEF h, escaped, rest
<1>5. \A p \in Seq(Nat) : p # <<>> /\ p[1] # h => AbbreviateHome(p) = p
  <2> SUFFICES ASSUME NEW p \in Seq(Nat), p # <<>>, p[1] # h PROVE AbbreviateHome(p) = p
    OBVIOUS
  <2>1. SubSeq(p, 1, 1) = <<p[1]>>
    BY FirstOf
  <2>2. <<p[1]>> # <<h>>
    <3>1. <<p[1]>>[1] = p[1] /\ <<h>>[1] = h
      OBVIOUS
    <3> QED BY <3>1
  <2> QED BY <1>3, <2>1, <2>2 DEF AbbreviateHome
<1>6. CASE r # h
  <2>1. AbbreviateHome(path) = path
    BY <1>5, <1>6
  <2>2. escaped[1] # h
    <3>1. EscapeRune(r, {})[1] \in {r, 92}
      <4> HIDE DEF r
      <4>1. Nat \subseteq Nat /\ Signs \subseteq Nat
        BY SignsAre
      <4> QED BY ZenonT(30), <1>1, <4>1, EscapeRuneIs
    <3> QED BY <1>2, <1>3, <1>6, <3>1
  <2>3. AbbreviateHome(escaped) = escaped
    BY <1>2, <1>5, <2>2
  <2> QED BY <2>1, <2>3 DEF escaped
<1>7. CASE r = h
  <2>1. PICK name \in Seq(Nat \ {Slash}), tail \in Seq(Nat) :
           rest = name \o tail /\ (tail # <<>> => tail[1] = Slash)
    BY <1>1, PathParts
  <2> DEFINE inName == Escape(name, {})
             inTail == Escape(tail, {})
  <2>2. inName \in Seq(Nat \ {Slash}) /\ inTail \in Seq(Nat)
    <3>1. Nat \ {Slash} \subseteq Nat /\ Signs \subseteq Nat \ {Slash} /\ Signs \subseteq Nat
      BY SignsAre
    <3>2. inTail \in Seq(Nat)
      BY <3>1, EscapedIs
    <3> DEFINE E == Nat \ {Slash}
    <3>3. E \subseteq Nat /\ Signs \subseteq E /\ name \in Seq(E)
      BY <3>1
    <3> HIDE DEF E
    <3>4. Escape(name, {}) \in Seq(E)
      BY <3>3, EscapedIs
    <3> QED BY <3>2, <3>4 DEF E
  <2>3. inTail # <<>> => inTail[1] = Slash
    <3>1. CASE tail = <<>>
      <4>1. Escape(<<>>, {}) = <<>>
        BY <1>1, EscapeOne
      <4> QED BY <3>1, <4>1
    <3>2. CASE tail # <<>>
      <4>1. Escape(tail, {})[1] = EscapeRune(tail[1], {})[1]
        BY <3>2, EscapeFirst
      <4>2. EscapeRune(tail[1], {}) = <<Slash>> /\ <<Slash>>[1] = Slash
        BY <1>4, <2>1, <3>2
      <4> QED BY <4>1, <4>2
    <3> QED BY <3>1, <3>2
  <2>4. name \in Seq(Nat) /\ <<h>> \in Seq(Nat) /\ inName \in Seq(Nat) /\ <<h>> \o name \in Seq(Nat)
    <3>1. name \in Seq(Nat) /\ <<h>> \in Seq(Nat) /\ inName \in Seq(Nat)
      BY <1>3, <2>2
    <3> QED BY <3>1, ConcatIs
  <2>5. path = HomePrefix \o name \o tail
    <3>1. <<h>> \o (name \o tail) = (<<h>> \o name) \o tail
      <4>1. <<h>> \in Seq(Nat) /\ name \in Seq(Nat) /\ tail \in Seq(Nat)
        BY <2>1, <2>4
      <4> HIDE DEF h
      <4> QED BY SMTT(30), <4>1, ConcatAssoc
    <3> QED BY <1>1, <1>3, <1>7, <2>1, <3>1
  <2>6. escaped = HomePrefix \o inName \o inTail
    <3>0. \A x, y \in Seq(Nat) : Escape(x \o y, {}) = Escape(x, {}) \o Escape(y, {})
      <4> SUFFICES ASSUME NEW x \in Seq(Nat), NEW y \in Seq(Nat)
                   PROVE  Escape(x \o y, {}) = Escape(x, {}) \o Escape(y, {})
        OBVIOUS
      <4> QED BY ZenonT(30), EscapeJoin
    <3>1. Escape(<<h>> \o name \o tail, {}) = Escape(<<h>> \o name, {}) \o Escape(tail, {})
      BY Zenon, <2>1, <2>4, <3>0
    <3>2. Escape(<<h>> \o name, {}) = Escape(<<h>>, {}) \o Escape(name, {})
      BY Zenon, <2>4, <3>0
    <3>3. Escape(<<h>>, {}) = <<h>>
      BY <1>3, <1>4, EscapeOne
    <3> QED BY <1>3, <2>5, <3>1, <3>2, <3>3 DEF escaped, EscapeInline
  <2> HIDE DEF inName, inTail
  <2>7. AbbreviateHome(path) = <<Tilde>> \o tail /\ AbbreviateHome(escaped) = <<Tilde>> \o inTail
    BY <2>1, <2>2, <2>3, <2>5, <2>6, HomeIs
  <2>8. EscapeInline(<<Tilde>> \o tail) = <<Tilde>> \o inTail
    <3>1. Escape(<<Tilde>> \o tail, {}) = Escape(<<Tilde>>, {}) \o Escape(tail, {})
      BY ZenonT(30), <1>3, <2>1, EscapeJoin
    <3>2. Escape(<<Tilde>>, {}) = <<Tilde>>
      BY <1>3, <1>4, EscapeOne
    <3> QED BY <3>1, <3>2 DEF EscapeInline, inTail
  <2>9. <<Tilde>> \o tail \in Seq(Nat) /\ <<Tilde>> \o tail # <<>>
    BY <1>3, <2>1
  <2> QED BY <2>7, <2>8, <2>9 DEF escaped
<1> QED BY <1>6, <1>7

-----------------------------------------------------------------------------
(***************************************************************************)
(* The Markdown report, block by block: runprint's own items and, inside   *)
(* of each fence, what is shown there.                                     *)
(***************************************************************************)
NoteMarks(phrase) == <<Mark(<<>>)>> \o <<Mark(phrase)>>
Titled(title, shown) == <<Mark(<<>>)>> \o <<Mark(title)>> \o Fenced(shown)

LEMMA OwnPhrase == \A label \in Labels : IsOwn(<<Mark(label)>>)
<1> SUFFICES ASSUME NEW label \in Labels PROVE IsOwn(<<Mark(label)>>)
  OBVIOUS
<1>1. label \in Seq(Nat)
  <2>1. PICK n \in Nat : label = Phrase(n)
    BY DEF Labels
  <2> QED BY <2>1 DEF Phrase, UnicodeMax
<1> QED BY <1>1, OwnMark DEF IsOwn

LEMMA OwnEmpty == IsOwn(<<Mark(<<>>)>>)
<1>1. <<>> \in Seq(Nat)
  OBVIOUS
<1> QED BY <1>1, OwnMark DEF IsOwn

LEMMA OwnNote == \A label \in Labels : IsOwn(NoteMarks(label))
BY OwnPhrase, OwnEmpty, OwnsJoin DEF NoteMarks

LEMMA BlocksPhrase == \A label \in Labels : Blocks(Line(label, <<>>), <<Mark(label)>>)
<1>1. <<>> \in Seq(Inline)
  OBVIOUS
<1> QED BY <1>1, BlocksLabel

LEMMA BlocksNote == \A label \in Labels : Blocks(Note(label), NoteMarks(label))
BY BlocksPhrase, BlocksBlank, BlocksJoin DEF Note, NoteMarks

LEMMA BlocksTitled ==
    ASSUME NEW title \in Labels, NEW value \in Seq(Inline \cup {NL}), value # <<>>
    PROVE  Blocks(WriteMarkdownBlock(title, value), Titled(title, AllOthers(LinesOf(value))))
<1> DEFINE first == <<NL>> \o Line(title, <<>>)
           marks == <<Mark(<<>>)>> \o <<Mark(title)>>
           fence == WriteMarkdownFence(value)
           fenced == Fenced(AllOthers(LinesOf(value)))
<1>1. Blocks(first, marks)
  BY BlocksPhrase, BlocksBlank, BlocksJoin
<1>2. Blocks(fence, fenced)
  BY FenceShown
<1>3. WriteMarkdownBlock(title, value) = first \o fence
  BY DEF WriteMarkdownBlock
<1>4. Titled(title, AllOthers(LinesOf(value))) = marks \o fenced
  BY DEF Titled
<1> HIDE DEF first, marks, fence, fenced
<1> QED BY <1>1, <1>2, <1>3, <1>4, BlocksJoin

(* Items around a part that is replaced.                                   *)
LEMMA ReplacedTyped ==
    ASSUME NEW x, NEW y, NEW n, NEW lines, Replaced(x, y, n, lines)
    PROVE  x \in Seq(Items) /\ y \in Seq(Items) /\ n \in Nat
<1>1. PICK a \in Seq(Items), b \in Seq(Items), item \in Items :
          /\ ~item.own /\ n = Foreign(a) + 1
          /\ y = a \o <<item>> \o b /\ x = a \o AllOthers(lines) \o b
  BY DEF Replaced
<1> DEFINE m == AllOthers(lines)
           one == <<item>>
<1>2. m \in Seq(Items) /\ one \in Seq(Items)
  BY DEF Replaced
<1>3. x = a \o m \o b /\ y = a \o one \o b
  BY <1>1
<1> HIDE DEF m, one
<1>4. a \o m \in Seq(Items) /\ a \o one \in Seq(Items)
  BY <1>2, ConcatIs
<1>5. x \in Seq(Items) /\ y \in Seq(Items)
  BY <1>3, <1>4, ConcatIs
<1>6. n \in Nat
  BY <1>1, ForeignJoin
<1> QED BY <1>5, <1>6

LEMMA ReplacedAfter ==
    ASSUME NEW a, IsOwn(a), NEW x, NEW y, NEW n, NEW lines, Replaced(x, y, n, lines)
    PROVE  Replaced(a \o x, a \o y, n, lines)
<1>1. a \in Seq(Items) /\ Foreign(a) = 0 /\ n \in Nat
  BY ReplacedTyped DEF IsOwn
<1>2. Replaced(a \o x, a \o y, Foreign(a) + n, lines)
  BY <1>1, ReplacedBehind
<1>3. Foreign(a) + n = n
  BY <1>1
<1> QED BY <1>2, <1>3

LEMMA TitledIs ==
    ASSUME NEW title \in Labels, NEW x \in Seq(Items)
    PROVE  /\ Titled(title, x) \in Seq(Items) /\ Foreign(Titled(title, x)) = Foreign(x)
           /\ \A y, n, lines : Replaced(x, y, n, lines) =>
                  Replaced(Titled(title, x), Titled(title, y), n, lines)
<1> DEFINE a == <<Mark(<<>>)>> \o <<Mark(title)>>
<1>1. IsOwn(a)
  BY OwnEmpty, OwnPhrase, OwnsJoin
<1>2. \A z : Titled(title, z) = a \o Fenced(z)
  BY DEF Titled
<1> HIDE DEF a
<1>3. Fenced(x) \in Seq(Items) /\ Foreign(Fenced(x)) = Foreign(x) /\ Foreign(x) \in Nat
  BY FencedIs, ForeignJoin
<1>4. a \o Fenced(x) \in Seq(Items) /\ Foreign(a \o Fenced(x)) = Foreign(x)
  <2>1. a \in Seq(Items) /\ Foreign(a) = 0
    BY <1>1 DEF IsOwn
  <2>2. a \o Fenced(x) \in Seq(Items)
    BY <1>3, <2>1, ConcatIs
  <2>3. Foreign(a \o Fenced(x)) = Foreign(a) + Foreign(Fenced(x))
    BY <1>3, <2>1, ForeignJoin
  <2> QED BY <1>3, <2>1, <2>2, <2>3
<1>5. ASSUME NEW y, NEW n, NEW lines, Replaced(x, y, n, lines)
      PROVE  Replaced(a \o Fenced(x), a \o Fenced(y), n, lines)
  <2>1. n \in Nat
    BY <1>5, ReplacedTyped
  <2>2. Replaced(Fenced(x), Fenced(y), n, lines)
    BY <1>5, <2>1, FencedIs
  <2> QED BY <1>1, <2>2, ReplacedAfter
<1> QED BY <1>2, <1>4, <1>5

-----------------------------------------------------------------------------
(* A stream.                                                               *)
PageStreamMarks(s) ==
    NoteMarks(StreamLabel) \o OnlyIf(~s.complete, NoteMarks(IncompleteNote))
      \o OnlyIf(s.invalid, NoteMarks(InvalidNote))
PageText(value) == OnlyIf(value # <<>>, Fenced(Text(value)))
PageOmission(s) == OnlyIf(s.truncated, NoteMarks(OmittedNote))
PageStream(s) == PageStreamMarks(s) \o (PageText(s.head) \o PageOmission(s) \o PageText(s.tail))

LEMMA PageStreamMarksOwn == \A s : IsOwn(PageStreamMarks(s)) /\ IsOwn(PageOmission(s))
BY LabelsAre, OwnNote, OwnsOptional, OwnsJoin DEF PageStreamMarks, PageOmission

LEMMA PageTextShown ==
    ASSUME NEW value \in Seq(Nat)
    PROVE  Blocks(OnlyIf(value # <<>>, WriteMarkdownFence(EscapeControls(value))), PageText(value))
<1>1. CASE value = <<>>
  <2>1. Blocks(OnlyIf(FALSE, <<NL>>), OnlyIf(FALSE, <<Mark(<<>>)>>))
    BY BlocksBlank, BlocksOptional
  <2> QED BY <1>1, <2>1 DEF OnlyIf, PageText
<1>2. CASE value # <<>>
  <2>1. EscapeControls(value) \in Seq(Inline \cup {NL}) /\ EscapeControls(value) # <<>>
    BY <1>2, EscapesAre, EscapesShow
  <2>2. Blocks(WriteMarkdownFence(EscapeControls(value)), Fenced(AllOthers(LinesOf(EscapeControls(value)))))
    BY <2>1, FenceShown
  <2> QED BY <1>2, <2>2 DEF OnlyIf, PageText, Text
<1> QED BY <1>1, <1>2

LEMMA PageStreamShown ==
    ASSUME NEW s, ~NothingReceived(s), s.head \in Seq(Nat), s.tail \in Seq(Nat)
    PROVE  Blocks(WriteMarkdownStream(s), PageStream(s))
<1> DEFINE front == Note(StreamLabel) \o OnlyIf(~s.complete, Note(IncompleteNote))
                      \o OnlyIf(s.invalid, Note(InvalidNote))
           head == OnlyIf(s.head # <<>>, WriteMarkdownFence(EscapeControls(s.head)))
           tail == OnlyIf(s.tail # <<>>, WriteMarkdownFence(EscapeControls(s.tail)))
           middle == OnlyIf(s.truncated, Note(OmittedNote))
<1>1. WriteMarkdownStream(s) = front \o (head \o middle \o tail)
  BY DEF WriteMarkdownStream
<1>2. Blocks(front, PageStreamMarks(s))
  <2>1. /\ Blocks(Note(StreamLabel), NoteMarks(StreamLabel))
        /\ Blocks(OnlyIf(~s.complete, Note(IncompleteNote)), OnlyIf(~s.complete, NoteMarks(IncompleteNote)))
        /\ Blocks(OnlyIf(s.invalid, Note(InvalidNote)), OnlyIf(s.invalid, NoteMarks(InvalidNote)))
    BY LabelsAre, BlocksNote, BlocksOptional
  <2> QED BY <2>1, BlocksJoin DEF PageStreamMarks
<1>3. Blocks(middle, PageOmission(s))
  BY LabelsAre, BlocksNote, BlocksOptional DEF PageOmission
<1>4. Blocks(head, PageText(s.head)) /\ Blocks(tail, PageText(s.tail))
  BY PageTextShown
<1> HIDE DEF front, head, middle, tail
<1>5. Blocks(head \o middle \o tail, PageText(s.head) \o PageOmission(s) \o PageText(s.tail))
  BY <1>3, <1>4, BlocksJoin
<1> QED BY <1>1, <1>2, <1>5, BlocksJoin DEF PageStream

-----------------------------------------------------------------------------
(* The report: what its four fences show and what stands between them.     *)
PageFront(r) ==
    <<Mark(Title)>> \o <<Mark(<<>>)>> \o <<Mark(Facts)>> \o <<Mark(VersionLabel)>>
      \o OnlyIf(r.legacy, NoteMarks(LegacyNote))
PageCommand(value) == AllOthers(LinesOf(SafeCommandJSON(value)))
PageDirectory(value) == <<Others(AbbreviateHome(EscapeInline(value)))>>
CommitLine(value) == CommitLabel \o EscapeInline(ValueOrUnknown(value))
BranchLine(value) == BranchLabel \o EscapeInline(ValueOrUnknown(value))
PageGit(commit, branch) == <<Others(CommitLine(commit))>> \o <<Others(BranchLine(branch))>>

PageOf(front, command, directory, git, stream) ==
    front \o Titled(CommandLabel, command) \o Titled(DirectoryLabel, directory)
      \o Titled(GitLabel, git) \o stream \o NoteMarks(Advice)

LEMMA TitlesAre == {Title, GitLabel, Advice} \subseteq Labels
BY DEF Labels, Title, GitLabel, Advice

LEMMA OneOther ==
    ASSUME NEW line \in Seq(Nat)
    PROVE  /\ AllOthers(<<line>>) = <<Others(line)>> /\ Others(line) \in Items /\ ~Others(line).own
           /\ <<Others(line)>> \in Seq(Items) /\ Foreign(<<Others(line)>>) = 1
<1>1. AllOthers(<<line>>) = <<Others(line)>>
  BY DEF AllOthers
<1>2. Others(line) \in Items /\ ~Others(line).own
  BY DEF Others, Items
<1> QED BY <1>1, <1>2, ForeignOne

LEMMA ValueIs ==
    ASSUME NEW value \in Seq(Nat)
    PROVE  /\ EscapeInline(ValueOrUnknown(value)) \in Seq(Inline)
           /\ CommitLine(value) \in Seq(Inline) /\ CommitLine(value) \in Seq(Nat)
           /\ CommitLine(value) # <<>>
           /\ BranchLine(value) \in Seq(Inline) /\ BranchLine(value) \in Seq(Nat)
           /\ BranchLine(value) # <<>>
<1> DEFINE v == ValueOrUnknown(value)
           inline == EscapeInline(v)
<1>1. v \in Seq(Nat)
  BY DEF ValueOrUnknown, Unknown, Phrase, UnicodeMax
<1> HIDE DEF v
<1>2. inline \in Seq(Inline)
  BY <1>1, EscapesAre
<1> HIDE DEF inline
<1>3. ASSUME NEW label \in Labels
      PROVE  label \o inline \in Seq(Inline) /\ label \o inline \in Seq(Nat) /\ label \o inline # <<>>
  <2>1. label \o inline \in Seq(Inline)
    BY <1>2, BlocksLabel
  <2>2. label \o inline # <<>>
    <3>1. PICK n \in Nat : label = <<UnicodeMax + n>>
      BY DEF Labels, Phrase
    <3>2. \A w \in Seq(Inline) : \A c : <<c>> \o w # <<>>
      OBVIOUS
    <3> QED BY <1>2, <3>1, <3>2
  <2> QED BY <2>1, <2>2, InlineText
<1>4. CommitLine(value) = CommitLabel \o inline /\ BranchLine(value) = BranchLabel \o inline
  BY DEF CommitLine, BranchLine, inline, v
<1> QED BY <1>2, <1>3, <1>4, LabelsAre DEF inline, v

LEMMA PairIs ==
    ASSUME NEW D, NEW a \in D, NEW b \in D
    PROVE  <<a>> \o <<b>> = <<a, b>>
<1> DEFINE one == <<a>>
           two == <<b>>
           c == one \o two
           pair == <<a, b>>
<1>1. one \in Seq(D) /\ two \in Seq(D) /\ Len(one) = 1 /\ Len(two) = 1 /\ one[1] = a /\ two[1] = b
  OBVIOUS
<1>2. pair \in Seq(D) /\ Len(pair) = 2 /\ pair[1] = a /\ pair[2] = b
  OBVIOUS
<1> HIDE DEF one, two, pair
<1>3. /\ c \in Seq(D) /\ Len(c) = Len(one) + Len(two)
      /\ \A i \in 1 .. Len(one) : c[i] = one[i]
      /\ \A i \in 1 .. Len(two) : c[Len(one) + i] = two[i]
  <2>1. one \in Seq(D) /\ two \in Seq(D)
    BY <1>1
  <2> QED BY SMTT(30), <2>1
<1> HIDE DEF c
<1>4. Len(c) = 2 /\ c[1] = a /\ c[2] = b
  <2>1. 1 \in 1 .. 1 /\ 1 + 1 = 2
    OBVIOUS
  <2> QED BY <1>1, <1>3, <2>1
<1>5. \A i \in 1 .. Len(c) : c[i] = pair[i]
  <2>1. \A i \in 1 .. 2 : i = 1 \/ i = 2
    OBVIOUS
  <2> QED BY <1>2, <1>4, <2>1
<1>6. c = pair
  BY <1>2, <1>3, <1>4, <1>5, SeqsEqual
<1> QED BY <1>6 DEF c, one, two, pair

LEMMA GitShown ==
    ASSUME NEW commit \in Seq(Nat), NEW branch \in Seq(Nat)
    PROVE  Blocks(WriteMarkdownBlock(GitLabel,
                      Line(CommitLabel, EscapeInline(ValueOrUnknown(commit)))
                        \o BranchLabel \o EscapeInline(ValueOrUnknown(branch))),
                  Titled(GitLabel, PageGit(commit, branch)))
<1> DEFINE c == CommitLine(commit)
           b == BranchLine(branch)
           inline == EscapeInline(ValueOrUnknown(branch))
           first == c \o <<NL>>
           content == Line(CommitLabel, EscapeInline(ValueOrUnknown(commit))) \o BranchLabel \o inline
<1>1. /\ c \in Seq(Inline) /\ b \in Seq(Inline) /\ b # <<>> /\ c \in Seq(Nat) /\ b \in Seq(Nat)
      /\ inline \in Seq(Nat)
  BY ValueIs, InlineText
<1>2. content = first \o BranchLabel \o inline
  BY DEF Line, CommitLine
<1>3. b = BranchLabel \o inline
  BY DEF BranchLine
<1> HIDE DEF c, b, inline, content
<1>4. content = first \o b
  <2>1. first \in Seq(Nat) /\ BranchLabel \in Seq(Nat)
    <3>1. <<NL>> \in Seq(Nat)
      BY DEF NL
    <3>2. first \in Seq(Nat)
      BY <1>1, <3>1, ConcatIs
    <3> QED BY <3>2 DEF BranchLabel, Phrase, UnicodeMax
  <2> HIDE DEF first
  <2>2. first \o BranchLabel \o inline = first \o (BranchLabel \o inline)
    <3>1. first \in Seq(Nat) /\ BranchLabel \in Seq(Nat) /\ inline \in Seq(Nat)
      BY <1>1, <2>1
    <3> QED BY SMTT(30), <3>1, ConcatAssoc
  <2> QED BY <1>2, <1>3, <2>2
<1>5. LinesOf(content) = <<c>> \o <<b>>
  <2>1. LinesOf(b) = <<b>>
    BY <1>1, SingleLine
  <2>2. LinesOf(c \o <<NL>> \o b) = <<c>> \o LinesOf(b)
    BY <1>1, LinesFirst
  <2> QED BY <1>4, <2>1, <2>2
<1>6. content \in Seq(Inline \cup {NL}) /\ content # <<>>
  <2> DEFINE E == Inline \cup {NL}
  <2>1. c \in Seq(E) /\ b \in Seq(E) /\ <<NL>> \in Seq(E)
    BY <1>1
  <2> HIDE DEF E
  <2>2. first \in Seq(E)
    BY <2>1, ConcatIs
  <2> HIDE DEF first
  <2>3. first \o b \in Seq(E)
    BY <2>1, <2>2, ConcatIs
  <2>4. \A s \in Seq(Inline) : first \o s # <<>> \/ s = <<>>
    BY <2>2
  <2> QED BY <1>1, <1>4, <2>3, <2>4 DEF E
<1>7. AllOthers(<<c>> \o <<b>>) = PageGit(commit, branch)
  <2>1. <<c>> \o <<b>> = <<c, b>>
    BY <1>1, PairIs
  <2>2. AllOthers(<<c, b>>) = <<Others(c), Others(b)>>
    BY DEF AllOthers
  <2>3. <<Others(c)>> \o <<Others(b)>> = <<Others(c), Others(b)>>
    <3>1. Others(c) \in Items /\ Others(b) \in Items
      BY <1>1, OneOther
    <3> QED BY <3>1, PairIs
  <2> QED BY <2>1, <2>2, <2>3 DEF PageGit, c, b
<1>8. Blocks(WriteMarkdownBlock(GitLabel, content), Titled(GitLabel, AllOthers(LinesOf(content))))
  BY <1>6, TitlesAre, BlocksTitled
<1> QED BY <1>5, <1>7, <1>8 DEF content, inline

LEMMA CommandShown ==
    ASSUME NEW value \in Seq(Nat)
    PROVE  /\ Blocks(WriteMarkdownBlock(CommandLabel, SafeCommandJSON(value)),
                     Titled(CommandLabel, PageCommand(value)))
           /\ LinesOf(SafeCommandJSON(value)) = <<SafeCommandJSON(value)>>
           /\ SafeCommandJSON(value) \in Seq(Nat)
<1> DEFINE json == SafeCommandJSON(value)
<1>1. json \in Seq(Inline) /\ json # <<>>
  BY EscapesAre, EscapesShow
<1> HIDE DEF json
<1>2. json \in Seq(Inline \cup {NL}) /\ json \in Seq(Nat)
  <2>1. json \in Seq(Inline \cup {NL})
    BY <1>1
  <2> QED BY <1>1, <2>1, InlineText
<1>3. Blocks(WriteMarkdownBlock(CommandLabel, json), Titled(CommandLabel, AllOthers(LinesOf(json))))
  BY <1>1, <1>2, LabelsAre, BlocksTitled
<1>4. LinesOf(json) = <<json>>
  BY <1>1, SingleLine
<1> QED BY <1>2, <1>3, <1>4 DEF json, PageCommand

LEMMA DirectoryShown ==
    ASSUME NEW value \in Seq(Nat), value # <<>>
    PROVE  /\ Blocks(WriteMarkdownBlock(DirectoryLabel, EscapeInline(AbbreviateHome(value))),
                     Titled(DirectoryLabel, PageDirectory(value)))
           /\ AbbreviateHome(EscapeInline(value)) \in Seq(Nat)
<1> DEFINE home == AbbreviateHome(value)
           inline == EscapeInline(home)
<1>1. home \in Seq(Nat) /\ home # <<>> /\ inline = AbbreviateHome(EscapeInline(value))
  BY HomeOf
<1> HIDE DEF home
<1>2. inline \in Seq(Inline) /\ inline # <<>>
  BY <1>1, EscapesAre, EscapesShow
<1>3. inline = AbbreviateHome(EscapeInline(value))
  BY <1>1
<1> HIDE DEF inline
<1>4. inline \in Seq(Inline \cup {NL}) /\ inline \in Seq(Nat)
  <2>1. inline \in Seq(Inline \cup {NL})
    BY <1>2
  <2> QED BY <1>2, <2>1, InlineText
<1>5. Blocks(WriteMarkdownBlock(DirectoryLabel, inline), Titled(DirectoryLabel, AllOthers(LinesOf(inline))))
  BY <1>2, <1>4, LabelsAre, BlocksTitled
<1>6. AllOthers(LinesOf(inline)) = <<Others(inline)>>
  BY <1>2, <1>4, SingleLine, OneOther
<1> QED BY <1>3, <1>4, <1>5, <1>6 DEF inline, home, PageDirectory

LEMMA FrontShown ==
    ASSUME NEW r, r.version \in Seq(Nat)
    PROVE  /\ Blocks(Line(Title, <<>>) \o <<NL>> \o Line(Facts, <<>>)
                       \o Line(VersionLabel, EscapeInline(ValueOrUnknown(r.version)))
                       \o OnlyIf(r.legacy, Note(LegacyNote)), PageFront(r))
           /\ IsOwn(PageFront(r))
<1>1. /\ Blocks(Line(Title, <<>>), <<Mark(Title)>>) /\ Blocks(<<NL>>, <<Mark(<<>>)>>)
      /\ Blocks(Line(Facts, <<>>), <<Mark(Facts)>>)
  BY TitlesAre, LabelsAre, BlocksPhrase, BlocksBlank
<1>2. Blocks(Line(VersionLabel, EscapeInline(ValueOrUnknown(r.version))), <<Mark(VersionLabel)>>)
  BY ValueIs, LabelsAre, BlocksLabel
<1>3. Blocks(OnlyIf(r.legacy, Note(LegacyNote)), OnlyIf(r.legacy, NoteMarks(LegacyNote)))
  BY LabelsAre, BlocksNote, BlocksOptional
<1>4. IsOwn(PageFront(r))
  <2>1. /\ IsOwn(<<Mark(Title)>>) /\ IsOwn(<<Mark(<<>>)>>) /\ IsOwn(<<Mark(Facts)>>)
        /\ IsOwn(<<Mark(VersionLabel)>>) /\ IsOwn(OnlyIf(r.legacy, NoteMarks(LegacyNote)))
    BY TitlesAre, LabelsAre, OwnPhrase, OwnEmpty, OwnNote, OwnsOptional
  <2> QED BY <2>1, OwnsJoin DEF PageFront
<1>5. Blocks(Line(Title, <<>>) \o <<NL>> \o Line(Facts, <<>>)
               \o Line(VersionLabel, EscapeInline(ValueOrUnknown(r.version)))
               \o OnlyIf(r.legacy, Note(LegacyNote)), PageFront(r))
  BY <1>1, <1>2, <1>3, BlocksJoin DEF PageFront
<1> QED BY <1>4, <1>5

LEMMA MarkdownShown ==
    ASSUME NEW r, r.git = TRUE, r.command \in Seq(Nat), r.directory \in Seq(Nat), r.directory # <<>>,
           r.version \in Seq(Nat), r.commit \in Seq(Nat), r.branch \in Seq(Nat),
           ~NothingReceived(r.stream), r.stream.head \in Seq(Nat), r.stream.tail \in Seq(Nat)
    PROVE  ReadMarkdown(WriteMarkdown(r)) =
              PageOf(PageFront(r), PageCommand(r.command), PageDirectory(r.directory),
                     PageGit(r.commit, r.branch), PageStream(r.stream))
<1> DEFINE front == Line(Title, <<>>) \o <<NL>> \o Line(Facts, <<>>)
                      \o Line(VersionLabel, EscapeInline(ValueOrUnknown(r.version)))
                      \o OnlyIf(r.legacy, Note(LegacyNote))
           command == WriteMarkdownBlock(CommandLabel, SafeCommandJSON(r.command))
           directory == WriteMarkdownBlock(DirectoryLabel, EscapeInline(AbbreviateHome(r.directory)))
           git == WriteMarkdownBlock(GitLabel,
                      Line(CommitLabel, EscapeInline(ValueOrUnknown(r.commit)))
                        \o BranchLabel \o EscapeInline(ValueOrUnknown(r.branch)))
           stream == WriteMarkdownStream(r.stream)
           page == front \o command \o directory \o git \o stream \o Note(Advice)
<1>1. Blocks(front, PageFront(r))
  BY FrontShown
<1>2. Blocks(command, Titled(CommandLabel, PageCommand(r.command)))
  BY CommandShown
<1>3. Blocks(directory, Titled(DirectoryLabel, PageDirectory(r.directory)))
  BY DirectoryShown
<1>4. Blocks(git, Titled(GitLabel, PageGit(r.commit, r.branch)))
  BY GitShown
<1>5. Blocks(stream, PageStream(r.stream))
  BY PageStreamShown
<1>6. Blocks(Note(Advice), NoteMarks(Advice))
  BY SMTT(30), TitlesAre, BlocksNote
<1>7. WriteMarkdown(r) = page
  BY DEF WriteMarkdown, OnlyIf
<1> HIDE DEF front, command, directory, git, stream
<1>8. Blocks(page, PageOf(PageFront(r), PageCommand(r.command), PageDirectory(r.directory),
                          PageGit(r.commit, r.branch), PageStream(r.stream)))
  BY <1>1, <1>2, <1>3, <1>4, <1>5, <1>6, BlocksJoin DEF PageOf
<1> HIDE DEF page
<1> QED BY <1>7, <1>8, BlocksRead

-----------------------------------------------------------------------------
(* One fence's items replaced, and nothing else on the page.               *)
LEMMA PageReplaced ==
    ASSUME NEW front, IsOwn(front), NEW command \in Seq(Items), NEW directory \in Seq(Items),
           NEW git \in Seq(Items), NEW stream \in Seq(Items),
           Foreign(command) = 1, Foreign(directory) = 1, Foreign(git) = 2, NEW x, NEW n, NEW lines
    PROVE  /\ Replaced(x, command, n, lines) =>
                Replaced(PageOf(front, x, directory, git, stream),
                         PageOf(front, command, directory, git, stream), n, lines)
           /\ Replaced(x, directory, n, lines) =>
                Replaced(PageOf(front, command, x, git, stream),
                         PageOf(front, command, directory, git, stream), 1 + n, lines)
           /\ Replaced(x, git, n, lines) =>
                Replaced(PageOf(front, command, directory, x, stream),
                         PageOf(front, command, directory, git, stream), 2 + n, lines)
           /\ Replaced(x, stream, n, lines) =>
                Replaced(PageOf(front, command, directory, git, x),
                         PageOf(front, command, directory, git, stream), 4 + n, lines)
<1> DEFINE c == Titled(CommandLabel, command)
           d == Titled(DirectoryLabel, directory)
           g == Titled(GitLabel, git)
           advice == NoteMarks(Advice)
           two == front \o c
           three == two \o d
           four == three \o g
<1>1. /\ c \in Seq(Items) /\ d \in Seq(Items) /\ g \in Seq(Items)
      /\ Foreign(c) = 1 /\ Foreign(d) = 1 /\ Foreign(g) = 2
  BY LabelsAre, TitlesAre, TitledIs
<1>2. front \in Seq(Items) /\ Foreign(front) = 0 /\ advice \in Seq(Items)
  BY TitlesAre, OwnNote DEF IsOwn
<1> HIDE DEF c, d, g, advice
<1>3. two \in Seq(Items) /\ Foreign(two) = 1
  <2>1. two \in Seq(Items)
    BY <1>1, <1>2, ConcatIs
  <2>2. Foreign(two) = Foreign(front) + Foreign(c)
    BY <1>1, <1>2, ForeignJoin
  <2> QED BY <1>1, <1>2, <2>1, <2>2
<1> HIDE DEF two
<1>4. three \in Seq(Items) /\ Foreign(three) = 2
  <2>1. three \in Seq(Items)
    BY <1>1, <1>3, ConcatIs
  <2>2. Foreign(three) = Foreign(two) + Foreign(d)
    BY <1>1, <1>3, ForeignJoin
  <2> QED BY <1>1, <1>3, <2>1, <2>2
<1> HIDE DEF three
<1>5. four \in Seq(Items) /\ Foreign(four) = 4
  <2>1. four \in Seq(Items)
    BY <1>1, <1>4, ConcatIs
  <2>2. Foreign(four) = Foreign(three) + Foreign(g)
    BY <1>1, <1>4, ForeignJoin
  <2> QED BY <1>1, <1>4, <2>1, <2>2
<1> HIDE DEF four
<1>6. PageOf(front, command, directory, git, stream) = four \o stream \o advice
  BY DEF PageOf, four, three, two, g, d, c, advice
<1>7. ASSUME Replaced(x, command, n, lines)
      PROVE  Replaced(PageOf(front, x, directory, git, stream), four \o stream \o advice, n, lines)
  <2> DEFINE X == Titled(CommandLabel, x)
  <2>1. Replaced(X, c, n, lines)
    BY <1>7, LabelsAre, ReplacedTyped, TitledIs DEF c
  <2> HIDE DEF X
  <2>2. Replaced(front \o X, two, n, lines)
    BY <2>1, ReplacedAfter DEF two
  <2>3. Replaced(front \o X \o d, three, n, lines)
    BY <1>1, <2>2, ReplacedBefore DEF three
  <2>4. Replaced(front \o X \o d \o g, four, n, lines)
    BY <1>1, <2>3, ReplacedBefore DEF four
  <2>5. Replaced(front \o X \o d \o g \o stream, four \o stream, n, lines)
    BY <2>4, ReplacedBefore
  <2>6. Replaced(front \o X \o d \o g \o stream \o advice, four \o stream \o advice, n, lines)
    BY <1>2, <2>5, ReplacedBefore
  <2> QED BY <2>6 DEF PageOf, X, d, g, advice
<1>8. ASSUME Replaced(x, directory, n, lines)
      PROVE  Replaced(PageOf(front, command, x, git, stream), four \o stream \o advice, 1 + n, lines)
  <2> DEFINE X == Titled(DirectoryLabel, x)
  <2>1. Replaced(X, d, n, lines)
    BY <1>8, LabelsAre, ReplacedTyped, TitledIs DEF d
  <2> HIDE DEF X
  <2>2. Replaced(two \o X, three, 1 + n, lines)
    BY <1>3, <2>1, ReplacedBehind DEF three
  <2>3. Replaced(two \o X \o g, four, 1 + n, lines)
    BY <1>1, <2>2, ReplacedBefore DEF four
  <2>4. Replaced(two \o X \o g \o stream, four \o stream, 1 + n, lines)
    BY <2>3, ReplacedBefore
  <2>5. Replaced(two \o X \o g \o stream \o advice, four \o stream \o advice, 1 + n, lines)
    BY <1>2, <2>4, ReplacedBefore
  <2> QED BY <2>5 DEF PageOf, two, X, c, g, advice
<1>9. ASSUME Replaced(x, git, n, lines)
      PROVE  Replaced(PageOf(front, command, directory, x, stream), four \o stream \o advice, 2 + n, lines)
  <2> DEFINE X == Titled(GitLabel, x)
  <2>1. Replaced(X, g, n, lines)
    BY <1>9, TitlesAre, ReplacedTyped, TitledIs DEF g
  <2> HIDE DEF X
  <2>2. Replaced(three \o X, four, 2 + n, lines)
    BY <1>4, <2>1, ReplacedBehind DEF four
  <2>3. Replaced(three \o X \o stream, four \o stream, 2 + n, lines)
    BY <2>2, ReplacedBefore
  <2>4. Replaced(three \o X \o stream \o advice, four \o stream \o advice, 2 + n, lines)
    BY <1>2, <2>3, ReplacedBefore
  <2> QED BY <2>4 DEF PageOf, three, two, X, c, d, advice
<1>10. ASSUME Replaced(x, stream, n, lines)
       PROVE  Replaced(PageOf(front, command, directory, git, x), four \o stream \o advice, 4 + n, lines)
  <2>1. Replaced(four \o x, four \o stream, 4 + n, lines)
    BY <1>5, <1>10, ReplacedBehind
  <2>2. Replaced(four \o x \o advice, four \o stream \o advice, 4 + n, lines)
    BY <1>2, <2>1, ReplacedBefore
  <2> QED BY <2>2 DEF PageOf, four, three, two, c, d, g, advice
<1> QED BY <1>6, <1>7, <1>8, <1>9, <1>10

(* A record's page, for any text of it that is not empty.                  *)
LEMMA PageShown ==
    ASSUME NEW t \in Seq(Nat), t # <<>>
    PROVE  LET r == RecordWith(t)
           IN  /\ ReadMarkdown(WriteMarkdown(r)) =
                    PageOf(PageFront(RecordWith(Plain)), PageCommand(r.command),
                           PageDirectory(r.directory), PageGit(r.commit, r.branch),
                           PageStream(StreamWith(t)))
               /\ IsOwn(PageFront(RecordWith(Plain)))
<1> DEFINE r == RecordWith(t)
<1>1. Plain \in Seq(Nat) /\ <<>> \in Seq(Nat) /\ Plain # <<>>
  BY PlainText DEF Plain
<1>2. /\ r.git = TRUE /\ r.command \in Seq(Nat) /\ r.directory \in Seq(Nat) /\ r.directory # <<>>
      /\ r.version \in Seq(Nat) /\ r.commit \in Seq(Nat) /\ r.branch \in Seq(Nat)
      /\ r.stream = StreamWith(t) /\ r.legacy = (note = "legacy")
  BY <1>1 DEF RecordWith
<1>3. /\ StreamWith(t).head \in Seq(Nat) /\ StreamWith(t).tail \in Seq(Nat)
      /\ ~NothingReceived(StreamWith(t))
  BY <1>1 DEF StreamWith, NothingReceived
<1>4. RecordWith(Plain).legacy = (note = "legacy") /\ RecordWith(Plain).version \in Seq(Nat)
  BY <1>1 DEF RecordWith
<1> HIDE DEF r
<1>5. PageFront(r) = PageFront(RecordWith(Plain))
  BY <1>2, <1>4 DEF PageFront
<1>6. ReadMarkdown(WriteMarkdown(r)) =
        PageOf(PageFront(r), PageCommand(r.command), PageDirectory(r.directory),
               PageGit(r.commit, r.branch), PageStream(r.stream))
  BY <1>2, <1>3, MarkdownShown
<1>7. IsOwn(PageFront(RecordWith(Plain)))
  BY <1>4, FrontShown
<1> QED BY <1>2, <1>5, <1>6, <1>7 DEF r

(* What a text's lines take the place of in their own fence.               *)
LEMMA CommandReplaced ==
    ASSUME NEW t \in Seq(Nat), NEW u \in Seq(Nat)
    PROVE  /\ PageCommand(u) \in Seq(Items) /\ Foreign(PageCommand(u)) = 1
           /\ Replaced(PageCommand(t), PageCommand(u), 1, LinesOf(SafeCommandJSON(t)))
<1> DEFINE json(v) == SafeCommandJSON(v)
<1>1. \A v \in Seq(Nat) : LinesOf(json(v)) = <<json(v)>> /\ json(v) \in Seq(Nat)
  BY CommandShown
<1> HIDE DEF json
<1>2. /\ AllOthers(<<json(t)>>) \in Seq(Items)
      /\ AllOthers(<<json(u)>>) = <<Others(json(u))>> /\ <<Others(json(u))>> \in Seq(Items)
      /\ Others(json(u)) \in Items /\ ~Others(json(u)).own /\ Foreign(<<Others(json(u))>>) = 1
  BY <1>1, OneOther
<1>3. Replaced(AllOthers(<<json(t)>>), <<Others(json(u))>>, 1, <<json(t)>>)
  BY <1>2, ReplacedOne
<1>4. PageCommand(t) = AllOthers(<<json(t)>>) /\ PageCommand(u) = <<Others(json(u))>>
  BY <1>1, <1>2 DEF PageCommand, json
<1>5. LinesOf(SafeCommandJSON(t)) = <<json(t)>>
  BY <1>1 DEF json
<1> QED BY <1>2, <1>3, <1>4, <1>5

LEMMA DirectoryReplaced ==
    ASSUME NEW t \in Seq(Nat), t # <<>>, NEW u \in Seq(Nat), u # <<>>
    PROVE  /\ PageDirectory(u) \in Seq(Items) /\ Foreign(PageDirectory(u)) = 1
           /\ Replaced(PageDirectory(t), PageDirectory(u), 1, <<AbbreviateHome(EscapeInline(t))>>)
<1> DEFINE a == AbbreviateHome(EscapeInline(t))
           b == AbbreviateHome(EscapeInline(u))
<1>1. a \in Seq(Nat) /\ b \in Seq(Nat)
  BY DirectoryShown
<1>2. PageDirectory(t) = <<Others(a)>> /\ PageDirectory(u) = <<Others(b)>>
  BY DEF PageDirectory
<1> HIDE DEF a, b
<1>3. /\ AllOthers(<<a>>) = <<Others(a)>> /\ AllOthers(<<a>>) \in Seq(Items)
      /\ Others(b) \in Items /\ ~Others(b).own
      /\ <<Others(b)>> \in Seq(Items) /\ Foreign(<<Others(b)>>) = 1
  BY <1>1, OneOther
<1>4. Replaced(AllOthers(<<a>>), <<Others(b)>>, 1, <<a>>)
  BY <1>3, ReplacedOne
<1> QED BY <1>2, <1>3, <1>4 DEF a

LEMMA GitReplaced ==
    ASSUME NEW t \in Seq(Nat), t # <<>>, NEW u \in Seq(Nat)
    PROVE  /\ PageGit(u, u) \in Seq(Items) /\ Foreign(PageGit(u, u)) = 2
           /\ Replaced(PageGit(t, u), PageGit(u, u), 1, <<CommitLabel \o EscapeInline(t)>>)
           /\ Replaced(PageGit(u, t), PageGit(u, u), 2, <<BranchLabel \o EscapeInline(t)>>)
<1> DEFINE a == Others(CommitLine(u))
           b == Others(BranchLine(u))
           c == CommitLabel \o EscapeInline(t)
           d == BranchLabel \o EscapeInline(t)
           first == <<a>>
           second == <<b>>
<1>1. c = CommitLine(t) /\ d = BranchLine(t)
  BY DEF CommitLine, BranchLine, ValueOrUnknown
<1>2. /\ a \in Items /\ ~a.own /\ first \in Seq(Items) /\ Foreign(first) = 1
      /\ b \in Items /\ ~b.own /\ second \in Seq(Items) /\ Foreign(second) = 1
  BY ValueIs, OneOther
<1>3. c \in Seq(Nat) /\ d \in Seq(Nat)
  BY <1>1, ValueIs
<1>4. /\ PageGit(u, u) = first \o second /\ PageGit(t, u) = <<Others(c)>> \o second
      /\ PageGit(u, t) = first \o <<Others(d)>>
  BY <1>1 DEF PageGit
<1> HIDE DEF a, b, c, d
<1>5. /\ AllOthers(<<c>>) = <<Others(c)>> /\ AllOthers(<<c>>) \in Seq(Items)
      /\ AllOthers(<<d>>) = <<Others(d)>> /\ AllOthers(<<d>>) \in Seq(Items)
  BY <1>3, OneOther
<1>6. Replaced(<<Others(c)>>, first, 1, <<c>>) /\ Replaced(<<Others(d)>>, second, 1, <<d>>)
  BY <1>2, <1>5, ReplacedOne
<1> HIDE DEF first, second
<1>7. Replaced(<<Others(c)>> \o second, first \o second, 1, <<c>>)
  BY <1>2, <1>6, ReplacedBefore
<1>8. Replaced(first \o <<Others(d)>>, first \o second, 2, <<d>>)
  <2>1. Replaced(first \o <<Others(d)>>, first \o second, Foreign(first) + 1, <<d>>)
    BY <1>2, <1>6, ReplacedBehind
  <2>2. Foreign(first) + 1 = 2
    BY <1>2
  <2> QED BY <2>1, <2>2
<1>9. first \o second \in Seq(Items) /\ Foreign(first \o second) = 2
  <2>1. first \o second \in Seq(Items)
    BY <1>2, ConcatIs
  <2>2. Foreign(first \o second) = Foreign(first) + Foreign(second)
    BY <1>2, ForeignJoin
  <2> QED BY <1>2, <2>1, <2>2
<1> QED BY <1>4, <1>7, <1>8, <1>9 DEF c, d

LEMMA StreamReplaced ==
    ASSUME NEW t \in Seq(Nat), t # <<>>, place \in {"head", "tail"}
    PROVE  Replaced(PageStream(StreamWith(t)), PageStream(StreamWith(Plain)),
                    IF place = "head" THEN 1 ELSE 2, LinesOf(EscapeControls(t)))
<1> DEFINE s(v) == StreamWith(v)
           marks == PageStreamMarks(s(Plain))
           omission == PageOmission(s(Plain))
           lines == LinesOf(EscapeControls(t))
           plain == <<Others(Plain)>>
           shown == Fenced(Text(t))
           usual == Fenced(plain)
<1>1. Plain \in Seq(Nat) /\ Plain # <<>> /\ Text(Plain) = plain
  BY PlainText DEF Plain
<1>2. /\ Text(t) = AllOthers(lines) /\ Text(t) \in Seq(Items)
      /\ Others(Plain) \in Items /\ ~Others(Plain).own /\ plain \in Seq(Items) /\ Foreign(plain) = 1
  BY <1>1, TextShown, OneOther DEF Text
<1>3. /\ s(t).complete = s(Plain).complete /\ s(t).invalid = s(Plain).invalid
      /\ s(t).truncated = s(Plain).truncated
  BY DEF StreamWith
<1>4. PageStreamMarks(s(t)) = marks /\ PageOmission(s(t)) = omission
  BY <1>3 DEF PageStreamMarks, PageOmission
<1>5. IsOwn(marks) /\ IsOwn(omission) /\ omission \in Seq(Items) /\ Foreign(omission) = 0
  BY PageStreamMarksOwn DEF IsOwn
<1>6. PageText(t) = shown /\ PageText(Plain) = usual
  BY <1>1 DEF PageText, OnlyIf
<1>7. Replaced(shown, usual, 1, lines)
  <2> HIDE DEF lines
  <2>1. Replaced(AllOthers(lines), plain, 1, lines)
    BY <1>2, ReplacedOne
  <2>2. AllOthers(lines) \in Seq(Items) /\ 1 \in Nat
    BY <1>2
  <2> QED BY <1>2, <2>1, <2>2, FencedIs
<1>8. usual \in Seq(Items) /\ Foreign(usual) = 1
  BY <1>2, FencedIs
<1>9. ASSUME NEW v PROVE PageStream(s(v)) = PageStreamMarks(s(v)) \o
                            (PageText(s(v).head) \o PageOmission(s(v)) \o PageText(s(v).tail))
  BY DEF PageStream
<1>10. CASE place = "head"
  <2> DEFINE rest == PageText(s(Plain).tail)
  <2>1. s(t).head = t /\ s(Plain).head = Plain /\ s(t).tail = s(Plain).tail /\ s(Plain).tail \in Seq(Nat)
    BY <1>1, <1>10 DEF StreamWith
  <2>2. rest \in Seq(Items)
    BY <2>1, PageTextShown DEF Blocks, Passes
  <2> HIDE DEF s, marks, omission, lines, shown, usual
  <2>3. /\ PageStream(s(t)) = marks \o (shown \o omission \o rest)
        /\ PageStream(s(Plain)) = marks \o (usual \o omission \o rest)
    BY <1>4, <1>6, <1>9, <2>1 DEF marks, omission
  <2> HIDE DEF rest
  <2>4. Replaced(shown \o omission, usual \o omission, 1, lines)
    BY <1>5, <1>7, ReplacedBefore
  <2>5. Replaced(shown \o omission \o rest, usual \o omission \o rest, 1, lines)
    BY <2>2, <2>4, ReplacedBefore
  <2>6. Replaced(PageStream(s(t)), PageStream(s(Plain)), 1, lines)
    BY <1>5, <2>3, <2>5, ReplacedAfter
  <2> QED BY <1>10, <2>6 DEF s, lines
<1>11. CASE place = "tail"
  <2> DEFINE front == usual \o omission
  <2>1. s(t).head = Plain /\ s(Plain).head = Plain /\ s(t).tail = t /\ s(Plain).tail = Plain
    BY <1>11 DEF StreamWith
  <2> HIDE DEF s, marks, omission, lines, shown, usual
  <2>2. PageStream(s(t)) = marks \o (front \o shown) /\ PageStream(s(Plain)) = marks \o (front \o usual)
    BY <1>4, <1>6, <1>9, <2>1 DEF marks, omission
  <2>3. front \in Seq(Items) /\ Foreign(front) = 1
    <3>1. front \in Seq(Items)
      BY <1>5, <1>8, ConcatIs
    <3>2. Foreign(front) = Foreign(usual) + Foreign(omission)
      BY <1>5, <1>8, ForeignJoin
    <3> QED BY <1>5, <1>8, <3>1, <3>2
  <2> HIDE DEF front
  <2>4. Replaced(front \o shown, front \o usual, 2, lines)
    <3>1. Replaced(front \o shown, front \o usual, Foreign(front) + 1, lines)
      BY <1>7, <2>3, ReplacedBehind
    <3>2. Foreign(front) + 1 = 2
      BY <2>3
    <3> QED BY <3>1, <3>2
  <2>5. Replaced(PageStream(s(t)), PageStream(s(Plain)), 2, lines)
    BY <1>5, <2>2, <2>4, ReplacedAfter
  <2> QED BY <1>11, <2>5 DEF s, lines
<1> QED BY <1>10, <1>11

(* No text of a record, wherever it stands and whatever backticks, breaks  *)
(* and phrases it holds, ends its fence, opens another one or shows up     *)
(* outside of it: the page is the one of an ordinary text with that text's *)
(* lines in their place (writeMarkdownFence, fenceLength, writeMarkdown).  *)
THEOREM MarkdownBlocksStayOurs == Spec => []MarkdownBlocksAreOurs
<1>1. ASSUME Written, text # <<>>
      PROVE  LET Shows(t) == ReadMarkdown(WriteMarkdown(RecordWith(t)))
                 inline == EscapeInline(text)
                 lines == LinesOf(EscapeControls(text))
             IN  /\ place = "command" =>
                        Shows(text) = Instead(Shows(Plain), 1, LinesOf(SafeCommandJSON(text)))
                 /\ place = "directory" =>
                        Shows(text) = Instead(Shows(Plain), 2, <<AbbreviateHome(inline)>>)
                 /\ place = "commit" =>
                        Shows(text) = Instead(Shows(Plain), 3, <<CommitLabel \o inline>>)
                 /\ place = "branch" =>
                        Shows(text) = Instead(Shows(Plain), 4, <<BranchLabel \o inline>>)
                 /\ place = "head" => Shows(text) = Instead(Shows(Plain), 5, lines)
                 /\ place = "tail" => Shows(text) = Instead(Shows(Plain), 6, lines)
                 /\ place \notin {"command", "directory", "commit", "branch", "head", "tail"} =>
                        Shows(text) = Shows(Plain)
  <2> DEFINE Shows(t) == ReadMarkdown(WriteMarkdown(RecordWith(t)))
             inline == EscapeInline(text)
             lines == LinesOf(EscapeControls(text))
             json == LinesOf(SafeCommandJSON(text))
             front == PageFront(RecordWith(Plain))
             command == PageCommand(Plain)
             directory == PageDirectory(Plain)
             git == PageGit(Plain, Plain)
             stream == PageStream(StreamWith(Plain))
             Page5(c, d, g, s) == PageOf(front, c, d, g, s)
  <2>1. text \in Seq(Nat) /\ Plain \in Seq(Nat) /\ Plain # <<>>
    <3>1. Runes \subseteq Nat /\ text \in Seq(Runes)
      BY <1>1, InputsAssumption DEF Written
    <3>2. \A i \in 1 .. Len(text) : text[i] \in Nat
      BY <3>1, ElementsOf
    <3>3. text \in Seq(Nat)
      BY <3>1, <3>2, Retyped
    <3> QED BY <3>3, PlainText DEF Plain
  <2>2. /\ IsOwn(front) /\ command \in Seq(Items) /\ directory \in Seq(Items) /\ git \in Seq(Items)
        /\ Foreign(command) = 1 /\ Foreign(directory) = 1 /\ Foreign(git) = 2
    BY <2>1, PageShown, CommandReplaced, DirectoryReplaced, GitReplaced
  <2>3. stream \in Seq(Items)
    <3>1. /\ StreamWith(Plain).head \in Seq(Nat) /\ StreamWith(Plain).tail \in Seq(Nat)
          /\ ~NothingReceived(StreamWith(Plain))
      BY <2>1 DEF StreamWith, NothingReceived
    <3> QED BY <3>1, PageStreamShown DEF Blocks, Passes
  <2>4. /\ RecordWith(Plain).command = Plain /\ RecordWith(Plain).directory = Plain
        /\ RecordWith(Plain).commit = Plain /\ RecordWith(Plain).branch = Plain
    BY DEF RecordWith
  <2>5. Shows(Plain) = Page5(command, directory, git, stream)
    BY <2>1, <2>4, PageShown
  <2>6. Shows(text) = Page5(PageCommand(RecordWith(text).command),
                            PageDirectory(RecordWith(text).directory),
                            PageGit(RecordWith(text).commit, RecordWith(text).branch),
                            PageStream(StreamWith(text)))
    BY <1>1, <2>1, PageShown
  <2>7. /\ RecordWith(text).command = IF place = "command" THEN text ELSE Plain
        /\ RecordWith(text).directory = IF place = "directory" THEN text ELSE Plain
        /\ RecordWith(text).commit = IF place = "commit" THEN text ELSE Plain
        /\ RecordWith(text).branch = IF place = "branch" THEN text ELSE Plain
    BY DEF RecordWith
  <2>8. place \notin {"head", "tail"} => StreamWith(text) = StreamWith(Plain)
    BY DEF StreamWith
  <2> HIDE DEF Shows
  <2>9. ASSUME place = "command" PROVE Shows(text) = Instead(Shows(Plain), 1, json)
    <3>1. Shows(text) = Page5(PageCommand(text), directory, git, stream)
      BY <2>6, <2>7, <2>8, <2>9
    <3>2. Replaced(PageCommand(text), command, 1, json)
      BY <2>1, CommandReplaced
    <3> HIDE DEF front, command, directory, git, stream, json
    <3>3. Replaced(Shows(text), Shows(Plain), 1, json)
      BY <2>2, <2>3, <2>5, <3>1, <3>2, PageReplaced
    <3> QED BY <3>3, ReplacedIs
  <2>10. ASSUME place = "directory"
         PROVE  Shows(text) = Instead(Shows(Plain), 2, <<AbbreviateHome(inline)>>)
    <3>1. Shows(text) = Page5(command, PageDirectory(text), git, stream)
      BY <2>6, <2>7, <2>8, <2>10
    <3>2. Replaced(PageDirectory(text), directory, 1, <<AbbreviateHome(inline)>>)
      BY <1>1, <2>1, DirectoryReplaced
    <3> HIDE DEF front, command, directory, git, stream, inline
    <3>3. Replaced(Shows(text), Shows(Plain), 1 + 1, <<AbbreviateHome(inline)>>)
      BY <2>2, <2>3, <2>5, <3>1, <3>2, PageReplaced
    <3> QED BY <3>3, ReplacedIs
  <2>11. ASSUME place = "commit"
         PROVE  Shows(text) = Instead(Shows(Plain), 3, <<CommitLabel \o inline>>)
    <3>1. Shows(text) = Page5(command, directory, PageGit(text, Plain), stream)
      BY <2>6, <2>7, <2>8, <2>11
    <3>2. Replaced(PageGit(text, Plain), git, 1, <<CommitLabel \o inline>>)
      BY <1>1, <2>1, GitReplaced
    <3> HIDE DEF front, command, directory, git, stream, inline
    <3>3. Replaced(Shows(text), Shows(Plain), 2 + 1, <<CommitLabel \o inline>>)
      BY <2>2, <2>3, <2>5, <3>1, <3>2, PageReplaced
    <3> QED BY <3>3, ReplacedIs
  <2>12. ASSUME place = "branch"
         PROVE  Shows(text) = Instead(Shows(Plain), 4, <<BranchLabel \o inline>>)
    <3>1. Shows(text) = Page5(command, directory, PageGit(Plain, text), stream)
      BY <2>6, <2>7, <2>8, <2>12
    <3>2. Replaced(PageGit(Plain, text), git, 2, <<BranchLabel \o inline>>)
      BY <1>1, <2>1, GitReplaced
    <3> HIDE DEF front, command, directory, git, stream, inline
    <3>3. Replaced(Shows(text), Shows(Plain), 2 + 2, <<BranchLabel \o inline>>)
      BY <2>2, <2>3, <2>5, <3>1, <3>2, PageReplaced
    <3> QED BY <3>3, ReplacedIs
  <2>13. ASSUME place \in {"head", "tail"}
         PROVE  Shows(text) = Instead(Shows(Plain), IF place = "head" THEN 5 ELSE 6, lines)
    <3> DEFINE n == IF place = "head" THEN 1 ELSE 2
               s == PageStream(StreamWith(text))
    <3>1. Shows(text) = Page5(command, directory, git, s)
      BY <2>6, <2>7, <2>13
    <3>2. Replaced(s, stream, n, lines)
      BY <1>1, <2>1, <2>13, StreamReplaced
    <3>3. 4 + n = IF place = "head" THEN 5 ELSE 6
      OBVIOUS
    <3> HIDE DEF front, command, directory, git, stream, lines, n, s
    <3>4. Replaced(Shows(text), Shows(Plain), 4 + n, lines)
      BY <2>2, <2>3, <2>5, <3>1, <3>2, PageReplaced
    <3>5. Shows(text) = Instead(Shows(Plain), 4 + n, lines)
      BY <3>4, ReplacedIs
    <3> QED BY <3>3, <3>5
  <2>14. ASSUME place \notin {"command", "directory", "commit", "branch", "head", "tail"}
         PROVE  Shows(text) = Shows(Plain)
    BY <2>5, <2>6, <2>7, <2>8, <2>14
  <2>15. place = "head" => Shows(text) = Instead(Shows(Plain), 5, lines)
    BY <2>13
  <2>16. place = "tail" => Shows(text) = Instead(Shows(Plain), 6, lines)
    BY <2>13
  <2> HIDE DEF inline, lines, json
  <2> QED BY <2>9, <2>10, <2>11, <2>12, <2>14, <2>15, <2>16 DEF Shows, inline, lines, json
<1>2. ASSUME Written PROVE MarkdownBlocksAreOurs
  <2> DEFINE Shows(t) == ReadMarkdown(WriteMarkdown(RecordWith(t)))
             command == Instead(Shows(Plain), 1, LinesOf(SafeCommandJSON(text)))
             directory == Instead(Shows(Plain), 2, <<AbbreviateHome(EscapeInline(text))>>)
             commit == Instead(Shows(Plain), 3, <<CommitLabel \o EscapeInline(text)>>)
             branch == Instead(Shows(Plain), 4, <<BranchLabel \o EscapeInline(text)>>)
             head == Instead(Shows(Plain), 5, LinesOf(EscapeControls(text)))
             tail == Instead(Shows(Plain), 6, LinesOf(EscapeControls(text)))
  <2>1. ASSUME text # <<>>
        PROVE  /\ place = "command" => Shows(text) = command
               /\ place = "directory" => Shows(text) = directory
               /\ place = "commit" => Shows(text) = commit
               /\ place = "branch" => Shows(text) = branch
               /\ place = "head" => Shows(text) = head
               /\ place = "tail" => Shows(text) = tail
               /\ place \notin {"command", "directory", "commit", "branch", "head", "tail"} =>
                      Shows(text) = Shows(Plain)
    BY Zenon, <1>1, <1>2, <2>1
  <2>2. MarkdownBlocksAreOurs <=>
          (text # <<>> =>
              Shows(text) = CASE place = "command" -> command
                              [] place = "directory" -> directory
                              [] place = "commit" -> commit
                              [] place = "branch" -> branch
                              [] place = "head" -> head
                              [] place = "tail" -> tail
                              [] OTHER -> Shows(Plain))
    BY DEF MarkdownBlocksAreOurs
  <2> HIDE DEF Shows, command, directory, commit, branch, head, tail
  <2> QED BY <2>1, <2>2
<1> QED BY <1>2, WrittenInvariant, PTL
=============================================================================
