---------------------------- MODULE AlgorithmsProofs ----------------------------
(***************************************************************************)
(* Proofs about Algorithms: what the loops of the pure algorithms compute, *)
(* for every graph, history, budget and script, and from it that the       *)
(* three invariants of the specification hold.                             *)
(***************************************************************************)
EXTENDS Algorithms, FiniteSetTheorems, SequenceTheorems, WellFoundedInduction, TLAPS

--------------------------------------------------------------------------------
(* Numbers and loops.                                                          *)

\* Of any numbers there is a least one.
LEMMA LeastOf ==
  ASSUME NEW S \in SUBSET Nat, S # {}
  PROVE  \E m \in S : \A k \in S : m <= k
<1>1. \E m \in S : \A k \in S : <<k, m>> \notin OpToRel(<, Nat)
  BY NatLessThanWellFounded, WFMin, Zenon
<1>2. PICK m \in S : \A k \in S : <<k, m>> \notin OpToRel(<, Nat)
  BY <1>1
<1>3. ASSUME NEW k \in S
      PROVE  m <= k
  <2>1. ~(k < m)
    BY <1>2, Zenon DEF OpToRel
  <2> QED  BY <2>1
<1> QED  BY <1>3

\* What holds before a loop, and after a turn if it held before it, holds after
\* every turn.
LEMMA EveryTurn ==
  ASSUME NEW n \in Nat, NEW Good, 0 \in Good,
         \A i \in 1..n : i - 1 \in Good => i \in Good
  PROVE  \A i \in 0..n : i \in Good
<1> DEFINE bad == {i \in 0..n : i \notin Good}
<1>1. SUFFICES ASSUME bad # {} PROVE FALSE
  OBVIOUS
<1>2. PICK m \in bad : \A k \in bad : m <= k
  <2>1. bad \in SUBSET Nat
    OBVIOUS
  <2> HIDE DEF bad
  <2> QED  BY <1>1, <2>1, LeastOf
<1>3. m \in 1..n /\ m - 1 \in 0..n /\ m - 1 < m
  BY <1>2
<1>4. m - 1 \notin bad
  <2>1. m \in Nat
    BY <1>3
  <2> HIDE DEF bad
  <2> QED  BY <1>2, <1>3, <2>1
<1> QED  BY <1>2, <1>3, <1>4

\* f is what a loop of n turns runs through.
TakesTurns(n, start, turn, f) == f[0] = start /\ \A i \in 1..n : f[i] = turn[i][f[i - 1]]

\* A loop that makes a state of S from a state of S runs through states of S.
LEMMA LoopExists ==
  ASSUME NEW n \in Nat, NEW S, NEW start \in S, NEW turn \in [1..n -> [S -> S]]
  PROVE  \E f \in [0..n -> S] : TakesTurns(n, start, turn, f)
<1> DEFINE Good == {m \in 0..n : \E f \in [0..m -> S] : TakesTurns(m, start, turn, f)}
<1>1. 0 \in Good
  <2> DEFINE f == [i \in 0..0 |-> start]
  <2>1. f \in [0..0 -> S] /\ TakesTurns(0, start, turn, f)
    BY DEF TakesTurns
  <2> HIDE DEF f
  <2> QED  BY <2>1
<1>2. ASSUME NEW m \in 1..n, m - 1 \in Good
      PROVE  m \in Good
  <2>1. PICK f \in [0..(m - 1) -> S] : TakesTurns(m - 1, start, turn, f)
    BY <1>2
  <2> DEFINE g == [i \in 0..m |-> IF i = m THEN turn[m][f[m - 1]] ELSE f[i]]
  <2>2. turn[m][f[m - 1]] \in S
    OBVIOUS
  <2>3. g \in [0..m -> S]
    BY <2>2
  <2>4. g[0] = start
    BY <2>1 DEF TakesTurns
  <2>5. ASSUME NEW i \in 1..m
        PROVE  g[i] = turn[i][g[i - 1]]
    <3>1. i - 1 \in 0..m /\ i - 1 # m /\ i \in 0..m
      OBVIOUS
    <3>2. g[i - 1] = f[i - 1]
      BY <3>1
    <3>3. CASE i = m
      BY <3>1, <3>2, <3>3
    <3>4. CASE i # m
      <4>1. i \in 1..(m - 1)
        BY <3>4
      <4> QED  BY <2>1, <3>1, <3>2, <3>4, <4>1 DEF TakesTurns
    <3> QED  BY <3>3, <3>4
  <2> HIDE DEF g
  <2>6. TakesTurns(m, start, turn, g)
    BY <2>4, <2>5 DEF TakesTurns
  <2> QED  BY <2>3, <2>6
<1> HIDE DEF Good
<1>3. \A m \in 1..n : m - 1 \in Good => m \in Good
  BY <1>2
<1>4. \A m \in 0..n : m \in Good
  BY <1>1, <1>3, EveryTurn
<1>5. n \in Good
  BY <1>4
<1> QED  BY <1>5 DEF Good

\* The sum of a list of numbers, from running totals.
LEMMA TotalIs ==
  ASSUME NEW n \in Nat, NEW a, \A i \in 1..n : a[i] \in Int
  PROVE  \E t \in [0..n -> Int] : /\ t[0] = 0 /\ \A i \in 1..n : t[i] = t[i - 1] + a[i]
                                  /\ Total(a, n) = t[n]
<1> DEFINE turn == [i \in 1..n |-> [s \in Int |-> s + a[i]]]
           Is(g) == g = [i \in 0..n |-> IF i = 0 THEN 0 ELSE g[i - 1] + a[i]]
           total == CHOOSE g : Is(g)
<1>1. turn \in [1..n -> [Int -> Int]]
  OBVIOUS
<1>2. PICK t \in [0..n -> Int] : TakesTurns(n, 0, turn, t)
  <2>1. 0 \in Int
    OBVIOUS
  <2> HIDE DEF turn
  <2> QED  BY <1>1, <2>1, LoopExists
<1>3. t[0] = 0 /\ \A i \in 1..n : t[i] = t[i - 1] + a[i]
  <2>1. ASSUME NEW i \in 1..n
        PROVE  t[i] = t[i - 1] + a[i]
    <3>1. i - 1 \in 0..n /\ t[i - 1] \in Int
      OBVIOUS
    <3>2. turn[i][t[i - 1]] = t[i - 1] + a[i]
      BY <3>1
    <3> HIDE DEF turn
    <3> QED  BY <1>2, <3>2 DEF TakesTurns
  <2> QED  BY <1>2, <2>1 DEF TakesTurns
<1>4. Is(t)
  <2>1. t = [i \in 0..n |-> t[i]]
    OBVIOUS
  <2>2. \A i \in 0..n : t[i] = IF i = 0 THEN 0 ELSE t[i - 1] + a[i]
    BY <1>3
  <2> QED  BY <2>1, <2>2
<1>5. Is(total)
  BY <1>4
<1>6. Total(a, n) = total[n]
  BY DEF Total
<1> HIDE DEF total
<1>7. total[0] = 0 /\ \A i \in 1..n : total[i] = total[i - 1] + a[i]
  BY <1>5
<1>8. total = [i \in 0..n |-> total[i]]
  BY <1>5
<1> HIDE DEF Is
<1> DEFINE Good == {i \in 0..n : total[i] = t[i]}
<1>9. \A i \in 0..n : i \in Good
  <2>1. 0 \in Good
    BY <1>3, <1>7
  <2>2. \A i \in 1..n : i - 1 \in Good => i \in Good
    BY <1>3, <1>7
  <2> HIDE DEF Good
  <2> QED  BY <2>1, <2>2, EveryTurn
<1>10. total[n] = t[n]
  BY <1>9
<1> QED  BY <1>3, <1>6, <1>10

\* The sum of no numbers, and of one more.
LEMMA TotalMore ==
  ASSUME NEW n \in Nat, NEW a, \A i \in 1..n : a[i] \in Int
  PROVE  /\ Total(a, 0) = 0 /\ Total(a, n) \in Int
         /\ n > 0 => Total(a, n) = Total(a, n - 1) + a[n]
<1>1. PICK t \in [0..n -> Int] : /\ t[0] = 0 /\ \A i \in 1..n : t[i] = t[i - 1] + a[i]
                                 /\ Total(a, n) = t[n]
  BY TotalIs
<1>2. Total(a, 0) = 0
  <2>1. 0 \in Nat /\ \A i \in 1..0 : a[i] \in Int
    OBVIOUS
  <2>2. PICK u \in [0..0 -> Int] : u[0] = 0 /\ Total(a, 0) = u[0]
    BY <2>1, TotalIs
  <2> QED  BY <2>2
<1>3. ASSUME n > 0
      PROVE  Total(a, n) = Total(a, n - 1) + a[n]
  <2>1. n - 1 \in Nat /\ \A i \in 1..(n - 1) : a[i] \in Int /\ i \in 1..n
    BY <1>3
  <2>2. PICK u \in [0..(n - 1) -> Int] :
            /\ u[0] = 0 /\ \A i \in 1..(n - 1) : u[i] = u[i - 1] + a[i]
            /\ Total(a, n - 1) = u[n - 1]
    BY <2>1, TotalIs
  <2> DEFINE Good == {i \in 0..(n - 1) : u[i] = t[i]}
  <2>3. 0 \in Good
    BY <1>1, <2>1, <2>2
  <2>4. \A i \in 1..(n - 1) : i - 1 \in Good => i \in Good
    BY <1>1, <2>1, <2>2
  <2>5. \A i \in 0..(n - 1) : i \in Good
    <3> HIDE DEF Good
    <3> QED  BY <2>1, <2>3, <2>4, EveryTurn
  <2>6. u[n - 1] = t[n - 1]
    BY <2>1, <2>5
  <2> QED  BY <1>1, <1>3, <2>2, <2>6
<1>4. Total(a, n) \in Int
  BY <1>1
<1> QED  BY <1>2, <1>3, <1>4

\* The sum of a list is that of its beginning and that of its end.
LEMMA TotalParts ==
  ASSUME NEW k \in Nat, NEW n \in Nat, NEW a, \A i \in 1..(k + n) : a[i] \in Int,
         NEW b, \A i \in 1..n : b[i] = a[k + i]
  PROVE  Total(a, k + n) = Total(a, k) + Total(b, n)
<1> DEFINE Good == {m \in 0..n : Total(a, k + m) = Total(a, k) + Total(b, m)}
<1>1. Total(a, k) \in Int
  <2>1. \A i \in 1..k : a[i] \in Int
    OBVIOUS
  <2> QED  BY <2>1, TotalMore
<1>2. 0 \in Good
  <2>1. Total(b, 0) = 0
    <3>1. 0 \in Nat /\ \A i \in 1..0 : b[i] \in Int
      OBVIOUS
    <3> QED  BY <3>1, TotalMore
  <2>2. k + 0 = k
    OBVIOUS
  <2> QED  BY <1>1, <2>1, <2>2
<1>3. ASSUME NEW m \in 1..n, m - 1 \in Good
      PROVE  m \in Good
  <2>1. m \in Nat /\ k + m \in Nat /\ k + m > 0 /\ m > 0 /\ (k + m) - 1 = k + (m - 1)
    OBVIOUS
  <2>2. \A i \in 1..(k + m) : a[i] \in Int
    OBVIOUS
  <2>3. Total(a, k + m) = Total(a, k + (m - 1)) + a[k + m]
    <3>1. Total(a, k + m) = Total(a, (k + m) - 1) + a[k + m]
      BY <2>1, <2>2, TotalMore
    <3> QED  BY <2>1, <3>1
  <2>4. \A i \in 1..m : b[i] \in Int /\ b[i] = a[k + i]
    <3> SUFFICES ASSUME NEW i \in 1..m PROVE b[i] \in Int /\ b[i] = a[k + i]
      OBVIOUS
    <3>1. i \in 1..n /\ k + i \in 1..(k + n)
      OBVIOUS
    <3> QED  BY <3>1
  <2>5. Total(b, m) = Total(b, m - 1) + b[m] /\ Total(b, m - 1) \in Int
    <3>1. \A i \in 1..(m - 1) : b[i] \in Int
      BY <2>4
    <3>2. m - 1 \in Nat
      OBVIOUS
    <3>3. Total(b, m) = Total(b, m - 1) + b[m]
      BY <2>1, <2>4, TotalMore
    <3>4. Total(b, m - 1) \in Int
      BY <3>1, <3>2, TotalMore
    <3> QED  BY <3>3, <3>4
  <2>6. Total(a, k + (m - 1)) = Total(a, k) + Total(b, m - 1)
    BY <1>3
  <2>7. a[k + m] = b[m] /\ b[m] \in Int
    BY <2>1, <2>4
  <2>8. Total(a, k + m) = Total(a, k) + Total(b, m)
    <3> DEFINE x == Total(a, k)  y == Total(b, m - 1)  z == b[m]
    <3>1. x \in Int /\ y \in Int /\ z \in Int
      BY <1>1, <2>5, <2>7
    <3>2. Total(a, k + m) = (x + y) + z /\ Total(b, m) = y + z
      BY <2>3, <2>5, <2>6, <2>7
    <3> HIDE DEF x, y, z
    <3>3. (x + y) + z = x + (y + z)
      BY <3>1
    <3> QED  BY <3>2, <3>3 DEF x
  <2> QED  BY <2>8
<1>4. \A m \in 0..n : m \in Good
  <2>1. \A m \in 1..n : m - 1 \in Good => m \in Good
    BY <1>3
  <2> HIDE DEF Good
  <2> QED  BY <1>2, <2>1, EveryTurn
<1> QED  BY <1>4

\* Lists that are alike have the same sum.
LEMMA TotalSame ==
  ASSUME NEW n \in Nat, NEW a, \A i \in 1..n : a[i] \in Int, NEW b, \A i \in 1..n : b[i] = a[i]
  PROVE  Total(a, n) = Total(b, n)
<1>1. 0 \in Nat /\ 0 + n = n /\ \A i \in 1..n : b[i] = a[0 + i]
  OBVIOUS
<1>2. Total(a, 0 + n) = Total(a, 0) + Total(b, n)
  BY <1>1, TotalParts
<1>3. Total(a, 0) = 0 /\ Total(b, n) \in Int
  BY TotalMore
<1> QED  BY <1>1, <1>2, <1>3

\* The sum of natural numbers is one.
LEMMA TotalNat ==
  ASSUME NEW n \in Nat, NEW a, \A i \in 1..n : a[i] \in Nat
  PROVE  Total(a, n) \in Nat
<1> DEFINE Good == {m \in 0..n : Total(a, m) \in Nat}
<1>1. 0 \in Good
  BY TotalMore
<1>2. ASSUME NEW m \in 1..n, m - 1 \in Good
      PROVE  m \in Good
  <2>1. m \in Nat /\ m > 0 /\ (\A i \in 1..m : a[i] \in Int) /\ a[m] \in Nat
    OBVIOUS
  <2>2. Total(a, m) = Total(a, m - 1) + a[m]
    BY <2>1, TotalMore
  <2> QED  BY <1>2, <2>1, <2>2
<1>3. \A m \in 1..n : m - 1 \in Good => m \in Good
  BY <1>2
<1>4. \A m \in 0..n : m \in Good
  <2> HIDE DEF Good
  <2> QED  BY <1>1, <1>3, EveryTurn
<1> QED  BY <1>4

\* Changing one number changes the sum by as much.
LEMMA TotalChange ==
  ASSUME NEW n \in Nat, NEW j \in 1..n, NEW a, \A i \in 1..n : a[i] \in Int,
         NEW b, \A i \in 1..n : b[i] \in Int, \A i \in 1..n : i # j => b[i] = a[i]
  PROVE  Total(b, n) = Total(a, n) + (b[j] - a[j])
<1> DEFINE Good == {m \in 0..n : Total(b, m) = Total(a, m) + (IF m < j THEN 0 ELSE b[j] - a[j])}
<1>1. 0 \in Good
  BY TotalMore
<1>2. ASSUME NEW m \in 1..n, m - 1 \in Good
      PROVE  m \in Good
  <2>1. m \in Nat /\ m > 0 /\ m - 1 \in Nat /\ (\A i \in 1..m : a[i] \in Int /\ b[i] \in Int)
    OBVIOUS
  <2>2. Total(a, m) = Total(a, m - 1) + a[m] /\ Total(b, m) = Total(b, m - 1) + b[m]
    BY <2>1, TotalMore
  <2>3. Total(a, m - 1) \in Int /\ Total(b, m - 1) \in Int
    <3>1. \A i \in 1..(m - 1) : a[i] \in Int /\ b[i] \in Int
      OBVIOUS
    <3> QED  BY <2>1, <3>1, TotalMore
  <2>4. Total(b, m - 1) = Total(a, m - 1) + (IF m - 1 < j THEN 0 ELSE b[j] - a[j])
    BY <1>2
  <2>5. m # j => b[m] = a[m]
    OBVIOUS
  <2>6. a[m] \in Int /\ b[m] \in Int /\ a[j] \in Int /\ b[j] \in Int
    OBVIOUS
  <2>7. Total(b, m) = Total(a, m) + (IF m < j THEN 0 ELSE b[j] - a[j])
    <3> DEFINE A == Total(a, m - 1)  B == Total(b, m - 1)  am == a[m]  bm == b[m]
    <3>1. CASE m = j
      <4>1. B = A /\ A \in Int /\ am \in Int /\ bm \in Int
        BY <2>3, <2>4, <2>6, <3>1
      <4>2. Total(a, m) = A + am /\ Total(b, m) = B + bm
        BY <2>2
      <4> HIDE DEF A, B, am, bm
      <4>3. Total(b, m) = Total(a, m) + (bm - am)
        BY <4>1, <4>2
      <4> QED  BY <3>1, <4>3 DEF am, bm
    <3>2. CASE m # j
      <4> DEFINE d == IF m < j THEN 0 ELSE b[j] - a[j]
      <4>1. d \in Int /\ (m - 1 < j <=> m < j)
        BY <2>6, <3>2
      <4>2. B = A + d /\ am = bm /\ A \in Int /\ am \in Int
        BY <2>3, <2>4, <2>5, <2>6, <3>2, <4>1
      <4>3. Total(a, m) = A + am /\ Total(b, m) = B + bm
        BY <2>2
      <4> HIDE DEF A, B, am, bm, d
      <4>4. Total(b, m) = Total(a, m) + d
        BY <4>1, <4>2, <4>3
      <4> QED  BY <4>4 DEF d
    <3> QED  BY <3>1, <3>2
  <2> QED  BY <2>7
<1>3. \A m \in 1..n : m - 1 \in Good => m \in Good
  BY <1>2
<1>4. \A m \in 0..n : m \in Good
  <2> HIDE DEF Good
  <2> QED  BY <1>1, <1>3, EveryTurn
<1> QED  BY <1>4

\* A part of a sequence.
LEMMA PartIs ==
  ASSUME NEW S, NEW s \in Seq(S), NEW a \in 1..Len(s) + 1, NEW b \in a - 1..Len(s)
  PROVE  /\ SubSeq(s, a, b) \in Seq(S) /\ Len(SubSeq(s, a, b)) = b - a + 1
         /\ \A i \in 1..(b - a + 1) : SubSeq(s, a, b)[i] = s[a + i - 1]
<1> DEFINE part == SubSeq(s, a, b)
<1>1. Len(s) \in Nat /\ \A i \in 1..Len(s) : s[i] \in S
  BY ElementOfSeq, LenProperties
<1>2. a \in Int /\ b \in Int /\ \A i \in a..b : s[i] \in S
  BY <1>1
<1>3. /\ part \in Seq(S)
      /\ Len(part) = IF a <= b THEN b - a + 1 ELSE 0
      /\ \A i \in 1..b - a + 1 : part[i] = s[a + i - 1]
  BY <1>2, SubSeqProperties
<1> HIDE DEF part
<1>4. Len(part) = b - a + 1
  BY <1>1, <1>2, <1>3
<1> QED  BY <1>3, <1>4 DEF part

\* The list of no indices, and of one more.
LEMMA AscendingMore ==
  ASSUME NEW n \in Nat, NEW S
  PROVE  /\ Ascending(S, 0) = <<>> /\ Ascending(S, n) \in Seq(Nat)
         /\ n > 0 => Ascending(S, n) = IF n \in S THEN Append(Ascending(S, n - 1), n)
                                       ELSE Ascending(S, n - 1)
<1> DEFINE Step(i, s) == IF i \in S THEN Append(s, i) ELSE s
           Is(m, g) == g = [i \in 0..m |-> IF i = 0 THEN <<>> ELSE Step(i, g[i - 1])]
           kept(m) == CHOOSE g : Is(m, g)
<1>1. ASSUME NEW m \in Nat
      PROVE  /\ Ascending(S, m) = kept(m)[m]
             /\ kept(m) \in [0..m -> Seq(Nat)] /\ kept(m)[0] = <<>>
             /\ \A i \in 1..m : kept(m)[i] = Step(i, kept(m)[i - 1])
  <2> DEFINE turn == [i \in 1..m |-> [s \in Seq(Nat) |-> Step(i, s)]]
  <2>1. turn \in [1..m -> [Seq(Nat) -> Seq(Nat)]]
    <3>1. \A i \in 1..m, s \in Seq(Nat) : Step(i, s) \in Seq(Nat)
      <4> SUFFICES ASSUME NEW i \in 1..m, NEW s \in Seq(Nat) PROVE Step(i, s) \in Seq(Nat)
        OBVIOUS
      <4>1. i \in Nat
        OBVIOUS
      <4>2. Append(s, i) \in Seq(Nat)
        BY <4>1, AppendProperties
      <4> QED  BY <4>2
    <3> HIDE DEF Step
    <3> QED  BY <3>1
  <2>2. PICK t \in [0..m -> Seq(Nat)] : TakesTurns(m, <<>>, turn, t)
    <3>1. <<>> \in Seq(Nat)
      OBVIOUS
    <3> HIDE DEF turn
    <3> QED  BY <2>1, <3>1, LoopExists
  <2> HIDE DEF Step
  <2>3. t[0] = <<>> /\ \A i \in 1..m : t[i] = Step(i, t[i - 1])
    <3>1. ASSUME NEW i \in 1..m
          PROVE  t[i] = Step(i, t[i - 1])
      <4>1. i - 1 \in 0..m /\ t[i - 1] \in Seq(Nat)
        OBVIOUS
      <4>2. turn[i][t[i - 1]] = Step(i, t[i - 1])
        BY <4>1
      <4> HIDE DEF turn
      <4> QED  BY <2>2, <4>2 DEF TakesTurns
    <3> QED  BY <2>2, <3>1 DEF TakesTurns
  <2>4. Is(m, t)
    <3>1. t = [i \in 0..m |-> t[i]]
      OBVIOUS
    <3>2. \A i \in 0..m : t[i] = IF i = 0 THEN <<>> ELSE Step(i, t[i - 1])
      BY <2>3
    <3> QED  BY <3>1, <3>2
  <2>5. Is(m, kept(m))
    BY <2>4
  <2>6. Ascending(S, m) = kept(m)[m]
    BY DEF Ascending, Step
  <2> DEFINE k == kept(m)
  <2>7. Is(m, k) /\ Ascending(S, m) = k[m]
    BY <2>5, <2>6
  <2> HIDE DEF k
  <2>8. k[0] = <<>> /\ \A i \in 1..m : k[i] = Step(i, k[i - 1])
    BY <2>7
  <2>9. k = [i \in 0..m |-> k[i]]
    BY <2>7
  <2> DEFINE Good == {i \in 0..m : k[i] = t[i]}
  <2>10. \A i \in 0..m : i \in Good
    <3>1. 0 \in Good
      BY <2>3, <2>8
    <3>2. \A i \in 1..m : i - 1 \in Good => i \in Good
      BY <2>3, <2>8
    <3> HIDE DEF Good
    <3> QED  BY <3>1, <3>2, EveryTurn
  <2>11. k \in [0..m -> Seq(Nat)]
    BY <2>9, <2>10
  <2> QED  BY <2>7, <2>8, <2>11 DEF k
<1> HIDE DEF kept, Step
<1>2. Ascending(S, 0) = <<>> /\ Ascending(S, n) \in Seq(Nat)
  <2>1. 0 \in Nat
    OBVIOUS
  <2>2. Ascending(S, 0) = <<>>
    BY <1>1, <2>1
  <2>3. n \in 0..n
    OBVIOUS
  <2> QED  BY <1>1, <2>2, <2>3
<1>3. ASSUME n > 0
      PROVE  Ascending(S, n) = Step(n, Ascending(S, n - 1))
  <2> DEFINE k == kept(n)  l == kept(n - 1)
  <2>1. n - 1 \in Nat
    BY <1>3
  <2>2. /\ Ascending(S, n) = k[n] /\ k[0] = <<>>
        /\ \A i \in 1..n : k[i] = Step(i, k[i - 1])
    BY <1>1
  <2>3. /\ Ascending(S, n - 1) = l[n - 1] /\ l[0] = <<>>
        /\ \A i \in 1..(n - 1) : l[i] = Step(i, l[i - 1])
    BY <1>1, <2>1
  <2> HIDE DEF k, l
  <2> DEFINE Good == {i \in 0..(n - 1) : k[i] = l[i]}
  <2>4. \A i \in 0..(n - 1) : i \in Good
    <3>1. 0 \in Good
      BY <2>1, <2>2, <2>3
    <3>2. \A i \in 1..(n - 1) : i - 1 \in Good => i \in Good
      BY <2>1, <2>2, <2>3
    <3> HIDE DEF Good
    <3> QED  BY <2>1, <3>1, <3>2, EveryTurn
  <2>5. k[n - 1] = l[n - 1]
    BY <2>1, <2>4
  <2> QED  BY <1>3, <2>2, <2>3, <2>5
<1> QED  BY <1>2, <1>3 DEF Step

\* The list has every index once, in order.
LEMMA AscendingIs ==
  ASSUME NEW n \in Nat, NEW S
  PROVE  /\ Ascending(S, n) \in Seq(1..n)
         /\ Range(Ascending(S, n)) = S \cap (1..n)
         /\ \A i, k \in 1..Len(Ascending(S, n)) : i < k => Ascending(S, n)[i] < Ascending(S, n)[k]
<1> DEFINE Is(m, a) == /\ a \in Seq(1..m) /\ Range(a) = S \cap (1..m)
                       /\ \A i, k \in 1..Len(a) : i < k => a[i] < a[k]
           Good == {m \in 0..n : Is(m, Ascending(S, m))}
<1>1. 0 \in Good
  <2>1. Ascending(S, 0) = <<>>
    BY AscendingMore
  <2>2. Is(0, <<>>)
    <3>1. <<>> \in Seq(1..0) /\ Len(<<>>) = 0 /\ DOMAIN <<>> = {} /\ 1..0 = {}
      OBVIOUS
    <3> QED  BY <3>1 DEF Range
  <2> HIDE DEF Is
  <2> QED  BY <2>1, <2>2
<1>2. ASSUME NEW m \in 1..n, m - 1 \in Good
      PROVE  m \in Good
  <2> DEFINE a == Ascending(S, m - 1)  b == Ascending(S, m)
  <2>1. Is(m - 1, a)
    BY <1>2
  <2>2. b = IF m \in S THEN Append(a, m) ELSE a
    <3>1. m \in Nat /\ m > 0
      OBVIOUS
    <3> QED  BY <3>1, AscendingMore
  <2> HIDE DEF a, b
  <2>3. a \in Seq(1..m)
    <3>1. 1..(m - 1) \subseteq 1..m
      OBVIOUS
    <3> QED  BY <2>1, <3>1, SeqMonotonic
  <2>4. Len(a) \in Nat /\ DOMAIN a = 1..Len(a) /\ \A i \in 1..Len(a) : a[i] \in 1..(m - 1)
    BY <2>1, LenProperties, ElementOfSeq
  <2>5. CASE m \in S
    <3>1. b \in Seq(1..m) /\ Len(b) = Len(a) + 1 /\ DOMAIN b = 1..Len(b)
          /\ (\A i \in 1..Len(a) : b[i] = a[i]) /\ b[Len(a) + 1] = m
      <4>1. m \in 1..m
        OBVIOUS
      <4>2. b = Append(a, m)
        BY <2>2, <2>5
      <4> QED  BY <2>3, <4>1, <4>2, AppendProperties, LenProperties
    <3>2. \A i, k \in 1..Len(b) : i < k => b[i] < b[k]
      <4> SUFFICES ASSUME NEW i \in 1..Len(b), NEW k \in 1..Len(b), i < k PROVE b[i] < b[k]
        OBVIOUS
      <4>1. i \in 1..Len(a) /\ b[i] = a[i] /\ a[i] < m
        BY <2>4, <3>1
      <4>2. CASE k = Len(a) + 1
        BY <3>1, <4>1, <4>2
      <4>3. CASE k # Len(a) + 1
        <5>1. k \in 1..Len(a)
          <6>1. Len(b) = Len(a) + 1 /\ Len(a) \in Nat
            BY <2>4, <3>1
          <6> QED  BY <4>3, <6>1
        <5> QED  BY <2>1, <3>1, <4>1, <5>1
      <4> QED  BY <4>2, <4>3
    <3>3. Range(b) = S \cap (1..m)
      <4>1. Range(b) = Range(a) \cup {m}
        <5>1. 1..Len(b) = 1..Len(a) \cup {Len(a) + 1}
          BY <2>4, <3>1
        <5> QED  BY <2>4, <3>1, <5>1 DEF Range
      <4>2. 1..m = 1..(m - 1) \cup {m}
        OBVIOUS
      <4> QED  BY <2>1, <2>5, <4>1, <4>2
    <3> QED  BY <3>1, <3>2, <3>3 DEF b
  <2>6. CASE m \notin S
    <3>1. b = a
      BY <2>2, <2>6
    <3>2. S \cap (1..m) = S \cap (1..(m - 1))
      BY <2>6
    <3> QED  BY <2>1, <2>3, <3>1, <3>2 DEF b
  <2> QED  BY <2>5, <2>6
<1>3. \A m \in 1..n : m - 1 \in Good => m \in Good
  BY <1>2
<1>4. n \in Good
  <2> HIDE DEF Good
  <2>1. \A m \in 0..n : m \in Good
    BY <1>1, <1>3, EveryTurn
  <2> QED  BY <2>1
<1> QED  BY <1>4

--------------------------------------------------------------------------------
(* Delegation.                                                                 *)

Amount == Nat \cup {NoUsage}

\* However usages are added, what is reported adds up, and nothing is reported
\* exactly when nobody reported anything.
LEMMA UsageAddsUp ==
  ASSUME NEW runs, NEW n \in Nat, Len(runs) = n, \A i \in 1..n : runs[i].usage \in Amount
  PROVE  /\ TotalOf(runs) \in Amount
         /\ Reported(TotalOf(runs)) = Total([i \in 1..n |-> Reported(runs[i].usage)], n)
         /\ TotalOf(runs) = NoUsage <=> \A i \in 1..n : runs[i].usage = NoUsage
<1> DEFINE turn == [i \in 1..n |-> [s \in Amount |-> Add(s, runs[i].usage)]]
           Is(g) == g = [i \in 0..n |-> IF i = 0 THEN NoUsage ELSE Add(g[i - 1], runs[i].usage)]
           total == CHOOSE g : Is(g)
           a == [i \in 1..n |-> Reported(runs[i].usage)]
<1>1. \A s \in Amount, u \in Amount : Add(s, u) \in Amount
  BY DEF Add, Amount, NoUsage
<1>2. NoUsage \in Amount /\ turn \in [1..n -> [Amount -> Amount]]
  BY <1>1 DEF Amount
<1>3. PICK t \in [0..n -> Amount] : TakesTurns(n, NoUsage, turn, t)
  <2> HIDE DEF turn
  <2> QED  BY <1>2, LoopExists
<1>4. t[0] = NoUsage /\ \A i \in 1..n : t[i] = Add(t[i - 1], runs[i].usage)
  <2>1. ASSUME NEW i \in 1..n
        PROVE  t[i] = Add(t[i - 1], runs[i].usage)
    <3>1. i - 1 \in 0..n /\ t[i - 1] \in Amount
      OBVIOUS
    <3>2. turn[i][t[i - 1]] = Add(t[i - 1], runs[i].usage)
      BY <3>1
    <3> HIDE DEF turn
    <3> QED  BY <1>3, <3>2 DEF TakesTurns
  <2> QED  BY <1>3, <2>1 DEF TakesTurns
<1>5. Is(t)
  <2>1. t = [i \in 0..n |-> t[i]]
    OBVIOUS
  <2>2. \A i \in 0..n : t[i] = IF i = 0 THEN NoUsage ELSE Add(t[i - 1], runs[i].usage)
    BY <1>4
  <2> QED  BY <2>1, <2>2
<1>6. Is(total)
  BY <1>5
<1>7. TotalOf(runs) = total[n]
  BY DEF TotalOf
<1> HIDE DEF total
<1>8. total[0] = NoUsage /\ \A i \in 1..n : total[i] = Add(total[i - 1], runs[i].usage)
  BY <1>6
<1> HIDE DEF Is, turn
<1>9. PICK r \in [0..n -> Int] : /\ r[0] = 0 /\ \A i \in 1..n : r[i] = r[i - 1] + a[i]
                                 /\ Total(a, n) = r[n]
  <2>1. \A i \in 1..n : a[i] \in Int
    BY DEF Reported, Amount
  <2> HIDE DEF a
  <2> QED  BY <2>1, TotalIs
<1>10. \A i \in 1..n : a[i] = Reported(runs[i].usage)
  OBVIOUS
<1> HIDE DEF a
<1> DEFINE Good == {i \in 0..n : /\ total[i] \in Amount /\ Reported(total[i]) = r[i]
                                 /\ total[i] = NoUsage <=> \A k \in 1..i : runs[k].usage = NoUsage}
<1>11. 0 \in Good
  BY <1>2, <1>8, <1>9 DEF Reported
<1>12. ASSUME NEW i \in 1..n, i - 1 \in Good
       PROVE  i \in Good
  <2>1. /\ total[i - 1] \in Amount /\ Reported(total[i - 1]) = r[i - 1]
        /\ total[i - 1] = NoUsage <=> \A k \in 1..(i - 1) : runs[k].usage = NoUsage
    BY <1>12
  <2>2. total[i] = Add(total[i - 1], runs[i].usage) /\ r[i] = r[i - 1] + Reported(runs[i].usage)
    BY <1>8, <1>9, <1>10
  <2>3. total[i] \in Amount
    BY <1>1, <2>1, <2>2
  <2>4. Reported(total[i]) = r[i]
    BY <2>1, <2>2 DEF Reported, Add, Amount, NoUsage
  <2>5. total[i] = NoUsage <=> total[i - 1] = NoUsage /\ runs[i].usage = NoUsage
    <3>1. \A s \in Amount, u \in Amount : Add(s, u) = NoUsage <=> s = NoUsage /\ u = NoUsage
      BY DEF Add, Amount, NoUsage
    <3>2. runs[i].usage \in Amount
      OBVIOUS
    <3> QED  BY <2>1, <2>2, <3>1, <3>2
  <2>6. total[i] = NoUsage <=> \A k \in 1..i : runs[k].usage = NoUsage
    <3>1. 1..i = 1..(i - 1) \cup {i}
      OBVIOUS
    <3> QED  BY <2>1, <2>5, <3>1
  <2> QED  BY <2>3, <2>4, <2>6
<1>13. n \in Good
  <2>1. \A i \in 1..n : i - 1 \in Good => i \in Good
    BY <1>12
  <2> HIDE DEF Good
  <2>2. \A i \in 0..n : i \in Good
    BY <1>11, <2>1, EveryTurn
  <2> QED  BY <2>2
<1> QED  BY <1>7, <1>9, <1>13 DEF a

\* The parts of a result.
LEMMA ResultIs ==
  ASSUME NEW r, NEW o, NEW u, NEW n, r = Result(o, u, n)
  PROVE  r.kind = "ok" /\ r.usage = u /\ r.output = o /\ r.runs = n
BY DEF Result

\* The runs of a loop: the first runs of its script, none but the last of which
\* ends it.
LEMMA LoopRunsAre ==
  ASSUME NEW script \in Seq(Run), script # <<>>, NEW maxIters \in Nat
  PROVE  \E n \in 1..Len(script) :
            /\ Len(LoopRuns(script, maxIters)) = n
            /\ \A i \in 1..n : LoopRuns(script, maxIters)[i] = script[i]
            /\ \A i \in 1..(n - 1) : ~Fails(script[i]) /\ ~Ends(script, i, maxIters)
<1> DEFINE stops == Stops(script, maxIters)
<1>1. Len(script) \in Nat \ {0} /\ DOMAIN script = 1..Len(script)
  BY EmptySeq, LenProperties
<1> USE DEF Stops
<1>2. CASE stops = {}
  <2>1. LoopRuns(script, maxIters) = script
    BY <1>2 DEF LoopRuns
  <2>2. \A i \in 1..Len(script) : ~Fails(script[i]) /\ ~Ends(script, i, maxIters)
    BY <1>1, <1>2
  <2>3. Len(script) \in 1..Len(script) /\ \A i \in 1..(Len(script) - 1) : i \in 1..Len(script)
    BY <1>1
  <2> WITNESS Len(script) \in 1..Len(script)
  <2> QED  BY <1>1, <2>1, <2>2, <2>3
<1>3. CASE stops # {}
  <2>1. stops \in SUBSET Nat
    BY <1>1
  <2>2. \E m \in stops : \A k \in stops : m <= k
    <3> HIDE DEF stops
    <3> QED  BY <1>3, <2>1, LeastOf
  <2> DEFINE n == Min(stops)
  <2>3. n \in stops /\ \A k \in stops : n <= k
    <3> HIDE DEF stops
    <3> QED  BY <2>2 DEF Min
  <2>4. LoopRuns(script, maxIters) = SubSeq(script, 1, n)
    BY <1>3 DEF LoopRuns
  <2>5. n \in 1..Len(script)
    <3> HIDE DEF n
    <3> QED  BY <1>1, <2>3
  <2>6. \A i \in 1..(n - 1) : ~Fails(script[i]) /\ ~Ends(script, i, maxIters)
    <3> SUFFICES ASSUME NEW i \in 1..(n - 1) PROVE i \notin stops /\ i \in DOMAIN script
      OBVIOUS
    <3> HIDE DEF n, stops
    <3>1. i < n /\ i \in 1..Len(script)
      BY <1>1, <2>5
    <3> QED  BY <1>1, <2>3, <3>1, <2>5
  <2> HIDE DEF n, stops
  <2>7. Len(SubSeq(script, 1, n)) = n /\ \A i \in 1..n : SubSeq(script, 1, n)[i] = script[i]
    <3> DEFINE part == SubSeq(script, 1, n)
    <3>1. 1 \in 1..Len(script) + 1 /\ n \in 1 - 1..Len(script)
      BY <1>1, <2>5
    <3>2. Len(part) = n - 1 + 1 /\ \A i \in 1..(n - 1 + 1) : part[i] = script[1 + i - 1]
      BY <3>1, PartIs
    <3> HIDE DEF part
    <3>3. Len(part) = n /\ \A i \in 1..n : part[i] = script[i]
      BY <2>5, <3>2
    <3> QED  BY <3>3 DEF part
  <2> QED  BY <2>4, <2>5, <2>6, <2>7
<1> QED  BY <1>2, <1>3

\* A loop that does not fail.
LEMMA LoopIs ==
  ASSUME NEW script \in Seq(Run), script # <<>>, NEW maxIters \in Nat, NEW loop,
         loop = ExecuteLoop("request", TRUE, script, maxIters)
  PROVE  \/ loop = Failure
         \/ /\ loop.kind = "ok" /\ loop.usage \in Amount /\ loop.runs \in 1..Len(script)
            /\ \A i \in 1..loop.runs : ~Fails(script[i])
            /\ \A i \in 1..(loop.runs - 1) : script[i].go
            /\ maxIters > 0 => loop.runs <= maxIters
            /\ Reported(loop.usage)
                   = Total([i \in 1..loop.runs |-> Reported(script[i].usage)], loop.runs)
            /\ loop.usage = NoUsage <=> \A i \in 1..loop.runs : script[i].usage = NoUsage
<1> DEFINE runs == LoopRuns(script, maxIters)
<1>1. PICK n \in 1..Len(script) :
            /\ Len(runs) = n
            /\ \A i \in 1..n : runs[i] = script[i]
            /\ \A i \in 1..(n - 1) : ~Fails(script[i]) /\ ~Ends(script, i, maxIters)
  BY LoopRunsAre
<1> DEFINE stops == Stops(script, maxIters)
<1>2. loop = IF stops = {} \/ Fails(Last(runs)) THEN Failure
             ELSE Result(Last(runs).output, TotalOf(runs), Len(runs))
  BY DEF ExecuteLoop
<1> HIDE DEF runs, stops
<1>3. Len(script) \in Nat /\ \A i \in 1..Len(script) : script[i] \in Run
  BY LenProperties, ElementOfSeq
<1>4. n \in Nat \ {0} /\ \A i \in 1..n : i \in 1..Len(script)
  BY <1>3
<1>5. Last(runs) = script[n]
  BY <1>1, <1>4 DEF Last
<1>6. SUFFICES ASSUME ~Fails(script[n]), stops # {}
               PROVE  /\ loop.kind = "ok" /\ loop.usage \in Amount /\ loop.runs \in 1..Len(script)
                      /\ \A i \in 1..loop.runs : ~Fails(script[i])
                      /\ \A i \in 1..(loop.runs - 1) : script[i].go
                      /\ maxIters > 0 => loop.runs <= maxIters
                      /\ Reported(loop.usage)
                             = Total([i \in 1..loop.runs |-> Reported(script[i].usage)], loop.runs)
                      /\ loop.usage = NoUsage <=> \A i \in 1..loop.runs : script[i].usage = NoUsage
  BY <1>2, <1>5, Zenon
<1>7. loop.kind = "ok" /\ loop.usage = TotalOf(runs) /\ loop.runs = n
  <2>1. loop = Result(Last(runs).output, TotalOf(runs), n)
    BY <1>1, <1>2, <1>5, <1>6
  <2> DEFINE o == Last(runs).output
             t == TotalOf(runs)
  <2>2. loop = Result(o, t, n)
    BY <2>1
  <2> HIDE DEF o, t
  <2>3. loop.kind = "ok" /\ loop.usage = t /\ loop.runs = n
    BY <2>2, ResultIs, ZenonT(60)
  <2> QED  BY <2>3 DEF t
<1>8. \A i \in 1..n : runs[i].usage = script[i].usage /\ runs[i].usage \in Amount
  BY <1>1, <1>3, <1>4 DEF Run, Amount
<1>9. /\ TotalOf(runs) \in Amount
      /\ Reported(TotalOf(runs)) = Total([i \in 1..n |-> Reported(runs[i].usage)], n)
      /\ TotalOf(runs) = NoUsage <=> \A i \in 1..n : runs[i].usage = NoUsage
  BY <1>1, <1>4, <1>8, UsageAddsUp
<1>10. [i \in 1..n |-> Reported(runs[i].usage)] = [i \in 1..n |-> Reported(script[i].usage)]
  BY <1>8
<1>11. \A i \in 1..n : ~Fails(script[i])
  BY <1>1, <1>4, <1>6
<1>12. \A i \in 1..(n - 1) : script[i].go /\ i # maxIters
  BY <1>1 DEF Ends
<1>13. maxIters > 0 => n <= maxIters
  <2>1. CASE maxIters > 0 /\ n > maxIters
    <3>1. maxIters \in 1..(n - 1)
      BY <1>4, <2>1
    <3> QED  BY <1>12, <3>1
  <2> QED  BY <2>1, <1>4
<1> QED  BY <1>7, <1>8, <1>9, <1>10, <1>11, <1>12, <1>13


\* What a router returns: the agent's messages, with the usage of both.
LEMMA RoutedIs ==
  ASSUME NEW decision, decision.usage \in Amount, NEW run, run.usage \in Amount, NEW routed,
         routed = RunRouted(decision, run)
  PROVE  \/ routed = Failure
         \/ /\ routed.kind = "ok" /\ ~Fails(run) /\ decision.route # NoRoute
            /\ routed.usage \in Amount
            /\ Reported(routed.usage) = Reported(decision.usage) + Reported(run.usage)
            /\ routed.usage = NoUsage <=> decision.usage = NoUsage /\ run.usage = NoUsage
<1>1. SUFFICES ASSUME ~Fails(run), decision.route # NoRoute
               PROVE  /\ routed.kind = "ok" /\ routed.usage \in Amount
                      /\ Reported(routed.usage) = Reported(decision.usage) + Reported(run.usage)
                      /\ routed.usage = NoUsage <=> decision.usage = NoUsage /\ run.usage = NoUsage
  BY DEF RunRouted
<1>2. routed.kind = "ok" /\ routed.usage = Add(decision.usage, run.usage)
  <2> DEFINE o == run.output  u == Add(decision.usage, run.usage)
  <2>1. routed = Result(o, u, 1)
    BY <1>1 DEF RunRouted
  <2> HIDE DEF o, u
  <2>2. routed.kind = "ok" /\ routed.usage = u
    BY <2>1, ResultIs
  <2> QED  BY <2>2 DEF u
<1>4. Add(decision.usage, run.usage) \in Amount
  BY DEF Add, Amount, NoUsage
<1>5. Reported(Add(decision.usage, run.usage)) = Reported(decision.usage) + Reported(run.usage)
  BY DEF Add, Amount, NoUsage, Reported
<1>6. Add(decision.usage, run.usage) = NoUsage <=> decision.usage = NoUsage /\ run.usage = NoUsage
  BY DEF Add, Amount, NoUsage
<1> QED  BY <1>2, <1>4, <1>5, <1>6

\* What the workflow's result tells of its steps.
LEMMA SequenceIs ==
  ASSUME NEW steps, NEW n \in Nat, steps # <<>>, DOMAIN steps = 1..n, Len(steps) = n,
         NEW whole, whole = RunSequence("request", steps), whole.kind = "ok"
  PROVE  (\A i \in 1..n : ~Fails(steps[i])) /\ whole.usage = TotalOf(steps)
<1>1. Failure.kind # "ok"
  BY DEF Failure
<1>2. ~\E i \in DOMAIN steps : Fails(steps[i])
  BY <1>1 DEF RunSequence
<1>3. whole.usage = TotalOf(steps)
  <2> DEFINE o == Last(steps).output  u == TotalOf(steps)  k == Len(steps)
  <2>1. whole = Result(o, u, k)
    BY <1>2 DEF RunSequence
  <2> HIDE DEF o, u, k
  <2>2. whole.usage = u
    BY <2>1, ResultIs
  <2> QED  BY <2>2 DEF u
<1> QED  BY <1>2, <1>3

\* What the workflow of Delegate returns.
LEMMA DelegationIs ==
  ASSUME NEW in, in.script \in Seq(Run), in.script # <<>>, in.maxIters \in Nat,
         in.fallback \in 0..1, in.answer \in Answer,
         NEW steps, steps = Steps(in), NEW whole, whole = RunSequence("request", steps),
         whole.kind = "ok", NEW loop, loop = steps[1]
  PROVE  /\ loop.runs \in 1..Len(in.script)
         /\ \A i \in 1..loop.runs : ~Fails(in.script[i])
         /\ ~Fails(Last(in.script)) /\ (in.fallback = 1 \/ in.answer = "two")
         /\ \A i \in 1..loop.runs - 1 : in.script[i].go
         /\ in.maxIters > 0 => loop.runs <= in.maxIters
         /\ Reported(whole.usage)
                = Total([i \in 1..loop.runs |-> Reported(in.script[i].usage)], loop.runs)
                      + (IF in.answer = "failed" THEN 0 ELSE 5) + Reported(Last(in.script).usage)
         /\ whole.usage = NoUsage <=>
                /\ \A i \in 1..loop.runs : in.script[i].usage = NoUsage
                /\ in.answer = "failed" /\ Last(in.script).usage = NoUsage
<1> DEFINE decision == Routed(in)
           last == Last(in.script)
           run == IF decision.route = 2 THEN last ELSE FailedRun
           routed == RunRouted(decision, run)
           spent == [i \in 1..loop.runs |-> Reported(in.script[i].usage)]
<1>1. /\ decision.route = IF in.answer = "two" THEN 2 ELSE IF in.fallback = 1 THEN 2 ELSE NoRoute
      /\ decision.usage = IF in.answer = "failed" THEN NoUsage ELSE 5
  <2>1. Index(in.answer) \in 1..2 <=> in.answer = "two"
    BY DEF Index, Answer, NoRoute
  <2>2. in.answer = "two" => Index(in.answer) = 2
    BY DEF Index
  <2>3. Fallback(2 * in.fallback, 2) = IF in.fallback = 1 THEN 2 ELSE NoRoute
    BY DEF Fallback, NoRoute
  <2> QED  BY <2>1, <2>2, <2>3 DEF Routed, LLMFunc, Decided
<1>2. decision.usage \in Amount
  BY <1>1 DEF Amount
<1>3. last \in Run
  <2>1. Len(in.script) \in 1..Len(in.script)
    BY EmptySeq, LenProperties
  <2> QED  BY <2>1, ElementOfSeq DEF Last
<1>4. run.usage \in Amount
  BY <1>3 DEF FailedRun, Run, Amount
<1>5. loop = ExecuteLoop("request", TRUE, in.script, in.maxIters) /\ steps[2] = routed
  BY DEF Steps
<1>6. /\ steps # <<>> /\ DOMAIN steps = 1..2 /\ Len(steps) = 2
  BY DEF Steps
<1>7. ~Fails(loop) /\ ~Fails(routed) /\ whole.usage = TotalOf(steps)
  <2>1. 2 \in Nat
    OBVIOUS
  <2>2. (\A i \in 1..2 : ~Fails(steps[i])) /\ whole.usage = TotalOf(steps)
    BY <1>6, <2>1, SequenceIs
  <2>3. 1 \in 1..2 /\ 2 \in 1..2
    OBVIOUS
  <2> HIDE DEF routed
  <2> QED  BY <1>5, <2>2, <2>3
<1>8. Fails(Failure)
  BY DEF Fails, Failure
<1> HIDE DEF decision, last
<1>9. /\ ~Fails(run) /\ decision.route # NoRoute /\ routed.usage \in Amount
      /\ Reported(routed.usage) = Reported(decision.usage) + Reported(run.usage)
      /\ routed.usage = NoUsage <=> decision.usage = NoUsage /\ run.usage = NoUsage
  <2> HIDE DEF run, routed
  <2>1. routed = RunRouted(decision, run)
    BY DEF routed
  <2> QED  BY <1>2, <1>4, <1>7, <1>8, <2>1, RoutedIs
<1>10. run = last /\ (in.fallback = 1 \/ in.answer = "two")
  BY <1>1, <1>9
<1>11. /\ loop.usage \in Amount /\ loop.runs \in 1..Len(in.script)
       /\ \A i \in 1..loop.runs : ~Fails(in.script[i])
       /\ \A i \in 1..(loop.runs - 1) : in.script[i].go
       /\ in.maxIters > 0 => loop.runs <= in.maxIters
       /\ Reported(loop.usage) = Total(spent, loop.runs)
       /\ loop.usage = NoUsage <=> \A i \in 1..loop.runs : in.script[i].usage = NoUsage
  BY <1>5, <1>7, <1>8, LoopIs
<1> HIDE DEF routed, run, spent
<1>12. /\ Reported(whole.usage) = Reported(loop.usage) + Reported(routed.usage)
       /\ whole.usage = NoUsage <=> loop.usage = NoUsage /\ routed.usage = NoUsage
  <2> DEFINE a == [i \in 1..2 |-> Reported(steps[i].usage)]
  <2>0. 1 \in 1..2 /\ 2 \in 1..2 /\ \A i \in 1..2 : i = 1 \/ i = 2
    OBVIOUS
  <2>1. \A i \in 1..2 : steps[i].usage \in Amount
    <3> SUFFICES ASSUME NEW i \in 1..2 PROVE steps[i].usage \in Amount
      OBVIOUS
    <3>1. CASE i = 1
      BY <1>11, <3>1
    <3>2. CASE i = 2
      BY <1>5, <1>9, <3>2
    <3> QED  BY <2>0, <3>1, <3>2
  <2>2. 2 \in Nat
    OBVIOUS
  <2>3. /\ Reported(whole.usage) = Total(a, 2)
        /\ whole.usage = NoUsage <=> \A i \in 1..2 : steps[i].usage = NoUsage
    BY <1>6, <1>7, <2>1, <2>2, UsageAddsUp
  <2>4. Total(a, 2) = a[1] + a[2]
    <3>1. \A i \in 1..2 : a[i] \in Int
      BY <2>1 DEF Reported, Amount
    <3> HIDE DEF a
    <3>2. Total(a, 2) = Total(a, 2 - 1) + a[2]
      <4>1. 2 \in Nat /\ 2 > 0
        OBVIOUS
      <4> QED  BY <3>1, <4>1, TotalMore
    <3>3. 1 \in Nat /\ 1 > 0 /\ \A i \in 1..1 : a[i] \in Int
      BY <3>1
    <3>4. Total(a, 1) = Total(a, 1 - 1) + a[1] /\ Total(a, 0) = 0
      BY <3>3, TotalMore
    <3> QED  BY <3>1, <3>2, <3>4
  <2>5. a[1] = Reported(loop.usage) /\ a[2] = Reported(routed.usage)
    BY <1>5, <2>0
  <2>6. whole.usage = NoUsage <=> loop.usage = NoUsage /\ routed.usage = NoUsage
    <3>1. steps[1] = loop /\ steps[2] = routed
      BY <1>5
    <3> HIDE DEF a
    <3> QED  BY <2>0, <2>3, <3>1
  <2>7. Reported(whole.usage) = Reported(loop.usage) + Reported(routed.usage)
    <3> HIDE DEF a
    <3> QED  BY <2>3, <2>4, <2>5
  <2> QED  BY <2>6, <2>7
<1>13. Reported(decision.usage) = IF in.answer = "failed" THEN 0 ELSE 5
  BY <1>1 DEF Reported, NoUsage
<1>14. Reported(last.usage) \in Int /\ Total(spent, loop.runs) \in Int
  <2>1. Reported(loop.usage) \in Int
    BY <1>11 DEF Reported, Amount
  <2> QED  BY <1>3, <1>11, <2>1 DEF Reported, Run
<1>15. Reported(whole.usage)
          = Total(spent, loop.runs) + (IF in.answer = "failed" THEN 0 ELSE 5) + Reported(last.usage)
  BY <1>9, <1>10, <1>11, <1>12, <1>13, <1>14
<1>16. whole.usage = NoUsage <=>
           /\ \A i \in 1..loop.runs : in.script[i].usage = NoUsage
           /\ decision.usage = NoUsage /\ last.usage = NoUsage
  BY <1>9, <1>10, <1>11, <1>12
<1>17. decision.usage = NoUsage <=> in.answer = "failed"
  BY <1>1 DEF NoUsage
<1>18. whole.usage = NoUsage <=>
           /\ \A i \in 1..loop.runs : in.script[i].usage = NoUsage
           /\ in.answer = "failed" /\ last.usage = NoUsage
  BY <1>16, <1>17
<1> QED  BY <1>9, <1>10, <1>11, <1>15, <1>18 DEF spent, last

--------------------------------------------------------------------------------
(* Graphs.                                                                     *)

\* The nodes and edges of a slice.
LEMMA SliceIs ==
  ASSUME NEW nodes \in Seq(Node)
  PROVE  /\ Len(nodes) \in Nat /\ DOMAIN nodes = 1..Len(nodes)
         /\ \A i \in 1..Len(nodes) : /\ nodes[i].id \in IDs(nodes) /\ nodes[i].id \in ID
                                     /\ nodes[i].deps \in Seq(ID)
         /\ \A id \in IDs(nodes) : \E i \in 1..Len(nodes) : nodes[i].id = id
         /\ IsFiniteSet(IDs(nodes)) /\ Cardinality(IDs(nodes)) \in Nat /\ Cardinality(IDs(nodes)) <= Len(nodes)
         /\ \A a, b : <<a, b>> \in Edges(nodes) <=>
                \E i \in 1..Len(nodes) : nodes[i].id = b /\ a \in Range(nodes[i].deps)
         /\ \A e \in Edges(nodes) : e = <<e[1], e[2]>>
<1> DEFINE n == Len(nodes)
<1>1. n \in Nat /\ DOMAIN nodes = 1..n /\ \A i \in 1..n : nodes[i] \in Node
  BY LenProperties, ElementOfSeq
<1> HIDE DEF n
<1>2. \A i \in 1..n : nodes[i].id \in IDs(nodes) /\ nodes[i].id \in ID /\ nodes[i].deps \in Seq(ID)
  BY <1>1 DEF IDs, Node
<1>3. \A id \in IDs(nodes) : \E i \in 1..n : nodes[i].id = id
  BY <1>1 DEF IDs
<1>4. IsFiniteSet(IDs(nodes)) /\ Cardinality(IDs(nodes)) \in Nat /\ Cardinality(IDs(nodes)) <= n
  <2> DEFINE f == [i \in 1..n |-> nodes[i].id]
  <2>1. f \in Surjection(1..n, IDs(nodes))
    BY <1>2, <1>3 DEF Surjection
  <2>2. IsFiniteSet(1..n) /\ Cardinality(1..n) = n
    BY <1>1, FS_Interval
  <2> HIDE DEF f
  <2> QED  BY <2>1, <2>2, FS_Surjection, FS_CardinalityType
<1>5. \A a, b : <<a, b>> \in Edges(nodes) <=> \E i \in 1..n : nodes[i].id = b /\ a \in Range(nodes[i].deps)
  <2> TAKE a, b
  <2>1. ASSUME <<a, b>> \in Edges(nodes)
        PROVE  \E i \in 1..n : nodes[i].id = b /\ a \in Range(nodes[i].deps)
    <3>1. PICK i \in 1..n : <<a, b>> \in {<<from, nodes[i].id>> : from \in Range(nodes[i].deps)}
      BY <1>1, <2>1 DEF Edges
    <3> QED  BY <3>1
  <2>2. ASSUME NEW i \in 1..n, nodes[i].id = b, a \in Range(nodes[i].deps)
        PROVE  <<a, b>> \in Edges(nodes)
    <3>1. <<a, b>> \in {<<from, nodes[i].id>> : from \in Range(nodes[i].deps)}
      BY <2>2
    <3> QED  BY <1>1, <3>1 DEF Edges
  <2> QED  BY <2>1, <2>2
<1>6. \A e \in Edges(nodes) : e = <<e[1], e[2]>>
  <2> TAKE e \in Edges(nodes)
  <2>1. PICK i \in 1..n : e \in {<<from, nodes[i].id>> : from \in Range(nodes[i].deps)}
    BY <1>1 DEF Edges
  <2> QED  BY <2>1
<1> QED  BY <1>1, <1>2, <1>3, <1>4, <1>5, <1>6 DEF n

\* With as many IDs as nodes, a node is known by its ID.
LEMMA NodeIs ==
  ASSUME NEW nodes \in Seq(Node), Cardinality(IDs(nodes)) = Len(nodes)
  PROVE  /\ \A i, k \in 1..Len(nodes) : nodes[i].id = nodes[k].id => i = k
         /\ \A i \in 1..Len(nodes) : DepsOf(nodes, nodes[i].id) = nodes[i].deps
         /\ \A id \in IDs(nodes) : DepsOf(nodes, id) \in Seq(ID)
         /\ \A a, b : <<a, b>> \in Edges(nodes) <=> b \in IDs(nodes) /\ a \in Range(DepsOf(nodes, b))
<1> DEFINE n == Len(nodes)  f == [i \in 1..n |-> nodes[i].id]
<1>1. n \in Nat /\ DOMAIN nodes = 1..n
  BY SliceIs
<1>2. f \in Surjection(1..n, IDs(nodes))
  <2>1. /\ \A i \in 1..n : nodes[i].id \in IDs(nodes)
        /\ \A id \in IDs(nodes) : \E i \in 1..n : nodes[i].id = id
    BY SliceIs
  <2> HIDE DEF n
  <2> QED  BY <2>1 DEF Surjection
<1>3. f \in Injection(1..n, IDs(nodes))
  <2>1. IsFiniteSet(1..n) /\ Cardinality(1..n) = n
    <3> HIDE DEF n
    <3> QED  BY <1>1, FS_Interval
  <2> HIDE DEF f
  <2> QED  BY <1>2, <2>1, FS_Surjection
<1>4. \A i, k \in 1..n : nodes[i].id = nodes[k].id => i = k
  BY <1>3 DEF Injection, IsInjective
<1>5. \A i \in 1..n : DepsOf(nodes, nodes[i].id) = nodes[i].deps
  <2> TAKE i \in 1..n
  <2>1. nodes[i] \in Range(nodes) /\ \A m \in Range(nodes) : m.id = nodes[i].id => m = nodes[i]
    BY <1>1, <1>4 DEF Range
  <2>2. (CHOOSE m \in Range(nodes) : m.id = nodes[i].id) = nodes[i]
    BY <2>1
  <2> QED  BY <2>2 DEF DepsOf
<1>6. \A id \in IDs(nodes) : \E i \in 1..n : nodes[i].id = id /\ DepsOf(nodes, id) = nodes[i].deps
  BY <1>5, SliceIs
<1>7. \A id \in IDs(nodes) : DepsOf(nodes, id) \in Seq(ID)
  BY <1>6, SliceIs
<1> HIDE DEF n, f
<1>8. \A a, b : <<a, b>> \in Edges(nodes) <=> b \in IDs(nodes) /\ a \in Range(DepsOf(nodes, b))
  <2> TAKE a, b
  <2>1. <<a, b>> \in Edges(nodes) <=> \E i \in 1..n : nodes[i].id = b /\ a \in Range(nodes[i].deps)
    BY SliceIs DEF n
  <2>2. \A i \in 1..n : nodes[i].id \in IDs(nodes)
    BY SliceIs DEF n
  <2> QED  BY <1>5, <1>6, <2>1, <2>2
<1> QED  BY <1>4, <1>5, <1>7, <1>8 DEF n

Colors == {"white", "gray", "black"}
Visits(nodes) == [color : [IDs(nodes) -> Colors], path : Seq(IDs(nodes)), cycle : BOOLEAN]

\* The turns of detectCycle: nothing is left to do; the node at the path's end
\* is done with; a cycle is found; the visit of one more node starts.
Rests(nodes, s) == s.cycle \/ (s.path = <<>> /\ \A id \in IDs(nodes) : s.color[id] # "white")

Blackens(nodes, s, t) ==
    /\ s.cycle = FALSE /\ s.path # <<>>
    /\ \A b \in IDs(nodes) : <<Last(s.path), b>> \in Edges(nodes) => s.color[b] = "black"
    /\ t = [color |-> [s.color EXCEPT ![Last(s.path)] = "black"], path |-> Front(s.path), cycle |-> FALSE]

Finds(nodes, s, t, b) ==
    /\ s.path # <<>> /\ <<Last(s.path), b>> \in Edges(nodes) /\ s.color[b] = "gray"
    /\ t = [color |-> s.color, path |-> s.path, cycle |-> TRUE]

Enters(nodes, s, t, b) ==
    /\ s.cycle = FALSE /\ s.color[b] = "white"
    /\ s.path # <<>> => <<Last(s.path), b>> \in Edges(nodes)
    /\ t = [color |-> [s.color EXCEPT ![b] = "gray"], path |-> Append(s.path, b), cycle |-> FALSE]

LEMMA VisitIs ==
  ASSUME NEW nodes \in Seq(Node), NEW s \in Visits(nodes), NEW t, t = Visit(nodes, s)
  PROVE  \/ Rests(nodes, s) /\ t = s
         \/ Blackens(nodes, s, t)
         \/ \E b \in IDs(nodes) : Finds(nodes, s, t, b) \/ Enters(nodes, s, t, b)
<1> DEFINE ids == IDs(nodes)  n == Len(nodes)
           ahead == Ahead(nodes, s)  next == nodes[Min(ahead)].id
<1>1. /\ n \in Nat /\ DOMAIN nodes = 1..n
      /\ \A i \in 1..n : nodes[i].id \in ids
      /\ \A id \in ids : \E i \in 1..n : nodes[i].id = id
      /\ \A a, b : <<a, b>> \in Edges(nodes) <=> \E i \in 1..n : nodes[i].id = b /\ a \in Range(nodes[i].deps)
  BY SliceIs
<1>2. /\ s.color \in [ids -> Colors] /\ s.path \in Seq(ids) /\ s.cycle \in BOOLEAN
      /\ s = [color |-> s.color, path |-> s.path, cycle |-> s.cycle]
  BY DEF Visits
<1> HIDE DEF ids, n
<1>3. ahead \subseteq 1..n
  BY <1>1 DEF Ahead, downstream
<1>4. ASSUME s.path = <<>>
      PROVE  /\ ahead = {} <=> \A id \in ids : s.color[id] # "white"
             /\ \A i \in ahead : s.color[nodes[i].id] = "white"
  BY <1>1, <1>4 DEF Ahead
<1>5. ASSUME s.path # <<>>
      PROVE  /\ ahead = {} => \A b \in ids : <<Last(s.path), b>> \in Edges(nodes) => s.color[b] = "black"
             /\ \A i \in ahead : /\ <<Last(s.path), nodes[i].id>> \in Edges(nodes)
                                 /\ s.color[nodes[i].id] # "black"
  <2>1. ahead = {i \in 1..n : Last(s.path) \in Range(nodes[i].deps) /\ s.color[nodes[i].id] # "black"}
    BY <1>1, <1>5 DEF Ahead, downstream
  <2> HIDE DEF ahead
  <2> DEFINE last == Last(s.path)
  <2> HIDE DEF last
  <2>2. ahead = {} => \A b \in ids : <<last, b>> \in Edges(nodes) => s.color[b] = "black"
    <3> SUFFICES ASSUME ahead = {}, NEW b \in ids, <<last, b>> \in Edges(nodes) PROVE s.color[b] = "black"
      OBVIOUS
    <3>1. PICK i \in 1..n : nodes[i].id = b /\ last \in Range(nodes[i].deps)
      BY <1>1
    <3> QED  BY <2>1, <3>1 DEF last
  <2>3. \A i \in ahead : <<last, nodes[i].id>> \in Edges(nodes) /\ s.color[nodes[i].id] # "black"
    BY <1>1, <2>1 DEF last
  <2> QED  BY <2>2, <2>3 DEF last
<1>6. ASSUME ahead # {}
      PROVE  Min(ahead) \in ahead /\ next \in ids
  <2>1. ahead \in SUBSET Nat
    BY <1>1, <1>3
  <2>2. \E m \in ahead : \A k \in ahead : m <= k
    <3> HIDE DEF ahead
    <3> QED  BY <1>6, <2>1, LeastOf
  <2>3. Min(ahead) \in ahead
    <3> HIDE DEF ahead
    <3> QED  BY <2>2 DEF Min
  <2> QED  BY <1>1, <1>3, <2>3
<1>7. t = IF s.cycle \/ (ahead = {} /\ s.path = <<>>) THEN s
          ELSE IF ahead = {}
               THEN [s EXCEPT !.color[Last(s.path)] = "black", !.path = Front(s.path)]
          ELSE IF Revisit(s.color, next) THEN [s EXCEPT !.cycle = TRUE]
          ELSE [s EXCEPT !.color[next] = "gray", !.path = Append(s.path, next)]
  BY DEF Visit
<1> HIDE DEF ahead, next
<1>8. CASE s.cycle \/ (ahead = {} /\ s.path = <<>>)
  BY <1>4, <1>7, <1>8 DEF Rests, ids
<1>9. CASE ~s.cycle /\ ahead = {} /\ s.path # <<>>
  <2>1. t = [color |-> [s.color EXCEPT ![Last(s.path)] = "black"], path |-> Front(s.path), cycle |-> FALSE]
    BY <1>2, <1>7, <1>9
  <2> QED  BY <1>2, <1>5, <1>9, <2>1 DEF Blackens, ids
<1>10. CASE ~s.cycle /\ ahead # {} /\ Revisit(s.color, next)
  <2>1. t = [color |-> s.color, path |-> s.path, cycle |-> TRUE]
    BY <1>2, <1>7, <1>10
  <2>2. s.color[next] = "gray"
    BY <1>10 DEF Revisit
  <2>3. s.path # <<>>
    BY <1>4, <1>6, <1>10, <2>2 DEF next
  <2>4. Finds(nodes, s, t, next)
    BY <1>5, <1>6, <1>10, <2>1, <2>2, <2>3 DEF Finds, next
  <2> QED  BY <1>6, <1>10, <2>4 DEF ids
<1>11. CASE ~s.cycle /\ ahead # {} /\ ~Revisit(s.color, next)
  <2>1. t = [color |-> [s.color EXCEPT ![next] = "gray"], path |-> Append(s.path, next), cycle |-> FALSE]
    BY <1>2, <1>7, <1>11
  <2>2. s.color[next] # "gray" /\ s.color[next] \in Colors
    BY <1>2, <1>6, <1>11 DEF Revisit
  <2>3. s.color[next] = "white" /\ (s.path # <<>> => <<Last(s.path), next>> \in Edges(nodes))
    BY <1>4, <1>5, <1>6, <1>11, <2>2 DEF next, Colors
  <2>4. Enters(nodes, s, t, next)
    BY <1>2, <1>11, <2>1, <2>3 DEF Enters
  <2> QED  BY <1>6, <1>11, <2>4 DEF ids
<1> QED  BY <1>8, <1>9, <1>10, <1>11

\* The path is a chain of gray nodes, each on it once.
Searching(nodes, s) ==
    /\ s \in Visits(nodes)
    /\ \A id \in IDs(nodes) : s.color[id] = "gray" <=> \E j \in 1..Len(s.path) : s.path[j] = id
    /\ \A i, j \in 1..Len(s.path) : s.path[i] = s.path[j] => i = j
    /\ \A i \in 1..(Len(s.path) - 1) : <<s.path[i], s.path[i + 1]>> \in Edges(nodes)

\* What is behind a black node is black, and there is no cycle among them.
Cleared(nodes, s) ==
    /\ \A a, b \in IDs(nodes) : <<a, b>> \in Edges(nodes) /\ s.color[a] = "black" => s.color[b] = "black"
    /\ \A T \in (SUBSET {id \in IDs(nodes) : s.color[id] = "black"}) \ {{}} :
          \E to \in T : \A from \in T : <<from, to>> \notin Edges(nodes)

\* Turns there are still to make.
Whites(nodes, s) == {id \in IDs(nodes) : s.color[id] = "white"}
Left(nodes, s) == 2 * Cardinality(Whites(nodes, s)) + Len(s.path)

\* The path, one shorter.
LEMMA FrontIs ==
  ASSUME NEW S, NEW p \in Seq(S), p # <<>>
  PROVE  /\ Len(p) \in Nat \ {0} /\ Last(p) = p[Len(p)] /\ Last(p) \in S
         /\ Front(p) \in Seq(S) /\ Len(Front(p)) = Len(p) - 1
         /\ \A i \in 1..(Len(p) - 1) : Front(p)[i] = p[i]
<1>1. Len(p) \in Nat \ {0}
  BY EmptySeq, LenProperties
<1>2. Last(p) = p[Len(p)] /\ Last(p) \in S
  BY <1>1, ElementOfSeq DEF Last
<1> DEFINE n == Len(p)
<1>3. 1 \in 1..n + 1 /\ n - 1 \in 1 - 1..n
  BY <1>1
<1>4. /\ SubSeq(p, 1, n - 1) \in Seq(S) /\ Len(SubSeq(p, 1, n - 1)) = (n - 1) - 1 + 1
      /\ \A i \in 1..((n - 1) - 1 + 1) : SubSeq(p, 1, n - 1)[i] = p[1 + i - 1]
  BY <1>3, PartIs
<1> DEFINE front == SubSeq(p, 1, n - 1)
<1>5. front \in Seq(S) /\ Len(front) = n - 1 /\ \A i \in 1..(n - 1) : front[i] = p[i]
  <2> HIDE DEF front
  <2>1. front \in Seq(S) /\ Len(front) = (n - 1) - 1 + 1
        /\ \A i \in 1..((n - 1) - 1 + 1) : front[i] = p[1 + i - 1]
    BY <1>4 DEF front
  <2> HIDE DEF n
  <2> QED  BY <1>1, <2>1 DEF n
<1> QED  BY <1>1, <1>2, <1>5 DEF Front

\* The turns keep what the search has found.
LEMMA SearchGoesOn ==
  ASSUME NEW nodes \in Seq(Node), NEW s, Searching(nodes, s), NEW t,
         \/ Blackens(nodes, s, t)
         \/ \E b \in IDs(nodes) : Finds(nodes, s, t, b) \/ Enters(nodes, s, t, b)
  PROVE  Searching(nodes, t)
<1> DEFINE ids == IDs(nodes)  E == Edges(nodes)  n == Len(s.path)
<1>1. /\ s.color \in [ids -> Colors] /\ s.path \in Seq(ids) /\ s.cycle \in BOOLEAN
      /\ n \in Nat /\ \A i \in 1..n : s.path[i] \in ids
  BY LenProperties, ElementOfSeq DEF Searching, Visits
<1>2. /\ \A id \in ids : s.color[id] = "gray" <=> \E j \in 1..n : s.path[j] = id
      /\ \A i, j \in 1..n : s.path[i] = s.path[j] => i = j
      /\ \A i \in 1..(n - 1) : <<s.path[i], s.path[i + 1]>> \in E
  BY DEF Searching
<1> HIDE DEF ids, E, n
<1>3. CASE Blackens(nodes, s, t)
  <2>1. /\ s.path # <<>>
        /\ t = [color |-> [s.color EXCEPT ![Last(s.path)] = "black"], path |-> Front(s.path), cycle |-> FALSE]
    BY <1>3 DEF Blackens
  <2>2. /\ n \in Nat \ {0} /\ Last(s.path) = s.path[n] /\ Last(s.path) \in ids
        /\ Front(s.path) \in Seq(ids) /\ Len(Front(s.path)) = n - 1
        /\ \A i \in 1..(n - 1) : Front(s.path)[i] = s.path[i]
    BY <1>1, <2>1, FrontIs DEF n
  <2> DEFINE last == Last(s.path)  front == Front(s.path)
  <2>3. /\ t = [color |-> [s.color EXCEPT ![last] = "black"], path |-> front, cycle |-> FALSE]
        /\ n \in Nat \ {0} /\ last = s.path[n] /\ last \in ids
        /\ front \in Seq(ids) /\ Len(front) = n - 1
        /\ \A i \in 1..(n - 1) : front[i] = s.path[i]
    BY <2>1, <2>2
  <2> HIDE DEF last, front
  <2>4. t \in Visits(nodes)
    BY <1>1, <2>3 DEF Visits, Colors, ids
  <2>5. /\ t.path = front /\ \A id \in ids : t.color[id] = IF id = last THEN "black" ELSE s.color[id]
    BY <1>1, <2>3
  <2>6. ASSUME NEW id \in ids
        PROVE  t.color[id] = "gray" <=> \E j \in 1..(n - 1) : front[j] = id
    <3>1. (\E j \in 1..(n - 1) : front[j] = id) <=> \E j \in 1..(n - 1) : s.path[j] = id
      BY <2>3
    <3>2. CASE id = last
      <4>1. ~\E j \in 1..(n - 1) : s.path[j] = id
        BY <1>2, <2>3, <3>2
      <4> QED  BY <2>5, <3>1, <3>2, <4>1
    <3>3. CASE id # last
      <4>1. (\E j \in 1..n : s.path[j] = id) <=> \E j \in 1..(n - 1) : s.path[j] = id
        <5>1. \A j \in 1..n : j \in 1..(n - 1) \/ j = n
          BY <1>1
        <5>2. \A j \in 1..(n - 1) : j \in 1..n
          BY <1>1
        <5> QED  BY <2>3, <3>3, <5>1, <5>2
      <4> QED  BY <1>2, <2>5, <3>1, <3>3, <4>1
    <3> QED  BY <3>2, <3>3
  <2>7. \A i, j \in 1..(n - 1) : front[i] = front[j] => i = j
    BY <1>2, <2>3
  <2>8. \A i \in 1..((n - 1) - 1) : <<front[i], front[i + 1]>> \in E
    <3> TAKE i \in 1..((n - 1) - 1)
    <3>1. i \in 1..(n - 1) /\ i + 1 \in 1..(n - 1)
      BY <2>3
    <3> QED  BY <1>2, <2>3, <3>1
  <2>9. Len(t.path) = n - 1
    BY <2>3, <2>5
  <2> QED  BY <2>4, <2>5, <2>6, <2>7, <2>8, <2>9 DEF Searching, ids, E
<1>4. CASE \E b \in IDs(nodes) : Finds(nodes, s, t, b)
  <2>1. t = [color |-> s.color, path |-> s.path, cycle |-> TRUE]
    BY <1>4 DEF Finds
  <2>2. t \in Visits(nodes) /\ t.color = s.color /\ t.path = s.path
    BY <1>1, <2>1 DEF Visits, ids
  <2> QED  BY <2>2 DEF Searching
<1>5. CASE \E b \in IDs(nodes) : Enters(nodes, s, t, b)
  <2>1. PICK b \in ids : Enters(nodes, s, t, b)
    BY <1>5 DEF ids
  <2>2. /\ s.color[b] = "white" /\ (s.path # <<>> => <<Last(s.path), b>> \in E)
        /\ t = [color |-> [s.color EXCEPT ![b] = "gray"], path |-> Append(s.path, b), cycle |-> FALSE]
    BY <2>1 DEF Enters, E
  <2> DEFINE more == Append(s.path, b)
  <2>3. /\ more \in Seq(ids) /\ Len(more) = n + 1
        /\ (\A i \in 1..n : more[i] = s.path[i]) /\ more[n + 1] = b
    BY <1>1, AppendProperties DEF n
  <2>4. t = [color |-> [s.color EXCEPT ![b] = "gray"], path |-> more, cycle |-> FALSE]
    BY <2>2
  <2> HIDE DEF more
  <2>5. t \in Visits(nodes)
    BY <1>1, <2>3, <2>4 DEF Visits, Colors, ids
  <2>6. /\ t.path = more /\ \A id \in ids : t.color[id] = IF id = b THEN "gray" ELSE s.color[id]
    BY <1>1, <2>4
  <2>7. \A j \in 1..n : s.path[j] # b
    BY <1>1, <1>2, <2>2
  <2>8. \A j \in 1..(n + 1) : j \in 1..n \/ j = n + 1
    BY <1>1
  <2>9. ASSUME NEW id \in ids
        PROVE  t.color[id] = "gray" <=> \E j \in 1..(n + 1) : more[j] = id
    <3>1. CASE id = b
      BY <1>1, <2>3, <2>6, <3>1
    <3>2. CASE id # b
      <4>1. (\E j \in 1..(n + 1) : more[j] = id) <=> \E j \in 1..n : s.path[j] = id
        BY <1>1, <2>3, <2>8, <3>2
      <4> QED  BY <1>2, <2>6, <3>2, <4>1
    <3> QED  BY <3>1, <3>2
  <2>10. \A i, j \in 1..(n + 1) : more[i] = more[j] => i = j
    BY <1>2, <2>3, <2>7, <2>8
  <2>11. \A i \in 1..((n + 1) - 1) : <<more[i], more[i + 1]>> \in E
    <3> TAKE i \in 1..((n + 1) - 1)
    <3>1. i \in 1..n
      BY <1>1
    <3>2. CASE i = n
      <4>1. s.path # <<>>
        BY <1>1, <3>1, <3>2 DEF n
      <4>2. Last(s.path) = s.path[n]
        BY DEF Last, n
      <4> QED  BY <2>2, <2>3, <3>1, <3>2, <4>1, <4>2
    <3>3. CASE i # n
      <4>1. i \in 1..(n - 1) /\ i + 1 \in 1..n
        BY <1>1, <3>1, <3>3
      <4> QED  BY <1>2, <2>3, <3>1, <4>1
    <3> QED  BY <3>2, <3>3
  <2>12. Len(t.path) = n + 1
    BY <2>3, <2>6
  <2> QED  BY <2>5, <2>6, <2>9, <2>10, <2>11, <2>12 DEF Searching, ids, E
<1> QED  BY <1>3, <1>4, <1>5

LEMMA ClearedGoesOn ==
  ASSUME NEW nodes \in Seq(Node), NEW s, Searching(nodes, s), Cleared(nodes, s), NEW t,
         \/ Blackens(nodes, s, t)
         \/ \E b \in IDs(nodes) : Finds(nodes, s, t, b) \/ Enters(nodes, s, t, b)
  PROVE  Cleared(nodes, t)
<1> DEFINE ids == IDs(nodes)  E == Edges(nodes)
           black(u) == {id \in ids : u.color[id] = "black"}
<1>1. s.color \in [ids -> Colors] /\ s.path \in Seq(ids)
  BY DEF Searching, Visits
<1>2. /\ \A a, b \in ids : <<a, b>> \in E /\ s.color[a] = "black" => s.color[b] = "black"
      /\ \A T \in (SUBSET black(s)) \ {{}} : \E to \in T : \A from \in T : <<from, to>> \notin E
  BY DEF Cleared
<1>3. CASE Blackens(nodes, s, t)
  <2> DEFINE last == Last(s.path)
  <2>1. /\ last \in ids /\ s.color[last] = "gray"
        /\ \A b \in ids : <<last, b>> \in E => s.color[b] = "black"
    <3>1. s.path # <<>> /\ \A b \in ids : <<last, b>> \in E => s.color[b] = "black"
      BY <1>3 DEF Blackens
    <3>2. Len(s.path) \in Nat \ {0} /\ last = s.path[Len(s.path)] /\ last \in ids
      BY <1>1, <3>1, FrontIs
    <3>3. s.color[last] = "gray"
      BY <3>2 DEF Searching
    <3> QED  BY <3>1, <3>2, <3>3
  <2>2. t.color = [s.color EXCEPT ![last] = "black"]
    BY <1>3 DEF Blackens
  <2> HIDE DEF last, ids, E
  <2>3. \A id \in ids : t.color[id] = IF id = last THEN "black" ELSE s.color[id]
    BY <1>1, <2>2
  <2>4. \A a, b \in ids : <<a, b>> \in E /\ t.color[a] = "black" => t.color[b] = "black"
    BY <1>2, <2>1, <2>3
  <2>5. ASSUME NEW T \in (SUBSET black(t)) \ {{}}
        PROVE  \E to \in T : \A from \in T : <<from, to>> \notin E
    <3>1. CASE last \in T
      <4>1. \A from \in T : <<from, last>> \notin E
        <5> SUFFICES ASSUME NEW from \in T, <<from, last>> \in E PROVE FALSE
          OBVIOUS
        <5>1. from \in ids /\ (from = last \/ s.color[from] = "black")
          BY <2>3
        <5>2. CASE from = last
          BY <2>1, <5>2
        <5>3. CASE s.color[from] = "black"
          BY <1>2, <2>1, <5>1, <5>3
        <5> QED  BY <5>1, <5>2, <5>3
      <4> QED  BY <3>1, <4>1
    <3>2. CASE last \notin T
      <4>1. T \subseteq black(s)
        BY <2>3, <3>2
      <4>2. T \in (SUBSET black(s)) \ {{}}
        BY <4>1
      <4> HIDE DEF black
      <4> QED  BY <1>2, <4>2
    <3> QED  BY <3>1, <3>2
  <2> QED  BY <2>4, <2>5 DEF Cleared, ids, E
<1>4. ASSUME NEW b \in ids, Finds(nodes, s, t, b) \/ Enters(nodes, s, t, b)
      PROVE  Cleared(nodes, t)
  <2>1. \A id \in ids : t.color[id] = "black" <=> s.color[id] = "black"
    <3>1. CASE Finds(nodes, s, t, b)
      BY <3>1 DEF Finds
    <3>2. CASE Enters(nodes, s, t, b)
      <4>1. s.color[b] = "white" /\ t.color = [s.color EXCEPT ![b] = "gray"]
        BY <3>2 DEF Enters
      <4> QED  BY <1>1, <4>1
    <3> QED  BY <1>4, <3>1, <3>2
  <2>2. black(t) = black(s)
    BY <2>1
  <2>3. \A T \in (SUBSET black(t)) \ {{}} : \E to \in T : \A from \in T : <<from, to>> \notin E
    <3> HIDE DEF black
    <3> QED  BY <1>2, <2>2
  <2> QED  BY <1>2, <2>1, <2>3 DEF Cleared
<1> QED  BY <1>3, <1>4

\* What Finds has found is a cycle.
LEMMA FindsCycle ==
  ASSUME NEW nodes \in Seq(Node), NEW s, Searching(nodes, s), NEW t, NEW b \in IDs(nodes), Finds(nodes, s, t, b)
  PROVE  ~Acyclic(IDs(nodes), Edges(nodes))
<1> DEFINE ids == IDs(nodes)  E == Edges(nodes)  n == Len(s.path)
<1>1. /\ s.path \in Seq(ids) /\ s.path # <<>> /\ <<Last(s.path), b>> \in E /\ s.color[b] = "gray"
  BY DEF Searching, Visits, Finds
<1>2. n \in Nat \ {0} /\ Last(s.path) = s.path[n] /\ \A i \in 1..n : s.path[i] \in ids
  BY <1>1, FrontIs, ElementOfSeq
<1>3. PICK m \in 1..n : s.path[m] = b
  BY <1>1 DEF Searching
<1> DEFINE S == {s.path[i] : i \in m..n}
<1>4. \A i \in 1..(n - 1) : <<s.path[i], s.path[i + 1]>> \in E
  BY DEF Searching
<1> HIDE DEF n, ids, E
<1>5. m..n \subseteq 1..n /\ m \in m..n /\ n \in m..n
  BY <1>2
<1>6. \A to \in S : \E from \in S : <<from, to>> \in E
  <2> SUFFICES ASSUME NEW i \in m..n PROVE \E from \in S : <<from, s.path[i]>> \in E
    OBVIOUS
  <2>1. CASE i = m
    BY <1>1, <1>2, <1>3, <1>5, <2>1
  <2>2. CASE i # m
    <3>1. i - 1 \in 1..(n - 1) /\ i - 1 \in m..n /\ (i - 1) + 1 = i
      BY <1>2, <1>5, <2>2
    <3> QED  BY <1>4, <3>1
  <2> QED  BY <2>1, <2>2
<1>7. S \in (SUBSET ids) \ {{}}
  <2>1. \A i \in m..n : i \in 1..n
    BY <1>5
  <2>2. \A x \in S : x \in ids
    BY <1>2, <2>1
  <2>3. s.path[m] \in S
    BY <1>5
  <2> HIDE DEF S
  <2> QED  BY <2>2, <2>3
<1> HIDE DEF S
<1>8. ~Acyclic(ids, E)
  BY <1>6, <1>7 DEF Acyclic
<1> QED  BY <1>8 DEF ids, E

LEMMA LeftLess ==
  ASSUME NEW nodes \in Seq(Node), NEW s, Searching(nodes, s), NEW t,
         Blackens(nodes, s, t) \/ \E b \in IDs(nodes) : Enters(nodes, s, t, b)
  PROVE  Left(nodes, s) \in Nat /\ Left(nodes, t) = Left(nodes, s) - 1
<1> DEFINE ids == IDs(nodes)  W == Whites(nodes, s)
<1>1. /\ s.color \in [ids -> Colors] /\ s.path \in Seq(ids) /\ Len(s.path) \in Nat
  BY LenProperties DEF Searching, Visits
<1>2. IsFiniteSet(ids)
  BY SliceIs
<1>3. IsFiniteSet(W) /\ Cardinality(W) \in Nat
  <2>1. W \in SUBSET ids
    BY DEF Whites
  <2> HIDE DEF W, ids
  <2> QED  BY <1>2, <2>1, FS_Subset, FS_CardinalityType
<1>4. Left(nodes, s) = 2 * Cardinality(W) + Len(s.path)
  BY DEF Left
<1>5. CASE Blackens(nodes, s, t)
  <2> DEFINE last == Last(s.path)
  <2>1. s.path # <<>> /\ t.color = [s.color EXCEPT ![last] = "black"] /\ t.path = Front(s.path)
    BY <1>5 DEF Blackens
  <2>2. Len(t.path) = Len(s.path) - 1 /\ last \in ids /\ last = s.path[Len(s.path)] /\ Len(s.path) \in Nat \ {0}
    BY <1>1, <2>1, FrontIs
  <2>3. s.color[last] = "gray"
    BY <2>2 DEF Searching
  <2>4. Whites(nodes, t) = W
    <3> HIDE DEF last
    <3> QED  BY <1>1, <2>1, <2>2, <2>3 DEF Whites
  <2> HIDE DEF W
  <2>5. Left(nodes, t) = 2 * Cardinality(W) + Len(t.path)
    BY <2>4 DEF Left
  <2> QED  BY <1>1, <1>3, <1>4, <2>2, <2>5
<1>6. ASSUME NEW b \in ids, Enters(nodes, s, t, b)
      PROVE  Left(nodes, s) \in Nat /\ Left(nodes, t) = Left(nodes, s) - 1
  <2>1. s.color[b] = "white" /\ t.color = [s.color EXCEPT ![b] = "gray"] /\ t.path = Append(s.path, b)
    BY <1>6 DEF Enters
  <2>2. Len(t.path) = Len(s.path) + 1
    BY <1>1, <2>1, AppendProperties
  <2>3. Whites(nodes, t) = W \ {b} /\ b \in W
    BY <1>1, <2>1 DEF Whites
  <2> HIDE DEF W
  <2>4. Cardinality(W \ {b}) = Cardinality(W) - 1
    BY <1>3, <2>3, FS_RemoveElement
  <2>5. Left(nodes, t) = 2 * (Cardinality(W) - 1) + Len(t.path)
    BY <2>3, <2>4 DEF Left
  <2> DEFINE c == Cardinality(W)
  <2>6. c \in Nat /\ Left(nodes, s) = 2 * c + Len(s.path) /\ Left(nodes, t) = 2 * (c - 1) + Len(t.path)
    BY <1>3, <1>4, <2>5
  <2> HIDE DEF c
  <2> DEFINE l == Len(s.path)
  <2>7. l \in Nat /\ Len(t.path) = l + 1 /\ Left(nodes, s) = 2 * c + l
    BY <1>1, <2>2, <2>6
  <2> HIDE DEF l
  <2>8. Left(nodes, t) = 2 * (c - 1) + (l + 1)
    BY <2>6, <2>7
  <2>9. c \in Nat /\ l \in Nat
    BY <2>6, <2>7
  <2>10. 2 * c + l \in Nat /\ 2 * (c - 1) + (l + 1) = (2 * c + l) - 1
    BY <2>9
  <2> QED  BY <2>7, <2>8, <2>10
<1> QED  BY <1>5, <1>6

\* detectCycle, before its turns and after each of them.
LEMMA SearchOf ==
  ASSUME NEW nodes \in Seq(Node)
  PROVE  \E s : /\ Searching(nodes, s) /\ Cleared(nodes, s) /\ s.cycle = detectCycle(nodes)
                /\ s.cycle => ~Acyclic(IDs(nodes), Edges(nodes))
                /\ ~s.cycle => Left(nodes, s) = 0
<1> DEFINE ids == IDs(nodes)  n == 2 * Len(nodes)
           start == [color |-> [id \in ids |-> "white"], path |-> <<>>, cycle |-> FALSE]
           Is(g) == g = [k \in 0..n |-> IF k = 0 THEN start ELSE Visit(nodes, g[k - 1])]
           at == CHOOSE g : Is(g)
           turn == [k \in 1..n |-> [s \in Visits(nodes) |-> Visit(nodes, s)]]
<1>1. Len(nodes) \in Nat /\ n \in Nat
  BY SliceIs
<1>2. start \in Visits(nodes)
  BY DEF Visits, Colors
<1>3. \A s \in Visits(nodes) : Visit(nodes, s) \in Visits(nodes)
  <2> SUFFICES ASSUME NEW s \in Visits(nodes) PROVE Visit(nodes, s) \in Visits(nodes)
    OBVIOUS
  <2> DEFINE t == Visit(nodes, s)
  <2>1. \/ t = s \/ Blackens(nodes, s, t)
        \/ \E b \in IDs(nodes) : Finds(nodes, s, t, b) \/ Enters(nodes, s, t, b)
    BY VisitIs
  <2>2. /\ s.color \in [ids -> Colors] /\ s.path \in Seq(ids) /\ s.cycle \in BOOLEAN
    BY DEF Visits
  <2> HIDE DEF t, ids
  <2>3. ASSUME Blackens(nodes, s, t)
        PROVE  t \in Visits(nodes)
    <3>1. Front(s.path) \in Seq(ids)
      BY <2>2, <2>3, FrontIs DEF Blackens
    <3> DEFINE front == Front(s.path)  last == Last(s.path)
    <3>2. t = [color |-> [s.color EXCEPT ![last] = "black"], path |-> front, cycle |-> FALSE]
      BY <2>3 DEF Blackens
    <3>3. front \in Seq(ids)
      BY <3>1
    <3> HIDE DEF front, last
    <3> QED  BY <2>2, <3>2, <3>3 DEF Visits, Colors, ids
  <2>4. ASSUME NEW b \in ids, Finds(nodes, s, t, b)
        PROVE  t \in Visits(nodes)
    BY <2>2, <2>4 DEF Finds, Visits, ids
  <2>5. ASSUME NEW b \in ids, Enters(nodes, s, t, b)
        PROVE  t \in Visits(nodes)
    <3> DEFINE more == Append(s.path, b)
    <3>1. more \in Seq(ids)
      BY <2>2, AppendProperties
    <3>2. t = [color |-> [s.color EXCEPT ![b] = "gray"], path |-> more, cycle |-> FALSE]
      BY <2>5 DEF Enters
    <3> HIDE DEF more
    <3> QED  BY <2>2, <3>1, <3>2 DEF Visits, Colors, ids
  <2>6. t \in Visits(nodes)
    <3>1. \A b \in ids : Finds(nodes, s, t, b) => t \in Visits(nodes)
      BY <2>4
    <3>2. \A b \in ids : Enters(nodes, s, t, b) => t \in Visits(nodes)
      BY <2>5
    <3> QED  BY <2>1, <2>3, <3>1, <3>2 DEF ids
  <2> QED  BY <2>6 DEF t
<1>4. turn \in [1..n -> [Visits(nodes) -> Visits(nodes)]]
  BY <1>3
<1>5. PICK t \in [0..n -> Visits(nodes)] : TakesTurns(n, start, turn, t)
  <2> HIDE DEF turn, start, n
  <2> QED  BY <1>1, <1>2, <1>4, LoopExists
<1> HIDE DEF start, n
<1>6. t[0] = start /\ \A k \in 1..n : t[k] = Visit(nodes, t[k - 1])
  <2>1. ASSUME NEW k \in 1..n
        PROVE  t[k] = Visit(nodes, t[k - 1])
    <3>1. k - 1 \in 0..n /\ t[k - 1] \in Visits(nodes)
      BY <1>1
    <3>2. turn[k][t[k - 1]] = Visit(nodes, t[k - 1])
      BY <3>1
    <3> HIDE DEF turn
    <3> QED  BY <1>5, <3>2 DEF TakesTurns
  <2> QED  BY <1>5, <2>1 DEF TakesTurns
<1>7. Is(t)
  <2>1. t = [k \in 0..n |-> t[k]]
    OBVIOUS
  <2>2. \A k \in 0..n : t[k] = IF k = 0 THEN start ELSE Visit(nodes, t[k - 1])
    BY <1>1, <1>6
  <2> QED  BY <2>1, <2>2
<1>8. Is(at)
  BY <1>7
<1>9. detectCycle(nodes) = at[n].cycle
  BY DEF detectCycle, n, start
<1> HIDE DEF at
<1>10. at[0] = start /\ \A k \in 1..n : at[k] = Visit(nodes, at[k - 1])
  BY <1>1, <1>8
<1> HIDE DEF Is, turn
<1> DEFINE Inv(k, s) == /\ Searching(nodes, s) /\ Cleared(nodes, s)
                        /\ s.cycle => ~Acyclic(ids, Edges(nodes))
                        /\ ~s.cycle => Left(nodes, s) <= n - k
           Good == {k \in 0..n : Inv(k, at[k])}
<1>11. 0 \in Good
  <2>1. Searching(nodes, start)
    BY <1>2 DEF Searching, start
  <2>2. Cleared(nodes, start)
    <3>1. \A id \in ids : start.color[id] = "white"
      BY DEF start
    <3> QED  BY <3>1 DEF Cleared
  <2>3. Left(nodes, start) <= n
    <3>1. Whites(nodes, start) = ids /\ Len(start.path) = 0
      BY DEF Whites, start
    <3>2. Cardinality(ids) \in Nat /\ Cardinality(ids) <= Len(nodes)
      BY SliceIs
    <3> HIDE DEF ids
    <3>3. Left(nodes, start) = 2 * Cardinality(ids)
      BY <3>1, <3>2 DEF Left
    <3> QED  BY <1>1, <3>2, <3>3 DEF n
  <2>4. start.cycle = FALSE
    BY DEF start
  <2> QED  BY <1>1, <1>10, <2>1, <2>2, <2>3, <2>4
<1>12. ASSUME NEW k \in 1..n, k - 1 \in Good
       PROVE  k \in Good
  <2> DEFINE s == at[k - 1]  u == at[k]
  <2>1. /\ Searching(nodes, s) /\ Cleared(nodes, s) /\ (s.cycle => ~Acyclic(ids, Edges(nodes)))
        /\ (~s.cycle => Left(nodes, s) <= n - (k - 1))
        /\ u = Visit(nodes, s) /\ s \in Visits(nodes) /\ s.cycle \in BOOLEAN
    BY <1>10, <1>12 DEF Searching, Visits
  <2> HIDE DEF s, u
  <2>2. CASE Rests(nodes, s) /\ u = s
    <3>1. ~s.cycle => Left(nodes, s) = 0
      <4> SUFFICES ASSUME ~s.cycle PROVE Left(nodes, s) = 0
        OBVIOUS
      <4>1. s.path = <<>> /\ Whites(nodes, s) = {}
        BY <2>2 DEF Rests, Whites
      <4> QED  BY <4>1, FS_EmptySet DEF Left
    <3>2. ~s.cycle => Left(nodes, s) <= n - k
      BY <1>1, <3>1
    <3> QED  BY <2>1, <2>2, <3>2 DEF u
  <2>3. CASE Blackens(nodes, s, u) \/ \E b \in ids : Enters(nodes, s, u, b)
    <3>1. Searching(nodes, u) /\ Cleared(nodes, u)
      BY <2>1, <2>3, SearchGoesOn, ClearedGoesOn
    <3>2. Left(nodes, s) \in Nat /\ Left(nodes, u) = Left(nodes, s) - 1
      BY <2>1, <2>3, LeftLess
    <3>3. s.cycle = FALSE /\ u.cycle = FALSE
      <4>1. CASE Blackens(nodes, s, u)
        BY <4>1 DEF Blackens
      <4>2. ASSUME NEW b \in ids, Enters(nodes, s, u, b)
            PROVE  s.cycle = FALSE /\ u.cycle = FALSE
        BY <4>2 DEF Enters
      <4> QED  BY <2>3, <4>1, <4>2
    <3>4. Left(nodes, u) <= n - k
      BY <1>1, <2>1, <3>2, <3>3
    <3> QED  BY <3>1, <3>3, <3>4 DEF u
  <2>4. ASSUME NEW b \in ids, Finds(nodes, s, u, b)
        PROVE  k \in Good
    <3>1. Searching(nodes, u) /\ Cleared(nodes, u)
      BY <2>1, <2>4, SearchGoesOn, ClearedGoesOn
    <3>2. ~Acyclic(ids, Edges(nodes)) /\ u.cycle = TRUE
      BY <2>1, <2>4, FindsCycle DEF Finds
    <3> QED  BY <3>1, <3>2 DEF u
  <2>5. \/ Rests(nodes, s) /\ u = s
        \/ Blackens(nodes, s, u)
        \/ \E b \in IDs(nodes) : Finds(nodes, s, u, b) \/ Enters(nodes, s, u, b)
    BY <2>1, VisitIs
  <2> HIDE DEF Good
  <2> QED  BY <2>2, <2>3, <2>4, <2>5
<1>13. n \in Good
  <2>1. \A k \in 1..n : k - 1 \in Good => k \in Good
    BY <1>12
  <2> HIDE DEF Good
  <2>2. \A k \in 0..n : k \in Good
    BY <1>1, <1>11, <2>1, EveryTurn
  <2> QED  BY <1>1, <2>2
<1> DEFINE s == at[n]
<1>14. /\ Searching(nodes, s) /\ Cleared(nodes, s) /\ s.cycle = detectCycle(nodes)
       /\ s.cycle => ~Acyclic(ids, Edges(nodes))
       /\ ~s.cycle => Left(nodes, s) <= n - n
  BY <1>9, <1>13
<1> HIDE DEF s
<1>15. Left(nodes, s) \in Nat
  <2>1. s.path \in Seq(ids)
    BY <1>14 DEF Searching, Visits
  <2>2. IsFiniteSet(ids) /\ Whites(nodes, s) \in SUBSET ids
    BY SliceIs DEF Whites
  <2>3. Cardinality(Whites(nodes, s)) \in Nat
    <3> HIDE DEF ids
    <3> QED  BY <2>2, FS_Subset, FS_CardinalityType
  <2> QED  BY <2>1, <2>3, LenProperties DEF Left
<1>16. ~s.cycle => Left(nodes, s) = 0
  BY <1>1, <1>14, <1>15
<1> QED  BY <1>14, <1>16

\* dag.go:638-679: detectCycle finds a cycle when and only when there is one.
LEMMA CycleDetected ==
  ASSUME NEW nodes \in Seq(Node)
  PROVE  detectCycle(nodes) \in BOOLEAN /\ (detectCycle(nodes) <=> ~Acyclic(IDs(nodes), Edges(nodes)))
<1> DEFINE ids == IDs(nodes)
<1>1. PICK s : /\ Searching(nodes, s) /\ Cleared(nodes, s) /\ s.cycle = detectCycle(nodes)
               /\ s.cycle => ~Acyclic(ids, Edges(nodes))
               /\ ~s.cycle => Left(nodes, s) = 0
  BY SearchOf
<1>2. s.color \in [ids -> Colors] /\ s.path \in Seq(ids) /\ s.cycle \in BOOLEAN
  BY <1>1 DEF Searching, Visits
<1>3. ASSUME ~s.cycle
      PROVE  Acyclic(ids, Edges(nodes))
  <2>1. IsFiniteSet(ids) /\ Whites(nodes, s) \in SUBSET ids
    BY SliceIs DEF Whites
  <2> HIDE DEF ids
  <2>2. IsFiniteSet(Whites(nodes, s)) /\ Cardinality(Whites(nodes, s)) \in Nat
    BY <2>1, FS_Subset, FS_CardinalityType
  <2>3. Len(s.path) \in Nat
    BY <1>2, LenProperties
  <2>4. 2 * Cardinality(Whites(nodes, s)) + Len(s.path) = 0
    BY <1>1, <1>3 DEF Left
  <2>5. Cardinality(Whites(nodes, s)) = 0 /\ Len(s.path) = 0
    <3> DEFINE c == Cardinality(Whites(nodes, s))  l == Len(s.path)
    <3>1. c \in Nat /\ l \in Nat /\ 2 * c + l = 0
      BY <2>2, <2>3, <2>4
    <3> HIDE DEF c, l
    <3>2. c = 0 /\ l = 0
      BY <3>1
    <3> QED  BY <3>2 DEF c, l
  <2>6. Whites(nodes, s) = {}
    BY <2>2, <2>5, FS_EmptySet
  <2>7. \A id \in ids : s.color[id] # "white" /\ s.color[id] # "gray"
    BY <1>1, <2>5, <2>6 DEF Whites, Searching, ids
  <2>8. {id \in ids : s.color[id] = "black"} = ids
    BY <1>2, <2>7 DEF Colors
  <2>9. \A T \in (SUBSET ids) \ {{}} : \E to \in T : \A from \in T : <<from, to>> \notin Edges(nodes)
    BY <1>1, <2>8 DEF Cleared, ids
  <2> QED  BY <2>9 DEF Acyclic
<1> QED  BY <1>1, <1>2, <1>3

\* checkConnected's search, before its turns and after each of them.
Near(nodes, a, b) == <<a, b>> \in Edges(nodes) \/ <<b, a>> \in Edges(nodes)
ClosedUnder(nodes, S) == \A a \in S, b \in IDs(nodes) : Near(nodes, a, b) => b \in S

\* The search ends with all that is connected to the first node, and no more.
LEMMA ReachedIs ==
  ASSUME NEW nodes \in Seq(Node), Cardinality(IDs(nodes)) = Len(nodes), Len(nodes) > 0
  PROVE  /\ Reached(nodes) \in SUBSET IDs(nodes) /\ nodes[1].id \in Reached(nodes)
         /\ ClosedUnder(nodes, Reached(nodes))
         /\ \A T \in SUBSET IDs(nodes) :
                nodes[1].id \in T /\ ClosedUnder(nodes, T) => Reached(nodes) \subseteq T
<1> DEFINE ids == IDs(nodes)  n == Len(nodes)  first == nodes[1].id
           Spread(v) == v \cup Neighbours(nodes, v)
           Is(g) == g = [k \in 0..n |-> IF k = 0 THEN {first} ELSE Spread(g[k - 1])]
           at == CHOOSE g : Is(g)
           turn == [k \in 1..n |-> [v \in SUBSET ids |-> Spread(v)]]
<1>1. n \in Nat \ {0} /\ first \in ids
  BY SliceIs
<1>2. \A v \in SUBSET ids : /\ Spread(v) \in SUBSET ids
                            /\ \A b : b \in Spread(v) <=> b \in v \/ (b \in ids /\ \E a \in v : Near(nodes, a, b))
  <2> SUFFICES ASSUME NEW v \in SUBSET ids
               PROVE  /\ Spread(v) \in SUBSET ids
                      /\ \A b : b \in Spread(v) <=> b \in v \/ (b \in ids /\ \E a \in v : Near(nodes, a, b))
    OBVIOUS
  <2>1. \A a \in v, b \in ids : Near(nodes, a, b) <=> a \in Range(DepsOf(nodes, b)) \/ b \in Range(DepsOf(nodes, a))
    <3>1. \A a, b : <<a, b>> \in Edges(nodes) <=> b \in ids /\ a \in Range(DepsOf(nodes, b))
      BY NodeIs
    <3> HIDE DEF ids
    <3> QED  BY <3>1 DEF Near
  <2> HIDE DEF ids
  <2>2. Neighbours(nodes, v) = {b \in ids : \E a \in v : Near(nodes, a, b)}
    BY <2>1 DEF Neighbours, ids
  <2> QED  BY <2>2
<1> HIDE DEF Spread, ids, n, first
<1>3. PICK t \in [0..n -> SUBSET ids] : TakesTurns(n, {first}, turn, t)
  <2>1. turn \in [1..n -> [SUBSET ids -> SUBSET ids]] /\ {first} \in SUBSET ids
    BY <1>1, <1>2
  <2> HIDE DEF turn
  <2> QED  BY <1>1, <2>1, LoopExists
<1>4. t[0] = {first} /\ \A k \in 1..n : t[k] = Spread(t[k - 1])
  <2>1. ASSUME NEW k \in 1..n
        PROVE  t[k] = Spread(t[k - 1])
    <3>1. k - 1 \in 0..n /\ t[k - 1] \in SUBSET ids
      BY <1>1
    <3>2. turn[k][t[k - 1]] = Spread(t[k - 1])
      BY <3>1
    <3> HIDE DEF turn
    <3> QED  BY <1>3, <3>2 DEF TakesTurns
  <2> QED  BY <1>3, <2>1 DEF TakesTurns
<1>5. Is(t)
  <2>1. t = [k \in 0..n |-> t[k]]
    OBVIOUS
  <2>2. \A k \in 0..n : t[k] = IF k = 0 THEN {first} ELSE Spread(t[k - 1])
    BY <1>1, <1>4
  <2> QED  BY <2>1, <2>2
<1>6. Is(at)
  BY <1>5
<1>7. Reached(nodes) = at[n]
  BY DEF Reached, Spread, n, first
<1> HIDE DEF at
<1>8. at[0] = {first} /\ \A k \in 1..n : at[k] = Spread(at[k - 1])
  <2>1. at = [k \in 0..n |-> IF k = 0 THEN {first} ELSE Spread(at[k - 1])]
    BY <1>6
  <2>2. 0 \in 0..n /\ \A k \in 1..n : k \in 0..n /\ k # 0
    BY <1>1
  <2>3. at[0] = {first}
    BY <2>1, <2>2, Zenon
  <2>4. \A k \in 1..n : at[k] = Spread(at[k - 1])
    BY <2>1, <2>2, Zenon
  <2> QED  BY <2>3, <2>4
<1> HIDE DEF Is, turn
<1> DEFINE Inv(k, v) == /\ v \in SUBSET ids /\ first \in v
                        /\ ClosedUnder(nodes, v) \/ Cardinality(v) >= k + 1
                        /\ \A T \in SUBSET ids : first \in T /\ ClosedUnder(nodes, T) => v \subseteq T
           Good == {k \in 0..n : Inv(k, at[k])}
<1>9. IsFiniteSet(ids) /\ Cardinality(ids) = n
  BY SliceIs DEF ids, n
<1>10. 0 \in Good
  <2>1. Cardinality({first}) = 1
    BY FS_Singleton
  <2>2. \A T : first \in T => {first} \subseteq T
    OBVIOUS
  <2>3. {first} \in SUBSET ids /\ first \in {first} /\ Cardinality({first}) >= 0 + 1
    BY <1>1, <2>1
  <2>4. Inv(0, {first})
    BY <2>2, <2>3
  <2> HIDE DEF Inv
  <2>5. Inv(0, at[0])
    BY <1>8, <2>4
  <2> QED  BY <1>1, <2>5
<1>11. ASSUME NEW k \in 1..n, k - 1 \in Good
       PROVE  k \in Good
  <2> DEFINE v == at[k - 1]  w == at[k]
  <2>1. Inv(k - 1, v) /\ w = Spread(v)
    BY <1>8, <1>11
  <2> HIDE DEF v, w
  <2>2. w \in SUBSET ids /\ v \subseteq w /\ first \in w
    BY <1>2, <2>1
  <2>3. ASSUME NEW T \in SUBSET ids, first \in T, ClosedUnder(nodes, T)
        PROVE  w \subseteq T
    <3>1. v \subseteq T
      BY <2>1, <2>3
    <3> QED  BY <1>2, <2>1, <2>3, <3>1 DEF ClosedUnder, ids
  <2>4. CASE ClosedUnder(nodes, v)
    <3>1. w = v
      BY <1>2, <2>1, <2>4 DEF ClosedUnder, ids
    <3>2. Inv(k, w)
      BY <2>2, <2>3, <2>4, <3>1
    <3> QED  BY <3>2 DEF w
  <2>5. CASE ~ClosedUnder(nodes, v)
    <3>1. PICK a \in v, b \in ids : Near(nodes, a, b) /\ b \notin v
      BY <2>5 DEF ClosedUnder, ids
    <3>2. b \in w
      BY <1>2, <2>1, <3>1
    <3>3. IsFiniteSet(v) /\ IsFiniteSet(w) /\ Cardinality(v) \in Nat /\ Cardinality(w) \in Nat
      BY <1>9, <2>1, <2>2, FS_Subset, FS_CardinalityType
    <3>4. Cardinality(v \cup {b}) = Cardinality(v) + 1
      BY <3>1, <3>3, FS_AddElement
    <3>5. v \cup {b} \in SUBSET w
      BY <2>2, <3>2
    <3>6. Cardinality(v \cup {b}) <= Cardinality(w)
      BY <3>3, <3>5, FS_Subset
    <3>7. Cardinality(v) >= (k - 1) + 1
      BY <2>1, <2>5
    <3>8. Cardinality(w) >= k + 1
      BY <3>3, <3>4, <3>6, <3>7
    <3>9. Inv(k, w)
      BY <2>2, <2>3, <3>8
    <3> QED  BY <3>9 DEF w
  <2> QED  BY <2>4, <2>5
<1>12. n \in Good
  <2>1. \A k \in 1..n : k - 1 \in Good => k \in Good
    BY <1>11
  <2> HIDE DEF Good
  <2>2. \A k \in 0..n : k \in Good
    BY <1>1, <1>10, <2>1, EveryTurn
  <2> QED  BY <1>1, <2>2
<1> DEFINE v == at[n]
<1>13. Inv(n, v)
  BY <1>12
<1> HIDE DEF v
<1>14. Cardinality(v) <= n /\ Cardinality(v) \in Nat
  BY <1>9, <1>13, FS_Subset, FS_CardinalityType
<1>15. ClosedUnder(nodes, v)
  BY <1>1, <1>13, <1>14
<1> QED  BY <1>7, <1>13, <1>15 DEF v, ids, first

\* orchestrate.go:274-315: checkConnected says whether the nodes are connected.
LEMMA ConnectedChecked ==
  ASSUME NEW nodes \in Seq(Node), Cardinality(IDs(nodes)) = Len(nodes)
  PROVE  checkConnected(nodes) <=> Connected(IDs(nodes), Edges(nodes))
<1> DEFINE ids == IDs(nodes)  E == Edges(nodes)  n == Len(nodes)
<1>1. /\ n \in Nat /\ IsFiniteSet(ids) /\ Cardinality(ids) = n
      /\ \A id \in ids : \E i \in 1..n : nodes[i].id = id
  BY SliceIs
<1>2. Connected(ids, E) <=> \A S \in (SUBSET ids) \ {{}, ids} : \E a \in S, b \in ids \ S : Near(nodes, a, b)
  BY DEF Connected, Near
<1> HIDE DEF n, ids, E
<1>3. CASE n <= 1
  <2>1. \A a, b \in ids : a = b
    <3> SUFFICES ASSUME NEW a \in ids, NEW b \in ids PROVE a = b
      OBVIOUS
    <3>1. PICK i \in 1..n, k \in 1..n : nodes[i].id = a /\ nodes[k].id = b
      BY <1>1
    <3>2. i = k
      BY <1>1, <1>3
    <3> QED  BY <3>1, <3>2
  <2>2. (SUBSET ids) \ {{}, ids} = {}
    BY <2>1
  <2>3. checkConnected(nodes)
    BY <1>3 DEF checkConnected, n
  <2> QED  BY <1>2, <2>2, <2>3 DEF ids, E
<1>4. CASE n > 1
  <2> DEFINE R == Reached(nodes)  first == nodes[1].id
  <2>1. /\ R \in SUBSET ids /\ first \in R /\ ClosedUnder(nodes, R)
        /\ \A T \in SUBSET ids : first \in T /\ ClosedUnder(nodes, T) => R \subseteq T
    <3>1. Cardinality(IDs(nodes)) = Len(nodes) /\ Len(nodes) > 0
      BY <1>1, <1>4 DEF n
    <3> QED  BY <3>1, ReachedIs DEF ids
  <2> HIDE DEF R, first
  <2>2. checkConnected(nodes) <=> R = ids
    <3>1. checkConnected(nodes) <=> Cardinality(R) = n
      BY <1>1, <1>4 DEF checkConnected, n, R
    <3>2. Cardinality(R) = n => R = ids
      BY <1>1, <2>1, FS_Subset
    <3> QED  BY <1>1, <3>1, <3>2
  <2>3. ASSUME R = ids
        PROVE  Connected(ids, E)
    <3> SUFFICES ASSUME NEW S \in (SUBSET ids) \ {{}, ids}, \A a \in S, b \in ids \ S : ~Near(nodes, a, b)
                 PROVE  FALSE
      BY <1>2
    <3>1. \A a \in ids, b \in ids : Near(nodes, a, b) => Near(nodes, b, a)
      BY DEF Near
    <3>2. ClosedUnder(nodes, S) /\ ClosedUnder(nodes, ids \ S)
      BY <3>1 DEF ClosedUnder, ids
    <3>3. CASE first \in S
      BY <2>1, <2>3, <3>2, <3>3
    <3>4. CASE first \notin S
      <4>1. ids \ S \in SUBSET ids /\ first \in ids \ S
        BY <2>1, <3>4
      <4>2. R \subseteq ids \ S
        BY <2>1, <3>2, <4>1
      <4> QED  BY <2>3, <4>2
    <3> QED  BY <3>3, <3>4
  <2>4. ASSUME Connected(ids, E)
        PROVE  R = ids
    <3> SUFFICES ASSUME R # ids PROVE FALSE
      OBVIOUS
    <3>1. R \in (SUBSET ids) \ {{}, ids}
      BY <2>1
    <3>2. PICK a \in R, b \in ids \ R : Near(nodes, a, b)
      BY <1>2, <2>4, <3>1
    <3> QED  BY <2>1, <3>2 DEF ClosedUnder, ids
  <2> QED  BY <2>2, <2>3, <2>4 DEF ids, E
<1> QED  BY <1>1, <1>3, <1>4

\* orchestrate.go:242-272: ValidateDAG accepts connected acyclic graphs and no others.
LEMMA ValidateIs ==
  ASSUME NEW nodes \in Seq(Node)
  PROVE  ValidateDAG(nodes) = "ok" <=> Sound(Len(nodes), IDs(nodes), Edges(nodes))
<1> DEFINE ids == IDs(nodes)  n == Len(nodes)
           unknown == \E i \in DOMAIN nodes : ~(Range(nodes[i].deps) \subseteq ids)
<1>1. /\ n \in Nat /\ DOMAIN nodes = 1..n /\ Cardinality(ids) \in Nat /\ Cardinality(ids) <= n
      /\ \A i \in 1..n : nodes[i].id \in ids
      /\ \A a, b : <<a, b>> \in Edges(nodes) <=> \E i \in 1..n : nodes[i].id = b /\ a \in Range(nodes[i].deps)
      /\ \A e \in Edges(nodes) : e = <<e[1], e[2]>>
  BY SliceIs
<1> HIDE DEF ids, n
<1>2. unknown <=> ~(Edges(nodes) \subseteq ids \X ids)
  <2>1. ASSUME NEW i \in 1..n, NEW a \in Range(nodes[i].deps), a \notin ids
        PROVE  ~(Edges(nodes) \subseteq ids \X ids)
    <3>1. <<a, nodes[i].id>> \in Edges(nodes)
      BY <1>1
    <3>2. <<a, nodes[i].id>> \notin ids \X ids
      BY <2>1
    <3> QED  BY <3>1, <3>2
  <2>2. ASSUME ~unknown, NEW e \in Edges(nodes)
        PROVE  e \in ids \X ids
    <3>1. e = <<e[1], e[2]>> /\ <<e[1], e[2]>> \in Edges(nodes)
      BY <1>1
    <3>2. PICK i \in 1..n : nodes[i].id = e[2] /\ e[1] \in Range(nodes[i].deps)
      BY <1>1, <3>1
    <3>3. e[1] \in ids /\ e[2] \in ids
      BY <1>1, <2>2, <3>2
    <3> QED  BY <3>1, <3>3
  <2> QED  BY <1>1, <2>1, <2>2
<1>3. detectCycle(nodes) <=> ~Acyclic(ids, Edges(nodes))
  BY CycleDetected DEF ids
<1>4. Cardinality(ids) = n => (checkConnected(nodes) <=> Connected(ids, Edges(nodes)))
  BY ConnectedChecked DEF ids, n
<1>5. ValidateDAG(nodes) = "ok" <=>
          ~(Cardinality(ids) < n) /\ ~unknown /\ ~detectCycle(nodes) /\ checkConnected(nodes)
  BY DEF ValidateDAG, ids, n
<1> HIDE DEF unknown
<1>6. ~(Cardinality(ids) < n) <=> Cardinality(ids) = n
  BY <1>1
<1> QED  BY <1>2, <1>3, <1>4, <1>5, <1>6 DEF Sound, ids, n

\* The nodes made of edges have these edges.
LEMMA DepsFromEdgesIs ==
  ASSUME NEW ids \in Seq(ID), NEW edges \in Seq(ID \X ID),
         NEW nodes, nodes = DepsFromEdges(ids, edges)
  PROVE  /\ nodes \in Seq(Node) /\ Len(nodes) = Len(ids) /\ IDs(nodes) = Range(ids)
         /\ \A a, b : <<a, b>> \in Edges(nodes) <=> b \in Range(ids) /\ <<a, b>> \in Range(edges)
<1> DEFINE n == Len(ids)  m == Len(edges)
           Into(b) == Ascending({k \in DOMAIN edges : edges[k][2] = b}, Len(edges))
           Deps(b) == [k \in DOMAIN Into(b) |-> edges[Into(b)[k]][1]]
<1>1. /\ n \in Nat /\ DOMAIN ids = 1..n /\ m \in Nat /\ DOMAIN edges = 1..m
      /\ \A i \in 1..n : ids[i] \in ID
      /\ \A k \in 1..m : edges[k] = <<edges[k][1], edges[k][2]>> /\ edges[k][1] \in ID
  <2>1. \A k \in 1..m : edges[k] \in ID \X ID
    BY ElementOfSeq
  <2> QED  BY <2>1, LenProperties, ElementOfSeq
<1>2. \A b : /\ Deps(b) \in Seq(ID)
             /\ \A a : a \in Range(Deps(b)) <=> <<a, b>> \in Range(edges)
  <2> TAKE b
  <2> DEFINE S == {k \in DOMAIN edges : edges[k][2] = b}  into == Into(b)  deps == Deps(b)
  <2>1. into \in Seq(1..m) /\ Range(into) = S \cap (1..m)
    BY <1>1, AscendingIs
  <2>2. deps = [k \in DOMAIN into |-> edges[into[k]][1]]
    OBVIOUS
  <2>3. S \cap (1..m) = {k \in 1..m : edges[k][2] = b}
    BY <1>1
  <2> HIDE DEF S, into, deps
  <2>4. /\ Len(into) \in Nat /\ DOMAIN into = 1..Len(into)
        /\ \A k \in 1..Len(into) : into[k] \in 1..m /\ edges[into[k]][2] = b
        /\ \A j \in 1..m : edges[j][2] = b => \E k \in 1..Len(into) : into[k] = j
    <3>1. Len(into) \in Nat /\ DOMAIN into = 1..Len(into)
      BY <2>1, LenProperties
    <3> HIDE DEF m
    <3>2. \A j : j \in Range(into) <=> j \in 1..m /\ edges[j][2] = b
      BY <2>1, <2>3
    <3> QED  BY <3>1, <3>2 DEF Range
  <2> HIDE DEF m
  <2>5. deps \in Seq(ID)
    <3> DEFINE c == Len(into)
    <3>1. \A k \in 1..c : edges[into[k]][1] \in ID
      BY <1>1, <2>4
    <3>2. deps = [k \in 1..c |-> edges[into[k]][1]] /\ c \in Nat
      BY <2>2, <2>4
    <3> HIDE DEF c
    <3>3. deps \in [1..c -> ID]
      BY <3>1, <3>2
    <3> QED  BY <3>2, <3>3, IsASeq
  <2>6. ASSUME NEW a
        PROVE  a \in Range(deps) <=> <<a, b>> \in Range(edges)
    <3>1. ASSUME NEW k \in 1..Len(into), deps[k] = a
          PROVE  <<a, b>> \in Range(edges)
      <4>1. into[k] \in 1..m /\ edges[into[k]] = <<edges[into[k]][1], edges[into[k]][2]>> /\ edges[into[k]][2] = b
        BY <1>1, <2>4
      <4>2. edges[into[k]][1] = a
        BY <2>2, <2>4, <3>1
      <4>3. edges[into[k]] = <<a, b>>
        BY <4>1, <4>2
      <4> QED  BY <1>1, <4>1, <4>3 DEF Range
    <3>2. ASSUME NEW j \in 1..m, edges[j] = <<a, b>>
          PROVE  a \in Range(deps)
      <4>1. edges[j][1] = a /\ edges[j][2] = b
        BY <3>2
      <4>2. PICK k \in 1..Len(into) : into[k] = j
        BY <2>4, <4>1
      <4>3. deps[k] = a /\ k \in DOMAIN deps
        BY <2>2, <2>4, <4>1, <4>2
      <4> QED  BY <4>3 DEF Range
    <3>3. DOMAIN deps = 1..Len(into)
      BY <2>2, <2>4
    <3> QED  BY <1>1, <3>1, <3>2, <3>3 DEF Range
  <2> QED  BY <2>5, <2>6 DEF deps
<1> HIDE DEF n, m
<1>3. nodes = [i \in 1..n |-> [id |-> ids[i], deps |-> Deps(ids[i])]]
  BY <1>1 DEF DepsFromEdges
<1> HIDE DEF Deps
<1>4. nodes \in [1..n -> Node] /\ \A i \in 1..n : nodes[i].id = ids[i] /\ nodes[i].deps = Deps(ids[i])
  BY <1>1, <1>2, <1>3 DEF Node
<1>5. nodes \in Seq(Node) /\ Len(nodes) = n /\ DOMAIN nodes = 1..n
  <2>1. nodes \in Seq(Node)
    BY <1>1, <1>4, IsASeq
  <2>2. DOMAIN nodes = 1..n /\ DOMAIN nodes = 1..Len(nodes) /\ Len(nodes) \in Nat
    BY <1>4, <2>1, LenProperties
  <2> QED  BY <1>1, <2>1, <2>2, LenProperties
<1>6. IDs(nodes) = Range(ids)
  BY <1>1, <1>4, <1>5 DEF IDs, Range
<1>7. ASSUME NEW a, NEW b
      PROVE  <<a, b>> \in Edges(nodes) <=> b \in Range(ids) /\ <<a, b>> \in Range(edges)
  <2>1. <<a, b>> \in Edges(nodes) <=> \E i \in 1..n : nodes[i].id = b /\ a \in Range(nodes[i].deps)
    <3>1. \A x, y : <<x, y>> \in Edges(nodes) <=>
              \E i \in 1..Len(nodes) : nodes[i].id = y /\ x \in Range(nodes[i].deps)
      BY <1>5, SliceIs
    <3> QED  BY <1>5, <3>1
  <2>2. (\E i \in 1..n : nodes[i].id = b /\ a \in Range(nodes[i].deps))
            <=> (\E i \in 1..n : ids[i] = b) /\ <<a, b>> \in Range(edges)
    <3>1. \A i \in 1..n : nodes[i].id = ids[i] /\ nodes[i].deps = Deps(ids[i])
      BY <1>4
    <3>2. a \in Range(Deps(b)) <=> <<a, b>> \in Range(edges)
      BY <1>2
    <3>3. \A i \in 1..n : nodes[i].id = b /\ a \in Range(nodes[i].deps)
                              <=> ids[i] = b /\ a \in Range(Deps(b))
      BY <3>1
    <3> QED  BY <3>2, <3>3
  <2>3. (\E i \in 1..n : ids[i] = b) <=> b \in Range(ids)
    BY <1>1 DEF Range
  <2> QED  BY <2>1, <2>2, <2>3
<1> QED  BY <1>5, <1>6, <1>7 DEF n

\* BuildDAG's checks from the edges on.
EdgesAccepted(ids, edges) ==
    /\ ~\E k \in DOMAIN edges : ~({edges[k][1], edges[k][2]} \subseteq Range(ids))
    /\ ValidateDAG(DepsFromEdges(ids, edges)) = "ok"

\* They accept what is sound.
LEMMA EdgesAcceptedIs ==
  ASSUME NEW ids \in Seq(ID), NEW edges \in Seq(ID \X ID)
  PROVE  EdgesAccepted(ids, edges) <=> Sound(Len(ids), Range(ids), Range(edges))
<1> DEFINE nodes == DepsFromEdges(ids, edges)  R == Range(ids)  E == Range(edges)
           unknown == \E k \in DOMAIN edges : ~({edges[k][1], edges[k][2]} \subseteq R)
<1>1. /\ nodes \in Seq(Node) /\ Len(nodes) = Len(ids) /\ IDs(nodes) = R
      /\ \A a, b : <<a, b>> \in Edges(nodes) <=> b \in R /\ <<a, b>> \in E
  BY DepsFromEdgesIs
<1> HIDE DEF nodes
<1>2. \A k \in DOMAIN edges : edges[k] \in ID \X ID
  BY LenProperties, ElementOfSeq
<1>3. unknown <=> ~(E \subseteq R \X R)
  <2>1. \A k \in DOMAIN edges : edges[k] \in R \X R <=> {edges[k][1], edges[k][2]} \subseteq R
    <3> TAKE k \in DOMAIN edges
    <3> DEFINE a == edges[k][1]  b == edges[k][2]
    <3>1. edges[k] = <<a, b>>
      BY <1>2
    <3> HIDE DEF a, b
    <3>2. edges[k] \in R \X R <=> {a, b} \subseteq R
      BY <3>1
    <3> QED  BY <3>2 DEF a, b
  <2>2. E \subseteq R \X R <=> \A k \in DOMAIN edges : edges[k] \in R \X R
    <3> HIDE DEF R
    <3> QED  BY DEF Range
  <2> HIDE DEF R, E
  <2> QED  BY <2>1, <2>2
<1>4. E \subseteq R \X R => Edges(nodes) = E
  <2> SUFFICES ASSUME E \subseteq R \X R PROVE Edges(nodes) = E
    OBVIOUS
  <2>1. \A e \in E : e = <<e[1], e[2]>> /\ e[2] \in R
    OBVIOUS
  <2>2. \A e \in Edges(nodes) : e = <<e[1], e[2]>>
    BY <1>1, SliceIs
  <2> HIDE DEF E
  <2>3. \A e \in E : e \in Edges(nodes)
    <3> TAKE e \in E
    <3> DEFINE a == e[1]  b == e[2]
    <3>1. e = <<a, b>> /\ b \in R
      BY <2>1
    <3> HIDE DEF a, b
    <3> QED  BY <1>1, <3>1
  <2>4. \A e \in Edges(nodes) : e \in E
    <3> TAKE e \in Edges(nodes)
    <3> DEFINE a == e[1]  b == e[2]
    <3>1. e = <<a, b>>
      BY <2>2
    <3> HIDE DEF a, b
    <3> QED  BY <1>1, <3>1
  <2> QED  BY <2>3, <2>4
<1>5. ValidateDAG(nodes) = "ok" <=> Sound(Len(ids), R, Edges(nodes))
  BY <1>1, ValidateIs
<1>6. /\ Len(ids) \in Nat /\ Cardinality(R) \in Nat /\ Cardinality(R) <= Len(ids)
  BY <1>1, SliceIs
<1>7. EdgesAccepted(ids, edges) <=> ~unknown /\ ValidateDAG(nodes) = "ok"
  BY DEF EdgesAccepted, nodes
<1> HIDE DEF R, E, unknown
<1>9. Sound(Len(ids), R, E) <=>
          Cardinality(R) = Len(ids) /\ E \subseteq R \X R /\ Acyclic(R, E) /\ Connected(R, E)
  BY DEF Sound
<1>10. Sound(Len(ids), R, E) => Cardinality(R) = Len(ids) /\ E \subseteq R \X R
  BY <1>9
<1>11. CASE Cardinality(R) = Len(ids) /\ E \subseteq R \X R
  <2>1. Edges(nodes) = E
    BY <1>4, <1>11
  <2> QED  BY <1>3, <1>5, <1>7, <1>11, <2>1 DEF R, E
<1>12. CASE ~(Cardinality(R) = Len(ids) /\ E \subseteq R \X R)
  <2>1. ~Sound(Len(ids), R, E)
    BY <1>10, <1>12
  <2>2. Sound(Len(ids), R, Edges(nodes)) => Cardinality(R) = Len(ids)
    BY DEF Sound
  <2> QED  BY <1>3, <1>5, <1>7, <1>12, <2>1, <2>2 DEF R, E
<1> QED  BY <1>11, <1>12

\* Counting.
LEMMA CountTo ==
  ASSUME NEW n \in Nat
  PROVE  IsFiniteSet(1..n) /\ Cardinality(1..n) = n
<1>1. IsFiniteSet(1..n) /\ Cardinality(1..n) = IF 1 > n THEN 0 ELSE n - 1 + 1
  BY FS_Interval
<1> QED  BY <1>1

\* A sequence with a repetition has fewer members than places.
LEMMA RepeatedIs ==
  ASSUME NEW ids \in Seq(ID), NEW i \in 1..Len(ids), Repeated(ids, i)
  PROVE  Cardinality(Range(ids)) # Len(ids)
<1> DEFINE n == Len(ids)  R == Range(ids)  D == 1..n  rest == D \ {i}
<1>1. n \in Nat /\ DOMAIN ids = D
  BY LenProperties
<1>2. PICK k \in 1..i - 1 : ids[k] = ids[i]
  BY DEF Repeated
<1>3. k \in rest
  BY <1>1
<1>4. IsFiniteSet(D) /\ Cardinality(D) = n
  BY <1>1, CountTo
<1>5. IsFiniteSet(rest) /\ Cardinality(rest) = n - 1
  <2> HIDE DEF D, n
  <2>1. i \in D
    BY DEF D, n
  <2> QED  BY <1>4, <2>1, FS_RemoveElement
<1>6. R = {ids[j] : j \in rest}
  <2>1. \A j \in D : \E m \in rest : ids[m] = ids[j]
    BY <1>2, <1>3
  <2> HIDE DEF D
  <2> QED  BY <1>1, <2>1 DEF Range
<1> DEFINE f == [j \in rest |-> ids[j]]
<1>7. f \in Surjection(rest, R)
  <2> HIDE DEF rest, R
  <2> QED  BY <1>6 DEF Surjection
<1>8. Cardinality(R) <= n - 1 /\ Cardinality(R) \in Nat
  <2> HIDE DEF rest, R, f
  <2> QED  BY <1>5, <1>7, FS_Surjection, FS_CardinalityType
<1> QED  BY <1>1, <1>8

\* orchestrate.go:199-240: so does BuildDAG, where no node has Deps.
LEMMA BuildIs ==
  ASSUME NEW slice \in Seq(Node), NEW edges \in Seq(ID \X ID)
  PROVE  BuildDAG(slice, edges) = "ok" <=>
             /\ \A i \in DOMAIN slice : slice[i].deps = <<>>
             /\ Sound(Len(slice), IDs(slice), Range(edges))
<1> DEFINE ids == [i \in DOMAIN slice |-> slice[i].id]
           mixed == \E i \in DOMAIN slice : slice[i].deps # <<>>
           repeated == \E i \in DOMAIN slice : Repeated(ids, i)
<1>1. BuildDAG(slice, edges) = "ok" <=> ~mixed /\ ~repeated /\ EdgesAccepted(ids, edges)
  <2> DEFINE wrong == {i \in DOMAIN slice : Repeated(ids, i) \/ slice[i].deps # <<>>}
  <2>1. wrong = {} <=> ~mixed /\ ~repeated
    OBVIOUS
  <2>2. CASE wrong # {}
    <3>1. BuildDAG(slice, edges) \in {"duplicate", "mixed"}
      BY <2>2 DEF BuildDAG
    <3> QED  BY <2>1, <2>2, <3>1
  <2>3. CASE wrong = {}
    <3>1. BuildDAG(slice, edges) = "ok" <=> EdgesAccepted(ids, edges)
      BY <2>3 DEF BuildDAG, EdgesAccepted
    <3> QED  BY <2>1, <2>3, <3>1
  <2> QED  BY <2>2, <2>3
<1>2. ids \in Seq(ID) /\ Len(ids) = Len(slice) /\ DOMAIN slice = 1..Len(ids)
  <2> DEFINE n == Len(slice)
  <2>1. n \in Nat /\ DOMAIN slice = 1..n /\ \A i \in 1..n : slice[i] \in Node
    BY LenProperties, ElementOfSeq
  <2>2. \A i \in 1..n : slice[i].id \in ID
    BY <2>1 DEF Node
  <2> HIDE DEF n
  <2>3. ids \in [1..n -> ID]
    BY <2>1, <2>2
  <2>4. ids \in Seq(ID)
    BY <2>1, <2>3, IsASeq
  <2>5. DOMAIN ids = 1..Len(ids) /\ DOMAIN ids = 1..n /\ Len(ids) \in Nat
    BY <2>3, <2>4, LenProperties
  <2> HIDE DEF ids
  <2>6. Len(ids) = n
    <3>1. Cardinality(1..n) = n /\ Cardinality(1..Len(ids)) = Len(ids)
      BY <2>1, <2>5, CountTo
    <3>2. 1..n = 1..Len(ids)
      BY <2>5
    <3> QED  BY <3>1, <3>2
  <2> QED  BY <2>1, <2>4, <2>6 DEF n
<1>3. IDs(slice) = Range(ids)
  <2>1. DOMAIN ids = DOMAIN slice
    OBVIOUS
  <2> QED  BY <2>1 DEF IDs, Range
<1>4. ~mixed <=> \A i \in DOMAIN slice : slice[i].deps = <<>>
  OBVIOUS
<1> HIDE DEF ids, mixed
<1>5. EdgesAccepted(ids, edges) <=> Sound(Len(ids), Range(ids), Range(edges))
  BY <1>2, EdgesAcceptedIs
<1>6. Sound(Len(ids), Range(ids), Range(edges)) => ~repeated
  <2>1. Sound(Len(ids), Range(ids), Range(edges)) => Cardinality(Range(ids)) = Len(ids)
    BY DEF Sound
  <2> QED  BY <1>2, <2>1, RepeatedIs
<1> HIDE DEF repeated
<1> QED  BY <1>1, <1>2, <1>3, <1>4, <1>5, <1>6


\* Lists without repetition: put one behind the other, made longer, made shorter.
LEMMA JoinOnce ==
  ASSUME NEW S, NEW p \in Seq(S), NEW q \in Seq(S), IsInjective(p), IsInjective(q),
         Range(p) \cap Range(q) = {}
  PROVE  p \o q \in Seq(S) /\ IsInjective(p \o q) /\ Range(p \o q) = Range(p) \cup Range(q)
<1> DEFINE m == Len(p)  n == Len(q)  r == p \o q
<1>1. /\ m \in Nat /\ n \in Nat /\ DOMAIN p = 1..m /\ DOMAIN q = 1..n
  BY LenProperties
<1>2. /\ r \in Seq(S) /\ Len(r) = m + n /\ \A i \in 1..(m + n) : r[i] = IF i <= m THEN p[i] ELSE q[i - m]
  BY ConcatProperties
<1>3. DOMAIN r = 1..(m + n)
  <2> HIDE DEF r
  <2> QED  BY <1>2, LenProperties
<1> HIDE DEF m, n, r
<1>4. \A i \in 1..(m + n) : (i \in 1..m /\ r[i] = p[i]) \/ (i - m \in 1..n /\ r[i] = q[i - m])
  BY <1>1, <1>2
<1>5. \A i \in 1..m, k \in 1..n : p[i] # q[k]
  BY <1>1 DEF Range
<1>6. ASSUME NEW i \in 1..(m + n), NEW k \in 1..(m + n), r[i] = r[k]
      PROVE  i = k
  <2>1. CASE i \in 1..m /\ r[i] = p[i] /\ k \in 1..m /\ r[k] = p[k]
    BY <1>1, <1>6, <2>1 DEF IsInjective
  <2>2. CASE i - m \in 1..n /\ r[i] = q[i - m] /\ k - m \in 1..n /\ r[k] = q[k - m]
    <3>1. i - m = k - m
      BY <1>1, <1>6, <2>2 DEF IsInjective
    <3> QED  BY <1>1, <3>1
  <2> QED  BY <1>4, <1>5, <1>6, <2>1, <2>2
<1>7. IsInjective(r)
  BY <1>3, <1>6 DEF IsInjective
<1>8. Range(r) = Range(p) \cup Range(q)
  BY RangeConcatenation DEF r
<1> QED  BY <1>2, <1>7, <1>8 DEF r

LEMMA AppendOnce ==
  ASSUME NEW S, NEW p \in Seq(S), IsInjective(p), NEW x \in S, x \notin Range(p)
  PROVE  /\ Append(p, x) \in Seq(S) /\ IsInjective(Append(p, x))
         /\ Range(Append(p, x)) = Range(p) \cup {x}
<1> DEFINE q == <<x>>
<1>1. q \in Seq(S) /\ IsInjective(q) /\ Range(q) = {x}
  BY DEF IsInjective, Range
<1>2. Append(p, x) = p \o q
  BY AppendIsConcat
<1> HIDE DEF q
<1>3. Range(p) \cap Range(q) = {}
  BY <1>1
<1> QED  BY <1>1, <1>2, <1>3, JoinOnce

LEMMA TailOnce ==
  ASSUME NEW S, NEW p \in Seq(S), IsInjective(p), p # <<>>
  PROVE  /\ Tail(p) \in Seq(S) /\ IsInjective(Tail(p)) /\ Head(p) \in Range(p)
         /\ Range(Tail(p)) = Range(p) \ {Head(p)}
<1> DEFINE n == Len(p)  t == Tail(p)  h == Head(p)
<1>1. n \in Nat \ {0} /\ DOMAIN p = 1..n
  BY EmptySeq, LenProperties
<1>2. t \in Seq(S) /\ Len(t) = n - 1 /\ (\A i \in 1..Len(t) : t[i] = p[i + 1])
  BY HeadTailProperties
<1>3. h = p[1]
  BY <1>1
<1>4. DOMAIN t = 1..(n - 1)
  <2> HIDE DEF t, n
  <2> QED  BY <1>2, LenProperties
<1> HIDE DEF n, t, h
<1>5. \A i \in 1..(n - 1) : t[i] = p[i + 1] /\ i + 1 \in 1..n
  BY <1>1, <1>2
<1>6. IsInjective(t)
  <2> SUFFICES ASSUME NEW i \in 1..(n - 1), NEW k \in 1..(n - 1), t[i] = t[k] PROVE i = k
    BY <1>4 DEF IsInjective
  <2>1. i + 1 = k + 1
    BY <1>1, <1>5 DEF IsInjective
  <2> QED  BY <2>1
<1>7. h \in Range(p)
  BY <1>1, <1>3 DEF Range
<1>8. ASSUME NEW x
      PROVE  x \in Range(t) <=> x \in Range(p) /\ x # h
  <2>1. ASSUME NEW i \in 1..(n - 1), t[i] = x
        PROVE  x \in Range(p) /\ x # h
    <3>1. x = p[i + 1] /\ i + 1 \in 1..n
      BY <1>5, <2>1
    <3>2. 1 \in 1..n /\ i + 1 # 1
      BY <1>1
    <3>3. p[i + 1] # p[1]
      BY <1>1, <3>1, <3>2 DEF IsInjective
    <3> QED  BY <1>1, <1>3, <3>1, <3>3 DEF Range
  <2>2. ASSUME NEW i \in 1..n, p[i] = x, x # h
        PROVE  x \in Range(t)
    <3>1. i # 1
      BY <1>3, <2>2
    <3>2. i - 1 \in 1..(n - 1) /\ (i - 1) + 1 = i
      BY <1>1, <3>1
    <3>3. t[i - 1] = x
      BY <1>5, <2>2, <3>2
    <3> QED  BY <1>4, <3>2, <3>3 DEF Range
  <2> QED  BY <1>1, <1>4, <2>1, <2>2 DEF Range
<1> QED  BY <1>2, <1>6, <1>7, <1>8 DEF t, h

\* Nodes in the slice's order, each once.
LEMMA InSliceIs ==
  ASSUME NEW nodes \in Seq(Node), Cardinality(IDs(nodes)) = Len(nodes), NEW S \in SUBSET IDs(nodes)
  PROVE  /\ InSlice(nodes, S) \in Seq(IDs(nodes)) /\ IsInjective(InSlice(nodes, S))
         /\ Range(InSlice(nodes, S)) = S
<1> DEFINE n == Len(nodes)  P == {i \in DOMAIN nodes : nodes[i].id \in S}
           at == Ascending(P, Len(nodes))  list == InSlice(nodes, S)
<1>1. /\ n \in Nat /\ DOMAIN nodes = 1..n
      /\ \A i \in 1..n : nodes[i].id \in IDs(nodes)
      /\ \A id \in IDs(nodes) : \E i \in 1..n : nodes[i].id = id
      /\ \A i, k \in 1..n : nodes[i].id = nodes[k].id => i = k
  BY SliceIs, NodeIs
<1>2. /\ at \in Seq(1..n) /\ Range(at) = P \cap (1..n)
      /\ \A i, k \in 1..Len(at) : i < k => at[i] < at[k]
  BY <1>1, AscendingIs
<1>3. list = [k \in DOMAIN at |-> nodes[at[k]].id]
  BY DEF InSlice
<1>4. P = {i \in 1..n : nodes[i].id \in S}
  BY <1>1
<1> HIDE DEF n, P, at, list
<1>5. Len(at) \in Nat /\ DOMAIN at = 1..Len(at) /\ \A k \in 1..Len(at) : at[k] \in 1..n
  BY <1>2, LenProperties, ElementOfSeq
<1>6. list \in Seq(IDs(nodes)) /\ DOMAIN list = 1..Len(at)
  <2>1. list \in [1..Len(at) -> IDs(nodes)]
    BY <1>1, <1>3, <1>5
  <2> QED  BY <1>5, <2>1, IsASeq
<1>7. IsInjective(list)
  <2> SUFFICES ASSUME NEW i \in 1..Len(at), NEW k \in 1..Len(at), list[i] = list[k] PROVE i = k
    BY <1>6 DEF IsInjective
  <2>1. at[i] = at[k]
    BY <1>1, <1>3, <1>5
  <2>2. at[i] \in Int
    BY <1>5
  <2> QED  BY <1>2, <1>5, <2>1, <2>2
<1>8. Range(list) = S
  <2>1. \A k \in 1..Len(at) : list[k] \in S
    BY <1>2, <1>3, <1>4, <1>5 DEF Range
  <2>2. ASSUME NEW id \in S
        PROVE  \E k \in 1..Len(at) : list[k] = id
    <3>1. PICK i \in 1..n : nodes[i].id = id
      BY <1>1
    <3>2. i \in Range(at)
      BY <1>2, <1>4, <3>1
    <3>3. PICK k \in 1..Len(at) : at[k] = i
      BY <1>5, <3>2 DEF Range
    <3> QED  BY <1>3, <1>5, <3>1, <3>3
  <2> QED  BY <1>6, <2>1, <2>2 DEF Range
<1> QED  BY <1>6, <1>7, <1>8 DEF list

\* The nodes of a graph that ValidateDAG accepts.
Proper(nodes) == nodes \in Seq(Node) /\ Sound(Len(nodes), IDs(nodes), Edges(nodes))

\* What node id depends on, as far as it is not in sorted: places in its Deps.
Open(nodes, id, sorted) == {k \in DOMAIN DepsOf(nodes, id) : DepsOf(nodes, id)[k] \notin sorted}

\* Sorting: the order so far and the queue have no node twice; a node is in one
\* of them when all it depends on is in the order, which its in-degree tells.
Sorting(nodes, s) ==
    /\ s \in [queue : Seq(IDs(nodes)), deg : [IDs(nodes) -> Int], order : Seq(IDs(nodes))]
    /\ IsInjective(s.queue) /\ IsInjective(s.order) /\ Range(s.order) \cap Range(s.queue) = {}
    /\ \A id \in IDs(nodes) : s.deg[id] = Cardinality(Open(nodes, id, Range(s.order)))
    /\ \A id \in IDs(nodes) : s.deg[id] = 0 <=> id \in Range(s.order) \cup Range(s.queue)
    /\ \A i \in 1..Len(s.order) : \A a \in Range(DepsOf(nodes, s.order[i])) :
          \E j \in 1..(i - 1) : s.order[j] = a

\* Open places become fewer by those that mention one node more.
LEMMA OpenLess ==
  ASSUME NEW nodes \in Seq(Node), Cardinality(IDs(nodes)) = Len(nodes), NEW id \in IDs(nodes),
         NEW sorted, NEW h, h \notin sorted
  PROVE  /\ Cardinality(Open(nodes, id, sorted)) \in Nat
         /\ Cardinality(Open(nodes, id, sorted)) = 0 <=> Range(DepsOf(nodes, id)) \subseteq sorted
         /\ Cardinality(Open(nodes, id, sorted)) - Mentions(nodes, id, h)
                = Cardinality(Open(nodes, id, sorted \cup {h}))
<1> DEFINE d == DepsOf(nodes, id)  A == Open(nodes, id, sorted)  B == Open(nodes, id, sorted \cup {h})
           C == {k \in DOMAIN d : d[k] = h}
<1>1. d \in Seq(ID)
  BY NodeIs
<1>2. IsFiniteSet(DOMAIN d)
  <2> HIDE DEF d
  <2>1. DOMAIN d = 1..Len(d) /\ Len(d) \in Nat
    BY <1>1, LenProperties
  <2> QED  BY <2>1, FS_Interval
<1>3. A \in SUBSET DOMAIN d /\ B \in SUBSET DOMAIN d /\ C \in SUBSET DOMAIN d
  BY DEF Open
<1>4. A = B \cup C /\ B \cap C = {}
  BY DEF Open
<1>5. Mentions(nodes, id, h) = Cardinality(C)
  BY DEF Mentions
<1>6. A = {} <=> Range(d) \subseteq sorted
  BY DEF Open, Range
<1> HIDE DEF d, A, B, C
<1>7. /\ IsFiniteSet(A) /\ IsFiniteSet(B) /\ IsFiniteSet(C)
      /\ Cardinality(A) \in Nat /\ Cardinality(B) \in Nat /\ Cardinality(C) \in Nat
  BY <1>2, <1>3, FS_Subset, FS_CardinalityType
<1>8. Cardinality(A) = Cardinality(B) + Cardinality(C) - Cardinality(B \cap C)
  BY <1>4, <1>7, FS_Union
<1>9. Cardinality(B \cap C) = 0
  BY <1>4, FS_EmptySet
<1>10. Cardinality(A) - Cardinality(C) = Cardinality(B)
  BY <1>7, <1>8, <1>9
<1>11. Cardinality(A) = 0 <=> Range(d) \subseteq sorted
  BY <1>6, <1>7, FS_EmptySet
<1> QED  BY <1>5, <1>7, <1>10, <1>11 DEF A, B, d

\* Before the first turn the queue has the nodes that depend on nothing.
LEMMA SortingStarts ==
  ASSUME NEW nodes \in Seq(Node), Cardinality(IDs(nodes)) = Len(nodes), NEW s,
         s = [queue |-> InSlice(nodes, {id \in IDs(nodes) : inDegree(nodes)[id] = 0}),
              deg |-> inDegree(nodes), order |-> <<>>]
  PROVE  Sorting(nodes, s)
<1> DEFINE ids == IDs(nodes)  roots == {id \in ids : inDegree(nodes)[id] = 0}
           queue == InSlice(nodes, roots)
<1>1. \A id \in ids : DepsOf(nodes, id) \in Seq(ID)
  BY NodeIs
<1> HIDE DEF ids
<1>2. ASSUME NEW id \in ids
      PROVE  /\ inDegree(nodes)[id] = Len(DepsOf(nodes, id)) /\ Len(DepsOf(nodes, id)) \in Nat
             /\ Len(DepsOf(nodes, id)) = Cardinality(Open(nodes, id, {}))
  <2>1. inDegree(nodes)[id] = Len(DepsOf(nodes, id))
    BY DEF inDegree, ids
  <2> DEFINE d == DepsOf(nodes, id)
  <2>2. Open(nodes, id, {}) = DOMAIN d
    BY DEF Open
  <2>3. d \in Seq(ID)
    BY <1>1
  <2> HIDE DEF d
  <2>4. Len(d) \in Nat /\ DOMAIN d = 1..Len(d)
    BY <2>3, LenProperties
  <2>5. Cardinality(1..Len(d)) = Len(d)
    <3> DEFINE m == Len(d)
    <3>1. m \in Nat
      BY <2>4
    <3> HIDE DEF m
    <3>2. Cardinality(1..m) = IF 1 > m THEN 0 ELSE m - 1 + 1
      BY <3>1, FS_Interval
    <3>3. Cardinality(1..m) = m
      BY <3>1, <3>2
    <3> QED  BY <3>3 DEF m
  <2> QED  BY <2>1, <2>2, <2>4, <2>5 DEF d
<1>3. inDegree(nodes) \in [ids -> Int]
  BY <1>2 DEF inDegree, ids
<1>4. queue \in Seq(ids) /\ IsInjective(queue) /\ Range(queue) = roots
  <2>1. roots \in SUBSET ids
    OBVIOUS
  <2> HIDE DEF roots
  <2> QED  BY <2>1, InSliceIs DEF ids
<1>5. s = [queue |-> queue, deg |-> inDegree(nodes), order |-> <<>>]
  BY DEF ids
<1> HIDE DEF queue
<1>6. Range(<<>>) = {} /\ IsInjective(<<>>) /\ Len(<<>>) = 0 /\ <<>> \in Seq(ids)
  BY DEF Range, IsInjective
<1>7. s.queue = queue /\ s.deg = inDegree(nodes) /\ s.order = <<>>
  BY <1>5
<1>8. s \in [queue : Seq(ids), deg : [ids -> Int], order : Seq(ids)]
  BY <1>3, <1>4, <1>5, <1>6
<1>9. \A id \in ids : s.deg[id] = Cardinality(Open(nodes, id, Range(s.order)))
  BY <1>2, <1>6, <1>7
<1>10. \A id \in ids : s.deg[id] = 0 <=> id \in Range(s.order) \cup Range(s.queue)
  BY <1>4, <1>6, <1>7
<1>11. 1..Len(s.order) = {}
  BY <1>6, <1>7
<1> QED  BY <1>4, <1>6, <1>7, <1>8, <1>9, <1>10, <1>11 DEF Sorting, ids

\* A turn sorts one more node.
LEMMA SortingGoesOn ==
  ASSUME NEW nodes \in Seq(Node), Cardinality(IDs(nodes)) = Len(nodes), NEW s, Sorting(nodes, s),
         s.queue # <<>>, NEW t, t = Kahn(nodes, s)
  PROVE  Sorting(nodes, t) /\ Len(t.order) = Len(s.order) + 1
<1> DEFINE ids == IDs(nodes)  h == Head(s.queue)
           left == [id \in ids |-> s.deg[id] - Mentions(nodes, id, h)]
           news == {id \in ids : BecomesReady(left[id], s.deg[id])}
           ready == InSlice(nodes, news)
           queue == Tail(s.queue) \o ready  order == Append(s.order, h)
           sorted == Range(s.order)
<1>1. t = [queue |-> queue, deg |-> left, order |-> order]
  BY DEF Kahn
<1>2. /\ s.queue \in Seq(ids) /\ s.deg \in [ids -> Int] /\ s.order \in Seq(ids)
      /\ IsInjective(s.queue) /\ IsInjective(s.order) /\ Range(s.order) \cap Range(s.queue) = {}
      /\ \A id \in ids : s.deg[id] = Cardinality(Open(nodes, id, sorted))
      /\ \A id \in ids : s.deg[id] = 0 <=> id \in sorted \cup Range(s.queue)
      /\ \A i \in 1..Len(s.order) : \A a \in Range(DepsOf(nodes, s.order[i])) :
            \E j \in 1..(i - 1) : s.order[j] = a
  BY DEF Sorting
<1>3. /\ Tail(s.queue) \in Seq(ids) /\ IsInjective(Tail(s.queue)) /\ h \in Range(s.queue)
      /\ Range(Tail(s.queue)) = Range(s.queue) \ {h}
  <2> HIDE DEF ids
  <2> QED  BY <1>2, TailOnce
<1>4. h \in ids /\ h \notin sorted
  <2>1. Range(s.queue) \in SUBSET ids
    BY <1>2, RangeOfSeq
  <2> HIDE DEF h, sorted
  <2> QED  BY <1>2, <1>3, <2>1 DEF sorted
<1> HIDE DEF h
<1>5. /\ order \in Seq(ids) /\ IsInjective(order) /\ Range(order) = sorted \cup {h}
      /\ Len(order) = Len(s.order) + 1
      /\ (\A i \in 1..Len(s.order) : order[i] = s.order[i]) /\ order[Len(s.order) + 1] = h
  <2>1. /\ order \in Seq(ids) /\ IsInjective(order) /\ Range(order) = sorted \cup {h}
    BY <1>2, <1>4, AppendOnce
  <2>2. /\ Len(order) = Len(s.order) + 1
        /\ (\A i \in 1..Len(s.order) : order[i] = s.order[i]) /\ order[Len(s.order) + 1] = h
    BY <1>2, <1>4, AppendProperties
  <2> QED  BY <2>1, <2>2
<1> HIDE DEF order
<1>6. \A id \in ids : /\ Cardinality(Open(nodes, id, sorted)) \in Nat
                      /\ Cardinality(Open(nodes, id, sorted)) = 0 <=> Range(DepsOf(nodes, id)) \subseteq sorted
                      /\ left[id] = Cardinality(Open(nodes, id, sorted \cup {h}))
                      /\ Cardinality(Open(nodes, id, sorted \cup {h})) \in Nat
  <2> TAKE id \in ids
  <2> DEFINE more == sorted \cup {h}
  <2>1. /\ Cardinality(Open(nodes, id, sorted)) \in Nat
        /\ Cardinality(Open(nodes, id, sorted)) = 0 <=> Range(DepsOf(nodes, id)) \subseteq sorted
        /\ Cardinality(Open(nodes, id, sorted)) - Mentions(nodes, id, h)
               = Cardinality(Open(nodes, id, sorted \cup {h}))
    BY <1>4, OpenLess
  <2>2. left[id] = s.deg[id] - Mentions(nodes, id, h) /\ s.deg[id] = Cardinality(Open(nodes, id, sorted))
    BY <1>2
  <2>3. left[id] = Cardinality(Open(nodes, id, sorted \cup {h}))
    BY <2>1, <2>2
  <2>4. Cardinality(Open(nodes, id, more)) \in Nat
    <3>1. \E g : g \notin more
      <4>1. (CHOOSE g : g \notin more) \notin more
        BY NoSetContainsEverything
      <4> QED  BY <4>1
    <3> HIDE DEF more, ids
    <3> QED  BY <3>1, OpenLess DEF ids
  <2> QED  BY <2>1, <2>3, <2>4
<1>7. left \in [ids -> Int]
  <2>1. \A id \in ids : left[id] \in Int
    BY <1>6
  <2> QED  BY <2>1
<1>8. \A id \in ids : id \in news <=> left[id] = 0 /\ s.deg[id] # 0
  BY <1>2, <1>6 DEF BecomesReady
<1>9. \A id \in ids : s.deg[id] = 0 => left[id] = 0
  <2> SUFFICES ASSUME NEW id \in ids, s.deg[id] = 0 PROVE left[id] = 0
    OBVIOUS
  <2>1. Open(nodes, id, sorted \cup {h}) \subseteq Open(nodes, id, sorted)
    BY DEF Open
  <2>2. Range(DepsOf(nodes, id)) \subseteq sorted
    BY <1>2, <1>6
  <2>3. Open(nodes, id, sorted \cup {h}) = {}
    BY <2>2 DEF Open, Range
  <2> QED  BY <1>6, <2>3, FS_EmptySet
<1> HIDE DEF left
<1>10. ready \in Seq(ids) /\ IsInjective(ready) /\ Range(ready) = news
  <2>1. news \in SUBSET ids
    OBVIOUS
  <2> HIDE DEF news
  <2> QED  BY <2>1, InSliceIs
<1>11. news \cap (sorted \cup Range(s.queue)) = {}
  BY <1>2, <1>8
<1> HIDE DEF news, ready
<1>12. /\ queue \in Seq(ids) /\ IsInjective(queue)
       /\ Range(queue) = (Range(s.queue) \ {h}) \cup news
  <2>1. Range(Tail(s.queue)) \cap Range(ready) = {}
    BY <1>3, <1>10, <1>11
  <2> DEFINE rest == Tail(s.queue)
  <2>2. /\ rest \in Seq(ids) /\ IsInjective(rest) /\ Range(rest) = Range(s.queue) \ {h}
        /\ Range(rest) \cap Range(ready) = {} /\ queue = rest \o ready
    BY <1>3, <2>1
  <2> HIDE DEF ids, rest, queue
  <2>3. queue \in Seq(ids) /\ IsInjective(queue) /\ Range(queue) = Range(rest) \cup Range(ready)
    BY <1>10, <2>2, JoinOnce
  <2> QED  BY <1>10, <2>2, <2>3
<1> HIDE DEF queue, sorted, ids
<1>13. t.queue = queue /\ t.deg = left /\ t.order = order
       /\ t \in [queue : Seq(ids), deg : [ids -> Int], order : Seq(ids)]
  BY <1>1, <1>5, <1>7, <1>12
<1>14. Range(order) \cap Range(queue) = {}
  <2>1. sorted \cap Range(s.queue) = {}
    BY <1>2 DEF sorted
  <2>2. h \notin news /\ sorted \cap news = {}
    BY <1>3, <1>11
  <2> QED  BY <1>5, <1>12, <2>1, <2>2
<1>15. \A id \in ids : left[id] = Cardinality(Open(nodes, id, Range(order)))
  BY <1>5, <1>6
<1>16. \A id \in ids : left[id] = 0 <=> id \in Range(order) \cup Range(queue)
  <2> TAKE id \in ids
  <2>1. id \in Range(order) \cup Range(queue) <=> id \in sorted \cup Range(s.queue) \/ id \in news
    BY <1>3, <1>5, <1>12
  <2> QED  BY <1>2, <1>8, <1>9, <2>1
<1>17. ASSUME NEW i \in 1..(Len(s.order) + 1), NEW a \in Range(DepsOf(nodes, order[i]))
       PROVE  \E j \in 1..(i - 1) : order[j] = a
  <2>1. Len(s.order) \in Nat /\ DOMAIN s.order = 1..Len(s.order)
    BY <1>2, LenProperties
  <2>2. CASE i \in 1..Len(s.order)
    <3>1. PICK j \in 1..(i - 1) : s.order[j] = a
      BY <1>2, <1>5, <1>17, <2>2
    <3>2. j \in 1..Len(s.order)
      BY <2>1, <2>2
    <3> QED  BY <1>5, <3>1, <3>2
  <2>3. CASE i = Len(s.order) + 1
    <3>1. order[i] = h
      BY <1>5, <2>3
    <3>2. Range(DepsOf(nodes, h)) \subseteq sorted
      BY <1>2, <1>3, <1>4, <1>6
    <3>3. a \in sorted
      BY <1>17, <3>1, <3>2
    <3>4. PICK j \in 1..Len(s.order) : s.order[j] = a
      BY <2>1, <3>3 DEF sorted, Range
    <3>5. j \in 1..(i - 1)
      BY <2>1, <2>3
    <3> QED  BY <1>5, <3>4, <3>5
  <2> QED  BY <2>1, <2>2, <2>3
<1>18. \A i \in 1..Len(t.order) : \A a \in Range(DepsOf(nodes, t.order[i])) :
           \E j \in 1..(i - 1) : t.order[j] = a
  <2>1. t.order = order /\ Len(order) = Len(s.order) + 1
    BY <1>5, <1>13
  <2>2. \A i \in 1..(Len(s.order) + 1) : \A a \in Range(DepsOf(nodes, order[i])) :
            \E j \in 1..(i - 1) : order[j] = a
    BY <1>17
  <2> SUFFICES ASSUME NEW i \in 1..Len(t.order), NEW a \in Range(DepsOf(nodes, t.order[i]))
               PROVE  \E j \in 1..(i - 1) : t.order[j] = a
    OBVIOUS
  <2>3. i \in 1..(Len(s.order) + 1) /\ a \in Range(DepsOf(nodes, order[i]))
    BY <2>1
  <2>4. PICK j \in 1..(i - 1) : order[j] = a
    BY <2>2, <2>3
  <2> QED  BY <2>1, <2>4
<1>19. /\ IsInjective(t.queue) /\ IsInjective(t.order) /\ Range(t.order) \cap Range(t.queue) = {}
       /\ \A id \in ids : t.deg[id] = Cardinality(Open(nodes, id, Range(t.order)))
       /\ \A id \in ids : t.deg[id] = 0 <=> id \in Range(t.order) \cup Range(t.queue)
       /\ Len(t.order) = Len(s.order) + 1
  BY <1>5, <1>12, <1>13, <1>14, <1>15, <1>16
<1> QED  BY <1>13, <1>18, <1>19 DEF Sorting, ids

\* A list of every node once, after all it depends on.
Listed(nodes, order) ==
    /\ order \in Seq(IDs(nodes)) /\ Len(order) = Len(nodes)
    /\ IsInjective(order) /\ Range(order) = IDs(nodes)
    /\ \A i, k \in 1..Len(nodes) : <<order[i], order[k]>> \in Edges(nodes) => i < k

\* topo.go:20-50: Kahn's algorithm lists every node once, after all it
\* depends on.
LEMMA SortedIs ==
  ASSUME NEW nodes, Proper(nodes), NEW order, order = topologicalSort(nodes)
  PROVE  Listed(nodes, order)
<1> DEFINE ids == IDs(nodes)  n == Len(nodes)  deg == inDegree(nodes)
           start == [queue |-> InSlice(nodes, {id \in ids : deg[id] = 0}), deg |-> deg, order |-> <<>>]
           States == {s \in [queue : Seq(ids), deg : [ids -> Int], order : Seq(ids)] : Sorting(nodes, s)}
           Is(g) == g = [k \in 0..n |-> IF k = 0 THEN start ELSE Kahn(nodes, g[k - 1])]
           at == CHOOSE g : Is(g)
           turn == [k \in 1..n |-> [s \in States |-> Kahn(nodes, s)]]
<1>1. /\ nodes \in Seq(Node) /\ Cardinality(ids) = n /\ Edges(nodes) \subseteq ids \X ids
      /\ Acyclic(ids, Edges(nodes))
  BY DEF Proper, Sound
<1>2. /\ n \in Nat /\ IsFiniteSet(ids)
      /\ \A a, b : <<a, b>> \in Edges(nodes) <=> b \in ids /\ a \in Range(DepsOf(nodes, b))
  BY <1>1, SliceIs, NodeIs
<1>3. start \in States
  <2>1. Sorting(nodes, start)
    BY <1>1, SortingStarts
  <2> HIDE DEF start
  <2> QED  BY <2>1 DEF Sorting
<1>4. \A s \in States : /\ Kahn(nodes, s) \in States
                        /\ s.queue = <<>> => Kahn(nodes, s) = s
                        /\ s.queue # <<>> => Len(Kahn(nodes, s).order) = Len(s.order) + 1
  <2> SUFFICES ASSUME NEW s \in States
               PROVE  /\ Kahn(nodes, s) \in States
                      /\ s.queue = <<>> => Kahn(nodes, s) = s
                      /\ s.queue # <<>> => Len(Kahn(nodes, s).order) = Len(s.order) + 1
    OBVIOUS
  <2>1. CASE s.queue = <<>>
    BY <2>1 DEF Kahn
  <2>2. CASE s.queue # <<>>
    <3> DEFINE t == Kahn(nodes, s)
    <3>1. t = Kahn(nodes, s)
      OBVIOUS
    <3> HIDE DEF t
    <3>2. Sorting(nodes, t) /\ Len(t.order) = Len(s.order) + 1
      BY <1>1, <2>2, <3>1, SortingGoesOn
    <3>3. t \in States
      BY <3>2 DEF Sorting
    <3> QED  BY <2>2, <3>1, <3>2, <3>3
  <2> QED  BY <2>1, <2>2
<1>5. turn \in [1..n -> [States -> States]]
  BY <1>4
<1>6. PICK t \in [0..n -> States] : TakesTurns(n, start, turn, t)
  <2> HIDE DEF turn, start, n, States
  <2> QED  BY <1>2, <1>3, <1>5, LoopExists
<1> HIDE DEF start, n
<1>7. t[0] = start /\ \A k \in 1..n : t[k - 1] \in States /\ t[k] = Kahn(nodes, t[k - 1])
  <2>1. ASSUME NEW k \in 1..n
        PROVE  t[k - 1] \in States /\ t[k] = Kahn(nodes, t[k - 1])
    <3>1. k - 1 \in 0..n /\ t[k - 1] \in States
      BY <1>2
    <3>2. turn[k][t[k - 1]] = Kahn(nodes, t[k - 1])
      BY <3>1
    <3> HIDE DEF turn, States
    <3> QED  BY <1>6, <3>1, <3>2 DEF TakesTurns
  <2> HIDE DEF States
  <2> QED  BY <1>6, <2>1 DEF TakesTurns
<1> HIDE DEF turn
<1>8. Is(t)
  <2> HIDE DEF States
  <2>1. t = [k \in 0..n |-> t[k]]
    OBVIOUS
  <2>2. \A k \in 0..n : t[k] = IF k = 0 THEN start ELSE Kahn(nodes, t[k - 1])
    BY <1>2, <1>7
  <2> QED  BY <2>1, <2>2
<1>9. Is(at)
  BY <1>8
<1>10. order = at[n].order
  BY DEF topologicalSort, n, start
<1> HIDE DEF at
<1>11. at[0] = start /\ \A k \in 1..n : at[k] = Kahn(nodes, at[k - 1])
  BY <1>2, <1>9
<1> HIDE DEF Is
<1> DEFINE Good == {k \in 0..n : at[k] \in States /\ (at[k].queue = <<>> \/ Len(at[k].order) = k)}
<1>12. 0 \in Good
  <2>1. Len(start.order) = 0
    BY DEF start
  <2> HIDE DEF States
  <2> QED  BY <1>2, <1>3, <1>11, <2>1
<1>13. \A k \in 1..n : k - 1 \in Good => k \in Good
  <2> SUFFICES ASSUME NEW k \in 1..n, k - 1 \in Good PROVE k \in Good
    OBVIOUS
  <2> HIDE DEF States
  <2>1. at[k - 1] \in States /\ (at[k - 1].queue = <<>> \/ Len(at[k - 1].order) = k - 1)
    OBVIOUS
  <2>2. at[k] = Kahn(nodes, at[k - 1])
    BY <1>11
  <2>3. CASE at[k - 1].queue = <<>>
    BY <1>4, <2>1, <2>2, <2>3
  <2>4. CASE at[k - 1].queue # <<>>
    <3>1. Len(at[k - 1].order) = k - 1 /\ (k - 1) + 1 = k
      BY <2>1, <2>4
    <3>2. at[k] \in States /\ Len(at[k].order) = k
      BY <1>4, <2>1, <2>2, <2>4, <3>1
    <3> QED  BY <3>2
  <2> QED  BY <2>3, <2>4
<1>14. at[n] \in States /\ (at[n].queue = <<>> \/ Len(at[n].order) = n)
  <2> HIDE DEF Good
  <2>1. \A k \in 0..n : k \in Good
    BY <1>2, <1>12, <1>13, EveryTurn
  <2>2. n \in 0..n
    BY <1>2
  <2> QED  BY <2>1, <2>2 DEF Good
<1>15. PICK s : /\ Sorting(nodes, s) /\ s.order = order /\ (s.queue = <<>> \/ Len(order) = n)
  BY <1>10, <1>14
<1> HIDE DEF Good, States
<1>16. /\ order \in Seq(ids) /\ IsInjective(order) /\ Range(order) \in SUBSET ids
       /\ \A id \in ids : s.deg[id] = Cardinality(Open(nodes, id, Range(order)))
       /\ \A id \in ids : s.deg[id] = 0 <=> id \in Range(order) \cup Range(s.queue)
       /\ \A i \in 1..Len(order) : \A a \in Range(DepsOf(nodes, order[i])) :
             \E j \in 1..(i - 1) : order[j] = a
  <2>1. order \in Seq(ids)
    BY <1>15 DEF Sorting
  <2>2. Range(order) \in SUBSET ids
    BY <2>1, RangeOfSeq
  <2> QED  BY <1>15, <2>1, <2>2 DEF Sorting
<1>17. Len(order) \in Nat /\ DOMAIN order = 1..Len(order)
  <2> HIDE DEF ids
  <2> QED  BY <1>16, LenProperties
<1>18. Cardinality(Range(order)) = Len(order)
  <2> DEFINE l == Len(order)
  <2> HIDE DEF l
  <2>1. l \in Nat /\ order \in Bijection(1..l, Range(order))
    BY <1>16, <1>17 DEF Bijection, Injection, Surjection, IsInjective, Range, l
  <2>2. IsFiniteSet(1..l) /\ Cardinality(1..l) = l
    <3>1. (Cardinality(1..l) = IF 1 > l THEN 0 ELSE l - 1 + 1) /\ IsFiniteSet(1..l)
      BY <2>1, FS_Interval
    <3> QED  BY <2>1, <3>1
  <2>3. Cardinality(Range(order)) = Cardinality(1..l)
    <3>1. ExistsBijection(1..l, Range(order))
      BY <2>1 DEF ExistsBijection
    <3> QED  BY <2>2, <3>1, FS_Bijection
  <2> QED  BY <2>2, <2>3 DEF l
<1>19. Range(order) = ids
  <2>1. CASE Len(order) = n
    <3>1. Cardinality(Range(order)) = Cardinality(ids)
      BY <1>1, <1>18, <2>1
    <3> HIDE DEF ids
    <3> QED  BY <1>2, <1>16, <3>1, FS_Subset
  <2>2. CASE s.queue = <<>>
    <3> DEFINE rest == ids \ Range(order)
    <3>1. SUFFICES ASSUME rest # {} PROVE FALSE
      BY <1>16
    <3>2. PICK to \in rest : \A from \in rest : <<from, to>> \notin Edges(nodes)
      BY <1>1, <3>1 DEF Acyclic
    <3>3. Range(DepsOf(nodes, to)) \subseteq Range(order)
      <4> SUFFICES ASSUME NEW a \in Range(DepsOf(nodes, to)) PROVE a \in Range(order)
        OBVIOUS
      <4>1. <<a, to>> \in Edges(nodes)
        BY <1>2, <3>2
      <4>2. a \in ids
        BY <1>1, <4>1
      <4> QED  BY <3>2, <4>1, <4>2
    <3>4. Open(nodes, to, Range(order)) = {}
      BY <3>3 DEF Open, Range
    <3>5. s.deg[to] = 0
      <4>1. to \in ids
        BY <3>2
      <4>2. Cardinality({}) = 0
        BY FS_EmptySet
      <4>3. s.deg[to] = Cardinality(Open(nodes, to, Range(order)))
        <5> HIDE DEF rest, ids
        <5> QED  BY <1>16, <4>1
      <4> HIDE DEF rest, ids
      <4> QED  BY <3>4, <4>2, <4>3
    <3>6. Range(s.queue) = {}
      BY <2>2 DEF Range
    <3> QED  BY <1>16, <3>2, <3>5, <3>6
  <2> QED  BY <1>15, <2>1, <2>2
<1>20. Len(order) = n
  BY <1>1, <1>18, <1>19
<1>21. ASSUME NEW i \in 1..n, NEW k \in 1..n, <<order[i], order[k]>> \in Edges(nodes)
       PROVE  i < k
  <2>1. order[i] \in Range(DepsOf(nodes, order[k]))
    BY <1>2, <1>21
  <2>2. PICK j \in 1..(k - 1) : order[j] = order[i]
    BY <1>16, <1>20, <2>1
  <2>3. j \in 1..n
    BY <1>2, <2>2
  <2>4. j = i
    BY <1>16, <1>17, <1>20, <2>2, <2>3 DEF IsInjective
  <2> QED  BY <1>2, <2>2, <2>4
<1> QED  BY <1>16, <1>19, <1>20, <1>21 DEF Listed, ids, n

\* The greatest and the least of finitely many numbers.
LEMMA Greatest ==
  ASSUME NEW n \in Nat, NEW v, \A i \in 1..n : v[i] \in Int, NEW S,
         \A x : x \in S <=> \E i \in 1..n : x = v[i], S # {}
  PROVE  \E m \in S : \A x \in S : x <= m
<1> DEFINE Good == {k \in 0..n : \E b \in Int : \A i \in 1..k : v[i] <= b}
<1>1. 0 \in Good
  BY DEF Good
<1>2. \A k \in 1..n : k - 1 \in Good => k \in Good
  <2> SUFFICES ASSUME NEW k \in 1..n, k - 1 \in Good PROVE k \in Good
    OBVIOUS
  <2>1. PICK b \in Int : \A i \in 1..(k - 1) : v[i] <= b
    OBVIOUS
  <2>2. PICK c \in Int : b <= c /\ v[k] <= c
    <3>1. v[k] \in Int
      OBVIOUS
    <3>2. CASE b <= v[k]
      BY <3>1, <3>2
    <3>3. CASE v[k] <= b
      BY <3>1, <3>3
    <3> QED  BY <3>1, <3>2, <3>3
  <2>3. \A i \in 1..k : v[i] <= c
    <3> SUFFICES ASSUME NEW i \in 1..k PROVE v[i] <= c
      OBVIOUS
    <3>1. CASE i = k
      BY <2>2, <3>1
    <3>2. CASE i # k
      <4>1. i \in 1..(k - 1) /\ v[i] \in Int
        BY <3>2
      <4> QED  BY <2>1, <2>2, <4>1
    <3> QED  BY <3>1, <3>2
  <2> QED  BY <2>3
<1>3. PICK b \in Int : \A i \in 1..n : v[i] <= b
  <2>1. \A k \in 0..n : k \in Good
    <3> HIDE DEF Good
    <3> QED  BY <1>1, <1>2, EveryTurn
  <2>2. n \in 0..n
    OBVIOUS
  <2>3. n \in Good
    <3> HIDE DEF Good
    <3> QED  BY <2>1, <2>2
  <2> QED  BY <2>3
<1>4. \A x \in S : x \in Int /\ x <= b
  BY <1>3
<1> DEFINE below == {k \in Nat : b - k \in S}
<1>5. below \in SUBSET Nat /\ below # {}
  <2>1. PICK x \in S : x \in Int /\ x <= b
    BY <1>4
  <2>2. b - x \in Nat /\ b - (b - x) = x
    BY <2>1
  <2> QED  BY <2>1, <2>2
<1>6. PICK k \in below : \A l \in below : k <= l
  <2> HIDE DEF below
  <2> QED  BY <1>5, LeastOf
<1>7. ASSUME NEW x \in S
      PROVE  x <= b - k
  <2>1. x \in Int /\ x <= b
    BY <1>4
  <2>2. b - x \in Nat /\ b - (b - x) = x
    BY <2>1
  <2>3. k <= b - x
    BY <1>6, <2>2
  <2> QED  BY <2>1, <2>3
<1> QED  BY <1>6, <1>7

\* So Max and Min are what their names say.
LEMMA MaxOf ==
  ASSUME NEW n \in Nat, NEW v, \A i \in 1..n : v[i] \in Int, NEW S,
         \A x : x \in S <=> \E i \in 1..n : x = v[i], S # {}
  PROVE  /\ Max(S) \in S /\ (\A x \in S : x <= Max(S))
         /\ Min(S) \in S /\ (\A x \in S : Min(S) <= x)
<1>1. \A x \in S : x \in Int
  OBVIOUS
<1>2. Max(S) \in S /\ \A x \in S : Max(S) >= x
  <2>1. \E m \in S : \A x \in S : x <= m
    BY Greatest
  <2>2. \E m \in S : \A x \in S : m >= x
    BY <1>1, <2>1
  <2> QED  BY <2>2 DEF Max
<1>3. Min(S) \in S /\ \A x \in S : Min(S) =< x
  <2> DEFINE w == [i \in 1..n |-> 0 - v[i]]  T == {w[i] : i \in 1..n}
  <2>1. \A i \in 1..n : w[i] \in Int
    OBVIOUS
  <2>2. (\A x : x \in T <=> \E i \in 1..n : x = w[i]) /\ T # {}
    OBVIOUS
  <2>3. PICK m \in T : \A x \in T : x <= m
    <3> HIDE DEF w, T
    <3> QED  BY <2>1, <2>2, Greatest
  <2>4. PICK i \in 1..n : m = w[i]
    OBVIOUS
  <2>5. \A x \in S : v[i] =< x
    <3> SUFFICES ASSUME NEW k \in 1..n PROVE v[i] =< v[k]
      OBVIOUS
    <3>1. 0 - v[k] <= 0 - v[i]
      BY <2>3, <2>4
    <3> QED  BY <3>1
  <2>6. \E x \in S : \A y \in S : x =< y
    BY <2>5
  <2> QED  BY <2>6 DEF Min
<1> QED  BY <1>1, <1>2, <1>3

\* f tells how many nodes can come before each node on a chain.
Depth(ids, edges, f) ==
    /\ f \in [ids -> Nat]
    /\ \A a, b \in ids : <<a, b>> \in edges => f[a] + 1 <= f[b]
    /\ \A b \in ids : f[b] = 0 \/ \E a \in ids : <<a, b>> \in edges /\ f[b] = f[a] + 1

\* The edges the other way.
Back(edges) == {<<e[2], e[1]>> : e \in edges}

\* No chain that ends at a node is longer than its depth allows, and one is as long.
LEMMA DepthIs ==
  ASSUME NEW ids, NEW edges, NEW f, Depth(ids, edges, f)
  PROVE  /\ \A m \in Nat : \A p \in Chains(ids, edges, m) : \A i \in 1..m : i - 1 <= f[p[i]]
         /\ \A id \in ids : \E p \in Chains(ids, edges, f[id] + 1) : p[f[id] + 1] = id
<1>1. /\ f \in [ids -> Nat]
      /\ \A a, b \in ids : <<a, b>> \in edges => f[a] + 1 <= f[b]
      /\ \A b \in ids : f[b] = 0 \/ \E a \in ids : <<a, b>> \in edges /\ f[b] = f[a] + 1
  BY DEF Depth
<1>2. ASSUME NEW m \in Nat, NEW p \in Chains(ids, edges, m), NEW i \in 1..m
      PROVE  i - 1 <= f[p[i]]
  <2>1. p \in [1..m -> ids] /\ \A k \in 1..m - 1 : <<p[k], p[k + 1]>> \in edges
    BY DEF Chains
  <2> DEFINE Good == {k \in 0..m : k = 0 \/ k - 1 <= f[p[k]]}
  <2>2. 0 \in Good
    OBVIOUS
  <2>3. \A k \in 1..m : k - 1 \in Good => k \in Good
    <3> SUFFICES ASSUME NEW k \in 1..m, k - 1 \in Good PROVE k - 1 <= f[p[k]]
      OBVIOUS
    <3>1. p[k] \in ids /\ f[p[k]] \in Nat
      BY <1>1, <2>1
    <3>2. CASE k = 1
      BY <3>1, <3>2
    <3>3. CASE k # 1
      <4>1. k - 1 \in 1..m - 1 /\ k - 1 \in 1..m /\ k - 1 # 0 /\ (k - 1) + 1 = k
        BY <3>3
      <4>2. <<p[k - 1], p[k]>> \in edges /\ p[k - 1] \in ids
        BY <2>1, <4>1
      <4>3. f[p[k - 1]] + 1 <= f[p[k]] /\ f[p[k - 1]] \in Nat
        BY <1>1, <3>1, <4>2
      <4>4. (k - 1) - 1 <= f[p[k - 1]]
        BY <4>1
      <4> QED  BY <3>1, <4>3, <4>4
    <3> QED  BY <3>2, <3>3
  <2>4. \A k \in 0..m : k \in Good
    <3> HIDE DEF Good
    <3> QED  BY <2>2, <2>3, EveryTurn
  <2> QED  BY <2>4
<1>3. ASSUME NEW id \in ids
      PROVE  \E p \in Chains(ids, edges, f[id] + 1) : p[f[id] + 1] = id
  <2> DEFINE n == f[id]
             Good == {v \in 0..n : \A b \in ids : f[b] = v =>
                                      \E p \in Chains(ids, edges, v + 1) : p[v + 1] = b}
  <2>1. n \in Nat
    BY <1>1
  <2>2. 0 \in Good
    <3> SUFFICES ASSUME NEW b \in ids PROVE \E p \in Chains(ids, edges, 0 + 1) : p[0 + 1] = b
      BY <2>1
    <3> DEFINE p == [i \in 1..1 |-> b]
    <3>1. p \in Chains(ids, edges, 0 + 1) /\ p[0 + 1] = b
      BY DEF Chains
    <3> QED  BY <3>1
  <2>3. \A v \in 1..n : v - 1 \in Good => v \in Good
    <3> SUFFICES ASSUME NEW v \in 1..n, v - 1 \in Good, NEW b \in ids, f[b] = v
                 PROVE  \E p \in Chains(ids, edges, v + 1) : p[v + 1] = b
      OBVIOUS
    <3>1. v \in Nat \ {0}
      BY <2>1
    <3>2. PICK a \in ids : <<a, b>> \in edges /\ f[b] = f[a] + 1
      BY <1>1, <3>1
    <3>3. f[a] = v - 1 /\ (v - 1) + 1 = v
      BY <1>1, <3>1, <3>2
    <3>4. PICK p \in Chains(ids, edges, v) : p[v] = a
      BY <3>3
    <3>5. p \in [1..v -> ids] /\ \A k \in 1..v - 1 : <<p[k], p[k + 1]>> \in edges
      BY <3>4 DEF Chains
    <3> DEFINE q == [i \in 1..v + 1 |-> IF i = v + 1 THEN b ELSE p[i]]
    <3>6. q \in [1..v + 1 -> ids]
      BY <3>1, <3>5
    <3>7. \A k \in 1..(v + 1) - 1 : <<q[k], q[k + 1]>> \in edges
      <4>0. (v + 1) - 1 = v
        BY <3>1
      <4> SUFFICES ASSUME NEW k \in 1..v PROVE <<q[k], q[k + 1]>> \in edges
        <5> HIDE DEF q
        <5> QED  BY <4>0
      <4>1. q[k] = p[k]
        BY <3>1
      <4>2. CASE k = v
        <5>1. v + 1 \in 1..v + 1 /\ q[v + 1] = b
          BY <3>1
        <5>2. q[k + 1] = b /\ q[k] = a
          BY <3>4, <4>1, <4>2, <5>1
        <5> HIDE DEF q
        <5> QED  BY <3>2, <5>2
      <4>3. CASE k # v
        <5>1. k \in 1..v - 1 /\ k + 1 \in 1..v
          BY <3>1, <4>3
        <5>2. q[k + 1] = p[k + 1]
          BY <3>1, <5>1
        <5> QED  BY <3>5, <4>1, <5>1, <5>2
      <4> QED  BY <4>2, <4>3
    <3>8. q[v + 1] = b
      BY <3>1
    <3> HIDE DEF q
    <3> QED  BY <3>6, <3>7, <3>8 DEF Chains
  <2>4. \A v \in 0..n : v \in Good
    <3> HIDE DEF Good, n
    <3> QED  BY <2>1, <2>2, <2>3, EveryTurn
  <2>5. n \in 0..n
    BY <2>1
  <2> QED  BY <2>4, <2>5
<1> QED  BY <1>2, <1>3

\* So the longest chain through a node is as long as its depths from either side say.
LEMMA ThroughIs ==
  ASSUME NEW ids, NEW edges, \A e \in edges : e = <<e[1], e[2]>>, IsFiniteSet(ids),
         NEW f, Depth(ids, edges, f), NEW g, Depth(ids, Back(edges), g), NEW id \in ids
  PROVE  LongestThrough(ids, edges, id, f[id] + g[id] + 1)
<1> DEFINE x == f[id]  y == g[id]  n == x + y + 1
<1>1. x \in Nat /\ y \in Nat
  BY DEF Depth
<1>2. \A a, b : <<a, b>> \in Back(edges) <=> <<b, a>> \in edges
  BY DEF Back
<1>3. \E r \in Chains(ids, edges, n) : id \in Range(r)
  <2>1. PICK p \in Chains(ids, edges, x + 1) : p[x + 1] = id
    BY DepthIs
  <2>2. PICK q \in Chains(ids, Back(edges), y + 1) : q[y + 1] = id
    BY DepthIs
  <2> HIDE DEF x, y
  <2>3. p \in [1..x + 1 -> ids] /\ \A k \in 1..x : <<p[k], p[k + 1]>> \in edges
    BY <1>1 DEF Chains
  <2>4. q \in [1..y + 1 -> ids] /\ \A k \in 1..y : <<q[k + 1], q[k]>> \in edges
    <3>1. /\ q \in [1..y + 1 -> ids]
          /\ \A k \in 1..(y + 1) - 1 : <<q[k], q[k + 1]>> \in Back(edges)
      BY DEF Chains
    <3>2. (y + 1) - 1 = y
      BY <1>1
    <3> QED  BY <1>2, <3>1, <3>2
  <2> DEFINE r == [i \in 1..n |-> IF i <= x + 1 THEN p[i] ELSE q[(x + y + 2) - i]]
  <2>5. r \in [1..n -> ids]
    <3> SUFFICES ASSUME NEW i \in 1..n PROVE r[i] \in ids
      OBVIOUS
    <3>1. CASE i <= x + 1
      BY <1>1, <2>3, <3>1
    <3>2. CASE ~(i <= x + 1)
      <4>1. (x + y + 2) - i \in 1..y + 1
        BY <1>1, <3>2
      <4> QED  BY <2>4, <3>2, <4>1
    <3> QED  BY <3>1, <3>2
  <2>6. \A k \in 1..n - 1 : <<r[k], r[k + 1]>> \in edges
    <3> SUFFICES ASSUME NEW k \in 1..n - 1 PROVE <<r[k], r[k + 1]>> \in edges
      OBVIOUS
    <3>1. k \in 1..n /\ k + 1 \in 1..n
      BY <1>1
    <3>2. CASE k <= x
      <4>1. k \in 1..x /\ r[k] = p[k] /\ r[k + 1] = p[k + 1]
        BY <1>1, <3>1, <3>2
      <4> QED  BY <2>3, <4>1
    <3>3. CASE k > x
      <4> DEFINE l == (x + y + 1) - k
      <4>1. l \in 1..y
        BY <1>1, <3>3
      <4>2. r[k + 1] = q[l]
        BY <1>1, <3>1, <3>3
      <4>3. r[k] = q[l + 1]
        <5>1. CASE k = x + 1
          BY <1>1, <2>1, <2>2, <3>1, <5>1
        <5>2. CASE k # x + 1
          BY <1>1, <3>1, <3>3, <5>2
        <5> QED  BY <5>1, <5>2
      <4> HIDE DEF l, r
      <4> QED  BY <2>4, <4>1, <4>2, <4>3
    <3> QED  BY <1>1, <3>2, <3>3
  <2>7. r[x + 1] = id /\ x + 1 \in 1..n
    BY <1>1, <2>1
  <2> HIDE DEF r, n
  <2>8. r \in Chains(ids, edges, n)
    BY <2>5, <2>6 DEF Chains
  <2>9. id \in Range(r)
    BY <2>5, <2>7 DEF Range
  <2> QED  BY <2>8, <2>9
<1>4. ASSUME NEW m \in n + 1..Cardinality(ids), NEW p \in Chains(ids, edges, m)
      PROVE  id \notin Range(p)
  <2>1. m \in Nat /\ m > n
    BY <1>1, FS_CardinalityType
  <2>2. p \in [1..m -> ids] /\ \A k \in 1..m - 1 : <<p[k], p[k + 1]>> \in edges
    BY DEF Chains
  <2> SUFFICES ASSUME NEW i \in 1..m, p[i] = id PROVE FALSE
    BY <2>2 DEF Range
  <2>3. i - 1 <= x
    BY <2>1, DepthIs
  <2> DEFINE q == [k \in 1..m |-> p[(m + 1) - k]]
  <2>4. q \in Chains(ids, Back(edges), m)
    <3>1. \A k \in 1..m : (m + 1) - k \in 1..m
      BY <2>1
    <3>2. q \in [1..m -> ids]
      BY <2>2, <3>1
    <3>3. \A k \in 1..m - 1 : <<q[k], q[k + 1]>> \in Back(edges)
      <4> SUFFICES ASSUME NEW k \in 1..m - 1 PROVE <<q[k], q[k + 1]>> \in Back(edges)
        OBVIOUS
      <4>1. m - k \in 1..m - 1 /\ (m + 1) - k = (m - k) + 1 /\ (m + 1) - (k + 1) = m - k
            /\ k \in 1..m /\ k + 1 \in 1..m
        BY <2>1
      <4>2. q[k] = p[(m - k) + 1] /\ q[k + 1] = p[m - k]
        BY <4>1
      <4> HIDE DEF q
      <4> QED  BY <1>2, <2>2, <4>1, <4>2
    <3> HIDE DEF q
    <3> QED  BY <3>2, <3>3 DEF Chains
  <2>5. (m + 1) - i \in 1..m /\ q[(m + 1) - i] = id
    <3>1. (m + 1) - i \in 1..m /\ (m + 1) - ((m + 1) - i) = i
      BY <2>1
    <3> QED  BY <3>1
  <2>6. ((m + 1) - i) - 1 <= y
    <3> HIDE DEF q
    <3> QED  BY <2>1, <2>4, <2>5, DepthIs
  <2> HIDE DEF x, y
  <2> QED  BY <1>1, <2>1, <2>3, <2>6
<1> QED  BY <1>3, <1>4 DEF LongestThrough

\* f is a loop that gives order[k] the value w[k] in turn k.
Sweeps(n, ids, order, f, w) ==
    /\ order \in [1..n -> ids] /\ IsInjective(order) /\ f \in [0..n -> [ids -> Int]]
    /\ \A k \in 1..n : f[k] = [f[k - 1] EXCEPT ![order[k]] = w[k]]

\* A loop that gives every node its value once leaves each with the value it got.
LEMMA SweepIs ==
  ASSUME NEW n \in Nat, NEW ids, NEW order, NEW f, NEW w, Sweeps(n, ids, order, f, w)
  PROVE  \A j \in 1..n : \A k \in j..n : f[k][order[j]] = w[j]
<1> SUFFICES ASSUME NEW j \in 1..n PROVE \A k \in j..n : f[k][order[j]] = w[j]
  OBVIOUS
<1> DEFINE Good == {k \in 0..n : k < j \/ f[k][order[j]] = w[j]}
<1>1. 0 \in Good
  OBVIOUS
<1>2. \A k \in 1..n : k - 1 \in Good => k \in Good
  <2> SUFFICES ASSUME NEW k \in 1..n, k - 1 \in Good PROVE k \in Good
    <3> HIDE DEF Good
    <3> QED  OBVIOUS
  <2>1. f[k - 1] \in [ids -> Int] /\ order[k] \in ids /\ order[j] \in ids
        /\ f[k] = [f[k - 1] EXCEPT ![order[k]] = w[k]]
    BY DEF Sweeps
  <2>0. CASE k < j
    BY <2>0
  <2>2. CASE k = j
    BY <2>1, <2>2
  <2>3. CASE k > j
    <3>1. f[k - 1][order[j]] = w[j]
      BY <2>3
    <3>2. order[k] # order[j]
      BY <2>3 DEF IsInjective, Sweeps
    <3> QED  BY <2>1, <3>1, <3>2
  <2> QED  BY <2>0, <2>2, <2>3
<1>3. \A k \in 0..n : k \in Good
  <2> HIDE DEF Good
  <2> QED  BY <1>1, <1>2, EveryTurn
<1> QED  BY <1>3

\* priority.go:105-122: the earliest start is the depth of a node.
LEMMA EarliestIs ==
  ASSUME NEW nodes, Proper(nodes), NEW order, Listed(nodes, order),
         NEW est, est = Earliest(nodes, order)
  PROVE  Depth(IDs(nodes), Edges(nodes), est)
<1> DEFINE ids == IDs(nodes)  n == Len(order)  edges == Edges(nodes)
           Best(e, b) == Max({0} \cup {e[d] + 1 : d \in Range(DepsOf(nodes, b))})
           Turn(k, e) == [e EXCEPT ![order[k]] = Best(e, order[k])]
           start == [id \in ids |-> 0]
           Is(g) == g = [k \in 0..n |-> IF k = 0 THEN start ELSE Turn(k, g[k - 1])]
           at == CHOOSE g : Is(g)
           turn == [k \in 1..n |-> [e \in [ids -> Nat] |-> Turn(k, e)]]
<1>1. /\ nodes \in Seq(Node) /\ Cardinality(ids) = Len(nodes) /\ edges \subseteq ids \X ids
  BY DEF Proper, Sound
<1>2. \A a, b : <<a, b>> \in edges <=> b \in ids /\ a \in Range(DepsOf(nodes, b))
  BY <1>1, NodeIs
<1>3. n \in Nat /\ order \in [1..n -> ids] /\ IsInjective(order)
  BY LenProperties DEF Listed
<1>4. ASSUME NEW e \in [ids -> Nat], NEW b \in ids
      PROVE  /\ Best(e, b) \in Nat
             /\ \A a \in ids : <<a, b>> \in edges => e[a] + 1 <= Best(e, b)
             /\ Best(e, b) = 0 \/ \E a \in ids : <<a, b>> \in edges /\ Best(e, b) = e[a] + 1
  <2> DEFINE d == DepsOf(nodes, b)  m == Len(d)
             v == [i \in 1..m + 1 |-> IF i = m + 1 THEN 0 ELSE e[d[i]] + 1]
             S == {0} \cup {e[a] + 1 : a \in Range(d)}
  <2>1. m \in Nat /\ DOMAIN d = 1..m
    <3>1. d \in Seq(ID)
      BY <1>1, NodeIs
    <3> HIDE DEF d
    <3> QED  BY <3>1, LenProperties
  <2>2. \A a : a \in Range(d) <=> a \in ids /\ <<a, b>> \in edges
    BY <1>1, <1>2
  <2> HIDE DEF d, m, ids, edges
  <2>3. \A i \in 1..m : d[i] \in ids
    BY <2>1, <2>2 DEF Range
  <2>4. \A i \in 1..m + 1 : v[i] \in Nat
    <3> SUFFICES ASSUME NEW i \in 1..m + 1 PROVE v[i] \in Nat
      OBVIOUS
    <3>1. CASE i = m + 1
      BY <3>1
    <3>2. CASE i # m + 1
      <4>1. i \in 1..m
        BY <2>1, <3>2
      <4>2. e[d[i]] \in Nat
        BY <2>3, <4>1
      <4> QED  BY <3>2, <4>2
    <3> QED  BY <3>1, <3>2
  <2>5. \A x : x \in S <=> \E i \in 1..m + 1 : x = v[i]
    <3> SUFFICES ASSUME NEW x PROVE x \in S <=> \E i \in 1..m + 1 : x = v[i]
      OBVIOUS
    <3>1. v[m + 1] = 0 /\ m + 1 \in 1..m + 1
      BY <2>1
    <3>2. \A i \in 1..m : v[i] = e[d[i]] + 1 /\ i \in 1..m + 1
      BY <2>1
    <3>3. \A i \in 1..m + 1 : i = m + 1 \/ i \in 1..m
      BY <2>1
    <3>4. x \in S <=> x = 0 \/ \E i \in 1..m : x = e[d[i]] + 1
      BY <2>1 DEF Range
    <3> HIDE DEF S, v
    <3> QED  BY <3>1, <3>2, <3>3, <3>4
  <2>6. S # {}
    OBVIOUS
  <2>7. Max(S) \in S /\ \A x \in S : x <= Max(S)
    <3>1. m + 1 \in Nat /\ \A i \in 1..m + 1 : v[i] \in Int
      BY <2>1, <2>4
    <3> HIDE DEF S, v
    <3> QED  BY <2>5, <2>6, <3>1, MaxOf
  <2>8. Best(e, b) = Max(S)
    BY DEF d
  <2>9. Max(S) \in Nat
    <3> HIDE DEF S, v
    <3> QED  BY <2>4, <2>5, <2>7
  <2>10. \A a \in ids : <<a, b>> \in edges => e[a] + 1 <= Max(S)
    BY <2>2, <2>7
  <2>11. Max(S) = 0 \/ \E a \in ids : <<a, b>> \in edges /\ Max(S) = e[a] + 1
    BY <2>2, <2>7
  <2> HIDE DEF Best, S
  <2> QED  BY <2>8, <2>9, <2>10, <2>11
<1>19. Range(order) = ids /\ \A i, k \in 1..n : <<order[i], order[k]>> \in edges => i < k
  BY DEF Listed
<1> HIDE DEF Best, ids, n, edges
<1>5. start \in [ids -> Nat]
  OBVIOUS
<1>6. \A k \in 1..n : \A e \in [ids -> Nat] : Turn(k, e) \in [ids -> Nat]
  <2> SUFFICES ASSUME NEW k \in 1..n, NEW e \in [ids -> Nat] PROVE Turn(k, e) \in [ids -> Nat]
    OBVIOUS
  <2>1. order[k] \in ids
    BY <1>3
  <2>2. Best(e, order[k]) \in Nat
    BY <1>4, <2>1
  <2> QED  BY <2>1, <2>2
<1>7. turn \in [1..n -> [[ids -> Nat] -> [ids -> Nat]]]
  <2> HIDE DEF Turn
  <2> QED  BY <1>6
<1>8. PICK t \in [0..n -> [ids -> Nat]] : TakesTurns(n, start, turn, t)
  <2> DEFINE States == [ids -> Nat]
  <2>1. start \in States /\ turn \in [1..n -> [States -> States]]
    BY <1>5, <1>7
  <2> HIDE DEF States, start, turn
  <2>2. \E f \in [0..n -> States] : TakesTurns(n, start, turn, f)
    BY <1>3, <2>1, LoopExists
  <2> QED  BY <2>2 DEF States
<1> HIDE DEF Turn, start
<1>9. t[0] = start /\ \A k \in 1..n : t[k] = Turn(k, t[k - 1])
  <2>1. ASSUME NEW k \in 1..n
        PROVE  t[k] = Turn(k, t[k - 1])
    <3>1. k - 1 \in 0..n /\ t[k - 1] \in [ids -> Nat]
      BY <1>3
    <3>2. turn[k][t[k - 1]] = Turn(k, t[k - 1])
      BY <3>1
    <3> HIDE DEF turn
    <3> QED  BY <1>8, <3>2 DEF TakesTurns
  <2> QED  BY <1>8, <2>1 DEF TakesTurns
<1>10. Is(t)
  <2>1. t = [k \in 0..n |-> t[k]]
    OBVIOUS
  <2>2. \A k \in 0..n : t[k] = IF k = 0 THEN start ELSE Turn(k, t[k - 1])
    BY <1>3, <1>9
  <2> QED  BY <2>1, <2>2
<1>11. Is(at)
  BY <1>10
<1>12. est = at[n]
  BY DEF Earliest, n, start, Turn, Best, ids
<1> HIDE DEF at
<1>13. at[0] = start /\ \A k \in 1..n : at[k] = Turn(k, at[k - 1])
  <2>1. at[0] = start
    BY <1>3, <1>11
  <2>2. ASSUME NEW k \in 1..n
        PROVE  at[k] = Turn(k, at[k - 1])
    <3>1. k \in 0..n /\ k # 0
      BY <1>3
    <3> QED  BY <1>11, <3>1
  <2> QED  BY <2>1, <2>2
<1>14. at = [k \in 0..n |-> at[k]]
  BY <1>11
<1> HIDE DEF Is, turn
<1>15. at \in [0..n -> [ids -> Nat]]
  <2> DEFINE Good == {k \in 0..n : at[k] \in [ids -> Nat]}
  <2>1. 0 \in Good
    BY <1>3, <1>5, <1>13 
  <2>2. \A k \in 1..n : k - 1 \in Good => k \in Good
    BY <1>6, <1>13
  <2>3. \A k \in 0..n : k \in Good
    <3> HIDE DEF Good
    <3> QED  BY <1>3, <2>1, <2>2, EveryTurn
  <2> QED  BY <1>14, <2>3
<1> DEFINE w == [k \in 1..n |-> Best(at[k - 1], order[k])]
<1>16. \A j \in 1..n : \A k \in j..n : at[k][order[j]] = w[j]
  <2>1. \A k \in 1..n : at[k] = [at[k - 1] EXCEPT ![order[k]] = w[k]]
    BY <1>13 DEF Turn
  <2>2. at \in [0..n -> [ids -> Int]]
    BY <1>15
  <2> HIDE DEF w
  <2>3. Sweeps(n, ids, order, at, w)
    BY <1>3, <2>1, <2>2 DEF Sweeps
  <2>4. n \in Nat
    BY <1>3
  <2>5. \A m \in Nat : Sweeps(m, ids, order, at, w) => \A j \in 1..m : \A k \in j..m : at[k][order[j]] = w[j]
    BY SweepIs
  <2> QED  BY <2>3, <2>4, <2>5
<1>17. est \in [ids -> Nat]
  BY <1>3, <1>12, <1>15
<1>18. ASSUME NEW b \in ids
       PROVE  /\ \A a \in ids : <<a, b>> \in edges => est[a] + 1 <= est[b]
              /\ est[b] = 0 \/ \E a \in ids : <<a, b>> \in edges /\ est[b] = est[a] + 1
  <2>1. \A a \in ids : \E i \in 1..n : order[i] = a
    BY <1>3, <1>19 DEF Range
  <2>2. PICK k \in 1..n : order[k] = b
    BY <2>1
  <2> DEFINE e == at[k - 1]
  <2>3. e \in [ids -> Nat] /\ k \in k..n /\ n \in k..n
    BY <1>3, <1>15
  <2>4. est[b] = Best(e, b)
    BY <1>12, <1>16, <2>2, <2>3
  <2>5. ASSUME NEW a \in ids, <<a, b>> \in edges
        PROVE  e[a] = est[a]
    <3>1. PICK i \in 1..n : order[i] = a
      BY <2>1
    <3>2. i < k
      BY <1>19, <2>2, <2>5, <3>1
    <3>3. k - 1 \in i..n /\ n \in i..n
      BY <1>3, <3>2
    <3> QED  BY <1>12, <1>16, <3>1, <3>3
  <2> HIDE DEF e
  <2> QED  BY <1>4, <2>3, <2>4, <2>5
<1> QED  BY <1>17, <1>18 DEF Depth, ids, edges

\* The list of the nodes the other way.
LEMMA BackwardIs ==
  ASSUME NEW nodes, Proper(nodes), NEW order, Listed(nodes, order),
         NEW back, back = BackwardOrder(order)
  PROVE  /\ Len(order) \in Nat /\ Len(back) = Len(order) /\ back \in [1..Len(order) -> IDs(nodes)]
         /\ IsInjective(back) /\ Range(back) = IDs(nodes)
         /\ \A i, k \in 1..Len(order) : <<back[i], back[k]>> \in Edges(nodes) => k < i
<1> DEFINE n == Len(order)  ids == IDs(nodes)
<1>1. n \in Nat /\ order \in [1..n -> ids]
  BY LenProperties DEF Listed
<1>2. IsInjective(order) /\ Range(order) = ids
  BY DEF Listed
<1>3. \A i, k \in 1..n : <<order[i], order[k]>> \in Edges(nodes) => i < k
  BY DEF Listed
<1>4. back = [i \in 1..n |-> order[(n - i) + 1]]
  BY DEF BackwardOrder, Reverse
<1>5. Len(back) = n
  <2>1. DOMAIN back = 1..n
    BY <1>4
  <2>2. back \in Seq(ids)
    <3>1. back \in [1..n -> ids]
      <4>1. \A i \in 1..n : (n - i) + 1 \in 1..n
        BY <1>1
      <4> HIDE DEF n, ids
      <4> QED  BY <1>1, <1>4, <4>1
    <3> HIDE DEF n, ids
    <3> QED  BY <1>1, <3>1, IsASeq
  <2> HIDE DEF n, ids
  <2>3. DOMAIN back = 1..Len(back) /\ Len(back) \in Nat
    BY <2>2, LenProperties
  <2> QED  BY <1>1, <2>1, <2>3
<1> HIDE DEF n, ids
<1>6. \A i \in 1..n : (n - i) + 1 \in 1..n /\ back[i] = order[(n - i) + 1]
  BY <1>1, <1>4
<1>7. back \in [1..n -> ids]
  BY <1>1, <1>4, <1>6
<1>8. IsInjective(back)
  <2> SUFFICES ASSUME NEW i \in 1..n, NEW k \in 1..n, back[i] = back[k] PROVE i = k
    BY <1>7 DEF IsInjective
  <2>1. (n - i) + 1 = (n - k) + 1
    BY <1>1, <1>2, <1>6 DEF IsInjective
  <2> QED  BY <1>1, <2>1
<1>9. Range(back) = ids
  <2>1. \A a \in ids : \E i \in 1..n : back[i] = a
    <3> SUFFICES ASSUME NEW a \in ids PROVE \E i \in 1..n : back[i] = a
      OBVIOUS
    <3>1. PICK i \in 1..n : order[i] = a
      BY <1>1, <1>2 DEF Range
    <3>2. (n - i) + 1 \in 1..n /\ (n - ((n - i) + 1)) + 1 = i
      BY <1>1
    <3>3. back[(n - i) + 1] = a
      BY <1>6, <3>1, <3>2
    <3> QED  BY <3>2, <3>3
  <2> QED  BY <1>7, <2>1 DEF Range
<1>10. ASSUME NEW i \in 1..n, NEW k \in 1..n, <<back[i], back[k]>> \in Edges(nodes)
       PROVE  k < i
  <2>1. (n - i) + 1 < (n - k) + 1
    BY <1>3, <1>6, <1>10
  <2> QED  BY <1>1, <2>1
<1> QED  BY <1>1, <1>5, <1>7, <1>8, <1>9, <1>10 DEF n, ids

\* priority.go:132-152: what is left of the project after the latest start is the
\* depth of a node from the other side.
LEMMA LatestIs ==
  ASSUME NEW nodes, Proper(nodes), NEW order, Listed(nodes, order),
         NEW projectEnd \in Nat, NEW lst, lst = Latest(nodes, order, projectEnd)
  PROVE  /\ lst \in [IDs(nodes) -> Int]
         /\ Depth(IDs(nodes), Back(Edges(nodes)), [id \in IDs(nodes) |-> (projectEnd - 1) - lst[id]])
<1> DEFINE ids == IDs(nodes)  n == Len(order)  edges == Edges(nodes)
           back == BackwardOrder(order)  top == projectEnd - 1
           Best(l, b) == Min({projectEnd} \cup {l[nodes[i].id] : i \in downstream(nodes, b)}) - 1
           Turn(k, l) == [l EXCEPT ![back[k]] = Best(l, back[k])]
           start == [id \in ids |-> top]
           Times == {x \in Int : x <= top}
           Is(g) == g = [k \in 0..n |-> IF k = 0 THEN start ELSE Turn(k, g[k - 1])]
           at == CHOOSE g : Is(g)
           turn == [k \in 1..n |-> [l \in [ids -> Times] |-> Turn(k, l)]]
<1>1. /\ nodes \in Seq(Node) /\ Cardinality(ids) = Len(nodes) /\ edges \subseteq ids \X ids
  BY DEF Proper, Sound
<1>2. /\ Len(nodes) \in Nat /\ DOMAIN nodes = 1..Len(nodes)
      /\ \A i \in 1..Len(nodes) : nodes[i].id \in ids
      /\ \A a, b : <<a, b>> \in edges <=> \E i \in 1..Len(nodes) : nodes[i].id = b /\ a \in Range(nodes[i].deps)
  BY <1>1, SliceIs
<1>3. n \in Nat /\ back \in [1..n -> ids] /\ IsInjective(back)
  BY BackwardIs
<1>4. Range(back) = ids /\ \A i, k \in 1..n : <<back[i], back[k]>> \in edges => k < i
  BY BackwardIs
<1>5. ASSUME NEW l \in [ids -> Times], NEW b \in ids
      PROVE  /\ Best(l, b) \in Times
             /\ \A a \in ids : <<b, a>> \in edges => Best(l, b) <= l[a] - 1
             /\ Best(l, b) = top \/ \E a \in ids : <<b, a>> \in edges /\ Best(l, b) = l[a] - 1
  <2> DEFINE m == Len(nodes)  P == downstream(nodes, b)
             v == [i \in 1..m |-> IF i \in P THEN l[nodes[i].id] ELSE projectEnd]
             w == [i \in 1..m + 1 |-> IF i = m + 1 THEN projectEnd ELSE v[i]]
             S == {projectEnd} \cup {l[nodes[i].id] : i \in P}
  <2>1. m \in Nat /\ P = {i \in 1..m : b \in Range(nodes[i].deps)}
    BY <1>2 DEF downstream
  <2>2. \A a : (\E i \in P : nodes[i].id = a) <=> <<b, a>> \in edges
    BY <1>2, <2>1
  <2>3. \A a : <<b, a>> \in edges => a \in ids
    BY <1>1
  <2> HIDE DEF m, ids, edges, P
  <2>4. \A i \in 1..m : v[i] \in Int /\ v[i] <= projectEnd /\ v[i] \in S
    <3> SUFFICES ASSUME NEW i \in 1..m PROVE v[i] \in Int /\ v[i] <= projectEnd /\ v[i] \in S
      OBVIOUS
    <3>1. CASE i \in P
      <4>1. l[nodes[i].id] \in Times
        BY <2>2, <2>3, <3>1
      <4> QED  BY <3>1, <4>1
    <3>2. CASE i \notin P
      BY <3>2
    <3> QED  BY <3>1, <3>2
  <2>5. \A i \in 1..m + 1 : w[i] \in Int /\ w[i] <= projectEnd /\ w[i] \in S
    <3> SUFFICES ASSUME NEW i \in 1..m + 1 PROVE w[i] \in Int /\ w[i] <= projectEnd /\ w[i] \in S
      OBVIOUS
    <3>1. CASE i = m + 1
      BY <3>1
    <3>2. CASE i # m + 1
      <4>1. i \in 1..m /\ w[i] = v[i]
        BY <2>1, <3>2
      <4> HIDE DEF v, w, S
      <4> QED  BY <2>4, <4>1
    <3> QED  BY <3>1, <3>2
  <2>6. \A x : x \in S <=> \E i \in 1..m + 1 : x = w[i]
    <3>1. ASSUME NEW x \in S
          PROVE  \E i \in 1..m + 1 : x = w[i]
      <4>1. CASE x = projectEnd
        <5>1. w[m + 1] = projectEnd /\ m + 1 \in 1..m + 1
          BY <2>1
        <5> QED  BY <4>1, <5>1
      <4>2. CASE x # projectEnd
        <5>1. PICK i \in P : x = l[nodes[i].id]
          BY <4>2
        <5>2. i \in 1..m /\ i \in 1..m + 1 /\ i # m + 1
          BY <2>1
        <5>3. w[i] = x
          BY <5>1, <5>2
        <5> QED  BY <5>2, <5>3
      <4> QED  BY <4>1, <4>2
    <3> HIDE DEF S, w
    <3> QED  BY <2>5, <3>1
  <2>7. Min(S) \in S /\ \A x \in S : Min(S) <= x
    <3>1. m + 1 \in Nat
      BY <2>1
    <3>2. S # {}
      OBVIOUS
    <3> HIDE DEF S, w
    <3>3. \A i \in 1..m + 1 : w[i] \in Int
      BY <2>5
    <3> QED  BY <2>6, <3>1, <3>2, <3>3, MaxOf
  <2>8. Min(S) \in Int /\ Min(S) <= projectEnd
    <3> HIDE DEF S, w
    <3> QED  BY <2>5, <2>6, <2>7
  <2>9. Best(l, b) = Min(S) - 1
    BY DEF P
  <2>10. \A a \in ids : <<b, a>> \in edges => Min(S) <= l[a]
    BY <2>2, <2>7
  <2>11. Min(S) = projectEnd \/ \E a \in ids : <<b, a>> \in edges /\ Min(S) = l[a]
    BY <2>2, <2>3, <2>7
  <2>12. \A a \in ids : l[a] \in Int
    OBVIOUS
  <2> HIDE DEF Best, S
  <2>13. Best(l, b) \in Times
    BY <2>8, <2>9
  <2>14. \A a \in ids : <<b, a>> \in edges => Best(l, b) <= l[a] - 1
    BY <2>8, <2>9, <2>10, <2>12
  <2>15. Best(l, b) = top \/ \E a \in ids : <<b, a>> \in edges /\ Best(l, b) = l[a] - 1
    BY <2>9, <2>11
  <2> QED  BY <2>13, <2>14, <2>15
<1> HIDE DEF Best, ids, n, edges, back
<1>6. start \in [ids -> Times]
  OBVIOUS
<1>7. \A k \in 1..n : \A l \in [ids -> Times] : Turn(k, l) \in [ids -> Times]
  <2> SUFFICES ASSUME NEW k \in 1..n, NEW l \in [ids -> Times] PROVE Turn(k, l) \in [ids -> Times]
    OBVIOUS
  <2>1. back[k] \in ids
    BY <1>3
  <2>2. Best(l, back[k]) \in Times
    BY <1>5, <2>1
  <2> HIDE DEF Times
  <2> QED  BY <2>1, <2>2
<1>8. turn \in [1..n -> [[ids -> Times] -> [ids -> Times]]]
  <2> HIDE DEF Turn, Times
  <2> QED  BY <1>7
<1>9. PICK t \in [0..n -> [ids -> Times]] : TakesTurns(n, start, turn, t)
  <2> DEFINE States == [ids -> Times]
  <2>1. start \in States /\ turn \in [1..n -> [States -> States]]
    BY <1>6, <1>8
  <2> HIDE DEF States, start, turn
  <2>2. \E f \in [0..n -> States] : TakesTurns(n, start, turn, f)
    BY <1>3, <2>1, LoopExists
  <2> QED  BY <2>2 DEF States
<1> HIDE DEF Turn, start, Times
<1>10. t[0] = start /\ \A k \in 1..n : t[k] = Turn(k, t[k - 1])
  <2>1. ASSUME NEW k \in 1..n
        PROVE  t[k] = Turn(k, t[k - 1])
    <3>1. k - 1 \in 0..n /\ t[k - 1] \in [ids -> Times]
      BY <1>3
    <3>2. turn[k][t[k - 1]] = Turn(k, t[k - 1])
      BY <3>1
    <3> HIDE DEF turn
    <3> QED  BY <1>9, <3>2 DEF TakesTurns
  <2> QED  BY <1>9, <2>1 DEF TakesTurns
<1>11. Is(t)
  <2>1. t = [k \in 0..n |-> t[k]]
    OBVIOUS
  <2>2. \A k \in 0..n : t[k] = IF k = 0 THEN start ELSE Turn(k, t[k - 1])
    BY <1>3, <1>10
  <2> QED  BY <2>1, <2>2
<1>12. Is(at)
  BY <1>11
<1>13. lst = at[n]
  BY DEF Latest, n, start, Turn, Best, ids, back
<1> HIDE DEF at
<1>14. at[0] = start /\ \A k \in 1..n : at[k] = Turn(k, at[k - 1])
  <2>1. at[0] = start
    BY <1>3, <1>12
  <2>2. ASSUME NEW k \in 1..n
        PROVE  at[k] = Turn(k, at[k - 1])
    <3>1. k \in 0..n /\ k # 0
      BY <1>3
    <3> QED  BY <1>12, <3>1
  <2> QED  BY <2>1, <2>2
<1>15. at = [k \in 0..n |-> at[k]]
  BY <1>12
<1> HIDE DEF Is, turn
<1>16. at \in [0..n -> [ids -> Times]]
  <2> DEFINE Good == {k \in 0..n : at[k] \in [ids -> Times]}
  <2>1. 0 \in Good
    BY <1>3, <1>6, <1>14
  <2>2. \A k \in 1..n : k - 1 \in Good => k \in Good
    BY <1>7, <1>14
  <2>3. \A k \in 0..n : k \in Good
    <3> HIDE DEF Good
    <3> QED  BY <1>3, <2>1, <2>2, EveryTurn
  <2> QED  BY <1>15, <2>3
<1> DEFINE w == [k \in 1..n |-> Best(at[k - 1], back[k])]
<1>17. \A j \in 1..n : \A k \in j..n : at[k][back[j]] = w[j]
  <2>1. \A k \in 1..n : at[k] = [at[k - 1] EXCEPT ![back[k]] = w[k]]
    BY <1>14 DEF Turn
  <2>2. at \in [0..n -> [ids -> Int]]
    BY <1>16 DEF Times
  <2> HIDE DEF w
  <2>3. Sweeps(n, ids, back, at, w)
    BY <1>3, <2>1, <2>2 DEF Sweeps
  <2>4. n \in Nat
    BY <1>3
  <2>5. \A m \in Nat : Sweeps(m, ids, back, at, w) => \A j \in 1..m : \A k \in j..m : at[k][back[j]] = w[j]
    BY SweepIs
  <2> QED  BY <2>3, <2>4, <2>5
<1>18. lst \in [ids -> Times]
  BY <1>3, <1>13, <1>16
<1>19. ASSUME NEW b \in ids
       PROVE  /\ \A a \in ids : <<b, a>> \in edges => lst[b] <= lst[a] - 1
              /\ lst[b] = top \/ \E a \in ids : <<b, a>> \in edges /\ lst[b] = lst[a] - 1
  <2>1. \A a \in ids : \E i \in 1..n : back[i] = a
    BY <1>3, <1>4 DEF Range
  <2>2. PICK k \in 1..n : back[k] = b
    BY <2>1
  <2> DEFINE l == at[k - 1]
  <2>3. l \in [ids -> Times] /\ k \in k..n /\ n \in k..n
    BY <1>3, <1>16
  <2>4. lst[b] = Best(l, b)
    BY <1>13, <1>17, <2>2, <2>3
  <2>5. ASSUME NEW a \in ids, <<b, a>> \in edges
        PROVE  l[a] = lst[a]
    <3>1. PICK i \in 1..n : back[i] = a
      BY <2>1
    <3>2. i < k
      BY <1>4, <2>2, <2>5, <3>1
    <3>3. k - 1 \in i..n /\ n \in i..n
      BY <1>3, <3>2
    <3> QED  BY <1>13, <1>17, <3>1, <3>3
  <2> HIDE DEF l, top
  <2> QED  BY <1>5, <2>3, <2>4, <2>5
<1> DEFINE g == [id \in ids |-> top - lst[id]]
<1>20. top \in Int /\ \A id \in ids : lst[id] \in Int /\ lst[id] <= top
  BY <1>18 DEF Times
<1> HIDE DEF top
<1>21. g \in [ids -> Nat]
  BY <1>20
<1>22. \A a, b : <<a, b>> \in Back(edges) <=> <<b, a>> \in edges
  BY <1>1 DEF Back, edges
<1>23. \A a, b \in ids : <<a, b>> \in Back(edges) => g[a] + 1 <= g[b]
  <2> SUFFICES ASSUME NEW a \in ids, NEW b \in ids, <<a, b>> \in Back(edges) PROVE g[a] + 1 <= g[b]
    OBVIOUS
  <2>1. lst[b] <= lst[a] - 1
    BY <1>19, <1>22
  <2>2. g[a] = top - lst[a] /\ g[b] = top - lst[b]
    OBVIOUS
  <2>3. lst[a] \in Int /\ lst[b] \in Int /\ top \in Int
    BY <1>20
  <2> HIDE DEF g
  <2> QED  BY <2>1, <2>2, <2>3
<1>24. \A b \in ids : g[b] = 0 \/ \E a \in ids : <<a, b>> \in Back(edges) /\ g[b] = g[a] + 1
  <2> SUFFICES ASSUME NEW b \in ids
               PROVE  g[b] = 0 \/ \E a \in ids : <<a, b>> \in Back(edges) /\ g[b] = g[a] + 1
    OBVIOUS
  <2>1. g[b] = top - lst[b] /\ lst[b] \in Int /\ top \in Int
    BY <1>20
  <2>2. CASE lst[b] = top
    BY <2>1, <2>2
  <2>3. CASE lst[b] # top
    <3>1. PICK a \in ids : <<b, a>> \in edges /\ lst[b] = lst[a] - 1
      BY <1>19, <2>3
    <3>2. g[a] = top - lst[a] /\ lst[a] \in Int
      BY <1>20
    <3>3. <<a, b>> \in Back(edges)
      BY <1>22, <3>1
    <3>4. g[b] = g[a] + 1
      <4> HIDE DEF g
      <4> QED  BY <2>1, <3>1, <3>2
    <3> QED  BY <3>3, <3>4
  <2> QED  BY <2>2, <2>3
<1>25. Depth(ids, Back(edges), g)
  <2> HIDE DEF g
  <2> QED  BY <1>21, <1>23, <1>24 DEF Depth
<1>26. lst \in [ids -> Int]
  BY <1>18 DEF Times
<1> QED  BY <1>25, <1>26 DEF ids, edges, top

\* priority.go:93-163: a node's priority is the length of the longest chain through it.
LEMMA PriorityIs ==
  ASSUME NEW nodes, Proper(nodes), NEW id \in IDs(nodes)
  PROVE  LongestThrough(IDs(nodes), Edges(nodes), id, ComputeCriticalPath(nodes)[id])
<1> DEFINE ids == IDs(nodes)  edges == Edges(nodes)
           order == topologicalSort(nodes)  est == Earliest(nodes, order)
           S == {0} \cup {est[a] + 1 : a \in Range(order)}  projectEnd == Max(S)
           lst == Latest(nodes, order, projectEnd)  n == Len(order)
           g == [a \in ids |-> (projectEnd - 1) - lst[a]]
<1>1. ComputeCriticalPath(nodes)[id] = projectEnd - (lst[id] - est[id])
  BY DEF ComputeCriticalPath
<1>2. Listed(nodes, order)
  BY SortedIs
<1>3. Depth(ids, edges, est)
  BY <1>2, EarliestIs
<1> HIDE DEF order, est
<1>4. est \in [ids -> Nat]
  BY <1>3 DEF Depth
<1>5. n \in Nat /\ DOMAIN order = 1..n /\ \A i \in 1..n : order[i] \in ids
  <2>1. order \in Seq(ids)
    BY <1>2 DEF Listed
  <2> HIDE DEF ids
  <2> QED  BY <2>1, LenProperties, ElementOfSeq
<1> HIDE DEF n, ids
<1>6. projectEnd \in Nat
  <2> DEFINE v == [i \in 1..n + 1 |-> IF i = n + 1 THEN 0 ELSE est[order[i]] + 1]
  <2>1. v[n + 1] = 0 /\ n + 1 \in 1..n + 1 /\ n + 1 \in Nat
    BY <1>5
  <2>2. \A i \in 1..n : v[i] = est[order[i]] + 1 /\ i \in 1..n + 1 /\ v[i] \in Nat
    BY <1>4, <1>5
  <2>3. \A i \in 1..n + 1 : i = n + 1 \/ i \in 1..n
    BY <1>5
  <2>4. \A x : x \in S <=> x = 0 \/ \E i \in 1..n : x = est[order[i]] + 1
    BY <1>5 DEF Range
  <2>5. S # {}
    BY <2>4
  <2> HIDE DEF S, v
  <2>6. \A x : x \in S <=> \E i \in 1..n + 1 : x = v[i]
    BY <2>1, <2>2, <2>3, <2>4
  <2>7. \A i \in 1..n + 1 : v[i] \in Nat
    BY <2>1, <2>2, <2>3
  <2>8. Max(S) \in S
    <3>1. \A i \in 1..n + 1 : v[i] \in Int
      BY <2>7
    <3> DEFINE k == n + 1
    <3>2. k \in Nat /\ (\A i \in 1..k : v[i] \in Int)
      BY <2>1, <3>1
    <3>3. \A x : x \in S <=> \E i \in 1..k : x = v[i]
      BY <2>6
    <3> HIDE DEF k
    <3> QED  BY <2>5, <3>2, <3>3, MaxOf
  <2> QED  BY <2>6, <2>7, <2>8
<1> HIDE DEF projectEnd
<1>7. lst \in [ids -> Int] /\ Depth(ids, Back(edges), g)
  <2>1. \A l : l = Latest(nodes, order, projectEnd) =>
            /\ l \in [IDs(nodes) -> Int]
            /\ Depth(IDs(nodes), Back(Edges(nodes)), [a \in IDs(nodes) |-> (projectEnd - 1) - l[a]])
    BY <1>2, <1>6, LatestIs
  <2> QED  BY <2>1 DEF ids
<1>8. IsFiniteSet(ids) /\ \A e \in edges : e = <<e[1], e[2]>>
  BY SliceIs DEF Proper, ids
<1> HIDE DEF lst, edges
<1>9. g[id] = (projectEnd - 1) - lst[id] /\ id \in ids
  BY DEF ids
<1>10. LongestThrough(ids, edges, id, est[id] + g[id] + 1)
  <2> HIDE DEF g
  <2> QED  BY <1>3, <1>7, <1>8, <1>9, ThroughIs
<1>11. est[id] + g[id] + 1 = projectEnd - (lst[id] - est[id])
  <2> HIDE DEF g
  <2>1. est[id] \in Nat /\ lst[id] \in Int
    BY <1>4, <1>7, <1>9
  <2> QED  BY <1>6, <1>9, <2>1
<1> HIDE DEF g
<1> QED  BY <1>1, <1>10, <1>11 DEF ids, edges

\* dag.go:472-494: the terminal nodes among those that have finished.
LEMMA TerminalIs ==
  ASSUME NEW nodes \in Seq(Node), NEW finished
  PROVE  Terminal(nodes, finished) = Terminals(Edges(nodes), finished)
<1>1. ASSUME NEW a
      PROVE  downstream(nodes, a) = {} <=> \A e \in Edges(nodes) : e[1] # a
  <2>1. \A i \in DOMAIN nodes : a \in Range(nodes[i].deps) => <<a, nodes[i].id>> \in Edges(nodes)
    BY SliceIs
  <2>2. ASSUME NEW e \in Edges(nodes), e[1] = a
        PROVE  \E i \in DOMAIN nodes : a \in Range(nodes[i].deps)
    <3>1. e = <<e[1], e[2]>>
      BY SliceIs
    <3>2. <<a, e[2]>> \in Edges(nodes)
      BY <2>2, <3>1
    <3> QED  BY <3>2, SliceIs
  <2>3. ASSUME NEW i \in DOMAIN nodes, a \in Range(nodes[i].deps)
        PROVE  \E e \in Edges(nodes) : e[1] = a
    <3> DEFINE e == <<a, nodes[i].id>>
    <3>1. e \in Edges(nodes) /\ e[1] = a
      BY <2>1, <2>3
    <3> QED  BY <3>1
  <2>4. downstream(nodes, a) = {} <=> ~\E i \in DOMAIN nodes : a \in Range(nodes[i].deps)
    BY DEF downstream
  <2> QED  BY <2>2, <2>3, <2>4
<1>2. {a \in finished : downstream(nodes, a) = {}} = {a \in finished : \A e \in Edges(nodes) : e[1] # a}
  BY <1>1
<1> QED  BY <1>2 DEF Terminal, Terminals

\* aggregator.go: the IDs of results in ascending order.
LEMMA KeysAre ==
  ASSUME NEW nodes \in Seq(Node), NEW T \in SUBSET IDs(nodes), NEW keys, keys = SortedKeys(T)
  PROVE  /\ keys \in Seq(T) /\ Range(keys) = T
         /\ \A i, k \in 1..Len(keys) : i < k => keys[i] < keys[k]
<1> DEFINE n == Len(nodes)  S == {0} \cup T  max == Max(S)
           v == [i \in 1..n + 1 |-> IF i = n + 1 THEN 0 ELSE IF nodes[i].id \in T THEN nodes[i].id ELSE 0]
<1>1. /\ n \in Nat /\ \A i \in 1..n : nodes[i].id \in Nat \ {0}
      /\ \A id \in IDs(nodes) : \E i \in 1..n : nodes[i].id = id
  BY SliceIs DEF ID
<1> HIDE DEF n
<1>2. \A x : x \in S <=> \E i \in 1..n + 1 : x = v[i]
  <2>1. v[n + 1] = 0 /\ n + 1 \in 1..n + 1
    BY <1>1
  <2>2. \A i \in 1..n : i \in 1..n + 1 /\ v[i] = IF nodes[i].id \in T THEN nodes[i].id ELSE 0
    BY <1>1
  <2>3. \A i \in 1..n + 1 : i = n + 1 \/ i \in 1..n
    BY <1>1
  <2>4. \A x : x \in S <=> x = 0 \/ x \in T
    OBVIOUS
  <2> HIDE DEF S, v
  <2>5. \A x \in T : \E i \in 1..n + 1 : x = v[i]
    BY <1>1, <2>2
  <2>6. \A i \in 1..n + 1 : v[i] \in S
    BY <2>1, <2>2, <2>3, <2>4
  <2> QED  BY <2>1, <2>4, <2>5, <2>6
<1>3. \A x \in S : x \in Nat
  BY <1>1
<1>4. max \in S /\ \A x \in S : x <= max
  <2>1. S # {} /\ n + 1 \in Nat
    BY <1>1
  <2> HIDE DEF v, S
  <2>2. \A i \in 1..n + 1 : v[i] \in Int
    BY <1>2, <1>3
  <2> QED  BY <1>2, <2>1, <2>2, MaxOf
<1>5. max \in Nat
  <2> HIDE DEF max, S
  <2> QED  BY <1>3, <1>4
<1>6. \A x \in T : x \in 1..max
  <2> SUFFICES ASSUME NEW x \in T PROVE x \in 1..max
    OBVIOUS
  <2>1. x \in Nat \ {0} /\ x <= max
    BY <1>1, <1>4
  <2> QED  BY <1>5, <2>1
<1>7. keys = Ascending(T, max)
  BY DEF SortedKeys
<1> HIDE DEF max, S, v
<1>8. /\ keys \in Seq(1..max) /\ Range(keys) = T \cap (1..max)
      /\ \A i, k \in 1..Len(keys) : i < k => keys[i] < keys[k]
  BY <1>5, <1>7, AscendingIs
<1>9. Range(keys) = T
  BY <1>6, <1>8
<1>10. keys \in Seq(T)
  <2>1. Len(keys) \in Nat /\ DOMAIN keys = 1..Len(keys)
    BY <1>8, LenProperties
  <2>2. keys = [i \in 1..Len(keys) |-> keys[i]]
    <3>1. keys \in [1..Len(keys) -> 1..max]
      BY <1>8, LenProperties
    <3> QED  BY <3>1
  <2>3. \A i \in 1..Len(keys) : keys[i] \in T
    BY <1>9, <2>1 DEF Range
  <2>4. keys \in [1..Len(keys) -> T]
    BY <2>2, <2>3
  <2> QED  BY <2>1, <2>4, IsASeq
<1> QED  BY <1>8, <1>9, <1>10

\* A list that is ascending, with one greater number more.
LEMMA AscendsOn ==
  ASSUME NEW m \in Seq(Nat), \A i, k \in 1..Len(m) : i < k => m[i] < m[k],
         NEW x \in Nat, \A y \in Range(m) : y < x, NEW q, q = m \o <<x>>
  PROVE  /\ q \in Seq(Nat) /\ Range(q) = Range(m) \cup {x}
         /\ \A i, k \in 1..Len(q) : i < k => q[i] < q[k]
<1>1. q = Append(m, x)
  BY AppendIsConcat
<1>2. Len(m) \in Nat /\ DOMAIN m = 1..Len(m)
  BY LenProperties
<1>3. /\ q \in Seq(Nat) /\ Len(q) = Len(m) + 1
      /\ (\A i \in 1..Len(m) : q[i] = m[i]) /\ q[Len(m) + 1] = x
  BY <1>1, AppendProperties
<1>4. DOMAIN q = 1..Len(q)
  BY <1>3, LenProperties
<1>5. \A i \in 1..Len(m) : m[i] < x
  BY <1>2 DEF Range
<1>6. Range(q) = Range(m) \cup {x}
  <2>1. \A i \in 1..Len(q) : i \in 1..Len(m) \/ i = Len(m) + 1
    BY <1>2, <1>3
  <2>2. Len(m) + 1 \in 1..Len(q) /\ \A i \in 1..Len(m) : i \in 1..Len(q)
    BY <1>2, <1>3
  <2> QED  BY <1>2, <1>3, <1>4, <2>1, <2>2 DEF Range
<1>7. ASSUME NEW i \in 1..Len(q), NEW k \in 1..Len(q), i < k
      PROVE  q[i] < q[k]
  <2>1. i \in 1..Len(m)
    BY <1>2, <1>3, <1>7
  <2>2. CASE k = Len(m) + 1
    BY <1>3, <1>5, <2>1, <2>2
  <2>3. CASE k # Len(m) + 1
    <3>1. k \in 1..Len(m)
      BY <1>2, <1>3, <2>3
    <3> QED  BY <1>3, <1>7, <2>1, <3>1
  <2> QED  BY <2>2, <2>3
<1> QED  BY <1>3, <1>6, <1>7

\* Results in which each of the nodes ids but node 1 has a message of its own.
Told(ids) == [id \in ids |-> IF id = 1 THEN <<>> ELSE <<id>>]

\* aggregator.go:38-75: the messages of the results by ID, and those of the last one.
LEMMA AggregatedIs ==
  ASSUME NEW nodes \in Seq(Node), NEW T \in SUBSET IDs(nodes),
         NEW results, results = Told(T),
         NEW all, all = concatMessages(results), NEW last, last = lastResult(results)
  PROVE  /\ all \in Seq(Nat) /\ Range(all) = T \ {1}
         /\ \A i, k \in 1..Len(all) : i < k => all[i] < all[k]
         /\ Range(last) = {id \in T \ {1} : \A other \in T : other <= id}
<1> DEFINE keys == SortedKeys(DOMAIN results)  n == Len(keys)
           Turn(i, m) == m \o results[keys[i]]
           Is(g) == g = [i \in 0..n |-> IF i = 0 THEN <<>> ELSE Turn(i, g[i - 1])]
           at == CHOOSE g : Is(g)
           turn == [i \in 1..n |-> [m \in Seq(Nat) |-> Turn(i, m)]]
<1>1. /\ keys \in Seq(T) /\ Range(keys) = T
      /\ \A i, k \in 1..n : i < k => keys[i] < keys[k]
  <2>1. DOMAIN results = T
    BY DEF Told
  <2> QED  BY <2>1, KeysAre
<1>2. \A id \in T : id \in Nat \ {0}
  BY SliceIs DEF ID
<1>3. all = at[n]
  BY DEF concatMessages
<1>4. last = IF T = {} THEN <<>> ELSE results[Last(keys)]
  BY DEF lastResult, Told
<1> HIDE DEF keys
<1>5. n \in Nat /\ DOMAIN keys = 1..n /\ \A i \in 1..n : keys[i] \in T
  BY <1>1, LenProperties, ElementOfSeq
<1> HIDE DEF n, at
<1>6. ASSUME NEW i \in 1..n, NEW m \in Seq(Nat)
      PROVE  /\ Turn(i, m) \in Seq(Nat)
             /\ keys[i] = 1 => Turn(i, m) = m
             /\ keys[i] # 1 => Turn(i, m) = m \o <<keys[i]>>
  <2>1. keys[i] \in T /\ keys[i] \in Nat
    BY <1>2, <1>5
  <2>2. CASE keys[i] = 1
    <3>1. results[keys[i]] = <<>>
      BY <2>1, <2>2 DEF Told
    <3>2. m \o <<>> = m
      BY ConcatEmptySeq
    <3> QED  BY <2>2, <3>1, <3>2
  <2>3. CASE keys[i] # 1
    <3>1. results[keys[i]] = <<keys[i]>>
      BY <2>1, <2>3 DEF Told
    <3>2. m \o <<keys[i]>> = Append(m, keys[i])
      BY <2>1, AppendIsConcat
    <3>3. Append(m, keys[i]) \in Seq(Nat)
      BY <2>1, AppendProperties
    <3> QED  BY <2>3, <3>1, <3>2, <3>3
  <2> QED  BY <2>2, <2>3
<1> HIDE DEF Turn
<1>7. turn \in [1..n -> [Seq(Nat) -> Seq(Nat)]]
  BY <1>6
<1>8. PICK t \in [0..n -> Seq(Nat)] : TakesTurns(n, <<>>, turn, t)
  <2>1. <<>> \in Seq(Nat)
    BY EmptySeq
  <2> HIDE DEF turn
  <2> QED  BY <1>5, <1>7, <2>1, LoopExists
<1>9. t[0] = <<>> /\ \A i \in 1..n : t[i] = Turn(i, t[i - 1])
  <2>1. ASSUME NEW i \in 1..n
        PROVE  t[i] = Turn(i, t[i - 1])
    <3>1. i - 1 \in 0..n /\ t[i - 1] \in Seq(Nat)
      BY <1>5
    <3>2. turn[i][t[i - 1]] = Turn(i, t[i - 1])
      BY <3>1
    <3> HIDE DEF turn
    <3> QED  BY <1>8, <3>2 DEF TakesTurns
  <2> QED  BY <1>8, <2>1 DEF TakesTurns
<1> HIDE DEF turn
<1>10. Is(t)
  <2>1. t = [i \in 0..n |-> t[i]]
    OBVIOUS
  <2>2. \A i \in 0..n : t[i] = IF i = 0 THEN <<>> ELSE Turn(i, t[i - 1])
    BY <1>5, <1>9
  <2> QED  BY <2>1, <2>2
<1>11. Is(at)
  BY <1>10 DEF at
<1>12. at[0] = <<>> /\ \A i \in 1..n : at[i] = Turn(i, at[i - 1])
  <2>1. at[0] = <<>>
    BY <1>5, <1>11
  <2>2. ASSUME NEW i \in 1..n
        PROVE  at[i] = Turn(i, at[i - 1])
    <3>1. i \in 0..n /\ i # 0
      BY <1>5
    <3> QED  BY <1>11, <3>1
  <2> QED  BY <2>1, <2>2
<1> HIDE DEF Is
<1> DEFINE Inv(i, m) == /\ m \in Seq(Nat)
                        /\ \A x : x \in Range(m) <=> x # 1 /\ \E j \in 1..i : x = keys[j]
                        /\ \A j, k \in 1..Len(m) : j < k => m[j] < m[k]
           Good == {i \in 0..n : Inv(i, at[i])}
<1>13. 0 \in Good
  <2>1. <<>> \in Seq(Nat) /\ Range(<<>>) = {} /\ Len(<<>>) = 0
    BY EmptySeq DEF Range
  <2>2. Inv(0, <<>>)
    BY <2>1
  <2>3. at[0] = <<>> /\ 0 \in 0..n
    BY <1>5, <1>12
  <2> HIDE DEF Inv
  <2> QED  BY <2>2, <2>3
<1>14. ASSUME NEW i \in 1..n, i - 1 \in Good
       PROVE  i \in Good
  <2> DEFINE m == at[i - 1]  q == at[i]
  <2>1. Inv(i - 1, m) /\ q = Turn(i, m)
    BY <1>12, <1>14
  <2>2. keys[i] \in Nat
    BY <1>2, <1>5
  <2> HIDE DEF m, q
  <2>3. \A j \in 1..i : j \in 1..(i - 1) \/ j = i
    OBVIOUS
  <2>4. \A j \in 1..(i - 1) : j \in 1..i /\ keys[j] < keys[i]
    BY <1>1, <1>5
  <2>5. CASE keys[i] = 1
    <3>1. q = m
      BY <1>6, <2>1, <2>5
    <3>2. \A x : (x # 1 /\ \E j \in 1..(i - 1) : x = keys[j]) <=> (x # 1 /\ \E j \in 1..i : x = keys[j])
      BY <2>3, <2>4, <2>5
    <3>3. Inv(i, q)
      BY <2>1, <3>1, <3>2
    <3> QED  BY <3>3 DEF q
  <2>6. CASE keys[i] # 1
    <3>1. q = m \o <<keys[i]>>
      BY <1>6, <2>1, <2>6
    <3>2. \A y \in Range(m) : y < keys[i]
      BY <2>1, <2>4
    <3>3. /\ q \in Seq(Nat) /\ Range(q) = Range(m) \cup {keys[i]}
          /\ \A j, k \in 1..Len(q) : j < k => q[j] < q[k]
      BY <2>1, <2>2, <3>1, <3>2, AscendsOn
    <3>4. \A x : x \in Range(q) <=> x # 1 /\ \E j \in 1..i : x = keys[j]
      <4>1. i \in 1..i
        OBVIOUS
      <4> QED  BY <2>1, <2>3, <2>4, <2>6, <3>3, <4>1
    <3>5. Inv(i, q)
      BY <3>3, <3>4
    <3> QED  BY <3>5 DEF q
  <2> QED  BY <2>5, <2>6
<1>15. Inv(n, all)
  <2>1. \A i \in 1..n : i - 1 \in Good => i \in Good
    BY <1>14
  <2>2. \A i \in 0..n : i \in Good
    <3> HIDE DEF Good
    <3> QED  BY <1>5, <1>13, <2>1, EveryTurn
  <2>3. n \in 0..n
    BY <1>5
  <2> HIDE DEF Inv
  <2> QED  BY <1>3, <2>2, <2>3
<1>16. Range(all) = T \ {1}
  <2>1. \A x : x \in T <=> \E j \in 1..n : x = keys[j]
    BY <1>1, <1>5 DEF Range
  <2> QED  BY <1>15, <2>1
<1>17. Range(last) = {id \in T \ {1} : \A other \in T : other <= id}
  <2>1. CASE T = {}
    BY <1>4, <2>1 DEF Range
  <2>2. CASE T # {}
    <3> DEFINE z == Last(keys)
    <3>1. n \in 1..n /\ z = keys[n]
      <4>1. n # 0
        BY <1>1, <1>5, <2>2 DEF Range
      <4> QED  BY <1>5, <4>1 DEF Last, n
    <3>2. z \in T /\ \A x \in T : x <= z
      <4>1. z \in T
        BY <1>5, <3>1
      <4>2. ASSUME NEW x \in T
            PROVE  x <= z
        <5>1. PICK j \in 1..n : keys[j] = x
          BY <1>1, <1>5 DEF Range
        <5>2. j = n \/ j < n
          BY <1>5
        <5>3. x \in Nat /\ z \in Nat
          BY <1>2, <4>1
        <5> QED  BY <1>1, <3>1, <5>1, <5>2, <5>3
      <4> QED  BY <4>1, <4>2
    <3> HIDE DEF z
    <3>3. last = IF z = 1 THEN <<>> ELSE <<z>>
      BY <1>4, <2>2, <3>2 DEF z, Told
    <3>4. \A id \in T : (\A other \in T : other <= id) <=> id = z
      BY <1>2, <3>2
    <3>5. CASE z = 1
      <4>1. Range(<<>>) = {}
        BY DEF Range
      <4>2. Range(last) = {}
        BY <3>3, <3>5, <4>1
      <4> QED  BY <3>4, <3>5, <4>2
    <3>6. CASE z # 1
      <4>1. Range(<<z>>) = {z}
        BY DEF Range
      <4>2. Range(last) = {z}
        BY <3>3, <3>6, <4>1
      <4> QED  BY <3>2, <3>4, <3>6, <4>2
    <3> QED  BY <3>5, <3>6
  <2> QED  BY <2>1, <2>2
<1> QED  BY <1>15, <1>16, <1>17

\* A message of a history or one that a compressor has made.
Piece == Message \cup [role : {"system", "user"}, calls : {FALSE}, tokens : Nat, id : {0}, count : Nat]

\* The end of a sequence.
LEMMA SuffixIs ==
  ASSUME NEW S, NEW s \in Seq(S), NEW n \in 0..Len(s)
  PROVE  /\ Suffix(s, n) \in Seq(S) /\ Len(Suffix(s, n)) = n /\ DOMAIN Suffix(s, n) = 1..n
         /\ \A i \in 1..n : Suffix(s, n)[i] = s[(Len(s) - n) + i]
<1> DEFINE m == Len(s)  a == m - n + 1  q == Suffix(s, n)
<1>1. m \in Nat
  BY LenProperties
<1>2. a \in 1..m + 1 /\ m \in a - 1..m /\ m - a + 1 = n
  BY <1>1
<1>3. q = SubSeq(s, a, m)
  BY DEF Suffix
<1>4. /\ q \in Seq(S) /\ Len(q) = n /\ \A i \in 1..n : q[i] = s[a + i - 1]
  <2> HIDE DEF q
  <2>1. /\ SubSeq(s, a, m) \in Seq(S) /\ Len(SubSeq(s, a, m)) = m - a + 1
        /\ \A i \in 1..(m - a + 1) : SubSeq(s, a, m)[i] = s[a + i - 1]
    <3> HIDE DEF a
    <3> QED  BY <1>2, PartIs
  <2> QED  BY <1>2, <1>3, <2>1
<1>5. DOMAIN q = 1..n
  <2> HIDE DEF q
  <2> QED  BY <1>4, LenProperties
<1>6. \A i \in 1..n : a + i - 1 = (m - n) + i
  BY <1>1
<1> QED  BY <1>4, <1>5, <1>6

\* Tokens of a list of messages, of two lists, and of one message.
LEMMA TokensAre ==
  ASSUME NEW s \in Seq(Piece)
  PROVE  /\ EstimateTokens(s) \in Nat
         /\ Len(s) = 0 => EstimateTokens(s) = 0
         /\ EstimateTokens(s) = Total([i \in 1..Len(s) |-> s[i].tokens], Len(s))
         /\ \A i \in 1..Len(s) : s[i].tokens \in Nat
<1> DEFINE f == [i \in 1..Len(s) |-> s[i].tokens]  n == Len(s)
<1>1. n \in Nat /\ DOMAIN s = 1..n
  BY LenProperties
<1>2. \A i \in 1..n : f[i] \in Nat /\ f[i] = s[i].tokens
  <2> SUFFICES ASSUME NEW i \in 1..n PROVE s[i].tokens \in Nat
    OBVIOUS
  <2>1. s[i] \in Piece
    BY ElementOfSeq
  <2> QED  BY <2>1 DEF Piece, Message
<1>3. EstimateTokens(s) = Total(f, n)
  BY <1>1 DEF EstimateTokens
<1> HIDE DEF f, n
<1>4. Total(f, n) \in Nat
  BY <1>1, <1>2, TotalNat
<1>5. Total(f, 0) = 0
  <2>1. \A i \in 1..n : f[i] \in Int
    BY <1>2
  <2> QED  BY <1>1, <2>1, TotalMore
<1> QED  BY <1>2, <1>3, <1>4, <1>5 DEF f, n

LEMMA TokensOfTwo ==
  ASSUME NEW p \in Seq(Piece), NEW q \in Seq(Piece)
  PROVE  p \o q \in Seq(Piece) /\ EstimateTokens(p \o q) = EstimateTokens(p) + EstimateTokens(q)
<1> DEFINE r == p \o q  m == Len(p)  n == Len(q)
           f == [i \in 1..m |-> p[i].tokens]  g == [i \in 1..n |-> q[i].tokens]
           h == [i \in 1..(m + n) |-> r[i].tokens]
<1>1. m \in Nat /\ n \in Nat
  BY LenProperties
<1>2. /\ r \in Seq(Piece) /\ Len(r) = m + n
      /\ \A i \in 1..(m + n) : r[i] = IF i <= m THEN p[i] ELSE q[i - m]
  BY ConcatProperties
<1>3. EstimateTokens(p) = Total(f, m) /\ EstimateTokens(q) = Total(g, n)
      /\ (\A i \in 1..m : f[i] \in Nat) /\ (\A i \in 1..n : g[i] \in Nat)
  BY TokensAre
<1>4. EstimateTokens(r) = Total(h, m + n) /\ (\A i \in 1..(m + n) : h[i] \in Nat)
  <2> HIDE DEF r
  <2>1. EstimateTokens(r) = Total([i \in 1..Len(r) |-> r[i].tokens], Len(r))
        /\ \A i \in 1..Len(r) : r[i].tokens \in Nat
    BY <1>2, TokensAre
  <2> QED  BY <1>2, <2>1
<1>5. \A i \in 1..m : f[i] = h[i]
  BY <1>1, <1>2
<1>6. \A i \in 1..n : g[i] = h[m + i]
  <2> SUFFICES ASSUME NEW i \in 1..n PROVE g[i] = h[m + i]
    OBVIOUS
  <2>1. m + i \in 1..(m + n) /\ ~(m + i <= m) /\ (m + i) - m = i
    BY <1>1
  <2>2. r[m + i] = q[i]
    BY <1>2, <2>1
  <2> HIDE DEF r
  <2> QED  BY <2>1, <2>2
<1> HIDE DEF f, g, h, m, n, r
<1>7. Total(h, m + n) = Total(h, m) + Total(g, n)
  <2>1. \A i \in 1..(m + n) : h[i] \in Int
    BY <1>4
  <2>2. \A a, b : (\A i \in 1..(m + n) : a[i] \in Int) /\ (\A i \in 1..n : b[i] = a[m + i])
            => Total(a, m + n) = Total(a, m) + Total(b, n)
    BY <1>1, TotalParts
  <2> QED  BY <1>6, <2>1, <2>2
<1>8. Total(h, m) = Total(f, m)
  <2>1. \A i \in 1..m : h[i] \in Int
    BY <1>1, <1>4
  <2> QED  BY <1>1, <1>5, <2>1, TotalSame
<1> QED  BY <1>2, <1>3, <1>4, <1>7, <1>8 DEF r

\* The greatest of the numbers up to a bound that have a property.
LEMMA GreatestUpTo ==
  ASSUME NEW n \in Nat, NEW S \in SUBSET (0..n), S # {}
  PROVE  Max(S) \in S /\ \A x \in S : x <= Max(S)
<1> DEFINE below == {i \in Nat : n - i \in S}
<1>1. PICK x \in S : TRUE
  OBVIOUS
<1>2. n - x \in below
  <2>1. x \in 0..n
    OBVIOUS
  <2>2. n - x \in Nat /\ n - (n - x) = x
    BY <2>1
  <2> QED  BY <2>2
<1>3. PICK i \in below : \A k \in below : i <= k
  <2>1. below \in SUBSET Nat /\ below # {}
    BY <1>2
  <2> HIDE DEF below
  <2> QED  BY <2>1, LeastOf
<1>4. n - i \in S
  BY <1>3
<1>5. \A y \in S : n - i >= y
  <2> SUFFICES ASSUME NEW y \in S PROVE n - i >= y
    OBVIOUS
  <2>1. y \in 0..n
    OBVIOUS
  <2>2. n - y \in Nat /\ n - (n - y) = y
    BY <2>1
  <2>3. i <= n - y
    BY <1>3, <2>2
  <2> QED  BY <2>1, <2>3
<1>6. Max(S) \in S /\ \A y \in S : Max(S) >= y
  BY <1>4, <1>5 DEF Max
<1>7. \A y \in S : y \in Int
  OBVIOUS
<1> QED  BY <1>6, <1>7

\* Of two numbers.
LEMMA OfTwo ==
  ASSUME NEW a \in Int, NEW b \in Int
  PROVE  /\ Max({a, b}) = IF a >= b THEN a ELSE b
         /\ Min({a, b}) = IF a <= b THEN a ELSE b
<1>1. Max({a, b}) \in {a, b} /\ \A x \in {a, b} : Max({a, b}) >= x
  <2>1. \E m \in {a, b} : \A x \in {a, b} : m >= x
    <3>1. CASE a >= b
      BY <3>1
    <3>2. CASE b >= a
      BY <3>2
    <3> QED  BY <3>1, <3>2
  <2> QED  BY <2>1 DEF Max
<1>2. Min({a, b}) \in {a, b} /\ \A x \in {a, b} : Min({a, b}) =< x
  <2>1. \E m \in {a, b} : \A x \in {a, b} : m =< x
    <3>1. CASE a <= b
      BY <3>1
    <3>2. CASE b <= a
      BY <3>2
    <3> QED  BY <3>1, <3>2
  <2> QED  BY <2>1 DEF Min
<1> DEFINE x == Max({a, b})  y == Min({a, b})
<1>3. (x = a \/ x = b) /\ x >= a /\ x >= b /\ (y = a \/ y = b) /\ y <= a /\ y <= b
  BY <1>1, <1>2
<1> HIDE DEF x, y
<1>4. x = (IF a >= b THEN a ELSE b) /\ y = (IF a <= b THEN a ELSE b)
  BY <1>3
<1> QED  BY <1>4 DEF x, y

\* memory/compressor_token_budget.go: the end of the history, within the budget if it
\* is more than the newest message.
LEMMA BudgetIs ==
  ASSUME NEW s \in Seq(Piece), s # <<>>, NEW max \in Int
  PROVE  \E n \in 1..Len(s) : /\ TokenBudgetCompress(s, max) = Suffix(s, n)
                              /\ max > 0 => EstimateTokens(Suffix(s, n)) <= max \/ n = 1
<1> DEFINE m == Len(s)  S == {n \in 0..m : EstimateTokens(Suffix(s, n)) <= max}
           fit == Max(S)
<1>1. m \in Nat \ {0}
  BY EmptySeq, LenProperties
<1>2. CASE max <= 0
  <2>1. Suffix(s, m) = s
    <3> DEFINE q == Suffix(s, m)
    <3>1. m \in 0..m
      BY <1>1
    <3>2. q \in Seq(Piece) /\ Len(q) = m /\ \A i \in 1..m : q[i] = s[(m - m) + i]
      BY <3>1, SuffixIs
    <3>3. \A i \in 1..m : (m - m) + i = i
      BY <1>1
    <3> HIDE DEF q
    <3>4. \A i \in 1..Len(s) : q[i] = s[i]
      BY <3>2, <3>3
    <3>5. q = s
      BY <3>2, <3>4, SeqEqual
    <3> QED  BY <3>5 DEF q
  <2>2. TokenBudgetCompress(s, max) = s
    BY <1>2 DEF TokenBudgetCompress
  <2>3. m \in 1..m /\ ~(max > 0)
    BY <1>1, <1>2
  <2> QED  BY <2>1, <2>2, <2>3
<1>3. CASE max > 0
  <2>1. 0 \in S
    <3>1. 0 \in 0..m
      BY <1>1
    <3>2. Suffix(s, 0) \in Seq(Piece) /\ Len(Suffix(s, 0)) = 0
      BY <3>1, SuffixIs
    <3>3. EstimateTokens(Suffix(s, 0)) = 0
      BY <3>2, TokensAre
    <3> QED  BY <1>3, <3>1, <3>3
  <2>2. fit \in S
    <3>1. S \in SUBSET (0..m) /\ S # {} /\ m \in Nat
      BY <1>1, <2>1
    <3> HIDE DEF S, m
    <3> QED  BY <3>1, GreatestUpTo
  <2>3. TokenBudgetCompress(s, max) = Suffix(s, AtLeastLast(fit))
    <3>1. ~(max <= 0)
      BY <1>3
    <3> QED  BY <3>1 DEF TokenBudgetCompress, Fitting
  <2> HIDE DEF fit
  <2>4. fit \in 0..m /\ EstimateTokens(Suffix(s, fit)) <= max
    BY <2>2
  <2> HIDE DEF S, m
  <2>5. AtLeastLast(fit) = IF fit >= 1 THEN fit ELSE 1
    BY <1>1, <2>4, OfTwo DEF AtLeastLast
  <2>6. AtLeastLast(fit) \in 1..m
    BY <1>1, <2>4, <2>5
  <2>7. EstimateTokens(Suffix(s, AtLeastLast(fit))) <= max \/ AtLeastLast(fit) = 1
    BY <2>4, <2>5
  <2> QED  BY <2>3, <2>6, <2>7 DEF m
<1> QED  BY <1>2, <1>3

\* The end of the end.
LEMMA SuffixOfSuffix ==
  ASSUME NEW S, NEW s \in Seq(S), NEW n \in 0..Len(s), NEW k \in 0..n
  PROVE  Suffix(Suffix(s, n), k) = Suffix(s, k)
<1> DEFINE m == Len(s)  p == Suffix(s, n)  q == Suffix(p, k)  r == Suffix(s, k)
<1>1. m \in Nat /\ k \in 0..m
  BY LenProperties
<1>2. p \in Seq(S) /\ Len(p) = n /\ \A i \in 1..n : p[i] = s[(m - n) + i]
  BY SuffixIs
<1>3. r \in Seq(S) /\ Len(r) = k /\ \A i \in 1..k : r[i] = s[(m - k) + i]
  BY <1>1, SuffixIs
<1> HIDE DEF p
<1>4. q \in Seq(S) /\ Len(q) = k /\ \A i \in 1..k : q[i] = p[(n - k) + i]
  <2>1. k \in 0..Len(p)
    BY <1>2
  <2>2. \A c \in 0..Len(p) : /\ Suffix(p, c) \in Seq(S) /\ Len(Suffix(p, c)) = c
                              /\ \A i \in 1..c : Suffix(p, c)[i] = p[(Len(p) - c) + i]
    <3>1. p \in Seq(S)
      BY <1>2
    <3> QED  BY <3>1, SuffixIs
  <2>3. q \in Seq(S) /\ Len(q) = k /\ \A i \in 1..k : q[i] = p[(Len(p) - k) + i]
    BY <2>1, <2>2
  <2> QED  BY <1>2, <2>3
<1> HIDE DEF q, r
<1>5. \A i \in 1..k : q[i] = r[i]
  <2> SUFFICES ASSUME NEW i \in 1..k PROVE q[i] = r[i]
    OBVIOUS
  <2>1. (n - k) + i \in 1..n /\ (m - n) + ((n - k) + i) = (m - k) + i
    BY <1>1
  <2>2. p[(n - k) + i] = s[(m - k) + i]
    BY <1>2, <2>1
  <2> QED  BY <1>3, <1>4, <2>2
<1>6. q = r
  BY <1>3, <1>4, <1>5, SeqEqual
<1> QED  BY <1>6 DEF q, r, p

\* memory/compressor.go: so is what is left of the window.
LEMMA SlidingIs ==
  ASSUME NEW s \in Seq(Piece), s # <<>>, NEW max \in Int, NEW window \in Nat \ {0}
  PROVE  \E n \in 1..Len(s) : /\ SlidingWindowCompress(s, max, window) = Suffix(s, n)
                              /\ max > 0 => EstimateTokens(Suffix(s, n)) <= max \/ n = 1
<1> DEFINE m == Len(s)  w == Min({window, m})  p == Suffix(s, w)
<1>1. m \in Nat \ {0}
  BY EmptySeq, LenProperties
<1>2. w \in 1..m
  <2>1. w = IF window <= m THEN window ELSE m
    <3>1. window \in Int /\ m \in Int
      BY <1>1
    <3> HIDE DEF m
    <3> QED  BY <3>1, OfTwo
  <2> HIDE DEF w, m
  <2> QED  BY <1>1, <2>1
<1>3. SlidingWindowCompress(s, max, window) = TokenBudgetCompress(p, max)
  BY DEF SlidingWindowCompress
<1> HIDE DEF w
<1>4. w \in 0..m
  BY <1>1, <1>2
<1>5. p \in Seq(Piece) /\ Len(p) = w
  BY <1>4, SuffixIs
<1>6. p # <<>>
  <2> HIDE DEF p
  <2> QED  BY <1>2, <1>5, EmptySeq
<1>7. PICK n \in 1..w : /\ TokenBudgetCompress(p, max) = Suffix(p, n)
                        /\ max > 0 => EstimateTokens(Suffix(p, n)) <= max \/ n = 1
  <2> HIDE DEF p
  <2>1. \E n \in 1..Len(p) : /\ TokenBudgetCompress(p, max) = Suffix(p, n)
                             /\ max > 0 => EstimateTokens(Suffix(p, n)) <= max \/ n = 1
    BY <1>5, <1>6, BudgetIs
  <2> QED  BY <1>5, <2>1
<1>8. n \in 0..w /\ n \in 1..m
  BY <1>1, <1>2
<1>9. Suffix(p, n) = Suffix(s, n)
  BY <1>4, <1>8, SuffixOfSuffix
<1> HIDE DEF p, m
<1>10. /\ SlidingWindowCompress(s, max, window) = Suffix(s, n)
       /\ max > 0 => EstimateTokens(Suffix(s, n)) <= max \/ n = 1
  BY <1>3, <1>7, <1>9
<1> QED  BY <1>8, <1>10 DEF m

\* What is kept of a history is kept of it in the end of the list, too.
LEMMA EndKeeps ==
  ASSUME NEW h, NEW s \in Seq(Piece), NEW n \in 0..Len(s), KeepsOrder(h, s),
         NEW q, q = Suffix(s, n)
  PROVE  KeepsOrder(h, q) /\ (n > 0 => Last(q) = Last(s))
<1> DEFINE m == Len(s)
<1>1. m \in Nat /\ DOMAIN s = 1..m
  BY LenProperties
<1>2. Len(q) = n /\ DOMAIN q = 1..n /\ \A i \in 1..n : q[i] = s[(m - n) + i]
  BY SuffixIs
<1>3. \A i \in 1..n : (m - n) + i \in 1..m
  BY <1>1
<1>4. /\ \A i \in KeptAt(s) : s[i] \in Range(h)
      /\ \A i, k \in KeptAt(s) : i < k => s[i].id < s[k].id
  BY DEF KeepsOrder
<1>5. \A i \in KeptAt(q) : (m - n) + i \in KeptAt(s) /\ i \in 1..n
  BY <1>1, <1>2, <1>3 DEF KeptAt
<1>6. \A i \in KeptAt(q) : q[i] \in Range(h)
  BY <1>2, <1>4, <1>5
<1>7. ASSUME NEW i \in KeptAt(q), NEW k \in KeptAt(q), i < k
      PROVE  q[i].id < q[k].id
  <2>1. i \in 1..n /\ k \in 1..n
    BY <1>5
  <2>2. (m - n) + i < (m - n) + k
    BY <1>1, <1>7, <2>1
  <2>3. s[(m - n) + i].id < s[(m - n) + k].id
    BY <1>4, <1>5, <2>2
  <2> QED  BY <1>2, <2>1, <2>3
<1>8. ASSUME n > 0
      PROVE  Last(q) = Last(s)
  <2>1. n \in 1..n /\ (m - n) + n = m
    BY <1>1, <1>8
  <2>2. q[n] = s[m]
    BY <1>2, <2>1
  <2> QED  BY <1>2, <2>2 DEF Last
<1> QED  BY <1>6, <1>7, <1>8 DEF KeepsOrder

\* A history's messages are known by their places.
LEMMA HistoryIs ==
  ASSUME NEW h \in Seq(Message), History(h)
  PROVE  /\ h \in Seq(Piece) /\ Len(h) \in Nat /\ DOMAIN h = 1..Len(h)
         /\ \A i \in 1..Len(h) : h[i] \in Message /\ h[i].id = i /\ h[i] \in Range(h)
         /\ KeptAt(h) = 1..Len(h)
         /\ KeepsOrder(h, h) /\ Accounts(h, h)
<1> DEFINE n == Len(h)
<1>1. n \in Nat /\ DOMAIN h = 1..n /\ h = [i \in 1..n |-> h[i]]
  <2>1. h \in [1..n -> Message]
    BY LenProperties
  <2> QED  BY <2>1, LenProperties
<1>2. \A i \in 1..n : h[i] \in Message
  BY ElementOfSeq
<1> HIDE DEF n
<1>3. \A i \in 1..n : h[i].id = i /\ h[i] \in Range(h)
  BY <1>1 DEF History, Range
<1>4. h \in Seq(Piece)
  <2>1. \A i \in 1..n : h[i] \in Piece
    BY <1>2 DEF Piece
  <2>2. h \in [1..n -> Piece]
    BY <1>1, <2>1
  <2> QED  BY <1>1, <2>2, IsASeq
<1>5. KeptAt(h) = 1..n
  <2>1. \A i \in 1..n : h[i].id # 0
    BY <1>1, <1>3
  <2>2. DOMAIN h = 1..n
    BY <1>1
  <2> QED  BY <2>1, <2>2 DEF KeptAt
<1>6. KeepsOrder(h, h)
  <2>1. \A i, k \in 1..n : i < k => h[i].id < h[k].id
    BY <1>3
  <2> QED  BY <1>3, <1>5, <2>1 DEF KeepsOrder
<1>7. Accounts(h, h)
  BY <1>1, <1>5 DEF Accounts
<1> QED  BY <1>1, <1>2, <1>3, <1>4, <1>5, <1>6, <1>7 DEF n

\* h with what is between a and b replaced by one message.
Pieced(h, a, b, s) == SubSeq(h, 1, a) \o <<s>> \o SubSeq(h, b, Len(h))

\* The messages of such a list.
PiecesOf(h, a, b, s, out) ==
    /\ out \in Seq(Piece) /\ Len(out) = (Len(h) - b) + a + 2 /\ DOMAIN out = 1..Len(out)
    /\ \A i \in 1..a : i \in 1..Len(out) /\ out[i] = h[i]
    /\ a + 1 \in 1..Len(out) /\ out[a + 1] = s
    /\ \A i \in b..Len(h) : (i - b) + a + 2 \in 1..Len(out) /\ out[(i - b) + a + 2] = h[i]
    /\ \A i \in 1..Len(out) : \/ i \in 1..a \/ i = a + 1
                              \/ \E j \in b..Len(h) : i = (j - b) + a + 2

LEMMA PiecedIs ==
  ASSUME NEW h \in Seq(Message), History(h), NEW a \in 0..Len(h), NEW b \in a + 1..Len(h) + 1,
         NEW s \in Piece, NEW out, out = Pieced(h, a, b, s)
  PROVE  PiecesOf(h, a, b, s, out)
<1> DEFINE n == Len(h)  p == SubSeq(h, 1, a)  q == SubSeq(h, b, n)  mid == <<s>>  pm == p \o mid
<1>1. n \in Nat /\ h \in Seq(Piece)
  BY HistoryIs
<1>2. p \in Seq(Piece) /\ Len(p) = a /\ \A i \in 1..a : p[i] = h[i]
  <2>1. 1 \in 1..n + 1 /\ a \in 1 - 1..n /\ a - 1 + 1 = a
    BY <1>1
  <2>2. p \in Seq(Piece) /\ Len(p) = a - 1 + 1 /\ \A i \in 1..(a - 1 + 1) : p[i] = h[1 + i - 1]
    BY <1>1, <2>1, PartIs
  <2>3. \A i \in 1..a : 1 + i - 1 = i
    OBVIOUS
  <2> HIDE DEF p
  <2> QED  BY <2>1, <2>2, <2>3
<1>3. q \in Seq(Piece) /\ Len(q) = n - b + 1 /\ \A i \in 1..(n - b + 1) : q[i] = h[b + i - 1]
  <2>1. b \in 1..n + 1 /\ n \in b - 1..n
    BY <1>1
  <2> HIDE DEF n
  <2>2. b \in 1..Len(h) + 1 /\ n \in b - 1..Len(h)
    BY <2>1 DEF n
  <2> QED  BY <1>1, <2>2, PartIs
<1>4. mid \in Seq(Piece) /\ Len(mid) = 1 /\ mid[1] = s
  OBVIOUS
<1>5. out = pm \o q
  BY DEF Pieced
<1> HIDE DEF p, q, mid
<1>6. /\ pm \in Seq(Piece) /\ Len(pm) = a + 1
      /\ \A i \in 1..(a + 1) : pm[i] = IF i <= a THEN p[i] ELSE mid[i - a]
  <2>1. /\ pm \in Seq(Piece) /\ Len(pm) = Len(p) + Len(mid)
        /\ \A i \in 1..(Len(p) + Len(mid)) : pm[i] = IF i <= Len(p) THEN p[i] ELSE mid[i - Len(p)]
    BY <1>2, <1>4, ConcatProperties
  <2> HIDE DEF pm
  <2> QED  BY <1>2, <1>4, <2>1
<1> HIDE DEF pm
<1>7. /\ out \in Seq(Piece) /\ Len(out) = (a + 1) + (n - b + 1)
      /\ \A i \in 1..((a + 1) + (n - b + 1)) : out[i] = IF i <= a + 1 THEN pm[i] ELSE q[i - (a + 1)]
  <2>1. pm \in Seq(Piece) /\ q \in Seq(Piece)
    BY <1>3, <1>6
  <2>2. /\ pm \o q \in Seq(Piece) /\ Len(pm \o q) = Len(pm) + Len(q)
        /\ \A i \in 1..(Len(pm) + Len(q)) :
              (pm \o q)[i] = IF i <= Len(pm) THEN pm[i] ELSE q[i - Len(pm)]
    BY <2>1, ConcatProperties
  <2> QED  BY <1>3, <1>5, <1>6, <2>2
<1>8. DOMAIN out = 1..Len(out)
  BY <1>7, LenProperties
<1> DEFINE l == (a + 1) + (n - b + 1)
<1>9. l \in Nat /\ l = (n - b) + a + 2 /\ a \in Nat /\ b \in Nat /\ a + 1 <= l
  BY <1>1
<1>10. \A i \in 1..a : i \in 1..l /\ out[i] = h[i]
  <2> SUFFICES ASSUME NEW i \in 1..a PROVE i \in 1..l /\ out[i] = h[i]
    OBVIOUS
  <2>1. i \in 1..l /\ i <= a + 1 /\ i <= a /\ i \in 1..(a + 1)
    BY <1>9
  <2>2. out[i] = pm[i] /\ pm[i] = p[i] /\ p[i] = h[i]
    BY <1>2, <1>6, <1>7, <2>1
  <2> QED  BY <2>1, <2>2
<1>11. a + 1 \in 1..l /\ out[a + 1] = s
  <2>1. a + 1 \in 1..l /\ a + 1 <= a + 1 /\ ~(a + 1 <= a) /\ a + 1 \in 1..(a + 1) /\ (a + 1) - a = 1
    BY <1>9
  <2>2. out[a + 1] = pm[a + 1] /\ pm[a + 1] = mid[1]
    BY <1>6, <1>7, <2>1
  <2> QED  BY <1>4, <2>1, <2>2
<1>12. \A i \in b..n : (i - b) + a + 2 \in 1..l /\ out[(i - b) + a + 2] = h[i]
  <2> SUFFICES ASSUME NEW i \in b..n PROVE (i - b) + a + 2 \in 1..l /\ out[(i - b) + a + 2] = h[i]
    OBVIOUS
  <2> DEFINE k == (i - b) + a + 2
  <2>1. k \in 1..l /\ ~(k <= a + 1) /\ k - (a + 1) \in 1..(n - b + 1) /\ b + (k - (a + 1)) - 1 = i
    BY <1>1, <1>9
  <2> HIDE DEF k
  <2>2. out[k] = q[k - (a + 1)] /\ q[k - (a + 1)] = h[i]
    BY <1>3, <1>7, <2>1
  <2> QED  BY <2>1, <2>2 DEF k
<1>13. \A i \in 1..l : i \in 1..a \/ i = a + 1 \/ \E j \in b..n : i = (j - b) + a + 2
  <2> SUFFICES ASSUME NEW i \in 1..l, i \notin 1..a, i # a + 1
               PROVE  \E j \in b..n : i = (j - b) + a + 2
    OBVIOUS
  <2>1. (i - (a + 2)) + b \in b..n /\ i = (((i - (a + 2)) + b) - b) + a + 2
    BY <1>1, <1>9
  <2> QED  BY <2>1
<1>14. Len(out) = l
  BY <1>7
<1> HIDE DEF l
<1> QED  BY <1>7, <1>8, <1>9, <1>10, <1>11, <1>12, <1>13, <1>14 DEF n, PiecesOf

\* It keeps the order, and a summary in it accounts for what it replaces.
LEMMA PiecedKeeps ==
  ASSUME NEW h \in Seq(Message), History(h), NEW a \in 0..Len(h), NEW b \in a + 1..Len(h) + 1,
         NEW s \in Piece, s.id = 0, s.count = b - a - 1, NEW out, out = Pieced(h, a, b, s)
  PROVE  KeepsOrder(h, out) /\ Accounts(h, out) /\ (b <= Len(h) => Last(out) = Last(h))
<1> DEFINE n == Len(h)  l == Len(out)
<1>1. /\ out \in Seq(Piece) /\ l = (n - b) + a + 2 /\ DOMAIN out = 1..l
      /\ \A i \in 1..a : i \in 1..l /\ out[i] = h[i]
      /\ a + 1 \in 1..l /\ out[a + 1] = s
      /\ \A i \in b..n : (i - b) + a + 2 \in 1..l /\ out[(i - b) + a + 2] = h[i]
      /\ \A i \in 1..l : i \in 1..a \/ i = a + 1 \/ \E j \in b..n : i = (j - b) + a + 2
  <2>1. PiecesOf(h, a, b, s, out)
    BY PiecedIs
  <2> QED  BY <2>1 DEF PiecesOf
<1>2. n \in Nat /\ \A i \in 1..n : h[i].id = i /\ h[i] \in Range(h)
  BY HistoryIs
<1>3. a \in Nat /\ b \in Nat /\ l \in Nat /\ b <= n + 1 /\ a + 1 <= b /\ a <= n
  BY <1>1, <1>2
<1> HIDE DEF n, l
<1>4. \A i \in 1..l : \/ i = a + 1 /\ out[i] = s
                      \/ \E j \in 1..n : /\ out[i] = h[j] /\ i # a + 1
                                         /\ (i <= a /\ j = i) \/ (i > a + 1 /\ j = (i - (a + 2)) + b)
  <2> SUFFICES ASSUME NEW i \in 1..l, i # a + 1
               PROVE  \E j \in 1..n : /\ out[i] = h[j] /\ i # a + 1
                                      /\ (i <= a /\ j = i) \/ (i > a + 1 /\ j = (i - (a + 2)) + b)
    BY <1>1
  <2>1. CASE i \in 1..a
    <3>1. i \in 1..n /\ out[i] = h[i] /\ i <= a
      BY <1>1, <1>2, <1>3, <2>1
    <3> QED  BY <3>1
  <2>2. CASE i \notin 1..a
    <3>1. PICK j \in b..n : i = (j - b) + a + 2
      BY <1>1, <2>2
    <3>2. out[i] = h[j]
      BY <1>1, <3>1
    <3>3. j \in 1..n /\ i > a + 1 /\ j = (i - (a + 2)) + b
      BY <1>2, <1>3, <3>1
    <3> QED  BY <3>2, <3>3
  <2> QED  BY <2>1, <2>2
<1>5. KeptAt(out) = (1..l) \ {a + 1}
  <2>1. \A i \in 1..l : i # a + 1 => out[i].id # 0
    BY <1>2, <1>4
  <2>2. out[a + 1].id = 0
    BY <1>1
  <2> QED  BY <1>1, <2>1, <2>2 DEF KeptAt
<1>6. KeepsOrder(h, out)
  <2>1. \A i \in KeptAt(out) : out[i] \in Range(h)
    BY <1>2, <1>4, <1>5
  <2>2. ASSUME NEW i \in KeptAt(out), NEW k \in KeptAt(out), i < k
        PROVE  out[i].id < out[k].id
    <3>1. PICK x \in 1..n : /\ out[i] = h[x]
                            /\ (i <= a /\ x = i) \/ (i > a + 1 /\ x = (i - (a + 2)) + b)
      BY <1>4, <1>5
    <3>2. PICK y \in 1..n : /\ out[k] = h[y]
                            /\ (k <= a /\ y = k) \/ (k > a + 1 /\ y = (k - (a + 2)) + b)
      BY <1>4, <1>5
    <3>3. i \in Nat /\ k \in Nat
      BY <1>5
    <3>4. x < y
      BY <1>2, <1>3, <2>2, <3>1, <3>2, <3>3
    <3> QED  BY <1>2, <3>1, <3>2, <3>4
  <2> QED  BY <2>1, <2>2 DEF KeepsOrder
<1>7. Accounts(h, out)
  <2>1. IsFiniteSet(1..l) /\ Cardinality(1..l) = l
    <3>1. l \in Nat
      BY <1>3
    <3> QED  BY <3>1, CountTo
  <2>2. Cardinality((1..l) \ {a + 1}) = l - 1
    <3> DEFINE N == 1..l  x == a + 1
    <3>1. IsFiniteSet(N) /\ Cardinality(N) = l /\ x \in N
      BY <1>1, <2>1
    <3> HIDE DEF N, x
    <3>2. Cardinality(N \ {x}) = Cardinality(N) - 1
      BY <3>1, FS_RemoveElement
    <3> QED  BY <3>1, <3>2 DEF N, x
  <2>3. \A i \in DOMAIN out \ KeptAt(out) : i = a + 1
    BY <1>1, <1>5
  <2>4. out[a + 1].count + Cardinality(KeptAt(out)) = n
    <3>1. out[a + 1].count = b - a - 1 /\ Cardinality(KeptAt(out)) = l - 1
      BY <1>1, <1>5, <2>2
    <3>2. (b - a - 1) + (l - 1) = n
      BY <1>1, <1>2, <1>3
    <3> QED  BY <3>1, <3>2
  <2> QED  BY <2>3, <2>4 DEF Accounts, n
<1>8. ASSUME b <= n
      PROVE  Last(out) = Last(h)
  <2>1. n \in b..n /\ (n - b) + a + 2 = l
    BY <1>1, <1>2, <1>3, <1>8
  <2>2. out[l] = h[n]
    BY <1>1, <2>1
  <2> QED  BY <2>2 DEF Last, l, n
<1> QED  BY <1>6, <1>7, <1>8 DEF n

\* Division rounds down.
LEMMA Quotient ==
  ASSUME NEW x \in Nat, NEW q \in Nat \ {0}
  PROVE  x \div q \in Nat /\ q * (x \div q) <= x
<1> DEFINE d == x \div q
<1>1. d \in Int /\ x % q \in 0..(q - 1) /\ x = q * d + (x % q)
  OBVIOUS
<1>2. d >= 0
  <2>1. CASE d < 0
    <3>1. d <= -1
      BY <1>1, <2>1
    <3>2. q * d <= q * (-1)
      BY <1>1, <3>1
    <3> QED  BY <1>1, <3>2
  <2> QED  BY <1>1, <2>1
<1> QED  BY <1>1, <1>2

\* memory/token_estimate.go: how many tokens a text has.
LEMMA TextIs ==
  ASSUME NEW length \in Nat
  PROVE  /\ EstimateTextTokens(length) \in Nat
         /\ length > 0 => EstimateTextTokens(length) = IF length \div 4 >= 1 THEN length \div 4 ELSE 1
<1> DEFINE d == length \div 4
<1>1. d \in Nat
  OBVIOUS
<1>2. Max({d, 1}) = IF d >= 1 THEN d ELSE 1
  <2>1. d \in Int /\ 1 \in Int
    BY <1>1
  <2> HIDE DEF d
  <2> QED  BY <2>1, OfTwo
<1>3. EstimateTextTokens(length) = IF length = 0 THEN 0 ELSE Max({d, 1})
  BY DEF EstimateTextTokens
<1> HIDE DEF d
<1>4. EstimateTextTokens(length) = IF length = 0 THEN 0 ELSE IF d >= 1 THEN d ELSE 1
  BY <1>2, <1>3
<1> QED  BY <1>1, <1>4 DEF d

\* memory/compressor_summarize_trunc.go: a text cut to a budget is within it.
LEMMA TruncatedFits ==
  ASSUME NEW length \in Nat \ {0}, NEW budget \in Nat \ {0},
         NEW kept, kept = TruncatedLength(length, budget)
  PROVE  kept \in Nat /\ EstimateTextTokens(kept) <= budget
<1> DEFINE q == EstimateTextTokens(length)  d == kept \div 4
<1>1. q \in Nat \ {0} /\ length <= 4 * q + 3
  <2>1. q = IF length \div 4 >= 1 THEN length \div 4 ELSE 1
    BY TextIs
  <2>2. length \div 4 \in Nat /\ length <= 4 * (length \div 4) + 3
    OBVIOUS
  <2> HIDE DEF q
  <2> QED  BY <2>1, <2>2
<1> HIDE DEF q
<1>2. CASE q <= budget
  <2>1. kept = length
    BY <1>1, <1>2 DEF TruncatedLength, q
  <2> QED  BY <1>2, <2>1 DEF q
<1>3. CASE q > budget
  <2>1. kept = (length * budget) \div q
    BY <1>3 DEF TruncatedLength, q
  <2>2. length * budget \in Nat
    OBVIOUS
  <2>3. kept \in Nat /\ q * kept <= length * budget
    <3> DEFINE x == length * budget
    <3>1. x \in Nat
      BY <2>2
    <3> HIDE DEF x
    <3>2. x \div q \in Nat /\ q * (x \div q) <= x
      BY <1>1, <3>1, Quotient
    <3>3. kept = x \div q
      BY <2>1 DEF x
    <3>4. kept \in Nat /\ q * kept <= x
      BY <3>2, <3>3
    <3> QED  BY <3>4 DEF x
  <2>4. length * budget <= (4 * q + 3) * budget
    BY <1>1
  <2>5. (4 * q + 3) * budget = 4 * (q * budget) + 3 * budget
    BY <1>1
  <2>6. q * kept < q * (4 * budget + 3)
    <3>1. q * (4 * budget + 3) = 4 * (q * budget) + 3 * q
      BY <1>1
    <3> DEFINE u == q * kept  v == length * budget  w == q * budget
               y == (4 * q + 3) * budget  z == q * (4 * budget + 3)
    <3>2. u \in Nat /\ v \in Nat /\ w \in Nat /\ y \in Nat /\ z \in Nat
      BY <1>1, <2>3
    <3>3. u <= v /\ v <= y /\ y = 4 * w + 3 * budget /\ z = 4 * w + 3 * q /\ budget < q
      BY <1>3, <2>3, <2>4, <2>5, <3>1
    <3> HIDE DEF u, v, w, y, z
    <3>4. u < z
      BY <1>1, <3>2, <3>3
    <3> QED  BY <3>4 DEF u, z
  <2>7. kept < 4 * budget + 3
    <3>1. CASE kept >= 4 * budget + 3
      <4>1. q * kept >= q * (4 * budget + 3)
        BY <1>1, <2>3, <3>1
      <4> DEFINE u == q * kept  z == q * (4 * budget + 3)
      <4>2. u \in Nat /\ z \in Nat /\ u >= z /\ u < z
        BY <1>1, <2>3, <2>6, <4>1
      <4> HIDE DEF u, z
      <4> QED  BY <4>2
    <3> QED  BY <2>3, <3>1
  <2>8. EstimateTextTokens(kept) = IF kept = 0 THEN 0 ELSE IF kept \div 4 >= 1 THEN kept \div 4 ELSE 1
    <3>1. kept > 0 => EstimateTextTokens(kept) = IF kept \div 4 >= 1 THEN kept \div 4 ELSE 1
      BY <2>3, TextIs
    <3>2. kept = 0 => EstimateTextTokens(kept) = 0
      BY DEF EstimateTextTokens
    <3> QED  BY <2>3, <3>1, <3>2
  <2>9. kept \div 4 <= budget
    BY <2>3, <2>7
  <2> HIDE DEF d
  <2>10. kept \div 4 \in Nat
    BY <2>3
  <2> QED  BY <2>3, <2>8, <2>9, <2>10
<1> QED  BY <1>1, <1>2, <1>3

\* The end of a history: all its messages are kept.
LEMMA EndOf ==
  ASSUME NEW h \in Seq(Message), History(h), NEW n \in 1..Len(h), NEW q, q = Suffix(h, n)
  PROVE  /\ q \in Seq(Piece) /\ Len(q) = n /\ KeepsNewest(h, q) /\ Accounts(h, q)
         /\ EstimateTokens(q) \in Nat
<1>1. h \in Seq(Piece) /\ Len(h) \in Nat /\ KeepsOrder(h, h)
  BY HistoryIs
<1>2. q \in Seq(Piece) /\ Len(q) = n /\ DOMAIN q = 1..n /\ \A i \in 1..n : q[i] = h[(Len(h) - n) + i]
  <2>1. n \in 0..Len(h)
    BY <1>1
  <2> QED  BY <1>1, <2>1, SuffixIs
<1>3. KeepsOrder(h, q) /\ Last(q) = Last(h)
  <2>1. n \in 0..Len(h) /\ n > 0
    BY <1>1
  <2> QED  BY <1>1, <2>1, EndKeeps
<1>4. \A i \in 1..n : q[i].id # 0
  <2>1. \A i \in 1..n : (Len(h) - n) + i \in 1..Len(h) /\ (Len(h) - n) + i # 0
    BY <1>1
  <2>2. \A i \in 1..Len(h) : h[i].id = i
    BY HistoryIs
  <2> QED  BY <1>2, <2>1, <2>2
<1>5. DOMAIN q \ KeptAt(q) = {}
  BY <1>2, <1>4 DEF KeptAt
<1>6. EstimateTokens(q) \in Nat
  BY <1>2, TokensAre
<1> QED  BY <1>2, <1>3, <1>5, <1>6 DEF KeepsNewest, Accounts

\* One message as a list.
LEMMA OnePiece ==
  ASSUME NEW s \in Piece
  PROVE  <<s>> \in Seq(Piece) /\ EstimateTokens(<<s>>) = s.tokens
<1> DEFINE q == <<s>>  f == [i \in 1..1 |-> q[i].tokens]
<1>1. q \in Seq(Piece) /\ Len(q) = 1 /\ q[1] = s
  OBVIOUS
<1> HIDE DEF q
<1>2. EstimateTokens(q) = Total(f, 1) /\ q[1].tokens \in Nat
  <2>1. /\ EstimateTokens(q) = Total([i \in 1..Len(q) |-> q[i].tokens], Len(q))
        /\ \A i \in 1..Len(q) : q[i].tokens \in Nat
    BY <1>1, TokensAre
  <2>2. Len(q) = 1
    BY <1>1
  <2>3. EstimateTokens(q) = Total([i \in 1..1 |-> q[i].tokens], 1)
    BY <2>1, <2>2
  <2> QED  BY <2>1, <2>2, <2>3
<1>3. \A i \in 1..1 : f[i] \in Int
  BY <1>1, <1>2
<1>4. f[1] = s.tokens
  BY <1>1
<1> HIDE DEF f
<1>5. Total(f, 0) = 0 /\ Total(f, 1) = Total(f, 1 - 1) + f[1]
  BY <1>3, TotalMore
<1>6. Total(f, 1) = f[1]
  <2>1. f[1] \in Int /\ 1 - 1 = 0
    BY <1>3
  <2> QED  BY <1>5, <2>1
<1> QED  BY <1>1, <1>2, <1>4, <1>6 DEF q

\* A summary is a message of no history.
LEMMA SummaryIs ==
  ASSUME NEW role \in {"system", "user"}, NEW t \in Nat, NEW c \in Nat
  PROVE  /\ Summary(role, t, c) \in Piece /\ Summary(role, t, c).id = 0
         /\ Summary(role, t, c).count = c /\ Summary(role, t, c).tokens = t
         /\ Summary(role, t, c).role = role
BY DEF Summary, Piece

\* What SummarizeAndTrunc returns.
SummarizedRight(h, max, k, out) ==
    /\ out \in Seq(Piece) /\ out # <<>> /\ KeepsNewest(h, out) /\ Accounts(h, out)
    /\ max > 0 => EstimateTokens(out) <= max \/ Len(out) <= k

\* memory/compressor_summarize_trunc.go: the recent messages, after a summary of the
\* others if there is room for one.
LEMMA SummarizeIs ==
  ASSUME NEW h \in Seq(Message), h # <<>>, History(h), NEW max \in Int, NEW k \in Nat \ {0},
         NEW length \in Nat, NEW out, out = SummarizeAndTrunc(h, max, k, length)
  PROVE  SummarizedRight(h, max, k, out)
<1> DEFINE n == Len(h)  recent == Suffix(h, k)  budget == max - EstimateTokens(recent)
           kept == IF max > 0 THEN TruncatedLength(length, budget) ELSE length
           t == EstimateTextTokens(kept)  s == Summary("user", t, n - k)
<1>1. n \in Nat \ {0}
  BY HistoryIs
<1>2. CASE n <= k
  <2>1. out = h
    BY <1>2 DEF SummarizeAndTrunc
  <2>2. h = Suffix(h, n)
    BY <1>1 DEF Suffix
  <2>3. n \in 1..n
    BY <1>1
  <2>4. KeepsNewest(h, h) /\ Accounts(h, h) /\ h \in Seq(Piece)
    BY <2>2, <2>3, EndOf
  <2> QED  BY <1>2, <2>1, <2>4 DEF SummarizedRight
<1>3. CASE n > k
  <2>1. k \in 1..n
    BY <1>1, <1>3
  <2>2. /\ recent \in Seq(Piece) /\ Len(recent) = k /\ KeepsNewest(h, recent) /\ Accounts(h, recent)
        /\ EstimateTokens(recent) \in Nat
    BY <2>1, EndOf
  <2>3. out = IF length = 0 \/ (max > 0 /\ budget <= 0) \/ kept = 0 THEN recent ELSE <<s>> \o recent
    <3>1. ~(Len(h) <= k)
      BY <1>1, <1>3
    <3> QED  BY <3>1 DEF SummarizeAndTrunc
  <2>4. CASE length = 0 \/ (max > 0 /\ budget <= 0) \/ kept = 0
    <3>1. out = recent
      BY <2>3, <2>4
    <3> HIDE DEF recent
    <3>2. recent # <<>>
      BY <2>2
    <3> QED  BY <2>2, <3>1, <3>2 DEF SummarizedRight
  <2>5. CASE length # 0 /\ ~(max > 0 /\ budget <= 0) /\ kept # 0
    <3>1. out = <<s>> \o recent
      BY <2>3, <2>5
    <3>2. budget \in Int
      BY <2>2
    <3>3. t \in Nat /\ (max > 0 => t <= budget)
      <4>1. CASE max > 0
        <5>1. budget \in Nat \ {0} /\ length \in Nat \ {0}
          BY <2>5, <3>2, <4>1
        <5>2. kept = TruncatedLength(length, budget)
          BY <4>1
        <5> HIDE DEF budget, kept
        <5>3. kept \in Nat /\ EstimateTextTokens(kept) <= budget
          BY <5>1, <5>2, TruncatedFits
        <5> QED  BY <5>3, TextIs
      <4>2. CASE ~(max > 0)
        <5>1. kept = length
          BY <4>2
        <5> QED  BY <4>2, <5>1, TextIs
      <4> QED  BY <4>1, <4>2
    <3>4. n - k \in Nat
      BY <2>1
    <3> HIDE DEF t
    <3>5. s \in Piece /\ s.id = 0 /\ s.count = n - k /\ s.tokens = t
      BY <3>3, <3>4, SummaryIs
    <3> HIDE DEF s
    <3>6. <<s>> \in Seq(Piece) /\ EstimateTokens(<<s>>) = t
      BY <3>5, OnePiece
    <3>7. out \in Seq(Piece) /\ EstimateTokens(out) = t + EstimateTokens(recent)
      BY <2>2, <3>1, <3>6, TokensOfTwo
    <3>8. max > 0 => EstimateTokens(out) <= max
      <4>1. EstimateTokens(recent) \in Nat /\ budget = max - EstimateTokens(recent)
        BY <2>2
      <4> DEFINE e == EstimateTokens(recent)
      <4> HIDE DEF budget, recent
      <4> HIDE DEF e
      <4>2. e \in Nat /\ budget = max - e
        BY <4>1 DEF e
      <4>3. max > 0 => t + e <= max
        BY <3>3, <4>2
      <4> QED  BY <3>7, <4>3 DEF e
    <3>9. out = Pieced(h, 0, n - k + 1, s)
      <4>1. SubSeq(h, 1, 0) = <<>>
        OBVIOUS
      <4>2. <<>> \o <<s>> = <<s>>
        BY <3>6
      <4> QED  BY <3>1, <4>1, <4>2 DEF Pieced, Suffix
    <3>10. KeepsOrder(h, out) /\ Accounts(h, out) /\ Last(out) = Last(h)
      <4>1. 0 \in 0..Len(h) /\ n - k + 1 \in 0 + 1..Len(h) + 1 /\ s.count = (n - k + 1) - 0 - 1
            /\ n - k + 1 <= Len(h)
        BY <1>1, <2>1, <3>5
      <4> QED  BY <3>5, <3>9, <4>1, PiecedKeeps
    <3>11. out # <<>>
      <4> HIDE DEF recent
      <4> QED  BY <2>2, <3>1, <3>6
    <3> QED  BY <3>7, <3>8, <3>10, <3>11 DEF SummarizedRight, KeepsNewest
  <2> QED  BY <2>4, <2>5
<1> QED  BY <1>1, <1>2, <1>3

\* The newest messages, in order, and within the budget unless it is one message.
NewestWithin(h, max, out) ==
    /\ KeepsNewest(h, out)
    /\ max > 0 => EstimateTokens(out) <= max \/ Len(out) = 1

\* memory/compressor_token_budget.go, of a history.
LEMMA BudgetKeeps ==
  ASSUME NEW h \in Seq(Message), h # <<>>, History(h), NEW max \in Int,
         NEW out, out = TokenBudgetCompress(h, max)
  PROVE  NewestWithin(h, max, out)
<1>1. h \in Seq(Piece)
  BY HistoryIs
<1>2. PICK n \in 1..Len(h) : /\ out = Suffix(h, n)
                             /\ max > 0 => EstimateTokens(Suffix(h, n)) <= max \/ n = 1
  BY <1>1, BudgetIs
<1>3. KeepsNewest(h, out) /\ Len(out) = n
  BY <1>2, EndOf
<1> QED  BY <1>2, <1>3 DEF NewestWithin

\* memory/compressor_chain.go: the summary, and what is left of the window.
LEMMA ChainKeeps ==
  ASSUME NEW h \in Seq(Message), h # <<>>, History(h), NEW max \in Int, NEW k \in Nat \ {0},
         NEW length \in Nat, NEW out, out = Chain(h, max, k + 1, k, length)
  PROVE  NewestWithin(h, max, out)
<1> DEFINE p == SummarizeAndTrunc(h, max, k, length)
<1>1. p \in Seq(Piece) /\ p # <<>> /\ KeepsNewest(h, p)
  <2>1. SummarizedRight(h, max, k, p)
    BY SummarizeIs
  <2> HIDE DEF p
  <2> QED  BY <2>1 DEF SummarizedRight
<1>2. out = SlidingWindowCompress(p, max, k + 1)
  BY DEF Chain
<1> HIDE DEF p
<1>3. PICK n \in 1..Len(p) : /\ out = Suffix(p, n)
                             /\ max > 0 => EstimateTokens(Suffix(p, n)) <= max \/ n = 1
  <2>1. k + 1 \in Nat \ {0}
    OBVIOUS
  <2> QED  BY <1>1, <1>2, <2>1, SlidingIs
<1>4. n \in 0..Len(p) /\ n > 0 /\ Len(out) = n
  <2>1. n \in 0..Len(p) /\ n > 0
    BY <1>1
  <2> QED  BY <1>1, <1>3, <2>1, SuffixIs
<1>5. KeepsOrder(h, out) /\ Last(out) = Last(p)
  BY <1>1, <1>3, <1>4, EndKeeps DEF KeepsNewest
<1> QED  BY <1>1, <1>3, <1>4, <1>5 DEF NewestWithin, KeepsNewest

\* memory/compactor.go:149-205: what the summarizer is told of is the whole history.
LEMMA ReadIs ==
  ASSUME NEW h \in Seq(Message), h # <<>>, History(h), NEW max \in Int,
         NEW out, out = SummarizerInput(h, max)
  PROVE  Accounts(h, out)
<1> DEFINE n == Len(h)  third == n \div 3  keep == Max({third, 1})
           s == Summary("system", 1, n - 2 * keep)
<1>1. n \in Nat \ {0} /\ Accounts(h, h)
  BY HistoryIs
<1>2. CASE out = h
  BY <1>1, <1>2
<1>3. CASE out # h
  <2>1. out = truncateInput(h)
    BY <1>3 DEF SummarizerInput
  <2>2. n > 2 /\ out = SubSeq(h, 1, keep) \o <<s>> \o Suffix(h, keep)
    <3>1. ~(n <= 2)
      BY <1>3, <2>1 DEF truncateInput
    <3>2. out = SubSeq(h, 1, keep) \o <<s>> \o Suffix(h, keep)
      BY <2>1, <3>1 DEF truncateInput
    <3> QED  BY <1>1, <3>1, <3>2
  <2>3. keep \in Nat /\ keep >= 1 /\ 2 * keep <= n
    <3>1. third \in Nat /\ 3 * third <= n
      BY <1>1
    <3> HIDE DEF third
    <3>2. keep = IF third >= 1 THEN third ELSE 1
      BY <3>1, OfTwo
    <3> HIDE DEF n, keep
    <3> QED  BY <1>1, <2>2, <3>1, <3>2
  <2>4. out = Pieced(h, keep, n - keep + 1, s)
    BY <2>2 DEF Pieced, Suffix
  <2> HIDE DEF keep
  <2>5. n - 2 * keep \in Nat
    BY <1>1, <2>3
  <2>6. s \in Piece /\ s.id = 0 /\ s.count = n - 2 * keep
    <3>1. \A c \in Nat : /\ Summary("system", 1, c) \in Piece /\ Summary("system", 1, c).id = 0
                         /\ Summary("system", 1, c).count = c
      BY SummaryIs
    <3> QED  BY <2>5, <3>1
  <2>7. /\ keep \in 0..Len(h) /\ n - keep + 1 \in keep + 1..Len(h) + 1
        /\ s.count = (n - keep + 1) - keep - 1
    BY <1>1, <2>3, <2>6
  <2> HIDE DEF s
  <2> QED  BY <2>4, <2>6, <2>7, PiecedKeeps
<1> QED  BY <1>2, <1>3

\* What a turn of the walk back at message i makes of w.
TurnedBack(h, i, w, t) ==
    \/ t = w /\ (w.pairs = 0 \/ i \notin Answers(h))
    \/ /\ w.pairs > 0 /\ i \in Answers(h) /\ i - 1 >= FirstEligible(h) /\ h[i - 1].role = "user"
       /\ t.start = i - 1 /\ t.pairs = w.pairs - 1
    \/ /\ w.pairs > 0 /\ i \notin Answers(h) /\ i >= FirstEligible(h) /\ h[i].role = "assistant"
       /\ t.start = i /\ t.pairs = w.pairs

\* memory/compactor.go:111-131, a turn of the walk back.
LEMMA TurnBack ==
  ASSUME NEW h \in Seq(Message), h # <<>>, NEW i \in 1..Len(h),
         NEW w \in [start : Nat, pairs : Nat], NEW t, t = StepBack(h, i, w)
  PROVE  t \in [start : Nat, pairs : Nat] /\ TurnedBack(h, i, w, t)
<1> DEFINE n == Len(h)  first == FirstEligible(h)  p == PairStart(h, i)
<1>1. n \in Nat \ {0} /\ i \in Nat \ {0} /\ i <= n /\ w.pairs \in Nat /\ w.start \in Nat
  OBVIOUS
<1>2. first = (IF h[1].role = "system" THEN 2 ELSE 1)
  BY DEF FirstEligible, HasSystem
<1>3. i \in Answers(h) <=> i >= 2 /\ h[i].role = "assistant" /\ h[i - 1].role = "user"
  BY <1>1 DEF Answers
<1>4. i \in Answers(h) => i > first
  <2>1. CASE i = 2
    <3>1. h[i - 1] = h[1]
      BY <2>1
    <3> QED  BY <1>2, <1>3, <2>1, <3>1
  <2>2. CASE i # 2
    BY <1>1, <1>2, <1>3, <2>2
  <2> QED  BY <2>1, <2>2
<1>5. i >= first /\ h[i].role = "assistant" =>
          /\ i \in Answers(h) => p = i - 1 /\ i - 1 >= first /\ p < i
          /\ i \notin Answers(h) => p = i
  <2>1. first \in Nat \ {0}
    BY <1>2
  <2>2. p = IF i > first /\ h[i - 1].role = "user" THEN i - 1 ELSE i
    BY DEF PairStart
  <2> HIDE DEF first, p
  <2> QED  BY <1>1, <1>3, <1>4, <2>1, <2>2
<1>6. t = IF i < first \/ w.pairs = 0 \/ h[i].role # "assistant" THEN w
          ELSE [start |-> p, pairs |-> IF p < i THEN w.pairs - 1 ELSE w.pairs]
  BY DEF StepBack
<1>7. first \in Nat
  BY <1>2
<1> HIDE DEF first, p, n
<1>8. CASE i < first \/ w.pairs = 0 \/ h[i].role # "assistant"
  <2>1. t = w
    BY <1>6, <1>8
  <2>2. w.pairs = 0 \/ i \notin Answers(h)
    BY <1>1, <1>3, <1>4, <1>7, <1>8
  <2> QED  BY <2>1, <2>2 DEF TurnedBack
<1>9. CASE ~(i < first \/ w.pairs = 0 \/ h[i].role # "assistant")
  <2>1. i >= first /\ w.pairs > 0 /\ h[i].role = "assistant"
    BY <1>1, <1>7, <1>9
  <2>2. t = [start |-> p, pairs |-> IF p < i THEN w.pairs - 1 ELSE w.pairs]
    BY <1>6, <1>9
  <2>3. CASE i \in Answers(h)
    <3>1. p = i - 1 /\ i - 1 >= first /\ p < i /\ h[i - 1].role = "user"
      BY <1>3, <1>5, <2>1, <2>3
    <3>2. t.start = i - 1 /\ t.pairs = w.pairs - 1
      BY <2>2, <3>1
    <3>3. t \in [start : Nat, pairs : Nat]
      <4>1. i - 1 \in Nat /\ w.pairs - 1 \in Nat
        BY <1>1, <2>1
      <4> QED  BY <2>2, <3>1, <4>1
    <3> QED  BY <2>1, <2>3, <3>1, <3>2, <3>3 DEF TurnedBack, first
  <2>4. CASE i \notin Answers(h)
    <3>1. p = i /\ ~(p < i)
      BY <1>1, <1>5, <2>1, <2>4
    <3>2. t.start = i /\ t.pairs = w.pairs
      BY <2>2, <3>1
    <3>3. t \in [start : Nat, pairs : Nat]
      BY <1>1, <2>2, <3>1
    <3> QED  BY <2>1, <2>4, <3>2, <3>3 DEF TurnedBack, first
  <2> QED  BY <2>3, <2>4
<1> QED  BY <1>8, <1>9

\* The answers after message j.
After(h, j) == {x \in Answers(h) : x > j}

\* What the walk back knows when the messages after j are behind it.
WalkedTo(h, k, j, w) ==
    /\ w.start >= j /\ w.start <= Len(h) + 1 /\ w.start >= FirstEligible(h)
    /\ w.start <= Len(h) => h[w.start].role \in {"user", "assistant"}
    /\ w.pairs + Cardinality(After(h, j)) >= k
    /\ \A x \in After(h, j) : Cardinality(After(h, x)) < k => w.start <= x - 1

\* One message more is behind it.
LEMMA AfterOneMore ==
  ASSUME NEW h \in Seq(Message), NEW i \in 1..Len(h)
  PROVE  /\ Cardinality(After(h, i)) \in Nat /\ Cardinality(After(h, i - 1)) \in Nat
         /\ i \in Answers(h) => /\ After(h, i - 1) = After(h, i) \cup {i}
                                /\ Cardinality(After(h, i - 1)) = Cardinality(After(h, i)) + 1
         /\ i \notin Answers(h) => After(h, i - 1) = After(h, i)
<1> DEFINE n == Len(h)
<1>1. n \in Nat /\ i \in Nat
  OBVIOUS
<1>2. Answers(h) \in SUBSET (1..n)
  BY <1>1 DEF Answers
<1>3. IsFiniteSet(1..n)
  BY <1>1, CountTo
<1>4. IsFiniteSet(After(h, i)) /\ IsFiniteSet(After(h, i - 1))
  <2>1. After(h, i) \subseteq 1..n /\ After(h, i - 1) \subseteq 1..n
    BY <1>2 DEF After
  <2> QED  BY <1>3, <2>1, FS_Subset
<1>5. Cardinality(After(h, i)) \in Nat /\ Cardinality(After(h, i - 1)) \in Nat
  BY <1>4, FS_CardinalityType
<1>6. \A x \in Answers(h) : x > i - 1 <=> x > i \/ x = i
  BY <1>1, <1>2
<1>7. ASSUME i \in Answers(h)
      PROVE  /\ After(h, i - 1) = After(h, i) \cup {i}
             /\ Cardinality(After(h, i - 1)) = Cardinality(After(h, i)) + 1
  <2>1. After(h, i - 1) = After(h, i) \cup {i}
    BY <1>6, <1>7 DEF After
  <2>2. i \notin After(h, i)
    BY <1>1 DEF After
  <2> QED  BY <1>4, <2>1, <2>2, FS_AddElement
<1>8. ASSUME i \notin Answers(h)
      PROVE  After(h, i - 1) = After(h, i)
  BY <1>6, <1>8 DEF After
<1> QED  BY <1>5, <1>7, <1>8

\* A turn of the walk leaves it knowing that of one message more.
LEMMA WalksOn ==
  ASSUME NEW h \in Seq(Message), h # <<>>, NEW k \in Nat \ {0}, NEW i \in 1..Len(h),
         NEW w \in [start : Nat, pairs : Nat], WalkedTo(h, k, i, w),
         NEW t \in [start : Nat, pairs : Nat], TurnedBack(h, i, w, t)
  PROVE  WalkedTo(h, k, i - 1, t)
<1> DEFINE n == Len(h)  first == FirstEligible(h)  c == Cardinality(After(h, i))
           d == Cardinality(After(h, i - 1))
<1>1. /\ n \in Nat /\ i \in Nat \ {0} /\ i <= n /\ first \in {1, 2}
      /\ w.pairs \in Nat /\ w.start \in Nat /\ t.pairs \in Nat /\ t.start \in Nat
  BY DEF FirstEligible
<1>2. /\ w.start >= i /\ w.start <= n + 1 /\ w.start >= first
      /\ w.start <= n => h[w.start].role \in {"user", "assistant"}
      /\ w.pairs + c >= k
      /\ \A x \in After(h, i) : Cardinality(After(h, x)) < k => w.start <= x - 1
  BY DEF WalkedTo
<1>3. /\ c \in Nat /\ d \in Nat
      /\ i \in Answers(h) => After(h, i - 1) = After(h, i) \cup {i} /\ d = c + 1
      /\ i \notin Answers(h) => After(h, i - 1) = After(h, i)
  BY AfterOneMore
<1>4. i \notin Answers(h) => d = c
  BY <1>3
<1>5. /\ t.start >= i - 1 /\ t.start <= n + 1 /\ t.start >= first /\ t.start <= w.start
      /\ t.start <= n => h[t.start].role \in {"user", "assistant"}
      /\ t.pairs + d >= k
      /\ i \in Answers(h) /\ c < k => t.start <= i - 1
  <2>1. CASE t = w /\ (w.pairs = 0 \/ i \notin Answers(h))
    <3>1. t.pairs + d >= k
      BY <1>1, <1>2, <1>3, <1>4, <2>1
    <3>2. ~(i \in Answers(h) /\ c < k)
      BY <1>1, <1>2, <1>3, <2>1
    <3> QED  BY <1>1, <1>2, <2>1, <3>1, <3>2
  <2>2. CASE /\ w.pairs > 0 /\ i \in Answers(h) /\ i - 1 >= first /\ h[i - 1].role = "user"
             /\ t.start = i - 1 /\ t.pairs = w.pairs - 1
    <3>1. t.pairs + d >= k
      BY <1>1, <1>2, <1>3, <2>2
    <3>2. h[t.start].role \in {"user", "assistant"}
      BY <2>2
    <3> QED  BY <1>1, <1>2, <2>2, <3>1, <3>2
  <2>3. CASE /\ w.pairs > 0 /\ i \notin Answers(h) /\ i >= first /\ h[i].role = "assistant"
             /\ t.start = i /\ t.pairs = w.pairs
    <3>1. t.pairs + d >= k
      BY <1>1, <1>2, <1>3, <1>4, <2>3
    <3>2. h[t.start].role \in {"user", "assistant"}
      BY <2>3
    <3> QED  BY <1>1, <1>2, <2>3, <3>1, <3>2
  <2> QED  BY <2>1, <2>2, <2>3 DEF TurnedBack
<1>6. ASSUME NEW x \in After(h, i - 1), Cardinality(After(h, x)) < k
      PROVE  t.start <= x - 1
  <2>1. CASE x \in After(h, i)
    <3>1. w.start <= x - 1 /\ x \in Nat
      <4>1. x \in Nat
        BY <2>1 DEF After, Answers
      <4> QED  BY <1>2, <1>6, <2>1, <4>1
    <3> QED  BY <1>1, <1>5, <3>1
  <2>2. CASE x \notin After(h, i)
    <3>1. x = i /\ i \in Answers(h)
      BY <1>3, <1>6, <2>2
    <3>2. c < k
      BY <1>6, <3>1
    <3> QED  BY <1>5, <3>1, <3>2
  <2> QED  BY <2>1, <2>2
<1> QED  BY <1>5, <1>6 DEF WalkedTo

\* memory/compactor.go:108-132: the protected tail starts with a question or an answer, and
\* the last k answers and their questions are in it.
LEMMA WalkIs ==
  ASSUME NEW h \in Seq(Message), h # <<>>, NEW k \in Nat \ {0},
         NEW start, start = ProtectedStart(h, k)
  PROVE  /\ start \in Nat /\ start <= Len(h) + 1 /\ start >= FirstEligible(h)
         /\ start <= Len(h) => h[start].role \in {"user", "assistant"}
         /\ \A x \in Answers(h) : Cardinality(After(h, x)) < k => start <= x - 1
<1> DEFINE n == Len(h)  W == [start : Nat, pairs : Nat]
           begin == [start |-> n + 1, pairs |-> k]
           Walk(m, w) == StepBack(h, n - m + 1, w)
           Is(g) == g = [m \in 0..n |-> IF m = 0 THEN begin ELSE Walk(m, g[m - 1])]
           at == CHOOSE g : Is(g)
           turn == [m \in 1..n |-> [w \in W |-> Walk(m, w)]]
<1>1. n \in Nat \ {0} /\ begin \in W
  OBVIOUS
<1>2. \A m \in 1..n : n - m + 1 \in 1..n /\ n - m + 1 = n - (m - 1) /\ n - m = (n - m + 1) - 1
  BY <1>1
<1>3. \A m \in 1..n, w \in W : Walk(m, w) \in W /\ TurnedBack(h, n - m + 1, w, Walk(m, w))
  <2> SUFFICES ASSUME NEW m \in 1..n, NEW w \in W
               PROVE  Walk(m, w) \in W /\ TurnedBack(h, n - m + 1, w, Walk(m, w))
    OBVIOUS
  <2>1. \A i \in 1..Len(h) : /\ StepBack(h, i, w) \in [start : Nat, pairs : Nat]
                             /\ TurnedBack(h, i, w, StepBack(h, i, w))
    BY TurnBack
  <2> QED  BY <1>2, <2>1
<1> HIDE DEF Back, n, begin, W
<1>4. PICK t \in [0..n -> W] : TakesTurns(n, begin, turn, t)
  <2>1. turn \in [1..n -> [W -> W]]
    BY <1>3
  <2> HIDE DEF turn
  <2>2. \E f \in [0..n -> W] : TakesTurns(n, begin, turn, f)
    BY <1>1, <2>1, LoopExists
  <2> QED  BY <2>2
<1>5. t[0] = begin /\ \A m \in 1..n : t[m] = Walk(m, t[m - 1])
  <2>1. ASSUME NEW m \in 1..n
        PROVE  t[m] = Walk(m, t[m - 1])
    <3>1. m - 1 \in 0..n /\ t[m - 1] \in W
      BY <1>1
    <3>2. turn[m][t[m - 1]] = Walk(m, t[m - 1])
      BY <3>1
    <3> HIDE DEF turn
    <3> QED  BY <1>4, <3>2 DEF TakesTurns
  <2> QED  BY <1>4, <2>1 DEF TakesTurns
<1>6. Is(t)
  <2>1. t = [m \in 0..n |-> t[m]]
    OBVIOUS
  <2>2. \A m \in 0..n : t[m] = IF m = 0 THEN begin ELSE Walk(m, t[m - 1])
    BY <1>1, <1>5
  <2> QED  BY <2>1, <2>2
<1>7. Is(at)
  BY <1>6
<1>8. start = at[n].start
  BY DEF ProtectedStart, Back, begin, n
<1> HIDE DEF at
<1>9. at[0] = begin /\ \A m \in 1..n : at[m] = Walk(m, at[m - 1])
  <2>1. at = [m \in 0..n |-> IF m = 0 THEN begin ELSE Walk(m, at[m - 1])]
    BY <1>7
  <2>2. 0 \in 0..n /\ \A m \in 1..n : m \in 0..n /\ m # 0
    BY <1>1
  <2>3. at[0] = begin
    BY <2>1, <2>2, Zenon
  <2>4. \A m \in 1..n : at[m] = Walk(m, at[m - 1])
    BY <2>1, <2>2, Zenon
  <2> QED  BY <2>3, <2>4
<1> HIDE DEF Is, turn
<1> DEFINE Inv(m, w) == w \in W /\ WalkedTo(h, k, n - m, w)
           Good == {m \in 0..n : Inv(m, at[m])}
<1>10. 0 \in Good
  <2>1. After(h, n) = {} /\ Cardinality(After(h, n)) = 0
    <3>1. \A x \in Answers(h) : x \in Nat /\ x <= n
      BY <1>1 DEF Answers, n
    <3>2. After(h, n) = {}
      BY <1>1, <3>1 DEF After
    <3> QED  BY <3>2, FS_EmptySet
  <2>2. begin.start = n + 1 /\ begin.pairs = k
    BY DEF begin
  <2>3. FirstEligible(h) <= n + 1 /\ FirstEligible(h) \in Nat
    BY <1>1 DEF FirstEligible
  <2>4. ~(n + 1 <= n) /\ n + 1 >= n /\ n - 0 = n /\ k + 0 >= k
    BY <1>1
  <2>5. WalkedTo(h, k, n, begin)
    BY <2>1, <2>2, <2>3, <2>4, <1>1 DEF WalkedTo, n
  <2> QED  BY <1>1, <1>9, <2>4, <2>5
<1>11. ASSUME NEW m \in 1..n, m - 1 \in Good
       PROVE  m \in Good
  <2> DEFINE w == at[m - 1]  u == at[m]  i == n - m + 1
  <2>1. Inv(m - 1, w) /\ u = Walk(m, w)
    BY <1>9, <1>11
  <2>2. u \in W /\ TurnedBack(h, i, w, u)
    BY <1>3, <2>1
  <2>3. WalkedTo(h, k, i, w)
    BY <1>2, <2>1
  <2>4. i \in 1..Len(h) /\ n - m = i - 1
    BY <1>2 DEF n
  <2>5. w \in [start : Nat, pairs : Nat] /\ u \in [start : Nat, pairs : Nat]
    BY <2>1, <2>2 DEF W
  <2> HIDE DEF w, u, i
  <2>6. WalkedTo(h, k, i - 1, u)
    BY <2>2, <2>3, <2>4, <2>5, WalksOn
  <2> QED  BY <2>2, <2>4, <2>6 DEF u
<1> HIDE DEF Good, Inv
<1>12. \A m \in 0..n : m \in Good
  BY <1>1, <1>10, <1>11, EveryTurn
<1>13. Inv(n, at[n])
  BY <1>1, <1>12 DEF Good
<1>14. at[n].start \in Nat /\ WalkedTo(h, k, 0, at[n])
  <2>1. n - n = 0
    BY <1>1
  <2> QED  BY <1>13, <2>1 DEF Inv, W
<1>15. \A x \in Answers(h) : x \in After(h, 0)
  BY DEF After, Answers
<1> QED  BY <1>8, <1>14, <1>15 DEF WalkedTo

\* Every tool result comes right after a call or another result of the history.
ResultsFollow(out) ==
    \A i \in DOMAIN out :
        out[i].role = "tool" => i > 1 /\ out[i - 1].id # 0 /\ out[i - 1].role \in {"assistant", "tool"}

\* What the compactor returns.
CompactedRight(h, k, out) ==
    /\ Accounts(h, out) /\ KeepsOrder(h, out) /\ (h[1].role = "system" => out[1] = h[1])
    /\ \A i \in Answers(h) :
          Cardinality({j \in Answers(h) : j > i}) < k => {h[i - 1], h[i]} \subseteq Range(out)
    /\ ResultsFollow(out)

\* An uncompacted history is right.
LEMMA UntouchedRight ==
  ASSUME NEW h \in Seq(Message), h # <<>>, History(h), NEW k
  PROVE  CompactedRight(h, k, h)
<1>1. /\ Len(h) \in Nat /\ DOMAIN h = 1..Len(h) /\ KeepsOrder(h, h) /\ Accounts(h, h)
      /\ \A i \in 1..Len(h) : h[i].id = i /\ h[i] \in Range(h)
  BY HistoryIs
<1>2. \A i \in Answers(h) : {h[i - 1], h[i]} \subseteq Range(h)
  <2>1. \A i \in Answers(h) : i \in 1..Len(h) /\ i - 1 \in 1..Len(h)
    BY <1>1 DEF Answers
  <2> QED  BY <1>1, <2>1
<1>3. ResultsFollow(h)
  <2>1. ASSUME NEW i \in DOMAIN h, h[i].role = "tool"
        PROVE  i > 1 /\ h[i - 1].id # 0 /\ h[i - 1].role \in {"assistant", "tool"}
    <3>1. i > 1 /\ h[i - 1].role \in {"assistant", "tool"}
      BY <2>1 DEF History
    <3>2. i - 1 \in 1..Len(h) /\ i - 1 # 0
      BY <1>1, <3>1
    <3> QED  BY <1>1, <3>1, <3>2
  <2> QED  BY <2>1 DEF ResultsFollow
<1> QED  BY <1>1, <1>2, <1>3 DEF CompactedRight

\* memory/compactor.go:90-182: what Compact returns is right.
LEMMA CompactIs ==
  ASSUME NEW h \in Seq(Message), h # <<>>, History(h), NEW k \in Nat \ {0}, NEW tokens \in Nat,
         NEW out, out = Compact(h, k, tokens)
  PROVE  CompactedRight(h, k, out)
<1> DEFINE n == Len(h)  first == FirstEligible(h)  start == ProtectedStart(h, k)  a == first - 1
           s == Summary("system", tokens, start - first)
<1>1. /\ n \in Nat \ {0} /\ DOMAIN h = 1..n
      /\ \A i \in 1..n : h[i].id = i /\ h[i].id # 0
  <2>1. n \in Nat \ {0} /\ DOMAIN h = 1..n
    BY HistoryIs
  <2>2. \A i \in 1..n : h[i].id = i
    BY HistoryIs
  <2> QED  BY <2>1, <2>2
<1>2. first = (IF h[1].role = "system" THEN 2 ELSE 1)
  BY DEF FirstEligible, HasSystem
<1>3. /\ start \in Nat /\ start <= n + 1 /\ start >= first
      /\ start <= n => h[start].role \in {"user", "assistant"}
      /\ \A x \in Answers(h) : Cardinality(After(h, x)) < k => start <= x - 1
  BY WalkIs
<1>4. CASE first >= start
  <2>1. out = h
    BY <1>4 DEF Compact
  <2> QED  BY <2>1, UntouchedRight
<1>5. CASE ~(first >= start)
  <2>1. out = Pieced(h, a, start, s)
    BY <1>5 DEF Compact, Pieced
  <2>2. first \in {1, 2} /\ a \in 0..n /\ start \in a + 1..n + 1 /\ first < start /\ start - first \in Nat
    BY <1>1, <1>2, <1>3, <1>5
  <2> HIDE DEF start, first
  <2>3. s \in Piece /\ s.id = 0 /\ s.count = start - first /\ s.role = "system"
    <3>1. \A c \in Nat : /\ Summary("system", tokens, c) \in Piece /\ Summary("system", tokens, c).id = 0
                         /\ Summary("system", tokens, c).count = c
                         /\ Summary("system", tokens, c).role = "system"
      BY SummaryIs
    <3> QED  BY <2>2, <3>1
  <2>4. s.count = start - a - 1
    BY <1>3, <2>2, <2>3
  <2> HIDE DEF s
  <2>5. KeepsOrder(h, out) /\ Accounts(h, out)
    BY <2>1, <2>2, <2>3, <2>4, PiecedKeeps DEF n
  <2>6. PiecesOf(h, a, start, s, out)
    BY <2>1, <2>2, <2>3, PiecedIs DEF n
  <2> HIDE DEF a
  <2>7. /\ DOMAIN out = 1..Len(out) /\ Len(out) = (n - start) + a + 2
        /\ \A i \in 1..a : i \in 1..Len(out) /\ out[i] = h[i]
        /\ a + 1 \in 1..Len(out) /\ out[a + 1] = s
        /\ \A i \in start..n : (i - start) + a + 2 \in 1..Len(out) /\ out[(i - start) + a + 2] = h[i]
        /\ \A i \in 1..Len(out) : \/ i \in 1..a \/ i = a + 1
                                  \/ \E j \in start..n : i = (j - start) + a + 2
    BY <2>6 DEF PiecesOf, n
  <2>8. ASSUME h[1].role = "system"
        PROVE  out[1] = h[1]
    <3>1. a = 1
      BY <1>2, <2>8 DEF a, first
    <3>2. 1 \in 1..a
      BY <3>1
    <3> QED  BY <2>7, <3>2
  <2>9. \A i \in start..n : h[i] \in Range(out)
    BY <2>7 DEF Range
  <2>10. ASSUME NEW i \in Answers(h), Cardinality({j \in Answers(h) : j > i}) < k
         PROVE  {h[i - 1], h[i]} \subseteq Range(out)
    <3>1. start <= i - 1
      BY <1>3, <2>10 DEF After
    <3>2. i \in 1..n /\ i \in Nat
      BY <1>1 DEF Answers, n
    <3>3. i \in start..n /\ i - 1 \in start..n
      BY <1>1, <1>3, <3>1, <3>2 DEF start
    <3> QED  BY <2>9, <3>3
  <2>11. ResultsFollow(out)
    <3>1. ASSUME NEW i \in 1..Len(out), out[i].role = "tool"
          PROVE  i > 1 /\ out[i - 1].id # 0 /\ out[i - 1].role \in {"assistant", "tool"}
      <4>1. CASE i \in 1..a
        <5>1. a = 1 /\ h[1].role = "system"
          <6>1. a = IF h[1].role = "system" THEN 1 ELSE 0
            BY <1>2 DEF a, first
          <6> QED  BY <4>1, <6>1
        <5>2. out[i] = h[1]
          BY <2>7, <4>1, <5>1
        <5> QED  BY <3>1, <5>1, <5>2
      <4>2. CASE i = a + 1
        <5>1. out[i] = s
          BY <2>7, <4>2
        <5> QED  BY <2>3, <3>1, <5>1
      <4>3. CASE \E j \in start..n : i = (j - start) + a + 2
        <5>1. PICK j \in start..n : i = (j - start) + a + 2
          BY <4>3
        <5>2. out[i] = h[j]
          BY <2>7, <5>1
        <5>3. start \in Nat /\ a \in Nat /\ start >= 1
          <6>1. start \in Nat /\ a \in Nat
            BY <1>3, <2>2 DEF start
          <6>2. start >= 1
            BY <2>2, <6>1
          <6> QED  BY <6>1, <6>2
        <5>4. j # start
          <6>1. j = start => start <= n
            BY <1>1, <5>3
          <6>2. start <= n => h[start].role # "tool"
            BY <1>3 DEF start
          <6> QED  BY <3>1, <5>2, <6>1, <6>2
        <5>5. j - 1 \in start..n /\ j \in 1..n /\ j - 1 \in 1..n
          BY <1>1, <5>3, <5>4
        <5>6. i - 1 = ((j - 1) - start) + a + 2 /\ i > 1
          BY <5>1, <5>3, <5>5
        <5>7. out[i - 1] = h[j - 1]
          BY <2>7, <5>5, <5>6
        <5>8. h[j - 1].id # 0
          BY <1>1, <5>5
        <5>9. h[j - 1].role \in {"assistant", "tool"}
          BY <1>1, <3>1, <5>2, <5>5 DEF History
        <5> QED  BY <5>6, <5>7, <5>8, <5>9
      <4> QED  BY <2>7, <4>1, <4>2, <4>3
    <3> QED  BY <2>7, <3>1 DEF ResultsFollow
  <2> QED  BY <2>5, <2>8, <2>10, <2>11 DEF CompactedRight
<1> QED  BY <1>4, <1>5

\* memory/compressor_importance.go:75-101: the bases of the scores.
LEMMA BasesAre ==
  \A m \in Message :
      Base(m) = IF m.role = "system" THEN 1000 ELSE IF m.role = "tool" THEN 100
                ELSE IF m.role = "user" THEN 50 ELSE IF m.calls THEN 100 ELSE 10
<1>1. \A m \in Message : m.role \in {"system", "user", "assistant", "tool"} /\ m.calls \in BOOLEAN
  BY DEF Message
<1> QED  BY <1>1 DEF Base

\* They are at most that of a system message.
LEMMA BaseIs ==
  ASSUME NEW m \in Message
  PROVE  Base(m) \in Nat /\ 1000 - Base(m) \in Nat
<1>1. Base(m) \in {10, 50, 100, 1000}
  BY BasesAre
<1> QED  BY <1>1

\* Others have a lower one.
LEMMA SystemHighest ==
  ASSUME NEW m \in Message, NEW other \in Message, m.role = "system", other.role # "system"
  PROVE  Base(m) > Base(other)
<1>1. Base(m) = 1000 /\ Base(other) \in {10, 50, 100}
  BY BasesAre
<1> QED  BY <1>1

\* A system message is outranked by none but another.
LEMMA OnlySystemOutranks ==
  ASSUME NEW h \in Seq(Message), NEW i \in 1..Len(h), NEW j \in 1..Len(h),
         Outranks(h, j, i), h[i].role = "system"
  PROVE  h[j].role = "system"
<1> DEFINE x == h[i]  y == h[j]
<1>1. x \in Message /\ y \in Message /\ x.role = "system"
  OBVIOUS
<1>2. Base(y) > Base(x) \/ Base(y) = Base(x)
  BY DEF Outranks
<1> HIDE DEF x, y
<1>3. y.role # "system" => Base(x) > Base(y)
  BY <1>1, SystemHighest
<1>4. Base(x) \in Nat /\ Base(y) \in Nat
  <2>1. \A m \in Message : Base(m) \in Nat
    BY BaseIs
  <2> QED  BY <1>1, <2>1
<1> DEFINE b == Base(x)  c == Base(y)
<1>5. b \in Nat /\ c \in Nat /\ (c > b \/ c = b) /\ (y.role # "system" => b > c)
  BY <1>2, <1>3, <1>4
<1> HIDE DEF b, c
<1>6. y.role = "system"
  BY <1>5
<1> QED  BY <1>6 DEF y

\* Of two messages one outranks the other.
LEMMA OneOutranks ==
  ASSUME NEW h \in Seq(Message), NEW i \in 1..Len(h), NEW j \in 1..Len(h)
  PROVE  ~(Outranks(h, i, j) /\ Outranks(h, j, i))
<1> DEFINE b == Base(h[i])  c == Base(h[j])
<1>1. b \in Nat /\ c \in Nat
  <2>1. \A m \in Message : Base(m) \in Nat
    BY BaseIs
  <2> QED  BY <2>1
<1>2. /\ Outranks(h, i, j) <=> b > c \/ (b = c /\ i > j)
      /\ Outranks(h, j, i) <=> c > b \/ (c = b /\ j > i)
  BY DEF Outranks
<1> HIDE DEF b, c
<1> QED  BY <1>1, <1>2

\* Of the messages left one outranks all others.
LEMMA TopIs ==
  ASSUME NEW h \in Seq(Message), NEW left \in SUBSET (1..Len(h)), left # {},
         NEW top, top = Top(h, left)
  PROVE  top \in left /\ \A j \in left \ {top} : Outranks(h, top, j)
<1> DEFINE n == Len(h)  B == {1000 - Base(h[i]) : i \in left}
<1>1. n \in Nat /\ \A i \in left : /\ i \in 1..n /\ i \in Nat
                                   /\ Base(h[i]) \in Nat /\ 1000 - Base(h[i]) \in Nat
  <2>1. \A i \in left : i \in 1..Len(h) /\ h[i] \in Message
    OBVIOUS
  <2> QED  BY <2>1, BaseIs
<1>2. PICK b \in B : \A c \in B : b <= c
  <2>1. B \in SUBSET Nat
    <3>1. ASSUME NEW c \in B PROVE c \in Nat
      <4>1. PICK i \in left : c = 1000 - Base(h[i])
        OBVIOUS
      <4>2. 1000 - Base(h[i]) \in Nat
        BY <1>1
      <4> QED  BY <4>1, <4>2
    <3> HIDE DEF B
    <3> QED  BY <3>1
  <2>2. PICK i \in left : TRUE
    OBVIOUS
  <2>3. 1000 - Base(h[i]) \in B
    OBVIOUS
  <2> HIDE DEF B
  <2> QED  BY <2>1, <2>3, LeastOf
<1> DEFINE L == {i \in left : 1000 - Base(h[i]) = b}
<1>3. L # {} /\ L \in SUBSET (0..n)
  <2>1. PICK i \in left : b = 1000 - Base(h[i])
    BY <1>2
  <2>2. i \in L
    BY <2>1
  <2>3. L \subseteq left /\ left \subseteq 0..n
    BY <1>1
  <2> HIDE DEF L, n
  <2> QED  BY <2>2, <2>3
<1>4. Max(L) \in L /\ \A x \in L : x <= Max(L)
  <2> HIDE DEF L
  <2> QED  BY <1>1, <1>3, GreatestUpTo
<1> DEFINE i == Max(L)
<1>5. i \in left /\ 1000 - Base(h[i]) = b
  BY <1>4
<1>6. ASSUME NEW j \in left \ {i}
      PROVE  Outranks(h, i, j)
  <2>1. b <= 1000 - Base(h[j])
    BY <1>2
  <2>2. Base(h[i]) \in Nat /\ Base(h[j]) \in Nat /\ i \in Nat /\ j \in Nat /\ i # j
    <3>1. j \in left /\ i # j
      BY <1>6
    <3> HIDE DEF i
    <3> QED  BY <1>1, <1>5, <3>1
  <2>3. Base(h[i]) >= Base(h[j])
    BY <1>5, <2>1, <2>2
  <2>4. CASE Base(h[i]) = Base(h[j])
    <3>1. j \in L
      BY <1>5, <2>4
    <3>2. j <= i
      BY <1>4, <3>1
    <3>3. i > j
      <4> HIDE DEF i
      <4> QED  BY <2>2, <3>2
    <3> QED  BY <2>4, <3>3 DEF Outranks
  <2>5. CASE Base(h[i]) # Base(h[j])
    <3>1. Base(h[i]) > Base(h[j])
      <4> DEFINE x == Base(h[i])  y == Base(h[j])
      <4>1. x \in Nat /\ y \in Nat /\ x >= y /\ x # y
        BY <2>2, <2>3, <2>5
      <4> HIDE DEF x, y
      <4>2. x > y
        BY <4>1
      <4> QED  BY <4>2 DEF x, y
    <3> QED  BY <3>1 DEF Outranks
  <2> QED  BY <2>4, <2>5
<1> HIDE DEF i
<1>7. \E x \in left : \A j \in left \ {x} : Outranks(h, x, j)
  BY <1>5, <1>6
<1> QED  BY <1>7 DEF Top

\* The tokens of the messages picked, nothing for the others.
Picked(h, P) == [i \in 1..Len(h) |-> IF i \in P THEN h[i].tokens ELSE 0]

\* What the list of the messages picked adds up to.
LEMMA PickedAdds ==
  ASSUME NEW h \in Seq(Message), NEW P \in SUBSET (1..Len(h)), NEW kept, kept = Ascending(P, Len(h))
  PROVE  Total([i \in 1..Len(kept) |-> h[kept[i]].tokens], Len(kept)) = Total(Picked(h, P), Len(h))
<1> DEFINE n == Len(h)  A(m) == Ascending(P, m)
           Sum(m) == Total([i \in 1..Len(A(m)) |-> h[A(m)[i]].tokens], Len(A(m)))
           Good == {m \in 0..n : Sum(m) = Total(Picked(h, P), m)}
<1>1. n \in Nat /\ \A i \in 1..n : h[i].tokens \in Nat
  <2>1. n \in Nat /\ \A i \in 1..n : h[i] \in Message
    OBVIOUS
  <2> QED  BY <2>1 DEF Message
<1>2. \A i \in 1..n : Picked(h, P)[i] \in Int /\ Picked(h, P)[i] = IF i \in P THEN h[i].tokens ELSE 0
  BY <1>1 DEF Picked
<1>3. \A m \in 0..n : A(m) \in Seq(1..n) /\ Len(A(m)) \in Nat
  <2> SUFFICES ASSUME NEW m \in 0..n
               PROVE  A(m) \in Seq(1..n) /\ Len(A(m)) \in Nat
    OBVIOUS
  <2>1. A(m) \in Seq(1..m)
    <3>1. m \in Nat
      BY <1>1
    <3> QED  BY <3>1, AscendingIs
  <2>2. 1..m \subseteq 1..n
    BY <1>1
  <2> HIDE DEF A
  <2> QED  BY <2>1, <2>2
<1>4. A(0) = <<>> /\ \A m \in 1..n : A(m) = IF m \in P THEN Append(A(m - 1), m) ELSE A(m - 1)
  <2>1. \A m \in 0..n : m \in Nat /\ (m \in 1..n => m > 0)
    BY <1>1
  <2>2. 0 \in Nat
    OBVIOUS
  <2>3. \A m \in 1..n : m \in Nat /\ m > 0
    BY <1>1
  <2> QED  BY <2>2, <2>3, AscendingMore
<1>5. Total(Picked(h, P), 0) = 0 /\ \A m \in 1..n : Total(Picked(h, P), m) = Total(Picked(h, P), m - 1) + Picked(h, P)[m]
  <2>1. ASSUME NEW m \in 0..n
        PROVE  /\ Total(Picked(h, P), 0) = 0
               /\ m > 0 => Total(Picked(h, P), m) = Total(Picked(h, P), m - 1) + Picked(h, P)[m]
    <3>1. m \in Nat /\ \A i \in 1..m : i \in 1..n
      BY <1>1
    <3>2. \A i \in 1..m : Picked(h, P)[i] \in Int
      BY <1>2, <3>1
    <3> QED  BY <3>1, <3>2, TotalMore
  <2>2. 0 \in 0..n /\ \A m \in 1..n : m \in 0..n /\ m > 0
    BY <1>1
  <2> QED  BY <2>1, <2>2
<1> HIDE DEF n, A
<1>6. 0 \in Good
  <2>1. Len(A(0)) = 0
    BY <1>4
  <2> DEFINE f == [i \in 1..Len(A(0)) |-> h[A(0)[i]].tokens]
  <2>2. Total(f, 0) = 0
    <3>1. \A i \in 1..0 : f[i] \in Int
      OBVIOUS
    <3>2. 0 \in Nat
      OBVIOUS
    <3> HIDE DEF f
    <3> QED  BY <3>1, <3>2, TotalMore
  <2>3. Sum(0) = 0
    BY <2>1, <2>2
  <2> HIDE DEF Sum
  <2> QED  BY <1>1, <1>5, <2>3
<1>7. ASSUME NEW m \in 1..n, m - 1 \in Good
      PROVE  m \in Good
  <2>1. m - 1 \in 0..n /\ m \in 0..n
    BY <1>1
  <2>2. Sum(m - 1) = Total(Picked(h, P), m - 1)
    BY <1>7
  <2>3. Total(Picked(h, P), m) = Total(Picked(h, P), m - 1) + Picked(h, P)[m]
    BY <1>5
  <2>4. CASE m \notin P
    <3>1. A(m) = A(m - 1)
      BY <1>4, <2>4
    <3>2. Sum(m) = Sum(m - 1)
      BY <3>1
    <3>3. Picked(h, P)[m] = 0
      BY <1>2, <2>4
    <3>4. Total(Picked(h, P), m - 1) \in Int
      <4>1. m - 1 \in Nat /\ \A i \in 1..(m - 1) : i \in 1..n
        BY <1>1
      <4>2. \A i \in 1..(m - 1) : Picked(h, P)[i] \in Int
        BY <1>2, <4>1
      <4> QED  BY <4>1, <4>2, TotalMore
    <3> HIDE DEF Sum
    <3>5. Sum(m) = Total(Picked(h, P), m)
      BY <2>2, <2>3, <3>2, <3>3, <3>4
    <3> QED  BY <2>1, <3>5
  <2>5. CASE m \in P
    <3> DEFINE p == A(m - 1)  q == A(m)  c == Len(p)
               f == [i \in 1..c |-> h[p[i]].tokens]
               g == [i \in 1..(c + 1) |-> h[q[i]].tokens]
    <3>1. q = Append(p, m) /\ p \in Seq(1..n) /\ c \in Nat
      BY <1>3, <1>4, <2>1, <2>5
    <3> HIDE DEF p, q
    <3>2. Len(q) = c + 1 /\ q[c + 1] = m /\ \A i \in 1..c : q[i] = p[i] /\ p[i] \in 1..n
      <4>1. Len(q) = c + 1 /\ q[c + 1] = m
        BY <3>1
      <4>2. \A i \in 1..c : p[i] \in 1..n
        <5> DEFINE S == 1..n
        <5>1. p \in Seq(S)
          BY <3>1
        <5> HIDE DEF S
        <5>2. \A i \in 1..Len(p) : p[i] \in S
          BY <5>1
        <5> QED  BY <5>2 DEF S
      <4>3. \A i \in 1..c : q[i] = p[i]
        BY <3>1
      <4> QED  BY <4>1, <4>2, <4>3
    <3>3. \A i \in 1..c : f[i] \in Int /\ g[i] \in Int /\ g[i] = f[i]
      <4>1. \A i \in 1..c : i \in 1..(c + 1)
        BY <3>1
      <4>2. \A i \in 1..c : f[i] = h[p[i]].tokens /\ g[i] = h[q[i]].tokens
        BY <4>1
      <4> HIDE DEF f, g
      <4> QED  BY <1>1, <3>2, <4>2
    <3>4. g[c + 1] = h[m].tokens /\ g[c + 1] \in Int
      <4>1. c + 1 \in 1..(c + 1)
        BY <3>1
      <4> QED  BY <1>1, <3>2, <4>1
    <3> HIDE DEF f, g
    <3>5. \A i \in 1..(c + 1) : g[i] \in Int
      <4>1. \A i \in 1..(c + 1) : i \in 1..c \/ i = c + 1
        BY <3>1
      <4> QED  BY <3>3, <3>4, <4>1
    <3>6. Total(g, c + 1) = Total(g, c) + g[c + 1]
      <4>1. c + 1 \in Nat /\ c + 1 > 0 /\ (c + 1) - 1 = c
        BY <3>1
      <4> QED  BY <3>5, <4>1, TotalMore
    <3>7. Total(f, c) = Total(g, c)
      <4> HIDE DEF c
      <4> QED  BY <3>1, <3>3, TotalSame
    <3>8. Sum(m - 1) = Total(f, c) /\ Sum(m) = Total(g, c + 1)
      BY <3>2 DEF f, g, p, q
    <3>9. Picked(h, P)[m] = h[m].tokens
      BY <1>2, <2>5
    <3> HIDE DEF Sum
    <3>10. Sum(m) = Total(Picked(h, P), m)
      BY <2>2, <2>3, <3>4, <3>6, <3>7, <3>8, <3>9
    <3> QED  BY <2>1, <3>10
  <2> QED  BY <2>4, <2>5
<1> HIDE DEF Good, Sum
<1>8. \A m \in 0..n : m \in Good
  BY <1>1, <1>6, <1>7, EveryTurn
<1>9. Sum(n) = Total(Picked(h, P), n)
  BY <1>1, <1>8 DEF Good
<1> QED  BY <1>9 DEF Sum, n, A

\* What m turns of the selection have settled.
Selected(h, max, m, s) ==
    /\ s \in [left : SUBSET (1..Len(h)), picked : SUBSET (1..Len(h)), tokens : Nat]
    /\ Cardinality(s.left) = Len(h) - m /\ s.left \cap s.picked = {}
    /\ s.tokens = Total(Picked(h, s.picked), Len(h))
    /\ m = 0 => s.left = 1..Len(h) /\ s.picked = {}
    /\ m > 0 => Top(h, 1..Len(h)) \in s.picked /\ (s.tokens <= max \/ \E x : s.picked = {x})

\* One message more is picked.
LEMMA OneMorePicked ==
  ASSUME NEW h \in Seq(Message), NEW P \in SUBSET (1..Len(h)), NEW i \in 1..Len(h), i \notin P
  PROVE  Total(Picked(h, P \cup {i}), Len(h)) = Total(Picked(h, P), Len(h)) + h[i].tokens
<1> DEFINE n == Len(h)  a == Picked(h, P)  b == Picked(h, P \cup {i})
<1>1. n \in Nat /\ i \in 1..n /\ \A j \in 1..n : h[j].tokens \in Nat
  <2>1. n \in Nat /\ \A j \in 1..n : h[j] \in Message
    OBVIOUS
  <2> QED  BY <2>1 DEF Message
<1>2. \A j \in 1..n : /\ a[j] = IF j \in P THEN h[j].tokens ELSE 0
                      /\ b[j] = IF j \in P \cup {i} THEN h[j].tokens ELSE 0
  BY DEF Picked
<1>3. /\ \A j \in 1..n : a[j] \in Int
      /\ \A j \in 1..n : b[j] \in Int
      /\ \A j \in 1..n : j # i => b[j] = a[j]
  <2> HIDE DEF a, b, n
  <2>1. \A j \in 1..n : h[j].tokens \in Int /\ 0 \in Int
    BY <1>1
  <2> QED  BY <1>2, <2>1
<1>4. a[i] = 0 /\ b[i] = h[i].tokens
  BY <1>2
<1>5. Total(a, n) \in Int /\ h[i].tokens \in Nat
  <2>1. Total(a, n) \in Int
    <3> HIDE DEF a, n
    <3> QED  BY <1>1, <1>3, TotalMore
  <2> QED  BY <1>1, <2>1
<1> HIDE DEF a, b, n
<1>6. Total(b, n) = Total(a, n) + (b[i] - a[i])
  <2>1. \A j \in 1..n : \A x, y : /\ (\A k \in 1..n : x[k] \in Int)
                                  /\ (\A k \in 1..n : y[k] \in Int)
                                  /\ (\A k \in 1..n : k # j => y[k] = x[k])
                                  => Total(y, n) = Total(x, n) + (y[j] - x[j])
    BY <1>1, TotalChange
  <2> QED  BY <1>1, <1>3, <2>1
<1> QED  BY <1>4, <1>5, <1>6 DEF a, b, n

\* memory/compressor_importance.go:141-150, a turn of the loop.
LEMMA ConsiderIs ==
  ASSUME NEW h \in Seq(Message), NEW max \in Int, NEW m \in 1..Len(h), NEW s, Selected(h, max, m - 1, s),
         NEW t, t = Consider(h, max, s)
  PROVE  Selected(h, max, m, t)
<1> DEFINE n == Len(h)  D == 1..n  i == Top(h, s.left)  more == s.tokens + h[i].tokens
<1>1. n \in Nat /\ m \in Nat /\ m > 0 /\ m <= n /\ IsFiniteSet(D) /\ \A j \in D : h[j].tokens \in Nat
  <2>1. n \in Nat /\ m \in Nat /\ m > 0 /\ m <= n /\ \A j \in 1..n : h[j] \in Message
    OBVIOUS
  <2> QED  BY <2>1, CountTo DEF Message
<1>2. /\ s \in [left : SUBSET D, picked : SUBSET D, tokens : Nat]
      /\ Cardinality(s.left) = n - (m - 1) /\ s.left \cap s.picked = {}
      /\ s.tokens = Total(Picked(h, s.picked), n)
      /\ m - 1 = 0 => s.left = D /\ s.picked = {}
      /\ m - 1 > 0 => Top(h, D) \in s.picked /\ (s.tokens <= max \/ \E x : s.picked = {x})
  BY DEF Selected
<1>3. s.left \in SUBSET D /\ s.picked \in SUBSET D /\ s.tokens \in Nat
  BY <1>2
<1>4. IsFiniteSet(s.left) /\ s.left # {}
  <2>1. IsFiniteSet(s.left)
    BY <1>1, <1>3, FS_Subset
  <2>2. Cardinality(s.left) # 0
    BY <1>1, <1>2
  <2> QED  BY <2>1, <2>2, FS_EmptySet
<1>5. i \in s.left
  BY <1>3, <1>4, TopIs
<1>6. t = IF s.picked # {} /\ more > max THEN [s EXCEPT !.left = @ \ {i}]
          ELSE [left |-> s.left \ {i}, picked |-> s.picked \cup {i}, tokens |-> more]
  BY DEF Consider
<1> HIDE DEF i
<1>7. i \in D /\ more \in Nat /\ i \notin s.picked
  BY <1>1, <1>2, <1>3, <1>5
<1>8. Cardinality(s.left \ {i}) = n - m
  <2>1. Cardinality(s.left \ {i}) = Cardinality(s.left) - 1
    BY <1>4, <1>5, FS_RemoveElement
  <2> QED  BY <1>1, <1>2, <2>1
<1>9. Total(Picked(h, s.picked \cup {i}), n) = more
  BY <1>2, <1>3, <1>7, OneMorePicked DEF D
<1> HIDE DEF more, n
<1>10. CASE s.picked # {} /\ more > max
  <2>1. t = [s EXCEPT !.left = @ \ {i}]
    BY <1>6, <1>10
  <2>2. t.left = s.left \ {i} /\ t.picked = s.picked /\ t.tokens = s.tokens
    BY <1>2, <2>1
  <2>3. t \in [left : SUBSET D, picked : SUBSET D, tokens : Nat]
    BY <1>2, <1>3, <2>1
  <2>4. m - 1 > 0
    BY <1>1, <1>2, <1>10
  <2>5. t.left \cap t.picked = {} /\ m # 0
    BY <1>1, <1>2, <2>2
  <2>6. Top(h, D) \in t.picked /\ (t.tokens <= max \/ \E x : t.picked = {x})
    BY <1>2, <2>2, <2>4
  <2> QED  BY <1>1, <1>2, <1>8, <2>2, <2>3, <2>5, <2>6 DEF Selected, n, D
<1>11. CASE ~(s.picked # {} /\ more > max)
  <2>1. t = [left |-> s.left \ {i}, picked |-> s.picked \cup {i}, tokens |-> more]
    BY <1>6, <1>11
  <2>2. t.left = s.left \ {i} /\ t.picked = s.picked \cup {i} /\ t.tokens = more
    BY <2>1
  <2>3. t \in [left : SUBSET D, picked : SUBSET D, tokens : Nat]
    <3>1. s.left \ {i} \in SUBSET D /\ s.picked \cup {i} \in SUBSET D
      BY <1>3, <1>7
    <3> QED  BY <1>7, <2>1, <3>1
  <2>4. Top(h, D) \in t.picked /\ (t.tokens <= max \/ \E x : t.picked = {x})
    <3>1. CASE m - 1 = 0
      <4>1. i = Top(h, D) /\ t.picked = {i}
        BY <1>2, <2>2, <3>1 DEF i
      <4> QED  BY <4>1
    <3>2. CASE m - 1 # 0
      <4>1. Top(h, D) \in s.picked
        BY <1>1, <1>2, <3>2
      <4>2. more <= max
        BY <1>7, <1>11, <4>1
      <4> QED  BY <2>2, <4>1, <4>2
    <3> QED  BY <3>1, <3>2
  <2>5. t.left \cap t.picked = {}
    BY <1>2, <2>2
  <2>6. m # 0
    BY <1>1
  <2> QED  BY <1>8, <1>9, <2>2, <2>3, <2>4, <2>5, <2>6 DEF Selected, n, D
<1> QED  BY <1>10, <1>11

\* memory/compressor_importance.go:136-150: what the selection has settled in the end.
LEMMA SelectIs ==
  ASSUME NEW h \in Seq(Message), h # <<>>, NEW max \in Int
  PROVE  Selected(h, max, Len(h), Select(h, max))
<1> DEFINE n == Len(h)  D == 1..n  S == [left : SUBSET D, picked : SUBSET D, tokens : Nat]
           begin == [left |-> DOMAIN h, picked |-> {}, tokens |-> 0]
           Go(w) == Consider(h, max, w)
           Is(g) == g = [m \in 0..n |-> IF m = 0 THEN begin ELSE Go(g[m - 1])]
           at == CHOOSE g : Is(g)
           turn == [m \in 1..n |-> [w \in S |-> IF Go(w) \in S THEN Go(w) ELSE w]]
           Has(m, w) == Selected(h, max, m, w)
<1>1. n \in Nat \ {0} /\ DOMAIN h = D
  BY DEF D
<1>2. begin \in S /\ Has(0, begin)
  <2>1. begin \in S /\ begin.left = D /\ begin.picked = {} /\ begin.tokens = 0
    BY <1>1
  <2>2. Cardinality(D) = n - 0
    BY <1>1, CountTo
  <2>3. Total(Picked(h, {}), n) = 0
    <3> DEFINE p == Picked(h, {})  Good == {m \in 0..n : Total(p, m) = 0}
    <3>1. \A m \in 1..n : p[m] = 0
      BY DEF Picked
    <3> HIDE DEF p
    <3>2. \A m \in 0..n : Total(p, 0) = 0 /\ (m > 0 => Total(p, m) = Total(p, m - 1) + p[m])
      <4> SUFFICES ASSUME NEW m \in 0..n
                   PROVE  Total(p, 0) = 0 /\ (m > 0 => Total(p, m) = Total(p, m - 1) + p[m])
        OBVIOUS
      <4>1. m \in Nat /\ \A j \in 1..m : p[j] \in Int
        BY <1>1, <3>1
      <4> QED  BY <4>1, TotalMore
    <3>3. 0 \in Good
      BY <1>1, <3>2
    <3>4. \A m \in 1..n : m - 1 \in Good => m \in Good
      <4> SUFFICES ASSUME NEW m \in 1..n, m - 1 \in Good
                   PROVE  m \in Good
        OBVIOUS
      <4>1. m \in 0..n /\ m > 0
        BY <1>1
      <4>2. Total(p, m) = Total(p, m - 1) + p[m] /\ Total(p, m - 1) = 0 /\ p[m] = 0
        BY <3>1, <3>2, <4>1
      <4> QED  BY <4>1, <4>2
    <3> HIDE DEF Good, n
    <3>5. \A m \in 0..n : m \in Good
      BY <1>1, <3>3, <3>4, EveryTurn
    <3>6. n \in Good
      BY <1>1, <3>5
    <3> QED  BY <3>6 DEF Good, p
  <2> HIDE DEF begin
  <2>4. begin.left \cap begin.picked = {} /\ ~(0 > 0)
    BY <2>1
  <2>5. begin \in [left : SUBSET (1..Len(h)), picked : SUBSET (1..Len(h)), tokens : Nat]
    BY <2>1
  <2> QED  BY <2>1, <2>2, <2>3, <2>4, <2>5 DEF Selected
<1>3. \A m \in 1..n : \A w : Has(m - 1, w) => Has(m, Go(w)) /\ w \in S /\ Go(w) \in S
  <2> SUFFICES ASSUME NEW m \in 1..n, NEW w, Has(m - 1, w)
               PROVE  Has(m, Go(w)) /\ w \in S /\ Go(w) \in S
    OBVIOUS
  <2>1. \A s : Selected(h, max, m - 1, s) => Selected(h, max, m, Consider(h, max, s))
    BY ConsiderIs
  <2>2. Has(m, Go(w))
    BY <2>1
  <2>3. \A j, s : Selected(h, max, j, s) => s \in S
    BY DEF Selected
  <2> QED  BY <2>2, <2>3
<1> HIDE DEF Has, Go, begin, S, n, D
<1>4. ASSUME NEW g, g[0] = begin, \A m \in 1..n : Has(m - 1, g[m - 1]) => g[m] = Go(g[m - 1])
      PROVE  \A m \in 0..n : Has(m, g[m])
  <2> DEFINE Good == {m \in 0..n : Has(m, g[m])}
  <2>1. 0 \in Good
    BY <1>1, <1>2, <1>4
  <2>2. \A m \in 1..n : m - 1 \in Good => m \in Good
    <3>1. \A m \in 1..n : m \in 0..n
      BY <1>1
    <3> QED  BY <1>3, <1>4, <3>1
  <2>3. \A m \in 0..n : m \in Good
    <3> HIDE DEF Good
    <3> QED  BY <1>1, <2>1, <2>2, EveryTurn
  <2> QED  BY <2>3
<1>5. PICK t \in [0..n -> S] : TakesTurns(n, begin, turn, t)
  <2>1. turn \in [1..n -> [S -> S]]
    OBVIOUS
  <2> HIDE DEF turn
  <2>2. \E f \in [0..n -> S] : TakesTurns(n, begin, turn, f)
    BY <1>1, <1>2, <2>1, LoopExists
  <2> QED  BY <2>2
<1>6. t[0] = begin /\ \A m \in 1..n : Has(m - 1, t[m - 1]) => t[m] = Go(t[m - 1])
  <2>1. ASSUME NEW m \in 1..n, Has(m - 1, t[m - 1])
        PROVE  t[m] = Go(t[m - 1])
    <3>1. t[m - 1] \in S /\ Go(t[m - 1]) \in S
      BY <1>3, <2>1
    <3>2. turn[m][t[m - 1]] = Go(t[m - 1])
      BY <3>1
    <3> HIDE DEF turn
    <3> QED  BY <1>5, <3>2 DEF TakesTurns
  <2> QED  BY <1>5, <2>1 DEF TakesTurns
<1> HIDE DEF turn
<1>7. Is(t)
  <2>1. \A m \in 0..n : Has(m, t[m])
    BY <1>4, <1>6
  <2>2. \A m \in 1..n : m - 1 \in 0..n
    BY <1>1
  <2>3. \A m \in 1..n : t[m] = Go(t[m - 1])
    BY <1>6, <2>1, <2>2
  <2>4. t = [m \in 0..n |-> t[m]]
    OBVIOUS
  <2>5. \A m \in 0..n : t[m] = IF m = 0 THEN begin ELSE Go(t[m - 1])
    BY <1>1, <1>6, <2>3
  <2> QED  BY <2>4, <2>5
<1>8. Is(at)
  BY <1>7
<1>9. Select(h, max) = at[n]
  BY DEF Select, Go, begin, n
<1> HIDE DEF at
<1>10. at[0] = begin /\ \A m \in 1..n : at[m] = Go(at[m - 1])
  <2>1. at = [m \in 0..n |-> IF m = 0 THEN begin ELSE Go(at[m - 1])]
    BY <1>8
  <2>2. 0 \in 0..n /\ \A m \in 1..n : m \in 0..n /\ m # 0
    BY <1>1
  <2>3. at[0] = begin
    BY <2>1, <2>2, Zenon
  <2>4. \A m \in 1..n : at[m] = Go(at[m - 1])
    BY <2>1, <2>2, Zenon
  <2> QED  BY <2>3, <2>4
<1>11. Has(n, at[n])
  <2>1. \A m \in 0..n : Has(m, at[m])
    BY <1>4, <1>10
  <2>2. n \in 0..n
    BY <1>1
  <2> QED  BY <2>1, <2>2
<1> QED  BY <1>9, <1>11 DEF Has, n

\* What the importance compressor returns.
RankedRight(h, max, out) ==
    /\ KeepsOrder(h, out)
    /\ max > 0 => EstimateTokens(out) <= max \/ Len(out) = 1
    /\ \A i \in DOMAIN h : (\A j \in DOMAIN h \ {i} : Outranks(h, i, j)) => h[i] \in Range(out)
    /\ \A i \in DOMAIN h : h[i].role = "system" => \E m \in Range(out) : m.role = "system"

\* memory/compressor_importance.go:108-165: what the compressor returns is right.
LEMMA ImportanceIs ==
  ASSUME NEW h \in Seq(Message), h # <<>>, History(h), NEW max \in Int,
         NEW out, out = ImportanceCompress(h, max)
  PROVE  RankedRight(h, max, out)
<1> DEFINE n == Len(h)  P == Select(h, max).picked  kept == Ascending(P, n)  l == Len(kept)
           top == Top(h, 1..n)
<1>1. n \in Nat \ {0} /\ DOMAIN h = 1..n /\ KeepsOrder(h, h) /\ h \in Seq(Piece)
      /\ \A i \in 1..n : h[i] \in Message /\ h[i].id = i /\ h[i] \in Range(h)
  <2>1. n \in Nat \ {0}
    OBVIOUS
  <2> QED  BY <2>1, HistoryIs
<1>2. CASE max <= 0
  <2>1. out = h
    BY <1>2 DEF ImportanceCompress
  <2>2. \A i \in DOMAIN h : h[i] \in Range(h)
    BY <1>1
  <2> QED  BY <1>1, <1>2, <2>1, <2>2 DEF RankedRight
<1>3. CASE ~(max <= 0)
  <2>1. out = [x \in DOMAIN kept |-> h[kept[x]]]
    BY <1>3 DEF ImportanceCompress
  <2>2. /\ P \in SUBSET (1..n) /\ top \in P
        /\ Select(h, max).tokens = Total(Picked(h, P), n)
        /\ Select(h, max).tokens <= max \/ \E x : P = {x}
    <3>1. Selected(h, max, n, Select(h, max))
      BY SelectIs
    <3>2. n > 0
      BY <1>1
    <3> QED  BY <3>1, <3>2 DEF Selected
  <2> HIDE DEF P
  <2>3. /\ kept \in Seq(1..n) /\ Range(kept) = P \cap (1..n)
        /\ \A i, k \in 1..l : i < k => kept[i] < kept[k]
    <3> HIDE DEF n
    <3> QED  BY <1>1, AscendingIs
  <2>4. Total([x \in 1..l |-> h[kept[x]].tokens], l) = Total(Picked(h, P), n)
    <3> HIDE DEF kept
    <3>1. \A q : q = Ascending(P, Len(h)) =>
             Total([x \in 1..Len(q) |-> h[q[x]].tokens], Len(q)) = Total(Picked(h, P), Len(h))
      BY <2>2, PickedAdds
    <3> QED  BY <3>1 DEF kept
  <2> HIDE DEF kept, n, top
  <2>5. l \in Nat /\ DOMAIN kept = 1..l /\ \A x \in 1..l : kept[x] \in 1..n
    <3> DEFINE N == 1..n
    <3>1. kept \in Seq(N)
      BY <2>3
    <3> HIDE DEF N
    <3>2. l \in Nat /\ DOMAIN kept = 1..l /\ \A x \in 1..l : kept[x] \in N
      BY <3>1
    <3> QED  BY <3>2 DEF N
  <2>6. out = [x \in 1..l |-> h[kept[x]]]
    BY <2>1, <2>5
  <2> HIDE DEF l
  <2>7. \A x \in 1..l : out[x] = h[kept[x]] /\ out[x] \in Message /\ out[x].id = kept[x] /\ out[x] \in Range(h)
    <3>1. \A x \in 1..l : out[x] = h[kept[x]]
      BY <2>6
    <3> QED  BY <1>1, <2>5, <3>1
  <2>8. out \in Seq(Piece) /\ Len(out) = l /\ DOMAIN out = 1..l
    <3>1. \A x \in 1..l : h[kept[x]] \in Piece
      BY <1>1, <2>5 DEF Piece
    <3> HIDE DEF Piece
    <3> QED  BY <2>5, <2>6, <3>1
  <2>9. KeepsOrder(h, out)
    <3>1. KeptAt(out) \subseteq 1..l
      BY <2>8 DEF KeptAt
    <3> QED  BY <2>3, <2>7, <3>1 DEF KeepsOrder, l
  <2>10. EstimateTokens(out) = Total(Picked(h, P), n)
    <3>1. EstimateTokens(out) = Total([x \in 1..Len(out) |-> out[x].tokens], Len(out))
      BY <2>8, TokensAre
    <3>2. [x \in 1..l |-> out[x].tokens] = [x \in 1..l |-> h[kept[x]].tokens]
      BY <2>7
    <3> QED  BY <2>4, <2>8, <3>1, <3>2
  <2>11. EstimateTokens(out) <= max \/ Len(out) = 1
    <3>1. CASE Select(h, max).tokens <= max
      BY <2>2, <2>10, <3>1
    <3>2. CASE \E x : P = {x}
      <4>1. PICK x : P = {x}
        BY <3>2
      <4>2. \A i \in 1..l : kept[i] \in Range(kept)
        BY <2>5 DEF Range
      <4>3. \A i \in 1..l : kept[i] = x
        BY <2>3, <4>1, <4>2
      <4>4. Range(kept) # {} /\ x \in 1..n
        BY <2>2, <2>3, <4>1
      <4>5. PICK i \in 1..l : kept[i] = x
        BY <2>5, <4>3, <4>4 DEF Range
      <4>6. ~(l >= 2)
        <5>1. l >= 2 => 1 \in 1..l /\ 2 \in 1..l /\ 1 < 2
          BY <2>5
        <5>2. l >= 2 => kept[1] < kept[2] /\ kept[1] = x /\ kept[2] = x
          BY <2>3, <4>3, <5>1 DEF l
        <5>3. x \in Int
          BY <4>4
        <5> QED  BY <5>2, <5>3
      <4>7. l = 1
        BY <2>5, <4>5, <4>6
      <4> QED  BY <2>8, <4>7
    <3> QED  BY <2>2, <3>1, <3>2
  <2>12. top \in 1..n /\ \A j \in (1..n) \ {top} : Outranks(h, top, j)
    <3>1. 1..n # {} /\ 1..n \in SUBSET (1..Len(h))
      BY <1>1 DEF n
    <3> QED  BY <3>1, TopIs DEF top
  <2>13. h[top] \in Range(out)
    <3>1. top \in Range(kept)
      BY <2>2, <2>3, <2>12
    <3>2. PICK x \in 1..l : kept[x] = top
      BY <2>5, <3>1 DEF Range
    <3>3. x \in DOMAIN out /\ out[x] = h[top]
      BY <2>7, <2>8, <3>2
    <3> QED  BY <3>3 DEF Range
  <2>14. ASSUME NEW i \in DOMAIN h, \A j \in DOMAIN h \ {i} : Outranks(h, i, j)
         PROVE  h[i] \in Range(out)
    <3>1. i = top
      <4>1. CASE i # top
        <5>1. Outranks(h, i, top) /\ Outranks(h, top, i) /\ i \in 1..n
          BY <1>1, <2>12, <2>14, <4>1
        <5> QED  BY <2>12, <5>1, OneOutranks DEF n
      <4> QED  BY <4>1
    <3> QED  BY <2>13, <3>1
  <2>15. ASSUME NEW i \in DOMAIN h, h[i].role = "system"
         PROVE  \E m \in Range(out) : m.role = "system"
    <3>1. h[top].role = "system"
      <4>1. CASE i = top
        BY <2>15, <4>1
      <4>2. CASE i # top
        <5>1. Outranks(h, top, i) /\ i \in 1..n
          BY <1>1, <2>12, <4>2
        <5> QED  BY <2>12, <2>15, <5>1, OnlySystemOutranks DEF n
      <4> QED  BY <4>1, <4>2
    <3> QED  BY <2>13, <3>1
  <2> QED  BY <2>9, <2>11, <2>14, <2>15 DEF RankedRight
<1> QED  BY <1>2, <1>3

--------------------------------------------------------------------------------
(* The specification.                                                          *)

\* The input is one of the inputs, and stays what it is.
THEOREM InputsTyped == Spec => [](input \in Inputs)
<1>1. Init => input \in Inputs
  BY DEF Init
<1>2. input \in Inputs /\ [Next]_vars => (input \in Inputs)'
  BY DEF Next, vars
<1> QED  BY <1>1, <1>2, PTL DEF Spec

\* What the delegation of an input gives, UsageAdds asks for.
LEMMA DelegateRight ==
  ASSUME input \in Inputs, done = FALSE, Delegate, input' = input
  PROVE  UsageAdds'
<1>1. SUFFICES ASSUME output'.whole.kind = "ok"
               PROVE  LET loop == output'.steps[1]
                          spent == [i \in 1..loop.runs |-> Reported(input.script[i].usage)]
                          decision == IF input.answer = "failed" THEN 0 ELSE 5
                          agent == Reported(Last(input.script).usage)
                      IN  /\ \A i \in 1..loop.runs : ~Fails(input.script[i])
                          /\ ~Fails(Last(input.script)) /\ (input.fallback = 1 \/ input.answer = "two")
                          /\ \A i \in 1..loop.runs - 1 : input.script[i].go
                          /\ input.maxIters > 0 => loop.runs <= input.maxIters
                          /\ Reported(output'.whole.usage) = Total(spent, loop.runs) + decision + agent
                          /\ output'.whole.usage = NoUsage <=>
                                 /\ \A i \in 1..loop.runs : input.script[i].usage = NoUsage
                                 /\ input.answer = "failed" /\ Last(input.script).usage = NoUsage
  BY DEF UsageAdds
<1>2. /\ input.script \in Scripts /\ input.maxIters \in Keeps \cup {0} /\ input.fallback \in 0..1
      /\ input.answer \in Answer
  BY DEF Delegate, Inputs
<1>3. input.script \in Seq(Run) /\ input.script # <<>> /\ input.maxIters \in Nat
  <2>1. input.script \in Seq(Run) /\ input.script # <<>>
    BY <1>2, ScriptsAssumption
  <2>2. input.maxIters \in Nat
    <3>1. Keeps \cup {0} \subseteq Nat
      BY KeepsAssumption
    <3> QED  BY <1>2, <3>1
  <2> QED  BY <2>1, <2>2
<1>4. output'.steps = Steps(input) /\ output'.whole = RunSequence("request", output'.steps)
  BY DEF Delegate
<1> DEFINE steps == output'.steps  whole == output'.whole  loop == steps[1]
<1>5. steps = Steps(input) /\ whole = RunSequence("request", steps) /\ whole.kind = "ok" /\ loop = steps[1]
  BY <1>1, <1>4
<1> HIDE DEF steps, whole, loop
<1>6. /\ \A i \in 1..loop.runs : ~Fails(input.script[i])
      /\ ~Fails(Last(input.script)) /\ (input.fallback = 1 \/ input.answer = "two")
      /\ \A i \in 1..loop.runs - 1 : input.script[i].go
      /\ input.maxIters > 0 => loop.runs <= input.maxIters
      /\ Reported(whole.usage)
             = Total([i \in 1..loop.runs |-> Reported(input.script[i].usage)], loop.runs)
                   + (IF input.answer = "failed" THEN 0 ELSE 5) + Reported(Last(input.script).usage)
      /\ whole.usage = NoUsage <=>
             /\ \A i \in 1..loop.runs : input.script[i].usage = NoUsage
             /\ input.answer = "failed" /\ Last(input.script).usage = NoUsage
  BY <1>2, <1>3, <1>5, DelegationIs, SMTT(30)
<1> QED  BY <1>6 DEF steps, whole, loop

\* loop.go:48-99, workflow.go:134-185, router.go:99-130: for all scripts, answers
\* and limits a caller is told of all the usage there was and of every failure.
THEOREM UsageAddsUpwards == Spec => []UsageAdds
<1>1. Init => UsageAdds
  BY DEF Init, UsageAdds
<1>2. UsageAdds /\ input \in Inputs /\ [Next]_vars => UsageAdds'
  <2> SUFFICES ASSUME UsageAdds, input \in Inputs, [Next]_vars
               PROVE  UsageAdds'
    OBVIOUS
  <2>1. CASE Next /\ Delegate
    BY <2>1, DelegateRight DEF Next
  <2>2. CASE Next /\ ~Delegate
    <3>1. input' = input /\ input.alg # "delegate"
      BY <2>2 DEF Next, Analyse, Build, Compress
    <3> QED  BY <3>1 DEF UsageAdds
  <2>3. CASE UNCHANGED vars
    BY <2>3 DEF UsageAdds, vars
  <2> QED  BY <2>1, <2>2, <2>3
<1> QED  BY <1>1, <1>2, InputsTyped, PTL DEF Spec

\* What the analysis of a slice gives, ShapesRight asks for.
LEMMA AnalyseRight ==
  ASSUME input \in Inputs, done = FALSE, Analyse, input' = input
  PROVE  ShapesRight'
<1> DEFINE nodes == input.nodes  ids == IDs(nodes)  edges == Edges(nodes)
           ends == Terminals(edges, Finished(nodes))
<1>1. nodes \in Seq(Node)
  <2>1. nodes \in Graphs
    BY DEF Analyse, Inputs
  <2> QED  BY <2>1, GraphsAssumption
<1>2. input.alg = "graph"
  BY DEF Analyse
<1>3. output'.verdict = ValidateDAG(nodes)
  BY DEF Analyse
<1>4. output'.verdict = "ok" <=> Sound(Len(nodes), ids, edges)
  BY <1>1, <1>3, ValidateIs
<1>5. ASSUME output'.verdict = "ok"
      PROVE  /\ output'.order = topologicalSort(nodes)
             /\ output'.priority = ComputeCriticalPath(nodes)
             /\ output'.all = concatMessages(ResultsOf(nodes))
             /\ output'.last = lastResult(ResultsOf(nodes))
  BY <1>3, <1>5 DEF Analyse
<1> DEFINE order == output'.order  priority == output'.priority
           all == output'.all  last == output'.last
<1>6. ASSUME output'.verdict = "ok"
      PROVE  /\ Range(order) = ids /\ Len(order) = Len(nodes)
             /\ \A i, k \in DOMAIN order : <<order[i], order[k]>> \in edges => i < k
             /\ \A id \in ids : LongestThrough(ids, edges, id, priority[id])
             /\ Range(all) = ends \ {1}
             /\ \A i, k \in DOMAIN all : i < k => all[i] < all[k]
             /\ Range(last) = {id \in ends \ {1} : \A other \in ends : other <= id}
  <2>1. Proper(nodes)
    BY <1>1, <1>4, <1>6 DEF Proper
  <2>2. /\ order = topologicalSort(nodes) /\ priority = ComputeCriticalPath(nodes)
        /\ all = concatMessages(ResultsOf(nodes)) /\ last = lastResult(ResultsOf(nodes))
    BY <1>5, <1>6
  <2> HIDE DEF nodes, order, priority, all, last
  <2>3. Listed(nodes, order)
    BY <2>1, <2>2, SortedIs
  <2>4. DOMAIN order = 1..Len(nodes)
    <3>1. order \in Seq(IDs(nodes)) /\ Len(order) = Len(nodes)
      BY <2>3 DEF Listed
    <3>2. DOMAIN order = 1..Len(order)
      BY <3>1, LenProperties
    <3> QED  BY <3>1, <3>2
  <2>5. \A id \in ids : LongestThrough(ids, edges, id, priority[id])
    BY <2>1, <2>2, PriorityIs
  <2> DEFINE T == Terminal(nodes, Finished(nodes))
  <2>6. T = ends
    BY <1>1, TerminalIs
  <2>7. T \in SUBSET ids
    <3>1. \A i \in 1..Len(nodes) - 1 : i \in DOMAIN nodes
      BY <1>1, SliceIs
    <3>2. Finished(nodes) \in SUBSET ids
      BY <3>1 DEF Finished, IDs
    <3> QED  BY <3>2 DEF Terminal
  <2>8. ResultsOf(nodes) = Told(T)
    BY DEF ResultsOf, Told
  <2> HIDE DEF T, ids, ends
  <2>9. /\ all \in Seq(Nat) /\ Range(all) = T \ {1}
        /\ \A i, k \in 1..Len(all) : i < k => all[i] < all[k]
        /\ Range(last) = {id \in T \ {1} : \A other \in T : other <= id}
    <3>1. T \in SUBSET IDs(nodes)
      BY <2>7 DEF ids
    <3>2. \A results, a, l :
              /\ results = Told(T)
              /\ a = concatMessages(results) /\ l = lastResult(results)
              => /\ a \in Seq(Nat) /\ Range(a) = T \ {1}
                 /\ \A i, k \in 1..Len(a) : i < k => a[i] < a[k]
                 /\ Range(l) = {id \in T \ {1} : \A other \in T : other <= id}
      BY <1>1, <3>1, AggregatedIs
    <3> QED  BY <2>2, <2>8, <3>2
  <2>10. DOMAIN all = 1..Len(all)
    BY <2>9, LenProperties
  <2> QED  BY <2>3, <2>4, <2>5, <2>6, <2>9, <2>10 DEF Listed, ids
<1>7. input'.nodes = nodes /\ input'.alg = "graph"
  BY <1>2
<1> HIDE DEF nodes, order, priority, all, last
<1> QED  BY <1>4, <1>6, <1>7 DEF ShapesRight, order, priority, all, last

\* And what building a slice from edges gives.
LEMMA BuildRight ==
  ASSUME input \in Inputs, done = FALSE, Build, input' = input
  PROVE  ShapesRight'
<1> DEFINE nodes == input.graph.nodes  edges == input.graph.edges
<1>1. input.alg = "edges" /\ output'.built = BuildDAG(nodes, edges)
  BY DEF Build
<1>2. nodes \in Seq(Node) /\ edges \in Seq(ID \X ID)
  <2>1. input.graph \in EdgeLists
    BY <1>1 DEF Inputs
  <2> QED  BY <2>1, GraphsAssumption
<1>3. output'.built = "ok" <=>
          /\ \A i \in DOMAIN nodes : nodes[i].deps = <<>>
          /\ Sound(Len(nodes), IDs(nodes), Range(edges))
  BY <1>1, <1>2, BuildIs
<1>4. input'.graph.nodes = nodes /\ input'.graph.edges = edges /\ input'.alg = "edges"
  BY <1>1
<1> HIDE DEF nodes, edges
<1> QED  BY <1>3, <1>4 DEF ShapesRight

\* orchestrate.go:202-315, topo.go, priority.go, aggregator.go: for all graphs and
\* edges validation, order, priorities and aggregation are what they should be.
THEOREM ShapesAreRight == Spec => []ShapesRight
<1>1. Init => ShapesRight
  BY DEF Init, ShapesRight
<1>2. ShapesRight /\ input \in Inputs /\ [Next]_vars => ShapesRight'
  <2> SUFFICES ASSUME ShapesRight, input \in Inputs, [Next]_vars
               PROVE  ShapesRight'
    OBVIOUS
  <2>1. CASE Next /\ Analyse
    BY <2>1, AnalyseRight DEF Next
  <2>2. CASE Next /\ Build
    BY <2>2, BuildRight DEF Next
  <2>3. CASE Next /\ ~Analyse /\ ~Build
    <3>1. input' = input /\ input.alg # "graph" /\ input.alg # "edges"
      BY <2>3 DEF Next, Compress, Delegate
    <3> QED  BY <3>1 DEF ShapesRight
  <2>4. CASE UNCHANGED vars
    BY <2>4 DEF ShapesRight, vars
  <2> QED  BY <2>1, <2>2, <2>3, <2>4
<1> QED  BY <1>1, <1>2, InputsTyped, PTL DEF Spec

\* What the compressors make of an input, HistoriesKept asks for.
LEMMA CompressRight ==
  ASSUME input \in Inputs, done = FALSE, Compress, input' = input
  PROVE  HistoriesKept'
<1> DEFINE h == input.messages  max == input.maxTokens  k == input.keep  c == input.length
           budget == TokenBudgetCompress(h, max)  ranked == ImportanceCompress(h, max)
           chain == Chain(h, max, k + 1, k, c)  summary == SummarizeAndTrunc(h, max, k, c)
           read == SummarizerInput(h, max)
           compact == CompactIfNeeded(h, k, EstimateTextTokens(c), max)
<1>1. /\ output'.budget = budget /\ output'.ranked = ranked /\ output'.chain = chain
      /\ output'.summary = summary /\ output'.read = read /\ output'.compact = compact
  BY DEF Compress
<1>2. /\ h \in Seq(Message) /\ h # <<>> /\ History(h)
      /\ max \in Int /\ k \in Nat \ {0} /\ c \in Nat
  <2>1. input.alg = "compress"
    BY DEF Compress
  <2>2. h \in Histories /\ max \in Budgets /\ k \in Keeps /\ c \in Lengths
    BY <2>1 DEF Inputs
  <2> QED  BY <2>2, HistoriesAssumption, KeepsAssumption
<1>3. input'.messages = h /\ input'.maxTokens = max /\ input'.keep = k
  OBVIOUS
<1> HIDE DEF h, max, k, c
<1>4. NewestWithin(h, max, budget)
  BY <1>2, BudgetKeeps
<1>5. NewestWithin(h, max, chain)
  BY <1>2, ChainKeeps
<1>6. SummarizedRight(h, max, k, summary)
  BY <1>2, SummarizeIs
<1>7. RankedRight(h, max, ranked)
  BY <1>2, ImportanceIs
<1>8. Accounts(h, read)
  BY <1>2, ReadIs
<1>9. CompactedRight(h, k, compact)
  <2>1. CASE compact = h
    BY <1>2, <2>1, UntouchedRight
  <2>2. CASE compact = Compact(h, k, EstimateTextTokens(c))
    <3>1. EstimateTextTokens(c) \in Nat
      BY <1>2, TextIs
    <3> QED  BY <1>2, <2>2, <3>1, CompactIs
  <2> QED  BY <2>1, <2>2 DEF CompactIfNeeded
<1> HIDE DEF budget, ranked, chain, summary, read, compact
<1>10. /\ KeepsNewest(h, budget) /\ KeepsNewest(h, chain) /\ KeepsNewest(h, summary)
       /\ max > 0 => /\ EstimateTokens(budget) <= max \/ Len(budget) = 1
                     /\ EstimateTokens(chain) <= max \/ Len(chain) = 1
                     /\ EstimateTokens(ranked) <= max \/ Len(ranked) = 1
                     /\ EstimateTokens(summary) <= max \/ Len(summary) <= k
       /\ KeepsOrder(h, ranked)
       /\ \A i \in DOMAIN h : (\A j \in DOMAIN h \ {i} : Outranks(h, i, j)) => h[i] \in Range(ranked)
       /\ \A i \in DOMAIN h : h[i].role = "system" => \E m \in Range(ranked) : m.role = "system"
       /\ Accounts(h, summary)
  BY <1>4, <1>5, <1>6, <1>7 DEF NewestWithin, SummarizedRight, RankedRight
<1>11. /\ Accounts(h, compact) /\ KeepsOrder(h, compact)
       /\ h[1].role = "system" => compact[1] = h[1]
       /\ \A i \in Answers(h) : Cardinality({j \in Answers(h) : j > i}) < k
                                    => {h[i - 1], h[i]} \subseteq Range(compact)
       /\ \A i \in DOMAIN compact :
              compact[i].role = "tool" =>
                  i > 1 /\ compact[i - 1].id # 0 /\ compact[i - 1].role \in {"assistant", "tool"}
  BY <1>9 DEF CompactedRight, ResultsFollow
<1> QED  BY <1>1, <1>3, <1>8, <1>10, <1>11 DEF HistoriesKept

\* memory/compressor*.go, memory/compactor.go: for all histories, budgets, windows and
\* texts every compressor keeps what it should of the history.
THEOREM HistoriesAreKept == Spec => []HistoriesKept
<1>1. Init => HistoriesKept
  BY DEF Init, HistoriesKept
<1>2. HistoriesKept /\ input \in Inputs /\ [Next]_vars => HistoriesKept'
  <2> SUFFICES ASSUME HistoriesKept, input \in Inputs, [Next]_vars
               PROVE  HistoriesKept'
    OBVIOUS
  <2>1. CASE Next /\ Compress
    BY <2>1, CompressRight DEF Next
  <2>2. CASE Next /\ ~Compress
    <3>1. input' = input /\ input.alg # "compress"
      BY <2>2 DEF Next, Analyse, Build, Delegate
    <3> QED  BY <3>1 DEF HistoriesKept
  <2>3. CASE UNCHANGED vars
    BY <2>3 DEF HistoriesKept, vars
  <2> QED  BY <2>1, <2>2, <2>3
<1> QED  BY <1>1, <1>2, InputsTyped, PTL DEF Spec

================================================================================
