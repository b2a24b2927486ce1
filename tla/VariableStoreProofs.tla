------------------------ MODULE VariableStoreProofs ------------------------
(***************************************************************************)
(* Proofs about VariableStore, for every value of its constants.           *)
(***************************************************************************)
EXTENDS VariableStore, FiniteSetTheorems, SequenceTheorems, TLAPS

-----------------------------------------------------------------------------
(***************************************************************************)
(* Natural numbers.                                                        *)
(***************************************************************************)
LEMMA SmallestNat ==
  ASSUME NEW T \in SUBSET Nat, T # {}
  PROVE  \E x \in T : \A y \in T : x <= y
<1> DEFINE U == {1..n : n \in T}
<1>1. \A n \in Nat : 1..n \in SUBSET Nat /\ IsFiniteSet(1..n)
  BY FS_Interval
<1>2. U \subseteq {S \in SUBSET Nat : IsFiniteSet(S)} /\ U # {}
  BY <1>1
<1>3. \E x \in U : \A y \in U : ~(<<y, x>> \in StrictSubsetOrdering(Nat))
  BY <1>2, FS_StrictSubsetOrderingWellFounded, WFMin DEF FiniteSubsetsOf
<1>4. PICK x \in T : \A y \in T : ~(<<1..y, 1..x>> \in StrictSubsetOrdering(Nat))
  BY <1>3
<1>5. ASSUME NEW y \in T, y < x
      PROVE  FALSE
  <2>1. /\ 1..y \in SUBSET Nat /\ 1..x \in SUBSET Nat /\ 1..y \subseteq 1..x
        /\ x \in 1..x /\ x \notin 1..y
    BY <1>5
  <2> QED
    BY <2>1, <1>4 DEF StrictSubsetOrdering
<1> QED
  BY <1>5

\* Induction for a set of numbers.
LEMMA NatSetInduction ==
  ASSUME NEW T \in SUBSET Nat, 0 \in T, \A n \in T : n + 1 \in T
  PROVE  \A n \in Nat : n \in T
<1> SUFFICES ASSUME NEW m \in Nat, m \notin T PROVE FALSE
  OBVIOUS
<1> DEFINE R == {n \in Nat : n \notin T}
<1>1. R \in SUBSET Nat /\ R # {}
  OBVIOUS
<1> HIDE DEF R
<1>2. PICK x \in R : \A y \in R : x <= y
  BY <1>1, SmallestNat
<1>3. x \in Nat /\ x \notin T /\ x # 0 /\ x - 1 \in Nat
  BY <1>2 DEF R
<1>4. x - 1 \in T
  BY <1>2, <1>3 DEF R
<1> QED
  BY <1>3, <1>4

LEMMA GreatestExists ==
  ASSUME NEW n \in Nat, NEW T \in SUBSET (1..n), T # {}
  PROVE  Greatest(T) \in T /\ \A i \in T : i <= Greatest(T)
<1> DEFINE R == {n - i : i \in T}
<1>1. R \in SUBSET Nat /\ R # {}
  <2>1. \A i \in T : n - i \in Nat
    OBVIOUS
  <2> QED
    BY <2>1
<1>2. PICK x \in R : \A y \in R : x <= y
  BY <1>1, SmallestNat
<1>3. PICK j \in T : x = n - j
  BY <1>2
<1>4. \A i \in T : i <= j
  BY <1>2, <1>3
<1> QED
  BY <1>4 DEF Greatest

LEMMA LeastExists ==
  ASSUME NEW n \in Nat, NEW T \in SUBSET (1..n), T # {}
  PROVE  Least(T) \in T /\ \A i \in T : Least(T) <= i
<1>1. T \in SUBSET Nat
  OBVIOUS
<1>2. \E x \in T : \A y \in T : x <= y
  BY <1>1, SmallestNat
<1> QED
  BY <1>2 DEF Least

-----------------------------------------------------------------------------
(***************************************************************************)
(* Sums.  SumOf is defined by recursion: that the function exists and what *)
(* it returns follows by NatSetInduction.                                  *)
(***************************************************************************)
\* f adds up the first n entries of w.
AddsUp(f, w, n) == f = [i \in 0..n |-> IF i = 0 THEN 0 ELSE f[i - 1] + w[i]]

LEMMA SumExists ==
  ASSUME NEW w \in Seq(Nat)
  PROVE  \A n \in Nat : n <= Len(w) => \E f : AddsUp(f, w, n)
<1> DEFINE T == {n \in Nat : n <= Len(w) => \E f : AddsUp(f, w, n)}
<1>1. 0 \in T
  <2>1. AddsUp([i \in 0..0 |-> 0], w, 0)
    BY DEF AddsUp
  <2> QED
    BY <2>1
<1>2. ASSUME NEW n \in T PROVE n + 1 \in T
  <2> SUFFICES ASSUME n + 1 <= Len(w) PROVE \E f : AddsUp(f, w, n + 1)
    OBVIOUS
  <2>1. PICK g : AddsUp(g, w, n)
    OBVIOUS
  <2> DEFINE f == [i \in 0..(n + 1) |-> IF i = n + 1 THEN g[n] + w[n + 1] ELSE g[i]]
  <2>2. ASSUME NEW i \in 0..(n + 1)
        PROVE  f[i] = IF i = 0 THEN 0 ELSE f[i - 1] + w[i]
    <3>1. \A k \in 0..n : g[k] = IF k = 0 THEN 0 ELSE g[k - 1] + w[k]
      BY <2>1 DEF AddsUp
    <3> QED
      BY <3>1
  <2>3. AddsUp(f, w, n + 1)
    BY <2>2 DEF AddsUp
  <2> QED
    BY <2>3
<1> HIDE DEF T
<1>3. \A n \in Nat : n \in T
  <2>1. T \in SUBSET Nat
    BY DEF T
  <2> QED
    BY <1>1, <1>2, <2>1, NatSetInduction
<1> QED
  BY <1>3 DEF T

LEMMA SumIs ==
  ASSUME NEW w \in Seq(Nat)
  PROVE  \E f : AddsUp(f, w, Len(w)) /\ SumOf(w) = f[Len(w)]
<1> DEFINE sum == CHOOSE f : AddsUp(f, w, Len(w))
<1>1. \E f : AddsUp(f, w, Len(w))
  BY SumExists
<1>2. AddsUp(sum, w, Len(w))
  BY <1>1
<1>3. SumOf(w) = sum[Len(w)]
  BY DEF SumOf, AddsUp
<1> QED
  BY <1>2, <1>3

LEMMA SumEmpty == SumOf(<<>>) = 0
<1>0. <<>> \in Seq(Nat) /\ Len(<<>>) = 0
  OBVIOUS
<1>1. PICK f : AddsUp(f, <<>>, 0) /\ SumOf(<<>>) = f[0]
  BY <1>0, SumIs
<1> QED
  BY <1>1 DEF AddsUp

LEMMA SumAppend ==
  ASSUME NEW w \in Seq(Nat), NEW x \in Nat
  PROVE  SumOf(Append(w, x)) = SumOf(w) + x
<1> DEFINE v == Append(w, x)
           n == Len(w)
<1>1. v \in Seq(Nat) /\ Len(v) = n + 1 /\ v[n + 1] = x /\ n \in Nat /\ \A i \in 1..n : v[i] = w[i]
  OBVIOUS
<1>2. PICK f : AddsUp(f, w, n) /\ SumOf(w) = f[n]
  BY SumIs
<1> HIDE DEF v
<1>3. PICK g : AddsUp(g, v, n + 1) /\ SumOf(v) = g[n + 1]
  BY <1>1, SumIs
<1>4. \A i \in 0..n : f[i] = IF i = 0 THEN 0 ELSE f[i - 1] + w[i]
  BY <1>2 DEF AddsUp
<1>5. \A i \in 0..(n + 1) : g[i] = IF i = 0 THEN 0 ELSE g[i - 1] + v[i]
  BY <1>3 DEF AddsUp
<1> DEFINE T == {i \in Nat : i <= n => g[i] = f[i]}
<1>6. \A i \in Nat : i \in T
  <2>1. 0 \in T
    BY <1>1, <1>4, <1>5
  <2>2. ASSUME NEW i \in T PROVE i + 1 \in T
    <3> SUFFICES ASSUME i + 1 <= n PROVE g[i + 1] = f[i + 1]
      OBVIOUS
    <3>1. f[i + 1] = f[i] + w[i + 1] /\ g[i + 1] = g[i] + v[i + 1]
      BY <1>1, <1>4, <1>5
    <3> QED
      BY <1>1, <3>1
  <2> HIDE DEF T
  <2>3. T \in SUBSET Nat
    BY DEF T
  <2> QED
    BY <2>1, <2>2, <2>3, NatSetInduction
<1>7. g[n] = f[n]
  BY <1>1, <1>6
<1>8. g[n + 1] = g[n] + v[n + 1]
  BY <1>1, <1>5
<1> QED
  BY <1>1, <1>2, <1>3, <1>7, <1>8 DEF v

LEMMA SequencesEqual ==
  ASSUME NEW S, NEW s \in Seq(S), NEW t \in Seq(S), Len(s) = Len(t),
         \A i \in 1..Len(s) : s[i] = t[i]
  PROVE  s = t
OBVIOUS

LEMMA FrontIs ==
  ASSUME NEW S, NEW w \in Seq(S), NEW n \in Nat, n < Len(w)
  PROVE  /\ SubSeq(w, 1, n) \in Seq(S) /\ Len(SubSeq(w, 1, n)) = n
         /\ \A i \in 1..n : SubSeq(w, 1, n)[i] = w[i]
<1>1. \A i \in 1..n : w[i] \in S
  OBVIOUS
<1>2. /\ SubSeq(w, 1, n) \in Seq(S)
      /\ Len(SubSeq(w, 1, n)) = IF 1 <= n THEN n - 1 + 1 ELSE 0
      /\ \A i \in 1..(n - 1 + 1) : SubSeq(w, 1, n)[i] = w[1 + i - 1]
  BY <1>1, SubSeqProperties
<1> QED
  BY <1>2

\* A nonempty sequence is its front and its last entry.
LEMMA FrontLast ==
  ASSUME NEW S, NEW w \in Seq(S), w # <<>>
  PROVE  LET front == SubSeq(w, 1, Len(w) - 1)
         IN  /\ front \in Seq(S) /\ Len(front) = Len(w) - 1 /\ w[Len(w)] \in S
             /\ \A i \in 1..(Len(w) - 1) : front[i] = w[i]
             /\ w = Append(front, w[Len(w)])
<1> DEFINE n == Len(w)
           front == SubSeq(w, 1, n - 1)
<1>1. n \in Nat /\ n > 0 /\ \A i \in 1..n : w[i] \in S
  OBVIOUS
<1>2. front \in Seq(S) /\ Len(front) = n - 1 /\ \A i \in 1..(n - 1) : front[i] = w[i]
  <2>1. n - 1 \in Nat /\ n - 1 < Len(w)
    BY <1>1
  <2> HIDE DEF n
  <2> QED
    BY <2>1, FrontIs
<1> HIDE DEF front
<1>3. /\ Append(front, w[n]) \in Seq(S) /\ Len(Append(front, w[n])) = n
      /\ \A i \in 1..n : Append(front, w[n])[i] = w[i]
  BY <1>1, <1>2
<1>4. w = Append(front, w[n])
  BY <1>1, <1>3, SequencesEqual
<1> QED
  BY <1>1, <1>2, <1>4 DEF front

LEMMA SumFrontLast ==
  ASSUME NEW w \in Seq(Nat), w # <<>>
  PROVE  SumOf(w) = SumOf(SubSeq(w, 1, Len(w) - 1)) + w[Len(w)]
<1> DEFINE front == SubSeq(w, 1, Len(w) - 1)
<1>1. front \in Seq(Nat) /\ w[Len(w)] \in Nat /\ w = Append(front, w[Len(w)])
  BY FrontLast
<1> HIDE DEF front
<1>2. SumOf(Append(front, w[Len(w)])) = SumOf(front) + w[Len(w)]
  BY <1>1, SumAppend
<1> QED
  BY <1>1, <1>2 DEF front

LEMMA SumNat == \A w \in Seq(Nat) : SumOf(w) \in Nat
<1> DEFINE T == {n \in Nat : \A w \in Seq(Nat) : Len(w) = n => SumOf(w) \in Nat}
<1>1. 0 \in T
  BY SumEmpty
<1>2. ASSUME NEW n \in T PROVE n + 1 \in T
  <2> SUFFICES ASSUME NEW w \in Seq(Nat), Len(w) = n + 1 PROVE SumOf(w) \in Nat
    OBVIOUS
  <2>1. w # <<>>
    OBVIOUS
  <2> DEFINE front == SubSeq(w, 1, Len(w) - 1)
  <2>2. front \in Seq(Nat) /\ Len(front) = n /\ w[Len(w)] \in Nat
    BY <2>1, FrontLast
  <2>3. SumOf(w) = SumOf(front) + w[Len(w)]
    BY <2>1, SumFrontLast
  <2> HIDE DEF front
  <2>4. SumOf(front) \in Nat
    BY <2>2
  <2> QED
    BY <2>2, <2>3, <2>4
<1> HIDE DEF T
<1>3. T \in SUBSET Nat
  BY DEF T
<1>4. \A n \in Nat : n \in T
  BY <1>1, <1>2, <1>3, NatSetInduction
<1> QED
  BY <1>4 DEF T

LEMMA AddBounds ==
  ASSUME NEW a \in Nat, NEW b \in Nat, NEW c \in Nat, NEW x \in Nat, NEW y \in Nat, NEW z \in Nat,
         a <= b + c, x <= y + z
  PROVE  a + x <= (b + y) + (c + z)
OBVIOUS

LEMMA AddSwap ==
  ASSUME NEW a \in Nat, NEW b \in Nat, NEW c \in Nat
  PROVE  (a + b) + c = (a + c) + b
OBVIOUS

\* A sequence that two others bound, entry by entry.
Bounded(u, v, w) ==
  Len(v) = Len(u) /\ Len(w) = Len(u) /\ \A i \in 1..Len(u) : u[i] <= v[i] + w[i]

LEMMA SumBound ==
  \A u, v, w \in Seq(Nat) : Bounded(u, v, w) => SumOf(u) <= SumOf(v) + SumOf(w)
<1> DEFINE T == {n \in Nat : \A u, v, w \in Seq(Nat) :
                   Len(u) = n /\ Bounded(u, v, w) => SumOf(u) <= SumOf(v) + SumOf(w)}
<1>1. 0 \in T
  <2> SUFFICES ASSUME NEW u \in Seq(Nat), NEW v \in Seq(Nat), NEW w \in Seq(Nat),
                      Len(u) = 0, Bounded(u, v, w)
               PROVE  SumOf(u) <= SumOf(v) + SumOf(w)
    OBVIOUS
  <2>1. u = <<>> /\ v = <<>> /\ w = <<>>
    BY DEF Bounded
  <2> QED
    BY <2>1, SumEmpty
<1>2. ASSUME NEW n \in T PROVE n + 1 \in T
  <2> SUFFICES ASSUME NEW u \in Seq(Nat), NEW v \in Seq(Nat), NEW w \in Seq(Nat),
                      Len(u) = n + 1, Bounded(u, v, w)
               PROVE  SumOf(u) <= SumOf(v) + SumOf(w)
    OBVIOUS
  <2> DEFINE front(s) == SubSeq(s, 1, Len(s) - 1)
  <2>1. n \in Nat /\ Len(v) = n + 1 /\ Len(w) = n + 1
    BY DEF Bounded
  <2>2. u # <<>> /\ v # <<>> /\ w # <<>>
    BY <2>1
  <2>3. /\ front(u) \in Seq(Nat) /\ Len(front(u)) = n /\ u[n + 1] \in Nat
        /\ \A i \in 1..n : front(u)[i] = u[i]
    BY <2>1, <2>2, FrontLast
  <2>4. /\ front(v) \in Seq(Nat) /\ Len(front(v)) = n /\ v[n + 1] \in Nat
        /\ \A i \in 1..n : front(v)[i] = v[i]
    BY <2>1, <2>2, FrontLast
  <2>5. /\ front(w) \in Seq(Nat) /\ Len(front(w)) = n /\ w[n + 1] \in Nat
        /\ \A i \in 1..n : front(w)[i] = w[i]
    BY <2>1, <2>2, FrontLast
  <2>6. /\ SumOf(u) = SumOf(front(u)) + u[n + 1]
        /\ SumOf(v) = SumOf(front(v)) + v[n + 1]
        /\ SumOf(w) = SumOf(front(w)) + w[n + 1]
    BY <2>1, <2>2, SumFrontLast
  <2> HIDE DEF front
  <2>7. Bounded(front(u), front(v), front(w)) /\ u[n + 1] <= v[n + 1] + w[n + 1]
    BY <2>1, <2>3, <2>4, <2>5 DEF Bounded
  <2>8. SumOf(front(u)) <= SumOf(front(v)) + SumOf(front(w))
    BY <2>3, <2>4, <2>5, <2>7
  <2>9. SumOf(front(u)) \in Nat /\ SumOf(front(v)) \in Nat /\ SumOf(front(w)) \in Nat
    BY <2>3, <2>4, <2>5, SumNat
  <2>10. u[n + 1] \in Nat /\ v[n + 1] \in Nat /\ w[n + 1] \in Nat
    BY <2>3, <2>4, <2>5
  <2>11. SumOf(front(u)) + u[n + 1] <= (SumOf(front(v)) + v[n + 1]) + (SumOf(front(w)) + w[n + 1])
    BY <2>7, <2>8, <2>9, <2>10, AddBounds
  <2> QED
    BY <2>6, <2>11
<1> HIDE DEF T
<1>3. T \in SUBSET Nat
  BY DEF T
<1>4. \A n \in Nat : n \in T
  BY <1>1, <1>2, <1>3, NatSetInduction
<1> QED
  BY <1>4 DEF T

\* A sequence without its entry j.
Without(w, j) == [i \in 1..(Len(w) - 1) |-> IF i < j THEN w[i] ELSE w[i + 1]]

LEMMA WithoutIs ==
  ASSUME NEW S, NEW w \in Seq(S), NEW j \in 1..Len(w)
  PROVE  /\ Without(w, j) \in Seq(S) /\ Len(Without(w, j)) = Len(w) - 1
         /\ \A i \in 1..(Len(w) - 1) : Without(w, j)[i] = IF i < j THEN w[i] ELSE w[i + 1]
BY DEF Without

LEMMA SumWithout ==
  \A w \in Seq(Nat) : \A j \in 1..Len(w) : SumOf(w) = SumOf(Without(w, j)) + w[j]
<1> DEFINE T == {n \in Nat : \A w \in Seq(Nat) : Len(w) = n =>
                   \A j \in 1..Len(w) : SumOf(w) = SumOf(Without(w, j)) + w[j]}
<1>1. 0 \in T
  OBVIOUS
<1>2. ASSUME NEW n \in T PROVE n + 1 \in T
  <2> SUFFICES ASSUME NEW w \in Seq(Nat), Len(w) = n + 1, NEW j \in 1..(n + 1)
               PROVE  SumOf(w) = SumOf(Without(w, j)) + w[j]
    OBVIOUS
  <2> DEFINE f == SubSeq(w, 1, Len(w) - 1)
             v == Without(w, j)
  <2>1. n \in Nat /\ w # <<>>
    OBVIOUS
  <2>2. /\ f \in Seq(Nat) /\ Len(f) = n /\ w[n + 1] \in Nat
        /\ \A i \in 1..n : f[i] = w[i]
    BY <2>1, FrontLast
  <2>3. SumOf(w) = SumOf(f) + w[n + 1] /\ SumOf(f) \in Nat
    BY <2>1, <2>2, SumFrontLast, SumNat
  <2>4. /\ v \in Seq(Nat) /\ Len(v) = n
        /\ \A i \in 1..n : v[i] = IF i < j THEN w[i] ELSE w[i + 1]
    <3>1. j \in 1..Len(w) /\ Len(w) - 1 = n
      BY <2>1
    <3> QED
      BY <3>1, WithoutIs
  <2>5. \A k \in 1..n : SumOf(f) = SumOf(Without(f, k)) + f[k]
    BY <2>2
  <2> HIDE DEF f, v, T
  <2>6. CASE j = n + 1
    <3>1. v = f
      BY <2>1, <2>2, <2>4, <2>6, SequencesEqual
    <3> QED
      BY <2>3, <2>6, <3>1 DEF v
  <2>7. CASE j \in 1..n
    <3> DEFINE g == SubSeq(v, 1, Len(v) - 1)
    <3>1. v # <<>> /\ n - 1 \in Nat
      BY <2>1, <2>4, <2>7
    <3>2. /\ g \in Seq(Nat) /\ Len(g) = n - 1 /\ \A i \in 1..(n - 1) : g[i] = v[i]
      BY <2>4, <3>1, FrontLast
    <3>3. SumOf(v) = SumOf(g) + v[n] /\ SumOf(g) \in Nat
      BY <2>4, <3>1, <3>2, SumFrontLast, SumNat
    <3> HIDE DEF g
    <3>4. /\ Without(f, j) \in Seq(Nat) /\ Len(Without(f, j)) = n - 1
          /\ \A i \in 1..(n - 1) : Without(f, j)[i] = IF i < j THEN f[i] ELSE f[i + 1]
      BY <2>2, <2>7, WithoutIs
    <3>5. ASSUME NEW i \in 1..(n - 1) PROVE g[i] = Without(f, j)[i]
      <4>1. i \in 1..n /\ i + 1 \in 1..n
        BY <2>1
      <4>2. g[i] = IF i < j THEN w[i] ELSE w[i + 1]
        BY <2>4, <3>2, <4>1
      <4>3. Without(f, j)[i] = IF i < j THEN w[i] ELSE w[i + 1]
        BY <2>2, <3>4, <4>1
      <4> QED
        BY <4>2, <4>3
    <3>6. g = Without(f, j)
      BY <3>2, <3>4, <3>5, SequencesEqual
    <3>7. v[n] = w[n + 1]
      BY <2>1, <2>4, <2>7
    <3>8. f[j] = w[j] /\ w[j] \in Nat
      BY <2>1, <2>2, <2>7
    <3>9. SumOf(f) = SumOf(g) + w[j]
      BY <2>5, <2>7, <3>6, <3>8
    <3>10. SumOf(v) \in Nat /\ v[n] \in Nat
      BY <2>2, <2>4, <3>7, SumNat
    <3>11. SumOf(w) = (SumOf(g) + w[j]) + v[n] /\ SumOf(v) = SumOf(g) + v[n]
      BY <2>3, <3>3, <3>7, <3>9
    <3>12. SumOf(w) = SumOf(v) + w[j]
      <4>1. (SumOf(g) + w[j]) + v[n] = (SumOf(g) + v[n]) + w[j]
        BY <3>3, <3>8, <3>10, AddSwap
      <4> QED
        BY <3>11, <4>1
    <3> QED
      BY <3>12 DEF v
  <2> QED
    BY <2>1, <2>6, <2>7
<1> HIDE DEF T
<1>3. T \in SUBSET Nat
  BY DEF T
<1>4. \A n \in Nat : n \in T
  BY <1>1, <1>2, <1>3, NatSetInduction
<1> QED
  BY <1>4 DEF T

\* The entries of w that o selects, each at most once.
Select(w, o) == [k \in DOMAIN o |-> w[o[k]]]

Injective(o, n) ==
  /\ o \in Seq(Nat)
  /\ \A k \in 1..Len(o) : o[k] \in 1..n
  /\ \A k, l \in 1..Len(o) : o[k] = o[l] => k = l

LEMMA SelectIs ==
  \A w \in Seq(Nat) : \A o : Injective(o, Len(w)) =>
    /\ Select(w, o) \in Seq(Nat) /\ Len(Select(w, o)) = Len(o) /\ Len(o) \in Nat
    /\ \A k \in 1..Len(o) : o[k] \in 1..Len(w) /\ Select(w, o)[k] = w[o[k]]
<1> SUFFICES ASSUME NEW w \in Seq(Nat), NEW o, Injective(o, Len(w))
             PROVE  /\ Select(w, o) \in Seq(Nat) /\ Len(Select(w, o)) = Len(o) /\ Len(o) \in Nat
                    /\ \A k \in 1..Len(o) : o[k] \in 1..Len(w) /\ Select(w, o)[k] = w[o[k]]
  OBVIOUS
<1>1. Len(o) \in Nat /\ DOMAIN o = 1..Len(o) /\ \A k \in 1..Len(o) : o[k] \in 1..Len(w)
  BY DEF Injective
<1>2. \A k \in 1..Len(o) : w[o[k]] \in Nat
  BY <1>1
<1> QED
  BY <1>1, <1>2 DEF Select

LEMMA SumSelect ==
  \A w \in Seq(Nat) : \A o : Injective(o, Len(w)) => SumOf(Select(w, o)) <= SumOf(w)
<1> DEFINE T == {n \in Nat : \A w \in Seq(Nat) : \A o :
                   Len(w) = n /\ Injective(o, n) => SumOf(Select(w, o)) <= SumOf(w)}
<1>1. 0 \in T
  <2> SUFFICES ASSUME NEW w \in Seq(Nat), NEW o, Len(w) = 0, Injective(o, 0)
               PROVE  SumOf(Select(w, o)) <= SumOf(w)
    OBVIOUS
  <2>1. w = <<>>
    OBVIOUS
  <2>2. o = <<>>
    <3>1. o \in Seq(Nat) /\ \A k \in 1..Len(o) : o[k] \in 1..0
      BY DEF Injective
    <3>2. Len(o) = 0
      BY <3>1
    <3> QED
      BY <3>1, <3>2
  <2>3. Select(w, o) = <<>>
    BY <2>2 DEF Select
  <2> QED
    BY <2>1, <2>3, SumEmpty
<1>2. ASSUME NEW n \in T PROVE n + 1 \in T
  <2> SUFFICES ASSUME NEW w \in Seq(Nat), NEW o, Len(w) = n + 1, Injective(o, n + 1)
               PROVE  SumOf(Select(w, o)) <= SumOf(w)
    OBVIOUS
  <2> DEFINE f == SubSeq(w, 1, Len(w) - 1)
             v == Select(w, o)
  <2>1. n \in Nat /\ w # <<>>
    OBVIOUS
  <2>2. /\ f \in Seq(Nat) /\ Len(f) = n /\ w[n + 1] \in Nat
        /\ \A i \in 1..n : f[i] = w[i]
    BY <2>1, FrontLast
  <2>3. SumOf(w) = SumOf(f) + w[n + 1] /\ SumOf(f) \in Nat
    BY <2>1, <2>2, SumFrontLast, SumNat
  <2>4. /\ v \in Seq(Nat) /\ Len(v) = Len(o) /\ Len(o) \in Nat
        /\ \A k \in 1..Len(o) : o[k] \in 1..(n + 1) /\ v[k] = w[o[k]]
    <3>1. /\ v \in Seq(Nat) /\ Len(v) = Len(o) /\ Len(o) \in Nat
          /\ \A k \in 1..Len(o) : o[k] \in 1..Len(w) /\ v[k] = w[o[k]]
      BY SelectIs
    <3> QED
      BY <3>1
  <2>5. \A r : Injective(r, n) => SumOf(Select(f, r)) <= SumOf(f)
    BY <2>2
  <2> HIDE DEF f, v, T
  <2>6. CASE \A k \in 1..Len(o) : o[k] # n + 1
    <3>1. Injective(o, n)
      <4>1. \A k \in 1..Len(o) : o[k] \in 1..n
        BY <2>1, <2>4, <2>6
      <4> QED
        BY <4>1 DEF Injective
    <3>2. /\ Select(f, o) \in Seq(Nat) /\ Len(Select(f, o)) = Len(o)
          /\ \A k \in 1..Len(o) : o[k] \in 1..n /\ Select(f, o)[k] = f[o[k]]
      <4>1. f \in Seq(Nat) /\ Injective(o, Len(f))
        BY <2>2, <3>1, Zenon
      <4>2. /\ Select(f, o) \in Seq(Nat) /\ Len(Select(f, o)) = Len(o)
            /\ \A k \in 1..Len(o) : o[k] \in 1..Len(f) /\ Select(f, o)[k] = f[o[k]]
        BY <4>1, SelectIs, ZenonT(60)
      <4> QED
        BY <2>2, <4>2, Zenon
    <3>3. \A k \in 1..Len(o) : Select(f, o)[k] = v[k]
      BY <2>2, <2>4, <3>2
    <3>4. v = Select(f, o)
      BY <2>4, <3>2, <3>3, SequencesEqual
    <3>5. SumOf(v) <= SumOf(f) /\ SumOf(v) \in Nat
      BY <2>4, <2>5, <3>1, <3>4, SumNat
    <3> QED
      BY <2>2, <2>3, <3>5 DEF v
  <2>7. ASSUME NEW j \in 1..Len(o), o[j] = n + 1
        PROVE  SumOf(v) <= SumOf(w)
    <3> DEFINE r == Without(o, j)
               u == Without(v, j)
    <3>1. /\ r \in Seq(Nat) /\ Len(r) = Len(o) - 1
          /\ \A i \in 1..(Len(o) - 1) : r[i] = IF i < j THEN o[i] ELSE o[i + 1]
      BY WithoutIs DEF Injective
    <3>2. /\ u \in Seq(Nat) /\ Len(u) = Len(o) - 1
          /\ \A i \in 1..(Len(o) - 1) : u[i] = IF i < j THEN v[i] ELSE v[i + 1]
      BY <2>4, WithoutIs
    <3>3. SumOf(v) = SumOf(u) + v[j]
      BY <2>4, SumWithout
    <3> HIDE DEF r, u
    <3>4. \A i \in 1..(Len(o) - 1) : i \in 1..Len(o) /\ i + 1 \in 1..Len(o)
      BY <2>4
    <3>5. ASSUME NEW i \in 1..Len(r) PROVE r[i] \in 1..n
      <4> DEFINE m == IF i < j THEN i ELSE i + 1
      <4>1. r[i] = o[m] /\ m \in 1..Len(o) /\ m # j
        <5>1. i \in 1..(Len(o) - 1) /\ i \in Int /\ j \in Int
          BY <2>4, <3>1
        <5> QED
          BY <3>1, <3>4, <5>1
      <4> HIDE DEF m
      <4>2. o[m] \in 1..(n + 1) /\ o[m] # n + 1
        BY <2>4, <2>7, <4>1 DEF Injective
      <4> QED
        BY <2>1, <4>1, <4>2
    <3>6. ASSUME NEW k \in 1..Len(r), NEW l \in 1..Len(r), r[k] = r[l] PROVE k = l
      <4> DEFINE m(i) == IF i < j THEN i ELSE i + 1
      <4>1. r[k] = o[m(k)] /\ m(k) \in 1..Len(o)
        BY <2>4, <3>1, <3>4
      <4>2. r[l] = o[m(l)] /\ m(l) \in 1..Len(o)
        BY <2>4, <3>1, <3>4
      <4>3. m(k) = m(l)
        BY <3>6, <4>1, <4>2 DEF Injective
      <4>4. k \in Int /\ l \in Int /\ j \in Int
        BY <2>4, <3>1
      <4> QED
        BY <4>3, <4>4
    <3>7. Injective(r, n)
      BY <3>1, <3>5, <3>6 DEF Injective
    <3>8. /\ Select(f, r) \in Seq(Nat) /\ Len(Select(f, r)) = Len(r)
          /\ \A k \in 1..Len(r) : r[k] \in 1..n /\ Select(f, r)[k] = f[r[k]]
      <4>1. f \in Seq(Nat) /\ Injective(r, Len(f))
        BY <2>2, <3>7, Zenon
      <4>2. /\ Select(f, r) \in Seq(Nat) /\ Len(Select(f, r)) = Len(r)
            /\ \A k \in 1..Len(r) : r[k] \in 1..Len(f) /\ Select(f, r)[k] = f[r[k]]
        BY <4>1, SelectIs, ZenonT(60)
      <4> QED
        BY <2>2, <4>2, Zenon
    <3>9. ASSUME NEW k \in 1..Len(r) PROVE u[k] = Select(f, r)[k]
      <4>1. Select(f, r)[k] = w[r[k]]
        BY <2>2, <3>8
      <4> DEFINE m == IF k < j THEN k ELSE k + 1
      <4>2. r[k] = o[m] /\ u[k] = v[m] /\ m \in 1..Len(o)
        BY <2>4, <3>1, <3>2, <3>4
      <4> HIDE DEF m
      <4> QED
        BY <2>4, <4>1, <4>2
    <3>10. u = Select(f, r)
      BY <3>1, <3>2, <3>8, <3>9, SequencesEqual
    <3>11. SumOf(u) <= SumOf(f) /\ SumOf(u) \in Nat
      BY <2>5, <3>2, <3>7, <3>10, SumNat
    <3>12. v[j] = w[n + 1]
      BY <2>4, <2>7
    <3> QED
      BY <2>2, <2>3, <3>3, <3>11, <3>12
  <2> QED
    BY <2>6, <2>7 DEF v
<1> HIDE DEF T
<1>3. T \in SUBSET Nat
  BY DEF T
<1>4. \A n \in Nat : n \in T
  BY <1>1, <1>2, <1>3, NatSetInduction
<1> QED
  BY <1>4 DEF T

-----------------------------------------------------------------------------
(***************************************************************************)
(* Records and stores.                                                     *)
(***************************************************************************)
CommonSize(r)   == IF IsHwErr(r) THEN 0 ELSE VarSize(r)
HwErrSizeOf(r)  == IF IsHwErr(r) THEN VarSize(r) ELSE 0
CommonSizes(s)  == [i \in DOMAIN s |-> CommonSize(s[i])]
HwErrSizes(s)   == [i \in DOMAIN s |-> HwErrSizeOf(s[i])]
WalkSizes(s)    == [i \in DOMAIN s |-> WalkSize(s[i])]

LEMMA RecordFields ==
  ASSUME NEW r \in Record
  PROVE  /\ r.name \in Names \cup {Garbled} /\ r.attr \in Attributes /\ r.value \in Data
         /\ r.state \in States /\ r.whole \in BOOLEAN
BY DEF Record

LEMMA StateChanged ==
  ASSUME NEW r \in Record, NEW state \in States
  PROVE  LET q == [r EXCEPT !.state = state]
         IN  /\ q \in Record /\ q.state = state
             /\ q.name = r.name /\ q.attr = r.attr /\ q.value = r.value /\ q.whole = r.whole
BY DEF Record

LEMMA EntryIn ==
  ASSUME NEW S, NEW s \in Seq(S)
  PROVE  Len(s) \in Nat /\ DOMAIN s = 1..Len(s) /\ \A i \in 1..Len(s) : s[i] \in S
OBVIOUS

LEMMA SizeNat ==
  ASSUME NEW r, r.value \in Data
  PROVE  /\ VarSize(r) \in Nat /\ WalkSize(r) \in Nat
         /\ CommonSize(r) \in Nat /\ HwErrSizeOf(r) \in Nat
         /\ HeaderSize \in Nat /\ HeaderSize <= VarSize(r)
         /\ WalkSize(r) <= CommonSize(r) + HwErrSizeOf(r)
<1>1. HeaderSize \in Nat /\ Length[r.value] \in Nat
  BY StoreAssumption
<1> QED
  BY <1>1 DEF VarSize, WalkSize, CommonSize, HwErrSizeOf

LEMMA SizesAre ==
  ASSUME NEW s \in Seq(Record)
  PROVE  /\ CommonSizes(s) \in Seq(Nat) /\ Len(CommonSizes(s)) = Len(s)
         /\ \A i \in 1..Len(s) : CommonSizes(s)[i] = CommonSize(s[i])
         /\ HwErrSizes(s) \in Seq(Nat) /\ Len(HwErrSizes(s)) = Len(s)
         /\ \A i \in 1..Len(s) : HwErrSizes(s)[i] = HwErrSizeOf(s[i])
         /\ WalkSizes(s) \in Seq(Nat) /\ Len(WalkSizes(s)) = Len(s)
         /\ \A i \in 1..Len(s) : WalkSizes(s)[i] = WalkSize(s[i])
         /\ CommonSum(s) = SumOf(CommonSizes(s)) /\ HwErrSum(s) = SumOf(HwErrSizes(s))
         /\ Used(s) = SumOf(WalkSizes(s))
<1>1. DOMAIN s = 1..Len(s) /\ Len(s) \in Nat /\ \A i \in 1..Len(s) : s[i].value \in Data
  BY EntryIn, RecordFields
<1>2. \A i \in 1..Len(s) : CommonSize(s[i]) \in Nat /\ HwErrSizeOf(s[i]) \in Nat /\ WalkSize(s[i]) \in Nat
  BY <1>1, SizeNat
<1>3. CommonSizes(s) = [i \in 1..Len(s) |-> CommonSize(s[i])]
  BY <1>1 DEF CommonSizes
<1>4. HwErrSizes(s) = [i \in 1..Len(s) |-> HwErrSizeOf(s[i])]
  BY <1>1 DEF HwErrSizes
<1>5. WalkSizes(s) = [i \in 1..Len(s) |-> WalkSize(s[i])]
  BY <1>1 DEF WalkSizes
<1>6. /\ CommonSum(s) = SumOf(CommonSizes(s)) /\ HwErrSum(s) = SumOf(HwErrSizes(s))
      /\ Used(s) = SumOf(WalkSizes(s))
  BY DEF CommonSum, HwErrSum, Used, CommonSizes, HwErrSizes, WalkSizes, CommonSize, HwErrSizeOf
<1> QED
  BY <1>1, <1>2, <1>3, <1>4, <1>5, <1>6

\* The sums depend on names, attributes and values only.
SameSizes(s, t) ==
  Len(s) = Len(t) /\ \A i \in 1..Len(s) : s[i].attr = t[i].attr /\ s[i].value = t[i].value

LEMMA SumsSame ==
  ASSUME NEW s \in Seq(Record), NEW t \in Seq(Record), SameSizes(s, t)
  PROVE  CommonSum(s) = CommonSum(t) /\ HwErrSum(s) = HwErrSum(t)
<1>1. \A i \in 1..Len(s) : CommonSize(s[i]) = CommonSize(t[i]) /\ HwErrSizeOf(s[i]) = HwErrSizeOf(t[i])
  BY DEF SameSizes, CommonSize, HwErrSizeOf, VarSize, IsHwErr
<1>2. CommonSizes(s) = CommonSizes(t)
  <2>1. /\ CommonSizes(s) \in Seq(Nat) /\ Len(CommonSizes(s)) = Len(s)
        /\ \A i \in 1..Len(s) : CommonSizes(s)[i] = CommonSize(s[i])
    BY SizesAre
  <2>2. /\ CommonSizes(t) \in Seq(Nat) /\ Len(CommonSizes(t)) = Len(s)
        /\ \A i \in 1..Len(s) : CommonSizes(t)[i] = CommonSize(t[i])
    BY SizesAre DEF SameSizes
  <2> QED
    BY <1>1, <2>1, <2>2, SequencesEqual
<1>3. HwErrSizes(s) = HwErrSizes(t)
  <2>1. /\ HwErrSizes(s) \in Seq(Nat) /\ Len(HwErrSizes(s)) = Len(s)
        /\ \A i \in 1..Len(s) : HwErrSizes(s)[i] = HwErrSizeOf(s[i])
    BY SizesAre
  <2>2. /\ HwErrSizes(t) \in Seq(Nat) /\ Len(HwErrSizes(t)) = Len(s)
        /\ \A i \in 1..Len(s) : HwErrSizes(t)[i] = HwErrSizeOf(t[i])
    BY SizesAre DEF SameSizes
  <2> QED
    BY <1>1, <2>1, <2>2, SequencesEqual
<1> QED
  BY <1>2, <1>3, SizesAre

LEMMA SumsNat ==
  ASSUME NEW s \in Seq(Record)
  PROVE  /\ CommonSum(s) \in Nat /\ HwErrSum(s) \in Nat /\ Used(s) \in Nat
         /\ Used(s) <= CommonSum(s) + HwErrSum(s)
<1>1. CommonSum(s) \in Nat /\ HwErrSum(s) \in Nat /\ Used(s) \in Nat
  BY SizesAre, SumNat
<1>2. \A i \in 1..Len(s) : WalkSize(s[i]) <= CommonSize(s[i]) + HwErrSizeOf(s[i])
  <2>1. \A i \in 1..Len(s) : s[i].value \in Data
    BY EntryIn, RecordFields
  <2> QED
    BY <2>1, SizeNat
<1>3. Bounded(WalkSizes(s), CommonSizes(s), HwErrSizes(s))
  BY <1>2, SizesAre DEF Bounded
<1>4. Used(s) <= CommonSum(s) + HwErrSum(s)
  BY <1>3, SizesAre, SumBound
<1> QED
  BY <1>1, <1>4

LEMMA SumsAppend ==
  ASSUME NEW s \in Seq(Record), NEW r \in Record
  PROVE  /\ Append(s, r) \in Seq(Record)
         /\ CommonSum(Append(s, r)) = CommonSum(s) + CommonSize(r)
         /\ HwErrSum(Append(s, r)) = HwErrSum(s) + HwErrSizeOf(r)
<1> DEFINE t == Append(s, r)
<1>1. /\ t \in Seq(Record) /\ Len(t) = Len(s) + 1 /\ t[Len(s) + 1] = r /\ Len(s) \in Nat
      /\ \A i \in 1..Len(s) : t[i] = s[i]
  OBVIOUS
<1>2. r.value \in Data /\ CommonSize(r) \in Nat /\ HwErrSizeOf(r) \in Nat
  BY SizeNat DEF Record
<1> HIDE DEF t
<1>3. CommonSizes(t) = Append(CommonSizes(s), CommonSize(r))
  <2> DEFINE u == Append(CommonSizes(s), CommonSize(r))
  <2>1. /\ CommonSizes(t) \in Seq(Nat) /\ Len(CommonSizes(t)) = Len(s) + 1
        /\ \A i \in 1..(Len(s) + 1) : CommonSizes(t)[i] = CommonSize(t[i])
    BY <1>1, SizesAre
  <2>2. /\ CommonSizes(s) \in Seq(Nat) /\ Len(CommonSizes(s)) = Len(s)
        /\ \A i \in 1..Len(s) : CommonSizes(s)[i] = CommonSize(s[i])
    BY SizesAre
  <2>3. /\ u \in Seq(Nat) /\ Len(u) = Len(s) + 1 /\ u[Len(s) + 1] = CommonSize(r)
        /\ \A i \in 1..Len(s) : u[i] = CommonSizes(s)[i]
    BY <1>2, <2>2
  <2> HIDE DEF u
  <2>4. ASSUME NEW i \in 1..(Len(s) + 1) PROVE CommonSizes(t)[i] = u[i]
    <3>1. CASE i = Len(s) + 1
      BY <1>1, <2>1, <2>3, <3>1
    <3>2. CASE i \in 1..Len(s)
      BY <1>1, <2>1, <2>2, <2>3, <3>2
    <3> QED
      BY <1>1, <3>1, <3>2
  <2>5. CommonSizes(t) = u
    BY <2>1, <2>3, <2>4, SequencesEqual
  <2> QED
    BY <2>5 DEF u
<1>4. HwErrSizes(t) = Append(HwErrSizes(s), HwErrSizeOf(r))
  <2> DEFINE u == Append(HwErrSizes(s), HwErrSizeOf(r))
  <2>1. /\ HwErrSizes(t) \in Seq(Nat) /\ Len(HwErrSizes(t)) = Len(s) + 1
        /\ \A i \in 1..(Len(s) + 1) : HwErrSizes(t)[i] = HwErrSizeOf(t[i])
    BY <1>1, SizesAre
  <2>2. /\ HwErrSizes(s) \in Seq(Nat) /\ Len(HwErrSizes(s)) = Len(s)
        /\ \A i \in 1..Len(s) : HwErrSizes(s)[i] = HwErrSizeOf(s[i])
    BY SizesAre
  <2>3. /\ u \in Seq(Nat) /\ Len(u) = Len(s) + 1 /\ u[Len(s) + 1] = HwErrSizeOf(r)
        /\ \A i \in 1..Len(s) : u[i] = HwErrSizes(s)[i]
    BY <1>2, <2>2
  <2> HIDE DEF u
  <2>4. ASSUME NEW i \in 1..(Len(s) + 1) PROVE HwErrSizes(t)[i] = u[i]
    <3>1. CASE i = Len(s) + 1
      BY <1>1, <2>1, <2>3, <3>1
    <3>2. CASE i \in 1..Len(s)
      BY <1>1, <2>1, <2>2, <2>3, <3>2
    <3> QED
      BY <1>1, <3>1, <3>2
  <2>5. HwErrSizes(t) = u
    BY <2>1, <2>3, <2>4, SequencesEqual
  <2> QED
    BY <2>5 DEF u
<1>5. SumOf(CommonSizes(t)) = SumOf(CommonSizes(s)) + CommonSize(r)
  BY <1>2, <1>3, SizesAre, SumAppend
<1>6. SumOf(HwErrSizes(t)) = SumOf(HwErrSizes(s)) + HwErrSizeOf(r)
  BY <1>2, <1>4, SizesAre, SumAppend
<1>7. /\ CommonSum(s) = SumOf(CommonSizes(s)) /\ HwErrSum(s) = SumOf(HwErrSizes(s))
      /\ CommonSum(t) = SumOf(CommonSizes(t)) /\ HwErrSum(t) = SumOf(HwErrSizes(t))
  BY <1>1, SizesAre
<1> QED
  BY <1>1, <1>5, <1>6, <1>7 DEF t

\* Changing the state of a record.
LEMMA WithStateIs ==
  ASSUME NEW s \in Seq(Record), NEW i \in 1..Len(s), NEW state \in States
  PROVE  LET t == WithState(s, i, state)
         IN  /\ t \in Seq(Record) /\ Len(t) = Len(s)
             /\ \A k \in 1..Len(s) :
                  /\ t[k].name = s[k].name /\ t[k].attr = s[k].attr /\ t[k].value = s[k].value
                  /\ t[k].whole = s[k].whole
                  /\ t[k].state = IF k = i THEN state ELSE s[k].state
             /\ CommonSum(t) = CommonSum(s) /\ HwErrSum(t) = HwErrSum(s)
<1> DEFINE t == WithState(s, i, state)
<1>1. t = [s EXCEPT ![i].state = state] /\ DOMAIN s = 1..Len(s)
  BY DEF WithState
<1>2. s[i] \in Record /\ [s[i] EXCEPT !.state = state] \in Record
  BY EntryIn, StateChanged
<1>3. t = [s EXCEPT ![i] = [s[i] EXCEPT !.state = state]]
  BY <1>1
<1>4. /\ t \in Seq(Record) /\ Len(t) = Len(s)
      /\ \A k \in 1..Len(s) : t[k] = IF k = i THEN [s[i] EXCEPT !.state = state] ELSE s[k]
  BY <1>2, <1>3
<1> HIDE DEF t
<1>5. \A k \in 1..Len(s) :
         /\ t[k].name = s[k].name /\ t[k].attr = s[k].attr /\ t[k].value = s[k].value
         /\ t[k].whole = s[k].whole
         /\ t[k].state = IF k = i THEN state ELSE s[k].state
  <2> DEFINE q == [s[i] EXCEPT !.state = state]
  <2>1. /\ q.name = s[i].name /\ q.attr = s[i].attr /\ q.value = s[i].value /\ q.whole = s[i].whole
        /\ q.state = state
    BY <1>2, StateChanged
  <2>2. \A k \in 1..Len(s) : t[k] = IF k = i THEN q ELSE s[k]
    BY <1>4
  <2> HIDE DEF q
  <2> QED
    BY <2>1, <2>2
<1>6. CommonSum(t) = CommonSum(s) /\ HwErrSum(t) = HwErrSum(s)
  BY <1>4, <1>5, SumsSame DEF SameSizes
<1> QED
  BY <1>4, <1>5, <1>6 DEF t

LEMMA GreatestOr0Is ==
  ASSUME NEW n \in Nat, NEW T \in SUBSET (1..n)
  PROVE  /\ GreatestOr0(T) \in T \cup {0} /\ GreatestOr0(T) \in 0..n
         /\ GreatestOr0(T) = 0 <=> T = {}
<1>1. CASE T = {}
  BY <1>1 DEF GreatestOr0
<1>2. CASE T # {}
  <2>1. Greatest(T) \in T
    BY <1>2, GreatestExists
  <2>2. Greatest(T) \in 0..n /\ Greatest(T) # 0
    <3>1. \A i \in T : i \in 0..n /\ i # 0
      OBVIOUS
    <3> QED
      BY <2>1, <3>1
  <2>3. GreatestOr0(T) = Greatest(T)
    BY <1>2 DEF GreatestOr0
  <2> QED
    BY <1>2, <2>1, <2>2, <2>3
<1> QED
  BY <1>1, <1>2

\* What a search finds.
LEMMA FindAmongIs ==
  ASSUME NEW s \in Seq(Record), NEW M \in SUBSET (1..Len(s))
  PROVE  LET f == FindAmong(s, M)
         IN  /\ f = [curr |-> f.curr, inDel |-> f.inDel]
             /\ f.curr \in M \cup {0} /\ f.curr \in 0..Len(s)
             /\ f.inDel \in M \cup {0} /\ f.inDel \in 0..Len(s)
             /\ f.curr # 0 => Visible(s[f.curr])
             /\ f.inDel # 0 => f.curr # 0 /\ f.inDel # f.curr /\ Visible(s[f.inDel])
<1> DEFINE added      == {i \in M : s[i].state = "added"}
           transition == {i \in M : s[i].state = "transition"}
           f == FindAmong(s, M)
<1>1. added \in SUBSET (1..Len(s)) /\ transition \in SUBSET (1..Len(s)) /\ Len(s) \in Nat
  BY EntryIn
<1>2. CASE added # {}
  <2> DEFINE before == {i \in transition : i < Least(added)}
  <2>1. f = [curr |-> Least(added), inDel |-> GreatestOr0(before)]
    BY <1>2 DEF FindAmong
  <2>2. Least(added) \in added
    BY <1>1, <1>2, LeastExists
  <2>3. before \in SUBSET (1..Len(s))
    BY <1>1
  <2>4. GreatestOr0(before) \in before \cup {0} /\ GreatestOr0(before) \in 0..Len(s)
    BY <1>1, <2>3, GreatestOr0Is
  <2>5. f.curr = Least(added) /\ f.inDel = GreatestOr0(before)
    BY <2>1
  <2> QED
    BY <1>1, <2>1, <2>2, <2>4, <2>5 DEF Visible
<1>3. CASE added = {}
  <2>1. f = [curr |-> GreatestOr0(transition), inDel |-> 0]
    BY <1>3 DEF FindAmong
  <2>2. GreatestOr0(transition) \in transition \cup {0} /\ GreatestOr0(transition) \in 0..Len(s)
    BY <1>1, GreatestOr0Is
  <2>3. f.curr = GreatestOr0(transition) /\ f.inDel = 0
    BY <2>1
  <2> QED
    BY <1>1, <2>1, <2>2, <2>3 DEF Visible
<1> QED
  BY <1>2, <1>3

\* The orders in which a reclaim copies records.
LEMMA OrderIs ==
  ASSUME NEW s \in Seq(Record), NEW curr, NEW inDel, NEW order \in CopyOrders(s, curr, inDel)
  PROVE  LET copied == Kept(s, curr) \cup Promoted(s, curr, inDel)
         IN  /\ Injective(order, Len(s))
             /\ \A k \in 1..Len(order) : order[k] \in copied
             /\ \A i \in copied : \E k \in 1..Len(order) : order[k] = i
<1> DEFINE kept     == Kept(s, curr)
           promoted == Promoted(s, curr, inDel)
           n == Cardinality(kept \cup promoted)
<1>1. /\ order \in [1..n -> kept \cup promoted]
      /\ \A i \in kept \cup promoted : \E k \in DOMAIN order : order[k] = i
      /\ \A k, l \in DOMAIN order : k < l =>
           \/ order[k] \in kept /\ order[l] \in promoted
           \/ (order[k] \in kept <=> order[l] \in kept) /\ order[k] < order[l]
  BY DEF CopyOrders
<1>2. Len(s) \in Nat /\ DOMAIN s = 1..Len(s)
  BY EntryIn
<1>3. kept \subseteq 1..Len(s) /\ promoted \subseteq 1..Len(s) /\ kept \cap promoted = {}
  BY <1>2 DEF Kept, Promoted, InTransition
<1>4. n \in Nat
  <2>1. IsFiniteSet(1..Len(s))
    BY <1>2, FS_Interval
  <2>2. IsFiniteSet(kept \cup promoted)
    BY <1>3, <2>1, FS_Subset
  <2> QED
    BY <2>2, FS_CardinalityType
<1> HIDE DEF n, kept, promoted
<1>5. DOMAIN order = 1..n /\ \A k \in 1..n : order[k] \in kept \cup promoted /\ order[k] \in 1..Len(s)
  BY <1>1, <1>3
<1>6. order \in Seq(Nat) /\ Len(order) = n
  <2>1. \A k \in 1..n : order[k] \in Nat
    BY <1>2, <1>5
  <2>2. order \in [1..n -> Nat]
    BY <1>1, <1>5, <2>1
  <2> QED
    BY <1>4, <2>2
<1>7. ASSUME NEW k \in 1..n, NEW l \in 1..n, k < l PROVE order[k] # order[l]
  BY <1>1, <1>2, <1>3, <1>5, <1>7
<1>8. ASSUME NEW k \in 1..n, NEW l \in 1..n, order[k] = order[l] PROVE k = l
  <2>1. k < l \/ l < k \/ k = l
    BY <1>4
  <2> QED
    BY <1>7, <1>8, <2>1
<1>9. Injective(order, Len(s))
  BY <1>5, <1>6, <1>8 DEF Injective
<1> QED
  BY <1>1, <1>5, <1>6, <1>9 DEF kept, promoted

\* What is copied: records that can be found, as added ones; their sizes do not
\* add up to more than before.
LEMMA CopiedIs ==
  ASSUME NEW s \in Seq(Record), NEW curr, NEW inDel, NEW order \in CopyOrders(s, curr, inDel)
  PROVE  LET t == Copied(s, order)
         IN  /\ t \in Seq(Record) /\ Len(t) = Len(order)
             /\ \A k \in 1..Len(t) :
                  /\ order[k] \in 1..Len(s) /\ Visible(s[order[k]])
                  /\ t[k].name = s[order[k]].name /\ t[k].attr = s[order[k]].attr
                  /\ t[k].value = s[order[k]].value /\ t[k].whole = s[order[k]].whole
                  /\ t[k].state = "added"
             /\ CommonSum(t) <= CommonSum(s) /\ HwErrSum(t) <= HwErrSum(s)
<1> DEFINE t == Copied(s, order)
<1>1. /\ Injective(order, Len(s)) /\ order \in Seq(Nat)
      /\ \A k \in 1..Len(order) : order[k] \in Kept(s, curr) \cup Promoted(s, curr, inDel)
  BY OrderIs DEF Injective
<1>2. Len(order) \in Nat /\ DOMAIN order = 1..Len(order) /\ Len(s) \in Nat /\ DOMAIN s = 1..Len(s)
  BY <1>1, EntryIn
<1>3. \A k \in 1..Len(order) : order[k] \in 1..Len(s) /\ Visible(s[order[k]])
  BY <1>1, <1>2 DEF Kept, Promoted, InTransition, Visible
<1>4. t = [k \in 1..Len(order) |-> [s[order[k]] EXCEPT !.state = "added"]]
  BY <1>2 DEF Copied
<1>5. \A k \in 1..Len(order) :
        LET q == [s[order[k]] EXCEPT !.state = "added"]
            p == s[order[k]]
        IN  /\ q \in Record /\ q.state = "added"
            /\ q.name = p.name /\ q.attr = p.attr /\ q.value = p.value /\ q.whole = p.whole
  <2> SUFFICES ASSUME NEW k \in 1..Len(order)
               PROVE  LET q == [s[order[k]] EXCEPT !.state = "added"]
                          p == s[order[k]]
                      IN  /\ q \in Record /\ q.state = "added"
                          /\ q.name = p.name /\ q.attr = p.attr /\ q.value = p.value /\ q.whole = p.whole
    OBVIOUS
  <2>1. s[order[k]] \in Record /\ "added" \in States
    BY <1>3, EntryIn DEF States
  <2> QED
    BY <2>1, StateChanged
<1>6. t \in Seq(Record) /\ Len(t) = Len(order)
  <2>1. t \in [1..Len(order) -> Record]
    BY <1>4, <1>5
  <2> QED
    BY <1>2, <2>1
<1>7. \A k \in 1..Len(order) : t[k] = [s[order[k]] EXCEPT !.state = "added"]
  BY <1>4
<1> HIDE DEF t
<1>8. \A k \in 1..Len(order) :
        /\ t[k].name = s[order[k]].name /\ t[k].attr = s[order[k]].attr
        /\ t[k].value = s[order[k]].value /\ t[k].whole = s[order[k]].whole
        /\ t[k].state = "added"
  BY <1>5, <1>7
<1>9. CommonSum(t) <= CommonSum(s)
  <2>1. /\ Select(CommonSizes(s), order) \in Seq(Nat) /\ Len(Select(CommonSizes(s), order)) = Len(order)
        /\ \A k \in 1..Len(order) : Select(CommonSizes(s), order)[k] = CommonSizes(s)[order[k]]
    <3> DEFINE w == CommonSizes(s)
    <3>1. w \in Seq(Nat) /\ Len(w) = Len(s)
      BY SizesAre
    <3> HIDE DEF w
    <3>2. Injective(order, Len(w))
      BY <1>1, <3>1, Zenon
    <3>3. /\ Select(w, order) \in Seq(Nat) /\ Len(Select(w, order)) = Len(order)
          /\ \A k \in 1..Len(order) : Select(w, order)[k] = w[order[k]]
      BY <3>1, <3>2, SelectIs, ZenonT(60)
    <3> QED
      BY <3>3 DEF w
  <2>2. \A k \in 1..Len(order) : CommonSizes(t)[k] = CommonSize(t[k])
    BY <1>6, SizesAre
  <2>3. \A k \in 1..Len(order) : CommonSizes(s)[order[k]] = CommonSize(s[order[k]])
    BY <1>3, SizesAre
  <2>4. \A k \in 1..Len(order) : CommonSize(t[k]) = CommonSize(s[order[k]])
    BY <1>8 DEF CommonSize, VarSize, IsHwErr
  <2>5. CommonSizes(t) = Select(CommonSizes(s), order)
    <3>1. CommonSizes(t) \in Seq(Nat) /\ Len(CommonSizes(t)) = Len(order)
      BY <1>6, SizesAre
    <3>2. \A k \in 1..Len(order) : CommonSizes(t)[k] = Select(CommonSizes(s), order)[k]
      BY <2>1, <2>2, <2>3, <2>4
    <3> QED
      BY <2>1, <3>1, <3>2, SequencesEqual
  <2>6. SumOf(Select(CommonSizes(s), order)) <= SumOf(CommonSizes(s))
    <3>1. CommonSizes(s) \in Seq(Nat) /\ Len(CommonSizes(s)) = Len(s)
      BY SizesAre
    <3> QED
      BY <1>1, <3>1, SumSelect
  <2> QED
    BY <1>6, <2>5, <2>6, SizesAre
<1>10. HwErrSum(t) <= HwErrSum(s)
  <2>1. /\ Select(HwErrSizes(s), order) \in Seq(Nat) /\ Len(Select(HwErrSizes(s), order)) = Len(order)
        /\ \A k \in 1..Len(order) : Select(HwErrSizes(s), order)[k] = HwErrSizes(s)[order[k]]
    <3> DEFINE w == HwErrSizes(s)
    <3>1. w \in Seq(Nat) /\ Len(w) = Len(s)
      BY SizesAre
    <3> HIDE DEF w
    <3>2. Injective(order, Len(w))
      BY <1>1, <3>1, Zenon
    <3>3. /\ Select(w, order) \in Seq(Nat) /\ Len(Select(w, order)) = Len(order)
          /\ \A k \in 1..Len(order) : Select(w, order)[k] = w[order[k]]
      BY <3>1, <3>2, SelectIs, ZenonT(60)
    <3> QED
      BY <3>3 DEF w
  <2>2. \A k \in 1..Len(order) : HwErrSizes(t)[k] = HwErrSizeOf(t[k])
    BY <1>6, SizesAre
  <2>3. \A k \in 1..Len(order) : HwErrSizes(s)[order[k]] = HwErrSizeOf(s[order[k]])
    BY <1>3, SizesAre
  <2>4. \A k \in 1..Len(order) : HwErrSizeOf(t[k]) = HwErrSizeOf(s[order[k]])
    BY <1>8 DEF HwErrSizeOf, VarSize, IsHwErr
  <2>5. HwErrSizes(t) = Select(HwErrSizes(s), order)
    <3>1. HwErrSizes(t) \in Seq(Nat) /\ Len(HwErrSizes(t)) = Len(order)
      BY <1>6, SizesAre
    <3>2. \A k \in 1..Len(order) : HwErrSizes(t)[k] = Select(HwErrSizes(s), order)[k]
      BY <2>1, <2>2, <2>3, <2>4
    <3> QED
      BY <2>1, <3>1, <3>2, SequencesEqual
  <2>6. SumOf(Select(HwErrSizes(s), order)) <= SumOf(HwErrSizes(s))
    <3>1. HwErrSizes(s) \in Seq(Nat) /\ Len(HwErrSizes(s)) = Len(s)
      BY SizesAre
    <3> QED
      BY <1>1, <3>1, SumSelect
  <2> QED
    BY <1>6, <2>5, <2>6, SizesAre
<1> QED
  BY <1>3, <1>6, <1>8, <1>9, <1>10 DEF t

\* A reclaim keeps a record of every name that can be found, but for the records
\* of the update.
LEMMA ReclaimKeeps ==
  ASSUME NEW s \in Seq(Record), NEW curr, NEW inDel, NEW order \in CopyOrders(s, curr, inDel),
         NEW i \in 1..Len(s), Visible(s[i]), i # curr, i # inDel
  PROVE  \E k \in 1..Len(Copied(s, order)) : Copied(s, order)[k].name = s[i].name
<1>1. DOMAIN s = 1..Len(s) /\ Len(s) \in Nat
  BY EntryIn
<1>2. \E j \in Kept(s, curr) \cup Promoted(s, curr, inDel) : s[j].name = s[i].name
  <2>1. CASE s[i].state = "added"
    BY <1>1, <2>1 DEF Kept
  <2>2. CASE \E j \in Kept(s, curr) : s[j].name = s[i].name
    BY <2>2
  <2>3. CASE s[i].state = "transition" /\ \A j \in Kept(s, curr) : s[j].name # s[i].name
    <3> DEFINE R == {j \in InTransition(s, curr, inDel) : s[j].name = s[i].name}
    <3>1. i \in R
      BY <1>1, <2>3 DEF InTransition
    <3>2. R \in SUBSET Nat
      BY <1>1 DEF InTransition
    <3> HIDE DEF R
    <3>3. PICK j \in R : \A l \in R : j <= l
      BY <3>1, <3>2, SmallestNat
    <3>4. j \in InTransition(s, curr, inDel) /\ s[j].name = s[i].name /\ j \in Nat
      BY <3>2 DEF R
    <3>5. \A l \in InTransition(s, curr, inDel) : l < j => s[l].name # s[j].name
      <4> SUFFICES ASSUME NEW l \in InTransition(s, curr, inDel), l < j, s[l].name = s[j].name
                   PROVE  FALSE
        OBVIOUS
      <4>1. l \in R /\ l \in Nat
        BY <3>2, <3>4 DEF R
      <4> QED
        BY <3>3, <3>4, <4>1
    <3>6. j \in Promoted(s, curr, inDel)
      BY <2>3, <3>4, <3>5 DEF Promoted
    <3> QED
      BY <3>4, <3>6
  <2> QED
    BY <2>1, <2>2, <2>3 DEF Visible
<1>3. PICK j \in Kept(s, curr) \cup Promoted(s, curr, inDel) : s[j].name = s[i].name
  BY <1>2
<1>4. PICK k \in 1..Len(order) : order[k] = j
  BY OrderIs
<1>5. k \in 1..Len(Copied(s, order)) /\ Copied(s, order)[k].name = s[j].name
  BY <1>4, CopiedIs
<1> QED
  BY <1>3, <1>5

-----------------------------------------------------------------------------
(***************************************************************************)
(* The inductive invariant.  The copy in memory holds the records that are *)
(* complete; flash is the same but for the record being appended.  A call  *)
(* knows the records it works on by their positions, so the invariant says *)
(* what these still are at every point of the call.                        *)
(***************************************************************************)
\* The platforms the theorems are about: no flash access fails that leaves half
\* a record or a reclaimed store behind, and there is room behind the store.
CleanAppends ==
  client.faulty \cap {"state", "data", "added", "reclaim"} = {} /\ Beyond # 0

\* The contents of a store between calls.
GoodStore(s) ==
  /\ s \in Seq(Record)
  /\ \A i \in 1..Len(s) : "NV" \in s[i].attr /\ (Visible(s[i]) => s[i].whole)
  /\ CommonSum(s) <= Capacity - HwErrSize
  /\ HwErrSum(s) <= HwErrSize

Deleting  == {"delete transition", "delete"}
Writing   == {"state", "data", "added"}
Dropping  == {"drop transition", "drop"}
Pcs       == Deleting \cup {"mark", "place"} \cup Writing \cup Dropping
Appending == job # Idle /\ job.pc \in Writing

\* The record that a call at pc has written so far.
Pending(r, pc) ==
  [name |-> r.name, attr |-> r.attr, value |-> r.value,
   state |-> IF pc = "state" THEN "blank" ELSE "header", whole |-> (pc = "added")]

StoreOK ==
  /\ GoodStore(cache)
  /\ last = Len(cache)
  /\ flash = IF Appending THEN Append(cache, Pending(Request, job.pc)) ELSE cache
  /\ totals = [common |-> CommonSum(cache), hwErr |-> HwErrSum(cache)]
  /\ ftw = Ready

\* What job j knows of the records of s.
Progress(j, s) ==
  /\ j.curr \in 0..Len(s) /\ j.inDel \in 0..Len(s)
  /\ j.curr # 0 => s[j.curr].name = j.request.name
  /\ j.inDel # 0 => s[j.inDel].name = j.request.name /\ j.curr # 0 /\ j.inDel # j.curr
  /\ j.pc \in Deleting \cup {"mark"} \cup Dropping => j.curr # 0
  /\ j.pc \in {"delete transition", "drop transition"} => j.inDel # 0
  /\ j.pc \in {"delete transition", "mark"} => Visible(s[j.curr])
  /\ j.pc \notin Deleting => j.request.value \in Data /\ "NV" \in j.request.attr
  /\ j.pc \in Writing => HasRoom(j.request)
  /\ j.pc \in Dropping =>
       /\ j.curr < Len(s) /\ j.inDel < Len(s)
       /\ s[Len(s)].name = j.request.name /\ Visible(s[Len(s)])

JobOK ==
  job # Idle =>
    /\ job \in [pc : Pcs, request : client.requests, curr : Nat, inDel : Nat]
    /\ phase # "early"
    /\ Progress(job, cache)

RestOK ==
  /\ tail \in {"free", "junk"} /\ (tail = "junk" => phase = "early")
  /\ memory \in Seq(Record)
  /\ phase \in {"early", "dxe", "late", "ready", "runtime"}
  /\ status \in {"none", "success", "refused", "no room", "error"}
  /\ client \in Clients
  /\ calls \in 0..client.calls /\ boots \in 0..MaxBoots
  /\ losses \in 0..client.losses /\ errors \in 0..client.errors

IndInv == StoreOK /\ JobOK /\ RestOK /\ CleanAppends

-----------------------------------------------------------------------------
LEMMA ClientIs ==
  ASSUME client \in Clients
  PROVE  /\ client.requests \subseteq Requests /\ client.calls \in Nat /\ client.losses \in Nat
         /\ client.errors \in Nat
BY StoreAssumption

LEMMA RequestIs ==
  ASSUME NEW r \in Requests
  PROVE  /\ r.name \in Names /\ r.attr \in Attributes /\ r.value \in Data \cup {NoData}
         /\ ~IsDeletion(r) => r.value \in Data
<1>1. r \in [name : Names, attr : Attributes, value : Data \cup {NoData}]
  BY StoreAssumption
<1> QED
  BY <1>1 DEF IsDeletion

\* Records field by field.
Fields(name, attr, value, state, whole) ==
  [name |-> name, attr |-> attr, value |-> value, state |-> state, whole |-> whole]

PutState(q, state) == [q EXCEPT !.state = state]
PutWhole(q, whole) == [q EXCEPT !.whole = whole]

LEMMA FieldsState ==
  ASSUME NEW n, NEW a, NEW v, NEW x, NEW w, NEW y
  PROVE  PutState(Fields(n, a, v, x, w), y) = Fields(n, a, v, y, w)
BY DEF Fields, PutState

LEMMA FieldsWhole ==
  ASSUME NEW n, NEW a, NEW v, NEW x, NEW w, NEW y
  PROVE  PutWhole(Fields(n, a, v, x, w), y) = Fields(n, a, v, x, y)
BY DEF Fields, PutWhole

LEMMA FieldsWritten ==
  ASSUME NEW n, NEW a, NEW v
  PROVE  /\ PutState(Fields(n, a, v, "blank", FALSE), "added") = Fields(n, a, v, "added", FALSE)
         /\ PutWhole(Fields(n, a, v, "added", FALSE), TRUE) = Fields(n, a, v, "added", TRUE)
         /\ PutState(Fields(n, a, v, "blank", FALSE), "header") = Fields(n, a, v, "header", FALSE)
         /\ PutWhole(Fields(n, a, v, "header", FALSE), TRUE) = Fields(n, a, v, "header", TRUE)
         /\ PutState(Fields(n, a, v, "header", TRUE), "added") = Fields(n, a, v, "added", TRUE)
<1>1. PICK no : no = FALSE
  OBVIOUS
<1>2. PICK yes : yes = TRUE
  OBVIOUS
<1>3. /\ PutState(Fields(n, a, v, "blank", no), "added") = Fields(n, a, v, "added", no)
      /\ PutState(Fields(n, a, v, "blank", no), "header") = Fields(n, a, v, "header", no)
      /\ PutState(Fields(n, a, v, "header", yes), "added") = Fields(n, a, v, "added", yes)
  BY FieldsState
<1>4. /\ PutWhole(Fields(n, a, v, "added", no), yes) = Fields(n, a, v, "added", yes)
      /\ PutWhole(Fields(n, a, v, "header", no), yes) = Fields(n, a, v, "header", yes)
  BY FieldsWhole
<1> QED
  BY <1>1, <1>2, <1>3, <1>4

\* The records written for a request.
LEMMA NewIs ==
  ASSUME NEW r \in Requests, r.value \in Data
  PROVE  /\ NewRecord(r) \in Record /\ NewRecord(r) = Pending(r, "state")
         /\ Added(r) \in Record /\ Added(r).state = "added" /\ Added(r).whole = TRUE
         /\ Added(r).name = r.name /\ Added(r).attr = r.attr /\ Added(r).value = r.value
         /\ \A pc \in Writing :
              /\ Pending(r, pc) \in Record /\ ~Visible(Pending(r, pc))
              /\ Pending(r, pc).name = r.name /\ Pending(r, pc).attr = r.attr
              /\ Pending(r, pc).value = r.value
         /\ [Pending(r, "state") EXCEPT !.state = "header"] = Pending(r, "data")
         /\ [Pending(r, "data") EXCEPT !.whole = TRUE] = Pending(r, "added")
         /\ [Pending(r, "added") EXCEPT !.state = "added"] = Added(r)
<1>1. r.name \in Names /\ r.attr \in Attributes
  BY RequestIs
<1>2. NewRecord(r) = [name |-> r.name, attr |-> r.attr, value |-> r.value,
                      state |-> "blank", whole |-> FALSE]
  BY DEF NewRecord
<1> DEFINE F(x, w) == Fields(r.name, r.attr, r.value, x, w)
<1>3. NewRecord(r) = F("blank", FALSE)
  BY <1>2 DEF Fields
<1>4. Added(r) = F("added", TRUE)
  <2>1. Added(r) = PutWhole(PutState(NewRecord(r), "added"), TRUE)
    BY DEF Added, PutState, PutWhole
  <2>2. /\ PutState(F("blank", FALSE), "added") = F("added", FALSE)
        /\ PutWhole(F("added", FALSE), TRUE) = F("added", TRUE)
    BY FieldsWritten, Zenon
  <2> QED
    BY <1>3, <2>1, <2>2, Zenon
<1>5. /\ NewRecord(r) \in Record /\ Added(r) \in Record
      /\ \A pc \in Writing : Pending(r, pc) \in Record
  <2>1. NewRecord(r) \in Record
    BY <1>1, <1>2 DEF Record, States
  <2>2. Added(r) \in Record
    BY <1>1, <1>4 DEF Record, States, Fields
  <2>3. ASSUME NEW pc \in Writing PROVE Pending(r, pc) \in Record
    <3>1. (IF pc = "state" THEN "blank" ELSE "header") \in States /\ (pc = "added") \in BOOLEAN
      BY DEF States
    <3> QED
      BY <1>1, <3>1 DEF Record, Pending
  <2> QED
    BY <2>1, <2>2, <2>3
<1>6. /\ NewRecord(r) = Pending(r, "state")
      /\ [Pending(r, "state") EXCEPT !.state = "header"] = Pending(r, "data")
      /\ [Pending(r, "data") EXCEPT !.whole = TRUE] = Pending(r, "added")
      /\ [Pending(r, "added") EXCEPT !.state = "added"] = Added(r)
  <2>1. /\ Pending(r, "state") = F("blank", FALSE) /\ Pending(r, "data") = F("header", FALSE)
        /\ Pending(r, "added") = F("header", TRUE)
    BY DEF Pending, Fields
  <2>2. /\ PutState(Pending(r, "state"), "header") = Pending(r, "data")
        /\ PutWhole(Pending(r, "data"), TRUE) = Pending(r, "added")
        /\ PutState(Pending(r, "added"), "added") = Added(r)
    <3>1. /\ PutState(F("blank", FALSE), "header") = F("header", FALSE)
          /\ PutWhole(F("header", FALSE), TRUE) = F("header", TRUE)
          /\ PutState(F("header", TRUE), "added") = F("added", TRUE)
      BY FieldsWritten, Zenon
    <3> QED
      BY <1>4, <2>1, <3>1, Zenon
  <2> QED
    BY <1>3, <2>1, <2>2 DEF PutState, PutWhole
<1>7. \A pc \in Writing :
         /\ ~Visible(Pending(r, pc)) /\ Pending(r, pc).name = r.name
         /\ Pending(r, pc).attr = r.attr /\ Pending(r, pc).value = r.value
  BY DEF Visible, Pending
<1>8. /\ Added(r).state = "added" /\ Added(r).whole = TRUE
      /\ Added(r).name = r.name /\ Added(r).attr = r.attr /\ Added(r).value = r.value
  BY <1>4 DEF Fields
<1> QED
  BY <1>5, <1>6, <1>7, <1>8

PutAt(s, n, x) == [s EXCEPT ![n] = x]

LEMMA AppendIs ==
  ASSUME NEW S, NEW s \in Seq(S), NEW x \in S
  PROVE  /\ Append(s, x) \in Seq(S) /\ Len(Append(s, x)) = Len(s) + 1 /\ Len(s) \in Nat
         /\ Append(s, x)[Len(s) + 1] = x
         /\ \A i \in 1..Len(s) : Append(s, x)[i] = s[i]
         /\ \A y \in S : PutAt(Append(s, x), Len(s) + 1, y) = Append(s, y)
<1>1. /\ Append(s, x) \in Seq(S) /\ Len(Append(s, x)) = Len(s) + 1 /\ Len(s) \in Nat
      /\ Append(s, x)[Len(s) + 1] = x
      /\ \A i \in 1..Len(s) : Append(s, x)[i] = s[i]
  OBVIOUS
<1>2. ASSUME NEW y \in S PROVE PutAt(Append(s, x), Len(s) + 1, y) = Append(s, y)
  <2> DEFINE t == Append(s, x)
             u == Append(s, y)
  <2>1. DOMAIN t = 1..(Len(s) + 1)
    BY <1>1
  <2>2. /\ u \in Seq(S) /\ Len(u) = Len(s) + 1 /\ u[Len(s) + 1] = y
        /\ \A i \in 1..Len(s) : u[i] = s[i]
    OBVIOUS
  <2> HIDE DEF t, u
  <2>3. [t EXCEPT ![Len(s) + 1] = y] = [i \in 1..(Len(s) + 1) |-> IF i = Len(s) + 1 THEN y ELSE t[i]]
    BY <2>1
  <2>4. \A i \in 1..(Len(s) + 1) : i = Len(s) + 1 \/ i \in 1..Len(s)
    BY <1>1
  <2>5. \A i \in 1..(Len(s) + 1) : u[i] = IF i = Len(s) + 1 THEN y ELSE t[i]
    BY <1>1, <2>2, <2>4 DEF t
  <2>6. u = [i \in 1..(Len(s) + 1) |-> u[i]]
    BY <2>2
  <2> QED
    BY <2>3, <2>5, <2>6 DEF t, u, PutAt
<1> QED
  BY <1>1, <1>2

-----------------------------------------------------------------------------
(***************************************************************************)
(* Good stores.                                                            *)
(***************************************************************************)
LEMMA GoodState ==
  ASSUME NEW s, GoodStore(s), NEW i \in 1..Len(s), NEW state \in States,
         state = "deleted" \/ s[i].whole
  PROVE  GoodStore(WithState(s, i, state))
<1>1. s \in Seq(Record)
  BY DEF GoodStore
<1> DEFINE t == WithState(s, i, state)
<1>2. /\ t \in Seq(Record) /\ Len(t) = Len(s)
      /\ \A k \in 1..Len(s) :
           /\ t[k].attr = s[k].attr /\ t[k].whole = s[k].whole
           /\ t[k].state = IF k = i THEN state ELSE s[k].state
      /\ CommonSum(t) = CommonSum(s) /\ HwErrSum(t) = HwErrSum(s)
  BY <1>1, WithStateIs
<1> HIDE DEF t
<1> QED
  BY <1>2 DEF GoodStore, Visible, t

LEMMA GoodCopied ==
  ASSUME NEW s, GoodStore(s), NEW curr, NEW inDel, NEW order \in CopyOrders(s, curr, inDel)
  PROVE  GoodStore(Copied(s, order))
<1> DEFINE t == Copied(s, order)
<1>1. s \in Seq(Record)
  BY DEF GoodStore
<1>2. /\ t \in Seq(Record)
      /\ \A k \in 1..Len(t) :
           /\ order[k] \in 1..Len(s) /\ Visible(s[order[k]])
           /\ t[k].attr = s[order[k]].attr /\ t[k].whole = s[order[k]].whole
      /\ CommonSum(t) <= CommonSum(s) /\ HwErrSum(t) <= HwErrSum(s)
  BY <1>1, CopiedIs
<1>3. /\ CommonSum(t) \in Nat /\ HwErrSum(t) \in Nat /\ CommonSum(s) \in Nat /\ HwErrSum(s) \in Nat
      /\ Capacity \in Nat /\ HwErrSize \in Nat
  BY <1>1, <1>2, SumsNat, StoreAssumption
<1> HIDE DEF t
<1>4. \A k \in 1..Len(t) : "NV" \in t[k].attr /\ t[k].whole
  BY <1>2 DEF GoodStore
<1>5. CommonSum(t) <= Capacity - HwErrSize /\ HwErrSum(t) <= HwErrSize
  BY <1>2, <1>3 DEF GoodStore
<1> QED
  BY <1>2, <1>4, <1>5 DEF GoodStore, t

LEMMA GoodQuotas ==
  ASSUME NEW s, GoodStore(s), NEW r \in Requests, r.value \in Data, "NV" \in r.attr,
         QuotasHold(Append(s, Added(r)))
  PROVE  GoodStore(Append(s, Added(r)))
<1> DEFINE t == Append(s, Added(r))
<1>1. s \in Seq(Record) /\ Added(r) \in Record
  BY NewIs DEF GoodStore
<1>2. /\ t \in Seq(Record) /\ Len(t) = Len(s) + 1 /\ Len(s) \in Nat
      /\ t[Len(s) + 1] = Added(r) /\ \A i \in 1..Len(s) : t[i] = s[i]
  BY <1>1, AppendIs
<1>3. "NV" \in Added(r).attr /\ Added(r).whole
  BY NewIs
<1>4. CommonSum(t) <= Capacity - HwErrSize /\ HwErrSum(t) <= HwErrSize
  BY DEF QuotasHold
<1> HIDE DEF t
<1>5. \A i \in 1..Len(t) : i = Len(s) + 1 \/ i \in 1..Len(s)
  BY <1>2
<1> QED
  BY <1>2, <1>3, <1>4, <1>5 DEF GoodStore, t

\* A record for which the totals leave room.
LEMMA GoodAppend ==
  ASSUME NEW s, GoodStore(s), totals = [common |-> CommonSum(s), hwErr |-> HwErrSum(s)],
         NEW r \in Requests, r.value \in Data, "NV" \in r.attr, HasRoom(r),
         NEW q \in Record, q.attr = r.attr, q.value = r.value, Visible(q) => q.whole
  PROVE  GoodStore(Append(s, q))
<1> DEFINE t == Append(s, q)
<1>1. s \in Seq(Record)
  BY DEF GoodStore
<1>2. /\ t \in Seq(Record) /\ Len(t) = Len(s) + 1 /\ Len(s) \in Nat
      /\ t[Len(s) + 1] = q /\ \A i \in 1..Len(s) : t[i] = s[i]
  BY <1>1, AppendIs
<1>3. CommonSum(t) = CommonSum(s) + CommonSize(q) /\ HwErrSum(t) = HwErrSum(s) + HwErrSizeOf(q)
  BY <1>1, SumsAppend
<1>4. CommonSum(s) \in Nat /\ HwErrSum(s) \in Nat /\ VarSize(r) \in Nat /\ Capacity \in Nat /\ HwErrSize \in Nat
  BY <1>1, SumsNat, SizeNat, StoreAssumption
<1>5. /\ CommonSize(q) = IF IsHwErr(r) THEN 0 ELSE VarSize(r)
      /\ HwErrSizeOf(q) = IF IsHwErr(r) THEN VarSize(r) ELSE 0
  BY DEF CommonSize, HwErrSizeOf, VarSize, IsHwErr
<1>6. CommonSum(t) <= Capacity - HwErrSize /\ HwErrSum(t) <= HwErrSize
  BY <1>3, <1>4, <1>5 DEF HasRoom, GoodStore
<1> HIDE DEF t
<1>7. \A i \in 1..Len(t) : i = Len(s) + 1 \/ i \in 1..Len(s)
  BY <1>2
<1> QED
  BY <1>2, <1>6, <1>7 DEF GoodStore, t

\* Such a record fits behind the last one.
LEMMA Fits ==
  ASSUME StoreOK, NEW r \in Requests, r.value \in Data, HasRoom(r)
  PROVE  /\ Used(SubSeq(cache, 1, last)) + VarSize(r) <= Capacity
         /\ Beyond # 0 => ~Outside(VarSize(r)) /\ ~Outside(HeaderSize)
         /\ SubSeq(cache, 1, last) = cache
<1>1. cache \in Seq(Record) /\ last = Len(cache)
  BY DEF StoreOK, GoodStore
<1>2. SubSeq(cache, 1, last) = cache
  BY <1>1
<1>3. /\ CommonSum(cache) \in Nat /\ HwErrSum(cache) \in Nat /\ Used(cache) \in Nat
      /\ Used(cache) <= CommonSum(cache) + HwErrSum(cache)
  BY <1>1, SumsNat
<1>4. /\ VarSize(r) \in Nat /\ HeaderSize \in Nat /\ HeaderSize <= VarSize(r)
      /\ Capacity \in Nat /\ HwErrSize \in Nat /\ Beyond \in Nat
  BY SizeNat, StoreAssumption
<1>5. Used(cache) + VarSize(r) <= Capacity
  BY <1>3, <1>4 DEF StoreOK, GoodStore, HasRoom
<1>6. ASSUME Beyond # 0 PROVE ~Outside(VarSize(r)) /\ ~Outside(HeaderSize)
  <2> DEFINE u == Used(cache)
             v == VarSize(r)
  <2>1. /\ Outside(v) <=> u + v >= Capacity + Beyond
        /\ Outside(HeaderSize) <=> u + HeaderSize >= Capacity + Beyond
    BY <1>2 DEF Outside
  <2>2. u \in Nat /\ v \in Nat /\ u + v <= Capacity
    BY <1>3, <1>4, <1>5
  <2>3. HeaderSize <= v
    BY <1>4
  <2> HIDE DEF u, v
  <2>4. ~(u + v >= Capacity + Beyond) /\ ~(u + HeaderSize >= Capacity + Beyond)
    BY <1>4, <1>6, <2>2, <2>3
  <2> QED
    BY <2>1, <2>4 DEF v
<1> QED
  BY <1>2, <1>5, <1>6

-----------------------------------------------------------------------------
(***************************************************************************)
(* What a step leaves alone.                                               *)
(***************************************************************************)
LEMMA SumsEmpty == CommonSum(<<>>) = 0 /\ HwErrSum(<<>>) = 0
<1>1. <<>> \in Seq(Record) /\ Len(<<>>) = 0
  OBVIOUS
<1>2. /\ CommonSizes(<<>>) \in Seq(Nat) /\ Len(CommonSizes(<<>>)) = 0
      /\ HwErrSizes(<<>>) \in Seq(Nat) /\ Len(HwErrSizes(<<>>)) = 0
      /\ CommonSum(<<>>) = SumOf(CommonSizes(<<>>)) /\ HwErrSum(<<>>) = SumOf(HwErrSizes(<<>>))
  BY <1>1, SizesAre
<1>3. CommonSizes(<<>>) = <<>> /\ HwErrSizes(<<>>) = <<>>
  BY <1>2, EmptySeq
<1> QED
  BY <1>2, <1>3, SumEmpty

Jobs == [pc : Pcs, request : client.requests, curr : Nat, inDel : Nat]

LEMMA IdlePc == Idle.pc \notin Pcs
<1>1. Idle.pc = "idle"
  BY DEF Idle
<1>2. "idle" \notin Pcs
  BY DEF Pcs, Deleting, Writing, Dropping
<1> QED
  BY <1>1, <1>2

\* A call that is at pc is in progress.
LEMMA InProgress ==
  ASSUME IndInv, job.pc \in Pcs
  PROVE  /\ job # Idle /\ job \in Jobs /\ phase # "early" /\ tail = "free"
         /\ Progress(job, cache)
         /\ job.request \in Requests /\ job.curr \in Nat /\ job.inDel \in Nat
         /\ Appending <=> job.pc \in Writing
<1>1. job # Idle
  BY IdlePc
<1>2. job \in Jobs /\ phase # "early" /\ Progress(job, cache)
  BY <1>1 DEF IndInv, JobOK, Jobs
<1>3. tail = "free"
  BY <1>2 DEF IndInv, RestOK
<1>4. job.request \in client.requests /\ job.curr \in Nat /\ job.inDel \in Nat
  BY <1>2 DEF Jobs
<1>5. job.request \in Requests
  BY <1>4, ClientIs DEF IndInv, RestOK
<1> QED
  BY <1>1, <1>2, <1>3, <1>4, <1>5 DEF Appending

LEMMA Moved ==
  ASSUME job \in Jobs, NEW pc \in Pcs, Goto(pc)
  PROVE  /\ job' \in Jobs /\ job' # Idle /\ job'.pc = pc
         /\ job'.request = job.request /\ job'.curr = job.curr /\ job'.inDel = job.inDel
<1>1. job' = [job EXCEPT !.pc = pc]
  BY DEF Goto
<1>2. job' \in Jobs /\ job'.pc = pc
  BY <1>1 DEF Jobs
<1>3. job'.request = job.request /\ job'.curr = job.curr /\ job'.inDel = job.inDel
  BY <1>1 DEF Jobs
<1>4. job' # Idle
  BY <1>2, IdlePc
<1> QED
  BY <1>2, <1>3, <1>4

LEMMA Returned ==
  ASSUME job' = Idle
  PROVE  JobOK' /\ ~Appending'
BY DEF JobOK, Appending

LEMMA RestKept ==
  ASSUME RestOK, UNCHANGED <<memory, phase, client, counters>>, tail' \in {tail, "free"},
         status' \in {status, "none", "success", "refused", "no room", "error"}
  PROVE  RestOK'
BY DEF RestOK, counters

LEMMA Counted ==
  ASSUME RestOK, client' = client
  PROVE  /\ calls < client.calls /\ calls' = calls + 1 => calls' \in 0..client'.calls
         /\ losses < client.losses /\ losses' = losses + 1 => losses' \in 0..client'.losses
         /\ errors < client.errors /\ errors' = errors + 1 => errors' \in 0..client'.errors
         /\ boots < MaxBoots /\ boots' = boots + 1 => boots' \in 0..MaxBoots
<1> DEFINE c == client.calls
           l == client.losses
           e == client.errors
<1>1. c \in Nat /\ l \in Nat /\ e \in Nat /\ MaxBoots \in Nat
  BY ClientIs, StoreAssumption DEF RestOK
<1>2. calls \in 0..c /\ losses \in 0..l /\ errors \in 0..e /\ boots \in 0..MaxBoots
  BY DEF RestOK
<1>3. client'.calls = c /\ client'.losses = l /\ client'.errors = e
  OBVIOUS
<1> HIDE DEF c, l, e
<1>4. /\ calls < c /\ calls' = calls + 1 => calls' \in 0..c
      /\ losses < l /\ losses' = losses + 1 => losses' \in 0..l
      /\ errors < e /\ errors' = errors + 1 => errors' \in 0..e
      /\ boots < MaxBoots /\ boots' = boots + 1 => boots' \in 0..MaxBoots
  BY <1>1, <1>2
<1> QED
  BY <1>3, <1>4 DEF c, l, e

LEMMA CleanKept ==
  ASSUME CleanAppends, client' = client
  PROVE  CleanAppends'
BY DEF CleanAppends

LEMMA StoreKept ==
  ASSUME StoreOK, ~Appending, ~Appending', UNCHANGED <<flash, cache, last, totals, ftw>>
  PROVE  StoreOK'
BY DEF StoreOK, GoodStore

\* The records between calls and at the beginning of a boot.
LEMMA StoreIs ==
  ASSUME NEW s, GoodStore(s), ~Appending', ftw' = Ready, flash' = s, cache' = s, last' = Len(s),
         totals' = [common |-> CommonSum(s), hwErr |-> HwErrSum(s)]
  PROVE  StoreOK'
BY DEF StoreOK, GoodStore

\* Where no reclaim fails, the next boot finds what is in flash.
LEMMA NextBootIs == IndInv => NextBoot = flash
BY DEF IndInv, StoreOK, Ready, NextBoot

LEMMA NotAppending ==
  ASSUME StoreOK, ~Appending
  PROVE  flash = cache
BY DEF StoreOK

LEMMA FlashGood ==
  ASSUME IndInv
  PROVE  GoodStore(flash)
<1>1. CASE Appending
  <2>1. job.pc \in Writing /\ job.pc \in Pcs
    BY <1>1 DEF Appending, Pcs
  <2>2. /\ job.request \in Requests /\ job.request.value \in Data
        /\ "NV" \in job.request.attr /\ HasRoom(job.request)
    BY <2>1, InProgress DEF Progress, Writing, Deleting
  <2>3. /\ Pending(job.request, job.pc) \in Record /\ ~Visible(Pending(job.request, job.pc))
        /\ Pending(job.request, job.pc).attr = job.request.attr
        /\ Pending(job.request, job.pc).value = job.request.value
    BY <2>1, <2>2, NewIs
  <2>4. /\ flash = Append(cache, Pending(job.request, job.pc)) /\ GoodStore(cache)
        /\ totals = [common |-> CommonSum(cache), hwErr |-> HwErrSum(cache)]
    BY <1>1 DEF IndInv, StoreOK, Request
  <2> QED
    BY <2>2, <2>3, <2>4, GoodAppend
<1>2. CASE ~Appending
  BY <1>2 DEF IndInv, StoreOK
<1> QED
  BY <1>1, <1>2

-----------------------------------------------------------------------------
(***************************************************************************)
(* The steps.  First what a call finds.                                    *)
(***************************************************************************)
\* The positions found in a store, of records of this name.
LEMMA FindIs ==
  ASSUME NEW s \in Seq(Record), NEW n
  PROVE  LET f == FindVariableEx(s, n)
         IN  /\ f.curr \in 0..Len(s) /\ f.inDel \in 0..Len(s)
             /\ f.curr # 0 => s[f.curr].name = n /\ Visible(s[f.curr])
             /\ f.inDel # 0 => s[f.inDel].name = n /\ f.curr # 0 /\ f.inDel # f.curr
<1> DEFINE M == Named(s, n)
           f == FindAmong(s, M)
<1>1. M \in SUBSET (1..Len(s)) /\ \A i \in M : s[i].name = n
  BY EntryIn DEF Named
<1>2. FindVariableEx(s, n) = f
  BY DEF FindVariableEx
<1> HIDE DEF M
<1>3. /\ f.curr \in M \cup {0} /\ f.curr \in 0..Len(s)
      /\ f.inDel \in M \cup {0} /\ f.inDel \in 0..Len(s)
      /\ f.curr # 0 => Visible(s[f.curr])
      /\ f.inDel # 0 => f.curr # 0 /\ f.inDel # f.curr
  BY <1>1, FindAmongIs
<1> HIDE DEF f
<1> QED
  BY <1>1, <1>2, <1>3

LEMMA StartSetStep ==
  ASSUME IndInv, NEW r \in Requests, StartSet(r)
  PROVE  IndInv'
<1> DEFINE t == FindVariable(r.name)
<1>1. /\ job = Idle /\ calls < client.calls /\ calls' = calls + 1 /\ r \in client.requests
      /\ WriteReady \/ r.attr # {} \/ FindVariableEx(cache, r.name).curr = 0
      /\ UNCHANGED <<phase, client, boots, losses, errors>>
      /\ UNCHANGED <<store, memory>> /\ status' = "none"
      /\ ~Refused(r, t) /\ ~Repeated(r, t) /\ ~Volatile(r, t)
      /\ job' = [pc |-> StartPoint(r, t.found), request |-> r,
                 curr |-> t.found.curr, inDel |-> t.found.inDel]
  BY DEF StartSet, Calls
<1> DEFINE pc == StartPoint(r, t.found)
           curr == t.found.curr
           inDel == t.found.inDel
<1>2. cache \in Seq(Record) /\ \A i \in 1..Len(cache) : "NV" \in cache[i].attr
  BY DEF IndInv, StoreOK, GoodStore
<1>3. t.found = FindVariableEx(cache, r.name) /\ (curr # 0 => t.volatile = FALSE)
  <2>1. CASE FindVariableEx(memory, r.name).curr # 0
    <3>1. t = [found |-> FindVariableEx(memory, r.name), volatile |-> TRUE]
      BY <2>1 DEF FindVariable
    <3>2. t.found.curr # 0 /\ t.volatile = TRUE
      BY <2>1, <3>1
    <3> QED
      BY <1>1, <3>2 DEF Volatile
  <2>2. CASE FindVariableEx(memory, r.name).curr = 0
    <3>1. t = [found |-> FindVariableEx(cache, r.name), volatile |-> FALSE]
      BY <2>2 DEF FindVariable
    <3> QED
      BY <3>1
  <2> QED
    BY <2>1, <2>2
<1>4. /\ curr \in 0..Len(cache) /\ inDel \in 0..Len(cache)
      /\ curr # 0 => cache[curr].name = r.name /\ Visible(cache[curr])
      /\ inDel # 0 => cache[inDel].name = r.name /\ curr # 0 /\ inDel # curr
  BY <1>2, <1>3, FindIs
<1>5. curr # 0 => CurrPtr(t) = cache[curr] /\ "NV" \in CurrPtr(t).attr
  BY <1>2, <1>3, <1>4 DEF CurrPtr
<1>6. /\ curr # 0 => r.attr \in {{}, CurrPtr(t).attr}
      /\ "NV" \in r.attr => WriteReady
      /\ curr = 0 => ~IsDeletion(r)
  BY <1>1 DEF Refused
<1>7. curr = 0 => "NV" \in r.attr
  BY <1>1 DEF Volatile
<1>8. ~IsDeletion(r) => "NV" \in r.attr /\ r.value \in Data
  <2>1. SUFFICES ASSUME ~IsDeletion(r) PROVE "NV" \in r.attr /\ r.value \in Data
    OBVIOUS
  <2>2. r.attr # {} /\ r.value \in Data
    BY <2>1, RequestIs DEF IsDeletion
  <2> QED
    BY <1>5, <1>6, <1>7, <2>2
<1>9. WriteReady
  BY <1>1, <1>3, <1>5, <1>6, <1>7
<1>10. /\ pc \in Deleting \cup {"mark", "place"}
       /\ pc \in Deleting \cup {"mark"} => curr # 0
       /\ pc = "delete transition" => inDel # 0
       /\ pc \notin Deleting => ~IsDeletion(r)
  BY <1>6 DEF StartPoint, Deleting
<1> HIDE DEF pc, curr, inDel, t
<1>11. /\ job'.pc = pc /\ job'.request = r /\ job'.curr = curr /\ job'.inDel = inDel
       /\ job' = [pc |-> pc, request |-> r, curr |-> curr, inDel |-> inDel]
  BY <1>1 DEF pc, curr, inDel
<1>12. pc \in Pcs /\ pc \notin Writing /\ pc \notin Dropping
  BY <1>10 DEF Pcs, Deleting, Writing, Dropping
<1>13. job' \in [pc : Pcs, request : client'.requests, curr : Nat, inDel : Nat]
  BY <1>1, <1>2, <1>4, <1>11, <1>12, EntryIn
<1>14. JobOK'
  <2>1. /\ job'.curr \in 0..Len(cache) /\ job'.inDel \in 0..Len(cache)
        /\ job'.curr # 0 => cache[job'.curr].name = job'.request.name
        /\ job'.inDel # 0 => /\ cache[job'.inDel].name = job'.request.name
                             /\ job'.curr # 0 /\ job'.inDel # job'.curr
        /\ job'.pc \in Deleting \cup {"mark"} \cup Dropping => job'.curr # 0
        /\ job'.pc \in {"delete transition", "drop transition"} => job'.inDel # 0
    BY <1>4, <1>10, <1>11, <1>12 DEF Dropping
  <2>2. /\ job'.pc \in {"delete transition", "mark"} => Visible(cache[job'.curr])
        /\ job'.pc \notin Deleting => job'.request.value \in Data /\ "NV" \in job'.request.attr
        /\ job'.pc \notin Writing /\ job'.pc \notin Dropping
    BY <1>4, <1>8, <1>10, <1>11, <1>12 DEF Deleting
  <2>3. cache' = cache /\ phase' = phase
    BY <1>1 DEF store
  <2>4. Progress(job, cache)'
    BY <2>1, <2>2, <2>3 DEF Progress
  <2> QED
    BY <1>9, <1>13, <2>3, <2>4 DEF JobOK, WriteReady
<1>15. ~Appending /\ ~Appending'
  BY <1>1, <1>11, <1>12 DEF Appending
<1>16. StoreOK'
  BY <1>1, <1>15, StoreKept DEF IndInv, store
<1>17. RestOK'
  <2>1. calls' \in 0..client'.calls
    BY <1>1, Counted DEF IndInv
  <2> QED
    BY <1>1, <2>1 DEF IndInv, RestOK, store
<1> QED
  BY <1>1, <1>14, <1>16, <1>17, CleanKept DEF IndInv

LEMMA QuietSetStep ==
  ASSUME IndInv, NEW r \in Requests, RefuseSet(r) \/ RepeatSet(r)
  PROVE  IndInv'
<1>1. /\ job = Idle /\ job' = job /\ calls < client.calls /\ calls' = calls + 1
      /\ UNCHANGED <<phase, client, boots, losses, errors>>
      /\ UNCHANGED <<store, memory>> /\ status' \in {"refused", "success"}
  BY DEF RefuseSet, RepeatSet, Calls
<1>2. JobOK' /\ ~Appending' /\ ~Appending
  BY <1>1, Returned DEF Appending
<1>3. StoreOK'
  BY <1>1, <1>2, StoreKept DEF IndInv, store
<1>4. RestOK'
  <2>1. calls' \in 0..client'.calls
    BY <1>1, Counted DEF IndInv
  <2> QED
    BY <1>1, <2>1 DEF IndInv, RestOK, store
<1> QED
  BY <1>1, <1>2, <1>3, <1>4, CleanKept DEF IndInv

\* Volatile variables change memory only.
LEMMA MarkedIs ==
  ASSUME NEW s \in Seq(Record), NEW i \in 0..Len(s), NEW state \in States
  PROVE  WithState(s, i, state) \in Seq(Record) /\ Len(WithState(s, i, state)) = Len(s)
<1>1. CASE i = 0
  BY <1>1 DEF WithState
<1>2. CASE i # 0
  <2>1. i \in 1..Len(s)
    BY <1>2, EntryIn
  <2> QED
    BY <2>1, WithStateIs
<1> QED
  BY <1>1, <1>2

LEMMA SetVolatileStep ==
  ASSUME IndInv, NEW r \in Requests, SetVolatile(r)
  PROVE  IndInv'
<1> DEFINE t == FindVariable(r.name)
           curr == t.found.curr
           inDel == t.found.inDel
           marked == WithState(memory, curr, "transition")
<1>1. /\ job = Idle /\ job' = job /\ calls < client.calls /\ calls' = calls + 1
      /\ UNCHANGED <<phase, client, boots, losses, errors>> /\ UNCHANGED store
      /\ ~Refused(r, t) /\ Volatile(r, t)
      /\ IF IsDeletion(r) THEN DeleteVolatile(t.found)
         ELSE AppendVolatile(r, t.found) \/ ReclaimVolatile(r, t.found)
  BY DEF SetVolatile, Calls
<1>2. memory \in Seq(Record) /\ cache \in Seq(Record)
  BY DEF IndInv, RestOK, StoreOK, GoodStore
<1>3. curr \in 0..Len(memory) /\ inDel \in 0..Len(memory)
  <2>1. CASE FindVariableEx(memory, r.name).curr # 0
    <3>1. t = [found |-> FindVariableEx(memory, r.name), volatile |-> TRUE]
      BY <2>1 DEF FindVariable
    <3>2. t.found = FindVariableEx(memory, r.name)
      BY <3>1
    <3> QED
      BY <1>2, <3>2, FindIs
  <2>2. CASE FindVariableEx(memory, r.name).curr = 0
    <3>1. t = [found |-> FindVariableEx(cache, r.name), volatile |-> FALSE]
      BY <2>2 DEF FindVariable
    <3>2. t.found = FindVariableEx(cache, r.name) /\ t.volatile = FALSE
      BY <3>1
    <3>3. curr = 0
      BY <1>1, <3>2 DEF Volatile
    <3>4. inDel \in 0..Len(cache) /\ (inDel # 0 => curr # 0)
      BY <1>2, <3>2, FindIs
    <3> QED
      BY <1>2, <3>3, <3>4, EntryIn
  <2> QED
    BY <2>1, <2>2
<1>4. marked \in Seq(Record) /\ Len(marked) = Len(memory) /\ MarkedMemory(t.found) = marked
  <2>1. "transition" \in States
    BY DEF States
  <2> QED
    BY <1>2, <1>3, <2>1, MarkedIs DEF MarkedMemory
<1>5. "deleted" \in States
  BY DEF States
<1>6. ASSUME IsDeletion(r)
      PROVE  memory' \in Seq(Record) /\ status' \in {"success", "no room", "error"}
  <2> DEFINE u == WithState(memory, inDel, "deleted")
  <2>1. memory' = WithState(u, curr, "deleted") /\ status' = "success"
    BY <1>1, <1>6 DEF DeleteVolatile
  <2>2. u \in Seq(Record) /\ Len(u) = Len(memory)
    BY <1>2, <1>3, <1>5, MarkedIs
  <2> HIDE DEF u
  <2>3. memory' \in Seq(Record)
    BY <1>3, <1>5, <2>1, <2>2, MarkedIs
  <2> QED
    BY <2>1, <2>3
<1>7. ASSUME ~IsDeletion(r) PROVE Added(r) \in Record
  BY <1>7, RequestIs, NewIs
<1>8. ASSUME ~IsDeletion(r) /\ AppendVolatile(r, t.found)
      PROVE  memory' \in Seq(Record) /\ status' \in {"success", "no room", "error"}
  <2> DEFINE a == Append(memory, Added(r))
             u == WithState(a, inDel, "deleted")
  <2>1. a \in Seq(Record) /\ Len(a) = Len(memory) + 1 /\ Len(memory) \in Nat
    BY <1>2, <1>7, <1>8, AppendIs
  <2>2. curr \in 0..Len(a) /\ inDel \in 0..Len(a)
    BY <1>3, <2>1
  <2>3. /\ memory' = WithState(u, curr, "deleted") \/ memory' = marked
        /\ status' \in {"success", "error"}
    BY <1>4, <1>8 DEF AppendVolatile
  <2> HIDE DEF a
  <2>4. u \in Seq(Record) /\ Len(u) = Len(a)
    BY <1>5, <2>1, <2>2, MarkedIs
  <2> HIDE DEF u
  <2>5. WithState(u, curr, "deleted") \in Seq(Record)
    BY <1>5, <2>2, <2>4, MarkedIs
  <2> QED
    BY <1>4, <2>3, <2>5
<1>9. ASSUME ~IsDeletion(r) /\ ReclaimVolatile(r, t.found)
      PROVE  memory' \in Seq(Record) /\ status' \in {"success", "no room", "error"}
  <2>1. PICK order \in CopyOrders(marked, curr, inDel) :
          \/ memory' = Append(Copied(marked, order), Added(r)) /\ status' = "success"
          \/ memory' = marked /\ status' = "no room"
    BY <1>4, <1>9 DEF ReclaimVolatile
  <2>2. Copied(marked, order) \in Seq(Record)
    BY <1>4, CopiedIs
  <2>3. Append(Copied(marked, order), Added(r)) \in Seq(Record)
    BY <1>7, <1>9, <2>2, AppendIs
  <2> QED
    BY <1>4, <2>1, <2>3
<1>10. memory' \in Seq(Record) /\ status' \in {"success", "no room", "error"}
  BY <1>1, <1>6, <1>8, <1>9
<1>11. JobOK' /\ ~Appending' /\ ~Appending
  BY <1>1, Returned DEF Appending
<1>12. StoreOK'
  BY <1>1, <1>11, StoreKept DEF IndInv, store
<1>13. RestOK'
  <2>1. calls' \in 0..client'.calls
    BY <1>1, Counted DEF IndInv
  <2> QED
    BY <1>1, <1>10, <2>1 DEF IndInv, RestOK, store
<1> QED
  BY <1>1, <1>11, <1>12, <1>13, CleanKept DEF IndInv

\* Changing the state of a record, in flash and in the copy.
LEMMA SetStateIs ==
  ASSUME IndInv, ~Appending, ~Appending', NEW i \in 1..Len(cache), NEW state \in States,
         state = "deleted" \/ cache[i].whole, SetState(i, state), ftw' = ftw
  PROVE  /\ StoreOK' /\ cache \in Seq(Record)
         /\ flash = cache /\ flash' = cache' /\ cache' = WithState(cache, i, state)
         /\ cache' \in Seq(Record) /\ Len(cache') = Len(cache)
         /\ \A k \in 1..Len(cache) :
              /\ cache'[k].name = cache[k].name
              /\ cache'[k].state = IF k = i THEN state ELSE cache[k].state
<1>1. /\ cache \in Seq(Record) /\ GoodStore(cache) /\ flash = cache /\ last = Len(cache) /\ ftw = Ready
      /\ totals = [common |-> CommonSum(cache), hwErr |-> HwErrSum(cache)]
  BY DEF IndInv, StoreOK, GoodStore
<1>2. /\ flash' = cache' /\ cache' = WithState(cache, i, state)
      /\ last' = last /\ totals' = totals
  BY <1>1 DEF SetState
<1>3. /\ cache' \in Seq(Record) /\ Len(cache') = Len(cache)
      /\ \A k \in 1..Len(cache) :
           /\ cache'[k].name = cache[k].name
           /\ cache'[k].state = IF k = i THEN state ELSE cache[k].state
      /\ CommonSum(cache') = CommonSum(cache) /\ HwErrSum(cache') = HwErrSum(cache)
  <2> DEFINE t == WithState(cache, i, state)
  <2>1. /\ t \in Seq(Record) /\ Len(t) = Len(cache)
        /\ \A k \in 1..Len(cache) :
             t[k].name = cache[k].name /\ t[k].state = IF k = i THEN state ELSE cache[k].state
        /\ CommonSum(t) = CommonSum(cache) /\ HwErrSum(t) = HwErrSum(cache)
    BY <1>1, WithStateIs
  <2> HIDE DEF t
  <2>2. cache' = t
    BY <1>2 DEF t
  <2> QED
    BY <2>1, <2>2
<1>4. GoodStore(cache')
  BY <1>1, <1>2, GoodState
<1>5. StoreOK'
  BY <1>1, <1>2, <1>3, <1>4, StoreIs
<1> QED
  BY <1>1, <1>2, <1>3, <1>5

LEMMA Position ==
  ASSUME NEW n \in Nat, NEW k \in 0..n
  PROVE  /\ k # 0 => k \in 1..n
         /\ k # 0 /\ k < n => n \in 1..n
         /\ k < n => k # n
OBVIOUS

\* What remains true of a call that goes on after the state of record i changed.
LEMMA ProgressKept ==
  ASSUME Progress(job, cache), job'.request = job.request,
         job'.curr = job.curr, job'.inDel = job.inDel,
         cache' \in Seq(Record), Len(cache') = Len(cache),
         \A k \in 1..Len(cache) : cache'[k].name = cache[k].name,
         job'.pc \notin Writing,
         job'.pc \notin Deleting => job.pc \notin Deleting,
         job'.pc \in Deleting \cup {"mark"} \cup Dropping => job.pc \in Deleting \cup {"mark"} \cup Dropping,
         job'.pc \notin {"delete transition", "drop transition", "mark"},
         job'.pc \in Dropping => job.pc \in Dropping /\ Visible(cache'[Len(cache)])
  PROVE  Progress(job, cache)'
<1> DEFINE n == Len(cache)
<1>1. n \in Nat /\ Len(cache') = n
  BY EntryIn
<1>2. /\ job.curr \in 0..n /\ job.inDel \in 0..n
      /\ job.curr # 0 => cache[job.curr].name = job.request.name
      /\ job.inDel # 0 => cache[job.inDel].name = job.request.name /\ job.curr # 0 /\ job.inDel # job.curr
      /\ job.pc \in Deleting \cup {"mark"} \cup Dropping => job.curr # 0
      /\ job.pc \notin Deleting => job.request.value \in Data /\ "NV" \in job.request.attr
      /\ job.pc \in Dropping => job.curr < n /\ job.inDel < n /\ cache[n].name = job.request.name
  BY DEF Progress
<1> HIDE DEF n
<1>3. /\ job.curr # 0 => cache'[job.curr].name = job.request.name
      /\ job.inDel # 0 => cache'[job.inDel].name = job.request.name
      /\ job.curr # 0 /\ job.curr < n => n \in 1..n
      /\ n \in 1..n => cache'[n].name = cache[n].name
  <2>1. \A k \in 1..n : cache'[k].name = cache[k].name
    BY DEF n
  <2>2. /\ job.curr # 0 => job.curr \in 1..n
        /\ job.inDel # 0 => job.inDel \in 1..n
        /\ job.curr # 0 /\ job.curr < n => n \in 1..n
    BY <1>1, <1>2, Position
  <2> QED
    BY <1>2, <2>1, <2>2
<1>4. /\ job'.curr \in 0..Len(cache') /\ job'.inDel \in 0..Len(cache')
      /\ job'.curr # 0 => cache'[job'.curr].name = job'.request.name
      /\ job'.inDel # 0 => /\ cache'[job'.inDel].name = job'.request.name
                           /\ job'.curr # 0 /\ job'.inDel # job'.curr
  BY <1>1, <1>2, <1>3
<1>5. /\ job'.pc \in Deleting \cup {"mark"} \cup Dropping => job'.curr # 0
      /\ job'.pc \notin {"delete transition", "drop transition", "mark"} /\ job'.pc \notin Writing
      /\ job'.pc \notin Deleting => job'.request.value \in Data /\ "NV" \in job'.request.attr
  BY <1>2
<1>6. job'.pc \in Dropping =>
        /\ job'.curr < Len(cache') /\ job'.inDel < Len(cache')
        /\ cache'[Len(cache')].name = job'.request.name /\ Visible(cache'[Len(cache')])
  BY <1>1, <1>2, <1>3 DEF n
<1> QED
  BY <1>4, <1>5, <1>6 DEF Progress

LEMMA DeletingStep ==
  ASSUME IndInv, DeleteTransition \/ DeleteCurrent
  PROVE  IndInv'
<1>1. job.pc \in Deleting /\ job.pc \in Pcs /\ job.pc \notin Writing /\ Steps
  BY DEF DeleteTransition, DeleteCurrent, Deleting, Writing, Pcs
<1>2. /\ job # Idle /\ job \in Jobs /\ phase # "early" /\ tail = "free" /\ Progress(job, cache)
      /\ ~Appending
  BY <1>1, InProgress
<1>3. cache \in Seq(Record) /\ "deleted" \in States
  BY DEF IndInv, StoreOK, GoodStore, States
<1>4. /\ job.curr \in 1..Len(cache)
      /\ job.pc = "delete transition" => job.inDel \in 1..Len(cache)
  <2>1. /\ job.curr \in 0..Len(cache) /\ job.inDel \in 0..Len(cache) /\ job.curr # 0
        /\ job.pc = "delete transition" => job.inDel # 0
    BY <1>1, <1>2 DEF Progress
  <2>2. Len(cache) \in Nat
    BY <1>3, EntryIn
  <2> QED
    BY <2>1, <2>2, Position
<1>5. UNCHANGED <<ftw, memory, phase, client, counters>>
  BY <1>1 DEF Steps
<1>6. CASE DeleteTransition
  <2>1. job.pc = "delete transition" /\ SetState(job.inDel, "deleted") /\ Goto("delete")
    BY <1>6 DEF DeleteTransition
  <2>2. "delete" \in Pcs /\ "delete" \in Deleting /\ "delete" \notin Writing /\ "delete" \notin Dropping
    BY DEF Pcs, Deleting, Writing, Dropping
  <2>3. /\ job' \in Jobs /\ job' # Idle /\ job'.pc = "delete"
        /\ job'.request = job.request /\ job'.curr = job.curr /\ job'.inDel = job.inDel
    BY <1>2, <2>1, <2>2, Moved
  <2>4. ~Appending'
    BY <2>2, <2>3 DEF Appending
  <2>5. /\ StoreOK' /\ cache' \in Seq(Record) /\ Len(cache') = Len(cache)
        /\ \A k \in 1..Len(cache) : cache'[k].name = cache[k].name
    BY <1>2, <1>3, <1>4, <1>5, <2>1, <2>4, SetStateIs
  <2>6. Progress(job, cache)'
    BY <1>1, <1>2, <2>1, <2>2, <2>3, <2>5, ProgressKept
  <2>7. JobOK'
    BY <1>2, <1>5, <2>3, <2>6 DEF JobOK, Jobs
  <2>8. RestOK'
    BY <1>5, <2>1, RestKept DEF IndInv, Goto, SetState
  <2> QED
    BY <1>5, <2>5, <2>7, <2>8, CleanKept DEF IndInv
<1>7. CASE DeleteCurrent
  <2>1. SetState(job.curr, "deleted") /\ job' = Idle /\ status' = "success"
    BY <1>7 DEF DeleteCurrent, Return
  <2>2. JobOK' /\ ~Appending'
    BY <2>1, Returned
  <2>3. StoreOK'
    BY <1>2, <1>3, <1>4, <1>5, <2>1, <2>2, SetStateIs
  <2>4. RestOK'
    BY <1>5, <2>1, RestKept DEF IndInv, SetState
  <2> QED
    BY <1>5, <2>2, <2>3, <2>4, CleanKept DEF IndInv
<1> QED
  BY <1>6, <1>7

LEMMA MarkStep ==
  ASSUME IndInv, MarkCurrent
  PROVE  IndInv'
<1>1. /\ job.pc = "mark" /\ SetState(job.curr, "transition") /\ Goto("place")
      /\ UNCHANGED <<ftw, memory, phase, client, counters>>
  BY DEF MarkCurrent, Steps
<1>2. /\ job.pc \in Pcs /\ job.pc \notin Writing /\ job.pc \notin Deleting
      /\ "place" \in Pcs /\ "place" \notin Writing /\ "place" \notin Deleting /\ "place" \notin Dropping
  BY <1>1 DEF Deleting, Writing, Dropping, Pcs
<1>3. /\ job # Idle /\ job \in Jobs /\ phase # "early" /\ tail = "free" /\ Progress(job, cache)
      /\ ~Appending
  BY <1>2, InProgress
<1>4. GoodStore(cache) /\ cache \in Seq(Record) /\ "transition" \in States
  BY DEF IndInv, StoreOK, GoodStore, States
<1>5. job.curr \in 1..Len(cache) /\ Visible(cache[job.curr])
  BY <1>1, <1>3, <1>4, EntryIn DEF Progress
<1>6. cache[job.curr].whole
  BY <1>4, <1>5 DEF GoodStore
<1>7. /\ job' \in Jobs /\ job' # Idle /\ job'.pc = "place"
      /\ job'.request = job.request /\ job'.curr = job.curr /\ job'.inDel = job.inDel
  BY <1>1, <1>2, <1>3, Moved
<1>8. ~Appending'
  BY <1>2, <1>7 DEF Appending
<1>9. /\ StoreOK' /\ cache' \in Seq(Record) /\ Len(cache') = Len(cache)
      /\ \A k \in 1..Len(cache) : cache'[k].name = cache[k].name
  BY <1>1, <1>3, <1>4, <1>5, <1>6, <1>8, SetStateIs
<1>10. Progress(job, cache)'
  BY <1>1, <1>2, <1>3, <1>7, <1>9, ProgressKept
<1>11. JobOK'
  BY <1>1, <1>3, <1>7, <1>10 DEF JobOK, Jobs
<1>12. RestOK'
  BY <1>1, RestKept DEF IndInv, Goto, SetState
<1> QED
  BY <1>1, <1>9, <1>11, <1>12, CleanKept DEF IndInv

LEMMA DroppingStep ==
  ASSUME IndInv, DropTransition \/ DropCurrent
  PROVE  IndInv'
<1>1. job.pc \in Dropping /\ job.pc \in Pcs /\ job.pc \notin Writing /\ job.pc \notin Deleting /\ Steps
  BY DEF DropTransition, DropCurrent, Deleting, Writing, Dropping, Pcs
<1>2. /\ job # Idle /\ job \in Jobs /\ phase # "early" /\ tail = "free" /\ Progress(job, cache)
      /\ ~Appending
  BY <1>1, InProgress
<1>3. cache \in Seq(Record) /\ "deleted" \in States /\ Len(cache) \in Nat
  BY EntryIn DEF IndInv, StoreOK, GoodStore, States
<1>4. /\ job.curr \in 1..Len(cache) /\ job.curr < Len(cache) /\ Len(cache) \in 1..Len(cache)
      /\ job.pc = "drop transition" => job.inDel \in 1..Len(cache)
      /\ job.inDel # Len(cache) /\ Visible(cache[Len(cache)])
  <2>1. /\ job.curr \in 0..Len(cache) /\ job.inDel \in 0..Len(cache) /\ job.curr # 0
        /\ job.pc = "drop transition" => job.inDel # 0
        /\ job.curr < Len(cache) /\ job.inDel < Len(cache) /\ Visible(cache[Len(cache)])
    BY <1>1, <1>2 DEF Progress
  <2> QED
    BY <1>3, <2>1, Position
<1>5. UNCHANGED <<ftw, memory, phase, client, counters>>
  BY <1>1 DEF Steps
<1>6. CASE DropTransition
  <2>1. job.pc = "drop transition" /\ SetState(job.inDel, "deleted") /\ Goto("drop")
    BY <1>6 DEF DropTransition
  <2>2. "drop" \in Pcs /\ "drop" \in Dropping /\ "drop" \notin Writing /\ "drop" \notin Deleting
    BY DEF Pcs, Deleting, Writing, Dropping
  <2>3. /\ job' \in Jobs /\ job' # Idle /\ job'.pc = "drop"
        /\ job'.request = job.request /\ job'.curr = job.curr /\ job'.inDel = job.inDel
    BY <1>2, <2>1, <2>2, Moved
  <2>4. ~Appending'
    BY <2>2, <2>3 DEF Appending
  <2>5. job.inDel \in 1..Len(cache)
    BY <1>4, <2>1
  <2>6. /\ StoreOK' /\ cache' \in Seq(Record) /\ Len(cache') = Len(cache)
        /\ \A k \in 1..Len(cache) :
             /\ cache'[k].name = cache[k].name
             /\ cache'[k].state = IF k = job.inDel THEN "deleted" ELSE cache[k].state
    BY <1>2, <1>3, <1>5, <2>1, <2>4, <2>5, SetStateIs
  <2>7. Visible(cache'[Len(cache)])
    BY <1>4, <2>6 DEF Visible
  <2>8. Progress(job, cache)'
    BY <1>1, <1>2, <2>2, <2>3, <2>6, <2>7, ProgressKept
  <2>9. JobOK'
    BY <1>2, <1>5, <2>3, <2>8 DEF JobOK, Jobs
  <2>10. RestOK'
    BY <1>5, <2>1, RestKept DEF IndInv, Goto, SetState
  <2> QED
    BY <1>5, <2>6, <2>9, <2>10, CleanKept DEF IndInv
<1>7. CASE DropCurrent
  <2>1. SetState(job.curr, "deleted") /\ job' = Idle /\ status' = "success"
    BY <1>7 DEF DropCurrent, Return
  <2>2. JobOK' /\ ~Appending'
    BY <2>1, Returned
  <2>3. StoreOK'
    BY <1>2, <1>3, <1>4, <1>5, <2>1, <2>2, SetStateIs
  <2>4. RestOK'
    BY <1>5, <2>1, RestKept DEF IndInv, SetState
  <2> QED
    BY <1>5, <2>2, <2>3, <2>4, CleanKept DEF IndInv
<1> QED
  BY <1>6, <1>7

\* A call that returns without a change of the store.
LEMMA ReturnStep ==
  ASSUME IndInv, ~Appending, job' = Idle, status' \in {"no room", "error"},
         store' = store, memory' = memory, phase' = phase, client' = client,
         calls' = calls, boots' = boots, losses' = losses,
         errors' \in 0..client'.errors
  PROVE  IndInv'
<1>1. JobOK' /\ ~Appending'
  BY Returned
<1>2. StoreOK'
  BY <1>1, StoreKept DEF IndInv, store
<1>3. RestOK'
  BY DEF IndInv, RestOK, store
<1> QED
  BY <1>1, <1>2, <1>3, CleanKept DEF IndInv

LEMMA NoRoomStep ==
  ASSUME IndInv, NoRoomAtRuntime
  PROVE  IndInv'
<1>1. /\ job.pc = "place" /\ job' = Idle /\ status' = "no room"
      /\ UNCHANGED store /\ UNCHANGED <<memory, phase, client>>
      /\ UNCHANGED <<calls, boots, losses, errors>>
  BY DEF NoRoomAtRuntime, Return, Steps, counters
<1>2. ~Appending
  BY <1>1 DEF Appending, Writing
<1>3. /\ memory' = memory /\ phase' = phase /\ client' = client
      /\ calls' = calls /\ boots' = boots /\ losses' = losses /\ errors' = errors
  BY <1>1
<1>4. status' \in {"no room", "error"}
  BY <1>1
<1>5. errors' \in 0..client'.errors
  BY <1>3 DEF IndInv, RestOK
<1> QED
  BY <1>1, <1>2, <1>3, <1>4, <1>5, ReturnStep

LEMMA DeviceErrorStep ==
  ASSUME IndInv, DeviceError
  PROVE  IndInv'
<1>1. /\ job # Idle /\ errors < client.errors /\ errors' = errors + 1
      /\ job.pc = "place" \/ job.pc \in client.faulty
      /\ job' = Idle /\ status' = "error"
      /\ UNCHANGED store /\ UNCHANGED <<memory, phase, client, calls, boots, losses>>
  BY DEF DeviceError, Return
<1>2. ~Appending
  BY <1>1 DEF Appending, Writing, IndInv, CleanAppends
<1>3. errors' \in 0..client'.errors
  BY <1>1, Counted DEF IndInv
<1> QED
  BY <1>1, <1>2, <1>3, ReturnStep

LEMMA ReclaimNewStep ==
  ASSUME IndInv, ReclaimNew
  PROVE  IndInv'
<1>1. /\ job.pc = "place" /\ job' = Idle
      /\ UNCHANGED <<memory, phase, client, calls, boots, losses>>
  BY DEF ReclaimNew, Return
<1>2. job.pc \in Pcs /\ job.pc \notin Writing /\ job.pc \notin Deleting
  BY <1>1 DEF Pcs, Deleting, Writing
<1>3. /\ job # Idle /\ tail = "free" /\ ~Appending /\ job.request \in Requests
      /\ job.request.value \in Data /\ "NV" \in job.request.attr
  BY <1>2, InProgress DEF Progress
<1>4. JobOK' /\ ~Appending'
  BY <1>1, Returned
<1>5. flash = cache /\ GoodStore(flash)
  BY <1>3, FlashGood, NotAppending DEF IndInv
<1>6. PICK order \in CopyOrders(flash, job.curr, job.inDel) :
        LET new == Append(Copied(flash, order), Added(Request))
        IN  \/ status' = "no room"
               /\ cache' = flash /\ UNCHANGED <<flash, tail, last, totals, ftw, errors>>
            \/ QuotasHold(new) /\ status' = "success" /\ Reclaimed(new) /\ UNCHANGED errors
            \/ FtwFails(new)
  BY DEF ReclaimNew, Return
<1> DEFINE new == Append(Copied(flash, order), Added(job.request))
<1>7. CASE status' = "no room" /\ cache' = flash /\ UNCHANGED <<flash, tail, last, totals, ftw, errors>>
  <2>1. UNCHANGED store
    BY <1>5, <1>7 DEF store
  <2>2. errors' \in 0..client'.errors /\ status' = "no room"
    BY <1>1, <1>7 DEF IndInv, RestOK
  <2> QED
    BY <1>1, <1>3, <2>1, <2>2, ReturnStep
<1>8. CASE QuotasHold(new) /\ status' = "success" /\ Reclaimed(new) /\ UNCHANGED errors
  <2>1. GoodStore(Copied(flash, order))
    BY <1>5, GoodCopied
  <2>2. GoodStore(new)
    BY <1>3, <1>8, <2>1, GoodQuotas
  <2> HIDE DEF new
  <2>3. StoreOK'
    BY <1>4, <1>8, <2>2, StoreIs DEF Reclaimed
  <2>4. RestOK'
    BY <1>1, <1>8, RestKept DEF IndInv, Reclaimed, counters
  <2> QED
    BY <1>1, <1>4, <2>3, <2>4, CleanKept DEF IndInv
<1>9. ~FtwFails(new)
  BY DEF FtwFails, IndInv, StoreOK, CleanAppends
<1> QED
  BY <1>6, <1>7, <1>8, <1>9 DEF Request

LEMMA ReclaimAllIs ==
  ASSUME IndInv, job = Idle, job' = Idle, ReclaimAll
  PROVE  StoreOK' /\ tail' = "free" /\ errors' = errors
<1>1. PICK order \in CopyOrders(flash, 0, 0) :
        \/ Reclaimed(Copied(flash, order)) /\ UNCHANGED errors
        \/ FtwFails(Copied(flash, order))
  BY DEF ReclaimAll
<1> DEFINE new == Copied(flash, order)
<1>2. GoodStore(new)
  BY FlashGood, GoodCopied
<1> HIDE DEF new
<1>3. ~FtwFails(new)
  BY DEF FtwFails, IndInv, StoreOK, CleanAppends
<1>4. Reclaimed(new) /\ UNCHANGED errors
  BY <1>1, <1>3 DEF new
<1>5. ~Appending'
  BY Returned
<1> QED
  BY <1>2, <1>4, <1>5, StoreIs DEF Reclaimed

-----------------------------------------------------------------------------
(***************************************************************************)
(* The four writes of a new record.                                        *)
(***************************************************************************)
\* A call that appends, at place or at one of the writes.
LEMMA AppenderIs ==
  ASSUME IndInv, job.pc \in Writing \cup {"place"}, HasRoom(job.request)
  PROVE  /\ job \in Jobs /\ phase # "early" /\ tail = "free" /\ Progress(job, cache)
         /\ job.request \in Requests /\ job.request.value \in Data /\ "NV" \in job.request.attr
         /\ GoodStore(cache) /\ cache \in Seq(Record) /\ last = Len(cache) /\ Len(cache) \in Nat
         /\ totals = [common |-> CommonSum(cache), hwErr |-> HwErrSum(cache)]
         /\ SubSeq(cache, 1, last) = cache
         /\ ~Outside(VarSize(job.request)) /\ ~Outside(HeaderSize)
         /\ job.pc \in Writing => flash = Append(cache, Pending(job.request, job.pc))
         /\ job.pc = "place" => flash = cache
<1>1. job.pc \in Pcs /\ job.pc \notin Deleting /\ "place" \notin Writing
  BY DEF Pcs, Deleting, Writing
<1>2. /\ job \in Jobs /\ phase # "early" /\ tail = "free" /\ Progress(job, cache)
      /\ job.request \in Requests /\ (Appending <=> job.pc \in Writing)
  BY <1>1, InProgress
<1>3. job.request.value \in Data /\ "NV" \in job.request.attr
  BY <1>1, <1>2 DEF Progress
<1>4. /\ StoreOK /\ GoodStore(cache) /\ cache \in Seq(Record) /\ last = Len(cache)
      /\ totals = [common |-> CommonSum(cache), hwErr |-> HwErrSum(cache)]
      /\ flash = IF Appending THEN Append(cache, Pending(job.request, job.pc)) ELSE cache
  BY DEF IndInv, StoreOK, GoodStore, Request
<1>5. Beyond # 0
  BY DEF IndInv, CleanAppends
<1>6. /\ SubSeq(cache, 1, last) = cache
      /\ ~Outside(VarSize(job.request)) /\ ~Outside(HeaderSize)
  BY <1>2, <1>3, <1>4, <1>5, Fits
<1>7. Len(cache) \in Nat
  BY <1>4, EntryIn
<1> QED
  BY <1>1, <1>2, <1>3, <1>4, <1>6, <1>7

\* From one write to the next.
LEMMA NextWrite ==
  ASSUME IndInv, job.pc \in Writing \cup {"place"}, HasRoom(job.request),
         NEW pc \in Writing, Goto(pc), flash' = Append(cache, Pending(job.request, pc)),
         UNCHANGED <<cache, last, totals>>, tail' \in {tail, "free"}, Steps
  PROVE  IndInv'
<1>1. /\ job \in Jobs /\ phase # "early" /\ Progress(job, cache) /\ job.pc \notin Deleting
      /\ GoodStore(cache) /\ last = Len(cache)
      /\ totals = [common |-> CommonSum(cache), hwErr |-> HwErrSum(cache)]
  BY AppenderIs DEF Deleting, Writing
<1>2. pc \in Pcs /\ pc \notin Deleting /\ pc \notin Dropping /\ pc # "mark"
  BY DEF Pcs, Writing, Deleting, Dropping
<1>3. /\ job' \in Jobs /\ job' # Idle /\ job'.pc = pc
      /\ job'.request = job.request /\ job'.curr = job.curr /\ job'.inDel = job.inDel
  BY <1>1, <1>2, Moved
<1>4. UNCHANGED <<ftw, memory, phase, client, counters>> /\ status' = status
  BY DEF Steps, Goto
<1>5. Appending'
  BY <1>3 DEF Appending
<1>6. StoreOK'
  <2>1. Request' = job.request
    BY <1>3 DEF Request
  <2>2. flash' = Append(cache', Pending(Request', job'.pc))
    BY <1>3, <2>1
  <2>3. GoodStore(cache') /\ last' = Len(cache')
        /\ totals' = [common |-> CommonSum(cache'), hwErr |-> HwErrSum(cache')]
    BY <1>1
  <2>4. ftw' = Ready
    BY <1>4 DEF IndInv, StoreOK
  <2> QED
    BY <1>5, <2>2, <2>3, <2>4 DEF StoreOK, GoodStore
<1>7. Progress(job, cache)'
  <2>1. /\ job.curr \in 0..Len(cache) /\ job.inDel \in 0..Len(cache)
        /\ job.curr # 0 => cache[job.curr].name = job.request.name
        /\ job.inDel # 0 => /\ cache[job.inDel].name = job.request.name
                            /\ job.curr # 0 /\ job.inDel # job.curr
        /\ job.request.value \in Data /\ "NV" \in job.request.attr
    BY <1>1 DEF Progress
  <2>2. HasRoom(job.request)'
    BY <1>3 DEF HasRoom
  <2>3. cache' = cache /\ job'.pc \notin Deleting \cup {"mark"} \cup Dropping
    BY <1>2, <1>3
  <2>4. job'.pc \notin {"delete transition", "drop transition", "mark"}
    BY <2>3 DEF Deleting, Dropping
  <2> QED
    BY <1>3, <2>1, <2>2, <2>3, <2>4 DEF Progress
<1>8. JobOK'
  BY <1>1, <1>3, <1>4, <1>7 DEF JobOK, Jobs
<1>9. RestOK'
  BY <1>4, RestKept DEF IndInv
<1> QED
  BY <1>4, <1>6, <1>8, <1>9, CleanKept DEF IndInv

LEMMA WriteHeaderStep ==
  ASSUME IndInv, WriteHeader
  PROVE  IndInv'
<1>1. job.pc = "place" /\ HasRoom(job.request)
  BY DEF WriteHeader, Request
<1>2. /\ tail = "free" /\ last = Len(cache) /\ flash = cache /\ ~Outside(HeaderSize)
      /\ job.request \in Requests /\ job.request.value \in Data
  BY <1>1, AppenderIs
<1>3. /\ flash' = Append(cache, NewRecord(job.request)) /\ tail' = "free" /\ Goto("state")
      /\ UNCHANGED <<cache, last, totals>> /\ Steps
  BY <1>2 DEF WriteHeader, Request
<1>4. NewRecord(job.request) = Pending(job.request, "state")
  BY <1>2, NewIs
<1>5. "state" \in Writing /\ job.pc \in Writing \cup {"place"}
  BY <1>1 DEF Writing
<1>6. flash' = Append(cache, Pending(job.request, "state")) /\ tail' \in {tail, "free"}
  BY <1>3, <1>4
<1> QED
  BY <1>1, <1>3, <1>5, <1>6, NextWrite

\* Calls in the middle of the writes have room.
LEMMA WriterHasRoom ==
  ASSUME IndInv, job.pc \in Writing
  PROVE  HasRoom(job.request)
<1>1. job.pc \in Pcs
  BY DEF Pcs
<1> QED
  BY <1>1, InProgress DEF Progress

LEMMA WriteHeaderStateStep ==
  ASSUME IndInv, WriteHeaderState
  PROVE  IndInv'
<1>1. /\ job.pc = "state" /\ flash' = WithState(flash, last + 1, "header") /\ Goto("data")
      /\ UNCHANGED <<tail, cache, last, totals>> /\ Steps
  BY DEF WriteHeaderState
<1>2. job.pc \in Writing /\ "data" \in Writing
  BY <1>1 DEF Writing
<1>3. HasRoom(job.request)
  BY <1>2, WriterHasRoom
<1>4. /\ cache \in Seq(Record) /\ last = Len(cache) /\ Len(cache) \in Nat
      /\ job.request \in Requests /\ job.request.value \in Data
      /\ flash = Append(cache, Pending(job.request, "state"))
  BY <1>1, <1>2, <1>3, AppenderIs
<1>5. /\ Pending(job.request, "state") \in Record /\ Pending(job.request, "data") \in Record
      /\ [Pending(job.request, "state") EXCEPT !.state = "header"] = Pending(job.request, "data")
  BY <1>4, NewIs DEF Writing
<1>6. flash' = Append(cache, Pending(job.request, "data"))
  <2> DEFINE p == Pending(job.request, "state")
             q == Pending(job.request, "data")
             n == Len(cache) + 1
  <2>1. Append(cache, p)[n] = p /\ PutAt(Append(cache, p), n, q) = Append(cache, q)
    BY <1>4, <1>5, AppendIs
  <2>2. n # 0 /\ flash' = [flash EXCEPT ![n] = [flash[n] EXCEPT !.state = "header"]]
    BY <1>1, <1>4 DEF WithState
  <2>3. [p EXCEPT !.state = "header"] = q
    BY <1>5
  <2> HIDE DEF p, q, n
  <2> QED
    BY <1>4, <2>1, <2>2, <2>3 DEF p, q, PutAt
<1> QED
  BY <1>1, <1>2, <1>3, <1>6, NextWrite

LEMMA WriteDataStep ==
  ASSUME IndInv, WriteData
  PROVE  IndInv'
<1>1. job.pc = "data" /\ Steps
  BY DEF WriteData
<1>2. job.pc \in Writing /\ "added" \in Writing
  BY <1>1 DEF Writing
<1>3. HasRoom(job.request)
  BY <1>2, WriterHasRoom
<1>4. /\ cache \in Seq(Record) /\ last = Len(cache) /\ Len(cache) \in Nat
      /\ job.request \in Requests /\ job.request.value \in Data
      /\ flash = Append(cache, Pending(job.request, "data"))
      /\ ~Outside(VarSize(job.request))
  BY <1>1, <1>2, <1>3, AppenderIs
<1>5. /\ Pending(job.request, "data") \in Record /\ Pending(job.request, "added") \in Record
      /\ [Pending(job.request, "data") EXCEPT !.whole = TRUE] = Pending(job.request, "added")
  BY <1>4, NewIs DEF Writing
<1>6. /\ flash' = [flash EXCEPT ![last + 1].whole = TRUE] /\ Goto("added")
      /\ UNCHANGED <<tail, cache, last, totals>>
  BY <1>4 DEF WriteData, Request
<1>7. flash' = Append(cache, Pending(job.request, "added"))
  <2> DEFINE p == Pending(job.request, "data")
             q == Pending(job.request, "added")
             n == Len(cache) + 1
  <2>1. Append(cache, p)[n] = p /\ PutAt(Append(cache, p), n, q) = Append(cache, q)
    BY <1>4, <1>5, AppendIs
  <2>2. flash' = [flash EXCEPT ![n] = [flash[n] EXCEPT !.whole = TRUE]]
    BY <1>4, <1>6
  <2>3. [p EXCEPT !.whole = TRUE] = q
    BY <1>5
  <2> HIDE DEF p, q, n
  <2> QED
    BY <1>4, <2>1, <2>2, <2>3 DEF p, q, PutAt
<1> QED
  BY <1>1, <1>2, <1>3, <1>6, <1>7, NextWrite

LEMMA WriteAddedIs ==
  ASSUME IndInv, WriteAdded
  PROVE  /\ job.request \in Requests /\ flash = Append(cache, Pending(job.request, "added"))
         /\ flash' = cache' /\ cache' = Append(cache, Added(job.request))
         /\ GoodStore(cache') /\ cache' \in Seq(Record) /\ cache \in Seq(Record)
         /\ Len(cache') = Len(cache) + 1 /\ last' = Len(cache')
         /\ \A i \in 1..Len(cache) : cache'[i] = cache[i]
         /\ cache'[Len(cache')] = Added(job.request)
         /\ totals' = [common |-> CommonSum(cache'), hwErr |-> HwErrSum(cache')]
<1> DEFINE r == job.request
<1>1. /\ job.pc = "added" /\ flash' = WithState(flash, last + 1, "added") /\ last' = last + 1
      /\ cache' = Append(SubSeq(cache, 1, last), Added(r))
      /\ totals' = IF IsHwErr(r) THEN [totals EXCEPT !.hwErr = @ + VarSize(r)]
                   ELSE [totals EXCEPT !.common = @ + VarSize(r)]
  BY DEF WriteAdded, Request
<1>2. job.pc \in Writing
  BY <1>1 DEF Writing
<1>3. HasRoom(r)
  BY <1>2, WriterHasRoom
<1>4. /\ cache \in Seq(Record) /\ GoodStore(cache) /\ last = Len(cache) /\ Len(cache) \in Nat
      /\ r \in Requests /\ r.value \in Data /\ "NV" \in r.attr
      /\ flash = Append(cache, Pending(r, "added")) /\ SubSeq(cache, 1, last) = cache
      /\ totals = [common |-> CommonSum(cache), hwErr |-> HwErrSum(cache)]
  BY <1>1, <1>2, <1>3, AppenderIs
<1> HIDE DEF r
<1>5. /\ Pending(r, "added") \in Record /\ Added(r) \in Record
      /\ Added(r).attr = r.attr /\ Added(r).value = r.value /\ Added(r).whole = TRUE
      /\ [Pending(r, "added") EXCEPT !.state = "added"] = Added(r)
  BY <1>4, NewIs DEF Writing
<1>6. cache' = Append(cache, Added(r))
  BY <1>1, <1>4
<1>7. /\ Append(cache, Added(r)) \in Seq(Record) /\ Len(Append(cache, Added(r))) = Len(cache) + 1
      /\ Append(cache, Added(r))[Len(cache) + 1] = Added(r)
      /\ \A i \in 1..Len(cache) : Append(cache, Added(r))[i] = cache[i]
  BY <1>4, <1>5, AppendIs
<1>8. flash' = Append(cache, Added(r))
  <2> DEFINE p == Pending(r, "added")
             q == Added(r)
             n == Len(cache) + 1
  <2>1. Append(cache, p)[n] = p /\ PutAt(Append(cache, p), n, q) = Append(cache, q)
    BY <1>4, <1>5, AppendIs
  <2>2. n # 0 /\ flash' = [flash EXCEPT ![n] = [flash[n] EXCEPT !.state = "added"]]
    BY <1>1, <1>4 DEF WithState
  <2>3. [p EXCEPT !.state = "added"] = q
    BY <1>5
  <2> HIDE DEF p, q, n
  <2> QED
    BY <1>4, <2>1, <2>2, <2>3 DEF p, q, PutAt
<1>9. GoodStore(Append(cache, Added(r)))
  BY <1>3, <1>4, <1>5, GoodAppend
<1>10. totals' = [common |-> CommonSum(cache'), hwErr |-> HwErrSum(cache')]
  <2>1. /\ CommonSum(cache') = CommonSum(cache) + CommonSize(Added(r))
        /\ HwErrSum(cache') = HwErrSum(cache) + HwErrSizeOf(Added(r))
    BY <1>4, <1>5, <1>6, SumsAppend
  <2>2. /\ CommonSize(Added(r)) = IF IsHwErr(r) THEN 0 ELSE VarSize(r)
        /\ HwErrSizeOf(Added(r)) = IF IsHwErr(r) THEN VarSize(r) ELSE 0
    BY <1>5 DEF CommonSize, HwErrSizeOf, VarSize, IsHwErr
  <2>3. CommonSum(cache) \in Nat /\ HwErrSum(cache) \in Nat
    BY <1>4, SumsNat
  <2>4. CASE IsHwErr(r)
    <3>1. totals' = [totals EXCEPT !.hwErr = totals.hwErr + VarSize(r)]
      BY <1>1, <2>4
    <3>2. totals' = [common |-> CommonSum(cache), hwErr |-> HwErrSum(cache) + VarSize(r)]
      BY <1>4, <3>1
    <3> QED
      BY <2>1, <2>2, <2>3, <2>4, <3>2
  <2>5. CASE ~IsHwErr(r)
    <3>1. totals' = [totals EXCEPT !.common = totals.common + VarSize(r)]
      BY <1>1, <2>5
    <3>2. totals' = [common |-> CommonSum(cache) + VarSize(r), hwErr |-> HwErrSum(cache)]
      BY <1>4, <3>1
    <3> QED
      BY <2>1, <2>2, <2>3, <2>5, <3>2
  <2> QED
    BY <2>4, <2>5
<1> QED
  BY <1>1, <1>4, <1>6, <1>7, <1>8, <1>9, <1>10 DEF r

LEMMA WriteAddedStep ==
  ASSUME IndInv, WriteAdded
  PROVE  IndInv'
<1>1. /\ job.pc = "added" /\ tail' = tail /\ UNCHANGED <<ftw, memory, phase, client, counters>>
      /\ IF job.curr = 0 THEN Return("success")
         ELSE IF job.inDel # 0 THEN Goto("drop transition") ELSE Goto("drop")
  BY DEF WriteAdded, Steps
<1>2. job.pc \in Pcs /\ job.pc \notin Deleting
  BY <1>1 DEF Pcs, Writing, Deleting
<1>3. job \in Jobs /\ phase # "early" /\ Progress(job, cache)
  BY <1>2, InProgress
<1>4. /\ flash' = cache' /\ GoodStore(cache') /\ cache' \in Seq(Record) /\ cache \in Seq(Record)
      /\ Len(cache') = Len(cache) + 1 /\ last' = Len(cache')
      /\ \A i \in 1..Len(cache) : cache'[i] = cache[i]
      /\ cache'[Len(cache')] = Added(job.request) /\ job.request \in Requests
      /\ totals' = [common |-> CommonSum(cache'), hwErr |-> HwErrSum(cache')]
      /\ ftw' = Ready
  BY <1>1, WriteAddedIs DEF IndInv, StoreOK
<1>5. RestOK'
  BY <1>1, RestKept DEF IndInv, Return, Goto
<1>6. CASE job.curr = 0
  <2>1. job' = Idle
    BY <1>1, <1>6 DEF Return
  <2>2. JobOK' /\ ~Appending'
    BY <2>1, Returned
  <2>3. StoreOK'
    BY <1>4, <2>2, StoreIs
  <2> QED
    BY <1>1, <1>5, <2>2, <2>3, CleanKept DEF IndInv
<1>7. CASE job.curr # 0
  <2> DEFINE pc == IF job.inDel # 0 THEN "drop transition" ELSE "drop"
  <2>1. /\ pc \in Dropping /\ pc \in Pcs /\ pc \notin Writing /\ pc \notin Deleting /\ pc # "mark"
        /\ pc = "drop transition" => job.inDel # 0
    BY DEF Dropping, Pcs, Writing, Deleting
  <2>2. Goto(pc)
    BY <1>1, <1>7
  <2> HIDE DEF pc
  <2>3. /\ job' \in Jobs /\ job' # Idle /\ job'.pc = pc
        /\ job'.request = job.request /\ job'.curr = job.curr /\ job'.inDel = job.inDel
    BY <1>3, <2>1, <2>2, Moved
  <2>4. ~Appending'
    BY <2>1, <2>3 DEF Appending
  <2>5. StoreOK'
    BY <1>4, <2>4, StoreIs
  <2>6. /\ job.curr \in 0..Len(cache) /\ job.inDel \in 0..Len(cache)
        /\ job.curr # 0 => cache[job.curr].name = job.request.name
        /\ job.inDel # 0 => /\ cache[job.inDel].name = job.request.name
                            /\ job.curr # 0 /\ job.inDel # job.curr
        /\ job.request.value \in Data /\ "NV" \in job.request.attr
    BY <1>2, <1>3 DEF Progress
  <2>7. /\ job.curr \in 1..Len(cache) /\ (job.inDel # 0 => job.inDel \in 1..Len(cache))
        /\ job.curr \in 0..Len(cache') /\ job.inDel \in 0..Len(cache')
        /\ job.curr < Len(cache') /\ job.inDel < Len(cache')
    <3> DEFINE n == Len(cache)
               c == job.curr
               d == job.inDel
    <3>1. n \in Nat /\ c \in 0..n /\ d \in 0..n /\ c # 0 /\ Len(cache') = n + 1
      BY <1>4, <1>7, <2>6, EntryIn
    <3> HIDE DEF n, c, d
    <3>2. /\ c \in 1..n /\ (d # 0 => d \in 1..n) /\ c \in 0..(n + 1) /\ d \in 0..(n + 1)
          /\ c < n + 1 /\ d < n + 1
      BY <3>1
    <3> QED
      BY <3>1, <3>2 DEF n, c, d
  <2>8. Added(job.request).name = job.request.name /\ Visible(Added(job.request))
    BY <1>4, <2>6, NewIs DEF Visible
  <2>9. /\ job'.curr \in 0..Len(cache') /\ job'.inDel \in 0..Len(cache')
        /\ job'.curr # 0 => cache'[job'.curr].name = job'.request.name
        /\ job'.inDel # 0 => /\ cache'[job'.inDel].name = job'.request.name
                             /\ job'.curr # 0 /\ job'.inDel # job'.curr
        /\ job'.request.value \in Data /\ "NV" \in job'.request.attr
        /\ job'.curr # 0
    BY <1>4, <1>7, <2>3, <2>6, <2>7
  <2>10. /\ job'.pc \in {"delete transition", "drop transition"} => job'.inDel # 0
         /\ job'.pc \notin {"delete transition", "mark"} /\ job'.pc \notin Writing
    BY <2>1, <2>3 DEF Deleting
  <2>11. /\ job'.curr < Len(cache') /\ job'.inDel < Len(cache')
         /\ cache'[Len(cache')].name = job'.request.name /\ Visible(cache'[Len(cache')])
    BY <1>4, <2>3, <2>7, <2>8
  <2>12. Progress(job, cache)'
    BY <2>9, <2>10, <2>11 DEF Progress
  <2>13. JobOK'
    BY <1>1, <1>3, <2>3, <2>12 DEF JobOK, Jobs
  <2> QED
    BY <1>1, <1>5, <2>5, <2>13, CleanKept DEF IndInv
<1> QED
  BY <1>6, <1>7

-----------------------------------------------------------------------------
(***************************************************************************)
(* The boot.                                                               *)
(***************************************************************************)
LEMMA InitStep ==
  ASSUME Init, CleanAppends
  PROVE  IndInv
<1>1. /\ flash = <<>> /\ cache = <<>> /\ last = 0 /\ job = Idle /\ ftw = Ready
      /\ totals = [common |-> 0, hwErr |-> 0]
  BY DEF Init
<1>2. <<>> \in Seq(Record) /\ Len(<<>>) = 0
  OBVIOUS
<1>3. GoodStore(cache)
  <2>1. 0 <= Capacity - HwErrSize /\ 0 <= HwErrSize
    BY StoreAssumption
  <2> QED
    BY <1>1, <1>2, <2>1, SumsEmpty DEF GoodStore
<1>4. StoreOK /\ JobOK
  BY <1>1, <1>2, <1>3, SumsEmpty DEF StoreOK, JobOK, Appending
<1>5. RestOK
  BY ClientIs, StoreAssumption DEF Init, RestOK
<1> QED
  BY <1>4, <1>5 DEF IndInv

LEMMA InitializedStep ==
  ASSUME IndInv, Reboot \/ PowerLoss
  PROVE  IndInv'
<1>1. /\ flash' = flash /\ tail' \in {"free", "junk"} /\ Initialized /\ client' = client
      /\ calls' = calls /\ errors' = errors
      /\ \/ losses' = losses /\ boots < MaxBoots /\ boots' = boots + 1
         \/ boots' = boots /\ losses < client.losses /\ losses' = losses + 1
  <2>1. CASE Reboot
    BY <2>1, NextBootIs DEF Reboot, Initialized, IndInv, RestOK
  <2>2. CASE PowerLoss
    BY <2>2, NextBootIs DEF PowerLoss, Initialized, IndInv, RestOK
  <2> QED
    BY <2>1, <2>2
<1>2. JobOK' /\ ~Appending'
  BY <1>1, Returned DEF Initialized
<1>3. StoreOK'
  BY <1>1, <1>2, FlashGood, StoreIs DEF Initialized
<1>4. losses' \in 0..client'.losses /\ boots' \in 0..MaxBoots
  BY <1>1, Counted DEF IndInv, RestOK
<1>5. RestOK'
  <2>1. memory' = <<>> /\ <<>> \in Seq(Record) /\ phase' = "early" /\ status' = "none"
    BY <1>1 DEF Initialized
  <2> QED
    BY <1>1, <1>4, <2>1 DEF IndInv, RestOK
<1> QED
  BY <1>1, <1>2, <1>3, <1>5, CleanKept DEF IndInv

LEMMA BootStep ==
  ASSUME IndInv, Boot
  PROVE  IndInv'
<1>1. job = Idle /\ job' = job
  BY DEF Boot, VariableWriteServiceInitialize, OnEndOfDxe, OnReadyToBoot, ExitBootServices,
         IndInv, JobOK
<1>2. JobOK' /\ ~Appending' /\ ~Appending
  BY <1>1, Returned DEF Appending
<1>3. /\ UNCHANGED <<memory, status, client, calls, boots, losses>>
      /\ phase' \in {"dxe", "late", "ready", "runtime"}
      /\ ReclaimAll \/ UNCHANGED <<store, errors>>
  BY DEF Boot, VariableWriteServiceInitialize, OnEndOfDxe, OnReadyToBoot, ExitBootServices,
         ReclaimForOS, counters
<1>4. ASSUME UNCHANGED <<store, errors>> PROVE StoreOK' /\ tail' = tail /\ errors' = errors
  BY <1>2, <1>4, StoreKept DEF IndInv, store
<1>5. StoreOK' /\ tail' \in {tail, "free"} /\ errors' = errors
  BY <1>1, <1>3, <1>4, ReclaimAllIs
<1>6. tail' = "free"
  <2>1. CASE phase # "early"
    BY <1>5, <2>1 DEF IndInv, RestOK
  <2>2. CASE phase = "early"
    <3>1. IF tail = "junk" THEN ReclaimAll ELSE UNCHANGED <<store, errors>>
      BY <2>2 DEF Boot, VariableWriteServiceInitialize, OnEndOfDxe, OnReadyToBoot, ExitBootServices
    <3>2. tail \in {"free", "junk"}
      BY DEF IndInv, RestOK
    <3> QED
      BY <1>1, <1>4, <3>1, <3>2, ReclaimAllIs
  <2> QED
    BY <2>1, <2>2
<1>7. RestOK'
  BY <1>3, <1>5, <1>6 DEF IndInv, RestOK
<1> QED
  BY <1>2, <1>3, <1>5, <1>7, CleanKept DEF IndInv

LEMMA NextStep ==
  ASSUME IndInv, Next
  PROVE  IndInv'
<1>1. CASE SetVariable
  BY <1>1, StartSetStep, QuietSetStep, SetVolatileStep DEF SetVariable
<1>2. CASE UpdateStep
  BY <1>2, DeletingStep, MarkStep, DroppingStep, NoRoomStep, ReclaimNewStep, WriteHeaderStep,
     WriteHeaderStateStep, WriteDataStep, WriteAddedStep DEF UpdateStep
<1>3. CASE Boot
  BY <1>3, BootStep
<1>4. CASE DeviceError
  BY <1>4, DeviceErrorStep
<1>5. CASE PowerLoss \/ Reboot
  BY <1>5, InitializedStep
<1> QED
  BY <1>1, <1>2, <1>3, <1>4, <1>5 DEF Next

\* The inductive invariant holds on every platform of CleanAppends.
THEOREM Invariant == Spec /\ CleanAppends => []IndInv
<1>1. Init /\ CleanAppends => IndInv
  BY InitStep
<1>2. IndInv /\ [Next]_vars => IndInv'
  <2> SUFFICES ASSUME IndInv, [Next]_vars PROVE IndInv'
    OBVIOUS
  <2>2. CASE Next
    BY <2>2, NextStep
  <2>3. CASE UNCHANGED vars
    BY <2>3 DEF vars, store, counters, IndInv, StoreOK, JobOK, RestOK, CleanAppends, GoodStore,
                Progress, HasRoom, Appending, Request
  <2> QED
    BY <2>2, <2>3
<1> QED
  BY <1>1, <1>2, PTL DEF Spec

-----------------------------------------------------------------------------
(***************************************************************************)
(* The properties.                                                         *)
(***************************************************************************)
LEMMA FlashLength ==
  ASSUME IndInv
  PROVE  Len(flash) \in Nat /\ Len(cache) \in Nat /\ Len(cache) <= Len(flash)
<1>1. cache \in Seq(Record)
  BY DEF IndInv, StoreOK, GoodStore
<1>2. CASE Appending
  <2> DEFINE x == Pending(job.request, job.pc)
             S == Record \cup {x}
  <2>1. flash = Append(cache, x)
    BY <1>2 DEF IndInv, StoreOK, Request
  <2>2. cache \in Seq(S) /\ x \in S
    BY <1>1
  <2> HIDE DEF x, S
  <2>3. Len(Append(cache, x)) = Len(cache) + 1 /\ Len(cache) \in Nat
    BY <2>2, AppendIs
  <2> QED
    BY <2>1, <2>3
<1>3. CASE ~Appending
  BY <1>1, <1>3, NotAppending, EntryIn DEF IndInv
<1> QED
  BY <1>2, <1>3

\* Every variable has a value of its type.
THEOREM Typed == Spec /\ CleanAppends => []TypeOK
<1>1. IndInv => TypeOK
  <2> SUFFICES ASSUME IndInv PROVE TypeOK
    OBVIOUS
  <2>1. flash \in Seq(Record) /\ cache \in Seq(Record) /\ last = Len(cache)
    BY FlashGood DEF GoodStore, IndInv, StoreOK
  <2>2. totals \in [common : Nat, hwErr : Nat]
    BY <2>1, SumsNat DEF IndInv, StoreOK
  <2>3. last \in 0..Len(cache)
    BY <2>1, EntryIn
  <2>4. ASSUME job # Idle
        PROVE  job \in [pc : (Points \ {"header", "reclaim"}) \cup {"place"},
                        request : client.requests,
                        curr : 0..Len(flash), inDel : 0..Len(flash)]
    <3>1. /\ job \in [pc : Pcs, request : client.requests, curr : Nat, inDel : Nat]
          /\ job.curr \in 0..Len(cache) /\ job.inDel \in 0..Len(cache)
      BY <2>4 DEF IndInv, JobOK, Progress
    <3>2. job.curr \in 0..Len(flash) /\ job.inDel \in 0..Len(flash)
      BY <3>1, FlashLength
    <3>3. Pcs \subseteq (Points \ {"header", "reclaim"}) \cup {"place"}
      BY DEF Pcs, Points, Deleting, Writing, Dropping
    <3> QED
      BY <3>1, <3>2, <3>3
  <2>5. ftw \in [state : {"ready", "refuses", "restarts"}, spare : Seq(Record)]
    BY DEF IndInv, StoreOK, Ready
  <2> QED
    BY <2>1, <2>2, <2>3, <2>4, <2>5 DEF IndInv, RestOK, TypeOK
<1> QED
  BY <1>1, Invariant, PTL

\* Between calls the copy in memory is what is in flash.
THEOREM InSync == Spec /\ CleanAppends => []CacheInSync
<1>1. IndInv => CacheInSync
  BY NotAppending DEF IndInv, StoreOK, CacheInSync, Appending
<1> QED
  BY <1>1, Invariant, PTL

\* A variable that can be found has been written completely.
THEOREM Whole == Spec /\ CleanAppends => []VisibleIsWhole
<1>1. IndInv => VisibleIsWhole
  BY FlashGood, NextBootIs, EntryIn DEF GoodStore, VisibleIsWhole
<1> QED
  BY <1>1, Invariant, PTL

\* The header of a new record is written to erased flash.
THEOREM Erased == Spec /\ CleanAppends => []ErasedBeforeWritten
<1>1. IndInv => ErasedBeforeWritten
  <2> SUFFICES ASSUME IndInv, job.pc = "place", HasRoom(Request)
               PROVE  last = Len(flash) /\ tail = "free"
    BY DEF ErasedBeforeWritten
  <2>1. job.pc \in Writing \cup {"place"} /\ HasRoom(job.request)
    BY DEF Request
  <2> QED
    BY <2>1, AppenderIs
<1> QED
  BY <1>1, Invariant, PTL

\* What the totals promise fits behind the last record.
THEOREM Fitting == Spec /\ CleanAppends => []AppendFits
<1>1. IndInv => AppendFits
  <2> SUFFICES ASSUME IndInv, job.pc \in {"place", "data"}, HasRoom(Request)
               PROVE  /\ Used(SubSeq(cache, 1, last)) + VarSize(Request) <= Capacity
                      /\ ~Outside(VarSize(Request))
    BY DEF AppendFits
  <2>1. job.pc \in Writing \cup {"place"} /\ HasRoom(job.request)
    BY DEF Writing, Request
  <2>2. job.request \in Requests /\ job.request.value \in Data /\ ~Outside(VarSize(job.request))
    BY <2>1, AppenderIs
  <2>3. Used(SubSeq(cache, 1, last)) + VarSize(job.request) <= Capacity
    BY <2>1, <2>2, Fits DEF IndInv
  <2> QED
    BY <2>2, <2>3 DEF Request
<1> QED
  BY <1>1, Invariant, PTL

-----------------------------------------------------------------------------
(***************************************************************************)
(* Only a call that deletes a variable takes it away.                      *)
(***************************************************************************)
SameVisible == \A n \in Names : VisibleIn(flash, n) <=> VisibleIn(cache, n)

LEMMA VisibleSame == IndInv => SameVisible
<1> SUFFICES ASSUME IndInv, NEW n \in Names
             PROVE  VisibleIn(flash, n) <=> VisibleIn(cache, n)
  BY DEF SameVisible
<1>1. CASE Appending
  <2>1. job.pc \in Writing /\ job.pc \in Pcs
    BY <1>1 DEF Appending, Pcs
  <2>2. HasRoom(job.request)
    BY <2>1, WriterHasRoom
  <2> DEFINE x == Pending(job.request, job.pc)
  <2>3. /\ job.request \in Requests /\ job.request.value \in Data /\ cache \in Seq(Record)
        /\ flash = Append(cache, x)
    BY <2>1, <2>2, AppenderIs
  <2>4. x \in Record /\ ~Visible(x)
    BY <2>1, <2>3, NewIs
  <2> HIDE DEF x
  <2>5. /\ flash \in Seq(Record) /\ Len(flash) = Len(cache) + 1 /\ Len(cache) \in Nat
        /\ flash[Len(cache) + 1] = x /\ \A i \in 1..Len(cache) : flash[i] = cache[i]
    BY <2>3, <2>4, AppendIs
  <2>6. /\ DOMAIN flash = 1..(Len(cache) + 1) /\ DOMAIN cache = 1..Len(cache)
        /\ \A i \in 1..(Len(cache) + 1) : i \in 1..Len(cache) \/ i = Len(cache) + 1
        /\ 1..Len(cache) \subseteq 1..(Len(cache) + 1)
    BY <2>3, <2>5, EntryIn
  <2> QED
    BY <2>4, <2>5, <2>6 DEF VisibleIn
<1>2. CASE ~Appending
  BY <1>2, NotAppending DEF IndInv
<1> QED
  BY <1>1, <1>2

\* Appending and changes of other records keep what is visible.
LEMMA AppendVisible ==
  ASSUME NEW s \in Seq(Record), NEW x \in Record, NEW n
  PROVE  /\ VisibleIn(s, n) => VisibleIn(Append(s, x), n)
         /\ Visible(x) => VisibleIn(Append(s, x), x.name)
<1> DEFINE t == Append(s, x)
<1>1. /\ t \in Seq(Record) /\ Len(t) = Len(s) + 1 /\ Len(s) \in Nat
      /\ t[Len(s) + 1] = x /\ \A i \in 1..Len(s) : t[i] = s[i]
  BY AppendIs
<1> HIDE DEF t
<1>2. /\ DOMAIN t = 1..(Len(s) + 1) /\ DOMAIN s = 1..Len(s) /\ Len(s) + 1 \in 1..(Len(s) + 1)
      /\ 1..Len(s) \subseteq 1..(Len(s) + 1)
  BY <1>1, EntryIn
<1> QED
  BY <1>1, <1>2 DEF VisibleIn, t

LEMMA ReclaimVisible ==
  ASSUME NEW s \in Seq(Record), NEW curr, NEW inDel, NEW order \in CopyOrders(s, curr, inDel),
         NEW i \in 1..Len(s), Visible(s[i]), i # curr, i # inDel
  PROVE  VisibleIn(Copied(s, order), s[i].name)
<1> DEFINE t == Copied(s, order)
<1>1. PICK k \in 1..Len(t) : t[k].name = s[i].name
  BY ReclaimKeeps
<1>2. /\ t \in Seq(Record)
      /\ \A l \in 1..Len(t) : t[l].state = "added"
  BY CopiedIs
<1> HIDE DEF t
<1>3. k \in DOMAIN t /\ Visible(t[k])
  BY <1>1, <1>2, EntryIn DEF Visible
<1> QED
  BY <1>1, <1>3 DEF VisibleIn, t

LEMMA StateVisible ==
  ASSUME IndInv, ~Appending, NEW i \in 1..Len(cache), SetState(i, "deleted"), NEW n,
         VisibleIn(cache, n),
         \/ cache[i].name # n
         \/ \E j \in 1..Len(cache) : j # i /\ cache[j].name = n /\ Visible(cache[j])
  PROVE  VisibleIn(cache', n)
<1>1. cache \in Seq(Record) /\ "deleted" \in States /\ cache' = WithState(cache, i, "deleted")
  BY DEF IndInv, StoreOK, GoodStore, SetState, States
<1> DEFINE t == WithState(cache, i, "deleted")
<1>2. /\ t \in Seq(Record) /\ Len(t) = Len(cache)
      /\ \A k \in 1..Len(cache) :
           t[k].name = cache[k].name /\ t[k].state = IF k = i THEN "deleted" ELSE cache[k].state
  BY <1>1, WithStateIs
<1> HIDE DEF t
<1>3. PICK j \in 1..Len(cache) : j # i /\ cache[j].name = n /\ Visible(cache[j])
  BY <1>1, EntryIn DEF VisibleIn
<1>4. j \in DOMAIN t /\ t[j].name = n /\ Visible(t[j])
  BY <1>2, <1>3, EntryIn DEF Visible
<1> QED
  BY <1>1, <1>4 DEF VisibleIn, t

LEMMA ReclaimedVisible ==
  ASSUME IndInv, job = Idle, ReclaimAll, NEW n, VisibleIn(cache, n)
  PROVE  VisibleIn(cache', n)
<1>1. flash = cache /\ cache \in Seq(Record)
  BY NotAppending DEF Appending, IndInv, StoreOK, GoodStore
<1>2. PICK order \in CopyOrders(cache, 0, 0) :
        Reclaimed(Copied(cache, order)) \/ FtwFails(Copied(cache, order))
  BY <1>1 DEF ReclaimAll
<1>3. ~FtwFails(Copied(cache, order))
  BY DEF FtwFails, IndInv, StoreOK, CleanAppends
<1>4. cache' = Copied(cache, order)
  BY <1>2, <1>3 DEF Reclaimed
<1>5. PICK i \in 1..Len(cache) : cache[i].name = n /\ Visible(cache[i])
  BY <1>1, EntryIn DEF VisibleIn
<1>6. i # 0 /\ Len(cache) \in Nat
  BY <1>1, EntryIn
<1> QED
  BY <1>1, <1>4, <1>5, <1>6, ReclaimVisible

LEMMA ReclaimNewVisible ==
  ASSUME IndInv, ReclaimNew, NEW n, VisibleIn(cache, n)
  PROVE  VisibleIn(cache', n)
<1>1. job.pc = "place" /\ job.pc \in Pcs /\ job.pc \notin Writing /\ job.pc \notin Deleting
  BY DEF ReclaimNew, Pcs, Deleting, Writing
<1>2. /\ ~Appending /\ job.request \in Requests /\ job.request.value \in Data
      /\ Progress(job, cache)
  BY <1>1, InProgress DEF Progress
<1>3. flash = cache /\ cache \in Seq(Record)
  BY <1>2, NotAppending DEF IndInv, StoreOK, GoodStore
<1> DEFINE a == Added(job.request)
<1>4. PICK order \in CopyOrders(cache, job.curr, job.inDel) :
        cache' = cache \/ cache' = Append(Copied(cache, order), a)
        \/ FtwFails(Append(Copied(cache, order), a))
  BY <1>3 DEF ReclaimNew, Reclaimed, Request
<1>5. ~FtwFails(Append(Copied(cache, order), a))
  BY DEF FtwFails, IndInv, StoreOK, CleanAppends
<1>6. a \in Record /\ Visible(a) /\ a.name = job.request.name
  BY <1>2, NewIs DEF Visible
<1>7. Copied(cache, order) \in Seq(Record)
  BY <1>3, CopiedIs
<1>8. PICK i \in 1..Len(cache) : cache[i].name = n /\ Visible(cache[i])
  BY <1>3, EntryIn DEF VisibleIn
<1>9. CASE cache' = cache
  BY <1>9
<1>10. CASE cache' = Append(Copied(cache, order), a)
  <2> HIDE DEF a
  <2>1. VisibleIn(cache', job.request.name)
    BY <1>6, <1>7, <1>10, AppendVisible
  <2>2. CASE i = job.curr \/ i = job.inDel
    <3>1. /\ job.curr # 0 => cache[job.curr].name = job.request.name
          /\ job.inDel # 0 => cache[job.inDel].name = job.request.name
      BY <1>2 DEF Progress
    <3>2. i # 0
      BY <1>3, EntryIn
    <3>3. n = job.request.name
      BY <1>8, <2>2, <3>1, <3>2
    <3> QED
      BY <2>1, <3>3
  <2>3. CASE i # job.curr /\ i # job.inDel
    <3>1. VisibleIn(Copied(cache, order), n)
      BY <1>3, <1>8, <2>3, ReclaimVisible
    <3> QED
      BY <1>6, <1>7, <1>10, <3>1, AppendVisible
  <2> QED
    BY <2>2, <2>3
<1> QED
  BY <1>4, <1>5, <1>9, <1>10

\* The steps that mark a record as deleted.
LEMMA DeletedVisible ==
  ASSUME IndInv, DeleteTransition \/ DeleteCurrent \/ DropTransition \/ DropCurrent,
         NEW n, VisibleIn(cache, n), ~VisibleIn(cache', n)
  PROVE  job # Idle /\ job.pc = "delete" /\ Request.name = n
<1>1. job.pc \in Deleting \cup Dropping /\ job.pc \in Pcs /\ job.pc \notin Writing
  BY DEF DeleteTransition, DeleteCurrent, DropTransition, DropCurrent,
         Deleting, Writing, Dropping, Pcs
<1>2. job # Idle /\ Progress(job, cache) /\ ~Appending
  BY <1>1, InProgress
<1>3. cache \in Seq(Record) /\ Len(cache) \in Nat
  BY EntryIn DEF IndInv, StoreOK, GoodStore
<1>4. /\ job.curr \in 0..Len(cache) /\ job.inDel \in 0..Len(cache) /\ job.curr # 0
      /\ cache[job.curr].name = job.request.name
      /\ job.inDel # 0 => cache[job.inDel].name = job.request.name /\ job.inDel # job.curr
      /\ job.pc \in {"delete transition", "drop transition"} => job.inDel # 0
      /\ job.pc = "delete transition" => Visible(cache[job.curr])
      /\ job.pc \in Dropping =>
           /\ job.curr < Len(cache) /\ job.inDel < Len(cache)
           /\ cache[Len(cache)].name = job.request.name /\ Visible(cache[Len(cache)])
  BY <1>1, <1>2 DEF Progress
<1>5. /\ job.curr \in 1..Len(cache)
      /\ job.pc \in {"delete transition", "drop transition"} => job.inDel \in 1..Len(cache)
      /\ job.pc \in Dropping =>
           job.curr # Len(cache) /\ job.inDel # Len(cache) /\ Len(cache) \in 1..Len(cache)
  BY <1>3, <1>4, Position
<1>6. CASE DeleteTransition
  <2>1. job.pc = "delete transition" /\ SetState(job.inDel, "deleted")
    BY <1>6 DEF DeleteTransition
  <2> QED
    BY <1>2, <1>4, <1>5, <2>1, StateVisible
<1>7. CASE DeleteCurrent
  <2>1. job.pc = "delete" /\ SetState(job.curr, "deleted")
    BY <1>7 DEF DeleteCurrent
  <2>2. cache[job.curr].name = n
    BY <1>2, <1>5, <2>1, StateVisible
  <2> QED
    BY <1>2, <1>4, <2>1, <2>2 DEF Request
<1>8. CASE DropTransition
  <2>1. job.pc = "drop transition" /\ job.pc \in Dropping /\ SetState(job.inDel, "deleted")
    BY <1>8 DEF DropTransition, Dropping
  <2> QED
    BY <1>2, <1>4, <1>5, <2>1, StateVisible
<1>9. CASE DropCurrent
  <2>1. job.pc = "drop" /\ job.pc \in Dropping /\ SetState(job.curr, "deleted")
    BY <1>9 DEF DropCurrent, Dropping
  <2> QED
    BY <1>2, <1>4, <1>5, <2>1, StateVisible
<1> QED
  BY <1>6, <1>7, <1>8, <1>9

LEMMA MarkVisible ==
  ASSUME IndInv, MarkCurrent, NEW n, VisibleIn(cache, n)
  PROVE  VisibleIn(cache', n)
<1>1. job.pc = "mark" /\ SetState(job.curr, "transition")
  BY DEF MarkCurrent
<1>2. job.pc \in Pcs
  BY <1>1 DEF Pcs
<1>3. Progress(job, cache)
  BY <1>2, InProgress
<1>4. cache \in Seq(Record) /\ Len(cache) \in Nat /\ "transition" \in States
  BY EntryIn DEF IndInv, StoreOK, GoodStore, States
<1>5. job.curr \in 1..Len(cache)
  <2>1. job.curr \in 0..Len(cache) /\ job.curr # 0
    BY <1>1, <1>3 DEF Progress
  <2> QED
    BY <1>4, <2>1, Position
<1> DEFINE t == WithState(cache, job.curr, "transition")
<1>6. cache' = t
  BY <1>1 DEF SetState
<1>7. /\ t \in Seq(Record) /\ Len(t) = Len(cache)
      /\ \A k \in 1..Len(cache) :
           /\ t[k].name = cache[k].name
           /\ t[k].state = IF k = job.curr THEN "transition" ELSE cache[k].state
  BY <1>4, <1>5, WithStateIs
<1> HIDE DEF t
<1>8. PICK i \in 1..Len(cache) : cache[i].name = n /\ Visible(cache[i])
  BY <1>4, EntryIn DEF VisibleIn
<1>9. i \in DOMAIN t /\ t[i].name = n /\ Visible(t[i])
  BY <1>7, <1>8, EntryIn DEF Visible
<1> QED
  BY <1>6, <1>9 DEF VisibleIn

LEMMA BootVisible ==
  ASSUME IndInv, Boot, NEW n, VisibleIn(cache, n)
  PROVE  VisibleIn(cache', n)
<1>1. job = Idle /\ (ReclaimAll \/ cache' = cache)
  BY DEF Boot, VariableWriteServiceInitialize, OnEndOfDxe, OnReadyToBoot, ExitBootServices,
         ReclaimForOS, IndInv, JobOK, store
<1> QED
  BY <1>1, ReclaimedVisible

LEMMA NextVisible ==
  ASSUME IndInv, [Next]_vars, NEW n \in Names, VisibleIn(cache, n), ~VisibleIn(cache', n)
  PROVE  job # Idle /\ job.pc = "delete" /\ Request.name = n
<1>1. ASSUME cache' = cache PROVE FALSE
  BY <1>1
<1>2. CASE SetVariable
  BY <1>1, <1>2 DEF SetVariable, RefuseSet, RepeatSet, SetVolatile, StartSet, store
<1>3. CASE UpdateStep
  <2>1. CASE DeleteTransition \/ DeleteCurrent \/ DropTransition \/ DropCurrent
    BY <2>1, DeletedVisible
  <2>2. CASE MarkCurrent \/ ReclaimNew
    BY <2>2, MarkVisible, ReclaimNewVisible
  <2>3. CASE NoRoomAtRuntime \/ WriteHeader \/ WriteHeaderState \/ WriteData
    BY <1>1, <2>3 DEF NoRoomAtRuntime, WriteHeader, WriteHeaderState, WriteData, store
  <2>4. CASE WriteAdded
    <3>1. /\ cache' = Append(cache, Added(job.request)) /\ cache \in Seq(Record)
          /\ job.request \in Requests
      BY <2>4, WriteAddedIs
    <3>2. job.request.value \in Data
      <4>1. job.pc = "added" /\ job.pc \in Pcs /\ job.pc \notin Deleting
        BY <2>4 DEF WriteAdded, Pcs, Writing, Deleting
      <4> QED
        BY <4>1, InProgress DEF Progress
    <3>3. Added(job.request) \in Record
      BY <3>1, <3>2, NewIs
    <3> QED
      BY <3>1, <3>3, AppendVisible
  <2> QED
    BY <1>3, <2>1, <2>2, <2>3, <2>4 DEF UpdateStep
<1>4. CASE Boot
  BY <1>4, BootVisible
<1>5. CASE DeviceError
  BY <1>1, <1>5 DEF DeviceError, store
<1>6. CASE UNCHANGED vars
  BY <1>1, <1>6 DEF vars, store
<1>7. CASE PowerLoss \/ Reboot
  <2>1. cache' = flash
    BY <1>7, NextBootIs DEF PowerLoss, Reboot, Initialized
  <2> QED
    BY <2>1, VisibleSame DEF SameVisible
<1> QED
  BY <1>2, <1>3, <1>4, <1>5, <1>6, <1>7 DEF Next

\* A variable that can be found disappears only by a call that deletes it,
\* whatever reclaims, errors and losses of power come in between.
THEOREM NothingVanishes == Spec /\ CleanAppends => OnlyDeletionRemoves
<1> DEFINE Same == NextBoot = flash
<1>1. IndInv /\ SameVisible /\ SameVisible' /\ Same /\ Same' /\ [Next]_vars
        => [\A n \in Names : VisibleIn(NextBoot, n) /\ ~VisibleIn(NextBoot', n)
              => job # Idle /\ job.pc = "delete" /\ Request.name = n]_vars
  <2> SUFFICES ASSUME IndInv, SameVisible, SameVisible', Same, Same', [Next]_vars,
                      NEW n \in Names, VisibleIn(NextBoot, n), ~VisibleIn(NextBoot', n)
               PROVE  job # Idle /\ job.pc = "delete" /\ Request.name = n
    OBVIOUS
  <2>1. VisibleIn(cache, n) /\ ~VisibleIn(cache', n)
    BY DEF SameVisible
  <2> QED
    BY <2>1, NextVisible
<1>2. Spec /\ CleanAppends => [](IndInv /\ SameVisible /\ Same)
  BY VisibleSame, NextBootIs, Invariant, PTL
<1> QED
  BY <1>1, <1>2, PTL DEF Spec, OnlyDeletionRemoves

-----------------------------------------------------------------------------
(***************************************************************************)
(* A call that ends for lack of room.  What a reclaim copies is what       *)
(* QueryVariableInfo counts, because the record that is being updated is   *)
(* in transition by then.                                                  *)
(***************************************************************************)
RoomInv ==
  job # Idle =>
    /\ status = "none"
    /\ job.pc = "place" /\ job.curr # 0 => cache[job.curr].state = "transition"

LEMMA MarkRoom ==
  ASSUME IndInv, MarkCurrent
  PROVE  job'.curr # 0 => cache'[job'.curr].state = "transition"
<1>1. job.pc = "mark" /\ SetState(job.curr, "transition") /\ Goto("place")
  BY DEF MarkCurrent
<1>2. job.pc \in Pcs /\ job.pc \notin Writing /\ "place" \in Pcs
  BY <1>1 DEF Pcs, Writing
<1>3. job \in Jobs /\ Progress(job, cache) /\ cache \in Seq(Record)
  BY <1>2, InProgress DEF IndInv, StoreOK, GoodStore
<1>4. job.curr \in 1..Len(cache)
  BY <1>1, <1>3, EntryIn DEF Progress
<1>5. cache'[job.curr].state = "transition"
  BY <1>1, <1>3, <1>4, WithStateIs DEF SetState, States
<1>6. job'.curr = job.curr
  BY <1>1, <1>2, <1>3, Moved
<1> QED
  BY <1>5, <1>6

LEMMA RoomStep ==
  ASSUME IndInv, RoomInv, [Next]_vars
  PROVE  RoomInv'
<1>1. CASE UNCHANGED vars
  BY <1>1 DEF vars, store, RoomInv
<1>2. ASSUME NEW r \in Requests, RefuseSet(r) \/ RepeatSet(r) \/ SetVolatile(r)
      PROVE  RoomInv'
  BY <1>2 DEF RefuseSet, RepeatSet, SetVolatile, Calls, RoomInv
<1>3. ASSUME NEW r \in Requests, StartSet(r)
      PROVE  RoomInv'
  <2> DEFINE f == FindVariable(r.name).found
  <2>1. /\ job' = [pc |-> StartPoint(r, f), request |-> r, curr |-> f.curr, inDel |-> f.inDel]
        /\ status' = "none"
    BY <1>3 DEF StartSet
  <2> HIDE DEF f
  <2>2. job'.pc = StartPoint(r, f) /\ job'.curr = f.curr
    BY <2>1
  <2>3. job'.pc = "place" => job'.curr = 0
    BY <2>2 DEF StartPoint
  <2> QED
    BY <2>1, <2>3 DEF RoomInv
<1>4. CASE MarkCurrent
  <2>1. status' = status /\ job.pc \in Pcs
    BY <1>4 DEF MarkCurrent, Goto, Pcs
  <2>2. status' = "none"
    BY <2>1, InProgress DEF RoomInv
  <2> QED
    BY <1>4, <2>2, MarkRoom DEF RoomInv
<1>5. ASSUME NEW pc \in Pcs, Goto(pc), pc # "place", job.pc \in Pcs
      PROVE  RoomInv'
  <2>1. job # Idle /\ job \in Jobs /\ status' = status
    BY <1>5, InProgress DEF Goto
  <2>2. job'.pc = pc
    BY <1>5, <2>1, Moved
  <2> QED
    BY <1>5, <2>1, <2>2 DEF RoomInv
<1>6. ASSUME job' = Idle
      PROVE  RoomInv'
  BY <1>6 DEF RoomInv
<1>7. CASE DeleteTransition \/ WriteHeader \/ WriteHeaderState \/ WriteData \/ WriteAdded \/ DropTransition
  <2>1. job.pc \in Pcs
    BY <1>7 DEF DeleteTransition, WriteHeader, WriteHeaderState, WriteData, WriteAdded, DropTransition,
                Pcs, Deleting, Writing, Dropping
  <2>2. job' = Idle \/ \E pc \in Pcs : Goto(pc) /\ pc # "place"
    BY <1>7 DEF DeleteTransition, WriteHeader, WriteHeaderState, WriteData, WriteAdded, DropTransition,
                Return, Pcs, Deleting, Writing, Dropping
  <2> QED
    BY <1>5, <1>6, <2>1, <2>2
<1>8. CASE DeleteCurrent \/ NoRoomAtRuntime \/ ReclaimNew \/ DropCurrent \/ DeviceError \/ PowerLoss \/ Reboot
  <2>1. job' = Idle
    BY <1>8 DEF DeleteCurrent, NoRoomAtRuntime, ReclaimNew, DropCurrent, DeviceError, PowerLoss, Reboot,
                Initialized, Return
  <2> QED
    BY <1>6, <2>1
<1>9. CASE Boot
  <2>1. job = Idle
    BY <1>9 DEF Boot, VariableWriteServiceInitialize, OnEndOfDxe, OnReadyToBoot, ExitBootServices,
                IndInv, JobOK
  <2>2. job' = job
    BY <1>9 DEF Boot, VariableWriteServiceInitialize, OnEndOfDxe, OnReadyToBoot, ExitBootServices
  <2> QED
    BY <1>6, <2>1, <2>2
<1> QED
  BY <1>1, <1>2, <1>3, <1>4, <1>7, <1>8, <1>9 DEF Next, SetVariable, UpdateStep

LEMMA RoomInvariant == Spec /\ CleanAppends => [](IndInv /\ RoomInv)
<1>1. Init => RoomInv
  BY DEF Init, RoomInv
<1>2. IndInv /\ RoomInv /\ [Next]_vars => RoomInv'
  BY RoomStep
<1> QED
  BY <1>1, <1>2, Invariant, PTL DEF Spec

\* What is copied, then, is listed.
LEMMA CopiedListed ==
  ASSUME NEW s \in Seq(Record), ~AtRuntime, NEW curr, NEW inDel,
         curr # 0 => s[curr].state = "transition",
         NEW i \in Kept(s, curr) \cup Promoted(s, curr, inDel)
  PROVE  i \in Listed(s)
<1>1. DOMAIN s = 1..Len(s) /\ Len(s) \in Nat
  BY EntryIn
<1>2. \A j \in 1..Len(s) : j # 0
  BY <1>1
<1>3. i \in Readable(s)
  BY DEF Kept, Promoted, InTransition, Readable, Visible
<1>4. CASE i \in Kept(s, curr)
  BY <1>3, <1>4 DEF Kept, Listed
<1>5. CASE i \in Promoted(s, curr, inDel)
  <2> DEFINE M == Named(s, s[i].name) \cap Readable(s)
             transition == {j \in M : s[j].state = "transition"}
  <2>1. s[i].state = "transition" /\ \A j \in Kept(s, curr) : s[j].name # s[i].name
    BY <1>5 DEF Promoted, InTransition
  <2>2. \A j \in M : s[j].state # "added"
    <3> SUFFICES ASSUME NEW j \in M, s[j].state = "added"
                 PROVE  FALSE
      OBVIOUS
    <3>1. j \in DOMAIN s /\ s[j].name = s[i].name /\ j # 0
      BY <1>1, <1>2 DEF Named
    <3>2. j # curr
      BY <3>1
    <3> QED
      BY <2>1, <3>1, <3>2 DEF Kept
  <2>3. i \in transition /\ transition \in SUBSET (1..Len(s))
    BY <1>1, <1>3, <2>1 DEF Named, Readable
  <2>4. FindAmong(s, M).curr = GreatestOr0(transition)
    <3>1. {j \in M : s[j].state = "added"} = {}
      BY <2>2
    <3> QED
      BY <3>1 DEF FindAmong
  <2>5. GreatestOr0(transition) \in transition \cup {0} /\ (GreatestOr0(transition) = 0 <=> transition = {})
    BY <1>1, <2>3, GreatestOr0Is
  <2>6. s[FindAmong(s, M).curr].state = "transition"
    BY <2>3, <2>4, <2>5
  <2> QED
    BY <1>3, <2>6 DEF Listed
<1> QED
  BY <1>4, <1>5

\* The sizes QueryVariableInfo adds up.
ListedSizes(s, hwErr) ==
  [i \in DOMAIN s |-> IF IsHwErr(s[i]) = hwErr /\ (AtRuntime \/ i \in Listed(s)) THEN WalkSize(s[i]) ELSE 0]

\* The records of a kind, as a reclaim counts them.
KindSize(r, hwErr)   == IF IsHwErr(r) = hwErr THEN VarSize(r) ELSE 0
KindSizes(s, hwErr)  == [i \in DOMAIN s |-> KindSize(s[i], hwErr)]

LEMMA CopiedCounted ==
  ASSUME NEW s \in Seq(Record), ~AtRuntime, NEW curr, NEW inDel,
         curr # 0 => s[curr].state = "transition",
         NEW order \in CopyOrders(s, curr, inDel), NEW hwErr \in BOOLEAN
  PROVE  /\ SumOf(KindSizes(Copied(s, order), hwErr)) <= SumOf(ListedSizes(s, hwErr))
         /\ SumOf(KindSizes(Copied(s, order), hwErr)) \in Nat
         /\ SumOf(ListedSizes(s, hwErr)) \in Nat
<1> DEFINE t == Copied(s, order)
           w == ListedSizes(s, hwErr)
           u == KindSizes(t, hwErr)
<1>1. /\ Injective(order, Len(s)) /\ order \in Seq(Nat)
      /\ \A k \in 1..Len(order) : order[k] \in Kept(s, curr) \cup Promoted(s, curr, inDel)
  BY OrderIs DEF Injective
<1>2. Len(order) \in Nat /\ DOMAIN order = 1..Len(order) /\ Len(s) \in Nat /\ DOMAIN s = 1..Len(s)
  BY <1>1, EntryIn
<1>3. /\ t \in Seq(Record) /\ Len(t) = Len(order) /\ DOMAIN t = 1..Len(order)
      /\ \A k \in 1..Len(order) :
           /\ order[k] \in 1..Len(s) /\ Visible(s[order[k]])
           /\ t[k].attr = s[order[k]].attr /\ t[k].value = s[order[k]].value
  BY CopiedIs, EntryIn
<1>4. \A k \in 1..Len(order) : order[k] \in Listed(s)
  BY <1>1, CopiedListed
<1> HIDE DEF t
<1>5. \A i \in 1..Len(s) : s[i].value \in Data /\ WalkSize(s[i]) \in Nat
  BY EntryIn, RecordFields, SizeNat
<1>6. w \in Seq(Nat) /\ Len(w) = Len(s)
      /\ \A i \in 1..Len(s) : w[i] = IF IsHwErr(s[i]) = hwErr /\ (AtRuntime \/ i \in Listed(s))
                                     THEN WalkSize(s[i]) ELSE 0
  <2>1. w = [i \in 1..Len(s) |-> IF IsHwErr(s[i]) = hwErr /\ (AtRuntime \/ i \in Listed(s))
                                 THEN WalkSize(s[i]) ELSE 0]
    BY <1>2 DEF ListedSizes
  <2> HIDE DEF w
  <2> QED
    BY <1>2, <1>5, <2>1
<1>7. ASSUME NEW k \in 1..Len(order)
      PROVE  KindSize(t[k], hwErr) = w[order[k]] /\ KindSize(t[k], hwErr) \in Nat
  <2>1. order[k] \in 1..Len(s) /\ order[k] \in Listed(s)
    BY <1>3, <1>4
  <2>2. w[order[k]] = IF IsHwErr(s[order[k]]) = hwErr THEN WalkSize(s[order[k]]) ELSE 0
    BY <1>6, <2>1
  <2>3. WalkSize(s[order[k]]) = VarSize(s[order[k]])
    BY <1>3 DEF WalkSize, Visible
  <2>4. KindSize(t[k], hwErr) = IF IsHwErr(s[order[k]]) = hwErr THEN VarSize(s[order[k]]) ELSE 0
    BY <1>3 DEF KindSize, IsHwErr, VarSize
  <2>5. WalkSize(s[order[k]]) \in Nat
    BY <1>5, <2>1
  <2> HIDE DEF w
  <2> QED
    BY <2>2, <2>3, <2>4, <2>5
<1>8. u \in Seq(Nat) /\ Len(u) = Len(order) /\ \A k \in 1..Len(order) : u[k] = KindSize(t[k], hwErr)
  <2>1. u = [k \in 1..Len(order) |-> KindSize(t[k], hwErr)]
    BY <1>3 DEF KindSizes
  <2> HIDE DEF u, w
  <2> QED
    BY <1>2, <1>7, <2>1
<1> HIDE DEF w, u
<1>9. Injective(order, Len(w))
  BY <1>1, <1>6, Zenon
<1>10. /\ Select(w, order) \in Seq(Nat) /\ Len(Select(w, order)) = Len(order)
       /\ \A k \in 1..Len(order) : Select(w, order)[k] = w[order[k]]
  BY <1>6, <1>9, SelectIs, ZenonT(60)
<1>11. \A k \in 1..Len(order) : u[k] = Select(w, order)[k]
  BY <1>7, <1>8, <1>10
<1>12. u = Select(w, order)
  BY <1>8, <1>10, <1>11, SequencesEqual
<1>13. SumOf(u) <= SumOf(w)
  BY <1>6, <1>9, <1>12, SumSelect
<1>14. SumOf(u) \in Nat /\ SumOf(w) \in Nat
  BY <1>6, <1>8, SumNat
<1> QED
  BY <1>13, <1>14 DEF t, u, w

LEMMA KindSums ==
  ASSUME NEW s \in Seq(Record)
  PROVE  SumOf(KindSizes(s, TRUE)) = HwErrSum(s) /\ SumOf(KindSizes(s, FALSE)) = CommonSum(s)
<1>1. KindSizes(s, TRUE) = [i \in DOMAIN s |-> IF IsHwErr(s[i]) THEN VarSize(s[i]) ELSE 0]
  BY DEF KindSizes, KindSize, IsHwErr
<1>2. KindSizes(s, FALSE) = [i \in DOMAIN s |-> IF IsHwErr(s[i]) THEN 0 ELSE VarSize(s[i])]
  BY DEF KindSizes, KindSize, IsHwErr
<1> QED
  BY <1>1, <1>2 DEF HwErrSum, CommonSum

\* The size that is left for the records of a kind.
Quota(hwErr) == IF hwErr THEN HwErrSize ELSE Capacity - HwErrSize

\* A new record that breaks a quota breaks its own.
LEMMA OwnQuota ==
  ASSUME NEW s, GoodStore(s), NEW r \in Requests, r.value \in Data,
         ~QuotasHold(Append(s, Added(r)))
  PROVE  SumOf(KindSizes(s, IsHwErr(r))) + VarSize(r) > Quota(IsHwErr(r))
<1> DEFINE t == Append(s, Added(r))
           c == CommonSum(s)
           h == HwErrSum(s)
           v == VarSize(r)
<1>1. s \in Seq(Record) /\ c <= Capacity - HwErrSize /\ h <= HwErrSize
  BY DEF GoodStore
<1>2. Added(r) \in Record /\ Added(r).attr = r.attr /\ Added(r).value = r.value
  BY NewIs
<1>3. t \in Seq(Record) /\ CommonSum(t) = c + CommonSize(Added(r)) /\ HwErrSum(t) = h + HwErrSizeOf(Added(r))
  BY <1>1, <1>2, SumsAppend
<1>4. /\ CommonSize(Added(r)) = IF IsHwErr(r) THEN 0 ELSE v
      /\ HwErrSizeOf(Added(r)) = IF IsHwErr(r) THEN v ELSE 0
  BY <1>2 DEF CommonSize, HwErrSizeOf, IsHwErr, VarSize
<1>5. Used(t) \in Nat /\ CommonSum(t) \in Nat /\ HwErrSum(t) \in Nat /\ Used(t) <= CommonSum(t) + HwErrSum(t)
  BY <1>3, SumsNat
<1>6. ~(Used(t) <= Capacity /\ HwErrSum(t) <= HwErrSize /\ CommonSum(t) <= Capacity - HwErrSize)
  BY DEF QuotasHold
<1>7. c \in Nat /\ h \in Nat /\ v \in Nat /\ Capacity \in Nat /\ HwErrSize \in Nat
  BY <1>1, SumsNat, SizeNat, StoreAssumption
<1>8. IsHwErr(r) \in BOOLEAN
  BY DEF IsHwErr
<1>9. SumOf(KindSizes(s, IsHwErr(r))) = IF IsHwErr(r) THEN h ELSE c
  BY <1>1, <1>8, KindSums
<1> HIDE DEF t, c, h, v
<1>10. ~(HwErrSum(t) <= HwErrSize) \/ ~(CommonSum(t) <= Capacity - HwErrSize)
  BY <1>5, <1>6, <1>7
<1>11. CASE IsHwErr(r)
  BY <1>1, <1>3, <1>4, <1>7, <1>9, <1>10, <1>11 DEF Quota, v
<1>12. CASE ~IsHwErr(r)
  BY <1>1, <1>3, <1>4, <1>7, <1>9, <1>10, <1>12 DEF Quota, v
<1> QED
  BY <1>11, <1>12

LEMMA ReclaimTold ==
  ASSUME IndInv, RoomInv, job.pc = "place", ~AtRuntime,
         NEW order \in CopyOrders(flash, job.curr, job.inDel),
         ~QuotasHold(Append(Copied(flash, order), Added(job.request)))
  PROVE  RemainingVariableStorageSize(IsHwErr(job.request)) < VarSize(job.request)
<1> DEFINE hwErr == IsHwErr(job.request)
<1>1. job.pc = "place"
  OBVIOUS
<1>2. job.pc \in Pcs /\ job.pc \notin Writing /\ job.pc \notin Deleting
  BY <1>1 DEF Pcs, Deleting, Writing
<1>3. /\ job # Idle /\ ~Appending /\ job.request \in Requests /\ job.request.value \in Data
  BY <1>2, InProgress DEF Progress
<1>4. flash = cache /\ GoodStore(cache) /\ cache \in Seq(Record)
  BY <1>3, NotAppending DEF IndInv, StoreOK, GoodStore
<1>5. /\ order \in CopyOrders(cache, job.curr, job.inDel)
      /\ ~QuotasHold(Append(Copied(cache, order), Added(job.request)))
  BY <1>4
<1>6. job.curr # 0 => cache[job.curr].state = "transition"
  BY <1>1, <1>3 DEF RoomInv
<1>7. GoodStore(Copied(cache, order))
  BY <1>4, <1>5, GoodCopied
<1>8. SumOf(KindSizes(Copied(cache, order), hwErr)) + VarSize(job.request) > Quota(hwErr)
  BY <1>3, <1>5, <1>7, OwnQuota
<1>9. hwErr \in BOOLEAN
  BY DEF IsHwErr
<1>10. /\ SumOf(KindSizes(Copied(cache, order), hwErr)) <= SumOf(ListedSizes(cache, hwErr))
       /\ SumOf(KindSizes(Copied(cache, order), hwErr)) \in Nat
       /\ SumOf(ListedSizes(cache, hwErr)) \in Nat
  BY <1>4, <1>5, <1>6, <1>9, CopiedCounted
<1>11. RemainingVariableStorageSize(hwErr) = Quota(hwErr) - SumOf(ListedSizes(cache, hwErr))
  BY <1>9 DEF RemainingVariableStorageSize, Quota, ListedSizes
<1>12. VarSize(job.request) \in Nat /\ Quota(hwErr) \in Int
  BY <1>3, SizeNat, StoreAssumption DEF Quota
<1> HIDE DEF hwErr
<1>13. RemainingVariableStorageSize(hwErr) < VarSize(job.request)
  BY <1>8, <1>10, <1>11, <1>12
<1> QED
  BY <1>13 DEF hwErr

\* A call that finds no room before the runtime is told so by
\* QueryVariableInfo: what RemainingVariableStorageSize promises can be stored.
THEOREM RoomTold == Spec /\ CleanAppends => SpacePromised
<1>1. ASSUME IndInv, RoomInv, [Next]_vars, status' # status, job # Idle, ~AtRuntime, status' = "no room"
      PROVE  RemainingVariableStorageSize(IsHwErr(Request)) < VarSize(Request)
  <2>1. CASE ReclaimNew
    <3>1. job.pc = "place"
      BY <2>1 DEF ReclaimNew
    <3>2. PICK order \in CopyOrders(flash, job.curr, job.inDel) :
            ~QuotasHold(Append(Copied(flash, order), Added(Request)))
      BY <1>1, <2>1 DEF ReclaimNew, Return
    <3> QED
      BY <1>1, <3>1, <3>2, ReclaimTold DEF Request
  <2>2. ~UNCHANGED vars
    BY <1>1 DEF vars
  <2>3. ~SetVariable
    BY <1>1 DEF SetVariable, RefuseSet, RepeatSet, SetVolatile, StartSet, Calls
  <2>4. ~NoRoomAtRuntime
    BY <1>1 DEF NoRoomAtRuntime
  <2>5. ~(DeleteTransition \/ DeleteCurrent \/ MarkCurrent \/ DropTransition \/ DropCurrent)
    BY <1>1 DEF DeleteTransition, DeleteCurrent, MarkCurrent, DropTransition, DropCurrent, Goto, Return
  <2>6. ~(WriteHeader \/ WriteHeaderState \/ WriteData \/ WriteAdded)
    BY <1>1 DEF WriteHeader, WriteHeaderState, WriteData, WriteAdded, Goto, Return
  <2>7. ~Boot
    BY <1>1 DEF Boot, VariableWriteServiceInitialize, OnEndOfDxe, OnReadyToBoot, ExitBootServices
  <2>8. ~(DeviceError \/ PowerLoss \/ Reboot)
    BY <1>1 DEF DeviceError, PowerLoss, Reboot, Initialized, Return
  <2> QED
    BY <1>1, <2>1, <2>2, <2>3, <2>4, <2>5, <2>6, <2>7, <2>8 DEF Next, UpdateStep
<1>2. IndInv /\ RoomInv /\ [Next]_vars
        => [status' = "no room" /\ job # Idle /\ ~AtRuntime =>
              RemainingVariableStorageSize(IsHwErr(Request)) < VarSize(Request)]_vars
  <2> SUFFICES ASSUME IndInv, RoomInv, [Next]_vars, ~UNCHANGED vars,
                      status' = "no room", job # Idle, ~AtRuntime
               PROVE  RemainingVariableStorageSize(IsHwErr(Request)) < VarSize(Request)
    BY Zenon
  <2>1. status' # status
    BY DEF RoomInv
  <2> QED
    BY <1>1, <2>1
<1> QED
  BY <1>2, RoomInvariant, PTL DEF Spec, SpacePromised
=============================================================================
