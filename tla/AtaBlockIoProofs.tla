-------------------------- MODULE AtaBlockIoProofs --------------------------
(***************************************************************************)
(* Proofs about AtaBlockIo, for every set of devices and requests, every   *)
(* number of commands, errors, failing allocations and resets.             *)
(***************************************************************************)
EXTENDS AtaBlockIo, FiniteSetTheorems, SequenceTheorems, TLAPS

-----------------------------------------------------------------------------
(***************************************************************************)
(* Sequences without repetition.  Once(e, q, S): the elements of S are in  *)
(* one of the sequences e and q each, at one place, and nothing else is.   *)
(***************************************************************************)
Once(e, q, S) ==
  /\ \A i, j \in 1..Len(e) : e[i] = e[j] => i = j
  /\ \A i, j \in 1..Len(q) : q[i] = q[j] => i = j
  /\ \A i \in 1..Len(e), j \in 1..Len(q) : e[i] # q[j]
  /\ \A i \in 1..Len(e) : e[i] \in S
  /\ \A i \in 1..Len(q) : q[i] \in S
  /\ \A x \in S : (\E i \in 1..Len(e) : e[i] = x) \/ (\E i \in 1..Len(q) : q[i] = x)

LEMMA OnceIs ==
  ASSUME NEW X, NEW e \in Seq(X), NEW q \in Seq(X), NEW S
  PROVE  LET all == e \o q
         IN  /\ \A i, j \in DOMAIN all : all[i] = all[j] => i = j
             /\ {all[i] : i \in DOMAIN all} = S
             <=> Once(e, q, S)
<1> DEFINE all == e \o q
<1>1. /\ DOMAIN all = 1..(Len(e) + Len(q)) /\ Len(e) \in Nat /\ Len(q) \in Nat
      /\ \A i \in 1..Len(e) : i \in DOMAIN all /\ all[i] = e[i]
      /\ \A i \in 1..Len(q) : Len(e) + i \in DOMAIN all /\ all[Len(e) + i] = q[i]
      /\ \A i \in DOMAIN all : i \notin 1..Len(e) => i - Len(e) \in 1..Len(q) /\ all[i] = q[i - Len(e)]
  OBVIOUS
<1> HIDE DEF all
<1>2. ASSUME \A i, j \in DOMAIN all : all[i] = all[j] => i = j,
             {all[i] : i \in DOMAIN all} = S
      PROVE  Once(e, q, S)
  <2>1. \A i, j \in 1..Len(e) : e[i] = e[j] => i = j
    BY <1>1, <1>2
  <2>2. ASSUME NEW i \in 1..Len(q), NEW j \in 1..Len(q), q[i] = q[j]
        PROVE  i = j
    <3>1. Len(e) + i = Len(e) + j
      BY <1>1, <1>2, <2>2
    <3> QED
      BY <3>1, <1>1
  <2>3. ASSUME NEW i \in 1..Len(e), NEW j \in 1..Len(q), e[i] = q[j]
        PROVE  FALSE
    <3>1. i = Len(e) + j
      BY <1>1, <1>2, <2>3
    <3> QED
      BY <3>1, <1>1
  <2>4. \A i \in DOMAIN all : all[i] \in S
    BY <1>2
  <2>5. \A x \in S : \E i \in DOMAIN all : all[i] = x
    BY <1>2
  <2>6. ASSUME NEW x \in S
        PROVE  (\E i \in 1..Len(e) : e[i] = x) \/ (\E i \in 1..Len(q) : q[i] = x)
    BY <2>5, <1>1
  <2> QED
    BY <2>1, <2>2, <2>3, <2>4, <2>6, <1>1 DEF Once
<1>3. ASSUME Once(e, q, S)
      PROVE  /\ \A i, j \in DOMAIN all : all[i] = all[j] => i = j
             /\ {all[i] : i \in DOMAIN all} = S
  <2>1. ASSUME NEW i \in DOMAIN all, NEW j \in DOMAIN all, all[i] = all[j]
        PROVE  i = j
    <3>1. CASE i \in 1..Len(e) /\ j \in 1..Len(e)
      BY <3>1, <2>1, <1>1, <1>3 DEF Once
    <3>2. CASE i \notin 1..Len(e) /\ j \notin 1..Len(e)
      <4>1. i - Len(e) = j - Len(e)
        BY <3>2, <2>1, <1>1, <1>3 DEF Once
      <4> QED
        BY <4>1, <1>1
    <3>3. CASE i \in 1..Len(e) /\ j \notin 1..Len(e)
      BY <3>3, <2>1, <1>1, <1>3 DEF Once
    <3>4. CASE i \notin 1..Len(e) /\ j \in 1..Len(e)
      BY <3>4, <2>1, <1>1, <1>3 DEF Once
    <3> QED
      BY <3>1, <3>2, <3>3, <3>4
  <2>2. \A i \in DOMAIN all : all[i] \in S
    BY <1>1, <1>3 DEF Once
  <2>3. ASSUME NEW x \in S
        PROVE  \E i \in DOMAIN all : all[i] = x
    <3>1. CASE \E i \in 1..Len(e) : e[i] = x
      BY <3>1, <1>1
    <3>2. CASE \E i \in 1..Len(q) : q[i] = x
      <4>1. PICK i \in 1..Len(q) : q[i] = x
        BY <3>2
      <4>2. Len(e) + i \in DOMAIN all /\ all[Len(e) + i] = x
        BY <4>1, <1>1
      <4> QED
        BY <4>2
    <3> QED
      BY <3>1, <3>2, <1>3 DEF Once
  <2> QED
    BY <2>1, <2>2, <2>3
<1> QED
  BY <1>2, <1>3 DEF all

LEMMA OnceAppend ==
  ASSUME NEW X, NEW e \in Seq(X), NEW q \in Seq(X), NEW S, NEW x \in X,
         Once(e, q, S), x \notin S
  PROVE  Once(Append(e, x), q, S \cup {x})
<1>1. /\ Len(Append(e, x)) = Len(e) + 1 /\ Len(e) \in Nat
      /\ \A i \in 1..Len(e) : Append(e, x)[i] = e[i]
      /\ Append(e, x)[Len(e) + 1] = x
  OBVIOUS
<1> HIDE DEF Once
<1>2. \A i \in 1..(Len(e) + 1) : i \in 1..Len(e) \/ i = Len(e) + 1
  BY <1>1
<1> QED
  BY <1>1, <1>2, SMTT(30) DEF Once

LEMMA OnceTail ==
  ASSUME NEW X, NEW e \in Seq(X), NEW q \in Seq(X), NEW S,
         Once(e, q, S), q # <<>>
  PROVE  Head(q) \in S /\ Once(e, Tail(q), S \ {Head(q)})
<1>1. /\ Len(Tail(q)) = Len(q) - 1 /\ Len(q) \in Nat \ {0} /\ Head(q) = q[1]
      /\ \A i \in 1..(Len(q) - 1) : Tail(q)[i] = q[i + 1] /\ i + 1 \in 1..Len(q)
      /\ \A i \in 1..Len(q) : i # 1 => i - 1 \in 1..(Len(q) - 1) /\ Tail(q)[i - 1] = q[i]
  OBVIOUS
<1>2. Head(q) \in S
  BY <1>1 DEF Once
<1>3. ASSUME NEW y \in S, y # Head(q)
      PROVE  (\E i \in 1..Len(e) : e[i] = y) \/ (\E i \in 1..Len(Tail(q)) : Tail(q)[i] = y)
  <2>1. CASE \E i \in 1..Len(e) : e[i] = y
    BY <2>1
  <2>2. CASE \E i \in 1..Len(q) : q[i] = y
    BY <2>2, <1>1, <1>3
  <2> QED
    BY <2>1, <2>2, <1>3 DEF Once
<1>4. \A i \in 1..Len(Tail(q)) : Tail(q)[i] \in S /\ Tail(q)[i] # Head(q)
  <2> SUFFICES ASSUME NEW i \in 1..Len(Tail(q))
               PROVE  Tail(q)[i] \in S /\ Tail(q)[i] # Head(q)
    OBVIOUS
  <2>1. i \in 1..(Len(q) - 1) /\ i + 1 \in 1..Len(q) /\ Tail(q)[i] = q[i + 1] /\ i + 1 # 1 /\ 1 \in 1..Len(q)
    BY <1>1
  <2> QED
    BY <2>1, <1>1 DEF Once
<1>5. \A i, j \in 1..Len(Tail(q)) : Tail(q)[i] = Tail(q)[j] => i = j
  <2> SUFFICES ASSUME NEW i \in 1..Len(Tail(q)), NEW j \in 1..Len(Tail(q)), Tail(q)[i] = Tail(q)[j]
               PROVE  i = j
    OBVIOUS
  <2>1. i + 1 \in 1..Len(q) /\ j + 1 \in 1..Len(q) /\ q[i + 1] = q[j + 1]
    BY <1>1
  <2>2. i + 1 = j + 1
    BY <2>1 DEF Once
  <2> QED
    BY <2>2
<1>6. \A i \in 1..Len(e), j \in 1..Len(Tail(q)) : e[i] # Tail(q)[j]
  BY <1>1 DEF Once
<1>7. \A i \in 1..Len(e) : e[i] \in S /\ e[i] # Head(q)
  BY <1>1 DEF Once
<1> QED
  BY <1>2, <1>3, <1>4, <1>5, <1>6, <1>7 DEF Once

LEMMA OnceMove ==
  ASSUME NEW X, NEW e \in Seq(X), NEW q \in Seq(X), NEW S, NEW n \in 0..Len(e),
         Once(e, q, S)
  PROVE  Once(SubSeq(e, n + 1, Len(e)), q \o SubSeq(e, 1, n), S)
<1> DEFINE f == SubSeq(e, n + 1, Len(e))
           g == q \o SubSeq(e, 1, n)
<1>1. /\ Len(e) \in Nat /\ Len(q) \in Nat /\ n \in Nat
      /\ Len(f) = Len(e) - n
      /\ \A i \in 1..Len(f) : i + n \in 1..Len(e) /\ f[i] = e[i + n]
  OBVIOUS
<1>2. Len(SubSeq(e, 1, n)) = n /\ \A i \in 1..n : SubSeq(e, 1, n)[i] = e[i]
  OBVIOUS
<1>3. SubSeq(e, 1, n) \in Seq(X)
  OBVIOUS
<1>4. /\ Len(g) = Len(q) + n
      /\ \A i \in 1..Len(q) : i \in 1..Len(g) /\ g[i] = q[i]
      /\ \A i \in 1..n : i + Len(q) \in 1..Len(g) /\ g[i + Len(q)] = e[i]
      /\ \A i \in 1..Len(g) : i \notin 1..Len(q) => i - Len(q) \in 1..n /\ g[i] = e[i - Len(q)]
  BY <1>1, <1>2, <1>3
<1>5. \A i \in 1..Len(e) : i \notin 1..n => i - n \in 1..Len(f) /\ f[i - n] = e[i]
  BY <1>1
<1>6. \A i \in 1..n : i \in 1..Len(e)
  BY <1>1
<1> HIDE DEF f, g
<1>7. \A i, j \in 1..Len(f) : f[i] = f[j] => i = j
  <2> SUFFICES ASSUME NEW i \in 1..Len(f), NEW j \in 1..Len(f), f[i] = f[j] PROVE i = j
    OBVIOUS
  <2>1. i + n = j + n
    BY <1>1 DEF Once
  <2> QED
    BY <2>1, <1>1
<1>8. \A i, j \in 1..Len(g) : g[i] = g[j] => i = j
  <2> SUFFICES ASSUME NEW i \in 1..Len(g), NEW j \in 1..Len(g), g[i] = g[j] PROVE i = j
    OBVIOUS
  <2>1. CASE i \in 1..Len(q) /\ j \in 1..Len(q)
    BY <2>1, <1>4 DEF Once
  <2>2. CASE i \in 1..Len(q) /\ j \notin 1..Len(q)
    BY <2>2, <1>4, <1>6 DEF Once
  <2>3. CASE i \notin 1..Len(q) /\ j \in 1..Len(q)
    BY <2>3, <1>4, <1>6 DEF Once
  <2>4. CASE i \notin 1..Len(q) /\ j \notin 1..Len(q)
    <3>1. i - Len(q) = j - Len(q)
      BY <2>4, <1>4, <1>6 DEF Once
    <3> QED
      BY <3>1, <1>1, <1>4
  <2> QED
    BY <2>1, <2>2, <2>3, <2>4
<1>9. \A i \in 1..Len(f), j \in 1..Len(g) : f[i] # g[j]
  <2> SUFFICES ASSUME NEW i \in 1..Len(f), NEW j \in 1..Len(g), f[i] = g[j] PROVE FALSE
    OBVIOUS
  <2>1. CASE j \in 1..Len(q)
    BY <2>1, <1>1, <1>4 DEF Once
  <2>2. CASE j \notin 1..Len(q)
    <3>1. j - Len(q) \in 1..n /\ e[j - Len(q)] = e[i + n]
      BY <2>2, <1>1, <1>4
    <3>2. j - Len(q) = i + n
      BY <3>1, <1>1, <1>6 DEF Once
    <3> QED
      BY <3>1, <3>2, <1>1
  <2> QED
    BY <2>1, <2>2
<1>10. \A i \in 1..Len(f) : f[i] \in S
  BY <1>1 DEF Once
<1>11. \A i \in 1..Len(g) : g[i] \in S
  BY <1>4, <1>6 DEF Once
<1>12. ASSUME NEW x \in S
       PROVE  (\E i \in 1..Len(f) : f[i] = x) \/ (\E i \in 1..Len(g) : g[i] = x)
  <2>1. CASE \E i \in 1..Len(e) : e[i] = x
    <3>1. PICK i \in 1..Len(e) : e[i] = x
      BY <2>1
    <3>2. CASE i \in 1..n
      <4>1. i + Len(q) \in 1..Len(g) /\ g[i + Len(q)] = x
        BY <3>1, <3>2, <1>4
      <4> QED
        BY <4>1
    <3>3. CASE i \notin 1..n
      <4>1. i - n \in 1..Len(f) /\ f[i - n] = x
        BY <3>1, <3>3, <1>5
      <4> QED
        BY <4>1
    <3> QED
      BY <3>2, <3>3
  <2>2. CASE \E i \in 1..Len(q) : q[i] = x
    BY <2>2, <1>4
  <2> QED
    BY <2>1, <2>2 DEF Once
<1>13. Once(f, g, S)
  BY <1>7, <1>8, <1>9, <1>10, <1>11, <1>12 DEF Once
<1> QED
  BY <1>13 DEF f, g

LEMMA OnceConcat ==
  ASSUME NEW X, NEW e \in Seq(X), NEW q \in Seq(X), NEW f \in Seq(X), NEW S, NEW T,
         Once(e, q, S), Once(f, <<>>, T), S \cap T = {}
  PROVE  Once(e \o f, q, S \cup T)
<1> DEFINE g == e \o f
<1>1. /\ Len(e) \in Nat /\ Len(f) \in Nat /\ Len(g) = Len(e) + Len(f)
      /\ \A i \in 1..Len(e) : i \in 1..Len(g) /\ g[i] = e[i]
      /\ \A i \in 1..Len(f) : i + Len(e) \in 1..Len(g) /\ g[i + Len(e)] = f[i]
      /\ \A i \in 1..Len(g) : i \notin 1..Len(e) => i - Len(e) \in 1..Len(f) /\ g[i] = f[i - Len(e)]
  OBVIOUS
<1> HIDE DEF g
<1>2. \A x \in T : \E i \in 1..Len(f) : f[i] = x
  <2>1. \A i \in 1..Len(<<>>) : FALSE
    OBVIOUS
  <2> QED
    BY <2>1 DEF Once
<1>3. \A i, j \in 1..Len(g) : g[i] = g[j] => i = j
  <2> SUFFICES ASSUME NEW i \in 1..Len(g), NEW j \in 1..Len(g), g[i] = g[j] PROVE i = j
    OBVIOUS
  <2>1. CASE i \in 1..Len(e) /\ j \in 1..Len(e)
    BY <2>1, <1>1 DEF Once
  <2>2. CASE i \in 1..Len(e) /\ j \notin 1..Len(e)
    BY <2>2, <1>1 DEF Once
  <2>3. CASE i \notin 1..Len(e) /\ j \in 1..Len(e)
    BY <2>3, <1>1 DEF Once
  <2>4. CASE i \notin 1..Len(e) /\ j \notin 1..Len(e)
    <3>1. i - Len(e) \in 1..Len(f) /\ j - Len(e) \in 1..Len(f) /\ f[i - Len(e)] = f[j - Len(e)]
      BY <2>4, <1>1
    <3>2. i - Len(e) = j - Len(e)
      BY <3>1 DEF Once
    <3> QED
      BY <3>2, <1>1
  <2> QED
    BY <2>1, <2>2, <2>3, <2>4
<1>4. ASSUME NEW i \in 1..Len(g), NEW j \in 1..Len(q), g[i] = q[j]
      PROVE  FALSE
  <2>1. CASE i \in 1..Len(e)
    BY <2>1, <1>1, <1>4 DEF Once
  <2>2. CASE i \notin 1..Len(e)
    <3>1. q[j] \in T
      BY <2>2, <1>1, <1>4 DEF Once
    <3>2. q[j] \in S
      BY DEF Once
    <3> QED
      BY <3>1, <3>2
  <2> QED
    BY <2>1, <2>2
<1>5. \A i \in 1..Len(g) : g[i] \in S \cup T
  BY <1>1 DEF Once
<1>6. ASSUME NEW x \in S \cup T
      PROVE  (\E i \in 1..Len(g) : g[i] = x) \/ (\E i \in 1..Len(q) : q[i] = x)
  <2>1. CASE \E i \in 1..Len(e) : e[i] = x
    BY <2>1, <1>1
  <2>2. CASE \E i \in 1..Len(f) : f[i] = x
    <3>1. PICK i \in 1..Len(f) : f[i] = x
      BY <2>2
    <3>2. i + Len(e) \in 1..Len(g) /\ g[i + Len(e)] = x
      BY <3>1, <1>1
    <3> QED
      BY <3>2
  <2>3. CASE \E i \in 1..Len(q) : q[i] = x
    BY <2>3
  <2> QED
    BY <2>1, <2>2, <2>3, <1>2 DEF Once
<1>7. Once(g, q, S \cup T)
  BY <1>3, <1>4, <1>5, <1>6 DEF Once
<1> QED
  BY <1>7 DEF g

-----------------------------------------------------------------------------
(***************************************************************************)
(* Commands and marks, and the subtasks they are for.                      *)
(***************************************************************************)
Pairs == Requests \X Nat
Tasks == [sub : Pairs, RetryTimes : 1..RetryTimes]
Marks == [sub : Pairs, failed : BOOLEAN]

SubOf(s) == [i \in DOMAIN s |-> s[i].sub]

LEMMA SubOfIs ==
  ASSUME NEW R, NEW s \in Seq(R), \A x \in R : x.sub \in Pairs
  PROVE  /\ SubOf(s) \in Seq(Pairs) /\ Len(SubOf(s)) = Len(s)
         /\ \A i \in 1..Len(s) : SubOf(s)[i] = s[i].sub
<1>1. DOMAIN s = 1..Len(s) /\ Len(s) \in Nat /\ \A i \in 1..Len(s) : s[i] \in R
  OBVIOUS
<1>2. SubOf(s) = [i \in 1..Len(s) |-> s[i].sub]
  BY <1>1 DEF SubOf
<1>3. \A i \in 1..Len(s) : s[i].sub \in Pairs
  BY <1>1
<1> QED
  BY <1>1, <1>2, <1>3

LEMMA SubOfConcat ==
  ASSUME NEW R, NEW s \in Seq(R), NEW t \in Seq(R), \A x \in R : x.sub \in Pairs
  PROVE  SubOf(s \o t) = SubOf(s) \o SubOf(t)
<1>1. s \o t \in Seq(R) /\ Len(s \o t) = Len(s) + Len(t)
  OBVIOUS
<1>2. /\ SubOf(s) \in Seq(Pairs) /\ SubOf(t) \in Seq(Pairs) /\ SubOf(s \o t) \in Seq(Pairs)
      /\ Len(SubOf(s)) = Len(s) /\ Len(SubOf(t)) = Len(t)
      /\ Len(SubOf(s \o t)) = Len(s) + Len(t)
  BY <1>1, SubOfIs
<1>3. /\ SubOf(s) \o SubOf(t) \in Seq(Pairs) /\ Len(SubOf(s) \o SubOf(t)) = Len(s) + Len(t)
      /\ \A i \in 1..(Len(s) + Len(t)) :
           (SubOf(s) \o SubOf(t))[i] = IF i <= Len(s) THEN SubOf(s)[i] ELSE SubOf(t)[i - Len(s)]
  <2> DEFINE a == SubOf(s)
             b == SubOf(t)
  <2>1. a \in Seq(Pairs) /\ b \in Seq(Pairs) /\ Len(a) = Len(s) /\ Len(b) = Len(t)
    BY <1>2
  <2> HIDE DEF a, b
  <2>2. /\ a \o b \in Seq(Pairs) /\ Len(a \o b) = Len(a) + Len(b)
        /\ \A i \in 1..(Len(a) + Len(b)) : (a \o b)[i] = IF i <= Len(a) THEN a[i] ELSE b[i - Len(a)]
    BY <2>1, ConcatProperties
  <2>3. /\ a \o b \in Seq(Pairs) /\ Len(a \o b) = Len(s) + Len(t)
        /\ \A i \in 1..(Len(s) + Len(t)) : (a \o b)[i] = IF i <= Len(s) THEN a[i] ELSE b[i - Len(s)]
    BY <2>1, <2>2
  <2> QED
    BY <2>3 DEF a, b
<1>4. \A i \in 1..(Len(s) + Len(t)) : SubOf(s \o t)[i] = (SubOf(s) \o SubOf(t))[i]
  <2> SUFFICES ASSUME NEW i \in 1..(Len(s) + Len(t))
               PROVE  SubOf(s \o t)[i] = (SubOf(s) \o SubOf(t))[i]
    OBVIOUS
  <2>1. SubOf(s \o t)[i] = (s \o t)[i].sub
    BY <1>1, SubOfIs
  <2>2. CASE i <= Len(s)
    <3>1. (s \o t)[i] = s[i] /\ i \in 1..Len(s)
      BY <2>2
    <3>2. (SubOf(s) \o SubOf(t))[i] = SubOf(s)[i]
      BY <2>2, <1>3
    <3>3. SubOf(s)[i] = s[i].sub
      BY <3>1, SubOfIs
    <3> QED
      BY <3>1, <3>2, <3>3, <2>1
  <2>3. CASE i > Len(s)
    <3>1. PICK k \in 1..Len(t) : k = i - Len(s) /\ (s \o t)[i] = t[k]
      BY <2>3
    <3>2. (SubOf(s) \o SubOf(t))[i] = SubOf(t)[k]
      BY <2>3, <1>3, <3>1
    <3>3. SubOf(t)[k] = t[k].sub
      BY <3>1, SubOfIs
    <3> QED
      BY <3>1, <3>2, <3>3, <2>1
  <2>4. i <= Len(s) \/ i > Len(s)
    <3>1. Len(s) \in Nat /\ i \in Int
      OBVIOUS
    <3> QED
      BY <3>1
  <2> QED
    BY <2>2, <2>3, <2>4
<1> QED
  BY <1>2, <1>3, <1>4, SeqEqual

LEMMA SubOfSubSeq ==
  ASSUME NEW R, NEW s \in Seq(R), NEW m \in Nat \ {0}, NEW n \in 0..Len(s), \A x \in R : x.sub \in Pairs
  PROVE  SubSeq(s, m, n) \in Seq(R) /\ SubOf(SubSeq(s, m, n)) = SubSeq(SubOf(s), m, n)
<1> DEFINE l == IF m <= n THEN n - m + 1 ELSE 0
<1>1. /\ SubSeq(s, m, n) \in Seq(R) /\ Len(SubSeq(s, m, n)) = l /\ l \in Nat
      /\ \A i \in 1..l : SubSeq(s, m, n)[i] = s[m + i - 1] /\ m + i - 1 \in 1..Len(s)
  OBVIOUS
<1>2. SubOf(s) \in Seq(Pairs) /\ Len(SubOf(s)) = Len(s)
  BY SubOfIs
<1>3. /\ SubSeq(SubOf(s), m, n) \in Seq(Pairs) /\ Len(SubSeq(SubOf(s), m, n)) = l
      /\ \A i \in 1..l : SubSeq(SubOf(s), m, n)[i] = SubOf(s)[m + i - 1]
  BY <1>2
<1>4. /\ SubOf(SubSeq(s, m, n)) \in Seq(Pairs) /\ Len(SubOf(SubSeq(s, m, n))) = l
      /\ \A i \in 1..l : SubOf(SubSeq(s, m, n))[i] = SubSeq(s, m, n)[i].sub
  BY <1>1, SubOfIs
<1> HIDE DEF l
<1>5. ASSUME NEW i \in 1..l
      PROVE  SubOf(SubSeq(s, m, n))[i] = SubSeq(SubOf(s), m, n)[i]
  <2>1. m + i - 1 \in 1..Len(s) /\ SubSeq(s, m, n)[i] = s[m + i - 1]
    BY <1>1
  <2>2. SubOf(s)[m + i - 1] = s[m + i - 1].sub
    BY <2>1, SubOfIs
  <2>3. SubSeq(SubOf(s), m, n)[i] = SubOf(s)[m + i - 1]
    BY <1>3
  <2>4. SubOf(SubSeq(s, m, n))[i] = SubSeq(s, m, n)[i].sub
    BY <1>4
  <2> QED
    BY <2>1, <2>2, <2>3, <2>4
<1> QED
  BY <1>1, <1>3, <1>4, <1>5, SeqEqual

LEMMA SubOfEmpty == SubOf(<<>>) = <<>>
BY DEF SubOf

LEMMA SubOfTail ==
  ASSUME NEW R, NEW s \in Seq(R), s # <<>>, \A x \in R : x.sub \in Pairs
  PROVE  /\ Tail(s) \in Seq(R) /\ SubOf(Tail(s)) = Tail(SubOf(s)) /\ SubOf(s) # <<>>
         /\ Head(s) \in R /\ Head(SubOf(s)) = Head(s).sub
<1>1. Tail(s) = SubSeq(s, 2, Len(s)) /\ Len(s) \in Nat \ {0} /\ Tail(s) \in Seq(R)
      /\ Head(s) = s[1] /\ 1 \in 1..Len(s) /\ Head(s) \in R
  OBVIOUS
<1>2. SubOf(s) \in Seq(Pairs) /\ Len(SubOf(s)) = Len(s) /\ SubOf(s)[1] = s[1].sub
  BY <1>1, SubOfIs
<1>3. SubOf(s) # <<>> /\ Tail(SubOf(s)) = SubSeq(SubOf(s), 2, Len(SubOf(s))) /\ Head(SubOf(s)) = SubOf(s)[1]
  BY <1>1, <1>2
<1>4. SubOf(SubSeq(s, 2, Len(s))) = SubSeq(SubOf(s), 2, Len(s))
  <2>1. 2 \in Nat \ {0} /\ Len(s) \in 0..Len(s)
    BY <1>1
  <2> QED
    BY <2>1, SubOfSubSeq
<1> QED
  BY <1>1, <1>2, <1>3, <1>4

LEMMA TaskIs ==
  /\ \A x \in Tasks : x.sub \in Pairs
  /\ \A x \in Marks : x.sub \in Pairs
  /\ \A x \in Pairs : Task(x) \in Tasks /\ Task(x).sub = x
BY AtaAssumption DEF Tasks, Marks, Task

LEMMA EndedIs ==
  ASSUME NEW s \in Seq(Tasks), NEW b \in BOOLEAN
  PROVE  /\ Ended(s, b) \in Seq(Marks) /\ Len(Ended(s, b)) = Len(s)
         /\ SubOf(Ended(s, b)) = SubOf(s)
         /\ \A i \in 1..Len(s) : Ended(s, b)[i] = [sub |-> s[i].sub, failed |-> b]
<1>1. DOMAIN s = 1..Len(s) /\ Len(s) \in Nat /\ \A i \in 1..Len(s) : s[i] \in Tasks
  OBVIOUS
<1>2. Ended(s, b) = [i \in 1..Len(s) |-> [sub |-> s[i].sub, failed |-> b]]
  BY <1>1 DEF Ended
<1>3. \A i \in 1..Len(s) : [sub |-> s[i].sub, failed |-> b] \in Marks
  BY <1>1, TaskIs DEF Marks
<1>4. /\ Ended(s, b) \in Seq(Marks) /\ Len(Ended(s, b)) = Len(s)
      /\ \A i \in 1..Len(s) : Ended(s, b)[i] = [sub |-> s[i].sub, failed |-> b]
  BY <1>1, <1>2, <1>3
<1>5. /\ SubOf(s) \in Seq(Pairs) /\ SubOf(Ended(s, b)) \in Seq(Pairs)
      /\ Len(SubOf(s)) = Len(s) /\ Len(SubOf(Ended(s, b))) = Len(s)
      /\ \A i \in 1..Len(s) : SubOf(s)[i] = s[i].sub /\ SubOf(Ended(s, b))[i] = Ended(s, b)[i].sub
  BY <1>4, TaskIs, SubOfIs
<1>6. ASSUME NEW i \in 1..Len(s)
      PROVE  SubOf(s)[i] = SubOf(Ended(s, b))[i]
  <2>1. SubOf(s)[i] = s[i].sub /\ SubOf(Ended(s, b))[i] = Ended(s, b)[i].sub
    BY <1>5
  <2>2. Ended(s, b)[i] = [sub |-> s[i].sub, failed |-> b]
    BY <1>4
  <2> QED
    BY <2>1, <2>2
<1> QED
  BY <1>4, <1>5, <1>6, SeqEqual

-----------------------------------------------------------------------------
(***************************************************************************)
(* The inductive invariant.                                                *)
(***************************************************************************)
CallPcs  == {"subtask", "transfer", "exit"}
BlockPcs == {"wait", "push", "command"}
ResetPcs == {"drain", "clear"}

InCall    == caller.pc \in CallPcs
Making(r) == InCall /\ caller.req = r

\* The subtask that the caller has not handed down yet.
Held  == IF caller.pc \in {"transfer", "exit"} THEN {<<caller.req, caller.part>>} ELSE {}
Under == UNION {AtaSubTaskList[d] : d \in Devices}

OneCommand == Once(Entries, Queued, Under \ Held)

\* The subtasks of a device are parts of one request of its, and those of the
\* request being made are the ones its caller has come to.
SubsOK ==
  \A d \in Devices :
    /\ IsFiniteSet(AtaSubTaskList[d])
    /\ \A s, t \in AtaSubTaskList[d] : s[1] = t[1]
    /\ \A s \in AtaSubTaskList[d] :
         /\ s \in Pairs /\ s[1] \in Requests \ Blocking /\ Device[s[1]] = d
         /\ s[2] \in 1..Parts[s[1]]
         /\ Making(s[1]) =>
              s[2] < caller.part \/ (caller.pc # "subtask" /\ s[2] = caller.part)

CallerOK ==
  \A r \in Requests : Making(r) =>
    /\ returned[r] = "no" /\ ~IsError[r]
    /\ caller.pc = "transfer" => <<r, caller.part>> \in AtaSubTaskList[Device[r]]
    /\ \A s \in AtaSubTaskList[Device[r]] : s[1] = r

\* What waits was accepted, once, and has not begun.
QueueOK ==
  \A d \in Devices : \A i \in 1..Len(AtaTaskList[d]) :
    LET q == AtaTaskList[d][i]
    IN  /\ q \in Requests \ Blocking /\ Device[q] = d /\ q \notin allocated
        /\ returned[q] = "success" /\ Token[q].signals = 0
        /\ \A j \in 1..Len(AtaTaskList[d]) : AtaTaskList[d][j] = q => i = j

Waits(r) == \E i \in 1..Len(AtaTaskList[Device[r]]) : AtaTaskList[Device[r]][i] = r

TokenOK ==
  \A r \in Requests :
    /\ Token[r].signals <= 1
    /\ returned[r] # "success" => Token[r].signals = 0
    /\ returned[r] = "error" /\ r \in allocated => IsError[r]
    /\ r \in allocated /\ ~IsError[r] => Token[r].signals = 0
    /\ r \in allocated /\ returned[r] = "no" => Making(r)
    /\ returned[r] = "success" /\ r \notin Blocking =>
         Token[r].signals = 1 \/ (r \in allocated /\ ~IsError[r]) \/ Waits(r)

\* A part of a request that was transferred, is under way or is to come.
Part(r, i) ==
  \/ <<r, i>> \in moved
  \/ <<r, i>> \in AtaSubTaskList[Device[r]]
  \/ Making(r) /\ i >= caller.part

WholeOK ==
  /\ \A i \in 1..Len(signalled) : ~signalled[i].failed => signalled[i].sub \in moved
  /\ \A r \in Requests \ Blocking : Token[r].status = "success" =>
       /\ r \in allocated => ~IsError[r] /\ \A i \in 1..Parts[r] : Part(r, i)
       /\ Token[r].signals = 1 => \A i \in 1..Parts[r] : <<r, i>> \in moved
  /\ caller.pc \in {"push", "command"} => \A i \in 1..(caller.part - 1) : <<caller.req, i>> \in moved
  /\ caller.pc = "wait" => caller.part = 1
  /\ caller.pc \in BlockPcs => returned[caller.req] = "no"
  /\ \A r \in Blocking : returned[r] = "success" => \A i \in 1..Parts[r] : <<r, i>> \in moved

ResetOK ==
  /\ caller.pc \in ResetPcs => AtaTaskList[caller.dev] = <<>>
  /\ caller.pc = "clear" => AtaSubTaskList[caller.dev] = {}

IndInv ==
  /\ TypeOK /\ SubsOK /\ CountedOut /\ OneCommand
  /\ CallerOK /\ QueueOK /\ TokenOK /\ WholeOK /\ ResetOK

-----------------------------------------------------------------------------
LEMMA ConstantsAre ==
  /\ \A r \in Requests : Device[r] \in Devices /\ Parts[r] \in Nat \ {0}
  /\ Blocking \subseteq Requests /\ RetryTimes \in Nat \ {0}
  /\ MaxErrors \in Nat /\ MaxFaults \in Nat /\ MaxResets \in Nat
BY AtaAssumption

CallerType ==
  \/ caller = Idle
  \/ \E pc \in {"subtask", "transfer", "exit"} : \E r \in Requests \ Blocking :
       \E k \in 1..Parts[r] : caller = At(pc, r, k)
  \/ \E pc \in {"wait", "push", "command"} : \E r \in Blocking :
       \E k \in 1..Parts[r] : caller = At(pc, r, k)
  \/ \E pc \in {"drain", "clear"}, d \in Devices : caller = [pc |-> pc, dev |-> d]

LEMMA AtIs ==
  ASSUME NEW pc, NEW r, NEW k
  PROVE  /\ At(pc, r, k).pc = pc /\ At(pc, r, k).req = r /\ At(pc, r, k).part = k
         /\ \A x : [At(pc, r, k) EXCEPT !.pc = x] = At(x, r, k)
BY DEF At

LEMMA CallerIs ==
  ASSUME CallerType
  PROVE  /\ caller.pc \in {"idle"} \cup CallPcs \cup BlockPcs \cup ResetPcs
         /\ caller.pc = "idle" <=> caller = Idle
         /\ InCall => /\ caller.req \in Requests \ Blocking /\ caller.part \in 1..Parts[caller.req]
                      /\ caller = At(caller.pc, caller.req, caller.part)
         /\ caller.pc \in BlockPcs =>
              /\ caller.req \in Blocking /\ caller.part \in 1..Parts[caller.req]
              /\ caller = At(caller.pc, caller.req, caller.part)
         /\ caller.pc \in ResetPcs =>
              /\ caller.dev \in Devices
              /\ \A x : [caller EXCEPT !.pc = x] = [pc |-> x, dev |-> caller.dev]
<1>0. Idle.pc = "idle"
  BY DEF Idle
<1>1. CASE caller = Idle
  BY <1>0, <1>1 DEF CallPcs, BlockPcs, ResetPcs, InCall
<1>2. CASE \E pc \in {"subtask", "transfer", "exit"} : \E r \in Requests \ Blocking :
             \E k \in 1..Parts[r] : caller = At(pc, r, k)
  <2>1. PICK pc \in {"subtask", "transfer", "exit"}, r \in Requests \ Blocking : \E k \in 1..Parts[r] : caller = At(pc, r, k)
    BY <1>2
  <2>2. PICK k \in 1..Parts[r] : caller = At(pc, r, k)
    BY <2>1
  <2>3. caller.pc = pc /\ caller.req = r /\ caller.part = k
    BY <2>2, AtIs
  <2> QED
    BY <1>0, <2>1, <2>2, <2>3 DEF CallPcs, BlockPcs, ResetPcs, InCall
<1>3. CASE \E pc \in {"wait", "push", "command"} : \E r \in Blocking :
             \E k \in 1..Parts[r] : caller = At(pc, r, k)
  <2>1. PICK pc \in {"wait", "push", "command"}, r \in Blocking : \E k \in 1..Parts[r] : caller = At(pc, r, k)
    BY <1>3
  <2>2. PICK k \in 1..Parts[r] : caller = At(pc, r, k)
    BY <2>1
  <2>3. caller.pc = pc /\ caller.req = r /\ caller.part = k
    BY <2>2, AtIs
  <2> QED
    BY <1>0, <2>1, <2>2, <2>3 DEF CallPcs, BlockPcs, ResetPcs, InCall
<1>4. CASE \E pc \in {"drain", "clear"}, d \in Devices : caller = [pc |-> pc, dev |-> d]
  <2>1. PICK pc \in {"drain", "clear"}, d \in Devices : caller = [pc |-> pc, dev |-> d]
    BY <1>4
  <2>2. caller.pc = pc /\ caller.dev = d /\ \A x : [caller EXCEPT !.pc = x] = [pc |-> x, dev |-> d]
    BY <2>1
  <2> QED
    BY <1>0, <2>1, <2>2 DEF CallPcs, BlockPcs, ResetPcs, InCall
<1> QED
  BY <1>1, <1>2, <1>3, <1>4 DEF CallerType

LEMMA SequencesAre ==
  ASSUME TypeOK
  PROVE  /\ CallerType
         /\ NonBlockingTaskList \in Seq(Tasks) /\ signalled \in Seq(Marks)
         /\ Entries = SubOf(NonBlockingTaskList) /\ Queued = SubOf(signalled)
         /\ Entries \in Seq(Pairs) /\ Queued \in Seq(Pairs)
         /\ Len(Entries) = Len(NonBlockingTaskList) /\ Len(Queued) = Len(signalled)
         /\ \A i \in 1..Len(signalled) : Queued[i] = signalled[i].sub
<1>1. CallerType
  BY DEF TypeOK, CallerType
<1>2. NonBlockingTaskList \in Seq(Tasks) /\ signalled \in Seq(Marks)
  BY DEF TypeOK, Tasks, Marks, Pairs
<1>3. Entries = SubOf(NonBlockingTaskList) /\ Queued = SubOf(signalled)
  BY DEF Entries, Queued, SubOf
<1> QED
  BY <1>1, <1>2, <1>3, SubOfIs, TaskIs

LEMMA CountsAre ==
  ASSUME SubsOK, NEW r \in Requests
  PROVE  /\ Outstanding(r) \subseteq AtaSubTaskList[Device[r]]
         /\ IsFiniteSet(Outstanding(r)) /\ Cardinality(Outstanding(r)) \in Nat
         /\ Cardinality(Outstanding(r)) = 0 <=> Outstanding(r) = {}
<1>1. Device[r] \in Devices
  BY ConstantsAre
<1>2. IsFiniteSet(AtaSubTaskList[Device[r]])
  BY <1>1 DEF SubsOK
<1>3. Outstanding(r) \subseteq AtaSubTaskList[Device[r]]
  BY DEF Outstanding
<1>4. IsFiniteSet(Outstanding(r))
  BY <1>2, <1>3, FS_Subset
<1> QED
  BY <1>3, <1>4, FS_CardinalityType, FS_EmptySet

LEMMA ToComeIs ==
  ASSUME CallerType, NEW r \in Requests
  PROVE  /\ ToCome(r) \in Nat
         /\ ~Making(r) => ToCome(r) = 0
         /\ Making(r) => ToCome(r) = Parts[r] - caller.part +
              IF <<r, caller.part>> \in AtaSubTaskList[Device[r]] THEN 0 ELSE 1
<1>1. Making(r) => caller.part \in 1..Parts[r] /\ Parts[r] \in Nat
  BY CallerIs, ConstantsAre DEF Making
<1> QED
  BY <1>1 DEF ToCome, Making, InCall, CallPcs

\* Every subtask in a list or queue is one of its device.
LEMMA UnderIs ==
  ASSUME SubsOK, NEW s \in Under
  PROVE  /\ s \in Pairs /\ s[1] \in Requests \ Blocking
         /\ s \in AtaSubTaskList[Device[s[1]]] /\ s \in Outstanding(s[1])
         /\ s[2] \in 1..Parts[s[1]] /\ s = <<s[1], s[2]>>
<1>1. PICK d \in Devices : s \in AtaSubTaskList[d]
  BY DEF Under
<1>2. s \in Pairs /\ s[1] \in Requests \ Blocking /\ Device[s[1]] = d /\ s[2] \in 1..Parts[s[1]]
  BY <1>1 DEF SubsOK
<1> QED
  BY <1>1, <1>2 DEF Outstanding, Pairs

-----------------------------------------------------------------------------
(***************************************************************************)
(* The timer's routine moves subtasks from the commands to the marks.      *)
(***************************************************************************)
Moves(L, g, n, b) ==
  LET done == SubSeq(L, 1, n)
      rest == SubSeq(L, n + 1, Len(L))
      h    == g \o Ended(done, b)
  IN  /\ done \in Seq(Tasks) /\ rest \in Seq(Tasks) /\ h \in Seq(Marks)
      /\ \A S : Once(SubOf(L), SubOf(g), S) => Once(SubOf(rest), SubOf(h), S)
      /\ \A i \in 1..Len(h) :
           \/ i \in 1..Len(g) /\ h[i] = g[i]
           \/ h[i].failed = b /\ \E j \in 1..n : h[i].sub = L[j].sub

LEMMA MoveMarks ==
  ASSUME NEW L \in Seq(Tasks), NEW g \in Seq(Marks), NEW n \in 0..Len(L), NEW b \in BOOLEAN
  PROVE  Moves(L, g, n, b)
<1> DEFINE done == SubSeq(L, 1, n)
           rest == SubSeq(L, n + 1, Len(L))
           z    == Ended(done, b)
           h    == g \o z
<1>1. Len(L) \in Nat /\ n \in Nat /\ n + 1 \in Nat \ {0} /\ Len(L) \in 0..Len(L) /\ 1 \in Nat \ {0}
  OBVIOUS
<1>2. done \in Seq(Tasks) /\ SubOf(done) = SubSeq(SubOf(L), 1, n)
  BY <1>1, TaskIs, SubOfSubSeq
<1>3. rest \in Seq(Tasks) /\ SubOf(rest) = SubSeq(SubOf(L), n + 1, Len(L))
  BY <1>1, TaskIs, SubOfSubSeq
<1>4. /\ Ended(done, b) \in Seq(Marks) /\ Len(Ended(done, b)) = Len(done)
      /\ SubOf(Ended(done, b)) = SubOf(done)
      /\ \A i \in 1..Len(done) : Ended(done, b)[i] = [sub |-> done[i].sub, failed |-> b]
  BY <1>2, EndedIs
<1>5. Len(done) = n /\ \A i \in 1..n : done[i] = L[i]
  BY <1>1
<1>6. SubOf(L) \in Seq(Pairs) /\ Len(SubOf(L)) = Len(L) /\ SubOf(g) \in Seq(Pairs)
  BY TaskIs, SubOfIs
<1>7. /\ h \in Seq(Marks) /\ Len(h) = Len(g) + n /\ Len(g) \in Nat
      /\ \A i \in 1..Len(h) : h[i] = IF i <= Len(g) THEN g[i] ELSE z[i - Len(g)]
  <2>1. z \in Seq(Marks) /\ Len(z) = n
    BY <1>4, <1>5
  <2> HIDE DEF z
  <2>2. /\ g \o z \in Seq(Marks) /\ Len(g \o z) = Len(g) + Len(z)
        /\ \A i \in 1..Len(g) + Len(z) : (g \o z)[i] = IF i <= Len(g) THEN g[i] ELSE z[i - Len(g)]
    BY <2>1, ConcatProperties
  <2>3. Len(g) \in Nat
    OBVIOUS
  <2> QED
    BY <2>1, <2>2, <2>3
<1>8. SubOf(h) = SubOf(g) \o SubSeq(SubOf(L), 1, n)
  <2>1. z \in Seq(Marks) /\ SubOf(z) = SubSeq(SubOf(L), 1, n)
    BY <1>2, <1>4
  <2> HIDE DEF z
  <2>2. SubOf(g \o z) = SubOf(g) \o SubOf(z)
    BY <2>1, TaskIs, SubOfConcat
  <2> QED
    BY <2>1, <2>2
<1> HIDE DEF done, rest, h, z
<1>9. ASSUME NEW S, Once(SubOf(L), SubOf(g), S)
      PROVE  Once(SubOf(rest), SubOf(h), S)
  <2>1. n \in 0..Len(SubOf(L))
    BY <1>6
  <2>2. Once(SubSeq(SubOf(L), n + 1, Len(SubOf(L))), SubOf(g) \o SubSeq(SubOf(L), 1, n), S)
    BY <2>1, <1>6, <1>9, OnceMove
  <2> QED
    BY <2>2, <1>3, <1>6, <1>8
<1>10. ASSUME NEW i \in 1..Len(h)
       PROVE  \/ i \in 1..Len(g) /\ h[i] = g[i]
              \/ h[i].failed = b /\ \E j \in 1..n : h[i].sub = L[j].sub
  <2>1. CASE i <= Len(g)
    BY <2>1, <1>7
  <2>2. CASE i > Len(g)
    <3>1. PICK j \in 1..n : j = i - Len(g) /\ h[i] = z[j]
      BY <2>2, <1>1, <1>7
    <3>2. z[j] = [sub |-> done[j].sub, failed |-> b] /\ done[j] = L[j]
      BY <1>4, <1>5 DEF z
    <3> QED
      BY <3>1, <3>2
  <2>3. i <= Len(g) \/ i > Len(g)
    BY <1>7
  <2> QED
    BY <2>1, <2>2, <2>3
<1> QED
  BY <1>2, <1>3, <1>7, <1>9, <1>10 DEF Moves, done, rest, h, z

MarksTrue(g, m) == \A i \in 1..Len(g) : ~g[i].failed => g[i].sub \in m

LEMMA Routine ==
  ASSUME TypeOK, AsyncNonBlockingTransferRoutine
  PROVE  /\ NonBlockingTaskList' \in Seq(Tasks) /\ signalled' \in Seq(Marks)
         /\ moved \subseteq moved' /\ moved' \subseteq Pairs
         /\ errors' \in 0..MaxErrors
         /\ \A S : Once(SubOf(NonBlockingTaskList), SubOf(signalled), S)
                     => Once(SubOf(NonBlockingTaskList'), SubOf(signalled'), S)
         /\ MarksTrue(signalled, moved) => MarksTrue(signalled', moved')
<1> DEFINE L == NonBlockingTaskList
           g == signalled
<1>1. L \in Seq(Tasks) /\ g \in Seq(Marks) /\ moved \subseteq Pairs /\ errors \in 0..MaxErrors
  BY SequencesAre DEF TypeOK, Pairs
<1>2. PICK n \in 0..Len(L) :
        LET done == SubSeq(L, 1, n)
            rest == Rest(n)
        IN  /\ moved' = moved \cup {done[i].sub : i \in 1..n}
            /\ \/ /\ rest = <<>>
                  /\ NonBlockingTaskList' = <<>>
                  /\ signalled' = g \o Ended(done, FALSE)
                  /\ UNCHANGED errors
               \/ /\ rest # <<>> /\ rest[1].RetryTimes > 1
                  /\ NonBlockingTaskList' = [rest EXCEPT ![1].RetryTimes = @ - 1]
                  /\ signalled' = g \o Ended(done, FALSE)
                  /\ UNCHANGED errors
               \/ /\ rest # <<>> /\ errors < MaxErrors
                  /\ errors' = errors + 1
                  /\ NonBlockingTaskList' = <<>>
                  /\ signalled' = g \o Ended(done, FALSE) \o Ended(rest, TRUE)
  BY DEF AsyncNonBlockingTransferRoutine
<1> DEFINE done == SubSeq(L, 1, n)
           rest == SubSeq(L, n + 1, Len(L))
           h    == g \o Ended(done, FALSE)
<1>3. Rest(n) = rest
  BY DEF Rest
<1>4. /\ done \in Seq(Tasks) /\ rest \in Seq(Tasks) /\ h \in Seq(Marks)
      /\ \A S : Once(SubOf(L), SubOf(g), S) => Once(SubOf(rest), SubOf(h), S)
      /\ \A i \in 1..Len(h) :
           \/ i \in 1..Len(g) /\ h[i] = g[i]
           \/ h[i].failed = FALSE /\ \E j \in 1..n : h[i].sub = L[j].sub
  <2>1. PICK no \in BOOLEAN : no = FALSE
    OBVIOUS
  <2>2. Moves(L, g, n, no)
    BY <1>1, MoveMarks
  <2> QED
    BY <2>1, <2>2, Zenon DEF Moves
<1>5. Len(done) = n /\ n \in Nat /\ \A i \in 1..n : done[i] = L[i] /\ L[i] \in Tasks
  BY <1>1
<1>6. moved' = moved \cup {done[i].sub : i \in 1..n}
  BY <1>2
<1>7. moved \subseteq moved' /\ moved' \subseteq Pairs /\ \A i \in 1..n : L[i].sub \in moved'
  BY <1>1, <1>5, <1>6, TaskIs
<1>8. MarksTrue(g, moved) => MarksTrue(h, moved')
  BY <1>4, <1>7 DEF MarksTrue
<1>9. /\ \/ /\ rest = <<>>
            /\ NonBlockingTaskList' = <<>>
            /\ signalled' = h
            /\ UNCHANGED errors
         \/ /\ rest # <<>> /\ rest[1].RetryTimes > 1
            /\ NonBlockingTaskList' = [rest EXCEPT ![1].RetryTimes = @ - 1]
            /\ signalled' = h
            /\ UNCHANGED errors
         \/ /\ rest # <<>> /\ errors < MaxErrors
            /\ errors' = errors + 1
            /\ NonBlockingTaskList' = <<>>
            /\ signalled' = h \o Ended(rest, TRUE)
  BY <1>2, <1>3
<1> HIDE DEF done, rest, h
<1>10. CASE rest = <<>> /\ NonBlockingTaskList' = <<>> /\ signalled' = h /\ UNCHANGED errors
  BY <1>10, <1>1, <1>4, <1>7, <1>8
<1>11. CASE /\ rest # <<>> /\ rest[1].RetryTimes > 1
            /\ NonBlockingTaskList' = [rest EXCEPT ![1].RetryTimes = @ - 1]
            /\ signalled' = h /\ UNCHANGED errors
  <2>1. 1 \in 1..Len(rest) /\ Len(rest) \in Nat /\ DOMAIN rest = 1..Len(rest) /\ rest[1] \in Tasks
    BY <1>4, <1>11
  <2> DEFINE x == [rest[1] EXCEPT !.RetryTimes = @ - 1]
             w == [rest EXCEPT ![1] = x]
  <2>2. x \in Tasks /\ x.sub = rest[1].sub
    BY <2>1, <1>11, ConstantsAre DEF Tasks
  <2>3. NonBlockingTaskList' = w
    BY <1>11
  <2> HIDE DEF x
  <2>4. /\ w \in Seq(Tasks) /\ Len(w) = Len(rest)
        /\ \A j \in 1..Len(rest) : w[j] = IF j = 1 THEN x ELSE rest[j]
    BY <2>1, <2>2, <1>4, ExceptSeq
  <2> HIDE DEF w
  <2>5. /\ SubOf(w) \in Seq(Pairs) /\ Len(SubOf(w)) = Len(rest)
        /\ SubOf(rest) \in Seq(Pairs) /\ Len(SubOf(rest)) = Len(rest)
        /\ \A j \in 1..Len(rest) : SubOf(w)[j] = w[j].sub /\ SubOf(rest)[j] = rest[j].sub
    BY <2>4, <1>4, TaskIs, SubOfIs
  <2>6. \A j \in 1..Len(rest) : SubOf(w)[j] = SubOf(rest)[j]
    BY <2>2, <2>4, <2>5
  <2>7. SubOf(w) = SubOf(rest)
    BY <2>5, <2>6, SeqEqual
  <2> QED
    BY <2>3, <2>4, <2>7, <1>11, <1>1, <1>4, <1>7, <1>8
<1>12. CASE /\ rest # <<>> /\ errors < MaxErrors /\ errors' = errors + 1
            /\ NonBlockingTaskList' = <<>> /\ signalled' = h \o Ended(rest, TRUE)
  <2>1. Len(rest) \in 0..Len(rest) /\ SubSeq(rest, 1, Len(rest)) = rest
        /\ SubSeq(rest, Len(rest) + 1, Len(rest)) = <<>>
    BY <1>4
  <2>2. /\ signalled' \in Seq(Marks)
        /\ \A S : Once(SubOf(rest), SubOf(h), S) => Once(SubOf(<<>>), SubOf(signalled'), S)
        /\ \A i \in 1..Len(signalled') :
             \/ i \in 1..Len(h) /\ signalled'[i] = h[i]
             \/ signalled'[i].failed = TRUE
    <3>1. PICK yes \in BOOLEAN : yes = TRUE
      OBVIOUS
    <3>2. Moves(rest, h, Len(rest), yes)
      BY <2>1, <1>4, MoveMarks
    <3>3. signalled' = h \o Ended(SubSeq(rest, 1, Len(rest)), yes)
      BY <2>1, <3>1, <1>12, Zenon
    <3> QED
      BY <2>1, <3>1, <3>2, <3>3, Zenon DEF Moves
  <2>3. MarksTrue(h, moved') => MarksTrue(signalled', moved')
    BY <2>2 DEF MarksTrue
  <2>4. errors' \in 0..MaxErrors
    BY <1>1, <1>12, ConstantsAre
  <2>5. NonBlockingTaskList' \in Seq(Tasks)
    BY <1>12
  <2>6. ASSUME NEW S, Once(SubOf(NonBlockingTaskList), SubOf(signalled), S)
        PROVE  Once(SubOf(NonBlockingTaskList'), SubOf(signalled'), S)
    BY <2>2, <2>6, <1>4, <1>12
  <2> QED
    BY <2>2, <2>3, <2>4, <2>5, <2>6, <1>7, <1>8
<1> QED
  BY <1>9, <1>10, <1>11, <1>12

-----------------------------------------------------------------------------
(***************************************************************************)
(* The timer, and the caller that pushes the list to its end.              *)
(***************************************************************************)
LEMMA RoutineStep ==
  ASSUME IndInv, AsyncNonBlockingTransferRoutine,
         UNCHANGED <<lists, shared, Token, caller, returned, faults, resets>>
  PROVE  IndInv'
<1>1. TypeOK /\ SubsOK /\ CountedOut /\ OneCommand /\ CallerOK /\ QueueOK /\ TokenOK /\ WholeOK /\ ResetOK
  BY DEF IndInv
<1>2. /\ UNCHANGED <<AtaTaskList, AtaSubTaskList, Abort, EventCount, IsError, allocated>>
      /\ UNCHANGED <<Token, caller, returned, faults, resets>>
  BY DEF lists, shared
<1>3. /\ NonBlockingTaskList' \in Seq(Tasks) /\ signalled' \in Seq(Marks)
      /\ moved \subseteq moved' /\ moved' \subseteq Pairs
      /\ errors' \in 0..MaxErrors
      /\ \A S : Once(SubOf(NonBlockingTaskList), SubOf(signalled), S)
                  => Once(SubOf(NonBlockingTaskList'), SubOf(signalled'), S)
      /\ MarksTrue(signalled, moved) => MarksTrue(signalled', moved')
  BY <1>1, Routine
<1>4. TypeOK'
  BY <1>1, <1>2, <1>3 DEF TypeOK, Tasks, Marks, Pairs, CallerType
<1>5. SubsOK' /\ CountedOut' /\ CallerOK' /\ QueueOK' /\ ResetOK'
  <2>1. SubsOK'
    BY <1>1, <1>2 DEF SubsOK, Making, InCall
  <2>2. CountedOut'
    BY <1>1, <1>2 DEF CountedOut, Outstanding, ToCome
  <2>3. CallerOK' /\ QueueOK' /\ ResetOK'
    BY <1>1, <1>2 DEF CallerOK, QueueOK, ResetOK, Making, InCall
  <2> QED
    BY <2>1, <2>2, <2>3
<1>6. TokenOK'
  BY <1>1, <1>2 DEF TokenOK, Making, InCall, Waits
<1>7. OneCommand'
  <2>1. Entries = SubOf(NonBlockingTaskList) /\ Queued = SubOf(signalled)
    BY DEF Entries, Queued, SubOf
  <2>2. Entries' = SubOf(NonBlockingTaskList') /\ Queued' = SubOf(signalled')
    BY DEF Entries, Queued, SubOf
  <2>3. (Under \ Held)' = Under \ Held
    BY <1>2 DEF Under, Held
  <2> QED
    BY <1>1, <1>3, <2>1, <2>2, <2>3 DEF OneCommand
<1>8. WholeOK'
  <2>1. MarksTrue(signalled', moved')
    BY <1>1, <1>3 DEF WholeOK, MarksTrue
  <2>2. \A r, i : Part(r, i) => Part(r, i)'
    BY <1>2, <1>3 DEF Part, Making, InCall
  <2> QED
    BY <1>1, <1>2, <1>3, <2>1, <2>2 DEF WholeOK, MarksTrue
<1> QED
  BY <1>4, <1>5, <1>6, <1>7, <1>8 DEF IndInv

LEMMA TimerStep ==
  ASSUME IndInv, Timer \/ Push
  PROVE  IndInv'
BY RoutineStep DEF Timer, Push

-----------------------------------------------------------------------------
(***************************************************************************)
(* Steps outside a non-blocking request, which leave subtasks and commands *)
(* alone.                                                                  *)
(***************************************************************************)
LEMMA Quiet ==
  ASSUME SubsOK, CountedOut, OneCommand, ~InCall, ~InCall', CallerType, CallerType',
         UNCHANGED <<AtaSubTaskList, EventCount, allocated, NonBlockingTaskList, signalled>>
  PROVE  SubsOK' /\ CountedOut' /\ OneCommand' /\ CallerOK'
<1>1. \A r : ~Making(r) /\ ~Making(r)'
  BY DEF Making
<1>2. SubsOK'
  BY <1>1 DEF SubsOK
<1>3. CountedOut'
  <2>1. \A r \in Requests : ToCome(r) = 0 /\ ToCome(r)' = 0
    BY <1>1 DEF ToCome, Making, InCall, CallPcs
  <2>2. \A r : Outstanding(r)' = Outstanding(r)
    BY DEF Outstanding
  <2> QED
    BY <2>1, <2>2 DEF CountedOut
<1>4. OneCommand'
  <2>1. Held = {} /\ Held' = {}
    BY DEF Held, InCall, CallPcs
  <2>2. Under' = Under /\ Entries' = Entries /\ Queued' = Queued
    BY DEF Under, Entries, Queued
  <2> QED
    BY <2>1, <2>2 DEF OneCommand
<1>5. CallerOK'
  BY <1>1 DEF CallerOK
<1> QED
  BY <1>2, <1>3, <1>4, <1>5

LEMMA CallBlockingStep ==
  ASSUME IndInv, NEW r \in Requests, CallBlocking(r)
  PROVE  IndInv'
<1>1. TypeOK /\ SubsOK /\ CountedOut /\ OneCommand /\ CallerOK /\ QueueOK /\ TokenOK /\ WholeOK /\ ResetOK
  BY DEF IndInv
<1>2. /\ caller = Idle /\ returned[r] = "no" /\ r \in Blocking /\ caller' = At("wait", r, 1)
      /\ UNCHANGED <<AtaTaskList, AtaSubTaskList, Abort, EventCount, IsError, allocated>>
      /\ UNCHANGED <<NonBlockingTaskList, signalled, moved, errors, Token, returned, faults, resets>>
  BY DEF CallBlocking, Calls, lists, shared, below
<1>3. caller.pc = "idle" /\ caller'.pc = "wait" /\ caller'.req = r /\ caller'.part = 1
  BY <1>2, AtIs DEF Idle
<1>4. 1 \in 1..Parts[r]
  BY ConstantsAre
<1>5. CallerType /\ CallerType'
  BY <1>1, <1>2, <1>4, SequencesAre DEF CallerType
<1>6. ~InCall /\ ~InCall'
  BY <1>3 DEF InCall, CallPcs
<1>7. SubsOK' /\ CountedOut' /\ OneCommand' /\ CallerOK'
  BY <1>1, <1>2, <1>5, <1>6, Quiet
<1>8. TypeOK'
  BY <1>1, <1>2, <1>5 DEF TypeOK, CallerType
<1>9. QueueOK' /\ TokenOK'
  BY <1>1, <1>2, <1>6 DEF QueueOK, TokenOK, Waits, Making
<1>10. WholeOK'
  <2>1. \A x, i : Part(x, i) => Part(x, i)'
    BY <1>2, <1>6 DEF Part, Making
  <2> QED
    BY <1>1, <1>2, <1>3, <2>1 DEF WholeOK
<1>11. ResetOK'
  BY <1>3 DEF ResetOK, ResetPcs
<1> QED
  BY <1>7, <1>8, <1>9, <1>10, <1>11 DEF IndInv

LEMMA WaitStep ==
  ASSUME IndInv, Wait \/ Pushed
  PROVE  IndInv'
<1>1. TypeOK /\ SubsOK /\ CountedOut /\ OneCommand /\ CallerOK /\ QueueOK /\ TokenOK /\ WholeOK /\ ResetOK
  BY DEF IndInv
<1>2. /\ \/ caller.pc = "wait" /\ caller' = [caller EXCEPT !.pc = "push"]
         \/ caller.pc = "push" /\ caller' = [caller EXCEPT !.pc = "command"]
      /\ UNCHANGED <<AtaTaskList, AtaSubTaskList, Abort, EventCount, IsError, allocated>>
      /\ UNCHANGED <<NonBlockingTaskList, signalled, moved, errors, Token, returned, faults, resets>>
  BY DEF Wait, Step, Pushed, lists, shared, below
<1>3. CallerType
  BY <1>1, SequencesAre
<1>4. caller.req \in Blocking /\ caller.part \in 1..Parts[caller.req] /\ caller = At(caller.pc, caller.req, caller.part)
  BY <1>2, <1>3, CallerIs DEF BlockPcs
<1>5. \E pc \in {"push", "command"} : caller' = At(pc, caller.req, caller.part)
  BY <1>2, <1>4, AtIs
<1>6. caller'.pc \in {"push", "command"} /\ caller'.req = caller.req /\ caller'.part = caller.part
  BY <1>5, AtIs
<1>7. CallerType'
  BY <1>4, <1>5 DEF CallerType
<1>8. ~InCall /\ ~InCall'
  BY <1>2, <1>6 DEF InCall, CallPcs
<1>9. SubsOK' /\ CountedOut' /\ OneCommand' /\ CallerOK'
  BY <1>1, <1>2, <1>3, <1>7, <1>8, Quiet
<1>10. TypeOK'
  BY <1>1, <1>2, <1>7 DEF TypeOK, CallerType
<1>11. QueueOK' /\ TokenOK'
  BY <1>1, <1>2, <1>8 DEF QueueOK, TokenOK, Waits, Making
<1>12. WholeOK'
  <2>1. \A x, i : Part(x, i) => Part(x, i)'
    BY <1>2, <1>8 DEF Part, Making
  <2>2. \A i \in 1..(caller.part - 1) : <<caller.req, i>> \in moved
    BY <1>1, <1>2 DEF WholeOK
  <2>3. returned[caller.req] = "no"
    BY <1>1, <1>2 DEF WholeOK, BlockPcs
  <2> QED
    BY <1>1, <1>2, <1>6, <2>1, <2>2, <2>3 DEF WholeOK
<1>13. ResetOK'
  BY <1>6 DEF ResetOK, ResetPcs
<1> QED
  BY <1>9, <1>10, <1>11, <1>12, <1>13 DEF IndInv

LEMMA CommandStep ==
  ASSUME IndInv, Command
  PROVE  IndInv'
<1>1. TypeOK /\ SubsOK /\ CountedOut /\ OneCommand /\ CallerOK /\ QueueOK /\ TokenOK /\ WholeOK /\ ResetOK
  BY DEF IndInv
<1> DEFINE r == caller.req
           k == caller.part
<1>2. /\ caller.pc = "command"
      /\ \/ /\ errors < MaxErrors /\ errors' = errors + 1
            /\ caller' = Idle /\ returned' = [returned EXCEPT ![r] = "error"]
            /\ UNCHANGED moved
         \/ /\ moved' = moved \cup {<<r, k>>}
            /\ \/ k < Parts[r] /\ caller' = At("push", r, k + 1) /\ UNCHANGED returned
               \/ k >= Parts[r] /\ caller' = Idle /\ returned' = [returned EXCEPT ![r] = "success"]
            /\ UNCHANGED errors
      /\ UNCHANGED <<AtaTaskList, AtaSubTaskList, Abort, EventCount, IsError, allocated>>
      /\ UNCHANGED <<NonBlockingTaskList, signalled, Token, faults, resets>>
  <2>1. CallerType
    BY <1>1, SequencesAre
  <2>2. k \in 1..Parts[r] /\ Parts[r] \in Nat
    BY <1>1, <2>1, CallerIs, ConstantsAre DEF Command, Step, BlockPcs
  <2>3. k < Parts[r] \/ k >= Parts[r]
    BY <2>2
  <2> QED
    BY <2>3 DEF Command, Step, Return, lists, shared
<1>3. CallerType
  BY <1>1, SequencesAre
<1>4. r \in Blocking /\ r \in Requests /\ k \in 1..Parts[r] /\ Parts[r] \in Nat
  BY <1>2, <1>3, CallerIs, ConstantsAre DEF BlockPcs
<1>5. k < Parts[r] => k + 1 \in 1..Parts[r]
  BY <1>4
<1>6. \/ caller' = Idle
      \/ k < Parts[r] /\ caller' = At("push", r, k + 1)
  BY <1>2
<1>7. CallerType'
  BY <1>4, <1>5, <1>6 DEF CallerType
<1>8. \/ caller'.pc = "idle"
      \/ caller'.pc = "push" /\ caller'.req = r /\ caller'.part = k + 1
  BY <1>6, AtIs DEF Idle
<1>9. ~InCall /\ ~InCall'
  BY <1>2, <1>8 DEF InCall, CallPcs
<1>10. SubsOK' /\ CountedOut' /\ OneCommand' /\ CallerOK'
  BY <1>1, <1>2, <1>3, <1>7, <1>9, Quiet
<1>11. moved \subseteq moved' /\ moved' \in SUBSET (Requests \X Nat)
  <2>1. moved \in SUBSET (Requests \X Nat) /\ <<r, k>> \in Requests \X Nat
    BY <1>1, <1>4 DEF TypeOK
  <2> QED
    BY <2>1, <1>2
<1>12. errors' \in 0..MaxErrors
  BY <1>1, <1>2, ConstantsAre DEF TypeOK
<1>13. returned \in [Requests -> {"no", "success", "error"}] /\ returned' \in [Requests -> {"no", "success", "error"}]
  <2>1. returned \in [Requests -> {"no", "success", "error"}]
    BY <1>1 DEF TypeOK
  <2> QED
    BY <2>1, <1>2, <1>4
<1>14. TypeOK'
  BY <1>1, <1>2, <1>7, <1>11, <1>12, <1>13 DEF TypeOK, CallerType
<1>15. returned[r] = "no"
  BY <1>1, <1>2 DEF WholeOK, BlockPcs
<1>16. \A x \in Requests : x # r => returned'[x] = returned[x]
  BY <1>2, <1>13
<1>17. r \notin allocated
  BY <1>1, <1>4, <1>9, <1>15 DEF TokenOK, Making
<1>18. QueueOK'
  <2>1. \A d \in Devices : \A i \in 1..Len(AtaTaskList[d]) : AtaTaskList[d][i] \in Requests /\ AtaTaskList[d][i] # r
    BY <1>1, <1>4 DEF QueueOK
  <2> QED
    BY <1>1, <1>2, <1>16, <2>1 DEF QueueOK
<1>19. TokenOK'
  <2> SUFFICES ASSUME NEW x \in Requests
               PROVE  /\ Token[x].signals <= 1
                      /\ returned'[x] # "success" => Token[x].signals = 0
                      /\ returned'[x] = "error" /\ x \in allocated => IsError[x]
                      /\ x \in allocated /\ ~IsError[x] => Token[x].signals = 0
                      /\ x \in allocated /\ returned'[x] = "no" => Making(x)'
                      /\ returned'[x] = "success" /\ x \notin Blocking =>
                           Token[x].signals = 1 \/ (x \in allocated /\ ~IsError[x]) \/ Waits(x)
    BY <1>2 DEF TokenOK, Waits
  <2>1. CASE x = r
    BY <2>1, <1>1, <1>4, <1>15, <1>17 DEF TokenOK
  <2>2. CASE x # r
    <3>1. ~Making(x)
      BY <1>9 DEF Making
    <3> QED
      BY <2>2, <3>1, <1>1, <1>16 DEF TokenOK
  <2> QED
    BY <2>1, <2>2
<1>20. WholeOK'
  <2>1. \A x, i : Part(x, i) => Part(x, i)'
    BY <1>2, <1>9, <1>11 DEF Part, Making
  <2>2. \A i \in 1..(k - 1) : <<r, i>> \in moved
    BY <1>1, <1>2 DEF WholeOK
  <2>3. <<r, k>> \in moved' => \A i \in 1..k : <<r, i>> \in moved'
    BY <2>2, <1>4, <1>11
  <2>4. MarksTrue(signalled, moved')
    BY <1>1, <1>11 DEF WholeOK, MarksTrue
  <2>5. ASSUME NEW x \in Blocking, returned'[x] = "success"
        PROVE  \A i \in 1..Parts[x] : <<x, i>> \in moved'
    <3>1. CASE x = r
      <4>1. <<r, k>> \in moved' /\ k >= Parts[r]
        BY <3>1, <2>5, <1>2, <1>4, <1>13, <1>15
      <4> QED
        BY <3>1, <4>1, <2>3, <1>4
    <3>2. CASE x # r
      BY <3>2, <2>5, <1>1, <1>11, <1>16, ConstantsAre DEF WholeOK
    <3> QED
      BY <3>1, <3>2
  <2>6. caller'.pc = "push" => \A i \in 1..(caller'.part - 1) : <<caller'.req, i>> \in moved'
    <3> SUFFICES ASSUME caller'.pc = "push" PROVE \A i \in 1..(caller'.part - 1) : <<caller'.req, i>> \in moved'
      OBVIOUS
    <3>1. caller' # Idle
      BY DEF Idle
    <3>2. <<r, k>> \in moved' /\ caller'.req = r /\ caller'.part = k + 1
      BY <3>1, <1>2, <1>8
    <3> QED
      BY <3>2, <2>3, <1>4
  <2>7. caller'.pc \in BlockPcs => returned'[caller'.req] = "no"
    <3> SUFFICES ASSUME caller'.pc \in BlockPcs PROVE returned'[caller'.req] = "no"
      OBVIOUS
    <3>1. caller' # Idle
      BY DEF Idle, BlockPcs
    <3> QED
      BY <3>1, <1>2, <1>8, <1>15 DEF BlockPcs
  <2> QED
    BY <1>1, <1>2, <1>8, <1>11, <2>1, <2>4, <2>5, <2>6, <2>7 DEF WholeOK, MarksTrue
<1>21. ResetOK'
  BY <1>8 DEF ResetOK, ResetPcs
<1> QED
  BY <1>10, <1>14, <1>18, <1>19, <1>20, <1>21 DEF IndInv

LEMMA DrainedStep ==
  ASSUME IndInv, Drained \/ Clear
  PROVE  IndInv'
<1>1. TypeOK /\ SubsOK /\ CountedOut /\ OneCommand /\ CallerOK /\ QueueOK /\ TokenOK /\ WholeOK /\ ResetOK
  BY DEF IndInv
<1>2. /\ \/ /\ caller.pc = "drain" /\ AtaSubTaskList[caller.dev] = {}
            /\ caller' = [caller EXCEPT !.pc = "clear"] /\ UNCHANGED Abort
         \/ /\ caller.pc = "clear" /\ caller' = Idle
            /\ Abort' = [Abort EXCEPT ![caller.dev] = FALSE]
      /\ UNCHANGED <<AtaTaskList, AtaSubTaskList, EventCount, IsError, allocated>>
      /\ UNCHANGED <<NonBlockingTaskList, signalled, moved, errors, Token, returned, faults, resets>>
  BY DEF Drained, Clear, Step, lists, shared, below
<1>3. CallerType
  BY <1>1, SequencesAre
<1>4. caller.dev \in Devices /\ \A x : [caller EXCEPT !.pc = x] = [pc |-> x, dev |-> caller.dev]
  BY <1>2, <1>3, CallerIs DEF ResetPcs
<1>5. \/ caller' = Idle
      \/ caller.pc = "drain" /\ AtaSubTaskList[caller.dev] = {} /\ caller' = [pc |-> "clear", dev |-> caller.dev]
  BY <1>2, <1>4
<1>6. CallerType'
  BY <1>4, <1>5 DEF CallerType
<1>7. \/ caller'.pc = "idle"
      \/ /\ caller'.pc = "clear" /\ caller'.dev = caller.dev
         /\ caller.pc = "drain" /\ AtaSubTaskList[caller.dev] = {}
  BY <1>5 DEF Idle
<1>8. ~InCall /\ ~InCall'
  BY <1>2, <1>7 DEF InCall, CallPcs
<1>9. SubsOK' /\ CountedOut' /\ OneCommand' /\ CallerOK'
  BY <1>1, <1>2, <1>3, <1>6, <1>8, Quiet
<1>10. Abort' \in [Devices -> BOOLEAN]
  <2>1. Abort \in [Devices -> BOOLEAN]
    BY <1>1 DEF TypeOK
  <2> QED
    BY <2>1, <1>2
<1>11. TypeOK'
  BY <1>1, <1>2, <1>6, <1>10 DEF TypeOK, CallerType
<1>12. QueueOK' /\ TokenOK'
  BY <1>1, <1>2, <1>8 DEF QueueOK, TokenOK, Waits, Making
<1>13. WholeOK'
  <2>1. \A x, i : Part(x, i) => Part(x, i)'
    BY <1>2, <1>8 DEF Part, Making
  <2> QED
    BY <1>1, <1>2, <1>7, <2>1 DEF WholeOK, BlockPcs
<1>14. ResetOK'
  BY <1>1, <1>2, <1>7 DEF ResetOK, ResetPcs
<1> QED
  BY <1>9, <1>11, <1>12, <1>13, <1>14 DEF IndInv

LEMMA TerminateStep ==
  ASSUME IndInv, NEW d \in Devices, Terminate(d)
  PROVE  IndInv'
<1> DEFINE in(r) == \E i \in 1..Len(AtaTaskList[d]) : AtaTaskList[d][i] = r
<1>1. TypeOK /\ SubsOK /\ CountedOut /\ OneCommand /\ CallerOK /\ QueueOK /\ TokenOK /\ WholeOK /\ ResetOK
  BY DEF IndInv
<1>2. /\ AtaTaskList \in [Devices -> Seq(Requests)] /\ Abort \in [Devices -> BOOLEAN]
      /\ Token \in [Requests -> [status : Statuses, signals : Nat]] /\ resets \in 0..MaxResets
  BY <1>1 DEF TypeOK
<1>3. /\ caller = Idle /\ caller' = [pc |-> "drain", dev |-> d]
      /\ resets < MaxResets /\ resets' = resets + 1
      /\ Abort' = [Abort EXCEPT ![d] = TRUE]
      /\ AtaTaskList' = [AtaTaskList EXCEPT ![d] = <<>>]
      /\ UNCHANGED <<AtaSubTaskList, EventCount, IsError, allocated>>
      /\ UNCHANGED <<NonBlockingTaskList, signalled, moved, errors, returned, faults>>
  BY DEF Terminate, shared, below
<1>4. Token' = [r \in Requests |-> IF in(r) THEN Aborted(Token[r]) ELSE Token[r]]
  <2>1. DOMAIN AtaTaskList[d] = 1..Len(AtaTaskList[d])
    BY <1>2
  <2> QED
    BY <2>1 DEF Terminate
<1>5. /\ \A x \in Devices : AtaTaskList'[x] = IF x = d THEN <<>> ELSE AtaTaskList[x]
      /\ AtaTaskList' \in [Devices -> Seq(Requests)]
  BY <1>2, <1>3
<1>6. ASSUME NEW r \in Requests, in(r)
      PROVE  /\ Device[r] = d /\ r \notin Blocking /\ r \notin allocated /\ returned[r] = "success"
             /\ Token[r].signals = 0
             /\ Token'[r] = [status |-> "aborted", signals |-> 1]
  <2>1. /\ Device[r] = d /\ r \notin Blocking /\ r \notin allocated /\ returned[r] = "success"
        /\ Token[r].signals = 0
    BY <1>1, <1>6 DEF QueueOK
  <2> QED
    BY <2>1, <1>4, <1>6 DEF Aborted
<1>7. \A r \in Requests : ~in(r) => Token'[r] = Token[r]
  BY <1>4
<1> HIDE DEF in
<1>8. caller.pc = "idle" /\ caller'.pc = "drain" /\ caller'.dev = d
  BY <1>3 DEF Idle
<1>9. CallerType /\ CallerType' /\ ~InCall /\ ~InCall'
  BY <1>1, <1>3, <1>8, SequencesAre DEF CallerType, InCall, CallPcs
<1>10. SubsOK' /\ CountedOut' /\ OneCommand' /\ CallerOK'
  BY <1>1, <1>3, <1>9, Quiet
<1>11. TypeOK'
  <2>1. Token' \in [Requests -> [status : Statuses, signals : Nat]]
    <3>1. DOMAIN Token' = Requests /\ Token' = [r \in Requests |-> Token'[r]]
      BY <1>4
    <3>2. ASSUME NEW r \in Requests
          PROVE  Token'[r] \in [status : Statuses, signals : Nat]
      <4>1. [status |-> "aborted", signals |-> 1] \in [status : Statuses, signals : Nat]
        BY DEF Statuses
      <4> QED
        BY <4>1, <1>2, <1>6, <1>7
    <3> QED
      BY <3>1, <3>2
  <2>2. Abort' \in [Devices -> BOOLEAN] /\ resets' \in 0..MaxResets
    BY <1>2, <1>3, ConstantsAre
  <2> QED
    BY <2>1, <2>2, <1>1, <1>3, <1>5, <1>9 DEF TypeOK, CallerType
<1>12. \A r \in Requests : Waits(r) <=> IF Device[r] = d THEN in(r) ELSE Waits(r)'
  BY <1>5, ConstantsAre DEF Waits, in
<1>13. QueueOK'
  <2> SUFFICES ASSUME NEW x \in Devices, NEW i \in 1..Len(AtaTaskList'[x])
               PROVE  LET q == AtaTaskList'[x][i]
                      IN  /\ q \in Requests \ Blocking /\ Device[q] = x /\ q \notin allocated'
                          /\ returned'[q] = "success" /\ Token'[q].signals = 0
                          /\ \A j \in 1..Len(AtaTaskList'[x]) : AtaTaskList'[x][j] = q => i = j
    BY DEF QueueOK
  <2>1. x # d /\ AtaTaskList'[x] = AtaTaskList[x]
    BY <1>5
  <2>2. LET q == AtaTaskList[x][i]
        IN  /\ q \in Requests \ Blocking /\ Device[q] = x /\ q \notin allocated
            /\ returned[q] = "success" /\ Token[q].signals = 0
            /\ \A j \in 1..Len(AtaTaskList[x]) : AtaTaskList[x][j] = q => i = j
    BY <1>1, <2>1 DEF QueueOK
  <2>3. ~in(AtaTaskList[x][i])
    BY <2>1, <2>2, <1>6
  <2> QED
    BY <2>1, <2>2, <2>3, <1>3, <1>7
<1>14. TokenOK'
  <2> SUFFICES ASSUME NEW r \in Requests
               PROVE  /\ Token'[r].signals <= 1
                      /\ returned'[r] # "success" => Token'[r].signals = 0
                      /\ returned'[r] = "error" /\ r \in allocated' => IsError'[r]
                      /\ r \in allocated' /\ ~IsError'[r] => Token'[r].signals = 0
                      /\ r \in allocated' /\ returned'[r] = "no" => Making(r)'
                      /\ returned'[r] = "success" /\ r \notin Blocking =>
                           Token'[r].signals = 1 \/ (r \in allocated' /\ ~IsError'[r]) \/ Waits(r)'
    BY DEF TokenOK
  <2>1. CASE in(r)
    BY <2>1, <1>3, <1>6
  <2>2. CASE ~in(r)
    <3>1. ~Making(r)
      BY <1>9 DEF Making
    <3>2. Waits(r) => Waits(r)'
      BY <2>2, <1>12
    <3> QED
      BY <2>2, <3>1, <3>2, <1>1, <1>3, <1>7 DEF TokenOK
  <2> QED
    BY <2>1, <2>2
<1>15. WholeOK'
  <2>1. \A x, i : Part(x, i) => Part(x, i)'
    BY <1>3, <1>9 DEF Part, Making
  <2>2. \A r \in Requests : Token'[r].status = "success" => Token'[r] = Token[r]
    BY <1>6, <1>7
  <2> QED
    BY <1>1, <1>3, <1>8, <2>1, <2>2 DEF WholeOK, BlockPcs
<1>16. ResetOK'
  BY <1>5, <1>8 DEF ResetOK
<1> QED
  BY <1>10, <1>11, <1>13, <1>14, <1>15, <1>16 DEF IndInv

LEMMA QueueStep ==
  ASSUME IndInv, NEW r \in Requests, Queue(r)
  PROVE  IndInv'
<1> DEFINE d == Device[r]
<1>1. TypeOK /\ SubsOK /\ CountedOut /\ OneCommand /\ CallerOK /\ QueueOK /\ TokenOK /\ WholeOK /\ ResetOK
  BY DEF IndInv
<1>2. /\ AtaTaskList \in [Devices -> Seq(Requests)] /\ faults \in 0..MaxFaults
      /\ returned \in [Requests -> {"no", "success", "error"}]
  BY <1>1 DEF TypeOK
<1>3. /\ caller = Idle /\ caller' = Idle /\ returned[r] = "no" /\ r \notin Blocking
      /\ \/ /\ faults < MaxFaults /\ faults' = faults + 1
            /\ returned' = [returned EXCEPT ![r] = "error"] /\ UNCHANGED AtaTaskList
         \/ /\ AtaTaskList' = [AtaTaskList EXCEPT ![d] = Append(@, r)]
            /\ returned' = [returned EXCEPT ![r] = "success"] /\ UNCHANGED faults
      /\ UNCHANGED <<AtaSubTaskList, Abort, EventCount, IsError, allocated>>
      /\ UNCHANGED <<NonBlockingTaskList, signalled, moved, errors, Token, resets>>
  BY DEF Queue, Calls, Return, Fault, shared, below
<1>4. d \in Devices
  BY ConstantsAre
<1>5. caller.pc = "idle" /\ caller'.pc = "idle"
  BY <1>3 DEF Idle
<1>6. CallerType /\ CallerType' /\ ~InCall /\ ~InCall'
  BY <1>3, <1>5 DEF CallerType, InCall, CallPcs
<1>7. SubsOK' /\ CountedOut' /\ OneCommand' /\ CallerOK'
  BY <1>1, <1>3, <1>6, Quiet
<1>8. AtaTaskList' \in [Devices -> Seq(Requests)]
  <2>1. Append(AtaTaskList[d], r) \in Seq(Requests)
    BY <1>2, <1>4
  <2> QED
    BY <2>1, <1>2, <1>3
<1>9. TypeOK'
  <2>1. faults' \in 0..MaxFaults
    BY <1>2, <1>3, ConstantsAre
  <2>2. returned' \in [Requests -> {"no", "success", "error"}]
    BY <1>2, <1>3
  <2> QED
    BY <2>1, <2>2, <1>1, <1>3, <1>6, <1>8 DEF TypeOK, CallerType
<1>10. /\ \A x \in Requests : x # r => returned'[x] = returned[x]
       /\ returned'[r] = "error" \/ returned'[r] = "success"
       /\ \A x \in Devices : x # d => AtaTaskList'[x] = AtaTaskList[x]
  BY <1>2, <1>3
<1>11. /\ r \notin allocated /\ Token[r].signals = 0
       /\ \A x \in Devices : \A i \in 1..Len(AtaTaskList[x]) : AtaTaskList[x][i] # r
  <2>1. ~Making(r)
    BY <1>6 DEF Making
  <2> QED
    BY <2>1, <1>1, <1>3 DEF TokenOK, QueueOK
<1>12. ASSUME UNCHANGED AtaTaskList
       PROVE  /\ QueueOK' /\ \A x \in Requests : Waits(x) => Waits(x)'
              /\ returned'[r] = "error" \/ r \in Blocking \/ Waits(r)'
  <2>1. QueueOK'
    BY <1>1, <1>3, <1>10, <1>11, <1>12 DEF QueueOK
  <2>2. \A x : Waits(x)' <=> Waits(x)
    BY <1>12 DEF Waits
  <2>3. returned'[r] = "error" \/ r \in Blocking \/ Waits(r)'
    <3>1. returned' = [returned EXCEPT ![r] = "error"]
      <4>1. Len(Append(AtaTaskList[d], r)) # Len(AtaTaskList[d])
        BY <1>2, <1>4
      <4>2. AtaTaskList' # [AtaTaskList EXCEPT ![d] = Append(@, r)]
        BY <4>1, <1>2, <1>4, <1>12
      <4> QED
        BY <4>2, <1>3
    <3> QED
      BY <3>1, <1>2
  <2> QED
    BY <2>1, <2>2, <2>3
<1>13. ASSUME AtaTaskList' = [AtaTaskList EXCEPT ![d] = Append(@, r)],
              returned' = [returned EXCEPT ![r] = "success"]
       PROVE  /\ QueueOK' /\ \A x \in Requests : Waits(x) => Waits(x)'
              /\ returned'[r] = "error" \/ r \in Blocking \/ Waits(r)'
  <2> DEFINE w == Append(AtaTaskList[d], r)
  <2>1. /\ AtaTaskList'[d] = w /\ Len(w) = Len(AtaTaskList[d]) + 1 /\ Len(AtaTaskList[d]) \in Nat
        /\ w[Len(AtaTaskList[d]) + 1] = r
        /\ \A i \in 1..Len(AtaTaskList[d]) : w[i] = AtaTaskList[d][i]
    BY <1>2, <1>4, <1>13
  <2>2. returned'[r] = "success"
    BY <1>2, <1>13
  <2> HIDE DEF w
  <2>3. \A i \in 1..Len(w) : i \in 1..Len(AtaTaskList[d]) \/ i = Len(AtaTaskList[d]) + 1
    BY <2>1
  <2>4. QueueOK'
    <3> SUFFICES ASSUME NEW x \in Devices, NEW i \in 1..Len(AtaTaskList'[x])
                 PROVE  LET q == AtaTaskList'[x][i]
                        IN  /\ q \in Requests \ Blocking /\ Device[q] = x /\ q \notin allocated'
                            /\ returned'[q] = "success" /\ Token'[q].signals = 0
                            /\ \A j \in 1..Len(AtaTaskList'[x]) : AtaTaskList'[x][j] = q => i = j
      BY DEF QueueOK
    <3>1. CASE x # d
      BY <3>1, <1>1, <1>3, <1>10, <1>11 DEF QueueOK
    <3>2. CASE x = d /\ i \in 1..Len(AtaTaskList[d])
      <4>1. LET q == AtaTaskList[d][i]
            IN  /\ q \in Requests \ Blocking /\ Device[q] = d /\ q \notin allocated
                /\ returned[q] = "success" /\ Token[q].signals = 0
                /\ \A j \in 1..Len(AtaTaskList[d]) : AtaTaskList[d][j] = q => i = j
        BY <3>2, <1>1 DEF QueueOK
      <4> QED
        BY <3>2, <4>1, <2>1, <2>3, <1>3, <1>4, <1>10, <1>11
    <3>3. CASE x = d /\ i = Len(AtaTaskList[d]) + 1
      BY <3>3, <2>1, <2>2, <2>3, <1>3, <1>4, <1>11
    <3> QED
      BY <3>1, <3>2, <3>3, <2>1, <2>3
  <2>5. \A x \in Requests : Waits(x) => Waits(x)'
    <3> SUFFICES ASSUME NEW x \in Requests, Waits(x) PROVE Waits(x)'
      OBVIOUS
    <3>1. CASE Device[x] = d
      BY <3>1, <2>1 DEF Waits
    <3>2. CASE Device[x] # d
      BY <3>2, <1>10, ConstantsAre DEF Waits
    <3> QED
      BY <3>1, <3>2
  <2>6. Waits(r)'
    <3>1. Len(AtaTaskList[d]) + 1 \in 1..Len(w)
      BY <2>1
    <3> QED
      BY <3>1, <2>1 DEF Waits
  <2> QED
    BY <2>4, <2>5, <2>6
<1>14. QueueOK' /\ (\A x \in Requests : Waits(x) => Waits(x)')
       /\ (returned'[r] = "error" \/ r \in Blocking \/ Waits(r)')
  BY <1>12, <1>13, <1>3
<1>15. TokenOK'
  <2> SUFFICES ASSUME NEW x \in Requests
               PROVE  /\ Token'[x].signals <= 1
                      /\ returned'[x] # "success" => Token'[x].signals = 0
                      /\ returned'[x] = "error" /\ x \in allocated' => IsError'[x]
                      /\ x \in allocated' /\ ~IsError'[x] => Token'[x].signals = 0
                      /\ x \in allocated' /\ returned'[x] = "no" => Making(x)'
                      /\ returned'[x] = "success" /\ x \notin Blocking =>
                           Token'[x].signals = 1 \/ (x \in allocated' /\ ~IsError'[x]) \/ Waits(x)'
    BY DEF TokenOK
  <2>1. CASE x = r
    BY <2>1, <1>3, <1>10, <1>11, <1>14
  <2>2. CASE x # r
    <3>1. ~Making(x)
      BY <1>6 DEF Making
    <3> QED
      BY <2>2, <3>1, <1>1, <1>3, <1>10, <1>14 DEF TokenOK
  <2> QED
    BY <2>1, <2>2
<1>16. WholeOK'
  <2>1. \A x, i : Part(x, i) => Part(x, i)'
    BY <1>3, <1>6 DEF Part, Making
  <2>2. \A x \in Blocking : returned'[x] = returned[x]
    BY <1>3, <1>10, ConstantsAre
  <2> QED
    BY <1>1, <1>3, <1>5, <2>1, <2>2 DEF WholeOK, BlockPcs
<1>17. ResetOK'
  BY <1>5 DEF ResetOK, ResetPcs
<1> QED
  BY <1>7, <1>9, <1>14, <1>15, <1>16, <1>17 DEF IndInv

LEMMA BeginStep ==
  ASSUME IndInv, NEW r \in Requests, Begin(r)
  PROVE  IndInv'
<1> DEFINE d == Device[r]
<1>1. TypeOK /\ SubsOK /\ CountedOut /\ OneCommand /\ CallerOK /\ QueueOK /\ TokenOK /\ WholeOK /\ ResetOK
  BY DEF IndInv
<1>2. /\ returned \in [Requests -> {"no", "success", "error"}] /\ faults \in 0..MaxFaults
      /\ EventCount \in [Requests -> Nat] /\ IsError \in [Requests -> BOOLEAN]
      /\ Token \in [Requests -> [status : Statuses, signals : Nat]]
  BY <1>1 DEF TypeOK
<1>3. /\ caller = Idle /\ returned[r] = "no" /\ r \notin Blocking /\ AtaSubTaskList[d] = {}
      /\ Token' = [Token EXCEPT ![r].status = "success"]
      /\ \/ /\ faults < MaxFaults /\ faults' = faults + 1
            /\ caller' = Idle /\ returned' = [returned EXCEPT ![r] = "error"]
            /\ UNCHANGED <<EventCount, IsError, allocated>>
         \/ /\ EventCount' = [EventCount EXCEPT ![r] = Parts[r]]
            /\ IsError' = [IsError EXCEPT ![r] = FALSE]
            /\ allocated' = allocated \cup {r}
            /\ caller' = At("subtask", r, 1)
            /\ UNCHANGED <<returned, faults>>
      /\ UNCHANGED <<AtaTaskList, AtaSubTaskList, Abort>>
      /\ UNCHANGED <<NonBlockingTaskList, signalled, moved, errors, resets>>
  BY DEF Begin, Calls, Busy, Return, Fault, lists, shared, below
<1>4. d \in Devices /\ Parts[r] \in Nat \ {0} /\ 1 \in 1..Parts[r]
  BY ConstantsAre
<1>5. caller.pc = "idle" /\ ~InCall /\ \A x : ~Making(x)
  BY <1>3 DEF Idle, InCall, CallPcs, Making
<1>6. CallerType /\ CallerType'
  BY <1>3, <1>4 DEF CallerType
<1>7. /\ r \notin allocated /\ Token[r].signals = 0
      /\ \A x \in Devices : \A i \in 1..Len(AtaTaskList[x]) : AtaTaskList[x][i] # r
  BY <1>1, <1>3, <1>5 DEF TokenOK, QueueOK
<1>8. /\ Token' \in [Requests -> [status : Statuses, signals : Nat]]
      /\ \A x \in Requests : Token'[x].signals = Token[x].signals
      /\ \A x \in Requests : x # r => Token'[x] = Token[x]
      /\ Token'[r].status = "success"
  <2> DEFINE t == [Token[r] EXCEPT !.status = "success"]
  <2>1. Token[r] \in [status : Statuses, signals : Nat] /\ "success" \in Statuses
    BY <1>2 DEF Statuses
  <2>2. t \in [status : Statuses, signals : Nat] /\ t.signals = Token[r].signals /\ t.status = "success"
    BY <2>1
  <2>3. Token' = [Token EXCEPT ![r] = t]
    BY <1>3
  <2> HIDE DEF t
  <2> QED
    BY <2>2, <2>3, <1>2
<1>9. \A x : Waits(x)' <=> Waits(x)
  BY <1>3 DEF Waits
<1>10. CASE /\ faults < MaxFaults /\ faults' = faults + 1
            /\ caller' = Idle /\ returned' = [returned EXCEPT ![r] = "error"]
            /\ UNCHANGED <<EventCount, IsError, allocated>>
  <2>1. caller'.pc = "idle" /\ ~InCall'
    BY <1>10 DEF Idle, InCall, CallPcs
  <2>2. SubsOK' /\ CountedOut' /\ OneCommand' /\ CallerOK'
    BY <2>1, <1>1, <1>3, <1>5, <1>6, <1>10, Quiet
  <2>3. /\ returned' \in [Requests -> {"no", "success", "error"}]
        /\ returned'[r] = "error" /\ \A x \in Requests : x # r => returned'[x] = returned[x]
    BY <1>2, <1>10
  <2>4. faults' \in 0..MaxFaults
    BY <1>2, <1>10, ConstantsAre
  <2>5. TypeOK'
    BY <2>3, <2>4, <1>1, <1>3, <1>6, <1>8, <1>10 DEF TypeOK, CallerType
  <2>6. QueueOK'
    BY <2>3, <1>1, <1>3, <1>7, <1>8, <1>10 DEF QueueOK
  <2>7. TokenOK'
    <3> SUFFICES ASSUME NEW x \in Requests
                 PROVE  /\ Token'[x].signals <= 1
                        /\ returned'[x] # "success" => Token'[x].signals = 0
                        /\ returned'[x] = "error" /\ x \in allocated' => IsError'[x]
                        /\ x \in allocated' /\ ~IsError'[x] => Token'[x].signals = 0
                        /\ x \in allocated' /\ returned'[x] = "no" => Making(x)'
                        /\ returned'[x] = "success" /\ x \notin Blocking =>
                             Token'[x].signals = 1 \/ (x \in allocated' /\ ~IsError'[x]) \/ Waits(x)'
      BY DEF TokenOK
    <3>1. CASE x = r
      BY <3>1, <2>3, <1>7, <1>8, <1>10
    <3>2. CASE x # r
      BY <3>2, <2>3, <1>1, <1>5, <1>8, <1>9, <1>10 DEF TokenOK
    <3> QED
      BY <3>1, <3>2
  <2>8. WholeOK'
    <3>1. \A x, i : Part(x, i) => Part(x, i)'
      BY <1>3, <1>5 DEF Part
    <3>2. \A x \in Blocking : returned'[x] = returned[x]
      BY <2>3, <1>3, ConstantsAre
    <3>3. \A x \in Requests \ Blocking : Token'[x].status = "success" =>
            /\ x \in allocated' => ~IsError'[x] /\ \A i \in 1..Parts[x] : Part(x, i)'
            /\ Token'[x].signals = 1 => \A i \in 1..Parts[x] : <<x, i>> \in moved'
      BY <3>1, <1>1, <1>3, <1>7, <1>8, <1>10 DEF WholeOK
    <3> QED
      BY <3>2, <3>3, <2>1, <1>1, <1>3 DEF WholeOK, BlockPcs
  <2>9. ResetOK'
    BY <2>1 DEF ResetOK, ResetPcs
  <2> QED
    BY <2>2, <2>5, <2>6, <2>7, <2>8, <2>9 DEF IndInv
<1>11. CASE /\ EventCount' = [EventCount EXCEPT ![r] = Parts[r]]
            /\ IsError' = [IsError EXCEPT ![r] = FALSE]
            /\ allocated' = allocated \cup {r}
            /\ caller' = At("subtask", r, 1)
            /\ UNCHANGED <<returned, faults>>
  <2>1. caller'.pc = "subtask" /\ caller'.req = r /\ caller'.part = 1
    BY <1>11, AtIs
  <2>2. InCall' /\ \A x : Making(x)' <=> x = r
    BY <2>1 DEF InCall, Making, CallPcs
  <2>3. /\ EventCount' \in [Requests -> Nat] /\ EventCount'[r] = Parts[r]
        /\ \A x \in Requests : x # r => EventCount'[x] = EventCount[x]
        /\ IsError' \in [Requests -> BOOLEAN] /\ ~IsError'[r]
        /\ \A x \in Requests : x # r => IsError'[x] = IsError[x]
    BY <1>2, <1>4, <1>11
  <2>4. allocated' \in SUBSET Requests
    BY <1>1, <1>11 DEF TypeOK
  <2>5. TypeOK'
    BY <2>3, <2>4, <1>1, <1>3, <1>6, <1>8, <1>11 DEF TypeOK, CallerType
  <2>6. SubsOK'
    <3>1. \A x \in Devices : \A s \in AtaSubTaskList[x] : s[1] # r
      BY <1>1, <1>3 DEF SubsOK
    <3> QED
      BY <3>1, <2>2, <1>1, <1>3 DEF SubsOK
  <2>7. CountedOut'
    <3> SUFFICES ASSUME NEW x \in Requests
                 PROVE  /\ x \in allocated' <=> Outstanding(x)' # {} \/ ToCome(x)' > 0
                        /\ x \in allocated' => EventCount'[x] = Cardinality(Outstanding(x)') + ToCome(x)'
      BY DEF CountedOut
    <3>1. Outstanding(x)' = Outstanding(x)
      BY <1>3 DEF Outstanding
    <3>2. CASE x = r
      <4>1. Outstanding(x) = {} /\ Cardinality(Outstanding(x)) = 0
        BY <3>2, <1>3, FS_EmptySet DEF Outstanding
      <4>2. ToCome(x)' = Parts[r]
        BY <3>2, <2>1, <1>3, <1>4 DEF ToCome
      <4> QED
        BY <3>1, <3>2, <4>1, <4>2, <2>3, <1>4, <1>11
    <3>3. CASE x # r
      <4>1. ToCome(x) = 0 /\ ToCome(x)' = 0
        BY <3>3, <2>1, <1>5 DEF ToCome, Making, InCall, CallPcs
      <4> QED
        BY <3>1, <3>3, <4>1, <2>3, <1>1, <1>11 DEF CountedOut
    <3> QED
      BY <3>2, <3>3
  <2>8. OneCommand'
    <3>1. Held = {} /\ Held' = {}
      BY <2>1, <1>5 DEF Held
    <3>2. Under' = Under /\ Entries' = Entries /\ Queued' = Queued
      BY <1>3 DEF Under, Entries, Queued
    <3> QED
      BY <3>1, <3>2, <1>1 DEF OneCommand
  <2>9. CallerOK'
    BY <2>1, <2>2, <2>3, <1>3, <1>11 DEF CallerOK
  <2>10. QueueOK'
    BY <1>1, <1>3, <1>7, <1>8, <1>11 DEF QueueOK
  <2>11. TokenOK'
    <3> SUFFICES ASSUME NEW x \in Requests
                 PROVE  /\ Token'[x].signals <= 1
                        /\ returned'[x] # "success" => Token'[x].signals = 0
                        /\ returned'[x] = "error" /\ x \in allocated' => IsError'[x]
                        /\ x \in allocated' /\ ~IsError'[x] => Token'[x].signals = 0
                        /\ x \in allocated' /\ returned'[x] = "no" => Making(x)'
                        /\ returned'[x] = "success" /\ x \notin Blocking =>
                             Token'[x].signals = 1 \/ (x \in allocated' /\ ~IsError'[x]) \/ Waits(x)'
      BY DEF TokenOK
    <3>1. CASE x = r
      BY <3>1, <2>2, <2>3, <1>3, <1>7, <1>8, <1>11
    <3>2. CASE x # r
      BY <3>2, <2>3, <1>1, <1>5, <1>8, <1>9, <1>11 DEF TokenOK
    <3> QED
      BY <3>1, <3>2
  <2>12. WholeOK'
    <3>1. \A x, i : Part(x, i) => Part(x, i)'
      BY <1>3, <1>5 DEF Part
    <3>2. \A i \in 1..Parts[r] : Part(r, i)'
      BY <2>1, <2>2, <1>4 DEF Part
    <3>3. ASSUME NEW x \in Requests \ Blocking, Token'[x].status = "success"
          PROVE  /\ x \in allocated' => ~IsError'[x] /\ \A i \in 1..Parts[x] : Part(x, i)'
                 /\ Token'[x].signals = 1 => \A i \in 1..Parts[x] : <<x, i>> \in moved'
      <4>1. CASE x = r
        BY <4>1, <3>2, <2>3, <1>7, <1>8
      <4>2. CASE x # r
        BY <4>2, <3>1, <3>3, <2>3, <1>1, <1>3, <1>8, <1>11 DEF WholeOK
      <4> QED
        BY <4>1, <4>2
    <3> QED
      BY <3>3, <2>1, <1>1, <1>3, <1>11 DEF WholeOK, BlockPcs
  <2>13. ResetOK'
    BY <2>1 DEF ResetOK, ResetPcs
  <2> QED
    BY <2>5, <2>6, <2>7, <2>8, <2>9, <2>10, <2>11, <2>12, <2>13 DEF IndInv
<1> QED
  BY <1>3, <1>10, <1>11

-----------------------------------------------------------------------------
(***************************************************************************)
(* The steps of a non-blocking request.                                    *)
(***************************************************************************)
\* The subtask that the caller is about to allocate is in no list.
LEMMA NotUnder ==
  ASSUME TypeOK, SubsOK, caller.pc = "subtask"
  PROVE  <<caller.req, caller.part>> \notin Under
<1>1. CallerType /\ InCall /\ Making(caller.req)
  BY SequencesAre DEF InCall, Making, CallPcs
<1>2. caller.part \in Nat
  BY <1>1, CallerIs
<1> SUFFICES ASSUME <<caller.req, caller.part>> \in Under PROVE FALSE
  OBVIOUS
<1>3. PICK d \in Devices : <<caller.req, caller.part>> \in AtaSubTaskList[d]
  BY DEF Under
<1>4. caller.part < caller.part
  BY <1>1, <1>3 DEF SubsOK
<1> QED
  BY <1>2, <1>4

LEMMA InsertSubTaskStep ==
  ASSUME IndInv, InsertSubTask
  PROVE  IndInv'
<1> DEFINE r == caller.req
           k == caller.part
           d == Device[caller.req]
           sub == <<caller.req, caller.part>>
<1>1. TypeOK /\ SubsOK /\ CountedOut /\ OneCommand /\ CallerOK /\ QueueOK /\ TokenOK /\ WholeOK /\ ResetOK
  BY DEF IndInv
<1>2. AtaSubTaskList \in [Devices -> SUBSET Pairs] /\ faults \in 0..MaxFaults
  BY <1>1 DEF TypeOK, Pairs
<1>3. /\ caller.pc = "subtask"
      /\ \/ faults < MaxFaults /\ faults' = faults + 1 /\ caller' = At("exit", r, k) /\ UNCHANGED AtaSubTaskList
         \/ /\ AtaSubTaskList' = [AtaSubTaskList EXCEPT ![d] = @ \cup {sub}]
            /\ caller' = At("transfer", r, k) /\ UNCHANGED faults
      /\ UNCHANGED <<AtaTaskList, Abort, EventCount, IsError, allocated>>
      /\ UNCHANGED <<NonBlockingTaskList, signalled, moved, errors, Token, returned, resets>>
  BY DEF InsertSubTask, Step, Fault, shared, below
<1>4. InCall /\ (\A x : Making(x) <=> x = r) /\ CallerType
  BY <1>1, <1>3, SequencesAre DEF InCall, Making, CallPcs
<1>5. r \in Requests \ Blocking /\ k \in 1..Parts[r] /\ Parts[r] \in Nat /\ d \in Devices
  BY <1>4, CallerIs, ConstantsAre
<1>6. caller'.pc \in {"transfer", "exit"} /\ caller'.req = r /\ caller'.part = k
  BY <1>3, AtIs
<1>7. InCall' /\ (\A x : Making(x)' <=> x = r) /\ CallerType'
  <2>1. CallerType'
    BY <1>3, <1>5 DEF CallerType
  <2> QED
    BY <2>1, <1>6 DEF InCall, Making, CallPcs
<1>8. /\ sub \in Pairs /\ sub \notin AtaSubTaskList[d] /\ sub \notin Under
      /\ \A s \in AtaSubTaskList[d] : s[1] = r
  <2>1. sub \notin Under
    BY <1>1, <1>3, NotUnder
  <2> QED
    BY <2>1, <1>1, <1>4, <1>5 DEF Under, Pairs, CallerOK
<1>9. TypeOK'
  <2>1. faults' \in 0..MaxFaults
    BY <1>2, <1>3, ConstantsAre
  <2>2. AtaSubTaskList' \in [Devices -> SUBSET Pairs]
    BY <1>2, <1>3, <1>8
  <2> QED
    BY <2>1, <2>2, <1>1, <1>3, <1>7 DEF TypeOK, CallerType, Pairs
<1>10. QueueOK' /\ TokenOK' /\ ResetOK'
  BY <1>1, <1>3, <1>4, <1>6, <1>7 DEF QueueOK, TokenOK, Waits, ResetOK, ResetPcs
<1>11. WholeOK'
  <2>1. \A x \in Requests : AtaSubTaskList[Device[x]] \subseteq AtaSubTaskList'[Device[x]]
    BY <1>2, <1>3, <1>5, ConstantsAre
  <2>2. \A x \in Requests : \A i : Part(x, i) => Part(x, i)'
    BY <2>1, <1>3, <1>4, <1>6, <1>7 DEF Part
  <2>3. \A x \in Requests \ Blocking : Token'[x].status = "success" =>
          /\ x \in allocated' => ~IsError'[x] /\ \A i \in 1..Parts[x] : Part(x, i)'
          /\ Token'[x].signals = 1 => \A i \in 1..Parts[x] : <<x, i>> \in moved'
    BY <2>2, <1>1, <1>3 DEF WholeOK
  <2> QED
    BY <2>3, <1>1, <1>3, <1>6 DEF WholeOK, BlockPcs
<1>12. Held = {} /\ Held' = {sub} /\ Entries' = Entries /\ Queued' = Queued
  BY <1>3, <1>6 DEF Held, Entries, Queued
<1>13. CASE caller' = At("exit", r, k) /\ UNCHANGED AtaSubTaskList
  <2>1. caller'.pc = "exit"
    BY <1>13, AtIs
  <2>2. SubsOK'
    BY <2>1, <1>1, <1>3, <1>4, <1>6, <1>7, <1>13 DEF SubsOK
  <2>3. CountedOut'
    <3>1. \A x \in Requests : ToCome(x)' = ToCome(x) /\ Outstanding(x)' = Outstanding(x)
      BY <2>1, <1>3, <1>6, <1>13 DEF ToCome, Outstanding
    <3> QED
      BY <3>1, <1>1, <1>3 DEF CountedOut
  <2>4. OneCommand'
    <3>1. Under' = Under
      BY <1>13 DEF Under
    <3>2. (Under \ Held)' = Under \ Held
      BY <3>1, <1>8, <1>12
    <3> QED
      BY <3>2, <1>1, <1>12 DEF OneCommand
  <2>5. CallerOK'
    BY <2>1, <1>1, <1>3, <1>4, <1>7, <1>13 DEF CallerOK
  <2> QED
    BY <2>2, <2>3, <2>4, <2>5, <1>9, <1>10, <1>11 DEF IndInv
<1>14. CASE AtaSubTaskList' = [AtaSubTaskList EXCEPT ![d] = @ \cup {sub}] /\ caller' = At("transfer", r, k)
  <2>1. caller'.pc = "transfer"
    BY <1>14, AtIs
  <2>2. /\ AtaSubTaskList'[d] = AtaSubTaskList[d] \cup {sub}
        /\ \A x \in Devices : x # d => AtaSubTaskList'[x] = AtaSubTaskList[x]
    BY <1>2, <1>5, <1>14
  <2>3. SubsOK'
    <3> SUFFICES ASSUME NEW x \in Devices
                 PROVE  /\ IsFiniteSet(AtaSubTaskList'[x])
                        /\ \A s, t \in AtaSubTaskList'[x] : s[1] = t[1]
                        /\ \A s \in AtaSubTaskList'[x] :
                             /\ s \in Pairs /\ s[1] \in Requests \ Blocking /\ Device[s[1]] = x
                             /\ s[2] \in 1..Parts[s[1]]
                             /\ Making(s[1])' =>
                                  s[2] < caller'.part \/ (caller'.pc # "subtask" /\ s[2] = caller'.part)
      BY DEF SubsOK
    <3>1. CASE x # d
      BY <3>1, <2>1, <2>2, <1>1, <1>4, <1>6, <1>7 DEF SubsOK
    <3>2. CASE x = d
      <4>1. IsFiniteSet(AtaSubTaskList'[d])
        <5>1. IsFiniteSet(AtaSubTaskList[d])
          BY <1>1, <1>5 DEF SubsOK
        <5>2. IsFiniteSet(AtaSubTaskList[d] \cup {sub})
          BY <5>1, FS_AddElement
        <5> QED
          BY <5>2, <2>2
      <4>2. \A s \in AtaSubTaskList'[d] : s[1] = r
        BY <2>2, <1>8
      <4>3. \A s \in AtaSubTaskList[d] : s \in Pairs /\ s[2] \in 1..Parts[s[1]] /\ s[2] < k
        BY <1>1, <1>3, <1>4, <1>5, <1>8 DEF SubsOK
      <4>4. \A s \in AtaSubTaskList'[d] : s \in Pairs /\ s[2] \in 1..Parts[s[1]] /\ (s[2] < k \/ s[2] = k)
        BY <4>3, <2>2, <1>5, <1>8
      <4> QED
        BY <3>2, <4>1, <4>2, <4>4, <2>1, <1>5, <1>6
    <3> QED
      BY <3>1, <3>2
  <2>4. CountedOut'
    <3> SUFFICES ASSUME NEW x \in Requests
                 PROVE  /\ x \in allocated' <=> Outstanding(x)' # {} \/ ToCome(x)' > 0
                        /\ x \in allocated' => EventCount'[x] = Cardinality(Outstanding(x)') + ToCome(x)'
      BY DEF CountedOut
    <3>1. CASE x # r
      <4>1. Outstanding(x)' = Outstanding(x)
        BY <3>1, <2>2, ConstantsAre DEF Outstanding
      <4>2. ToCome(x)' = 0 /\ ToCome(x) = 0
        BY <3>1, <1>3, <1>6 DEF ToCome
      <4> QED
        BY <4>1, <4>2, <1>1, <1>3 DEF CountedOut
    <3>2. CASE x = r
      <4>1. Outstanding(x)' = Outstanding(x) \cup {sub} /\ sub \notin Outstanding(x)
        BY <3>2, <2>2, <1>8 DEF Outstanding
      <4>2. IsFiniteSet(Outstanding(x)) /\ Cardinality(Outstanding(x)) \in Nat
        BY <1>1, CountsAre
      <4>3. Cardinality(Outstanding(x)') = Cardinality(Outstanding(x)) + 1
        BY <4>1, <4>2, FS_AddElement
      <4>4. ToCome(x) = Parts[r] - k + 1 /\ ToCome(x)' = Parts[r] - k + 0
        <5>1. ToCome(x) = Parts[r] - k + 1
          BY <3>2, <1>3, <1>8 DEF ToCome
        <5>2. ToCome(x)' = Parts[r] - k + 0
          BY <3>2, <1>6, <2>2 DEF ToCome
        <5> QED
          BY <5>1, <5>2
      <4>5. x \in allocated /\ EventCount[x] = Cardinality(Outstanding(x)) + ToCome(x)
        <5>1. ToCome(x) > 0
          BY <4>4, <1>5
        <5> QED
          BY <5>1, <1>1 DEF CountedOut
      <4> QED
        BY <4>1, <4>2, <4>3, <4>4, <4>5, <1>3, <1>5
    <3> QED
      BY <3>1, <3>2
  <2>5. OneCommand'
    <3>1. Under' = Under \cup {sub}
      BY <2>2, <1>5 DEF Under
    <3>2. (Under \ Held)' = Under \ Held
      BY <3>1, <1>8, <1>12
    <3> QED
      BY <3>2, <1>1, <1>12 DEF OneCommand
  <2>6. CallerOK'
    BY <2>1, <2>2, <1>1, <1>3, <1>4, <1>6, <1>7, <1>8 DEF CallerOK
  <2> QED
    BY <2>3, <2>4, <2>5, <2>6, <1>9, <1>10, <1>11 DEF IndInv
<1> QED
  BY <1>3, <1>13, <1>14

LEMMA TransferSubTaskStep ==
  ASSUME IndInv, TransferSubTask
  PROVE  IndInv'
<1>0. PICK r, k : r = caller.req /\ k = caller.part
  OBVIOUS
<1> DEFINE d == Device[r]
           sub == <<r, k>>
<1>1. TypeOK /\ SubsOK /\ CountedOut /\ OneCommand /\ CallerOK /\ QueueOK /\ TokenOK /\ WholeOK /\ ResetOK
  BY DEF IndInv
<1>2. /\ faults \in 0..MaxFaults /\ returned \in [Requests -> {"no", "success", "error"}]
      /\ NonBlockingTaskList \in Seq(Tasks)
  BY <1>1, SequencesAre DEF TypeOK
<1>3. InCall /\ (\A x : Making(x) <=> x = r) /\ CallerType /\ caller.pc = "transfer"
  BY <1>0, <1>1, SequencesAre DEF TransferSubTask, Step, InCall, Making, CallPcs
<1>4. r \in Requests \ Blocking /\ k \in 1..Parts[r] /\ Parts[r] \in Nat /\ d \in Devices
  BY <1>0, <1>3, CallerIs, ConstantsAre
<1>5. /\ UNCHANGED <<AtaTaskList, AtaSubTaskList, Abort, EventCount, IsError, allocated>>
      /\ UNCHANGED <<signalled, moved, errors, Token, resets>>
      /\ \/ /\ faults < MaxFaults /\ faults' = faults + 1 /\ caller' = At("exit", r, k)
            /\ UNCHANGED <<NonBlockingTaskList, returned>>
         \/ /\ NonBlockingTaskList' = Append(NonBlockingTaskList, Task(sub)) /\ UNCHANGED faults
            /\ \/ k < Parts[r] /\ caller' = At("subtask", r, k + 1) /\ UNCHANGED returned
               \/ k = Parts[r] /\ caller' = Idle /\ returned' = [returned EXCEPT ![r] = "success"]
  <2>1. k < Parts[r] \/ (~(k < Parts[r]) /\ k = Parts[r])
    BY <1>4
  <2> QED
    BY <1>0, <2>1 DEF TransferSubTask, Fault, Return, lists, shared
<1>6. /\ sub \in AtaSubTaskList[d] /\ sub \in Pairs /\ sub \in Under /\ returned[r] = "no" /\ ~IsError[r]
      /\ \A s \in AtaSubTaskList[d] : s[1] = r /\ s[2] \in Nat /\ (s[2] < k \/ s[2] = k)
      /\ \A x \in Devices : x # d => \A s \in AtaSubTaskList[x] : s[1] # r
  <2>1. sub \in AtaSubTaskList[d] /\ returned[r] = "no" /\ ~IsError[r] /\ \A s \in AtaSubTaskList[d] : s[1] = r
    BY <1>0, <1>1, <1>3, <1>4 DEF CallerOK
  <2>2. \A s \in AtaSubTaskList[d] : s[2] \in Nat /\ (s[2] < k \/ s[2] = k)
    BY <1>0, <2>1, <1>1, <1>3, <1>4 DEF SubsOK
  <2>3. \A x \in Devices : x # d => \A s \in AtaSubTaskList[x] : s[1] # r
    BY <1>1, <1>4 DEF SubsOK
  <2> QED
    BY <2>1, <2>2, <2>3, <1>4 DEF Under, Pairs
<1>7. /\ \A x : Outstanding(x)' = Outstanding(x) /\ Under' = Under /\ Queued' = Queued
      /\ \A x : Waits(x)' <=> Waits(x)
  BY <1>5 DEF Outstanding, Under, Queued, Waits
<1>8. /\ r \in allocated /\ EventCount[r] = Cardinality(Outstanding(r)) + ToCome(r)
      /\ ToCome(r) = Parts[r] - k + 0
      /\ \A x : x # r => ToCome(x) = 0
  <2>1. Outstanding(r) # {}
    BY <1>6 DEF Outstanding
  <2>2. ToCome(r) = Parts[r] - k + 0
    BY <1>0, <1>3, <1>6 DEF ToCome
  <2>3. \A x : x # r => ToCome(x) = 0
    BY <1>0 DEF ToCome
  <2> QED
    BY <2>1, <2>2, <2>3, <1>1, <1>4 DEF CountedOut
<1>9. Held = {sub}
  BY <1>0, <1>3 DEF Held
<1>10. CASE /\ faults < MaxFaults /\ faults' = faults + 1 /\ caller' = At("exit", r, k)
            /\ UNCHANGED <<NonBlockingTaskList, returned>>
  <2>1. caller'.pc = "exit" /\ caller'.req = r /\ caller'.part = k
    BY <1>10, AtIs
  <2>2. InCall' /\ (\A x : Making(x)' <=> x = r) /\ CallerType'
    BY <2>1, <1>4, <1>10 DEF InCall, Making, CallPcs, CallerType
  <2>3. TypeOK'
    <3>1. faults' \in 0..MaxFaults
      BY <1>2, <1>10, ConstantsAre
    <3> QED
      BY <2>2, <3>1, <1>1, <1>5, <1>10 DEF TypeOK, CallerType
  <2>4. SubsOK' /\ CallerOK'
    BY <1>0, <2>1, <2>2, <1>1, <1>3, <1>5, <1>10 DEF SubsOK, CallerOK
  <2>5. CountedOut'
    <3>1. \A x : ToCome(x)' = ToCome(x)
      BY <1>0, <2>1, <1>3, <1>5 DEF ToCome
    <3> QED
      BY <3>1, <1>1, <1>5, <1>7 DEF CountedOut
  <2>6. OneCommand'
    <3>1. Held' = {sub} /\ Entries' = Entries
      BY <2>1, <1>10 DEF Held, Entries
    <3> QED
      BY <3>1, <1>1, <1>7, <1>9 DEF OneCommand
  <2>7. QueueOK' /\ TokenOK' /\ ResetOK'
    BY <2>1, <2>2, <1>1, <1>3, <1>5, <1>7, <1>10 DEF QueueOK, TokenOK, ResetOK, ResetPcs
  <2>8. WholeOK'
    <3>1. \A x, i : Part(x, i)' <=> Part(x, i)
      BY <1>0, <2>1, <2>2, <1>3, <1>5 DEF Part
    <3> QED
      BY <3>1, <2>1, <1>1, <1>5, <1>10 DEF WholeOK, BlockPcs
  <2> QED
    BY <2>3, <2>4, <2>5, <2>6, <2>7, <2>8 DEF IndInv
<1>11. CASE /\ NonBlockingTaskList' = Append(NonBlockingTaskList, Task(sub)) /\ UNCHANGED faults
            /\ \/ k < Parts[r] /\ caller' = At("subtask", r, k + 1) /\ UNCHANGED returned
               \/ k = Parts[r] /\ caller' = Idle /\ returned' = [returned EXCEPT ![r] = "success"]
  <2>1. \/ /\ caller'.pc = "subtask" /\ caller'.req = r /\ caller'.part = k + 1
           /\ k < Parts[r] /\ caller' = At("subtask", r, k + 1) /\ UNCHANGED returned
        \/ /\ caller'.pc = "idle" /\ caller' = Idle
           /\ k = Parts[r] /\ returned' = [returned EXCEPT ![r] = "success"]
    BY <1>11, AtIs DEF Idle
  <2>2. \/ caller'.pc = "subtask" /\ \A x : Making(x)' <=> x = r
        \/ caller'.pc = "idle" /\ \A x : ~Making(x)'
    BY <2>1 DEF InCall, Making, CallPcs
  <2>3. CallerType'
    <3>1. k < Parts[r] => k + 1 \in 1..Parts[r]
      BY <1>4
    <3> QED
      BY <3>1, <2>1, <1>4 DEF CallerType
  <2>4. /\ NonBlockingTaskList' \in Seq(Tasks)
        /\ \A S : Once(Entries, Queued, S) /\ sub \notin S => Once(Entries', Queued', S \cup {sub})
    <3> DEFINE L == NonBlockingTaskList
               w == Append(L, Task(sub))
    <3>1. Task(sub) \in Tasks /\ Task(sub).sub = sub
      BY <1>6, TaskIs
    <3>2. /\ w \in Seq(Tasks) /\ Len(w) = Len(L) + 1 /\ Len(L) \in Nat /\ L \in Seq(Tasks)
          /\ w[Len(L) + 1] = Task(sub) /\ \A i \in 1..Len(L) : w[i] = L[i]
      BY <3>1, <1>2
    <3>3. NonBlockingTaskList' = w
      BY <1>11
    <3> HIDE DEF w, L
    <3>4. /\ SubOf(w) \in Seq(Pairs) /\ Len(SubOf(w)) = Len(w) /\ \A i \in 1..Len(w) : SubOf(w)[i] = w[i].sub
          /\ SubOf(L) \in Seq(Pairs) /\ Len(SubOf(L)) = Len(L) /\ \A i \in 1..Len(L) : SubOf(L)[i] = L[i].sub
      BY <3>2, TaskIs, SubOfIs
    <3>5. /\ Append(SubOf(L), sub) \in Seq(Pairs) /\ Len(Append(SubOf(L), sub)) = Len(L) + 1
          /\ \A i \in 1..Len(L) : Append(SubOf(L), sub)[i] = SubOf(L)[i]
          /\ Append(SubOf(L), sub)[Len(L) + 1] = sub
      BY <3>4, <1>6
    <3>6. \A i \in 1..(Len(L) + 1) : SubOf(w)[i] = Append(SubOf(L), sub)[i]
      <4> SUFFICES ASSUME NEW i \in 1..(Len(L) + 1) PROVE SubOf(w)[i] = Append(SubOf(L), sub)[i]
        OBVIOUS
      <4>1. i \in 1..Len(L) \/ i = Len(L) + 1
        BY <3>2
      <4>2. i \in 1..Len(w) /\ SubOf(w)[i] = w[i].sub
        BY <3>2, <3>4
      <4> QED
        BY <4>1, <4>2, <3>1, <3>2, <3>4, <3>5
    <3>7. SubOf(w) = Append(SubOf(L), sub)
      BY <3>2, <3>4, <3>5, <3>6, SeqEqual
    <3>8. Entries = SubOf(L) /\ Entries' = SubOf(w)
      BY <3>3 DEF Entries, SubOf, L
    <3>9. Queued \in Seq(Pairs)
      BY <1>1, SequencesAre
    <3>10. ASSUME NEW S, Once(Entries, Queued, S), sub \notin S
           PROVE  Once(Entries', Queued', S \cup {sub})
      <4>1. Once(Append(SubOf(L), sub), Queued, S \cup {sub})
        BY <3>4, <3>8, <3>9, <3>10, <1>6, OnceAppend
      <4> QED
        BY <4>1, <3>7, <3>8, <1>7
    <3> QED
      BY <3>2, <3>3, <3>10
  <2>5. OneCommand'
    <3>1. Held' = {}
      BY <2>1 DEF Held
    <3>2. Under' \ Held' = (Under \ Held) \cup {sub} /\ sub \notin Under \ Held
      BY <3>1, <1>6, <1>7, <1>9
    <3> QED
      BY <3>2, <2>4, <1>1 DEF OneCommand
  <2>6. returned' \in [Requests -> {"no", "success", "error"}] /\ \A x \in Requests : x # r => returned'[x] = returned[x]
    BY <2>1, <1>2
  <2>7. TypeOK'
    BY <2>3, <2>4, <2>6, <1>1, <1>5, <1>11 DEF TypeOK, CallerType, Tasks, Pairs
  <2>8. SubsOK'
    <3> SUFFICES ASSUME NEW x \in Devices, NEW s \in AtaSubTaskList[x], Making(s[1])'
                 PROVE  s[2] < caller'.part \/ (caller'.pc # "subtask" /\ s[2] = caller'.part)
      BY <1>1, <1>5 DEF SubsOK
    <3>1. s[1] = r /\ x = d /\ caller'.part = k + 1
      BY <2>1, <2>2, <1>6
    <3> QED
      BY <3>1, <1>4, <1>6
  <2>9. CountedOut'
    <3>1. ToCome(r)' = Parts[r] - k + 0
      <4>1. CASE caller'.pc = "subtask"
        <5>1. <<r, k + 1>> \notin AtaSubTaskList'[d]
          BY <1>4, <1>5, <1>6
        <5>2. ToCome(r)' = Parts[r] - (k + 1) + 1
          BY <4>1, <5>1, <2>1 DEF ToCome
        <5> QED
          BY <5>2, <1>4
      <4>2. CASE caller'.pc = "idle"
        <5>1. ToCome(r)' = 0 /\ k = Parts[r]
          BY <4>2, <2>1 DEF ToCome
        <5> QED
          BY <5>1, <1>4
      <4> QED
        BY <4>1, <4>2, <2>1
    <3>2. \A x : x # r => ToCome(x)' = 0
      BY <2>1 DEF ToCome
    <3>3. \A x : ToCome(x)' = ToCome(x)
      BY <3>1, <3>2, <1>8
    <3> QED
      BY <3>3, <1>1, <1>5, <1>7 DEF CountedOut
  <2>10. CallerOK'
    <3> SUFFICES ASSUME NEW x \in Requests, Making(x)'
                 PROVE  /\ returned'[x] = "no" /\ ~IsError'[x]
                        /\ caller'.pc = "transfer" => <<x, caller'.part>> \in AtaSubTaskList'[Device[x]]
                        /\ \A s \in AtaSubTaskList'[Device[x]] : s[1] = x
      BY DEF CallerOK
    <3>1. x = r /\ caller'.pc = "subtask" /\ UNCHANGED returned
      BY <2>1, <2>2
    <3> QED
      BY <3>1, <1>5, <1>6
  <2>11. QueueOK'
    <3>1. \A x \in Devices : \A i \in 1..Len(AtaTaskList[x]) : AtaTaskList[x][i] \in Requests /\ AtaTaskList[x][i] # r
      BY <1>1, <1>6 DEF QueueOK
    <3> QED
      BY <3>1, <2>6, <1>1, <1>5 DEF QueueOK
  <2>12. TokenOK'
    <3> SUFFICES ASSUME NEW x \in Requests
                 PROVE  /\ Token'[x].signals <= 1
                        /\ returned'[x] # "success" => Token'[x].signals = 0
                        /\ returned'[x] = "error" /\ x \in allocated' => IsError'[x]
                        /\ x \in allocated' /\ ~IsError'[x] => Token'[x].signals = 0
                        /\ x \in allocated' /\ returned'[x] = "no" => Making(x)'
                        /\ returned'[x] = "success" /\ x \notin Blocking =>
                             Token'[x].signals = 1 \/ (x \in allocated' /\ ~IsError'[x]) \/ Waits(x)'
      BY DEF TokenOK
    <3>1. CASE x = r
      <4>1. returned'[r] = "success" \/ (returned'[r] = "no" /\ Making(r)')
        BY <2>1, <2>2, <1>2, <1>4, <1>6
      <4>2. Token[r].signals = 0
        BY <1>1, <1>4, <1>6 DEF TokenOK
      <4> QED
        BY <3>1, <4>1, <4>2, <1>5, <1>6, <1>8
    <3>2. CASE x # r
      BY <3>2, <2>6, <1>1, <1>3, <1>5, <1>7 DEF TokenOK
    <3> QED
      BY <3>1, <3>2
  <2>13. WholeOK'
    <3>1. \A x, i : Part(x, i) /\ x # r => Part(x, i)'
      BY <1>0, <1>3, <1>5 DEF Part
    <3>2. ASSUME NEW i \in 1..Parts[r], Part(r, i)
          PROVE  Part(r, i)'
      <4>1. CASE <<r, i>> \in moved \/ <<r, i>> \in AtaSubTaskList[d]
        BY <4>1, <1>5 DEF Part
      <4>2. CASE i >= k
        <5>1. CASE i = k
          BY <5>1, <1>5, <1>6 DEF Part
        <5>2. CASE i # k
          <6>1. i >= k + 1 /\ ~(k = Parts[r])
            BY <5>2, <4>2, <1>4
          <6> QED
            BY <6>1, <2>1, <2>2 DEF Part
        <5> QED
          BY <5>1, <5>2
      <4> QED
        BY <1>0, <4>1, <4>2, <3>2 DEF Part
    <3>3. \A x \in Requests \ Blocking : Token'[x].status = "success" =>
            /\ x \in allocated' => ~IsError'[x] /\ \A i \in 1..Parts[x] : Part(x, i)'
            /\ Token'[x].signals = 1 => \A i \in 1..Parts[x] : <<x, i>> \in moved'
      BY <3>1, <3>2, <1>1, <1>5 DEF WholeOK
    <3>4. \A x \in Blocking : returned'[x] = returned[x]
      BY <2>6, <1>4, ConstantsAre
    <3> QED
      BY <3>3, <3>4, <2>1, <1>1, <1>5 DEF WholeOK, BlockPcs
  <2>14. ResetOK'
    BY <2>1 DEF ResetOK, ResetPcs
  <2> QED
    BY <2>5, <2>7, <2>8, <2>9, <2>10, <2>11, <2>12, <2>13, <2>14 DEF IndInv
<1> QED
  BY <1>5, <1>10, <1>11

LEMMA ExitStep ==
  ASSUME IndInv, Exit
  PROVE  IndInv'
<1>0. PICK r, k : r = caller.req /\ k = caller.part
  OBVIOUS
<1> DEFINE d == Device[r]
           sub == <<r, k>>
           left == EventCount[r] - Unbegun(r, k)
<1>1. TypeOK /\ SubsOK /\ CountedOut /\ OneCommand /\ CallerOK /\ QueueOK /\ TokenOK /\ WholeOK /\ ResetOK
  BY DEF IndInv
<1>2. /\ AtaSubTaskList \in [Devices -> SUBSET Pairs] /\ EventCount \in [Requests -> Nat]
      /\ IsError \in [Requests -> BOOLEAN] /\ allocated \in SUBSET Requests
      /\ Token \in [Requests -> [status : Statuses, signals : Nat]]
      /\ returned \in [Requests -> {"no", "success", "error"}]
  BY <1>1 DEF TypeOK, Pairs
<1>3. InCall /\ (\A x : Making(x) <=> x = r) /\ CallerType /\ caller.pc = "exit"
  BY <1>0, <1>1, SequencesAre DEF Exit, Step, InCall, Making, CallPcs
<1>4. r \in Requests \ Blocking /\ k \in 1..Parts[r] /\ Parts[r] \in Nat /\ d \in Devices
  BY <1>0, <1>3, CallerIs, ConstantsAre
<1>5. /\ Token' = [Token EXCEPT ![r].status = "no resources"]
      /\ EventCount' = [EventCount EXCEPT ![r] = left]
      /\ IsError' = [IsError EXCEPT ![r] = TRUE]
      /\ allocated' = IF left = 0 THEN allocated \ {r} ELSE allocated
      /\ AtaSubTaskList' = [AtaSubTaskList EXCEPT ![d] = @ \ {sub}]
      /\ caller' = Idle /\ returned' = [returned EXCEPT ![r] = "error"]
      /\ UNCHANGED <<AtaTaskList, Abort, NonBlockingTaskList, signalled, moved, errors, faults, resets>>
  BY <1>0 DEF Exit, Freed, Return, below
<1>6. caller'.pc = "idle" /\ CallerType' /\ ~InCall' /\ \A x : ~Making(x)'
  BY <1>5 DEF Idle, CallerType, InCall, CallPcs, Making
<1>7. returned[r] = "no" /\ Token[r].signals = 0 /\ \A s \in AtaSubTaskList[d] : s[1] = r
  BY <1>1, <1>3, <1>4 DEF CallerOK, TokenOK
<1>8. /\ AtaSubTaskList' \in [Devices -> SUBSET Pairs]
      /\ AtaSubTaskList'[d] = AtaSubTaskList[d] \ {sub}
      /\ \A x \in Devices : x # d => AtaSubTaskList'[x] = AtaSubTaskList[x]
  BY <1>2, <1>4, <1>5
<1>9. Outstanding(r)' = Outstanding(r) \ {sub} /\ \A x \in Requests : x # r => Outstanding(x)' = Outstanding(x)
  BY <1>8, ConstantsAre DEF Outstanding
<1>10. IsFiniteSet(Outstanding(r)) /\ Cardinality(Outstanding(r)) \in Nat
  BY <1>1, <1>4, CountsAre
<1>11. /\ left \in Nat /\ left = Cardinality(Outstanding(r)')
       /\ (left = 0 <=> Outstanding(r)' = {}) /\ r \in allocated
  <2>1. EventCount[r] \in Nat /\ (r \in allocated => EventCount[r] = Cardinality(Outstanding(r)) + ToCome(r))
    BY <1>1, <1>2, <1>4 DEF CountedOut
  <2>2. IsFiniteSet(Outstanding(r)')
    BY <1>9, <1>10, FS_Subset
  <2>3. CASE sub \in AtaSubTaskList[d]
    <3>1. sub \in Outstanding(r)
      BY <2>3 DEF Outstanding
    <3>2. r \in allocated
      BY <3>1, <1>1, <1>4 DEF CountedOut
    <3>3. ToCome(r) = Parts[r] - k + 0
      BY <2>3, <1>0, <1>3 DEF ToCome
    <3>4. Cardinality(Outstanding(r)') = Cardinality(Outstanding(r)) - 1
      BY <3>1, <1>9, <1>10, FS_RemoveElement
    <3>5. left = Cardinality(Outstanding(r)) - 1
      BY <3>2, <3>3, <2>1, <1>4, <1>10 DEF Unbegun
    <3> QED
      BY <3>2, <3>4, <3>5, <2>2, FS_CardinalityType, FS_EmptySet
  <2>4. CASE sub \notin AtaSubTaskList[d]
    <3>1. Outstanding(r)' = Outstanding(r)
      BY <2>4, <1>9 DEF Outstanding
    <3>2. ToCome(r) = Parts[r] - k + 1
      BY <2>4, <1>0, <1>3 DEF ToCome
    <3>3. r \in allocated
      BY <3>2, <1>1, <1>4 DEF CountedOut
    <3>4. left = Cardinality(Outstanding(r))
      BY <3>2, <3>3, <2>1, <1>4, <1>10 DEF Unbegun
    <3> QED
      BY <3>1, <3>3, <3>4, <2>2, FS_CardinalityType, FS_EmptySet
  <2> QED
    BY <2>3, <2>4
<1> HIDE DEF left
<1>12. /\ allocated' \subseteq allocated /\ (r \in allocated' <=> left # 0)
       /\ \A x : x # r => (x \in allocated' <=> x \in allocated)
       /\ EventCount' \in [Requests -> Nat] /\ EventCount'[r] = left
       /\ \A x \in Requests : x # r => EventCount'[x] = EventCount[x]
       /\ IsError' \in [Requests -> BOOLEAN] /\ IsError'[r]
       /\ \A x \in Requests : x # r => IsError'[x] = IsError[x]
       /\ returned' \in [Requests -> {"no", "success", "error"}] /\ returned'[r] = "error"
       /\ \A x \in Requests : x # r => returned'[x] = returned[x]
  BY <1>2, <1>4, <1>5, <1>11
<1>13. /\ Token' \in [Requests -> [status : Statuses, signals : Nat]]
       /\ Token'[r].signals = 0 /\ Token'[r].status # "success"
       /\ \A x \in Requests : x # r => Token'[x] = Token[x]
  <2> DEFINE t == [Token[r] EXCEPT !.status = "no resources"]
  <2>1. Token[r] \in [status : Statuses, signals : Nat] /\ "no resources" \in Statuses
    BY <1>2, <1>4 DEF Statuses
  <2>2. t \in [status : Statuses, signals : Nat] /\ t.signals = 0 /\ t.status # "success"
    BY <2>1, <1>7
  <2>3. Token' = [Token EXCEPT ![r] = t]
    BY <1>5
  <2> HIDE DEF t
  <2> QED
    BY <2>2, <2>3, <1>2, <1>4
<1>14. TypeOK'
  BY <1>1, <1>2, <1>5, <1>6, <1>8, <1>12, <1>13 DEF TypeOK, CallerType, Pairs
<1>15. SubsOK'
  <2> SUFFICES ASSUME NEW x \in Devices
               PROVE  /\ IsFiniteSet(AtaSubTaskList'[x])
                      /\ \A s, t \in AtaSubTaskList'[x] : s[1] = t[1]
                      /\ \A s \in AtaSubTaskList'[x] :
                           /\ s \in Pairs /\ s[1] \in Requests \ Blocking /\ Device[s[1]] = x
                           /\ s[2] \in 1..Parts[s[1]]
    BY <1>6 DEF SubsOK
  <2>1. AtaSubTaskList'[x] \subseteq AtaSubTaskList[x]
    BY <1>8
  <2>2. IsFiniteSet(AtaSubTaskList'[x])
    BY <2>1, <1>1, FS_Subset DEF SubsOK
  <2> QED
    BY <2>1, <2>2, <1>1 DEF SubsOK
<1>16. CountedOut'
  <2> SUFFICES ASSUME NEW x \in Requests
               PROVE  /\ x \in allocated' <=> Outstanding(x)' # {} \/ ToCome(x)' > 0
                      /\ x \in allocated' => EventCount'[x] = Cardinality(Outstanding(x)') + ToCome(x)'
    BY DEF CountedOut
  <2>1. ToCome(x)' = 0
    BY <1>6 DEF ToCome
  <2>2. CASE x = r
    <3>1. left = Cardinality(Outstanding(x)') + 0
      BY <2>2, <1>11
    <3>2. x \in allocated' <=> Outstanding(x)' # {}
      BY <2>2, <1>11, <1>12
    <3>3. EventCount'[x] = left
      BY <2>2, <1>12
    <3> QED
      BY <3>1, <3>2, <3>3, <2>1
  <2>3. CASE x # r
    <3>1. ToCome(x) = 0
      BY <2>3, <1>0 DEF ToCome
    <3> QED
      BY <2>1, <2>3, <3>1, <1>1, <1>9, <1>12 DEF CountedOut
  <2> QED
    BY <2>2, <2>3
<1>17. OneCommand'
  <2>1. Held = {sub} /\ Held' = {} /\ Entries' = Entries /\ Queued' = Queued
    BY <1>0, <1>3, <1>5, <1>6 DEF Held, Entries, Queued
  <2>2. Under' = Under \ {sub}
    <3>1. ASSUME NEW x \in Devices, x # d
          PROVE  sub \notin AtaSubTaskList[x]
      BY <3>1, <1>1 DEF SubsOK
    <3> QED
      BY <3>1, <1>4, <1>8 DEF Under
  <2>3. Under' \ Held' = Under \ Held
    BY <2>1, <2>2
  <2> QED
    BY <2>1, <2>3, <1>1 DEF OneCommand
<1>18. CallerOK' /\ ResetOK'
  BY <1>6 DEF CallerOK, ResetOK, ResetPcs
<1>19. QueueOK'
  <2>1. \A x \in Devices : \A i \in 1..Len(AtaTaskList[x]) : AtaTaskList[x][i] \in Requests /\ AtaTaskList[x][i] # r
    BY <1>1, <1>7 DEF QueueOK
  <2>0. AtaTaskList' = AtaTaskList /\ UNCHANGED AtaTaskList
    BY <1>5
  <2> SUFFICES ASSUME NEW x \in Devices, NEW i \in 1..Len(AtaTaskList'[x])
               PROVE  LET q == AtaTaskList'[x][i]
                      IN  /\ q \in Requests \ Blocking /\ Device[q] = x /\ q \notin allocated'
                          /\ returned'[q] = "success" /\ Token'[q].signals = 0
                          /\ \A j \in 1..Len(AtaTaskList'[x]) : AtaTaskList'[x][j] = q => i = j
    BY DEF QueueOK
  <2>2. LET q == AtaTaskList[x][i]
        IN  /\ q \in Requests \ Blocking /\ Device[q] = x /\ q \notin allocated
            /\ returned[q] = "success" /\ Token[q].signals = 0
            /\ \A j \in 1..Len(AtaTaskList[x]) : AtaTaskList[x][j] = q => i = j
    BY <2>0, <1>1 DEF QueueOK
  <2> QED
    BY <2>0, <2>1, <2>2, <1>12, <1>13
<1>20. TokenOK'
  <2> SUFFICES ASSUME NEW x \in Requests
               PROVE  /\ Token'[x].signals <= 1
                      /\ returned'[x] # "success" => Token'[x].signals = 0
                      /\ returned'[x] = "error" /\ x \in allocated' => IsError'[x]
                      /\ x \in allocated' /\ ~IsError'[x] => Token'[x].signals = 0
                      /\ x \in allocated' /\ returned'[x] = "no" => Making(x)'
                      /\ returned'[x] = "success" /\ x \notin Blocking =>
                           Token'[x].signals = 1 \/ (x \in allocated' /\ ~IsError'[x]) \/ Waits(x)'
    BY DEF TokenOK
  <2>1. CASE x = r
    BY <2>1, <1>12, <1>13
  <2>2. CASE x # r
    <3>1. Waits(x)' <=> Waits(x)
      BY <1>5 DEF Waits
    <3> QED
      BY <2>2, <3>1, <1>1, <1>3, <1>12, <1>13 DEF TokenOK
  <2> QED
    BY <2>1, <2>2
<1>21. WholeOK'
  <2>1. ASSUME NEW x \in Requests, x # r, NEW i, Part(x, i)
        PROVE  Part(x, i)'
    <3>1. <<x, i>> \in AtaSubTaskList[Device[x]] => <<x, i>> \in AtaSubTaskList'[Device[x]]
      BY <2>1, <1>8, ConstantsAre
    <3>2. ~Making(x)
      BY <2>1, <1>3
    <3> QED
      BY <2>1, <3>1, <3>2, <1>5 DEF Part
  <2>2. \A x \in Requests \ Blocking : Token'[x].status = "success" =>
          /\ x \in allocated' => ~IsError'[x] /\ \A i \in 1..Parts[x] : Part(x, i)'
          /\ Token'[x].signals = 1 => \A i \in 1..Parts[x] : <<x, i>> \in moved'
    BY <2>1, <1>1, <1>5, <1>12, <1>13 DEF WholeOK
  <2>3. \A x \in Blocking : returned'[x] = returned[x]
    BY <1>4, <1>12, ConstantsAre
  <2> QED
    BY <2>2, <2>3, <1>1, <1>5, <1>6 DEF WholeOK, BlockPcs
<1> QED
  BY <1>14, <1>15, <1>16, <1>17, <1>18, <1>19, <1>20, <1>21 DEF IndInv

-----------------------------------------------------------------------------
(***************************************************************************)
(* The callback of a subtask.                                              *)
(***************************************************************************)
\* The subtask of a callback is under way and its command is the next to end.
LEMMA CallBackSub ==
  ASSUME IndInv, signalled # <<>>, NEW sub, NEW r, sub = Head(signalled).sub, r = sub[1]
  PROVE  /\ Tail(signalled) \in Seq(Marks) /\ Head(signalled) \in Marks /\ Head(signalled) = signalled[1]
         /\ 1 \in 1..Len(signalled)
         /\ sub \in Under \ Held /\ Once(Entries, SubOf(Tail(signalled)), (Under \ Held) \ {sub})
         /\ sub \in Pairs /\ r \in Requests \ Blocking /\ sub \in AtaSubTaskList[Device[r]]
         /\ sub \in Outstanding(r) /\ sub[2] \in 1..Parts[r] /\ sub = <<r, sub[2]>>
         /\ Device[r] \in Devices /\ Parts[r] \in Nat
<1>1. TypeOK /\ SubsOK /\ CountedOut /\ OneCommand /\ CallerOK /\ WholeOK /\ CallerType
  BY SequencesAre DEF IndInv
<1>2. /\ signalled \in Seq(Marks) /\ Queued = SubOf(signalled) /\ Entries \in Seq(Pairs) /\ Queued \in Seq(Pairs)
      /\ Tail(signalled) \in Seq(Marks) /\ SubOf(Tail(signalled)) = Tail(Queued) /\ Queued # <<>>
      /\ Head(signalled) \in Marks /\ Head(Queued) = sub
  BY <1>1, SequencesAre, SubOfTail, TaskIs
<1>3. sub \in Under \ Held /\ Once(Entries, SubOf(Tail(signalled)), (Under \ Held) \ {sub})
  <2> DEFINE S == Under \ Held
             q == Queued
  <2>1. Once(Entries, q, S) /\ q \in Seq(Pairs) /\ q # <<>>
    BY <1>1, <1>2 DEF OneCommand
  <2> HIDE DEF S, q
  <2>2. Head(q) \in S /\ Once(Entries, Tail(q), S \ {Head(q)})
    BY <2>1, <1>2, OnceTail
  <2> QED
    BY <2>2, <1>2 DEF S, q
<1>4. /\ sub \in Pairs /\ r \in Requests \ Blocking /\ sub \in AtaSubTaskList[Device[r]]
      /\ sub \in Outstanding(r) /\ sub[2] \in 1..Parts[r] /\ sub = <<r, sub[2]>>
  BY <1>1, <1>3, UnderIs
<1>5. Device[r] \in Devices /\ Parts[r] \in Nat
  BY <1>4, ConstantsAre
<1>6. 1 \in 1..Len(signalled) /\ Head(signalled) = signalled[1]
  BY <1>2
<1> QED
  BY <1>2, <1>3, <1>4, <1>5, <1>6

\* The counter counts the subtask of a callback.
LEMMA CallBackCount ==
  ASSUME IndInv, signalled # <<>>, NEW sub, NEW r, sub = Head(signalled).sub, r = sub[1]
  PROVE  EventCount[r] - 1 = Cardinality(Outstanding(r) \ {sub}) + ToCome(r)
<1>1. TypeOK /\ SubsOK /\ CountedOut /\ CallerOK /\ CallerType
  BY SequencesAre DEF IndInv
<1>4. r \in Requests \ Blocking /\ sub \in Outstanding(r)
  BY CallBackSub
<1>6. r \in allocated /\ EventCount[r] = Cardinality(Outstanding(r)) + ToCome(r)
  BY <1>1, <1>4 DEF CountedOut
<1>7. /\ IsFiniteSet(Outstanding(r)) /\ Cardinality(Outstanding(r)) \in Nat
      /\ IsFiniteSet(Outstanding(r) \ {sub})
      /\ Cardinality(Outstanding(r) \ {sub}) = Cardinality(Outstanding(r)) - 1
  BY <1>1, <1>4, CountsAre, FS_RemoveElement, FS_Subset
<1>8. Cardinality(Outstanding(r) \ {sub}) \in Nat /\ (Cardinality(Outstanding(r) \ {sub}) = 0 <=> Outstanding(r) \ {sub} = {})
  BY <1>7, FS_CardinalityType, FS_EmptySet
<1>9. ToCome(r) \in Nat
  BY <1>1, <1>4, ToComeIs
<1> QED
  BY <1>6, <1>7, <1>8, <1>9

\* What the callback finds: its subtask is in the list of its device, the
\* counter counts it, and it is the last one only if nothing is to come.
LEMMA CallBackIs ==
  ASSUME IndInv, signalled # <<>>, NEW sub, NEW r, sub = Head(signalled).sub, r = sub[1]
  PROVE  /\ sub \in Pairs /\ sub = <<r, sub[2]>> /\ sub[2] \in 1..Parts[r]
         /\ r \in Requests \ Blocking /\ r \in allocated
         /\ sub \in AtaSubTaskList[Device[r]] /\ sub \notin Held /\ Head(signalled).failed \in BOOLEAN
         /\ Tail(signalled) \in Seq(Marks)
         /\ Once(Entries, SubOf(Tail(signalled)), (Under \ Held) \ {sub})
         /\ EventCount[r] = 1 <=> ~(Outstanding(r) \ {sub} # {} \/ ToCome(r) > 0)
         /\ Making(r) => <<r, caller.part>> # sub
         /\ EventCount[r] = 1 => /\ AtaSubTaskList[Device[r]] = {sub}
                                 /\ \A x \in Requests : Device[x] = Device[r] => ~Making(x)
         /\ ~Head(signalled).failed => sub \in moved
<1>1. TypeOK /\ SubsOK /\ CountedOut /\ OneCommand /\ CallerOK /\ WholeOK /\ CallerType
  BY SequencesAre DEF IndInv
<1>2. /\ Tail(signalled) \in Seq(Marks) /\ Head(signalled) \in Marks /\ Head(signalled) = signalled[1]
      /\ 1 \in 1..Len(signalled)
  BY CallBackSub
<1>3. sub \in Under \ Held /\ Once(Entries, SubOf(Tail(signalled)), (Under \ Held) \ {sub})
  BY CallBackSub
<1>4. /\ sub \in Pairs /\ r \in Requests \ Blocking /\ sub \in AtaSubTaskList[Device[r]]
      /\ sub \in Outstanding(r) /\ sub[2] \in 1..Parts[r] /\ sub = <<r, sub[2]>>
  BY CallBackSub
<1>5. Device[r] \in Devices /\ Parts[r] \in Nat
  BY CallBackSub
<1>6. r \in allocated /\ EventCount[r] = Cardinality(Outstanding(r)) + ToCome(r)
  BY <1>1, <1>4 DEF CountedOut
<1>7. /\ IsFiniteSet(Outstanding(r)) /\ Cardinality(Outstanding(r)) \in Nat
      /\ IsFiniteSet(Outstanding(r) \ {sub})
      /\ Cardinality(Outstanding(r) \ {sub}) = Cardinality(Outstanding(r)) - 1
  BY <1>1, <1>4, CountsAre, FS_RemoveElement, FS_Subset
<1>8. Cardinality(Outstanding(r) \ {sub}) \in Nat /\ (Cardinality(Outstanding(r) \ {sub}) = 0 <=> Outstanding(r) \ {sub} = {})
  BY <1>7, FS_CardinalityType, FS_EmptySet
<1>9. ToCome(r) \in Nat
  BY <1>1, <1>4, ToComeIs
<1>11. EventCount[r] = 1 <=> ~(Outstanding(r) \ {sub} # {} \/ ToCome(r) > 0)
  <2>1. EventCount[r] = 1 <=> Cardinality(Outstanding(r) \ {sub}) + ToCome(r) = 0
    BY <1>6, <1>7, <1>8, <1>9
  <2> QED
    BY <2>1, <1>8, <1>9
<1>12. Making(r) => <<r, caller.part>> # sub
  <2> SUFFICES ASSUME Making(r), sub = <<r, caller.part>> PROVE FALSE
    OBVIOUS
  <2>1. caller.req = r /\ caller.pc \in CallPcs
    BY DEF Making, InCall
  <2>2. caller.pc \notin {"transfer", "exit"}
    BY <2>1, <1>3 DEF Held
  <2>3. caller.pc = "subtask" /\ caller.part \in Nat
    BY <2>1, <2>2, <1>1, CallerIs DEF InCall, CallPcs
  <2>4. sub[2] = caller.part /\ sub[2] < caller.part
    BY <2>3, <1>1, <1>4, <1>5 DEF SubsOK
  <2> QED
    BY <2>3, <2>4
<1>13. ASSUME EventCount[r] = 1
       PROVE  /\ AtaSubTaskList[Device[r]] = {sub}
              /\ \A x \in Requests : Device[x] = Device[r] => ~Making(x)
  <2>1. \A s \in AtaSubTaskList[Device[r]] : s[1] = r
    BY <1>1, <1>4, <1>5 DEF SubsOK
  <2>2. AtaSubTaskList[Device[r]] = {sub}
    BY <2>1, <1>4, <1>11, <1>13 DEF Outstanding
  <2>3. ASSUME NEW x \in Requests, Device[x] = Device[r], Making(x)
        PROVE  FALSE
    <3>1. x = r
      BY <2>3, <1>1, <1>4 DEF CallerOK
    <3>2. caller.part \in 1..Parts[r] /\ <<r, caller.part>> \notin AtaSubTaskList[Device[r]]
      BY <2>2, <2>3, <3>1, <1>1, <1>12, CallerIs DEF Making
    <3>3. ToCome(r) = Parts[r] - caller.part + 1
      BY <2>3, <3>1, <3>2, <1>1, <1>4, ToComeIs
    <3> QED
      BY <3>2, <3>3, <1>5, <1>11, <1>13
  <2> QED
    BY <2>2, <2>3
<1>14. ~Head(signalled).failed => sub \in moved
  BY <1>1, <1>2 DEF WholeOK
<1> QED
  BY <1>2, <1>3, <1>4, <1>6, <1>11, <1>12, <1>13, <1>14 DEF Marks

\* The token that the callback leaves.
After(r, failed) ==
  [status |-> Status(r, failed), signals |-> Token[r].signals + IF Signals(r) THEN 1 ELSE 0]

LEMMA AfterIs ==
  ASSUME IndInv, signalled # <<>>, NEW sub, NEW r, sub = Head(signalled).sub, r = sub[1],
         NEW t, t = After(r, Head(signalled).failed)
  PROVE  /\ t \in [status : Statuses, signals : Nat] /\ t.signals <= 1
         /\ returned[r] # "success" => t.signals = 0
         /\ EventCount[r] # 1 /\ ~IsError[r] => t.signals = 0
         /\ EventCount[r] = 1 => returned[r] # "no"
         /\ returned[r] = "success" => t.signals = 1 \/ (EventCount[r] # 1 /\ ~IsError[r])
         /\ t.status = "success" => /\ Token[r].status = "success" /\ ~IsError[r] /\ sub \in moved
                                    /\ \A i \in 1..Parts[r] : Part(r, i)
                                    /\ t.signals = 1 => \A i \in 1..Parts[r] : <<r, i>> \in moved
<1>1. TypeOK /\ QueueOK /\ TokenOK /\ WholeOK
  BY DEF IndInv
<1>2. /\ sub = <<r, sub[2]>> /\ r \in Requests \ Blocking /\ r \in allocated /\ Device[r] \in Devices
      /\ EventCount[r] = 1 => ~Making(r) /\ AtaSubTaskList[Device[r]] = {sub}
      /\ ~Head(signalled).failed => sub \in moved
  BY CallBackIs, ConstantsAre
<1>3. /\ Token[r].status \in Statuses /\ Token[r].signals \in Nat /\ Token[r].signals <= 1
      /\ IsError[r] \in BOOLEAN /\ returned[r] \in {"no", "success", "error"}
      /\ returned[r] # "success" => Token[r].signals = 0
      /\ returned[r] = "error" => IsError[r]
      /\ ~IsError[r] => Token[r].signals = 0
      /\ returned[r] = "no" => Making(r)
      /\ returned[r] = "success" => Token[r].signals = 1 \/ ~IsError[r] \/ Waits(r)
  BY <1>1, <1>2 DEF TypeOK, TokenOK
<1>4. ~Waits(r)
  BY <1>1, <1>2 DEF QueueOK, Waits
<1>5. /\ t.status = Status(r, Head(signalled).failed)
      /\ t.signals = Token[r].signals + IF Signals(r) THEN 1 ELSE 0
      /\ t = [status |-> t.status, signals |-> t.signals]
  BY DEF After
<1>6. t.status \in Statuses
  BY <1>3, <1>5 DEF Status, Statuses
<1>7. /\ Signals(r) => t.signals = 1 /\ returned[r] = "success" /\ EventCount[r] = 1 /\ ~IsError[r]
      /\ ~Signals(r) => t.signals = Token[r].signals
  BY <1>2, <1>3, <1>5 DEF Signals
<1>8. ASSUME t.status = "success"
      PROVE  /\ Token[r].status = "success" /\ ~IsError[r] /\ sub \in moved
             /\ \A i \in 1..Parts[r] : Part(r, i)
             /\ t.signals = 1 => \A i \in 1..Parts[r] : <<r, i>> \in moved
  <2>1. Token[r].status = "success" /\ (IsError[r] \/ ~Head(signalled).failed)
    BY <1>5, <1>8 DEF Status
  <2>2. ~IsError[r] /\ \A i \in 1..Parts[r] : Part(r, i)
    BY <2>1, <1>1, <1>2 DEF WholeOK
  <2>3. sub \in moved
    BY <2>1, <2>2, <1>2
  <2>4. ASSUME t.signals = 1, NEW i \in 1..Parts[r]
        PROVE  <<r, i>> \in moved
    <3>1. EventCount[r] = 1
      BY <2>2, <2>4, <1>3, <1>7
    <3> QED
      BY <3>1, <2>2, <2>3, <1>2 DEF Part
  <2> QED
    BY <2>1, <2>2, <2>3, <2>4
<1>9. t \in [status : Statuses, signals : Nat] /\ t.signals <= 1
  BY <1>3, <1>5, <1>6, <1>7
<1>10. /\ returned[r] # "success" => t.signals = 0
       /\ EventCount[r] # 1 /\ ~IsError[r] => t.signals = 0
       /\ EventCount[r] = 1 => returned[r] # "no"
       /\ returned[r] = "success" => t.signals = 1 \/ (EventCount[r] # 1 /\ ~IsError[r])
  BY <1>2, <1>3, <1>4, <1>7 DEF Signals
<1> QED
  BY <1>8, <1>9, <1>10

LEMMA SubsCount ==
  ASSUME NEW q, NEW n \in Nat
  PROVE  IsFiniteSet(Subs(q, n)) /\ Cardinality(Subs(q, n)) = n
<1> DEFINE f == [i \in 1..n |-> <<q, i>>]
<1>1. f \in Bijection(1..n, Subs(q, n))
  <2>1. f \in [1..n -> Subs(q, n)] /\ \A i, j \in 1..n : f[i] = f[j] => i = j
    BY DEF Subs
  <2>2. \A s \in Subs(q, n) : \E i \in 1..n : f[i] = s
    BY DEF Subs
  <2> QED
    BY <2>1, <2>2 DEF Bijection, Injection, Surjection, IsInjective
<1>2. ExistsBijection(1..n, Subs(q, n))
  BY <1>1 DEF ExistsBijection
<1>3. IsFiniteSet(Subs(q, n))
  BY <1>2, FS_NatBijection
<1>4. Cardinality(Subs(q, n)) = n
  BY <1>2, FS_CountingElements
<1> QED
  BY <1>3, <1>4

LEMMA NewTasks ==
  ASSUME NEW q \in Requests, NEW n \in Nat
  PROVE  /\ [i \in 1..n |-> Task(<<q, i>>)] \in Seq(Tasks)
         /\ Once(SubOf([i \in 1..n |-> Task(<<q, i>>)]), <<>>, Subs(q, n))
<1> DEFINE K == [i \in 1..n |-> Task(<<q, i>>)]
<1>1. \A i \in 1..n : <<q, i>> \in Pairs /\ Task(<<q, i>>) \in Tasks /\ Task(<<q, i>>).sub = <<q, i>>
  <2>1. \A i \in 1..n : <<q, i>> \in Pairs
    BY DEF Pairs
  <2> QED
    BY <2>1, TaskIs
<1>2. K \in Seq(Tasks) /\ Len(K) = n /\ \A i \in 1..n : K[i] = Task(<<q, i>>)
  BY <1>1
<1> HIDE DEF K
<1>3. Len(SubOf(K)) = n /\ \A i \in 1..n : SubOf(K)[i] = <<q, i>>
  <2>1. Len(SubOf(K)) = Len(K) /\ \A i \in 1..Len(K) : SubOf(K)[i] = K[i].sub
    BY <1>2, TaskIs, SubOfIs
  <2> QED
    BY <2>1, <1>1, <1>2
<1>4. \A i \in 1..Len(<<>>) : FALSE
  OBVIOUS
<1>5. Once(SubOf(K), <<>>, Subs(q, n))
  <2>1. \A x \in Subs(q, n) : \E i \in 1..n : x = <<q, i>>
    BY DEF Subs
  <2>2. \A i \in 1..n : <<q, i>> \in Subs(q, n)
    BY DEF Subs
  <2>3. \A x \in Subs(q, n) : \E i \in 1..Len(SubOf(K)) : SubOf(K)[i] = x
    BY <2>1, <1>3
  <2>4. \A i, j \in 1..Len(SubOf(K)) : SubOf(K)[i] = SubOf(K)[j] => i = j
    BY <1>3
  <2>5. \A i \in 1..Len(SubOf(K)) : SubOf(K)[i] \in Subs(q, n)
    BY <2>2, <1>3
  <2> QED
    BY <2>3, <2>4, <2>5, <1>4 DEF Once
<1> QED
  BY <1>2, <1>5 DEF K

\* A callback counts its subtask out and gives it back; if it was the last one,
\* Q holds the request that it starts, N its new subtasks, K their commands.
Shape(sub, r, Q, N, K) ==
  LET d == Device[r]
  IN  /\ UNCHANGED <<Abort, caller, returned, moved, errors, resets>> /\ signalled' = Tail(signalled)
      /\ AtaSubTaskList'[d] = (AtaSubTaskList[d] \ {sub}) \cup N
      /\ \A x \in Devices : x # d =>
           AtaSubTaskList'[x] = AtaSubTaskList[x] /\ AtaTaskList'[x] = AtaTaskList[x]
      /\ NonBlockingTaskList' = NonBlockingTaskList \o K
      /\ K \in Seq(Tasks) /\ Once(SubOf(K), <<>>, N)
      /\ \A x \in Requests \ Q : x # r =>
           /\ EventCount'[x] = EventCount[x] /\ IsError'[x] = IsError[x] /\ Token'[x] = Token[x]
           /\ x \in allocated' <=> x \in allocated
      /\ EventCount'[r] = EventCount[r] - 1 /\ IsError'[r] = IsError[r]
      /\ Token'[r] = After(r, Head(signalled).failed)
      /\ r \in allocated' <=> EventCount[r] # 1
      /\ Q = {} => /\ N = {} /\ AtaTaskList'[d] = AtaTaskList[d]
                   /\ EventCount[r] = 1 => AtaTaskList[d] = <<>>
      /\ Q # {} => /\ EventCount[r] = 1 /\ AtaTaskList[d] # <<>>
                   /\ Q = {Head(AtaTaskList[d])} /\ AtaTaskList'[d] = Tail(AtaTaskList[d])
      /\ \A q \in Q : q # r /\ \E n \in 0..Parts[q] :
           /\ N = Subs(q, n) /\ EventCount'[q] = n
           /\ q \in allocated' <=> n # 0
           /\ IsError'[q] <=> n # Parts[q]
           /\ n # Parts[q] => faults' > faults
           /\ Token'[q] = IF n = Parts[q] THEN [Token[q] EXCEPT !.status = "success"]
                          ELSE [status |-> "no resources", signals |-> Token[q].signals + 1]

LEMMA CallBackShape ==
  ASSUME IndInv, AtaNonBlockingCallBack, NEW sub, NEW r, sub = Head(signalled).sub, r = sub[1]
  PROVE  \E Q, N, K : Shape(sub, r, Q, N, K)
<1> DEFINE d == Device[r]
           counts == [EventCount EXCEPT ![r] = @ - 1]
           live == IF EventCount[r] = 1 THEN allocated \ {r} ELSE allocated
           t == After(r, Head(signalled).failed)
           tokens == [Token EXCEPT ![r] = t]
           subs == [AtaSubTaskList EXCEPT ![d] = @ \ {sub}]
<1>1. TypeOK /\ QueueOK
  BY DEF IndInv
<1>2. /\ AtaTaskList \in [Devices -> Seq(Requests)] /\ AtaSubTaskList \in [Devices -> SUBSET Pairs]
      /\ EventCount \in [Requests -> Nat] /\ IsError \in [Requests -> BOOLEAN]
      /\ allocated \in SUBSET Requests /\ Token \in [Requests -> [status : Statuses, signals : Nat]]
      /\ NonBlockingTaskList \in Seq(Tasks) /\ faults \in Nat
  <2>1. faults \in Nat
    BY <1>1, ConstantsAre DEF TypeOK
  <2>2. NonBlockingTaskList \in Seq(Tasks)
    BY <1>1, SequencesAre
  <2> QED
    BY <2>1, <2>2, <1>1 DEF TypeOK, Pairs
<1>3. /\ signalled # <<>> /\ signalled' = Tail(signalled)
      /\ UNCHANGED <<Abort, caller, returned, moved, errors, resets>>
      /\ IF StartsNext(r) THEN StartQueued(d, subs, counts, tokens, live)
         ELSE /\ AtaSubTaskList' = subs /\ EventCount' = counts
              /\ Token' = tokens /\ allocated' = live
              /\ UNCHANGED <<AtaTaskList, NonBlockingTaskList, IsError, faults>>
  BY DEF AtaNonBlockingCallBack, Freed, After
<1>4. r \in Requests /\ r \in allocated /\ d \in Devices
  BY <1>3, CallBackIs, ConstantsAre
<1>5. /\ EventCount[r] \in Nat
      /\ counts[r] = EventCount[r] - 1 /\ DOMAIN counts = Requests
      /\ \A x \in Requests : x # r => counts[x] = EventCount[x]
      /\ tokens[r] = t /\ DOMAIN tokens = Requests
      /\ \A x \in Requests : x # r => tokens[x] = Token[x]
      /\ subs[d] = AtaSubTaskList[d] \ {sub} /\ DOMAIN subs = Devices
      /\ \A x \in Devices : x # d => subs[x] = AtaSubTaskList[x]
      /\ r \in live <=> EventCount[r] # 1
      /\ \A x \in Requests : x # r => (x \in live <=> x \in allocated)
  BY <1>2, <1>4
<1> HIDE DEF counts, live, t, tokens, subs
<1>6. CASE ~StartsNext(r)
  <2>1. EventCount[r] = 1 => AtaTaskList[d] = <<>>
    BY <1>6 DEF StartsNext
  <2>2. NonBlockingTaskList' = NonBlockingTaskList \o <<>>
    BY <1>2, <1>3, <1>6
  <2>3. <<>> \in Seq(Tasks) /\ Once(SubOf(<<>>), <<>>, {})
    <3>1. \A i \in 1..Len(<<>>) : FALSE
      OBVIOUS
    <3> QED
      BY <3>1, SubOfEmpty DEF Once
  <2>4. Shape(sub, r, {}, {}, <<>>)
    BY <2>1, <2>2, <2>3, <1>3, <1>5, <1>6 DEF Shape, t
  <2> QED
    BY <2>4
<1>7. CASE StartsNext(r)
  <2> DEFINE q == Head(AtaTaskList[d])
  <2>1. EventCount[r] = 1 /\ AtaTaskList[d] # <<>> /\ q \in Requests
    BY <1>2, <1>4, <1>7 DEF StartsNext
  <2>2. q # r /\ Parts[q] \in Nat
    <3>1. 1 \in 1..Len(AtaTaskList[d]) /\ q = AtaTaskList[d][1]
      BY <2>1, <1>2, <1>4
    <3> QED
      BY <3>1, <2>1, <1>1, <1>4, ConstantsAre DEF QueueOK
  <2>3. PICK n \in 0..Parts[q] :
          /\ IF n = Parts[q] THEN UNCHANGED faults ELSE faults' = faults + 1
          /\ AtaSubTaskList' = [subs EXCEPT ![d] = @ \cup Subs(q, n)]
          /\ NonBlockingTaskList' = NonBlockingTaskList \o [i \in 1..n |-> Task(<<q, i>>)]
          /\ EventCount' = [counts EXCEPT ![q] = n]
          /\ IsError' = [IsError EXCEPT ![q] = ~(n = Parts[q])]
          /\ allocated' = IF n = 0 THEN live ELSE live \cup {q}
          /\ Token' = IF n = Parts[q] THEN [tokens EXCEPT ![q].status = "success"]
                      ELSE [tokens EXCEPT ![q] = [status |-> "no resources", signals |-> @.signals + 1]]
    BY <1>3, <1>7 DEF StartQueued, NextTask, Fault
  <2>4. AtaTaskList' = [AtaTaskList EXCEPT ![d] = Tail(@)]
    BY <1>3, <1>7 DEF StartQueued
  <2> DEFINE N == Subs(q, n)
             K == [i \in 1..n |-> Task(<<q, i>>)]
  <2>5. n \in Nat
    BY <2>2
  <2>6. K \in Seq(Tasks) /\ Once(SubOf(K), <<>>, N)
    BY <2>1, <2>5, NewTasks
  <2> HIDE DEF q
  <2>7. q \notin allocated
    <3>1. 1 \in 1..Len(AtaTaskList[d]) /\ q = AtaTaskList[d][1]
      BY <2>1, <1>2, <1>4 DEF q
    <3> QED
      BY <3>1, <1>1, <1>4 DEF QueueOK
  <2>8. /\ EventCount'[r] = EventCount[r] - 1 /\ EventCount'[q] = n
        /\ IsError'[r] = IsError[r] /\ (IsError'[q] <=> n # Parts[q])
        /\ r \in allocated' <=> EventCount[r] # 1
        /\ q \in allocated' <=> n # 0
        /\ \A x \in Requests \ {q} : x # r =>
             /\ EventCount'[x] = EventCount[x] /\ IsError'[x] = IsError[x]
             /\ x \in allocated' <=> x \in allocated
    BY <2>1, <2>2, <2>3, <2>7, <1>2, <1>4, <1>5
  <2>9. /\ Token'[r] = t
        /\ \A x \in Requests \ {q} : x # r => Token'[x] = Token[x]
        /\ Token'[q] = IF n = Parts[q] THEN [Token[q] EXCEPT !.status = "success"]
                       ELSE [status |-> "no resources", signals |-> Token[q].signals + 1]
    <3>1. tokens[q] = Token[q] /\ tokens[r] = t
      BY <2>1, <2>2, <1>5
    <3>2. CASE n = Parts[q]
      <4>1. Token' = [tokens EXCEPT ![q] = [Token[q] EXCEPT !.status = "success"]]
        BY <3>1, <3>2, <2>3
      <4> QED
        BY <3>1, <3>2, <4>1, <2>1, <2>2, <1>4, <1>5
    <3>3. CASE n # Parts[q]
      <4>1. Token' = [tokens EXCEPT ![q] = [status |-> "no resources", signals |-> Token[q].signals + 1]]
        BY <3>1, <3>3, <2>3
      <4> QED
        BY <3>1, <3>3, <4>1, <2>1, <2>2, <1>4, <1>5
    <3> QED
      BY <3>2, <3>3
  <2>10. /\ AtaSubTaskList'[d] = (AtaSubTaskList[d] \ {sub}) \cup N
         /\ AtaTaskList'[d] = Tail(AtaTaskList[d])
         /\ \A x \in Devices : x # d =>
              AtaSubTaskList'[x] = AtaSubTaskList[x] /\ AtaTaskList'[x] = AtaTaskList[x]
    BY <2>3, <2>4, <1>2, <1>4, <1>5
  <2>11. n # Parts[q] => faults' > faults
    <3>1. n # Parts[q] => faults' = faults + 1
      BY <2>3
    <3> QED
      BY <3>1, <1>2
  <2>12. NonBlockingTaskList' = NonBlockingTaskList \o K
    BY <2>3
  <2> HIDE DEF N, K
  <2>13. \A x \in {q} : x # r /\ \E m \in 0..Parts[x] :
           /\ N = Subs(x, m) /\ EventCount'[x] = m
           /\ x \in allocated' <=> m # 0
           /\ IsError'[x] <=> m # Parts[x]
           /\ m # Parts[x] => faults' > faults
           /\ Token'[x] = IF m = Parts[x] THEN [Token[x] EXCEPT !.status = "success"]
                          ELSE [status |-> "no resources", signals |-> Token[x].signals + 1]
    <3>1. n \in 0..Parts[q] /\ N = Subs(q, n)
      BY DEF N
    <3>2. \E m \in 0..Parts[q] :
            /\ N = Subs(q, m) /\ EventCount'[q] = m
            /\ q \in allocated' <=> m # 0
            /\ IsError'[q] <=> m # Parts[q]
            /\ m # Parts[q] => faults' > faults
            /\ Token'[q] = IF m = Parts[q] THEN [Token[q] EXCEPT !.status = "success"]
                           ELSE [status |-> "no resources", signals |-> Token[q].signals + 1]
      <4>1. /\ N = Subs(q, n) /\ EventCount'[q] = n
            /\ q \in allocated' <=> n # 0
            /\ IsError'[q] <=> n # Parts[q]
            /\ n # Parts[q] => faults' > faults
        BY <3>1, <2>8, <2>11
      <4> HIDE DEF N
      <4> QED
        BY <4>1, <3>1, <2>9, Zenon
    <3> QED
      BY <3>2, <2>2
  <2>14. Shape(sub, r, {q}, N, K)
    BY <2>1, <2>6, <2>8, <2>9, <2>10, <2>12, <2>13, <1>3, Zenon DEF Shape, t, q
  <2> QED
    BY <2>14
<1> QED
  BY <1>6, <1>7

LEMMA CallBackType ==
  ASSUME IndInv, AtaNonBlockingCallBack
  PROVE  TypeOK'
<1>0. PICK sub, r : sub = Head(signalled).sub /\ r = sub[1]
  OBVIOUS
<1> DEFINE d == Device[r]
           counts == [EventCount EXCEPT ![r] = @ - 1]
           live == IF EventCount[r] = 1 THEN allocated \ {r} ELSE allocated
           t == After(r, Head(signalled).failed)
           tokens == [Token EXCEPT ![r] = t]
           subs == [AtaSubTaskList EXCEPT ![d] = @ \ {sub}]
<1>1. TypeOK
  BY DEF IndInv
<1>2. /\ AtaTaskList \in [Devices -> Seq(Requests)] /\ AtaSubTaskList \in [Devices -> SUBSET Pairs]
      /\ EventCount \in [Requests -> Nat] /\ IsError \in [Requests -> BOOLEAN]
      /\ allocated \in SUBSET Requests /\ Token \in [Requests -> [status : Statuses, signals : Nat]]
      /\ faults \in 0..MaxFaults /\ NonBlockingTaskList \in Seq(Tasks)
  BY <1>1, SequencesAre DEF TypeOK, Pairs
<1>3. /\ signalled # <<>> /\ signalled' = Tail(signalled)
      /\ UNCHANGED <<Abort, caller, returned, moved, errors, resets>>
      /\ IF StartsNext(r) THEN StartQueued(d, subs, counts, tokens, live)
         ELSE /\ AtaSubTaskList' = subs /\ EventCount' = counts
              /\ Token' = tokens /\ allocated' = live
              /\ UNCHANGED <<AtaTaskList, NonBlockingTaskList, IsError, faults>>
  BY <1>0 DEF AtaNonBlockingCallBack, Freed, After
<1>4. r \in Requests /\ r \in allocated /\ d \in Devices /\ Tail(signalled) \in Seq(Marks)
  BY <1>0, <1>3, CallBackIs, ConstantsAre
<1>5. EventCount[r] - 1 \in Nat
  <2>1. EventCount[r] - 1 = Cardinality(Outstanding(r) \ {sub}) + ToCome(r)
    BY <1>0, <1>3, CallBackCount
  <2>2. SubsOK /\ CallerType
    BY <1>1, SequencesAre DEF IndInv
  <2>3. IsFiniteSet(Outstanding(r) \ {sub})
    BY <2>2, <1>4, CountsAre, FS_Subset
  <2>4. Cardinality(Outstanding(r) \ {sub}) \in Nat
    BY <2>3, FS_CardinalityType
  <2>5. ToCome(r) \in Nat
    BY <2>2, <1>4, ToComeIs
  <2> QED
    BY <2>1, <2>4, <2>5
<1>6. t \in [status : Statuses, signals : Nat]
  BY <1>0, <1>3, AfterIs
<1>7. /\ counts \in [Requests -> Nat] /\ live \in SUBSET Requests
      /\ tokens \in [Requests -> [status : Statuses, signals : Nat]]
      /\ subs \in [Devices -> SUBSET Pairs]
  <2> HIDE DEF t
  <2> QED
    BY <1>2, <1>4, <1>5, <1>6
<1> HIDE DEF counts, live, t, tokens, subs
<1>8. /\ AtaTaskList' \in [Devices -> Seq(Requests)] /\ AtaSubTaskList' \in [Devices -> SUBSET Pairs]
      /\ EventCount' \in [Requests -> Nat] /\ IsError' \in [Requests -> BOOLEAN]
      /\ allocated' \in SUBSET Requests /\ Token' \in [Requests -> [status : Statuses, signals : Nat]]
      /\ faults' \in 0..MaxFaults /\ NonBlockingTaskList' \in Seq(Tasks)
  <2>1. CASE ~StartsNext(r)
    BY <2>1, <1>2, <1>3, <1>7
  <2>2. CASE StartsNext(r)
    <3> DEFINE q == Head(AtaTaskList[d])
    <3>1. AtaTaskList[d] # <<>> /\ q \in Requests /\ Tail(AtaTaskList[d]) \in Seq(Requests)
      BY <1>2, <1>4, <2>2 DEF StartsNext
    <3>2. PICK n \in 0..Parts[q] :
            /\ IF n = Parts[q] THEN UNCHANGED faults ELSE faults < MaxFaults /\ faults' = faults + 1
            /\ AtaSubTaskList' = [subs EXCEPT ![d] = @ \cup Subs(q, n)]
            /\ NonBlockingTaskList' = NonBlockingTaskList \o [i \in 1..n |-> Task(<<q, i>>)]
            /\ EventCount' = [counts EXCEPT ![q] = n]
            /\ IsError' = [IsError EXCEPT ![q] = ~(n = Parts[q])]
            /\ allocated' = IF n = 0 THEN live ELSE live \cup {q}
            /\ Token' = IF n = Parts[q] THEN [tokens EXCEPT ![q].status = "success"]
                        ELSE [tokens EXCEPT ![q] = [status |-> "no resources", signals |-> @.signals + 1]]
      BY <1>3, <2>2 DEF StartQueued, NextTask, Fault
    <3>3. AtaTaskList' = [AtaTaskList EXCEPT ![d] = Tail(@)]
      BY <1>3, <2>2 DEF StartQueued
    <3>4. n \in Nat
      BY <3>1, ConstantsAre
    <3> DEFINE K == [i \in 1..n |-> Task(<<q, i>>)]
    <3>5. K \in Seq(Tasks)
      BY <3>1, <3>4, NewTasks
    <3>6. Subs(q, n) \subseteq Pairs
      <4>1. \A s \in Subs(q, n) : \E i \in 1..n : s = <<q, i>>
        BY DEF Subs
      <4>2. \A i \in 1..n : <<q, i>> \in Pairs
        BY <3>1 DEF Pairs
      <4> QED
        BY <4>1, <4>2
    <3> HIDE DEF q
    <3>7. NonBlockingTaskList' \in Seq(Tasks)
      <4>1. NonBlockingTaskList' = NonBlockingTaskList \o K
        BY <3>2
      <4> HIDE DEF K
      <4> QED
        BY <4>1, <3>5, <1>2
    <3>8. Token' \in [Requests -> [status : Statuses, signals : Nat]]
      <4>1. tokens[q] \in [status : Statuses, signals : Nat] /\ "success" \in Statuses /\ "no resources" \in Statuses
        BY <3>1, <1>7 DEF Statuses
      <4>2. [tokens[q] EXCEPT !.status = "success"] \in [status : Statuses, signals : Nat]
        BY <4>1
      <4>3. [status |-> "no resources", signals |-> tokens[q].signals + 1] \in [status : Statuses, signals : Nat]
        <5>1. tokens[q].signals \in Nat
          BY <4>1
        <5>2. tokens[q].signals + 1 \in Nat
          BY <5>1
        <5> QED
          BY <4>1, <5>2
      <4>4. \/ Token' = [tokens EXCEPT ![q] = [tokens[q] EXCEPT !.status = "success"]]
            \/ Token' = [tokens EXCEPT ![q] = [status |-> "no resources", signals |-> tokens[q].signals + 1]]
        <5>1. CASE n = Parts[q]
          BY <5>1, <3>2
        <5>2. CASE n # Parts[q]
          BY <5>2, <3>2
        <5> QED
          BY <5>1, <5>2
      <4> QED
        BY <4>2, <4>3, <4>4, <1>7
    <3>9. IsError' \in [Requests -> BOOLEAN]
      BY <3>2, <1>2
    <3>10. AtaTaskList' \in [Devices -> Seq(Requests)]
      BY <3>1, <3>3, <1>2
    <3>11. AtaSubTaskList' \in [Devices -> SUBSET Pairs]
      <4>1. subs[d] \cup Subs(q, n) \in SUBSET Pairs
        BY <3>6, <1>4, <1>7
      <4> QED
        BY <4>1, <3>2, <1>7
    <3>12. EventCount' \in [Requests -> Nat] /\ allocated' \in SUBSET Requests
      BY <3>1, <3>2, <3>4, <1>7
    <3>13. faults' \in 0..MaxFaults
      <4>1. CASE n = Parts[q]
        BY <4>1, <3>2, <1>2
      <4>2. CASE n # Parts[q]
        <5>1. faults < MaxFaults /\ faults' = faults + 1
          BY <4>2, <3>2
        <5> QED
          BY <5>1, <1>2, ConstantsAre
      <4> QED
        BY <4>1, <4>2
    <3> QED
      BY <3>7, <3>8, <3>9, <3>10, <3>11, <3>12, <3>13
  <2> QED
    BY <2>1, <2>2
<1> QED
  BY <1>1, <1>3, <1>4, <1>8 DEF TypeOK, Marks, Tasks, Pairs

\* The request that waits longest.
LEMMA HeadIs ==
  ASSUME TypeOK, QueueOK, NEW d \in Devices, AtaTaskList[d] # <<>>, NEW q, q = Head(AtaTaskList[d])
  PROVE  /\ q \in Requests \ Blocking /\ Device[q] = d /\ q \notin allocated
         /\ returned[q] = "success" /\ Token[q].signals = 0 /\ Token[q].status \in Statuses
         /\ Parts[q] \in Nat \ {0}
<1>1. AtaTaskList[d] \in Seq(Requests) /\ Token \in [Requests -> [status : Statuses, signals : Nat]]
  BY DEF TypeOK
<1>2. 1 \in 1..Len(AtaTaskList[d]) /\ q = AtaTaskList[d][1]
  BY <1>1
<1>3. /\ q \in Requests \ Blocking /\ Device[q] = d /\ q \notin allocated
      /\ returned[q] = "success" /\ Token[q].signals = 0
  BY <1>2 DEF QueueOK
<1> QED
  BY <1>1, <1>3, ConstantsAre

\* What waits behind the head of a queue.
TailOf(s, q) ==
  /\ Len(Tail(s)) = Len(s) - 1 /\ Len(s) \in Nat
  /\ \A i \in 1..(Len(s) - 1) : i + 1 \in 1..Len(s) /\ Tail(s)[i] = s[i + 1] /\ s[i + 1] # q
  /\ \A i \in 1..Len(s) : s[i] # q => i - 1 \in 1..(Len(s) - 1)

LEMMA TailIs ==
  ASSUME TypeOK, QueueOK, NEW d \in Devices, AtaTaskList[d] # <<>>, NEW q, q = Head(AtaTaskList[d])
  PROVE  TailOf(AtaTaskList[d], q)
<1> DEFINE s == AtaTaskList[d]
<1>1. s \in Seq(Requests)
  BY DEF TypeOK
<1>2. \A i, j \in 1..Len(s) : s[j] = s[i] => i = j
  BY DEF QueueOK
<1>3. s # <<>> /\ q = Head(s)
  OBVIOUS
<1> HIDE DEF s
<1>4. /\ 1 \in 1..Len(s) /\ q = s[1] /\ Len(s) \in Nat /\ Len(Tail(s)) = Len(s) - 1
      /\ \A i \in 1..(Len(s) - 1) : i + 1 \in 1..Len(s) /\ Tail(s)[i] = s[i + 1] /\ i + 1 # 1
  BY <1>1, <1>3
<1>5. \A i \in 1..(Len(s) - 1) : s[i + 1] # q
  BY <1>2, <1>4
<1>6. \A i \in 1..Len(s) : s[i] # q => i - 1 \in 1..(Len(s) - 1)
  BY <1>4
<1> QED
  BY <1>4, <1>5, <1>6 DEF s, TailOf

\* The lists after a callback: the request that it starts has the device to itself.
LEMMA CallBackLists ==
  ASSUME IndInv, AtaNonBlockingCallBack, NEW sub, NEW r, sub = Head(signalled).sub, r = sub[1],
         NEW Q, NEW N, NEW K, Shape(sub, r, Q, N, K)
  PROVE  /\ \A q \in Q : q \in Requests \ Blocking /\ Device[q] = Device[r] /\ q \notin allocated
         /\ \A s \in N : s \in Pairs /\ s[1] \in Q /\ s[2] \in 1..Parts[s[1]]
         /\ IsFiniteSet(N) /\ N \cap Under = {}
         /\ Q # {} => AtaSubTaskList[Device[r]] = {sub} /\ AtaSubTaskList'[Device[r]] = N
         /\ \A x \in Requests : Making(x) /\ Device[x] = Device[r] => Q = {} /\ N = {}
         /\ \A x \in Requests : /\ Making(x)' <=> Making(x)
                                /\ ToCome(x)' = ToCome(x)
                                /\ Making(x) => (<<x, caller.part>> \in AtaSubTaskList'[Device[x]]
                                                   <=> <<x, caller.part>> \in AtaSubTaskList[Device[x]])
         /\ Outstanding(r)' = Outstanding(r) \ {sub}
         /\ \A x \in Q : Outstanding(x)' = N /\ ToCome(x) = 0
         /\ \A x \in Requests \ Q : x # r => Outstanding(x)' = Outstanding(x)
         /\ Under' = (Under \ {sub}) \cup N
<1> DEFINE d == Device[r]
<1>1. TypeOK /\ SubsOK /\ CountedOut /\ CallerOK /\ QueueOK /\ CallerType /\ signalled # <<>>
  BY SequencesAre DEF IndInv, AtaNonBlockingCallBack
<1>2. /\ sub \in Pairs /\ r \in Requests \ Blocking /\ r \in allocated /\ sub \in AtaSubTaskList[d]
      /\ Making(r) => <<r, caller.part>> # sub
      /\ EventCount[r] = 1 => AtaSubTaskList[d] = {sub} /\ \A x \in Requests : Device[x] = d => ~Making(x)
  BY <1>1, CallBackIs
<1>3. d \in Devices /\ \A x \in Requests : Device[x] \in Devices
  BY <1>2, ConstantsAre
<1>4. /\ AtaSubTaskList'[d] = (AtaSubTaskList[d] \ {sub}) \cup N
      /\ \A x \in Devices : x # d => AtaSubTaskList'[x] = AtaSubTaskList[x]
      /\ UNCHANGED caller
      /\ Q = {} => N = {}
      /\ Q # {} => EventCount[r] = 1 /\ AtaTaskList[d] # <<>> /\ Q = {Head(AtaTaskList[d])}
      /\ \A q \in Q : q # r /\ \E n \in 0..Parts[q] : N = Subs(q, n)
  <2>1. /\ AtaSubTaskList'[d] = (AtaSubTaskList[d] \ {sub}) \cup N
        /\ \A x \in Devices : x # d => AtaSubTaskList'[x] = AtaSubTaskList[x]
        /\ UNCHANGED caller
        /\ Q = {} => N = {}
        /\ Q # {} => EventCount[r] = 1 /\ AtaTaskList[d] # <<>> /\ Q = {Head(AtaTaskList[d])}
    BY DEF Shape
  <2>2. ASSUME NEW q \in Q
        PROVE  q # r /\ \E n \in 0..Parts[q] : N = Subs(q, n)
    <3>1. q # r /\ \E n \in 0..Parts[q] :
           /\ N = Subs(q, n) /\ EventCount'[q] = n
           /\ q \in allocated' <=> n # 0
           /\ IsError'[q] <=> n # Parts[q]
           /\ n # Parts[q] => faults' > faults
           /\ Token'[q] = IF n = Parts[q] THEN [Token[q] EXCEPT !.status = "success"]
                          ELSE [status |-> "no resources", signals |-> Token[q].signals + 1]
      BY DEF Shape
    <3> QED
      BY <3>1
  <2> QED
    BY <2>1, <2>2
<1>5. \A q \in Q : q \in Requests \ Blocking /\ Device[q] = d /\ q \notin allocated /\ Parts[q] \in Nat
  BY <1>1, <1>3, <1>4, HeadIs
<1>6. (\A s \in N : s \in Pairs /\ s[1] \in Q /\ s[2] \in 1..Parts[s[1]]) /\ IsFiniteSet(N)
  <2>1. CASE Q = {}
    BY <2>1, <1>4, FS_EmptySet
  <2>2. CASE Q # {}
    <3>1. PICK q \in Q : TRUE
      BY <2>2
    <3>2. PICK n \in 0..Parts[q] : N = Subs(q, n)
      BY <3>1, <1>4
    <3>3. N = {<<q, i>> : i \in 1..n} /\ n \in Nat /\ q \in Requests /\ q \in Q
      BY <3>1, <3>2, <1>5 DEF Subs
    <3>4. IsFiniteSet(Subs(q, n))
      BY <3>3, SubsCount
    <3>5. IsFiniteSet(N)
      BY <3>2, <3>4
    <3>6. \A s \in N : s \in Pairs /\ s[1] \in Q /\ s[2] \in 1..Parts[s[1]]
      BY <3>2, <3>3, <1>5 DEF Pairs
    <3> QED
      BY <3>5, <3>6
  <2> QED
    BY <2>1, <2>2
<1>7. N \cap Under = {}
  <2> SUFFICES ASSUME NEW s \in N, s \in Under PROVE FALSE
    OBVIOUS
  <2>1. s[1] \in Q /\ s \in Outstanding(s[1]) /\ s[1] \in Requests
    BY <1>1, <1>5, <1>6, UnderIs
  <2>2. s[1] \in allocated
    BY <2>1, <1>1 DEF CountedOut
  <2> QED
    BY <2>1, <2>2, <1>5
<1>8. Q # {} => AtaSubTaskList[d] = {sub} /\ AtaSubTaskList'[d] = N
  <2> SUFFICES ASSUME Q # {} PROVE AtaSubTaskList[d] = {sub} /\ AtaSubTaskList'[d] = N
    OBVIOUS
  <2>1. AtaSubTaskList[d] = {sub}
    BY <1>2, <1>4
  <2> QED
    BY <2>1, <1>4
<1>9. \A x \in Requests : Making(x) /\ Device[x] = d => Q = {} /\ N = {}
  BY <1>2, <1>4
<1>10. \A x \in Requests : Making(x)' <=> Making(x)
  BY <1>4 DEF Making, InCall
<1>11. ASSUME NEW x \in Requests, Making(x)
       PROVE  <<x, caller.part>> \in AtaSubTaskList'[Device[x]] <=> <<x, caller.part>> \in AtaSubTaskList[Device[x]]
  <2>1. CASE Device[x] # d
    BY <2>1, <1>3, <1>4
  <2>2. CASE Device[x] = d
    <3>1. N = {}
      BY <2>2, <1>9, <1>11
    <3>2. <<x, caller.part>> # sub
      BY <1>2, <1>11
    <3> QED
      BY <2>2, <3>1, <3>2, <1>4
  <2> QED
    BY <2>1, <2>2
<1>12. ASSUME NEW x \in Requests
       PROVE  ToCome(x)' = ToCome(x)
  <2>1. CASE Making(x)
    <3>1. caller.pc \in CallPcs /\ caller.req = x /\ caller' = caller
      BY <2>1, <1>4 DEF Making, InCall
    <3> QED
      BY <2>1, <3>1, <1>11 DEF ToCome
  <2>2. CASE ~Making(x)
    BY <2>2, <1>4 DEF ToCome, Making, InCall, CallPcs
  <2> QED
    BY <2>1, <2>2
<1>13. /\ Outstanding(r)' = Outstanding(r) \ {sub}
       /\ \A x \in Q : Outstanding(x)' = N /\ ToCome(x) = 0
       /\ \A x \in Requests \ Q : x # r => Outstanding(x)' = Outstanding(x)
  <2>1. r \notin Q /\ \A s \in N : s[1] \in Q
    BY <1>4, <1>6
  <2>2. Outstanding(r)' = Outstanding(r) \ {sub}
    BY <2>1, <1>4 DEF Outstanding
  <2>3. ASSUME NEW x \in Q
        PROVE  Outstanding(x)' = N /\ ToCome(x) = 0
    <3>1. Q = {x} /\ AtaSubTaskList'[Device[x]] = N /\ ~Making(x) /\ x \in Requests
      BY <1>4, <1>5, <1>8, <1>9
    <3>2. Outstanding(x)' = N
      BY <3>1, <2>1 DEF Outstanding
    <3> QED
      BY <3>1, <3>2, <1>1, ToComeIs
  <2>4. ASSUME NEW x \in Requests \ Q, x # r
        PROVE  Outstanding(x)' = Outstanding(x)
    <3>1. CASE Device[x] # d
      BY <3>1, <1>3, <1>4 DEF Outstanding
    <3>2. CASE Device[x] = d
      <4>1. \A s : s[1] = x => (s \in AtaSubTaskList'[d] <=> s \in AtaSubTaskList[d])
        BY <2>1, <2>4, <1>4
      <4> QED
        BY <3>2, <4>1 DEF Outstanding
    <3> QED
      BY <3>1, <3>2
  <2> QED
    BY <2>2, <2>3, <2>4
<1>14. Under' = (Under \ {sub}) \cup N
  <2>1. \A x \in Devices : x # d => sub \notin AtaSubTaskList[x]
    BY <1>1, <1>2 DEF SubsOK
  <2> QED
    BY <2>1, <1>3, <1>4 DEF Under
<1> QED
  BY <1>5, <1>6, <1>7, <1>8, <1>9, <1>10, <1>11, <1>12, <1>13, <1>14

LEMMA CallBackStep ==
  ASSUME IndInv, AtaNonBlockingCallBack
  PROVE  IndInv'
<1>0. PICK sub, r : sub = Head(signalled).sub /\ r = sub[1]
  OBVIOUS
<1>1. /\ TypeOK /\ SubsOK /\ CountedOut /\ OneCommand /\ CallerOK /\ QueueOK /\ TokenOK /\ WholeOK /\ ResetOK
      /\ CallerType /\ signalled # <<>>
  BY SequencesAre DEF IndInv, AtaNonBlockingCallBack
<1>2. PICK Q, N, K : Shape(sub, r, Q, N, K)
  BY <1>0, CallBackShape
<1> DEFINE d == Device[r]
           t == After(r, Head(signalled).failed)
<1>3. /\ sub \in Pairs /\ sub = <<r, sub[2]>> /\ r \in Requests \ Blocking /\ r \in allocated
      /\ sub \in AtaSubTaskList[d] /\ sub \notin Held
      /\ Tail(signalled) \in Seq(Marks)
      /\ Once(Entries, SubOf(Tail(signalled)), (Under \ Held) \ {sub})
      /\ EventCount[r] - 1 = Cardinality(Outstanding(r) \ {sub}) + ToCome(r)
      /\ EventCount[r] = 1 <=> ~(Outstanding(r) \ {sub} # {} \/ ToCome(r) > 0)
      /\ EventCount[r] = 1 => \A x \in Requests : Device[x] = d => ~Making(x)
  <2>1. /\ sub \in Pairs /\ sub = <<r, sub[2]>> /\ r \in Requests \ Blocking /\ r \in allocated
        /\ sub \in AtaSubTaskList[d] /\ sub \notin Held
        /\ Tail(signalled) \in Seq(Marks)
        /\ EventCount[r] = 1 => \A x \in Requests : Device[x] = d => ~Making(x)
    BY <1>0, <1>1, CallBackIs
  <2>2. Once(Entries, SubOf(Tail(signalled)), (Under \ Held) \ {sub})
    BY <1>0, <1>1, CallBackIs
  <2>3. EventCount[r] - 1 = Cardinality(Outstanding(r) \ {sub}) + ToCome(r)
    <3>1. signalled # <<>>
      BY <1>1
    <3> QED
      BY <3>1, <1>0, CallBackCount
  <2>4. EventCount[r] = 1 <=> ~(Outstanding(r) \ {sub} # {} \/ ToCome(r) > 0)
    BY <1>0, <1>1, CallBackIs
  <2> QED
    BY <2>1, <2>2, <2>3, <2>4
<1>4. /\ t.signals <= 1
      /\ returned[r] # "success" => t.signals = 0
      /\ EventCount[r] # 1 /\ ~IsError[r] => t.signals = 0
      /\ EventCount[r] = 1 => returned[r] # "no"
      /\ returned[r] = "success" => t.signals = 1 \/ (EventCount[r] # 1 /\ ~IsError[r])
      /\ t.status = "success" => /\ ~IsError[r] /\ sub \in moved
                                 /\ \A i \in 1..Parts[r] : Part(r, i)
                                 /\ t.signals = 1 => \A i \in 1..Parts[r] : <<r, i>> \in moved
  BY <1>0, <1>1, AfterIs
<1> HIDE DEF t
<1>5. /\ UNCHANGED <<Abort, caller, returned, moved, errors, resets>> /\ signalled' = Tail(signalled)
      /\ AtaSubTaskList'[d] = (AtaSubTaskList[d] \ {sub}) \cup N
      /\ \A x \in Devices : x # d =>
           AtaSubTaskList'[x] = AtaSubTaskList[x] /\ AtaTaskList'[x] = AtaTaskList[x]
      /\ NonBlockingTaskList' = NonBlockingTaskList \o K
      /\ K \in Seq(Tasks) /\ Once(SubOf(K), <<>>, N)
      /\ \A x \in Requests \ Q : x # r =>
           /\ EventCount'[x] = EventCount[x] /\ IsError'[x] = IsError[x] /\ Token'[x] = Token[x]
           /\ x \in allocated' <=> x \in allocated
      /\ EventCount'[r] = EventCount[r] - 1 /\ IsError'[r] = IsError[r]
      /\ Token'[r] = t
      /\ r \in allocated' <=> EventCount[r] # 1
      /\ Q = {} => N = {} /\ AtaTaskList'[d] = AtaTaskList[d]
      /\ Q # {} => /\ EventCount[r] = 1 /\ AtaTaskList[d] # <<>>
                   /\ Q = {Head(AtaTaskList[d])} /\ AtaTaskList'[d] = Tail(AtaTaskList[d])
  BY <1>2 DEF Shape, t
<1>6. /\ \A q \in Q : q \in Requests \ Blocking /\ Device[q] = d /\ q \notin allocated
      /\ \A s \in N : s \in Pairs /\ s[1] \in Q /\ s[2] \in 1..Parts[s[1]]
      /\ IsFiniteSet(N) /\ N \cap Under = {}
      /\ Q # {} => AtaSubTaskList[d] = {sub} /\ AtaSubTaskList'[d] = N
      /\ \A x \in Requests : Making(x) /\ Device[x] = d => Q = {} /\ N = {}
      /\ \A x \in Requests : /\ Making(x)' <=> Making(x)
                             /\ ToCome(x)' = ToCome(x)
                             /\ Making(x) => (<<x, caller.part>> \in AtaSubTaskList'[Device[x]]
                                                <=> <<x, caller.part>> \in AtaSubTaskList[Device[x]])
      /\ Outstanding(r)' = Outstanding(r) \ {sub}
      /\ \A x \in Q : Outstanding(x)' = N /\ ToCome(x) = 0
      /\ \A x \in Requests \ Q : x # r => Outstanding(x)' = Outstanding(x)
      /\ Under' = (Under \ {sub}) \cup N
  BY <1>0, <1>2, CallBackLists
<1>7. d \in Devices /\ \A x \in Requests : Device[x] \in Devices /\ Parts[x] \in Nat \ {0}
  BY <1>3, ConstantsAre
<1>8. ASSUME NEW q \in Q
      PROVE  /\ q # r /\ returned[q] = "success" /\ Token[q].signals = 0 /\ ~Making(q)
             /\ Q = {q} /\ q = Head(AtaTaskList[d]) /\ AtaTaskList[d] # <<>>
             /\ \E n \in 0..Parts[q] :
                  /\ N = Subs(q, n) /\ EventCount'[q] = n
                  /\ q \in allocated' <=> n # 0
                  /\ IsError'[q] <=> n # Parts[q]
                  /\ Token'[q].signals = IF n = Parts[q] THEN 0 ELSE 1
                  /\ n # Parts[q] => Token'[q].status = "no resources"
  <2>1. q # r /\ \E n \in 0..Parts[q] :
           /\ N = Subs(q, n) /\ EventCount'[q] = n
           /\ q \in allocated' <=> n # 0
           /\ IsError'[q] <=> n # Parts[q]
           /\ n # Parts[q] => faults' > faults
           /\ Token'[q] = IF n = Parts[q] THEN [Token[q] EXCEPT !.status = "success"]
                          ELSE [status |-> "no resources", signals |-> Token[q].signals + 1]
    BY <1>2 DEF Shape
  <2>2. q = Head(AtaTaskList[d]) /\ AtaTaskList[d] # <<>> /\ Q = {q}
    BY <1>5
  <2>3. returned[q] = "success" /\ Token[q].signals = 0 /\ q \in Requests
    BY <2>2, <1>1, <1>7, HeadIs
  <2>4. Token[q] \in [status : Statuses, signals : Nat]
    BY <2>3, <1>1 DEF TypeOK
  <2>5. /\ [Token[q] EXCEPT !.status = "success"].signals = 0
        /\ [status |-> "no resources", signals |-> Token[q].signals + 1].signals = 1
        /\ [status |-> "no resources", signals |-> Token[q].signals + 1].status = "no resources"
    BY <2>3, <2>4
  <2>6. ~Making(q)
    BY <2>3, <1>6
  <2>7. PICK n \in 0..Parts[q] :
          /\ N = Subs(q, n) /\ EventCount'[q] = n
          /\ q \in allocated' <=> n # 0
          /\ IsError'[q] <=> n # Parts[q]
          /\ Token'[q] = IF n = Parts[q] THEN [Token[q] EXCEPT !.status = "success"]
                         ELSE [status |-> "no resources", signals |-> Token[q].signals + 1]
    BY <2>1
  <2>8. /\ Token'[q].signals = IF n = Parts[q] THEN 0 ELSE 1
        /\ n # Parts[q] => Token'[q].status = "no resources"
    <3>1. CASE n = Parts[q]
      BY <3>1, <2>5, <2>7
    <3>2. CASE n # Parts[q]
      BY <3>2, <2>5, <2>7
    <3> QED
      BY <3>1, <3>2
  <2> QED
    BY <2>1, <2>2, <2>3, <2>6, <2>7, <2>8
<1>9. TypeOK'
  BY CallBackType
<1>10. SubsOK'
  <2> SUFFICES ASSUME NEW x \in Devices
               PROVE  /\ IsFiniteSet(AtaSubTaskList'[x])
                      /\ \A s, u \in AtaSubTaskList'[x] : s[1] = u[1]
                      /\ \A s \in AtaSubTaskList'[x] :
                           /\ s \in Pairs /\ s[1] \in Requests \ Blocking /\ Device[s[1]] = x
                           /\ s[2] \in 1..Parts[s[1]]
                           /\ Making(s[1])' =>
                                s[2] < caller'.part \/ (caller'.pc # "subtask" /\ s[2] = caller'.part)
    BY DEF SubsOK
  <2>1. CASE x # d \/ Q = {}
    <3>1. AtaSubTaskList'[x] \subseteq AtaSubTaskList[x]
      BY <2>1, <1>5
    <3>2. IsFiniteSet(AtaSubTaskList'[x])
      BY <3>1, <1>1, FS_Subset DEF SubsOK
    <3>3. \A s \in AtaSubTaskList'[x] : Making(s[1])' => Making(s[1])
      BY <3>1, <1>1, <1>6 DEF SubsOK
    <3> QED
      BY <3>1, <3>2, <3>3, <1>1, <1>5 DEF SubsOK
  <2>2. CASE x = d /\ Q # {}
    <3>1. AtaSubTaskList'[x] = N /\ IsFiniteSet(N)
      BY <2>2, <1>6
    <3>2. \A s \in N : s[1] \in Q /\ s[1] \in Requests \ Blocking /\ Device[s[1]] = d /\ ~Making(s[1])'
      BY <1>6, <1>8
    <3>3. \A s, u \in N : s[1] = u[1]
      BY <3>2, <1>5
    <3> QED
      BY <2>2, <3>1, <3>2, <3>3, <1>6
  <2> QED
    BY <2>1, <2>2
<1>11. CountedOut'
  <2> SUFFICES ASSUME NEW x \in Requests
               PROVE  /\ x \in allocated' <=> Outstanding(x)' # {} \/ ToCome(x)' > 0
                      /\ x \in allocated' => EventCount'[x] = Cardinality(Outstanding(x)') + ToCome(x)'
    BY DEF CountedOut
  <2>0. ToCome(x)' = ToCome(x)
    BY <1>6
  <2>1. CASE x = r
    BY <2>0, <2>1, <1>3, <1>5, <1>6
  <2>2. CASE x \in Q
    <3>1. PICK n \in 0..Parts[x] : N = Subs(x, n) /\ EventCount'[x] = n /\ (x \in allocated' <=> n # 0)
      BY <2>2, <1>8
    <3>2. n \in Nat
      BY <1>7
    <3>3. Cardinality(N) = n /\ IsFiniteSet(N)
      BY <3>1, <3>2, SubsCount
    <3>4. n = 0 <=> N = {}
      BY <3>3, FS_EmptySet
    <3>5. Outstanding(x)' = N /\ ToCome(x)' = 0
      BY <2>0, <2>2, <1>6
    <3> QED
      BY <3>1, <3>2, <3>3, <3>4, <3>5
  <2>3. CASE x \notin Q /\ x # r
    BY <2>0, <2>3, <1>1, <1>5, <1>6 DEF CountedOut
  <2> QED
    BY <2>1, <2>2, <2>3
<1>12. OneCommand'
  <2>1. /\ Entries = SubOf(NonBlockingTaskList) /\ NonBlockingTaskList \in Seq(Tasks) /\ Entries \in Seq(Pairs)
    BY <1>1, SequencesAre
  <2>2. SubOf(NonBlockingTaskList \o K) = Entries \o SubOf(K) /\ SubOf(K) \in Seq(Pairs)
    <3>1. SubOf(NonBlockingTaskList \o K) = SubOf(NonBlockingTaskList) \o SubOf(K)
      <4>1. NonBlockingTaskList \in Seq(Tasks) /\ K \in Seq(Tasks) /\ \A x \in Tasks : x.sub \in Pairs
        BY <2>1, <1>5, TaskIs
      <4> QED
        BY <4>1, SubOfConcat, Zenon
    <3>2. SubOf(K) \in Seq(Pairs)
      BY <1>5, SubOfIs, TaskIs
    <3> QED
      BY <2>1, <3>1, <3>2
  <2>3. Entries' = Entries \o SubOf(K)
    <3>1. Entries' = SubOf(NonBlockingTaskList')
      BY DEF Entries, SubOf
    <3> QED
      BY <3>1, <2>2, <1>5
  <2>4. Queued' = SubOf(Tail(signalled)) /\ SubOf(Tail(signalled)) \in Seq(Pairs)
    <3>1. Queued' = SubOf(signalled')
      BY DEF Queued, SubOf
    <3> QED
      BY <3>1, <1>3, <1>5, SubOfIs, TaskIs
  <2>5. ((Under \ Held) \ {sub}) \cap N = {}
    BY <1>6
  <2> DEFINE e == Entries
             f == SubOf(K)
             q == SubOf(Tail(signalled))
             S == (Under \ Held) \ {sub}
  <2>6. e \in Seq(Pairs) /\ f \in Seq(Pairs) /\ q \in Seq(Pairs) /\ Once(e, q, S) /\ Once(f, <<>>, N) /\ S \cap N = {}
    BY <2>1, <2>2, <2>4, <2>5, <1>3, <1>5
  <2> HIDE DEF e, f, q, S
  <2>7. Once(e \o f, q, S \cup N)
    BY <2>6, OnceConcat
  <2>8. Held' = Held
    BY <1>5 DEF Held
  <2>9. Held \cap N = {}
    <3> SUFFICES ASSUME NEW s \in N, s \in Held PROVE FALSE
      OBVIOUS
    <3>1. caller.pc \in {"transfer", "exit"} /\ s = <<caller.req, caller.part>> /\ s[1] = caller.req
      BY DEF Held
    <3>2. Making(s[1])
      BY <3>1 DEF Making, InCall, CallPcs
    <3> QED
      BY <3>2, <1>6, <1>8
  <2>10. Under' \ Held' = S \cup N
    BY <2>8, <2>9, <1>6 DEF S
  <2> QED
    BY <2>3, <2>4, <2>7, <2>10 DEF OneCommand, e, f, q
<1>13. CallerOK'
  <2> SUFFICES ASSUME NEW x \in Requests, Making(x)
               PROVE  /\ returned'[x] = "no" /\ ~IsError'[x]
                      /\ caller'.pc = "transfer" => <<x, caller'.part>> \in AtaSubTaskList'[Device[x]]
                      /\ \A s \in AtaSubTaskList'[Device[x]] : s[1] = x
    BY <1>6 DEF CallerOK
  <2>1. returned[x] = "no" /\ ~IsError[x] /\ (\A s \in AtaSubTaskList[Device[x]] : s[1] = x)
        /\ (caller.pc = "transfer" => <<x, caller.part>> \in AtaSubTaskList[Device[x]])
    BY <1>1 DEF CallerOK
  <2>2. x \notin Q
    BY <1>8
  <2>3. IsError'[x] = IsError[x]
    BY <2>2, <1>5
  <2>4. AtaSubTaskList'[Device[x]] \subseteq AtaSubTaskList[Device[x]]
    <3>1. CASE Device[x] = d
      BY <3>1, <1>5, <1>6
    <3>2. CASE Device[x] # d
      BY <3>2, <1>5, <1>7
    <3> QED
      BY <3>1, <3>2
  <2> QED
    BY <2>1, <2>3, <2>4, <1>5, <1>6
<1>14. QueueOK'
  <2> SUFFICES ASSUME NEW x \in Devices, NEW i \in 1..Len(AtaTaskList'[x])
               PROVE  LET y == AtaTaskList'[x][i]
                      IN  /\ y \in Requests \ Blocking /\ Device[y] = x /\ y \notin allocated'
                          /\ returned'[y] = "success" /\ Token'[y].signals = 0
                          /\ \A j \in 1..Len(AtaTaskList'[x]) : AtaTaskList'[x][j] = y => i = j
    BY DEF QueueOK
  <2>1. \A j \in 1..Len(AtaTaskList[x]) :
          LET y == AtaTaskList[x][j]
          IN  /\ y \in Requests \ Blocking /\ Device[y] = x /\ y \notin allocated
              /\ returned[y] = "success" /\ Token[y].signals = 0
              /\ \A k \in 1..Len(AtaTaskList[x]) : AtaTaskList[x][k] = y => j = k
    BY <1>1 DEF QueueOK
  <2>2. \A y \in Requests : y \notin allocated /\ y \notin Q => y \notin allocated' /\ Token'[y] = Token[y]
    BY <1>3, <1>5
  <2>3. CASE x # d \/ Q = {}
    <3>1. AtaTaskList'[x] = AtaTaskList[x]
      BY <2>3, <1>5
    <3>2. AtaTaskList[x][i] \notin Q
      BY <2>1, <2>3, <3>1, <1>6
    <3>3. LET y == AtaTaskList[x][i]
          IN  /\ y \in Requests \ Blocking /\ Device[y] = x /\ y \notin allocated
              /\ returned[y] = "success" /\ Token[y].signals = 0
              /\ \A k \in 1..Len(AtaTaskList[x]) : AtaTaskList[x][k] = y => i = k
      BY <2>1, <3>1
    <3>4. AtaTaskList[x][i] \notin allocated' /\ Token'[AtaTaskList[x][i]] = Token[AtaTaskList[x][i]]
      BY <2>2, <3>2, <3>3
    <3> QED
      BY <3>1, <3>3, <3>4, <1>5
  <2>4. CASE x = d /\ Q # {}
    <3>1. PICK q \in Q : TRUE
      BY <2>4
    <3>2. q = Head(AtaTaskList[d]) /\ Q = {q} /\ AtaTaskList[d] # <<>> /\ AtaTaskList'[d] = Tail(AtaTaskList[d])
      BY <2>4, <3>1, <1>5, <1>8
    <3>3. /\ Len(Tail(AtaTaskList[d])) = Len(AtaTaskList[d]) - 1
          /\ \A j \in 1..(Len(AtaTaskList[d]) - 1) :
               /\ j + 1 \in 1..Len(AtaTaskList[d])
               /\ Tail(AtaTaskList[d])[j] = AtaTaskList[d][j + 1] /\ AtaTaskList[d][j + 1] # q
      <4>1. TailOf(AtaTaskList[d], q)
        BY <3>2, <1>1, <1>7, TailIs
      <4> QED
        BY <4>1 DEF TailOf
    <3>4. \A j \in 1..Len(AtaTaskList'[d]) :
            j + 1 \in 1..Len(AtaTaskList[d]) /\ AtaTaskList'[d][j] = AtaTaskList[d][j + 1] /\ AtaTaskList'[d][j] \notin Q
      BY <3>2, <3>3
    <3>5. ASSUME NEW j \in 1..Len(AtaTaskList'[d]), AtaTaskList'[d][j] = AtaTaskList'[d][i]
          PROVE  i = j
      <4>1. i + 1 = j + 1
        BY <2>1, <2>4, <3>4, <3>5
      <4> QED
        BY <4>1, <2>4
    <3> DEFINE y == AtaTaskList'[d][i]
    <3>6. /\ y \in Requests \ Blocking /\ Device[y] = d /\ y \notin allocated
          /\ returned[y] = "success" /\ Token[y].signals = 0 /\ y \notin Q
      BY <2>1, <2>4, <3>4
    <3>7. y \notin allocated' /\ Token'[y] = Token[y]
      BY <2>2, <3>6
    <3> QED
      BY <2>4, <3>5, <3>6, <3>7, <1>5
  <2> QED
    BY <2>3, <2>4
<1>15. ASSUME NEW x \in Requests \ Q, Waits(x)
       PROVE  Waits(x)'
  <2>1. PICK i \in 1..Len(AtaTaskList[Device[x]]) : AtaTaskList[Device[x]][i] = x
    BY <1>15 DEF Waits
  <2>2. CASE Device[x] # d \/ Q = {}
    <3>1. AtaTaskList'[Device[x]] = AtaTaskList[Device[x]]
      BY <2>2, <1>5, <1>7
    <3> QED
      BY <2>1, <3>1 DEF Waits
  <2>3. CASE Device[x] = d /\ Q # {}
    <3>1. PICK q \in Q : TRUE
      BY <2>3
    <3>2. q = Head(AtaTaskList[d]) /\ Q = {q} /\ AtaTaskList[d] # <<>> /\ AtaTaskList'[d] = Tail(AtaTaskList[d])
      BY <2>3, <3>1, <1>5, <1>8
    <3>3. /\ Len(Tail(AtaTaskList[d])) = Len(AtaTaskList[d]) - 1
          /\ \A j \in 1..(Len(AtaTaskList[d]) - 1) : Tail(AtaTaskList[d])[j] = AtaTaskList[d][j + 1]
          /\ \A j \in 1..Len(AtaTaskList[d]) : AtaTaskList[d][j] # q => j - 1 \in 1..(Len(AtaTaskList[d]) - 1)
      <4>1. TailOf(AtaTaskList[d], q)
        BY <3>2, <1>1, <1>7, TailIs
      <4> QED
        BY <4>1 DEF TailOf
    <3>4. PICK j \in 1..(Len(AtaTaskList[d]) - 1) : j = i - 1
      BY <2>1, <2>3, <3>2, <3>3
    <3>5. AtaTaskList[d][j + 1] = x
      BY <2>1, <2>3, <3>4
    <3> QED
      BY <2>3, <3>2, <3>3, <3>5 DEF Waits
  <2> QED
    BY <2>2, <2>3
<1>16. TokenOK'
  <2> SUFFICES ASSUME NEW x \in Requests
               PROVE  /\ Token'[x].signals <= 1
                      /\ returned'[x] # "success" => Token'[x].signals = 0
                      /\ returned'[x] = "error" /\ x \in allocated' => IsError'[x]
                      /\ x \in allocated' /\ ~IsError'[x] => Token'[x].signals = 0
                      /\ x \in allocated' /\ returned'[x] = "no" => Making(x)'
                      /\ returned'[x] = "success" /\ x \notin Blocking =>
                           Token'[x].signals = 1 \/ (x \in allocated' /\ ~IsError'[x]) \/ Waits(x)'
    BY DEF TokenOK
  <2>1. CASE x = r
    <3>1. /\ returned[r] = "error" /\ r \in allocated => IsError[r]
          /\ r \in allocated /\ returned[r] = "no" => Making(r)
      BY <1>1, <1>3 DEF TokenOK
    <3>2. Making(r)' <=> Making(r)
      BY <1>3, <1>6
    <3> QED
      BY <2>1, <3>1, <3>2, <1>3, <1>4, <1>5
  <2>2. CASE x \in Q
    <3>1. PICK n \in 0..Parts[x] :
            /\ x \in allocated' <=> n # 0
            /\ IsError'[x] <=> n # Parts[x]
            /\ Token'[x].signals = IF n = Parts[x] THEN 0 ELSE 1
      BY <2>2, <1>8
    <3>2. returned'[x] = "success"
      BY <2>2, <1>5, <1>8
    <3> QED
      BY <3>1, <3>2, <1>7
  <2>3. CASE x \notin Q /\ x # r
    <3>1. Waits(x) => Waits(x)'
      BY <2>3, <1>15
    <3>2. Making(x)' <=> Making(x)
      BY <1>6
    <3> QED
      BY <2>3, <3>1, <3>2, <1>1, <1>5 DEF TokenOK
  <2> QED
    BY <2>1, <2>2, <2>3
<1>17. WholeOK'
  <2>1. \A i \in 1..Len(signalled') : ~signalled'[i].failed => signalled'[i].sub \in moved'
    <3>1. /\ signalled \in Seq(Marks) /\ signalled # <<>>
      BY <1>1, SequencesAre
    <3>2. \A i \in 1..Len(Tail(signalled)) : i + 1 \in 1..Len(signalled) /\ Tail(signalled)[i] = signalled[i + 1]
      BY <3>1
    <3> QED
      BY <3>2, <1>1, <1>5 DEF WholeOK
  <2>2. ASSUME NEW x \in Requests, NEW i, Part(x, i), <<x, i>> # sub \/ sub \in moved
        PROVE  Part(x, i)'
    <3>1. CASE <<x, i>> \in moved
      BY <3>1, <1>5 DEF Part
    <3>2. CASE <<x, i>> \in AtaSubTaskList[Device[x]] /\ <<x, i>> # sub
      <4>1. <<x, i>> \in AtaSubTaskList'[Device[x]]
        BY <3>2, <1>5, <1>7
      <4> QED
        BY <4>1 DEF Part
    <3>3. CASE Making(x) /\ i >= caller.part
      BY <3>3, <1>5, <1>6 DEF Part
    <3> QED
      BY <2>2, <3>1, <3>2, <3>3 DEF Part
  <2>3. ASSUME NEW x \in Requests \ Blocking, Token'[x].status = "success"
        PROVE  /\ x \in allocated' => ~IsError'[x] /\ \A i \in 1..Parts[x] : Part(x, i)'
               /\ Token'[x].signals = 1 => \A i \in 1..Parts[x] : <<x, i>> \in moved'
    <3>1. CASE x = r
      <4>1. ~IsError'[r] /\ sub \in moved /\ (\A i \in 1..Parts[r] : Part(r, i))
            /\ (t.signals = 1 => \A i \in 1..Parts[r] : <<r, i>> \in moved)
        BY <2>3, <3>1, <1>4, <1>5
      <4>2. \A i \in 1..Parts[r] : Part(r, i)'
        BY <4>1, <2>2, <1>3
      <4> QED
        BY <3>1, <4>1, <4>2, <1>5
    <3>2. CASE x \in Q
      <4>1. PICK n \in 0..Parts[x] :
              /\ N = Subs(x, n)
              /\ IsError'[x] <=> n # Parts[x]
              /\ Token'[x].signals = IF n = Parts[x] THEN 0 ELSE 1
              /\ n # Parts[x] => Token'[x].status = "no resources"
        BY <3>2, <1>8
      <4>2. n = Parts[x]
        BY <4>1, <2>3
      <4>3. \A i \in 1..Parts[x] : <<x, i>> \in N
        BY <4>1, <4>2 DEF Subs
      <4>4. AtaSubTaskList'[Device[x]] = N
        BY <3>2, <1>6
      <4>5. \A i \in 1..Parts[x] : Part(x, i)'
        BY <4>3, <4>4 DEF Part
      <4> QED
        BY <4>1, <4>2, <4>5
    <3>3. CASE x \notin Q /\ x # r
      <4>1. Token'[x] = Token[x] /\ IsError'[x] = IsError[x] /\ (x \in allocated' <=> x \in allocated)
        BY <3>3, <1>5
      <4>2. /\ x \in allocated => ~IsError[x] /\ \A i \in 1..Parts[x] : Part(x, i)
            /\ Token[x].signals = 1 => \A i \in 1..Parts[x] : <<x, i>> \in moved
        BY <2>3, <4>1, <1>1 DEF WholeOK
      <4>3. \A i : <<x, i>> # sub
        BY <3>3, <1>3
      <4> QED
        BY <4>1, <4>2, <4>3, <2>2, <1>5
    <3> QED
      BY <3>1, <3>2, <3>3
  <2> QED
    BY <2>1, <2>3, <1>1, <1>5 DEF WholeOK
<1>18. ResetOK'
  <2>1. ASSUME caller.pc \in ResetPcs
        PROVE  AtaTaskList'[caller.dev] = <<>>
    <3>1. AtaTaskList[caller.dev] = <<>> /\ caller.dev \in Devices
      BY <2>1, <1>1, CallerIs DEF ResetOK
    <3>2. AtaTaskList'[caller.dev] = AtaTaskList[caller.dev]
      BY <3>1, <1>5
    <3> QED
      BY <3>1, <3>2
  <2>2. ASSUME caller.pc = "clear"
        PROVE  AtaSubTaskList'[caller.dev] = {}
    <3>1. AtaSubTaskList[caller.dev] = {} /\ caller.dev \in Devices
      BY <2>2, <1>1, CallerIs DEF ResetOK, ResetPcs
    <3>2. caller.dev # d
      BY <3>1, <1>3
    <3> QED
      BY <3>1, <3>2, <1>5
  <2> QED
    BY <2>1, <2>2, <1>5 DEF ResetOK
<1> QED
  BY <1>9, <1>10, <1>11, <1>12, <1>13, <1>14, <1>16, <1>17, <1>18 DEF IndInv

-----------------------------------------------------------------------------
(***************************************************************************)
(* The invariant holds.                                                    *)
(***************************************************************************)
LEMMA InitInvariant ==
  ASSUME Init
  PROVE  IndInv
<1>1. /\ AtaTaskList = [d \in Devices |-> <<>>] /\ AtaSubTaskList = [d \in Devices |-> {}]
      /\ NonBlockingTaskList = <<>> /\ signalled = <<>>
      /\ EventCount = [r \in Requests |-> 0] /\ allocated = {}
      /\ Token = [r \in Requests |-> [status |-> "none", signals |-> 0]]
      /\ caller = Idle /\ returned = [r \in Requests |-> "no"]
      /\ caller.pc = "idle"
  BY DEF Init, Idle
<1>2. ~InCall /\ (\A r : ~Making(r)) /\ Held = {} /\ Under = {}
  BY <1>1 DEF InCall, Making, CallPcs, Held, Under
<1>3. TypeOK
  BY ConstantsAre DEF TypeOK, Init, Statuses
<1>4. SubsOK
  BY <1>1, FS_EmptySet DEF SubsOK
<1>5. CountedOut
  <2>1. \A r \in Requests : Outstanding(r) = {} /\ ToCome(r) = 0
    BY <1>1, ConstantsAre DEF Outstanding, ToCome
  <2> QED
    BY <2>1, <1>1 DEF CountedOut
<1>6. OneCommand
  <2>1. Entries = <<>> /\ Queued = <<>>
    BY <1>1 DEF Entries, Queued
  <2>2. \A i \in 1..Len(<<>>) : FALSE
    OBVIOUS
  <2> QED
    BY <2>1, <2>2, <1>2 DEF OneCommand, Once
<1>7. CallerOK
  BY <1>2 DEF CallerOK
<1>8. \A d \in Devices : \A i \in 1..Len(AtaTaskList[d]) : FALSE
  BY <1>1
<1>9. QueueOK
  BY <1>8 DEF QueueOK
<1>10. TokenOK
  BY <1>1 DEF TokenOK
<1>11. WholeOK
  <2>1. \A i \in 1..Len(signalled) : FALSE
    BY <1>1
  <2>2. \A r \in Requests : Token[r].status # "success" /\ returned[r] # "success"
    BY <1>1
  <2> QED
    BY <2>1, <2>2, <1>1, ConstantsAre DEF WholeOK, BlockPcs
<1>12. ResetOK
  BY <1>1 DEF ResetOK, ResetPcs
<1> QED
  BY <1>3, <1>4, <1>5, <1>6, <1>7, <1>9, <1>10, <1>11, <1>12 DEF IndInv

LEMMA StutterStep ==
  ASSUME IndInv, UNCHANGED vars
  PROVE  IndInv'
<1>1. UNCHANGED <<AtaTaskList, AtaSubTaskList, Abort, NonBlockingTaskList, signalled>>
      /\ UNCHANGED <<EventCount, IsError, allocated, Token, caller, returned, moved, errors, faults, resets>>
  BY DEF vars, lists, shared, below
<1>2. TypeOK' /\ SubsOK' /\ CallerOK' /\ QueueOK' /\ ResetOK'
  BY <1>1 DEF IndInv, TypeOK, SubsOK, CallerOK, QueueOK, ResetOK, Making, InCall
<1>3. CountedOut'
  BY <1>1 DEF IndInv, CountedOut, Outstanding, ToCome
<1>4. OneCommand'
  BY <1>1 DEF IndInv, OneCommand, Entries, Queued, Under, Held
<1>5. TokenOK'
  BY <1>1 DEF IndInv, TokenOK, Waits, Making, InCall
<1>6. WholeOK'
  BY <1>1 DEF IndInv, WholeOK, Part, Making, InCall
<1> QED
  BY <1>2, <1>3, <1>4, <1>5, <1>6 DEF IndInv

LEMMA NextStep ==
  ASSUME IndInv, [Next]_vars
  PROVE  IndInv'
<1>1. CASE Timer \/ AtaNonBlockingCallBack
  BY <1>1, TimerStep, CallBackStep
<1>2. CASE Goes
  BY <1>2, InsertSubTaskStep, TransferSubTaskStep, ExitStep, WaitStep, TimerStep, CommandStep, DrainedStep DEF Goes
<1>3. CASE \E r \in Requests : Queue(r) \/ Begin(r) \/ CallBlocking(r)
  BY <1>3, QueueStep, BeginStep, CallBlockingStep
<1>4. CASE \E d \in Devices : Terminate(d)
  BY <1>4, TerminateStep
<1>5. CASE UNCHANGED vars
  BY <1>5, StutterStep
<1> QED
  BY <1>1, <1>2, <1>3, <1>4, <1>5 DEF Next

LEMMA Invariance == Spec => []IndInv
<1>1. Init => IndInv
  BY InitInvariant
<1>2. IndInv /\ [Next]_vars => IndInv'
  BY NextStep
<1> QED
  BY <1>1, <1>2, PTL DEF Spec

-----------------------------------------------------------------------------
\* Every variable keeps its type and every bound holds, through all the steps of
\* the callers, the timer and the callbacks (AtaBus.c, AtaAtapiPassThru.c).
THEOREM TypesHold == Spec => []TypeOK
<1>1. IndInv => TypeOK
  BY DEF IndInv
<1> QED
  BY <1>1, Invariance, PTL

\* The counter of a request, its subtasks, the commands of the controller and the
\* queued callbacks agree at every moment, and a device serves one request at a
\* time: no callback frees a counter that another still counts down.
THEOREM SubtasksStayAccounted == Spec => []SubtasksAccounted
<1>1. ASSUME IndInv PROVE SubtasksAccounted
  <2>1. TypeOK /\ SubsOK /\ CountedOut /\ OneCommand
    BY <1>1 DEF IndInv
  <2>2. OneRequest
    BY <2>1 DEF SubsOK, OneRequest
  <2>3. EachHasOneCommand
    <3> DEFINE e == Entries
               q == Queued
               S == Under \ Held
    <3>1. e \in Seq(Pairs) /\ q \in Seq(Pairs) /\ Once(e, q, S)
      BY <2>1, SequencesAre DEF OneCommand
    <3> HIDE DEF e, q, S
    <3>2. LET all == e \o q
          IN  /\ \A i, j \in DOMAIN all : all[i] = all[j] => i = j
              /\ {all[i] : i \in DOMAIN all} = S
      BY <3>1, OnceIs
    <3>3. /\ \A i, j \in DOMAIN (Entries \o Queued) : (Entries \o Queued)[i] = (Entries \o Queued)[j] => i = j
          /\ {(Entries \o Queued)[i] : i \in DOMAIN (Entries \o Queued)} = Under \ Held
      BY <3>2 DEF e, q, S
    <3> QED
      BY <3>3, Zenon DEF EachHasOneCommand, Under, Held
  <2> QED
    BY <2>1, <2>2, <2>3 DEF SubtasksAccounted
<1> QED
  BY <1>1, Invariance, PTL

\* A token is signalled at most once, never for a call that returned an error, and
\* only after all of the request's commands were done when it says success.
THEOREM TokensStayTrue == Spec => []TokensTrue
<1>1. ASSUME IndInv PROVE TokensTrue
  <2> SUFFICES ASSUME NEW r \in Requests
               PROVE  /\ Token[r].signals <= 1
                      /\ returned[r] = "error" => Token[r].signals = 0
                      /\ \/ Token[r].signals = 1 /\ Token[r].status = "success"
                         \/ r \in Blocking /\ returned[r] = "success"
                         => Subs(r, Parts[r]) \subseteq moved
    BY DEF TokensTrue
  <2>1. TokenOK /\ WholeOK /\ TypeOK
    BY <1>1 DEF IndInv
  <2>2. Token[r].signals <= 1 /\ (returned[r] # "success" => Token[r].signals = 0)
    BY <2>1 DEF TokenOK
  <2>3. ASSUME \/ Token[r].signals = 1 /\ Token[r].status = "success"
               \/ r \in Blocking /\ returned[r] = "success"
        PROVE  Subs(r, Parts[r]) \subseteq moved
    <3>1. \A i \in 1..Parts[r] : <<r, i>> \in moved
      <4>1. CASE r \in Blocking
        <5>1. returned[r] = "success"
          BY <2>2, <2>3
        <5> QED
          BY <4>1, <5>1, <2>1 DEF WholeOK
      <4>2. CASE r \notin Blocking
        BY <4>2, <2>1, <2>3 DEF WholeOK
      <4> QED
        BY <4>1, <4>2, <2>3
    <3> QED
      BY <3>1 DEF Subs
  <2> QED
    BY <2>2, <2>3
<1> QED
  BY <1>1, Invariance, PTL

\* When a reset goes on to reset the device, no list holds anything of it and
\* every request it accepted has been answered (AtaAtapiPassThru.c, AtaBus.c).
THEOREM ResetsFindNothing == Spec => []ResetFindsNothing
<1>1. ASSUME IndInv PROVE ResetFindsNothing
  <2>1. TypeOK /\ SubsOK /\ CountedOut /\ OneCommand /\ TokenOK /\ ResetOK /\ CallerType
    BY <1>1, SequencesAre DEF IndInv
  <2> SUFFICES ASSUME caller.pc = "clear"
               PROVE  LET d == caller.dev
                      IN  /\ AtaTaskList[d] = <<>> /\ AtaSubTaskList[d] = {}
                          /\ \A i \in DOMAIN NonBlockingTaskList :
                               Device[NonBlockingTaskList[i].sub[1]] # d
                          /\ \A r \in Requests \ Blocking :
                               Device[r] = d /\ returned[r] = "success" => Token[r].signals = 1
    BY DEF ResetFindsNothing
  <2> DEFINE d == caller.dev
  <2>2. AtaTaskList[d] = <<>> /\ AtaSubTaskList[d] = {} /\ ~InCall
    BY <2>1 DEF ResetOK, ResetPcs, InCall, CallPcs
  <2>3. ASSUME NEW i \in DOMAIN NonBlockingTaskList
        PROVE  Device[NonBlockingTaskList[i].sub[1]] # d
    <3>1. i \in 1..Len(Entries) /\ Entries[i] = NonBlockingTaskList[i].sub
      BY <2>1, SequencesAre DEF Entries
    <3>2. Entries[i] \in Under
      BY <2>1, <3>1 DEF OneCommand, Once
    <3> QED
      BY <2>1, <2>2, <3>1, <3>2, UnderIs
  <2>4. ASSUME NEW r \in Requests \ Blocking, Device[r] = d, returned[r] = "success"
        PROVE  Token[r].signals = 1
    <3>1. r \notin allocated
      <4>1. Outstanding(r) = {}
        BY <2>2, <2>4 DEF Outstanding
      <4>2. ToCome(r) = 0
        BY <2>1, <2>2, ToComeIs DEF Making
      <4> QED
        BY <2>1, <4>1, <4>2 DEF CountedOut
    <3>2. ~Waits(r)
      BY <2>2, <2>4 DEF Waits
    <3> QED
      BY <2>1, <2>4, <3>1, <3>2 DEF TokenOK
  <2> QED
    BY <2>2, <2>3, <2>4
<1> QED
  BY <1>1, Invariance, PTL

-----------------------------------------------------------------------------
(***************************************************************************)
(* What no step does.                                                      *)
(***************************************************************************)
\* A token that was given back is not written by any step.
LeavesTokens == \A r \in Requests : GivenBack(r) /\ ~Abort[Device[r]] => Token'[r] = Token[r]

\* No step loses a callback, and none begins a request out of turn.
ServesQueue ==
  /\ \A r \in Requests : r \notin allocated /\ r \in allocated' =>
       LET d == Device[r]
       IN  AtaTaskList[d] = <<>> \/ Head(AtaTaskList[d]) = r \/ Stalled(d)
  /\ \A d \in Devices : ~Stalled(d) /\ Stalled(d)' =>
       faults' > faults \/ caller.pc = "exit"

\* The steps that touch neither the tokens, nor the queues, nor what is allocated.
LEMMA SameStep ==
  ASSUME UNCHANGED <<AtaTaskList, allocated, Token>>
  PROVE  LeavesTokens /\ ServesQueue
BY DEF LeavesTokens, ServesQueue, Stalled

LEMMA QueueServes ==
  ASSUME IndInv, NEW r \in Requests, Queue(r)
  PROVE  LeavesTokens /\ ServesQueue
<1>1. TypeOK /\ SubsOK /\ CountedOut
  BY DEF IndInv
<1>2. /\ UNCHANGED <<allocated, Token>> /\ Device[r] \in Devices /\ AtaSubTaskList[Device[r]] # {}
      /\ \A d \in Devices : d # Device[r] => AtaTaskList'[d] = AtaTaskList[d]
  BY <1>1, ConstantsAre DEF Queue, Busy, shared, TypeOK
<1>3. ~Stalled(Device[r])'
  <2>1. PICK s \in AtaSubTaskList[Device[r]] : TRUE
    BY <1>2
  <2>2. s[1] \in Requests /\ Device[s[1]] = Device[r] /\ s \in Outstanding(s[1])
    BY <1>1, <1>2 DEF SubsOK, Outstanding
  <2>3. s[1] \in allocated
    BY <1>1, <2>2 DEF CountedOut
  <2> QED
    BY <1>2, <2>2, <2>3 DEF Stalled
<1>4. LeavesTokens
  BY <1>2 DEF LeavesTokens
<1>5. ASSUME NEW d \in Devices, Stalled(d)'
      PROVE  Stalled(d)
  BY <1>2, <1>3, <1>5 DEF Stalled
<1> QED
  BY <1>2, <1>4, <1>5 DEF ServesQueue

LEMMA BeginServes ==
  ASSUME IndInv, NEW r \in Requests, Begin(r)
  PROVE  LeavesTokens /\ ServesQueue
<1>1. TypeOK /\ SubsOK /\ CountedOut /\ TokenOK /\ CallerType
  BY SequencesAre DEF IndInv
<1>2. /\ UNCHANGED AtaTaskList /\ AtaSubTaskList[Device[r]] = {} /\ returned[r] = "no"
      /\ allocated' \in {allocated, allocated \cup {r}}
      /\ \A x \in Requests : x # r => Token'[x] = Token[x]
  BY <1>1 DEF Begin, Calls, Busy, lists, shared, TypeOK
<1>3. LeavesTokens
  BY <1>1, <1>2 DEF LeavesTokens, GivenBack, TokenOK
<1>4. ~InCall
  BY DEF Begin, Calls, Idle, InCall, CallPcs
<1>5. ASSUME NEW x \in allocated, Device[x] = Device[r]
      PROVE  FALSE
  <2>1. x \in Requests
    BY <1>1, <1>5 DEF TypeOK
  <2>2. Outstanding(x) = {} /\ ToCome(x) = 0
    BY <1>1, <1>2, <1>4, <1>5, <2>1, ToComeIs DEF Outstanding, Making
  <2> QED
    BY <1>1, <1>5, <2>1, <2>2 DEF CountedOut
<1>6. AtaTaskList[Device[r]] = <<>> \/ Stalled(Device[r])
  BY <1>5 DEF Stalled
<1>7. ASSUME NEW d \in Devices, Stalled(d)'
      PROVE  Stalled(d)
  BY <1>2, <1>7 DEF Stalled
<1> QED
  BY <1>2, <1>3, <1>6, <1>7 DEF ServesQueue

LEMMA ExitServes ==
  ASSUME IndInv, Exit
  PROVE  LeavesTokens /\ ServesQueue
<1>1. TypeOK /\ CallerOK /\ TokenOK /\ CallerType
  BY SequencesAre DEF IndInv
<1>2. /\ caller.pc = "exit" /\ Making(caller.req) /\ caller.req \in Requests
      /\ allocated' \subseteq allocated
      /\ \A x \in Requests : x # caller.req => Token'[x] = Token[x]
  <2>1. caller.pc = "exit"
    BY DEF Exit, Step
  <2>2. Making(caller.req) /\ caller.req \in Requests
    BY <1>1, <2>1, CallerIs DEF Making, InCall, CallPcs
  <2>3. allocated' \subseteq allocated
    BY DEF Exit
  <2>4. Token' = [Token EXCEPT ![caller.req].status = "no resources"]
    BY DEF Exit
  <2> QED
    BY <1>1, <2>1, <2>2, <2>3, <2>4 DEF TypeOK
<1>3. returned[caller.req] = "no" /\ Token[caller.req].signals = 0
  BY <1>1, <1>2 DEF CallerOK, TokenOK
<1> QED
  BY <1>2, <1>3 DEF LeavesTokens, ServesQueue, GivenBack

LEMMA TerminateServes ==
  ASSUME IndInv, NEW d \in Devices, Terminate(d)
  PROVE  LeavesTokens /\ ServesQueue
<1>1. TypeOK /\ QueueOK
  BY DEF IndInv
<1>2. /\ UNCHANGED allocated /\ AtaTaskList' = [AtaTaskList EXCEPT ![d] = <<>>]
      /\ Token' = [r \in Requests |->
                     IF \E i \in DOMAIN AtaTaskList[d] : AtaTaskList[d][i] = r
                     THEN Aborted(Token[r]) ELSE Token[r]]
      /\ DOMAIN AtaTaskList[d] = 1..Len(AtaTaskList[d])
  BY <1>1 DEF Terminate, shared, TypeOK
<1>3. LeavesTokens
  <2> SUFFICES ASSUME NEW r \in Requests, GivenBack(r)
               PROVE  Token'[r] = Token[r]
    BY DEF LeavesTokens
  <2>1. ~\E i \in DOMAIN AtaTaskList[d] : AtaTaskList[d][i] = r
    BY <1>1, <1>2 DEF QueueOK, GivenBack
  <2> QED
    BY <1>2, <2>1
<1>4. AtaTaskList'[d] = <<>> /\ \A x \in Devices : x # d => AtaTaskList'[x] = AtaTaskList[x]
  BY <1>1, <1>2 DEF TypeOK
<1> QED
  BY <1>2, <1>3, <1>4 DEF ServesQueue, Stalled

LEMMA CallBackServes ==
  ASSUME IndInv, AtaNonBlockingCallBack
  PROVE  LeavesTokens /\ ServesQueue
<1>0. PICK sub, r : sub = Head(signalled).sub /\ r = sub[1]
  OBVIOUS
<1>1. TypeOK /\ QueueOK /\ TokenOK /\ signalled # <<>>
  BY DEF IndInv, AtaNonBlockingCallBack
<1>2. PICK Q, N, K : Shape(sub, r, Q, N, K)
  BY <1>0, CallBackShape
<1> DEFINE d == Device[r]
<1>3. r \in Requests \ Blocking /\ r \in allocated /\ d \in Devices
  BY <1>0, <1>1, CallBackIs, ConstantsAre
<1>4. /\ UNCHANGED returned
      /\ \A x \in Devices : x # d => AtaTaskList'[x] = AtaTaskList[x]
      /\ \A x \in Requests \ Q : x # r => Token'[x] = Token[x] /\ (x \in allocated' <=> x \in allocated)
      /\ Token'[r] = After(r, Head(signalled).failed)
      /\ r \in allocated' <=> EventCount[r] # 1
      /\ Q = {} => AtaTaskList'[d] = AtaTaskList[d] /\ (EventCount[r] = 1 => AtaTaskList[d] = <<>>)
  BY <1>2 DEF Shape
<1>5. \A q \in Q : /\ q # r /\ Q = {q} /\ AtaTaskList[d] # <<>> /\ q = Head(AtaTaskList[d])
                   /\ q \in Requests \ Blocking /\ Device[q] = d /\ q \notin allocated
                   /\ returned[q] = "success" /\ Token[q].signals = 0
                   /\ q \in allocated' \/ faults' > faults
  <2> SUFFICES ASSUME NEW q \in Q
               PROVE  /\ q # r /\ Q = {q} /\ AtaTaskList[d] # <<>> /\ q = Head(AtaTaskList[d])
                      /\ q \in Requests \ Blocking /\ Device[q] = d /\ q \notin allocated
                      /\ returned[q] = "success" /\ Token[q].signals = 0
                      /\ q \in allocated' \/ faults' > faults
    OBVIOUS
  <2>1. AtaTaskList[d] # <<>> /\ Q = {Head(AtaTaskList[d])} /\ q # r
    BY <1>2 DEF Shape
  <2>2. q = Head(AtaTaskList[d])
    BY <2>1
  <2>3. /\ q \in Requests \ Blocking /\ Device[q] = d /\ q \notin allocated
        /\ returned[q] = "success" /\ Token[q].signals = 0 /\ Parts[q] \in Nat \ {0}
    BY <1>1, <1>3, <2>1, <2>2, HeadIs
  <2>4. PICK n \in 0..Parts[q] : (q \in allocated' <=> n # 0) /\ (n # Parts[q] => faults' > faults)
    BY <1>2 DEF Shape
  <2>5. q \in allocated' \/ faults' > faults
    BY <2>3, <2>4
  <2> QED
    BY <2>1, <2>2, <2>3, <2>5
<1>6. LeavesTokens
  <2> SUFFICES ASSUME NEW x \in Requests, GivenBack(x), ~Abort[Device[x]]
               PROVE  Token'[x] = Token[x]
    BY DEF LeavesTokens
  <2>1. CASE x = r
    <3>1. IsError[r] /\ ~Abort[d]
      BY <1>1, <1>3, <2>1 DEF GivenBack, TokenOK
    <3>2. ~Signals(r) /\ Status(r, Head(signalled).failed) = Token[r].status
      BY <3>1 DEF Signals, Status
    <3>3. Token[r] \in [status : Statuses, signals : Nat]
      BY <1>1, <1>3 DEF TypeOK
    <3> QED
      BY <1>4, <2>1, <3>2, <3>3 DEF After
  <2>2. CASE x # r
    <3>1. x \notin Q
      BY <1>5 DEF GivenBack
    <3> QED
      BY <1>4, <2>2, <3>1
  <2> QED
    BY <2>1, <2>2
<1>7. ASSUME NEW x \in Requests, x \notin allocated, x \in allocated'
      PROVE  x = Head(AtaTaskList[Device[x]])
  <2>1. x \in Q
    BY <1>3, <1>4, <1>7
  <2> QED
    BY <1>5, <2>1
<1>8. ASSUME NEW x \in Devices, ~Stalled(x), Stalled(x)'
      PROVE  faults' > faults
  <2>1. CASE x # d
    <3>1. \A y \in allocated : Device[y] = x => y \in allocated'
      BY <1>1, <1>3, <1>4, <1>5, <2>1 DEF TypeOK
    <3> QED
      BY <1>4, <1>8, <2>1, <3>1 DEF Stalled
  <2>2. CASE x = d
    <3>1. r \notin allocated' /\ AtaTaskList'[d] # <<>>
      BY <1>8, <2>2 DEF Stalled
    <3>2. Q # {}
      BY <1>4, <3>1
    <3> QED
      BY <1>5, <1>8, <2>2, <3>2 DEF Stalled
  <2> QED
    BY <2>1, <2>2
<1> QED
  BY <1>6, <1>7, <1>8 DEF ServesQueue

LEMMA Serves ==
  ASSUME IndInv, [Next]_vars
  PROVE  LeavesTokens /\ ServesQueue
<1>1. CASE AtaNonBlockingCallBack
  BY <1>1, CallBackServes
<1>2. CASE Exit
  BY <1>2, ExitServes
<1>3. CASE \E r \in Requests : Queue(r) \/ Begin(r)
  BY <1>3, QueueServes, BeginServes
<1>4. CASE \E d \in Devices : Terminate(d)
  BY <1>4, TerminateServes
<1>5. CASE Timer \/ InsertSubTask \/ TransferSubTask
  BY <1>5, SameStep DEF Timer, InsertSubTask, TransferSubTask, lists, shared
<1>6. CASE Wait \/ Push \/ Pushed \/ Command \/ Drained \/ Clear
  BY <1>6, SameStep DEF Wait, Push, Pushed, Command, Drained, Clear, lists, shared
<1>7. CASE (\E r \in Requests : CallBlocking(r)) \/ UNCHANGED vars
  BY <1>7, SameStep DEF CallBlocking, lists, shared, vars
<1> QED
  BY <1>1, <1>2, <1>3, <1>4, <1>5, <1>6, <1>7 DEF Next, Goes

\* A token that was signalled, or whose call returned an error, stays as it is:
\* only the callbacks that a reset waits for may write it (AtaBus.c).
THEOREM GivenBackStays == Spec => GivenBackIsLeft
<1>1. IndInv /\ [Next]_vars =>
        [\A r \in Requests : GivenBack(r) /\ ~Abort[Device[r]] => Token'[r] = Token[r]]_vars
  BY Serves DEF LeavesTokens
<1> QED
  BY <1>1, Invariance, PTL DEF Spec, GivenBackIsLeft

\* Requests begin in the order they were accepted, and only an allocation that
\* fails leaves a device's queue without the callback that serves it (AtaBus.c).
THEOREM QueuesServed == Spec => QueueServedInOrder
<1>1. IndInv /\ [Next]_vars =>
        [/\ \A r \in Requests : r \notin allocated /\ r \in allocated' =>
              LET d == Device[r]
              IN  AtaTaskList[d] = <<>> \/ Head(AtaTaskList[d]) = r \/ Stalled(d)
         /\ \A d \in Devices : ~Stalled(d) /\ Stalled(d)' =>
              faults' > faults \/ caller.pc = "exit"]_vars
  BY Serves DEF ServesQueue
<1> QED
  BY <1>1, Invariance, PTL DEF Spec, QueueServedInOrder
=============================================================================
