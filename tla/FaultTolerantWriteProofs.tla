---------------------- MODULE FaultTolerantWriteProofs ----------------------
(***************************************************************************)
(* Proofs about FaultTolerantWrite, for every value of its constants: any  *)
(* platforms, sizes of the work space and of the writes, and numbers of    *)
(* calls, crashes and failing flash accesses.                              *)
(***************************************************************************)
EXTENDS FaultTolerantWrite, FiniteSetTheorems, SequenceTheorems, TLAPS

-----------------------------------------------------------------------------
(***************************************************************************)
(* Numbers and sequences.                                                  *)
(***************************************************************************)
LEMMA SmallestNat ==
  ASSUME NEW T \in SUBSET Nat, T # {}
  PROVE  \E x \in T : \A y \in T : x <= y
<1> DEFINE U == {1..n : n \in T}
<1>1. \A n \in Nat : 1..n \in SUBSET Nat /\ IsFiniteSet(1..n)
  BY FS_Interval
<1>2. U \subseteq {S \in SUBSET Nat : IsFiniteSet(S)} /\ U # {}
  BY <1>1
<1>3. \E x \in U : \A y \in U : ~(<<y, x>> \in StrictSubsetOrdering(Nat))
  BY <1>2, FS_StrictSubsetOrderingWellFounded, WFMin DEF FiniteSubsetsOf
<1>4. PICK x \in T : \A y \in T : ~(<<1..y, 1..x>> \in StrictSubsetOrdering(Nat))
  BY <1>3
<1>5. ASSUME NEW y \in T, y < x
      PROVE  FALSE
  <2>1. /\ 1..y \in SUBSET Nat /\ 1..x \in SUBSET Nat /\ 1..y \subseteq 1..x
        /\ x \in 1..x /\ x \notin 1..y
    BY <1>5
  <2> QED
    BY <2>1, <1>4 DEF StrictSubsetOrdering
<1> QED
  BY <1>5

\* What holds of a number when it holds of all greater ones holds of all up to n.
LEMMA DownwardInduction ==
  ASSUME NEW n \in Nat, NEW T,
         \A h \in 1..n : (\A k \in 1..n : k > h => k \in T) => h \in T
  PROVE  \A h \in 1..n : h \in T
<1> SUFFICES ASSUME NEW m \in 1..n, m \notin T PROVE FALSE
  OBVIOUS
<1> DEFINE B == {k \in 1..n : k \notin T}
           R == {n - h : h \in B}
<1>1. R \in SUBSET Nat /\ R # {}
  OBVIOUS
<1>2. PICK x \in R : \A y \in R : x <= y
  BY <1>1, SmallestNat
<1>3. PICK h \in B : x = n - h
  BY <1>2
<1>4. ASSUME NEW k \in 1..n, k > h PROVE k \in T
  <2>1. k \notin T => n - k \in R
    OBVIOUS
  <2>2. ~(x <= n - k)
    BY <1>3, <1>4
  <2> QED
    BY <1>2, <2>1, <2>2
<1> QED
  BY <1>3, <1>4

LEMMA LeastIs ==
  ASSUME NEW T \in SUBSET Nat, T # {}
  PROVE  LET least == CHOOSE x \in T : \A y \in T : x <= y
         IN  least \in T /\ \A y \in T : least <= y
BY SmallestNat

-----------------------------------------------------------------------------
(***************************************************************************)
(* The cells of a queue, and the last header.  The operators of the        *)
(* driver look at its work space; here the length of the queue is a        *)
(* parameter.  That the recursive function which finds the last header     *)
(* exists, and what it returns, follows by DownwardInduction.              *)
(***************************************************************************)
CellSet(W, T) ==
  [kind : {"erased"}]
    \cup [kind : {"header"}, writes : W, writesAllocated : BOOLEAN, complete : BOOLEAN]
    \cup [kind : {"record"}, target : T, spareComplete : BOOLEAN, destComplete : BOOLEAN]

Counts == Nat \ {0}

NextHeader(f, q, n, h) ==
  IF h \in 1..n /\ Complete(q, h)
  THEN IF h + TotalSize(q[h].writes) <= n THEN f[h + TotalSize(q[h].writes)] ELSE n + 1
  ELSE h

FindsHeaders(f, q, n) == f = [h \in 1..(n + 1) |-> NextHeader(f, q, n, h)]

LastHeader(q, n) == (CHOOSE f : FindsHeaders(f, q, n))[1]

LEMMA HeaderFound == \A q : FtwGetLastWriteHeader(q) = LastHeader(q, QueueSize)
BY DEF FtwGetLastWriteHeader, LastHeader, FindsHeaders, NextHeader, Cells

LEMMA CellIs ==
  ASSUME NEW W \in SUBSET Counts, NEW T, NEW c \in CellSet(W, T)
  PROVE  /\ c.kind \in {"erased", "header", "record"}
         /\ c.kind = "erased" => c = EmptyCell
         /\ c.kind = "header" =>
              c.writes \in W /\ c.writes \in Nat /\ c.writes # 0
              /\ c.writesAllocated \in BOOLEAN /\ c.complete \in BOOLEAN
         /\ c.kind = "record" =>
              c.target \in T /\ c.spareComplete \in BOOLEAN /\ c.destComplete \in BOOLEAN
         /\ EmptyCell.kind = "erased" /\ EmptyCell \in CellSet(W, T)
BY DEF CellSet, EmptyCell, Counts

Sized(q, n) == \A h \in 1..n : q[h].kind = "header" => q[h].writes \in Counts

LEMMA HeadersExist ==
  ASSUME NEW n \in Nat, NEW q, Sized(q, n)
  PROVE  \E f : FindsHeaders(f, q, n)
<1> DEFINE U(m) == m..(n + 1)
           G(g, m) == g = [h \in U(m) |-> NextHeader(g, q, n, h)]
           T == {m \in 1..(n + 1) : \E g : G(g, m)}
<1>1. \A h \in 1..n : Complete(q, h) => h + TotalSize(q[h].writes) \in Nat
                                        /\ h + TotalSize(q[h].writes) > h
  BY DEF Sized, Counts, Complete, Allocated, TotalSize
<1>2. ASSUME NEW m \in 1..(n + 1), \A k \in 1..(n + 1) : k > m => k \in T
      PROVE  m \in T
  <2>1. CASE m = n + 1
    <3> DEFINE g == [h \in U(m) |-> n + 1]
    <3>1. U(m) = {n + 1}
      BY <2>1
    <3>2. \A h \in U(m) : g[h] = NextHeader(g, q, n, h)
      BY <2>1, <3>1 DEF NextHeader
    <3>3. G(g, m)
      BY <3>2
    <3> QED
      BY <3>3
  <2>2. CASE m # n + 1
    <3>1. m + 1 \in T
      BY <1>2, <2>2
    <3>2. PICK old : G(old, m + 1)
      BY <3>1
    <3> DEFINE g == [h \in U(m) |-> IF h = m THEN NextHeader(old, q, n, m) ELSE old[h]]
    <3>3. ASSUME NEW h \in U(m) PROVE g[h] = NextHeader(g, q, n, h)
      <4>1. \A k \in U(m) : k # m => k \in U(m + 1)
        OBVIOUS
      <4>2. h \in 1..n /\ Complete(q, h) /\ h + TotalSize(q[h].writes) <= n =>
              /\ h + TotalSize(q[h].writes) \in U(m + 1)
              /\ g[h + TotalSize(q[h].writes)] = old[h + TotalSize(q[h].writes)]
        BY <1>1
      <4>3. NextHeader(g, q, n, h) = NextHeader(old, q, n, h)
        BY <4>2 DEF NextHeader
      <4>4. h # m => old[h] = NextHeader(old, q, n, h)
        BY <3>2, <4>1
      <4> QED
        BY <4>3, <4>4
    <3>4. G(g, m)
      BY <3>3
    <3> QED
      BY <3>4
  <2> QED
    BY <2>1, <2>2
<1> HIDE DEF T
<1>3. n + 1 \in Nat /\ 1 \in 1..(n + 1)
  OBVIOUS
<1>4. 1 \in T
  BY <1>2, <1>3, DownwardInduction
<1> QED
  BY <1>4 DEF T, FindsHeaders

Headers(q, n) == CHOOSE f : FindsHeaders(f, q, n)

LEMMA HeadersAre ==
  ASSUME NEW n \in Nat, NEW q, Sized(q, n)
  PROVE  /\ \A h \in 1..(n + 1) : Headers(q, n)[h] = NextHeader(Headers(q, n), q, n, h)
         /\ LastHeader(q, n) = Headers(q, n)[1]
<1>1. FindsHeaders(Headers(q, n), q, n)
  BY HeadersExist DEF Headers
<1>2. \A h \in 1..(n + 1) : Headers(q, n)[h] = NextHeader(Headers(q, n), q, n, h)
  BY <1>1 DEF FindsHeaders
<1> QED
  BY <1>2 DEF LastHeader, Headers

\* The cell behind the records of header h.
Behind(q, h) == h + TotalSize(q[h].writes)

LEMMA BehindIs ==
  ASSUME NEW n \in Nat, NEW q, Sized(q, n), NEW h \in 1..n, Complete(q, h)
  PROVE  Behind(q, h) \in Nat /\ Behind(q, h) > h + 1
BY DEF Behind, Sized, Counts, Complete, Allocated, TotalSize

LEMMA HeaderStep ==
  ASSUME NEW n \in Nat, NEW q, Sized(q, n)
  PROVE  /\ \A h \in 1..(n + 1) :
              Headers(q, n)[h] =
                IF h \in 1..n /\ Complete(q, h)
                THEN IF Behind(q, h) <= n THEN Headers(q, n)[Behind(q, h)] ELSE n + 1
                ELSE h
         /\ LastHeader(q, n) = Headers(q, n)[1]
BY HeadersAre DEF NextHeader, Behind

LEMMA HeaderBounds ==
  ASSUME NEW n \in Nat, NEW q, Sized(q, n)
  PROVE  /\ \A h \in 1..(n + 1) : Headers(q, n)[h] \in h..(n + 1)
         /\ LastHeader(q, n) \in 1..(n + 1)
         /\ LastHeader(q, n) \in 1..n => ~Complete(q, LastHeader(q, n))
<1> DEFINE f == Headers(q, n)
           T == {h \in 1..(n + 1) : f[h] \in h..(n + 1) /\ (f[h] \in 1..n => ~Complete(q, f[h]))}
<1>1. \A h \in 1..(n + 1) :
        f[h] = IF h \in 1..n /\ Complete(q, h)
               THEN IF Behind(q, h) <= n THEN f[Behind(q, h)] ELSE n + 1
               ELSE h
  BY HeaderStep
<1> HIDE DEF f
<1>2. ASSUME NEW h \in 1..(n + 1), \A k \in 1..(n + 1) : k > h => k \in T
      PROVE  h \in T
  <2>1. CASE h \in 1..n /\ Complete(q, h)
    <3>1. Behind(q, h) \in Nat /\ Behind(q, h) > h
      BY <2>1, BehindIs
    <3>2. CASE Behind(q, h) <= n
      <4>1. Behind(q, h) \in 1..(n + 1) /\ f[h] = f[Behind(q, h)]
        BY <1>1, <2>1, <3>1, <3>2
      <4>2. Behind(q, h) \in T
        BY <1>2, <3>1, <4>1
      <4> QED
        BY <3>1, <4>1, <4>2
    <3>3. CASE ~(Behind(q, h) <= n)
      <4>1. f[h] = n + 1
        BY <1>1, <2>1, <3>1, <3>3
      <4> QED
        BY <4>1
    <3> QED
      BY <3>2, <3>3
  <2>2. CASE ~(h \in 1..n /\ Complete(q, h))
    <3>1. f[h] = h
      BY <1>1, <2>2
    <3> QED
      BY <2>2, <3>1
  <2> QED
    BY <2>1, <2>2
<1> HIDE DEF T
<1>3. n + 1 \in Nat /\ 1 \in 1..(n + 1)
  OBVIOUS
<1>4. \A h \in 1..(n + 1) : h \in T
  BY <1>2, <1>3, DownwardInduction
<1>5. \A h \in 1..(n + 1) : f[h] \in h..(n + 1) /\ (f[h] \in 1..n => ~Complete(q, f[h]))
  BY <1>4 DEF T
<1>6. LastHeader(q, n) = f[1]
  BY HeaderStep DEF f
<1> QED
  BY <1>3, <1>5, <1>6 DEF f

\* The last header depends on the complete headers only.
LEMMA HeadersSame ==
  ASSUME NEW n \in Nat, NEW q, Sized(q, n), NEW r, Sized(r, n),
         \A h \in 1..n : /\ Complete(q, h) <=> Complete(r, h)
                         /\ Complete(q, h) => q[h].writes = r[h].writes
  PROVE  LastHeader(r, n) = LastHeader(q, n)
<1> DEFINE f == Headers(q, n)
           g == Headers(r, n)
           T == {h \in 1..(n + 1) : g[h] = f[h]}
<1>1. \A h \in 1..(n + 1) :
        /\ f[h] = IF h \in 1..n /\ Complete(q, h)
                  THEN IF Behind(q, h) <= n THEN f[Behind(q, h)] ELSE n + 1
                  ELSE h
        /\ g[h] = IF h \in 1..n /\ Complete(r, h)
                  THEN IF Behind(r, h) <= n THEN g[Behind(r, h)] ELSE n + 1
                  ELSE h
  BY HeaderStep
<1>2. \A h \in 1..n : Complete(q, h) =>
        Behind(q, h) = Behind(r, h) /\ Behind(q, h) \in Nat /\ Behind(q, h) > h
  <2>1. \A h \in 1..n : Complete(q, h) => Behind(q, h) = Behind(r, h)
    BY DEF Behind
  <2>2. \A h \in 1..n : Complete(q, h) => Behind(q, h) \in Nat /\ Behind(q, h) > h
    BY BehindIs
  <2> QED
    BY <2>1, <2>2
<1> HIDE DEF f, g
<1>3. ASSUME NEW h \in 1..(n + 1), \A k \in 1..(n + 1) : k > h => k \in T
      PROVE  h \in T
  <2>1. CASE h \in 1..n /\ Complete(q, h) /\ Behind(q, h) <= n
    <3>1. Behind(q, h) \in 1..(n + 1) /\ Behind(q, h) > h
      BY <1>2, <2>1
    <3>2. f[h] = f[Behind(q, h)] /\ g[h] = g[Behind(q, h)]
      BY <1>1, <1>2, <2>1
    <3> QED
      BY <1>3, <3>1, <3>2
  <2>2. CASE ~(h \in 1..n /\ Complete(q, h) /\ Behind(q, h) <= n)
    <3>1. g[h] = f[h]
      BY <1>1, <1>2, <2>2
    <3> QED
      BY <3>1
  <2> QED
    BY <2>1, <2>2
<1> HIDE DEF T
<1>4. n + 1 \in Nat /\ 1 \in 1..(n + 1)
  OBVIOUS
<1>5. 1 \in T
  BY <1>3, <1>4, DownwardInduction
<1>6. LastHeader(q, n) = f[1] /\ LastHeader(r, n) = g[1]
  BY HeaderStep DEF f, g
<1> QED
  BY <1>5, <1>6 DEF T

\* When the last header is completed, the next one is behind its records.
LEMMA HeaderCompleted ==
  ASSUME NEW n \in Nat, NEW q, Sized(q, n), NEW r, Sized(r, n),
         NEW l \in 1..n, l = LastHeader(q, n), Complete(r, l), Behind(r, l) <= n + 1,
         \A h \in 1..n : h # l => /\ Complete(q, h) <=> Complete(r, h)
                                  /\ Complete(q, h) => q[h].writes = r[h].writes,
         \A h \in (l + 1)..n : h >= Behind(r, l) => ~Complete(r, h)
  PROVE  LastHeader(r, n) = Behind(r, l)
<1> DEFINE f == Headers(q, n)
           g == Headers(r, n)
           T == {h \in 1..(n + 1) : f[h] = l => g[h] = Behind(r, l)}
<1>1. \A h \in 1..(n + 1) :
        /\ f[h] = IF h \in 1..n /\ Complete(q, h)
                  THEN IF Behind(q, h) <= n THEN f[Behind(q, h)] ELSE n + 1
                  ELSE h
        /\ g[h] = IF h \in 1..n /\ Complete(r, h)
                  THEN IF Behind(r, h) <= n THEN g[Behind(r, h)] ELSE n + 1
                  ELSE h
  BY HeaderStep
<1>2. \A h \in 1..n : h # l /\ Complete(q, h) =>
        Behind(q, h) = Behind(r, h) /\ Behind(q, h) \in Nat /\ Behind(q, h) > h
  <2>1. \A h \in 1..n : h # l /\ Complete(q, h) => Behind(q, h) = Behind(r, h)
    BY DEF Behind
  <2>2. \A h \in 1..n : Complete(q, h) => Behind(q, h) \in Nat /\ Behind(q, h) > h
    BY BehindIs
  <2> QED
    BY <2>1, <2>2
<1>3. Behind(r, l) \in Nat /\ Behind(r, l) > l
  BY BehindIs
<1>4. \A h \in 1..(n + 1) : f[h] \in h..(n + 1)
  BY HeaderBounds
<1>5. ~Complete(q, l)
  BY HeaderBounds
<1>6. LastHeader(q, n) = f[1] /\ LastHeader(r, n) = g[1]
  BY HeaderStep
<1> HIDE DEF f, g
<1>7. g[l] = Behind(r, l)
  <2>1. CASE Behind(r, l) <= n
    <3>1. Behind(r, l) \in 1..n /\ Behind(r, l) \in (l + 1)..n
      BY <1>3, <2>1
    <3>2. ~Complete(r, Behind(r, l))
      BY <3>1
    <3>3. g[l] = g[Behind(r, l)]
      BY <1>1, <2>1
    <3> QED
      BY <1>1, <3>1, <3>2, <3>3
  <2>2. CASE ~(Behind(r, l) <= n)
    <3>1. g[l] = n + 1
      BY <1>1, <1>3, <2>2
    <3> QED
      BY <1>3, <2>2, <3>1
  <2> QED
    BY <2>1, <2>2
<1>8. ASSUME NEW h \in 1..(n + 1), \A k \in 1..(n + 1) : k > h => k \in T
      PROVE  h \in T
  <2> SUFFICES ASSUME f[h] = l PROVE g[h] = Behind(r, l)
    OBVIOUS
  <2>1. CASE h = l
    BY <1>7, <2>1
  <2>2. CASE h # l
    <3>1. h \in 1..n /\ Complete(q, h) /\ Behind(q, h) <= n
      BY <1>1, <2>2
    <3>2. Behind(q, h) \in 1..(n + 1) /\ Behind(q, h) > h
      BY <1>2, <2>2, <3>1
    <3>3. f[h] = f[Behind(q, h)] /\ g[h] = g[Behind(q, h)]
      BY <1>1, <1>2, <2>2, <3>1
    <3> QED
      BY <1>8, <3>2, <3>3
  <2> QED
    BY <2>1, <2>2
<1> HIDE DEF T
<1>9. n + 1 \in Nat /\ 1 \in 1..(n + 1)
  OBVIOUS
<1>10. 1 \in T
  BY <1>8, <1>9, DownwardInduction
<1> QED
  BY <1>6, <1>10 DEF T

LEMMA FirstHeader ==
  ASSUME NEW n \in Nat, NEW q, Sized(q, n), ~(1 \in 1..n /\ Complete(q, 1))
  PROVE  LastHeader(q, n) = 1
<1>1. 1 \in 1..(n + 1)
  OBVIOUS
<1> QED
  BY <1>1, HeaderStep

-----------------------------------------------------------------------------
(***************************************************************************)
(* A queue in order: complete headers, then at most one that is not, whose *)
(* records fit and were written one after the other, then erased cells.    *)
(***************************************************************************)
Queues(n, W, T) == [1..n -> CellSet(W, T)]

\* The last cell of the last header's writes; the one before it when it is erased.
LastCell(q, n) ==
  LET h == LastHeader(q, n)
  IN  IF h \in 1..n /\ Allocated(q, h) THEN h + q[h].writes ELSE h - 1

InOrder(q, n) ==
  /\ LastCell(q, n) <= n
  /\ \A c \in 1..n : c > LastCell(q, n) => q[c] = EmptyCell
  /\ \A c \in 1..n : Allocated(q, c) /\ c >= LastHeader(q, n) => c = LastHeader(q, n)
  /\ \A c \in 1..n : Allocated(q, c) /\ c < LastHeader(q, n) => q[c].complete
  /\ \A c, d \in 1..n :
       LastHeader(q, n) < c /\ c < d /\ q[d] # EmptyCell => DestDone(q, c)

LEMMA QueueIs ==
  ASSUME NEW n \in Nat, NEW W \in SUBSET Counts, NEW T, NEW q \in Queues(n, W, T)
  PROVE  /\ Sized(q, n)
         /\ \A c \in 1..n :
              /\ q[c] \in CellSet(W, T)
              /\ q[c].kind \in {"erased", "header", "record"}
              /\ q[c].kind = "erased" => q[c] = EmptyCell
              /\ Allocated(q, c) =>
                   /\ q[c].writes \in W /\ q[c].writes \in Nat /\ q[c].writes # 0
                   /\ q[c].writesAllocated \in BOOLEAN /\ q[c].complete \in BOOLEAN
              /\ q[c].kind = "record" =>
                   q[c].target \in T /\ q[c].spareComplete \in BOOLEAN /\ q[c].destComplete \in BOOLEAN
<1>1. \A c \in 1..n : q[c] \in CellSet(W, T)
  BY DEF Queues
<1>2. \A c \in 1..n :
        /\ q[c].kind \in {"erased", "header", "record"}
        /\ q[c].kind = "erased" => q[c] = EmptyCell
        /\ q[c].kind = "header" =>
             /\ q[c].writes \in W /\ q[c].writes \in Nat /\ q[c].writes # 0
             /\ q[c].writesAllocated \in BOOLEAN /\ q[c].complete \in BOOLEAN
        /\ q[c].kind = "record" =>
             q[c].target \in T /\ q[c].spareComplete \in BOOLEAN /\ q[c].destComplete \in BOOLEAN
  BY <1>1, CellIs
<1>3. Sized(q, n)
  BY <1>2 DEF Sized, Counts
<1> QED
  BY <1>1, <1>2, <1>3 DEF Allocated

LEMMA LastIs ==
  ASSUME NEW n \in Nat, NEW W \in SUBSET Counts, NEW T, NEW q \in Queues(n, W, T)
  PROVE  LET h == LastHeader(q, n)
         IN  /\ h \in 1..(n + 1) /\ LastCell(q, n) \in Nat
             /\ h \in 1..n => ~Complete(q, h)
             /\ h \in 1..n /\ Allocated(q, h) =>
                  LastCell(q, n) = h + q[h].writes /\ LastCell(q, n) > h /\ ~q[h].complete
             /\ ~(h \in 1..n /\ Allocated(q, h)) => LastCell(q, n) = h - 1
<1>1. Sized(q, n)
  BY QueueIs
<1>2. LastHeader(q, n) \in 1..(n + 1)
      /\ (LastHeader(q, n) \in 1..n => ~Complete(q, LastHeader(q, n)))
  BY <1>1, HeaderBounds
<1>3. LastHeader(q, n) \in 1..n /\ Allocated(q, LastHeader(q, n)) =>
        q[LastHeader(q, n)].writes \in Nat /\ q[LastHeader(q, n)].writes # 0
  BY QueueIs
<1> QED
  BY <1>2, <1>3 DEF LastCell, Complete

Blank(n) == [c \in 1..n |-> EmptyCell]

LEMMA BlankInOrder ==
  ASSUME NEW n \in Nat, NEW W \in SUBSET Counts, NEW T
  PROVE  Blank(n) \in Queues(n, W, T) /\ LastHeader(Blank(n), n) = 1 /\ InOrder(Blank(n), n)
<1>1. Blank(n) \in Queues(n, W, T)
  BY CellIs DEF Blank, Queues, CellSet, EmptyCell
<1>2. \A c \in 1..n : Blank(n)[c] = EmptyCell /\ ~Allocated(Blank(n), c) /\ ~Complete(Blank(n), c)
  BY DEF Blank, EmptyCell, Allocated, Complete
<1>3. LastHeader(Blank(n), n) = 1
  BY <1>1, <1>2, QueueIs, FirstHeader
<1>4. LastCell(Blank(n), n) = 0
  BY <1>2, <1>3 DEF LastCell
<1> QED
  BY <1>1, <1>2, <1>3, <1>4 DEF InOrder

\* What a reclaim keeps of a queue.
Kept(q, n) ==
  LET h == LastHeader(q, n)
  IN  IF h \in 1..n /\ Allocated(q, h)
      THEN [c \in 1..n |-> IF c <= TotalSize(q[h].writes) /\ h + c - 1 \in 1..n
                           THEN q[h + c - 1] ELSE EmptyCell]
      ELSE Blank(n)

LEMMA KeptInOrder ==
  ASSUME NEW n \in Nat, n >= 1, NEW W \in SUBSET Counts, NEW T, NEW q \in Queues(n, W, T),
         InOrder(q, n)
  PROVE  Kept(q, n) \in Queues(n, W, T) /\ LastHeader(Kept(q, n), n) = 1 /\ InOrder(Kept(q, n), n)
<1> DEFINE h == LastHeader(q, n)
           r == Kept(q, n)
<1>1. CASE ~(h \in 1..n /\ Allocated(q, h))
  BY <1>1, BlankInOrder DEF Kept
<1>2. CASE h \in 1..n /\ Allocated(q, h)
  <2>1. q[h].writes \in Nat /\ q[h].writes # 0 /\ h + q[h].writes <= n /\ ~q[h].complete
        /\ LastCell(q, n) = h + q[h].writes
    <3>1. q[h].writes \in Nat /\ q[h].writes # 0
      BY <1>2, QueueIs
    <3>2. LastCell(q, n) = h + q[h].writes /\ ~q[h].complete
      BY <1>2, LastIs
    <3>3. LastCell(q, n) <= n
      BY DEF InOrder
    <3> QED
      BY <3>1, <3>2, <3>3
  <2>2. \A c \in 1..n : r[c] = IF c <= 1 + q[h].writes THEN q[h + c - 1] ELSE EmptyCell
    BY <1>2, <2>1 DEF Kept, TotalSize
  <2>3. \A c \in 1..n : c <= 1 + q[h].writes => h + c - 1 \in 1..n
    BY <1>2, <2>1
  <2>4. r \in Queues(n, W, T)
    <3>1. \A c \in 1..n : r[c] \in CellSet(W, T)
      <4>1. EmptyCell \in CellSet(W, T)
        BY DEF CellSet, EmptyCell
      <4>2. \A c \in 1..n : q[c] \in CellSet(W, T)
        BY QueueIs
      <4> HIDE DEF r, h
      <4> QED
        BY <2>2, <2>3, <4>1, <4>2
    <3>2. r = [c \in 1..n |-> r[c]]
      BY <1>2 DEF Kept
    <3> QED
      BY <3>1, <3>2 DEF Queues
  <2>5. r[1] = q[h] /\ 1 \in 1..n
    BY <1>2, <2>1, <2>2
  <2>6. Allocated(r, 1) /\ ~Complete(r, 1) /\ r[1].writes = q[h].writes
    BY <1>2, <2>1, <2>5 DEF Allocated, Complete
  <2> HIDE DEF r
  <2>7. LastHeader(r, n) = 1
    BY <2>4, <2>6, QueueIs, FirstHeader
  <2>8. LastCell(r, n) = 1 + q[h].writes
    BY <2>5, <2>6, <2>7 DEF LastCell
  <2> HIDE DEF h
  <2>9. \A c \in 1..n : c > 1 => ~Allocated(r, c)
    <3> SUFFICES ASSUME NEW c \in 1..n, c > 1, c <= 1 + q[h].writes
                 PROVE  ~Allocated(r, c)
      BY <2>2 DEF Allocated, EmptyCell
    <3>1. h + c - 1 \in 1..n /\ h + c - 1 > h /\ r[c] = q[h + c - 1]
      BY <1>2, <2>1, <2>2, <2>3
    <3> QED
      <4>1. \A k \in 1..n : Allocated(q, k) /\ k >= h => k = h
        BY DEF InOrder, h
      <4>2. ~Allocated(q, h + c - 1)
        BY <1>2, <3>1, <4>1
      <4> QED
        BY <3>1, <4>2 DEF Allocated
  <2>10. ASSUME NEW c \in 1..n, NEW d \in 1..n, 1 < c, c < d, r[d] # EmptyCell
         PROVE  DestDone(r, c)
    <3>1. d <= 1 + q[h].writes /\ c <= 1 + q[h].writes
      BY <2>1, <2>2, <2>10
    <3>2. /\ h + c - 1 \in 1..n /\ r[c] = q[h + c - 1]
          /\ h + d - 1 \in 1..n /\ r[d] = q[h + d - 1]
          /\ h < h + c - 1 /\ h + c - 1 < h + d - 1
      BY <1>2, <2>1, <2>2, <2>3, <2>10, <3>1
    <3>3. DestDone(q, h + c - 1)
      BY <2>10, <3>2 DEF InOrder, h
    <3> QED
      BY <3>2, <3>3 DEF DestDone
  <2>11. \A c \in 1..n : c > LastCell(r, n) => r[c] = EmptyCell
    BY <2>1, <2>2, <2>8
  <2>12. InOrder(r, n)
    BY <1>2, <2>1, <2>7, <2>8, <2>9, <2>10, <2>11 DEF InOrder
  <2> QED
    BY <2>4, <2>7, <2>12 DEF r
<1> QED
  BY <1>1, <1>2

-----------------------------------------------------------------------------
(***************************************************************************)
(* What is written to a queue: bits, which have no place in some cells, a  *)
(* header behind the last one, a record in the place of the last one.      *)
(***************************************************************************)
Bits == {"writesAllocated", "complete", "spareComplete", "destComplete"}

WithBit(c, bit) == [c EXCEPT ![bit] = TRUE]

LEMMA BitIs ==
  ASSUME NEW W \in SUBSET Counts, NEW T, NEW c \in CellSet(W, T), NEW bit \in Bits
  PROVE  /\ WithBit(c, bit) \in CellSet(W, T) /\ WithBit(c, bit).kind = c.kind
         /\ c.kind = "erased" => WithBit(c, bit) = EmptyCell
         /\ c.kind = "header" =>
              /\ WithBit(c, bit).writes = c.writes
              /\ WithBit(c, bit).complete = (bit = "complete" \/ c.complete)
              /\ WithBit(c, bit).writesAllocated = (bit = "writesAllocated" \/ c.writesAllocated)
         /\ c.kind = "record" =>
              /\ WithBit(c, bit).target = c.target
              /\ WithBit(c, bit).spareComplete = (bit = "spareComplete" \/ c.spareComplete)
              /\ WithBit(c, bit).destComplete = (bit = "destComplete" \/ c.destComplete)
<1>1. CASE c \in [kind : {"erased"}]
  <2>1. c = EmptyCell /\ DOMAIN c = {"kind"}
    BY <1>1 DEF EmptyCell
  <2>2. WithBit(c, bit) = c
    BY <1>1, <2>1 DEF WithBit, Bits
  <2> QED
    BY <1>1, <2>1, <2>2
<1>2. CASE c \in [kind : {"header"}, writes : W, writesAllocated : BOOLEAN, complete : BOOLEAN]
  <2>1. c.kind = "header" /\ DOMAIN c = {"kind", "writes", "writesAllocated", "complete"}
    BY <1>2
  <2>2. CASE bit \in {"spareComplete", "destComplete"}
    <3>1. WithBit(c, bit) = c
      BY <1>2, <2>1, <2>2 DEF WithBit
    <3> QED
      BY <1>2, <2>1, <2>2, <3>1
  <2>3. CASE bit = "complete"
    <3>1. WithBit(c, bit) \in [kind : {"header"}, writes : W, writesAllocated : BOOLEAN, complete : BOOLEAN]
      BY <1>2, <2>3 DEF WithBit
    <3> QED
      BY <1>2, <2>1, <2>3, <3>1 DEF WithBit, CellSet
  <2>4. CASE bit = "writesAllocated"
    <3>1. WithBit(c, bit) \in [kind : {"header"}, writes : W, writesAllocated : BOOLEAN, complete : BOOLEAN]
      BY <1>2, <2>4 DEF WithBit
    <3> QED
      BY <1>2, <2>1, <2>4, <3>1 DEF WithBit, CellSet
  <2> QED
    BY <2>2, <2>3, <2>4 DEF Bits
<1>3. CASE c \in [kind : {"record"}, target : T, spareComplete : BOOLEAN, destComplete : BOOLEAN]
  <2>1. c.kind = "record" /\ DOMAIN c = {"kind", "target", "spareComplete", "destComplete"}
    BY <1>3
  <2>2. CASE bit \in {"complete", "writesAllocated"}
    <3>1. WithBit(c, bit) = c
      BY <1>3, <2>1, <2>2 DEF WithBit
    <3> QED
      BY <1>3, <2>1, <2>2, <3>1
  <2>3. CASE bit = "spareComplete"
    <3>1. WithBit(c, bit) \in [kind : {"record"}, target : T, spareComplete : BOOLEAN, destComplete : BOOLEAN]
      BY <1>3, <2>3 DEF WithBit
    <3> QED
      BY <1>3, <2>1, <2>3, <3>1 DEF WithBit, CellSet
  <2>4. CASE bit = "destComplete"
    <3>1. WithBit(c, bit) \in [kind : {"record"}, target : T, spareComplete : BOOLEAN, destComplete : BOOLEAN]
      BY <1>3, <2>4 DEF WithBit
    <3> QED
      BY <1>3, <2>1, <2>4, <3>1 DEF WithBit, CellSet
  <2> QED
    BY <2>2, <2>3, <2>4 DEF Bits
<1> QED
  BY <1>1, <1>2, <1>3 DEF CellSet

Marked(q, c, bit) == [q EXCEPT ![c] = WithBit(q[c], bit)]

\* The bit changes nothing but what it is about, in queue r.
MarkOnly(q, r, n, c, bit) ==
  \A d \in 1..n :
    /\ r[d] = IF d = c THEN WithBit(q[c], bit) ELSE q[d]
    /\ r[d].kind = q[d].kind
    /\ q[d] = EmptyCell <=> r[d] = EmptyCell
    /\ Allocated(q, d) <=> Allocated(r, d)
    /\ Allocated(q, d) =>
         /\ r[d].writes = q[d].writes
         /\ r[d].complete = (q[d].complete \/ (d = c /\ bit = "complete"))
    /\ SpareDone(r, d) <=> SpareDone(q, d) \/ (d = c /\ bit = "spareComplete" /\ q[d].kind = "record")
    /\ DestDone(r, d) <=> DestDone(q, d) \/ (d = c /\ bit = "destComplete" /\ q[d].kind = "record")

LEMMA MarkedIs ==
  ASSUME NEW n \in Nat, NEW W \in SUBSET Counts, NEW T, NEW q \in Queues(n, W, T),
         NEW c \in 1..n, NEW bit \in Bits
  PROVE  Marked(q, c, bit) \in Queues(n, W, T) /\ MarkOnly(q, Marked(q, c, bit), n, c, bit)
<1> DEFINE r == Marked(q, c, bit)
<1>1. \A d \in 1..n : r[d] = IF d = c THEN WithBit(q[c], bit) ELSE q[d]
  BY DEF Marked, Queues
<1>2. \A d \in 1..n : q[d] \in CellSet(W, T)
  BY QueueIs
<1>3. WithBit(q[c], bit) \in CellSet(W, T)
  BY <1>2, BitIs
<1>4. r \in Queues(n, W, T)
  BY <1>3 DEF Marked, Queues
<1> HIDE DEF r
<1>5. \A d \in 1..n :
        /\ r[d].kind = q[d].kind
        /\ q[d].kind = "erased" => r[d] = EmptyCell
        /\ q[d].kind = "header" =>
             /\ r[d].writes = q[d].writes
             /\ r[d].complete = (q[d].complete \/ (d = c /\ bit = "complete"))
        /\ q[d].kind = "record" =>
             /\ r[d].spareComplete = (q[d].spareComplete \/ (d = c /\ bit = "spareComplete"))
             /\ r[d].destComplete = (q[d].destComplete \/ (d = c /\ bit = "destComplete"))
  <2> SUFFICES ASSUME NEW d \in 1..n
               PROVE  /\ r[d].kind = q[d].kind
                      /\ q[d].kind = "erased" => r[d] = EmptyCell
                      /\ q[d].kind = "header" =>
                           /\ r[d].writes = q[d].writes
                           /\ r[d].complete = (q[d].complete \/ (d = c /\ bit = "complete"))
                      /\ q[d].kind = "record" =>
                           /\ r[d].spareComplete = (q[d].spareComplete \/ (d = c /\ bit = "spareComplete"))
                           /\ r[d].destComplete = (q[d].destComplete \/ (d = c /\ bit = "destComplete"))
    OBVIOUS
  <2>1. CASE d = c
    <3>1. r[d] = WithBit(q[c], bit) /\ q[c] \in CellSet(W, T)
      BY <1>1, <1>2, <2>1
    <3> QED
      BY <2>1, <3>1, BitIs
  <2>2. CASE d # c
    <3>1. r[d] = q[d] /\ q[d] \in CellSet(W, T)
      BY <1>1, <1>2, <2>2
    <3>2. /\ q[d].kind = "erased" => q[d] = EmptyCell
          /\ q[d].kind = "header" => q[d].complete \in BOOLEAN
          /\ q[d].kind = "record" => q[d].spareComplete \in BOOLEAN /\ q[d].destComplete \in BOOLEAN
      BY <3>1, CellIs
    <3> QED
      BY <2>2, <3>1, <3>2
  <2> QED
    BY <2>1, <2>2
<1>6. \A d \in 1..n : q[d] = EmptyCell <=> q[d].kind = "erased"
  BY <1>2, CellIs DEF EmptyCell
<1>7. \A d \in 1..n : q[d] = EmptyCell <=> r[d] = EmptyCell
  BY <1>5, <1>6 DEF EmptyCell
<1> QED
  BY <1>1, <1>4, <1>5, <1>7 DEF r, MarkOnly, Allocated, SpareDone, DestDone

\* Bits keep a queue in order, also when a header is completed.
LEMMA MarkInOrder ==
  ASSUME NEW n \in Nat, NEW W \in SUBSET Counts, NEW T, NEW q \in Queues(n, W, T),
         NEW c \in 1..n, NEW bit \in Bits, InOrder(q, n)
  PROVE  LET r == Marked(q, c, bit)
         IN  /\ InOrder(r, n)
             /\ LastHeader(r, n) =
                  IF bit = "complete" /\ c = LastHeader(q, n) /\ Allocated(q, c)
                  THEN LastCell(q, n) + 1 ELSE LastHeader(q, n)
             /\ LastCell(r, n) = LastCell(q, n)
<1> DEFINE r == Marked(q, c, bit)
           l == LastHeader(q, n)
           e == LastCell(q, n)
<1>1. /\ r \in Queues(n, W, T) /\ Sized(q, n) /\ Sized(r, n)
      /\ \A d \in 1..n :
           /\ q[d] = EmptyCell <=> r[d] = EmptyCell
           /\ Allocated(q, d) <=> Allocated(r, d)
           /\ Allocated(q, d) =>
                r[d].writes = q[d].writes /\ r[d].complete = (q[d].complete \/ (d = c /\ bit = "complete"))
           /\ DestDone(q, d) => DestDone(r, d)
  <2>1. r \in Queues(n, W, T)
    BY MarkedIs
  <2>2. \A d \in 1..n :
           /\ q[d] = EmptyCell <=> r[d] = EmptyCell
           /\ Allocated(q, d) <=> Allocated(r, d)
           /\ Allocated(q, d) =>
                r[d].writes = q[d].writes /\ r[d].complete = (q[d].complete \/ (d = c /\ bit = "complete"))
           /\ DestDone(q, d) => DestDone(r, d)
    <3>1. MarkOnly(q, r, n, c, bit)
      BY MarkedIs
    <3> HIDE DEF r
    <3> QED
      BY <3>1 DEF MarkOnly
  <2> HIDE DEF r
  <2>3. Sized(q, n) /\ Sized(r, n)
    BY <2>1, QueueIs
  <2> QED
    BY <2>1, <2>2, <2>3
<1>2. /\ l \in 1..(n + 1) /\ e \in Nat /\ (l \in 1..n => ~Complete(q, l))
      /\ l \in 1..n /\ Allocated(q, l) => e = l + q[l].writes /\ e > l /\ ~q[l].complete
      /\ ~(l \in 1..n /\ Allocated(q, l)) => e = l - 1
  BY LastIs
<1>3. /\ e <= n
      /\ \A d \in 1..n : d > e => q[d] = EmptyCell
      /\ \A d \in 1..n : Allocated(q, d) /\ d >= l => d = l
      /\ \A d \in 1..n : Allocated(q, d) /\ d < l => q[d].complete
      /\ \A d, f \in 1..n : l < d /\ d < f /\ q[f] # EmptyCell => DestDone(q, d)
  BY DEF InOrder
<1>4. \A d \in 1..n : Allocated(q, d) => q[d].complete \in BOOLEAN
  BY QueueIs
<1> HIDE DEF r, l, e
<1>5. CASE bit = "complete" /\ c = l /\ Allocated(q, c)
  <2>1. e = l + q[l].writes /\ e > l /\ ~q[l].complete /\ l \in 1..n
    BY <1>2, <1>5
  <2>2. Complete(r, l) /\ Behind(r, l) = e + 1
    <3>1. Allocated(r, l) /\ r[l].writes = q[l].writes /\ r[l].complete = TRUE
      BY <1>1, <1>5, <2>1
    <3>2. q[l].writes \in Nat
      BY <1>5, <2>1, QueueIs
    <3> QED
      BY <1>2, <2>1, <3>1, <3>2 DEF Complete, Behind, TotalSize
  <2>3. \A h \in 1..n : h # l => /\ Complete(q, h) <=> Complete(r, h)
                                 /\ Complete(q, h) => q[h].writes = r[h].writes
    BY <1>1, <1>4, <1>5 DEF Complete
  <2>4. \A h \in (l + 1)..n : h >= Behind(r, l) => ~Complete(r, h)
    <3>1. \A h \in 1..n : h > l => ~Allocated(q, h)
      BY <1>2, <1>3
    <3> QED
      BY <1>1, <2>1, <3>1 DEF Complete
  <2>5. LastHeader(r, n) = e + 1
    <3>1. l = LastHeader(q, n) /\ Behind(r, l) <= n + 1
      BY <1>2, <1>3, <2>2 DEF l
    <3> QED
      BY <1>1, <2>1, <2>2, <2>3, <2>4, <3>1, HeaderCompleted
  <2>6. LastCell(r, n) = e
    <3>1. ~(e + 1 \in 1..n /\ Allocated(r, e + 1))
      BY <1>1, <1>2, <1>3, <2>1 DEF Allocated, EmptyCell
    <3> QED
      BY <1>2, <2>5, <3>1 DEF LastCell
  <2>7. InOrder(r, n)
    <3>1. \A d \in 1..n : d > e => r[d] = EmptyCell
      BY <1>1, <1>3
    <3>2. \A d \in 1..n : Allocated(r, d) => d <= l /\ r[d].complete
      <4> SUFFICES ASSUME NEW d \in 1..n, Allocated(r, d) PROVE d <= l /\ r[d].complete
        OBVIOUS
      <4>1. Allocated(q, d) /\ r[d].complete = (q[d].complete \/ (d = c /\ bit = "complete"))
        BY <1>1
      <4>2. d <= l /\ (d < l => q[d].complete)
        BY <1>2, <1>3, <4>1
      <4>3. CASE d < l
        BY <4>1, <4>2, <4>3
      <4>4. CASE d = l
        BY <1>5, <4>1, <4>2, <4>4
      <4> QED
        BY <1>2, <4>2, <4>3, <4>4
    <3> QED
      BY <1>2, <1>3, <2>1, <2>5, <2>6, <3>1, <3>2 DEF InOrder
  <2> QED
    BY <1>5, <2>5, <2>6, <2>7 DEF l, e, r
<1>6. CASE ~(bit = "complete" /\ c = l /\ Allocated(q, c))
  <2>1. \A d \in 1..n : Allocated(q, d) => r[d].complete = q[d].complete
    <3> SUFFICES ASSUME NEW d \in 1..n, Allocated(q, d) PROVE r[d].complete = q[d].complete
      OBVIOUS
    <3>1. CASE d = c /\ bit = "complete"
      <4>1. d < l
        BY <1>2, <1>3, <1>6, <3>1
      <4> QED
        BY <1>1, <1>3, <1>4, <4>1
    <3>2. CASE ~(d = c /\ bit = "complete")
      BY <1>1, <1>4, <3>2
    <3> QED
      BY <3>1, <3>2
  <2>2. LastHeader(r, n) = l
    <3>1. \A h \in 1..n : /\ Complete(q, h) <=> Complete(r, h)
                          /\ Complete(q, h) => q[h].writes = r[h].writes
      BY <1>1, <2>1 DEF Complete
    <3> QED
      BY <1>1, <3>1, HeadersSame DEF l
  <2>3. LastCell(r, n) = e
    <3>1. CASE l \in 1..n /\ Allocated(q, l)
      BY <1>1, <1>2, <2>2, <3>1 DEF LastCell
    <3>2. CASE ~(l \in 1..n /\ Allocated(q, l))
      BY <1>1, <1>2, <2>2, <3>2 DEF LastCell
    <3> QED
      BY <3>1, <3>2
  <2>4. InOrder(r, n)
    BY <1>1, <1>3, <2>1, <2>2, <2>3 DEF InOrder
  <2> QED
    BY <1>6, <2>2, <2>3, <2>4 DEF l, e, r
<1> QED
  BY <1>5, <1>6

LastRecord(q, n, h) ==
  LET open == {r \in (h + 1)..n : (Allocated(q, h) => r <= h + q[h].writes) /\ ~DestDone(q, r)}
  IN  IF open = {} THEN h + q[h].writes ELSE CHOOSE r \in open : \A s \in open : r <= s

LEMMA RecordFound ==
  \A q, h : FtwGetLastWriteRecord(q, h) = LastRecord(q, QueueSize, h)
BY DEF FtwGetLastWriteRecord, LastRecord

LEMMA HeaderPlace ==
  ASSUME NEW n \in Nat, NEW W \in SUBSET Counts, NEW T, NEW q \in Queues(n, W, T), InOrder(q, n),
         LastHeader(q, n) \in 1..n
  PROVE  LET h == LastHeader(q, n)
         IN  /\ ~Complete(q, h)
             /\ Allocated(q, h) =>
                  /\ q[h].writes \in W /\ q[h].writes \in Nat /\ q[h].writes # 0
                  /\ h + q[h].writes <= n /\ LastCell(q, n) = h + q[h].writes
                  /\ ~q[h].complete
             /\ ~Allocated(q, h) =>
                  /\ LastCell(q, n) = h - 1
                  /\ \A c \in h..n : q[c] = EmptyCell /\ ~DestDone(q, c)
             /\ \A c \in (h + 1)..n : ~Allocated(q, c)
<1> DEFINE h == LastHeader(q, n)
<1>1. /\ ~Complete(q, h)
      /\ Allocated(q, h) => LastCell(q, n) = h + q[h].writes /\ ~q[h].complete
      /\ ~Allocated(q, h) => LastCell(q, n) = h - 1
  BY LastIs
<1>2. Allocated(q, h) => q[h].writes \in W /\ q[h].writes \in Nat /\ q[h].writes # 0
  BY QueueIs
<1>3. /\ LastCell(q, n) <= n
      /\ \A c \in 1..n : c > LastCell(q, n) => q[c] = EmptyCell
      /\ \A c \in 1..n : Allocated(q, c) /\ c >= h => c = h
  BY DEF InOrder
<1>4. h \in 1..n
  OBVIOUS
<1> HIDE DEF h
<1>5. ~Allocated(q, h) => \A c \in h..n : q[c] = EmptyCell /\ ~DestDone(q, c)
  BY <1>1, <1>3, <1>4 DEF DestDone, EmptyCell
<1>6. \A c \in (h + 1)..n : ~Allocated(q, c)
  BY <1>3, <1>4
<1> QED
  BY <1>1, <1>2, <1>3, <1>5, <1>6 DEF h

\* The last record is behind the last header, and the records before are done.
LEMMA RecordPlace ==
  ASSUME NEW n \in Nat, NEW W \in SUBSET Counts, NEW T, NEW q \in Queues(n, W, T), InOrder(q, n),
         LastHeader(q, n) \in 1..(n - 1)
  PROVE  LET h == LastHeader(q, n)
             r == LastRecord(q, n, h)
         IN  /\ r \in (h + 1)..n
             /\ \A c \in (h + 1)..n : c < r => DestDone(q, c)
             /\ Allocated(q, h) => r <= h + q[h].writes
             /\ ~Allocated(q, h) => r = h + 1
             /\ ~DestDone(q, h + 1) => r = h + 1
<1> DEFINE h == LastHeader(q, n)
           r == LastRecord(q, n, h)
           open == {c \in (h + 1)..n : (Allocated(q, h) => c <= h + q[h].writes) /\ ~DestDone(q, c)}
           least == CHOOSE c \in open : \A s \in open : c <= s
<1>1. h \in 1..(n - 1) /\ h \in 1..n
  OBVIOUS
<1>2. /\ Allocated(q, h) => q[h].writes \in Nat /\ q[h].writes # 0 /\ h + q[h].writes <= n
      /\ ~Allocated(q, h) => ~DestDone(q, h + 1)
  BY <1>1, HeaderPlace
<1>3. r = IF open = {} THEN h + q[h].writes ELSE least
  BY DEF LastRecord
<1>4. open \in SUBSET Nat
  BY <1>1
<1>5. open # {} => least \in open /\ \A s \in open : least <= s
  BY <1>4, LeastIs
<1>6. ~DestDone(q, h + 1) => h + 1 \in open
  BY <1>1, <1>2
<1> HIDE DEF h, r, least
<1>7. CASE open = {}
  <2>1. Allocated(q, h) /\ r = h + q[h].writes /\ DestDone(q, h + 1)
    BY <1>2, <1>3, <1>6, <1>7
  <2>2. \A c \in (h + 1)..n : c < r => DestDone(q, c)
    BY <1>1, <1>2, <1>7, <2>1
  <2> QED
    BY <1>1, <1>2, <2>1, <2>2 DEF h, r
<1>8. CASE open # {}
  <2>1. r \in open /\ \A s \in open : r <= s
    BY <1>3, <1>5, <1>8
  <2>2. r \in (h + 1)..n /\ (Allocated(q, h) => r <= h + q[h].writes)
    BY <2>1
  <2>3. \A c \in (h + 1)..n : c < r => DestDone(q, c)
    <3> SUFFICES ASSUME NEW c \in (h + 1)..n, c < r, ~DestDone(q, c) PROVE FALSE
      OBVIOUS
    <3>1. c \in open
      BY <1>1, <1>2, <2>2
    <3> QED
      BY <1>1, <2>1, <2>2, <3>1
  <2>4. ~DestDone(q, h + 1) => r = h + 1
    BY <1>1, <1>6, <2>1, <2>2
  <2> QED
    BY <1>2, <2>2, <2>3, <2>4 DEF h, r
<1> QED
  BY <1>7, <1>8

\* The records of header h are all to come.
Untouched(q, n, h) ==
  /\ h + q[h].writes <= n
  /\ \A c \in (h + 1)..n : c <= h + q[h].writes => q[c] = EmptyCell

LEMMA HeaderWritten ==
  ASSUME NEW n \in Nat, NEW W \in SUBSET Counts, NEW T, NEW q \in Queues(n, W, T), InOrder(q, n),
         LastHeader(q, n) \in 1..n, ~Allocated(q, LastHeader(q, n)),
         NEW w \in W, LastHeader(q, n) + w <= n
  PROVE  LET h == LastHeader(q, n)
             r == [q EXCEPT ![h] = WriteHeader(w)]
         IN  /\ r \in Queues(n, W, T) /\ InOrder(r, n) /\ LastHeader(r, n) = h
             /\ Allocated(r, h) /\ r[h].writes = w /\ Untouched(r, n, h)
             /\ q[h] = EmptyCell
             /\ LastRecord(q, n, h) = h + 1 /\ LastRecord(r, n, h) = h + 1
<1> DEFINE h == LastHeader(q, n)
           r == [q EXCEPT ![h] = WriteHeader(w)]
<1>1. h \in 1..n /\ w \in Nat /\ w # 0 /\ h \in 1..(n - 1)
  BY DEF Counts
<1>2. /\ LastCell(q, n) = h - 1
      /\ \A c \in h..n : q[c] = EmptyCell /\ ~DestDone(q, c)
      /\ \A c \in (h + 1)..n : ~Allocated(q, c)
  BY <1>1, HeaderPlace
<1>3. WriteHeader(w) \in CellSet(W, T) /\ WriteHeader(w).kind = "header"
      /\ WriteHeader(w).writes = w /\ WriteHeader(w).complete = FALSE
  BY DEF WriteHeader, CellSet
<1>4. \A c \in 1..n : r[c] = IF c = h THEN WriteHeader(w) ELSE q[c]
  BY DEF Queues
<1>5. r \in Queues(n, W, T)
  BY <1>3 DEF Queues
<1>6. Sized(q, n) /\ Sized(r, n)
  BY <1>5, QueueIs
<1> HIDE DEF r
<1>7. \A c \in 1..n : /\ Complete(q, c) <=> Complete(r, c)
                      /\ Complete(q, c) => q[c].writes = r[c].writes
  <2>1. ~Complete(q, h) /\ ~Complete(r, h)
    BY <1>1, <1>3, <1>4 DEF Complete, Allocated
  <2>2. \A c \in 1..n : c # h => r[c] = q[c]
    BY <1>4
  <2> QED
    BY <2>1, <2>2 DEF Complete, Allocated
<1>8. LastHeader(r, n) = h
  BY <1>5, <1>6, <1>7, HeadersSame
<1>9. Allocated(r, h) /\ r[h].writes = w /\ r[h] = WriteHeader(w)
  BY <1>1, <1>3, <1>4 DEF Allocated
<1>10. LastCell(r, n) = h + w
  BY <1>1, <1>8, <1>9 DEF LastCell
<1>11. /\ \A c \in 1..n : c < h => (q[c] = r[c])
       /\ \A c \in 1..n : c > h => r[c] = EmptyCell
  BY <1>1, <1>2, <1>4
<1>12. InOrder(r, n)
  <2>1. \A c \in 1..n : Allocated(q, c) /\ c < h => q[c].complete
    BY DEF InOrder
  <2>2. \A c \in 1..n : Allocated(r, c) => c <= h /\ (c < h => r[c].complete)
    <3> SUFFICES ASSUME NEW c \in 1..n, Allocated(r, c)
                 PROVE  c <= h /\ (c < h => r[c].complete)
      OBVIOUS
    <3>1. ~(c > h)
      BY <1>11 DEF Allocated, EmptyCell
    <3>2. c < h => Allocated(q, c) /\ r[c] = q[c]
      BY <1>11 DEF Allocated
    <3> QED
      BY <1>1, <2>1, <3>1, <3>2
  <2> HIDE DEF h
  <2>3. \A c \in 1..n : c > h + w => r[c] = EmptyCell
    BY <1>1, <1>11
  <2>4. h + w <= n
    BY DEF h
  <2> QED
    BY <1>1, <1>8, <1>10, <1>11, <2>2, <2>3, <2>4 DEF InOrder
<1>13. LastRecord(q, n, h) = h + 1
  BY <1>1, RecordPlace
<1>14. LastRecord(r, n, h) = h + 1
  <2>1. ~DestDone(r, h + 1)
    BY <1>1, <1>11 DEF DestDone, EmptyCell
  <2> QED
    BY <1>1, <1>5, <1>8, <1>12, <2>1, RecordPlace
<1>15. Untouched(r, n, h)
  BY <1>1, <1>9, <1>11 DEF Untouched
<1>16. q[h] = EmptyCell
  BY <1>1, <1>2
<1> QED
  BY <1>5, <1>8, <1>9, <1>12, <1>13, <1>14, <1>15, <1>16 DEF r

LEMMA RecordWritten ==
  ASSUME NEW n \in Nat, NEW W \in SUBSET Counts, NEW T, NEW q \in Queues(n, W, T), InOrder(q, n),
         LastHeader(q, n) \in 1..(n - 1), Allocated(q, LastHeader(q, n)),
         ~DestDone(q, LastRecord(q, n, LastHeader(q, n))), NEW t \in T
  PROVE  LET s == [q EXCEPT ![LastRecord(q, n, LastHeader(q, n))] = WriteRecord(t)]
         IN  s \in Queues(n, W, T) /\ InOrder(s, n)
<1> DEFINE h == LastHeader(q, n)
           r == LastRecord(q, n, h)
           s == [q EXCEPT ![r] = WriteRecord(t)]
<1>1. h \in 1..(n - 1) /\ h \in 1..n
  OBVIOUS
<1>2. r \in (h + 1)..n /\ r <= h + q[h].writes /\ \A c \in (h + 1)..n : c < r => DestDone(q, c)
  BY <1>1, RecordPlace
<1>3. /\ q[h].writes \in Nat /\ h + q[h].writes <= n /\ LastCell(q, n) = h + q[h].writes
      /\ \A c \in (h + 1)..n : ~Allocated(q, c)
      /\ ~Complete(q, h)
  BY <1>1, HeaderPlace
<1>4. WriteRecord(t) \in CellSet(W, T) /\ WriteRecord(t).kind = "record"
  BY DEF WriteRecord, CellSet
<1>5. s \in Queues(n, W, T)
  BY <1>4 DEF Queues
<1>6. \A c \in 1..n : s[c] = IF c = r THEN WriteRecord(t) ELSE q[c]
  BY DEF Queues
<1>7. Sized(q, n) /\ Sized(s, n)
  BY <1>5, QueueIs
<1> HIDE DEF s, r
<1>8. r \in 1..n /\ ~Allocated(q, r) /\ ~Allocated(s, r) /\ r > h
  BY <1>1, <1>2, <1>3, <1>4, <1>6 DEF Allocated
<1>9. \A c \in 1..n : c # r => s[c] = q[c]
  BY <1>6
<1>10. \A c \in 1..n : (Allocated(s, c) <=> Allocated(q, c)) /\ (Allocated(q, c) => s[c] = q[c])
  BY <1>8, <1>9 DEF Allocated
<1>11. LastHeader(s, n) = h
  <2>1. \A c \in 1..n : /\ Complete(q, c) <=> Complete(s, c)
                        /\ Complete(q, c) => q[c].writes = s[c].writes
    BY <1>10 DEF Complete
  <2> QED
    BY <1>5, <1>7, <2>1, HeadersSame
<1>12. LastCell(s, n) = LastCell(q, n)
  BY <1>1, <1>10, <1>11 DEF LastCell
<1>13. /\ LastCell(q, n) <= n
       /\ \A c \in 1..n : c > LastCell(q, n) => q[c] = EmptyCell
       /\ \A c \in 1..n : Allocated(q, c) /\ c >= h => c = h
       /\ \A c \in 1..n : Allocated(q, c) /\ c < h => q[c].complete
       /\ \A c, d \in 1..n : h < c /\ c < d /\ q[d] # EmptyCell => DestDone(q, c)
  BY DEF InOrder
<1>14. ~DestDone(q, r)
  BY DEF r
<1> HIDE DEF h
<1>15. ASSUME NEW c \in 1..n, NEW d \in 1..n, h < c, c < d, s[d] # EmptyCell
       PROVE  DestDone(s, c)
  <2>1. CASE d = r
    <3>1. DestDone(q, c) /\ c # r
      BY <1>1, <1>2, <1>15, <2>1
    <3> QED
      BY <1>9, <3>1 DEF DestDone
  <2>2. CASE d # r
    <3>1. q[d] # EmptyCell
      BY <1>9, <1>15, <2>2
    <3>2. DestDone(q, c)
      BY <1>13, <1>15, <3>1
    <3>3. c # r
      BY <1>14, <3>2
    <3> QED
      BY <1>9, <3>2, <3>3 DEF DestDone
  <2> QED
    BY <2>1, <2>2
<1>16. \A c \in 1..n : c > LastCell(q, n) => s[c] = EmptyCell
  BY <1>1, <1>2, <1>3, <1>8, <1>9, <1>13
<1>17. InOrder(s, n)
  BY <1>10, <1>11, <1>12, <1>13, <1>15, <1>16 DEF InOrder
<1> QED
  BY <1>5, <1>17 DEF s, r, h

\* The bits of a header do not concern its records.
LEMMA AllocationMarked ==
  ASSUME NEW n \in Nat, NEW W \in SUBSET Counts, NEW T, NEW q \in Queues(n, W, T), InOrder(q, n),
         LastHeader(q, n) \in 1..(n - 1), Allocated(q, LastHeader(q, n)),
         Untouched(q, n, LastHeader(q, n))
  PROVE  LET h == LastHeader(q, n)
             r == Marked(q, h, "writesAllocated")
         IN  /\ LastHeader(r, n) = h /\ LastRecord(r, n, h) = h + 1
             /\ Allocated(r, h) /\ r[h].writes = q[h].writes /\ r[h].writesAllocated
             /\ Untouched(r, n, h)
<1> DEFINE h == LastHeader(q, n)
           r == Marked(q, h, "writesAllocated")
<1>1. h \in 1..(n - 1) /\ h \in 1..n
  OBVIOUS
<1>2. r \in Queues(n, W, T) /\ MarkOnly(q, r, n, h, "writesAllocated")
  BY <1>1, MarkedIs DEF Bits
<1>3. InOrder(r, n) /\ LastHeader(r, n) = h
  BY <1>1, MarkInOrder DEF Bits
<1>4. q[h].writes \in Nat /\ q[h].writes # 0
  BY <1>1, HeaderPlace
<1>5. q[h] \in CellSet(W, T) /\ q[h].kind = "header"
  BY <1>1, QueueIs DEF Allocated
<1>6. WithBit(q[h], "writesAllocated").writesAllocated = TRUE
  BY <1>5, BitIs DEF Bits
<1> HIDE DEF r, h
<1>7. /\ Allocated(r, h) /\ r[h].writes = q[h].writes /\ r[h] = WithBit(q[h], "writesAllocated")
      /\ \A c \in 1..n : q[c] = EmptyCell => r[c] = EmptyCell
  BY <1>1, <1>2 DEF MarkOnly, h
<1>8. Untouched(q, n, h)
  BY DEF h
<1>9. Untouched(r, n, h)
  BY <1>1, <1>7, <1>8 DEF Untouched
<1>10. LastRecord(r, n, h) = h + 1
  <2>1. r[h + 1] = EmptyCell
    BY <1>1, <1>4, <1>7, <1>9 DEF Untouched
  <2>2. ~DestDone(r, h + 1)
    BY <2>1 DEF DestDone, EmptyCell
  <2> QED
    BY <1>1, <1>2, <1>3, <2>2, RecordPlace
<1> QED
  BY <1>3, <1>6, <1>7, <1>9, <1>10 DEF r, h

-----------------------------------------------------------------------------
(***************************************************************************)
(* The contents of blocks on platform p: work spaces have a queue in order.*)
(* A record whose place was written over for another target, which may     *)
(* then name any, needs two blocks that callers write.                     *)
(***************************************************************************)
HeaderWrites(p) == p.requests \cup {1}

OneWritable(p) == \A t, u \in p.writable : t = u
RecordTargets(p) == IF OneWritable(p) THEN p.writable ELSE p.writable \cup {"unknown"}

GoodQueues(p) ==
  {q \in Queues(p.queue, HeaderWrites(p), RecordTargets(p)) : InOrder(q, p.queue)}
GoodSpaces(p) ==
  [kind : {"space"}, formatted : BOOLEAN, valid : BOOLEAN, invalid : BOOLEAN,
   queue : GoodQueues(p)]
GoodBlocks(p) == Contents \cup GoodSpaces(p)

LEMMA PlatformIs ==
  ASSUME NEW p \in Platforms
  PROVE  /\ p.queue \in Nat /\ p.queue >= 2 /\ p.queue >= 1
         /\ HeaderWrites(p) \in SUBSET Counts /\ 1 \in HeaderWrites(p)
         /\ p.requests \subseteq HeaderWrites(p)
         /\ p.writable \subseteq Areas /\ p.writable \subseteq RecordTargets(p)
         /\ RecordTargets(p) \subseteq Areas \cup {"unknown"}
         /\ p.calls \in Nat /\ p.crashes \in Nat /\ p.faults \in Nat
BY FtwAssumption DEF Platform, HeaderWrites, Counts, RecordTargets, Areas

LEMMA BlankGood ==
  ASSUME NEW p \in Platforms
  PROVE  Blank(p.queue) \in GoodQueues(p) /\ LastHeader(Blank(p.queue), p.queue) = 1
BY PlatformIs, BlankInOrder DEF GoodQueues

\* What is read in the place of the work space.
SpaceOf(p, c) ==
  IF c.kind = "space" THEN c ELSE WorkSpace(FALSE, FALSE, FALSE, Blank(p.queue))

LEMMA AsSpaceIs == \A c : AsSpace(c) = SpaceOf(platform, c)
BY DEF AsSpace, SpaceOf, EmptyQueue, Blank, Cells, QueueSize

LEMMA BlockIs ==
  ASSUME NEW p \in Platforms, NEW c \in GoodBlocks(p)
  PROVE  /\ SpaceOf(p, c) \in GoodSpaces(p)
         /\ SpaceOf(p, c).queue \in GoodQueues(p)
         /\ c.kind = "space" => c \in GoodSpaces(p) /\ SpaceOf(p, c) = c
         /\ c.kind # "space" => c \in Contents /\ SpaceOf(p, c).queue = Blank(p.queue)
<1>1. c \in Contents => c.kind # "space"
  BY DEF Contents, Erased, Data
<1>2. c \in GoodSpaces(p) => c.kind = "space"
  BY DEF GoodSpaces
<1>3. Blank(p.queue) \in GoodQueues(p)
  BY BlankGood
<1>4. CASE c \in GoodSpaces(p)
  BY <1>2, <1>4 DEF SpaceOf, GoodSpaces
<1>5. CASE c \notin GoodSpaces(p)
  <2>1. c \in Contents /\ c.kind # "space"
    BY <1>1, <1>5 DEF GoodBlocks
  <2>2. SpaceOf(p, c) = WorkSpace(FALSE, FALSE, FALSE, Blank(p.queue))
    BY <2>1 DEF SpaceOf
  <2> QED
    BY <1>3, <2>1, <2>2 DEF WorkSpace, GoodSpaces
<1> QED
  BY <1>4, <1>5

LEMMA SpaceWritten ==
  ASSUME NEW p, NEW s \in GoodSpaces(p)
  PROVE  /\ [s EXCEPT !.valid = TRUE] \in GoodBlocks(p)
         /\ SpaceOf(p, [s EXCEPT !.valid = TRUE]) = [s EXCEPT !.valid = TRUE]
         /\ [s EXCEPT !.valid = TRUE].queue = s.queue
         /\ [s EXCEPT !.invalid = TRUE] \in GoodBlocks(p)
         /\ SpaceOf(p, [s EXCEPT !.invalid = TRUE]) = [s EXCEPT !.invalid = TRUE]
         /\ [s EXCEPT !.invalid = TRUE].queue = s.queue
         /\ \A q \in GoodQueues(p) :
              /\ [s EXCEPT !.queue = q] \in GoodBlocks(p)
              /\ SpaceOf(p, [s EXCEPT !.queue = q]) = [s EXCEPT !.queue = q]
              /\ [s EXCEPT !.queue = q].queue = q
<1>1. /\ [s EXCEPT !.valid = TRUE] \in GoodSpaces(p)
      /\ [s EXCEPT !.valid = TRUE].queue = s.queue
      /\ [s EXCEPT !.invalid = TRUE] \in GoodSpaces(p)
      /\ [s EXCEPT !.invalid = TRUE].queue = s.queue
  BY DEF GoodSpaces
<1>2. \A q \in GoodQueues(p) :
        [s EXCEPT !.queue = q] \in GoodSpaces(p) /\ [s EXCEPT !.queue = q].queue = q
  BY DEF GoodSpaces
<1>3. \A x \in GoodSpaces(p) : x \in GoodBlocks(p) /\ SpaceOf(p, x) = x
  BY DEF GoodSpaces, GoodBlocks, SpaceOf
<1> QED
  BY <1>1, <1>2, <1>3

LEMMA WorkSpaceGood ==
  ASSUME NEW p, NEW f \in BOOLEAN, NEW v \in BOOLEAN, NEW i \in BOOLEAN, NEW q \in GoodQueues(p)
  PROVE  /\ WorkSpace(f, v, i, q) \in GoodBlocks(p)
         /\ SpaceOf(p, WorkSpace(f, v, i, q)) = WorkSpace(f, v, i, q)
         /\ WorkSpace(f, v, i, q).queue = q
BY DEF WorkSpace, GoodSpaces, GoodBlocks, SpaceOf

\* The flash, and a memory copy of an area.
Images(p)  == [1..2 -> GoodBlocks(p)]
Flashes(p) == [Areas -> Images(p)]

LEMMA BlockSet ==
  ASSUME NEW p, NEW f \in Flashes(p), NEW area \in Areas, NEW block \in 1..2,
         NEW c \in GoodBlocks(p)
  PROVE  LET g == [f EXCEPT ![area][block] = c]
         IN  /\ g \in Flashes(p)
             /\ \A a \in Areas, b \in 1..2 :
                  g[a][b] = IF a = area /\ b = block THEN c ELSE f[a][b]
<1> DEFINE g == [f EXCEPT ![area][block] = c]
<1>1. \A a \in Areas : g[a] = IF a = area THEN [f[area] EXCEPT ![block] = c] ELSE f[a]
  BY DEF Flashes
<1>2. f[area] \in Images(p)
  BY DEF Flashes
<1>3. /\ [f[area] EXCEPT ![block] = c] \in Images(p)
      /\ \A b \in 1..2 : [f[area] EXCEPT ![block] = c][b] = IF b = block THEN c ELSE f[area][b]
  BY <1>2 DEF Images
<1>4. g \in Flashes(p)
  BY <1>3 DEF Flashes
<1> HIDE DEF g
<1>5. \A a \in Areas, b \in 1..2 : g[a][b] = IF a = area /\ b = block THEN c ELSE f[a][b]
  BY <1>1, <1>3
<1> QED
  BY <1>4, <1>5 DEF g

LEMMA ImageIs ==
  ASSUME NEW p, NEW x \in GoodBlocks(p), NEW y \in GoodBlocks(p)
  PROVE  <<x, y>> \in Images(p)
BY DEF Images

LEMMA ContentsGood ==
  ASSUME NEW p
  PROVE  /\ Erased \in GoodBlocks(p) /\ \A v \in Values : Data(v) \in GoodBlocks(p)
         /\ <<Erased, Erased>> \in Images(p)
<1>1. Erased \in GoodBlocks(p) /\ \A v \in Values : Data(v) \in GoodBlocks(p)
  BY DEF GoodBlocks, Contents
<1> QED
  BY <1>1, ImageIs

-----------------------------------------------------------------------------
(***************************************************************************)
(* The sequences of steps.  Some steps need what those before them found   *)
(* or did: Follows says which step, in a call of service op, comes before. *)
(***************************************************************************)
Writers == {"Erase", "Write", "Restore"}
Marks   == {"WorkingBlockValid", "WorkingBlockInvalid", "spareComplete", "destComplete", "complete"}

Plain ==
  {"CleanUp", "CleanAll", "LoadSpare", "LoadSpareAsWork", "ReclaimWhenFull", "FindLastWrite",
   "AbortWrites", "CheckRestart", "LastWrite", "NotFound", "ChooseWorkSpace",
   "AbortFirstRecord", "AbortLastRecord", "CheckRemainder", "RestartLastWrite", "HookServices"}
Asked ==
  {"Success", "NeedHeader", "CheckRecord", "WriteRecord", "LoadTarget", "AllocateHeader",
   "WriteHeader", "WritesAllocated"}
Names == Plain \cup Asked \cup Writers \cup Marks

Steps(op) ==
  {s \in [do : Names, area : Areas \cup {"none"}, block : 0..2] :
     /\ s.do \in Writers => s.area \in Areas /\ s.block \in 1..2
     /\ s.do \in Marks => s.area \in Areas
     /\ s.do = "Restore" => s.area = "spare"
     /\ s.do \in {"NeedHeader", "CheckRecord", "WriteRecord", "LoadTarget"} => op = "write"
     /\ s.do \in {"AllocateHeader", "WriteHeader", "WritesAllocated"} => op \in {"allocate", "write"}}

\* Step s of service op may come directly behind step p.
Follows(op, p, s) ==
  /\ s.do \in {"AllocateHeader", "NeedHeader"} => p.do = "FindLastWrite"
  /\ s.do # "WriteHeader" /\ s.do # "WriteRecord"
  /\ s.do = "WritesAllocated" => p.do = "WriteHeader"
  /\ s.do = "CheckRecord" => p.do \in {"NeedHeader", "AllocateHeader", "WritesAllocated"}
  /\ s.do = "Success" /\ op = "allocate" => p.do \in {"AllocateHeader", "WritesAllocated"}
  /\ s.do = "Erase" /\ s.block = 2 => p.do = "Erase" /\ p.area = s.area /\ p.block = 1
  /\ s.do \in {"Write", "Restore"} /\ s.block = 1 => p.do = "Erase" /\ p.area = s.area /\ p.block = 2
  /\ s.do \in {"Write", "Restore"} /\ s.block = 2 => p.do = s.do /\ p.area = s.area /\ p.block = 1

\* Steps that others have to follow.
Leading == {"FindLastWrite", "NeedHeader", "AllocateHeader", "WriteHeader", "WritesAllocated"} \cup Writers

\* A step that may follow any.
Free(op, s) ==
  /\ s.do \notin {"AllocateHeader", "NeedHeader", "WriteHeader", "WriteRecord",
                  "WritesAllocated", "CheckRecord", "Write", "Restore"}
  /\ ~(s.do = "Success" /\ op = "allocate")
  /\ ~(s.do = "Erase" /\ s.block = 2)

LEMMA FreeFollows ==
  ASSUME NEW op, NEW s \in Steps(op), NEW p
  PROVE  /\ Free(op, s) => Follows(op, p, s)
         /\ Follows(op, p, s) /\ p.do \notin Leading => Free(op, s)
BY DEF Free, Follows, Leading, Writers, Steps

Linked(op, s) ==
  s \in Seq(Steps(op)) /\ \A i \in 1..(Len(s) - 1) : Follows(op, s[i], s[i + 1])

\* In the procedures the last header is looked up behind the check for a full queue.
Refreshes(s) ==
  \A i \in 1..Len(s) : s[i].do = "FindLastWrite" => i > 1 /\ s[i - 1].do = "ReclaimWhenFull"

Procedure(op, s, first, last) ==
  Linked(op, s) /\ Refreshes(s) /\ s # <<>> /\ s[1] = first /\ s[Len(s)] = last

LEMMA ProcedureIs ==
  ASSUME NEW op, NEW s, NEW first, NEW last, Procedure(op, s, first, last)
  PROVE  /\ s \in Seq(Steps(op)) /\ Len(s) \in Nat /\ Len(s) >= 1
         /\ first \in Steps(op) /\ last \in Steps(op)
BY DEF Procedure, Linked

LEMMA OneStep ==
  ASSUME NEW op, NEW s \in Steps(op), s.do # "FindLastWrite"
  PROVE  Procedure(op, <<s>>, s, s)
BY DEF Procedure, Linked, Refreshes

LEMMA TwoSteps ==
  ASSUME NEW op, NEW s \in Steps(op), NEW t \in Steps(op), s.do # "FindLastWrite",
         Follows(op, s, t), t.do = "FindLastWrite" => s.do = "ReclaimWhenFull"
  PROVE  Procedure(op, <<s, t>>, s, t)
<1> DEFINE x == <<s, t>>
<1>1. x \in Seq(Steps(op)) /\ Len(x) = 2 /\ x[1] = s /\ x[2] = t
  OBVIOUS
<1>2. Linked(op, x)
  BY <1>1 DEF Linked
<1>3. Refreshes(x)
  BY <1>1 DEF Refreshes
<1> QED
  BY <1>1, <1>2, <1>3 DEF Procedure

LEMMA Joined ==
  ASSUME NEW op, NEW a, NEW f, NEW g, Procedure(op, a, f, g),
         NEW b, NEW h, NEW l, Procedure(op, b, h, l), Follows(op, g, h)
  PROVE  Procedure(op, a \o b, f, l)
<1> DEFINE s == a \o b
<1>1. /\ a \in Seq(Steps(op)) /\ b \in Seq(Steps(op)) /\ Len(a) \in Nat /\ Len(b) \in Nat
      /\ Len(a) >= 1 /\ Len(b) >= 1
  BY ProcedureIs
<1>2. /\ s \in Seq(Steps(op)) /\ Len(s) = Len(a) + Len(b)
      /\ \A i \in 1..Len(s) : s[i] = IF i <= Len(a) THEN a[i] ELSE b[i - Len(a)]
  BY <1>1
<1> HIDE DEF s
<1>3. s[1] = f /\ s[Len(s)] = l /\ s # <<>>
  BY <1>1, <1>2 DEF Procedure
<1>4. ASSUME NEW i \in 1..(Len(s) - 1) PROVE Follows(op, s[i], s[i + 1])
  <2>1. CASE i < Len(a)
    <3>1. s[i] = a[i] /\ s[i + 1] = a[i + 1] /\ i \in 1..(Len(a) - 1)
      BY <1>1, <1>2, <2>1
    <3> QED
      BY <3>1 DEF Procedure, Linked
  <2>2. CASE i = Len(a)
    <3>1. a[Len(a)] = g /\ b[1] = h
      BY DEF Procedure
    <3>2. s[i] = a[Len(a)]
      BY <1>2, <2>2
    <3>3. s[i + 1] = b[1]
      <4>1. i + 1 \in 1..Len(s) /\ ~(i + 1 <= Len(a)) /\ (i + 1) - Len(a) = 1
        BY <1>1, <1>2, <2>2
      <4> QED
        BY <1>2, <4>1
    <3> QED
      BY <3>1, <3>2, <3>3
  <2>3. CASE i > Len(a)
    <3>1. s[i] = b[i - Len(a)] /\ s[i + 1] = b[(i - Len(a)) + 1] /\ i - Len(a) \in 1..(Len(b) - 1)
      BY <1>1, <1>2, <2>3
    <3> QED
      BY <3>1 DEF Procedure, Linked
  <2> QED
    BY <1>1, <1>2, <2>1, <2>2, <2>3
<1>5. ASSUME NEW i \in 1..Len(s), s[i].do = "FindLastWrite"
      PROVE  i > 1 /\ s[i - 1].do = "ReclaimWhenFull"
  <2>1. CASE i <= Len(a)
    <3>1. s[i] = a[i] /\ i \in 1..Len(a) /\ (i > 1 => s[i - 1] = a[i - 1])
      BY <1>1, <1>2, <2>1
    <3> QED
      BY <1>5, <3>1 DEF Procedure, Refreshes
  <2>2. CASE i > Len(a)
    <3>1. /\ s[i] = b[i - Len(a)] /\ i - Len(a) \in 1..Len(b)
      BY <1>1, <1>2, <2>2
    <3>2. i - Len(a) > 1 /\ b[(i - Len(a)) - 1].do = "ReclaimWhenFull"
      BY <1>5, <3>1 DEF Procedure, Refreshes
    <3>3. s[i - 1] = b[(i - Len(a)) - 1]
      BY <1>1, <1>2, <3>1, <3>2
    <3> QED
      BY <1>1, <3>1, <3>2, <3>3
  <2> QED
    BY <1>1, <1>2, <2>1, <2>2
<1> QED
  BY <1>2, <1>3, <1>4, <1>5 DEF Procedure, Linked, Refreshes, s

LEMMA PlainStep ==
  ASSUME NEW op, NEW name \in Plain
  PROVE  Step(name) \in Steps(op) /\ Step(name).do = name /\ Free(op, Step(name))
<1>1. /\ name \in Names /\ name \notin Writers /\ name \notin Marks
      /\ name \notin Asked
  BY DEF Plain, Writers, Marks, Names, Asked
<1>2. Step(name) \in [do : Names, area : Areas \cup {"none"}, block : 0..2] /\ Step(name).do = name
  BY <1>1 DEF Step
<1>3. Step(name) \in Steps(op)
  BY <1>1, <1>2 DEF Steps, Writers, Asked
<1>4. Free(op, Step(name))
  BY <1>1, <1>2 DEF Free, Writers, Asked
<1> QED
  BY <1>2, <1>3, <1>4

LEMMA MarkStep ==
  ASSUME NEW op, NEW bit \in Marks, NEW area \in Areas
  PROVE  /\ Mark(bit, area) \in Steps(op) /\ Free(op, Mark(bit, area))
         /\ Mark(bit, area).do = bit /\ Mark(bit, area).area = area
<1>1. /\ bit \in Names /\ bit \notin Writers
      /\ bit \notin Asked
  BY DEF Writers, Marks, Names, Asked
<1>2. /\ Mark(bit, area) \in [do : Names, area : Areas \cup {"none"}, block : 0..2]
      /\ Mark(bit, area).do = bit /\ Mark(bit, area).area = area
  BY <1>1 DEF Mark
<1>3. Mark(bit, area) \in Steps(op)
  BY <1>1, <1>2 DEF Steps, Writers, Asked
<1>4. Free(op, Mark(bit, area))
  BY <1>1, <1>2 DEF Free, Writers, Asked
<1> QED
  BY <1>2, <1>3, <1>4

LEMMA ServiceStep ==
  ASSUME NEW op
  PROVE  /\ \A name \in Asked : Step(name).do = name
         /\ Step("Success") \in Steps(op)
         /\ op # "allocate" => Free(op, Step("Success"))
         /\ op = "write" => /\ Step("NeedHeader") \in Steps(op) /\ Step("CheckRecord") \in Steps(op)
                            /\ Step("WriteRecord") \in Steps(op) /\ Step("LoadTarget") \in Steps(op)
                            /\ Free(op, Step("LoadTarget"))
         /\ op \in {"allocate", "write"} =>
              /\ Step("AllocateHeader") \in Steps(op)
              /\ Step("WriteHeader") \in Steps(op) /\ Step("WritesAllocated") \in Steps(op)
<1>1. \A name \in Asked : name \in Names /\ name \notin Writers /\ name \notin Marks
  BY DEF Writers, Marks, Names, Asked
<1>2. \A name \in Asked : /\ Step(name) \in [do : Names, area : Areas \cup {"none"}, block : 0..2]
                          /\ Step(name).do = name
  BY <1>1 DEF Step
<1>3. \A name \in Asked :
        /\ name \in {"NeedHeader", "CheckRecord", "WriteRecord", "LoadTarget"} => op = "write"
        /\ name \in {"AllocateHeader", "WriteHeader", "WritesAllocated"} => op \in {"allocate", "write"}
        => Step(name) \in Steps(op)
  BY <1>1, <1>2 DEF Steps, Writers, Asked
<1>4. Step("Success") \in Steps(op)
  BY <1>3 DEF Asked
<1>5. op # "allocate" => Free(op, Step("Success"))
  BY <1>2 DEF Free, Asked
<1>6. Free(op, Step("LoadTarget"))
  BY <1>2 DEF Free, Asked
<1> HIDE DEF Step
<1> QED
  BY <1>2, <1>3, <1>4, <1>5, <1>6 DEF Asked

Erasing(area, block) == [do |-> "Erase", area |-> area, block |-> block]
Writing(area, block) == [do |-> "Write", area |-> area, block |-> block]
Restoring(block) == [do |-> "Restore", area |-> "spare", block |-> block]

LEMMA WriterStep ==
  ASSUME NEW op, NEW area \in Areas
  PROVE  /\ \A b \in 1..2 : /\ Erasing(area, b) \in Steps(op) /\ Erasing(area, b).do = "Erase"
                            /\ Writing(area, b) \in Steps(op) /\ Writing(area, b).do = "Write"
                            /\ Restoring(b) \in Steps(op) /\ Restoring(b).do = "Restore"
         /\ Free(op, Erasing(area, 1)) /\ Follows(op, Erasing(area, 1), Erasing(area, 2))
         /\ Follows(op, Erasing(area, 2), Writing(area, 1))
         /\ Follows(op, Writing(area, 1), Writing(area, 2))
         /\ Follows(op, Erasing("spare", 2), Restoring(1)) /\ Follows(op, Restoring(1), Restoring(2))
<1>1. "spare" \in Areas
  BY DEF Areas
<1>2. ASSUME NEW b \in 1..2
      PROVE  /\ Erasing(area, b) \in Steps(op) /\ Erasing(area, b).do = "Erase"
             /\ Writing(area, b) \in Steps(op) /\ Writing(area, b).do = "Write"
             /\ Restoring(b) \in Steps(op) /\ Restoring(b).do = "Restore"
  <2>1. Erasing(area, b) \in Steps(op) /\ Erasing(area, b).do = "Erase"
    BY DEF Erasing, Steps, Writers, Marks, Names
  <2>2. Writing(area, b) \in Steps(op) /\ Writing(area, b).do = "Write"
    BY DEF Writing, Steps, Writers, Marks, Names
  <2>3. Restoring(b) \in Steps(op) /\ Restoring(b).do = "Restore"
    BY <1>1 DEF Restoring, Steps, Writers, Marks, Names
  <2> QED
    BY <2>1, <2>2, <2>3
<1>3. Free(op, Erasing(area, 1))
  BY DEF Erasing, Free
<1>4. Follows(op, Erasing(area, 1), Erasing(area, 2))
  BY DEF Erasing, Follows
<1>5. Follows(op, Erasing(area, 2), Writing(area, 1)) /\ Follows(op, Writing(area, 1), Writing(area, 2))
  BY DEF Erasing, Writing, Follows
<1>6. Follows(op, Erasing("spare", 2), Restoring(1)) /\ Follows(op, Restoring(1), Restoring(2))
  BY DEF Erasing, Restoring, Follows
<1> QED
  BY <1>2, <1>3, <1>4, <1>5, <1>6 DEF Asked

\* A step that is free goes behind any procedure.
LEMMA FreeJoined ==
  ASSUME NEW op, NEW a, NEW f, NEW g, Procedure(op, a, f, g),
         NEW b, NEW h, NEW l, Procedure(op, b, h, l), Free(op, h)
  PROVE  Procedure(op, a \o b, f, l)
<1>1. Follows(op, g, h)
  BY ProcedureIs, FreeFollows
<1> QED
  BY <1>1, Joined

LEMMA StepBehind ==
  ASSUME NEW op, NEW a, NEW f, NEW g, Procedure(op, a, f, g),
         NEW s \in Steps(op), Free(op, s), s.do # "FindLastWrite"
  PROVE  Procedure(op, a \o <<s>>, f, s)
BY OneStep, FreeJoined

LEMMA BlockSteps ==
  ASSUME NEW op, NEW area \in Areas
  PROVE  /\ Procedure(op, Blocks("Erase", area), Erasing(area, 1), Erasing(area, 2))
         /\ Procedure(op, Blocks("Write", area), Writing(area, 1), Writing(area, 2))
         /\ Procedure(op, Blocks("Restore", "spare"), Restoring(1), Restoring(2))
<1>1. /\ Blocks("Erase", area) = <<Erasing(area, 1), Erasing(area, 2)>>
      /\ Blocks("Write", area) = <<Writing(area, 1), Writing(area, 2)>>
      /\ Blocks("Restore", "spare") = <<Restoring(1), Restoring(2)>>
  BY DEF Blocks, Erasing, Writing, Restoring
<1>2. 1 \in 1..2 /\ 2 \in 1..2
  OBVIOUS
<1> QED
  BY <1>1, <1>2, WriterStep, TwoSteps

\* An area is erased and written.
LEMMA Rewriting ==
  ASSUME NEW op, NEW a, NEW f, NEW g, Procedure(op, a, f, g), NEW area \in Areas
  PROVE  Procedure(op, a \o Blocks("Erase", area) \o Blocks("Write", area), f, Writing(area, 2))
<1>1. Procedure(op, a \o Blocks("Erase", area), f, Erasing(area, 2))
  BY BlockSteps, WriterStep, FreeJoined
<1> QED
  BY <1>1, BlockSteps, WriterStep, Joined

LEMMA RestoreProcedure ==
  ASSUME NEW op
  PROVE  Procedure(op, RestoreSpare, Erasing("spare", 1), Restoring(2))
<1>1. "spare" \in Areas
  BY DEF Areas
<1> QED
  BY <1>1, BlockSteps, WriterStep, Joined DEF RestoreSpare

LEMMA FlushProcedure ==
  ASSUME NEW op
  PROVE  Procedure(op, FlushSpareBlockToWorkingBlock, Mark("WorkingBlockValid", "spare"),
                   Mark("WorkingBlockValid", "work"))
<1> DEFINE m1 == Mark("WorkingBlockValid", "spare")
           m2 == Step("LoadSpareAsWork")
           m3 == Mark("WorkingBlockInvalid", "work")
           m4 == Mark("WorkingBlockValid", "work")
<1>1. "spare" \in Areas /\ "work" \in Areas
  BY DEF Areas
<1>2. /\ m1 \in Steps(op) /\ m1.do # "FindLastWrite"
      /\ m3 \in Steps(op) /\ m3.do # "FindLastWrite" /\ Free(op, m3)
      /\ m4 \in Steps(op) /\ m4.do # "FindLastWrite" /\ Free(op, m4)
  BY <1>1, MarkStep DEF Marks
<1>3. m2 \in Steps(op) /\ m2.do # "FindLastWrite" /\ Free(op, m2)
  BY PlainStep DEF Plain
<1> HIDE DEF m1, m2, m3, m4
<1>4. Procedure(op, <<m1, m2, m3>>, m1, m3)
  <2> DEFINE x == <<m1, m2, m3>>
  <2>1. x \in Seq(Steps(op)) /\ Len(x) = 3 /\ x[1] = m1 /\ x[2] = m2 /\ x[3] = m3
    BY <1>2, <1>3
  <2>2. Follows(op, m1, m2) /\ Follows(op, m2, m3)
    BY <1>2, <1>3, FreeFollows
  <2> HIDE DEF x
  <2>3. Linked(op, x)
    BY <2>1, <2>2 DEF Linked
  <2>4. Refreshes(x)
    BY <1>2, <1>3, <2>1 DEF Refreshes
  <2>5. x # <<>>
    BY <2>1
  <2>6. Procedure(op, x, m1, m3)
    BY <2>1, <2>3, <2>4, <2>5 DEF Procedure
  <2> QED
    BY <2>6 DEF x
<1>5. Procedure(op, <<m1, m2, m3>> \o Blocks("Erase", "work") \o Blocks("Write", "work"), m1,
                Writing("work", 2))
  BY <1>1, <1>4, Rewriting
<1>6. Procedure(op, (<<m1, m2, m3>> \o Blocks("Erase", "work") \o Blocks("Write", "work")) \o <<m4>>,
                m1, m4)
  BY <1>2, <1>5, StepBehind
<1> QED
  BY <1>6 DEF m1, m2, m3, m4, FlushSpareBlockToWorkingBlock

LEMMA ReclaimProcedure ==
  ASSUME NEW op, NEW clean \in {"CleanUp", "CleanAll"}
  PROVE  Procedure(op, FtwReclaimWorkSpace(clean), Step(clean), Restoring(2))
<1> DEFINE m1 == Mark("WorkingBlockValid", "spare")
           m2 == Mark("WorkingBlockInvalid", "work")
           a  == <<Step(clean)>> \o Blocks("Erase", "spare") \o Blocks("Write", "spare")
<1>1. "spare" \in Areas /\ "work" \in Areas
  BY DEF Areas
<1>2. Procedure(op, <<Step(clean)>>, Step(clean), Step(clean))
  BY PlainStep, OneStep DEF Plain
<1>3. Procedure(op, a, Step(clean), Writing("spare", 2))
  BY <1>1, <1>2, Rewriting
<1>4. /\ m1 \in Steps(op) /\ m1.do # "FindLastWrite" /\ Free(op, m1)
      /\ m2 \in Steps(op) /\ m2.do # "FindLastWrite" /\ Free(op, m2)
  BY <1>1, MarkStep DEF Marks
<1> HIDE DEF a, m1, m2
<1>5. Procedure(op, <<m1, m2>>, m1, m2)
  BY <1>4, FreeFollows, TwoSteps
<1>6. Procedure(op, a \o <<m1, m2>>, Step(clean), m2)
  BY <1>3, <1>4, <1>5, FreeJoined
<1>7. Procedure(op, (a \o <<m1, m2>>) \o FlushSpareBlockToWorkingBlock, Step(clean),
                Mark("WorkingBlockValid", "work"))
  <2>1. Free(op, Mark("WorkingBlockValid", "spare"))
    BY <1>1, MarkStep DEF Marks
  <2> QED
    BY <1>6, <2>1, FlushProcedure, FreeJoined
<1>8. Procedure(op, ((a \o <<m1, m2>>) \o FlushSpareBlockToWorkingBlock) \o RestoreSpare,
                Step(clean), Restoring(2))
  BY <1>1, <1>7, WriterStep, RestoreProcedure, FreeJoined
<1> QED
  BY <1>8 DEF a, m1, m2, FtwReclaimWorkSpace

LEMMA RefreshProcedure ==
  ASSUME NEW op
  PROVE  Procedure(op, WorkSpaceRefresh, Step("ReclaimWhenFull"), Step("FindLastWrite"))
<1>1. Procedure(op, <<Step("ReclaimWhenFull"), Step("FindLastWrite")>>, Step("ReclaimWhenFull"), Step("FindLastWrite"))
  BY PlainStep, FreeFollows, TwoSteps DEF Plain
<1> QED
  BY <1>1 DEF WorkSpaceRefresh

LEMMA AllocateProcedure ==
  ASSUME NEW op, op \in {"allocate", "write"}
  PROVE  Procedure(op, FtwAllocate, Step("ReclaimWhenFull"), Step("AllocateHeader"))
<1> DEFINE s == Step("AllocateHeader")
<1>1. s \in Steps(op) /\ s.do = "AllocateHeader"
  BY ServiceStep DEF Asked
<1>2. Follows(op, Step("FindLastWrite"), s)
  BY <1>1 DEF Follows, Step
<1>3. Procedure(op, <<s>>, s, s)
  BY <1>1, OneStep
<1> QED
  BY <1>2, <1>3, RefreshProcedure, Joined DEF FtwAllocate

LEMMA WriteProcedure ==
  Procedure("write", FtwWrite, Step("ReclaimWhenFull"), Step("CheckRecord"))
<1> DEFINE s == Step("NeedHeader")
           t == Step("CheckRecord")
<1>1. s \in Steps("write") /\ s.do = "NeedHeader" /\ t \in Steps("write") /\ t.do = "CheckRecord"
  BY ServiceStep DEF Asked
<1>2. Follows("write", Step("FindLastWrite"), s) /\ Follows("write", s, t)
  BY <1>1 DEF Follows, Step
<1>3. Procedure("write", <<s, t>>, s, t)
  BY <1>1, <1>2, TwoSteps
<1> QED
  BY <1>2, <1>3, RefreshProcedure, Joined DEF FtwWrite

\* A procedure of steps that need nothing, behind a refresh.
LEMMA RefreshThen ==
  ASSUME NEW op, NEW name \in Plain, name # "FindLastWrite"
  PROVE  Procedure(op, WorkSpaceRefresh \o <<Step(name)>>, Step("ReclaimWhenFull"), Step(name))
BY PlainStep, RefreshProcedure, StepBehind

LEMMA AbortProcedure ==
  ASSUME NEW op
  PROVE  /\ Procedure(op, FtwAbort, Step("ReclaimWhenFull"), Step("AbortWrites"))
         /\ Procedure(op, FtwRestart, Step("ReclaimWhenFull"), Step("CheckRestart"))
         /\ Procedure(op, FtwGetLastWrite, Step("ReclaimWhenFull"), Step("LastWrite"))
<1>1. "AbortWrites" \in Plain /\ "CheckRestart" \in Plain /\ "LastWrite" \in Plain
  BY DEF Plain
<1> QED
  BY <1>1, RefreshThen DEF FtwAbort, FtwRestart, FtwGetLastWrite

LEMMA InitProcedure ==
  ASSUME NEW op
  PROVE  Procedure(op, InitFtwProtocol, Step("ReclaimWhenFull"), Step("HookServices"))
<1> DEFINE s1 == Step("ChooseWorkSpace")
           s2 == Step("AbortFirstRecord")
           s3 == Step("AbortLastRecord")
           s4 == Step("CheckRemainder")
           s5 == Step("RestartLastWrite")
           s6 == Step("HookServices")
           x  == <<s1, s2, s3, s4, s5, s6>>
<1>1. \A s \in {s1, s2, s3, s4, s5, s6} :
        s \in Steps(op) /\ s.do # "FindLastWrite" /\ Free(op, s)
  BY PlainStep DEF Plain
<1> HIDE DEF s1, s2, s3, s4, s5, s6
<1>2. /\ x \in Seq(Steps(op)) /\ Len(x) = 6 /\ x[1] = s1 /\ x[6] = s6 /\ x # <<>>
      /\ \A i \in 1..6 : x[i] \in {s1, s2, s3, s4, s5, s6}
  <2>1. s1 \in Steps(op) /\ s2 \in Steps(op) /\ s3 \in Steps(op) /\ s4 \in Steps(op)
        /\ s5 \in Steps(op) /\ s6 \in Steps(op)
    BY <1>1
  <2> QED
    BY <2>1
<1> HIDE DEF x
<1>3. \A i \in 1..6 : x[i].do # "FindLastWrite" /\ Free(op, x[i]) /\ x[i] \in Steps(op)
  BY <1>1, <1>2
<1>4. Linked(op, x)
  <2>1. \A i \in 1..5 : Follows(op, x[i], x[i + 1])
    BY <1>3, FreeFollows
  <2> QED
    BY <1>2, <2>1 DEF Linked
<1>5. Refreshes(x)
  BY <1>2, <1>3 DEF Refreshes
<1>6. Procedure(op, x, s1, s6)
  BY <1>2, <1>4, <1>5 DEF Procedure
<1>7. Free(op, s1)
  BY <1>1
<1>8. Procedure(op, WorkSpaceRefresh \o x, Step("ReclaimWhenFull"), s6)
  BY <1>6, <1>7, RefreshProcedure, FreeJoined
<1> QED
  BY <1>8 DEF InitFtwProtocol, x, s1, s2, s3, s4, s5, s6

\* What is done of a record once its target's new contents are in the spare block.
LEMMA WriteRecordProcedure ==
  ASSUME NEW op, NEW t \in Areas
  PROVE  \E first, last : /\ Procedure(op, FtwWriteRecord(t), first, last)
                          /\ Free(op, first) /\ first.do # "FindLastWrite"
<1> DEFINE m1 == Mark("spareComplete", "spare")
           m2 == Mark("destComplete", "work")
           m3 == Mark("complete", "work")
           a  == IF t = "work" THEN <<m1>> \o FlushSpareBlockToWorkingBlock
                 ELSE FlushSpareBlockToTargetBlock(t)
           b  == IF IsLastRecordOfWrites(Queue("work"), header, record) THEN <<m3>> ELSE <<>>
<1>1. "spare" \in Areas /\ "work" \in Areas
  BY DEF Areas
<1>2. /\ m1 \in Steps(op) /\ m1.do # "FindLastWrite" /\ Free(op, m1)
      /\ m2 \in Steps(op) /\ m2.do # "FindLastWrite" /\ Free(op, m2)
      /\ m3 \in Steps(op) /\ m3.do # "FindLastWrite" /\ Free(op, m3)
  BY <1>1, MarkStep DEF Marks
<1> HIDE DEF m1, m2, m3
<1>3. \E first, last : Procedure(op, a, first, last) /\ Free(op, first) /\ first.do # "FindLastWrite"
  <2>1. CASE t = "work"
    <3>1. Free(op, Mark("WorkingBlockValid", "spare"))
      BY <1>1, MarkStep DEF Marks
    <3>2. Procedure(op, <<m1>>, m1, m1)
      BY <1>2, OneStep
    <3>3. Procedure(op, <<m1>> \o FlushSpareBlockToWorkingBlock, m1, Mark("WorkingBlockValid", "work"))
      BY <3>1, <3>2, FlushProcedure, FreeJoined
    <3> QED
      BY <1>2, <2>1, <3>3
  <2>2. CASE t # "work"
    <3> DEFINE s == Step("LoadSpare")
    <3>1. s \in Steps(op) /\ s.do # "FindLastWrite" /\ Free(op, s)
      BY PlainStep DEF Plain
    <3> HIDE DEF s
    <3>2. Procedure(op, <<s>>, s, s)
      BY <3>1, OneStep
    <3>3. Procedure(op, <<s>> \o Blocks("Erase", t) \o Blocks("Write", t), s, Writing(t, 2))
      BY <3>2, Rewriting
    <3>4. a = <<s>> \o Blocks("Erase", t) \o Blocks("Write", t)
      BY <2>2 DEF s, FlushSpareBlockToTargetBlock
    <3> HIDE DEF a
    <3> QED
      BY <3>1, <3>3, <3>4
  <2> QED
    BY <2>1, <2>2
<1> HIDE DEF a
<1>4. PICK first, last : /\ Procedure(op, a, first, last)
                         /\ Free(op, first) /\ first.do # "FindLastWrite"
  BY <1>3
<1>5. Procedure(op, a \o <<m2>>, first, m2)
  BY <1>2, <1>4, StepBehind
<1>6. CASE IsLastRecordOfWrites(Queue("work"), header, record)
  <2>1. Procedure(op, (a \o <<m2>>) \o <<m3>>, first, m3)
    BY <1>2, <1>5, StepBehind
  <2>2. Procedure(op, FtwWriteRecord(t), first, m3)
    BY <1>6, <2>1 DEF FtwWriteRecord, a, m1, m2, m3
  <2> QED
    BY <1>4, <2>2
<1>7. CASE ~IsLastRecordOfWrites(Queue("work"), header, record)
  <2>1. FtwWriteRecord(t) = (a \o <<m2>>) \o <<>>
    BY <1>7 DEF FtwWriteRecord, a, m1, m2, m3
  <2>2. a \o <<m2>> \in Seq(Steps(op))
    BY <1>5, ProcedureIs
  <2>3. FtwWriteRecord(t) = a \o <<m2>>
    BY <2>1, <2>2
  <2> QED
    BY <1>4, <1>5, <2>3
<1> QED
  BY <1>6, <1>7

LEMMA SpareProcedure ==
  ASSUME NEW t \in Areas
  PROVE  Procedure("write", WriteThroughSpare(t), Step("WriteRecord"), Step("Success"))
<1> DEFINE op == "write"
           s1 == Step("WriteRecord")
           s2 == Step("LoadTarget")
           s3 == Step("Success")
           m1 == Mark("spareComplete", "work")
           a  == <<s1, s2>> \o Blocks("Erase", "spare") \o Blocks("Write", "spare")
<1>1. "spare" \in Areas /\ "work" \in Areas
  BY DEF Areas
<1>2. /\ s1 \in Steps(op) /\ s1.do # "FindLastWrite"
      /\ s2 \in Steps(op) /\ s2.do # "FindLastWrite" /\ Free(op, s2)
      /\ s3 \in Steps(op) /\ s3.do # "FindLastWrite" /\ Free(op, s3)
  BY ServiceStep DEF Asked
<1>3. m1 \in Steps(op) /\ m1.do # "FindLastWrite" /\ Free(op, m1)
  BY <1>1, MarkStep DEF Marks
<1> HIDE DEF op, s1, s2, s3, m1
<1>4. Procedure(op, <<s1, s2>>, s1, s2)
  BY <1>2, FreeFollows, TwoSteps
<1>5. Procedure(op, a, s1, Writing("spare", 2))
  BY <1>1, <1>4, Rewriting
<1> HIDE DEF a
<1>6. Procedure(op, a \o <<m1>>, s1, m1)
  BY <1>3, <1>5, StepBehind
<1>7. PICK first, last : Procedure(op, FtwWriteRecord(t), first, last) /\ Free(op, first)
  BY WriteRecordProcedure
<1>8. Procedure(op, (a \o <<m1>>) \o FtwWriteRecord(t), s1, last)
  BY <1>6, <1>7, FreeJoined
<1>9. Procedure(op, ((a \o <<m1>>) \o FtwWriteRecord(t)) \o RestoreSpare, s1, Restoring(2))
  BY <1>1, <1>8, WriterStep, RestoreProcedure, FreeJoined
<1>10. Procedure(op, (((a \o <<m1>>) \o FtwWriteRecord(t)) \o RestoreSpare) \o <<s3>>, s1, s3)
  BY <1>2, <1>9, StepBehind
<1> QED
  BY <1>10 DEF WriteThroughSpare, a, op, s1, s2, s3, m1

\* e is a and then b.
Cat(S, a, b, e) ==
  /\ e \in Seq(S) /\ Len(e) = Len(a) + Len(b)
  /\ \A i \in 1..Len(a) : e[i] = a[i]
  /\ \A i \in 1..Len(b) : e[Len(a) + i] = b[i]

LEMMA CatIs ==
  ASSUME NEW S, NEW a \in Seq(S), NEW b \in Seq(S)
  PROVE  Cat(S, a, b, a \o b)
<1>1. /\ a \o b \in Seq(S) /\ Len(a \o b) = Len(a) + Len(b) /\ Len(a) \in Nat /\ Len(b) \in Nat
      /\ \A i \in 1..(Len(a) + Len(b)) : (a \o b)[i] = IF i <= Len(a) THEN a[i] ELSE b[i - Len(a)]
  OBVIOUS
<1>2. ASSUME NEW i \in 1..Len(b) PROVE (a \o b)[Len(a) + i] = b[i]
  <2>1. Len(a) + i \in 1..(Len(a) + Len(b)) /\ ~(Len(a) + i <= Len(a)) /\ (Len(a) + i) - Len(a) = i
    BY <1>1
  <2> QED
    BY <1>1, <2>1
<1> QED
  BY <1>1, <1>2 DEF Cat

-----------------------------------------------------------------------------
(***************************************************************************)
(* A reclaim in front of the look-up of the last header leaves room for a  *)
(* header and a record.  K is the set of those steps of the reclaim before *)
(* which there is that room in the copy of the work space that counts.     *)
(***************************************************************************)
ReclaimSteps ==
  <<Step("CleanUp"), Erasing("spare", 1), Erasing("spare", 2), Writing("spare", 1),
    Writing("spare", 2), Mark("WorkingBlockValid", "spare"), Mark("WorkingBlockInvalid", "work"),
    Mark("WorkingBlockValid", "spare"), Step("LoadSpareAsWork"), Mark("WorkingBlockInvalid", "work"),
    Erasing("work", 1), Erasing("work", 2), Writing("work", 1), Writing("work", 2),
    Mark("WorkingBlockValid", "work"), Erasing("spare", 1), Erasing("spare", 2),
    Restoring(1), Restoring(2)>>

LEMMA ReclaimIs ==
  /\ Len(FtwReclaimWorkSpace("CleanUp")) = 19
  /\ \A k \in 1..19 : FtwReclaimWorkSpace("CleanUp")[k] = ReclaimSteps[k]
<1> DEFINE m1 == Mark("WorkingBlockValid", "spare")
           m2 == Mark("WorkingBlockInvalid", "work")
           m3 == Step("LoadSpareAsWork")
           m4 == Mark("WorkingBlockValid", "work")
           c  == Step("CleanUp")
           es == Blocks("Erase", "spare")
           ws == Blocks("Write", "spare")
           rs == Blocks("Restore", "spare")
           ew == Blocks("Erase", "work")
           ww == Blocks("Write", "work")
           x1 == <<c>>
           x2 == <<m1, m2>>
           x3 == <<m1, m3, m2>>
           x4 == <<m4>>
           S  == Steps("none")
           y1 == x1 \o es
           y2 == y1 \o ws
           y3 == y2 \o x2
           z1 == x3 \o ew
           z2 == z1 \o ww
           z3 == z2 \o x4
           b  == es \o rs
           d  == y3 \o z3
           e  == d \o b
           f  == ReclaimSteps
<1>1. /\ c \in S /\ m1 \in S /\ m2 \in S /\ m3 \in S /\ m4 \in S
      /\ \A k \in 1..2 : Erasing("spare", k) \in S /\ Writing("spare", k) \in S /\ Restoring(k) \in S
                         /\ Erasing("work", k) \in S /\ Writing("work", k) \in S
  <2>1. "spare" \in Areas /\ "work" \in Areas
    BY DEF Areas
  <2>2. c \in S /\ m3 \in S
    BY PlainStep DEF Plain
  <2>3. m1 \in S /\ m2 \in S /\ m4 \in S
    BY <2>1, MarkStep DEF Marks
  <2> QED
    BY <2>1, <2>2, <2>3, WriterStep
<1>2. /\ es = <<Erasing("spare", 1), Erasing("spare", 2)>> /\ ws = <<Writing("spare", 1), Writing("spare", 2)>>
      /\ rs = <<Restoring(1), Restoring(2)>>
      /\ ew = <<Erasing("work", 1), Erasing("work", 2)>> /\ ww = <<Writing("work", 1), Writing("work", 2)>>
  BY DEF Blocks, Erasing, Writing, Restoring
<1>3. FtwReclaimWorkSpace("CleanUp") = e
  BY DEF FtwReclaimWorkSpace, FlushSpareBlockToWorkingBlock, RestoreSpare
<1>4. /\ f[1] = c /\ f[2] = Erasing("spare", 1) /\ f[3] = Erasing("spare", 2)
      /\ f[4] = Writing("spare", 1) /\ f[5] = Writing("spare", 2) /\ f[6] = m1 /\ f[7] = m2
      /\ f[8] = m1 /\ f[9] = m3 /\ f[10] = m2 /\ f[11] = Erasing("work", 1) /\ f[12] = Erasing("work", 2)
      /\ f[13] = Writing("work", 1) /\ f[14] = Writing("work", 2) /\ f[15] = m4
      /\ f[16] = Erasing("spare", 1) /\ f[17] = Erasing("spare", 2) /\ f[18] = Restoring(1) /\ f[19] = Restoring(2)
  BY DEF ReclaimSteps
<1> HIDE DEF m1, m2, m3, m4, c, es, ws, rs, ew, ww, S, f
<1>5. /\ es \in Seq(S) /\ ws \in Seq(S) /\ rs \in Seq(S) /\ ew \in Seq(S) /\ ww \in Seq(S)
      /\ x1 \in Seq(S) /\ x2 \in Seq(S) /\ x3 \in Seq(S) /\ x4 \in Seq(S)
  BY <1>1, <1>2
<1>6. /\ Len(es) = 2 /\ es[1] = Erasing("spare", 1) /\ es[2] = Erasing("spare", 2)
  BY <1>2
<1>7. /\ Len(ws) = 2 /\ ws[1] = Writing("spare", 1) /\ ws[2] = Writing("spare", 2)
  BY <1>2
<1>8. /\ Len(rs) = 2 /\ rs[1] = Restoring(1) /\ rs[2] = Restoring(2)
  BY <1>2
<1>9. /\ Len(ew) = 2 /\ ew[1] = Erasing("work", 1) /\ ew[2] = Erasing("work", 2)
  BY <1>2
<1>10. /\ Len(ww) = 2 /\ ww[1] = Writing("work", 1) /\ ww[2] = Writing("work", 2)
  BY <1>2
<1>11. /\ Len(x1) = 1 /\ x1[1] = c
  BY <1>2
<1>12. /\ Len(x2) = 2 /\ x2[1] = m1 /\ x2[2] = m2
  BY <1>2
<1>13. /\ Len(x3) = 3 /\ x3[1] = m1 /\ x3[2] = m3 /\ x3[3] = m2
  BY <1>2
<1>14. /\ Len(x4) = 1 /\ x4[1] = m4
  BY <1>2
<1> HIDE DEF x1, x2, x3, x4
<1>15. Cat(S, x1, es, y1)
  BY <1>5, <1>5, CatIs
<1> HIDE DEF y1
<1>16. y1 \in Seq(S)
  BY <1>15 DEF Cat
<1>17. /\ Len(y1) = 3 /\ y1[1] = c /\ y1[2] = Erasing("spare", 1)
       /\ y1[3] = Erasing("spare", 2)
  <2>1. Len(y1) = 1 + 2 /\ (\A i \in 1..1 : y1[i] = x1[i]) /\ (\A i \in 1..2 : y1[1 + i] = es[i])
    BY <1>15, <1>11, <1>6 DEF Cat
  <2>2. /\ y1[1] = c
    BY <1>11, <2>1
  <2>3. /\ y1[1 + 1] = Erasing("spare", 1) /\ y1[1 + 2] = Erasing("spare", 2)
    BY <1>6, <2>1
  <2> QED
    BY <2>1, <2>2, <2>3
<1>18. Cat(S, y1, ws, y2)
  BY <1>16, <1>5, CatIs
<1> HIDE DEF y2
<1>19. y2 \in Seq(S)
  BY <1>18 DEF Cat
<1>20. /\ Len(y2) = 5 /\ y2[1] = c /\ y2[2] = Erasing("spare", 1)
       /\ y2[3] = Erasing("spare", 2) /\ y2[4] = Writing("spare", 1)
       /\ y2[5] = Writing("spare", 2)
  <2>1. Len(y2) = 3 + 2 /\ (\A i \in 1..3 : y2[i] = y1[i]) /\ (\A i \in 1..2 : y2[3 + i] = ws[i])
    BY <1>18, <1>17, <1>7 DEF Cat
  <2>2. /\ y2[1] = c /\ y2[2] = Erasing("spare", 1) /\ y2[3] = Erasing("spare", 2)
    BY <1>17, <2>1
  <2>3. /\ y2[3 + 1] = Writing("spare", 1) /\ y2[3 + 2] = Writing("spare", 2)
    BY <1>7, <2>1
  <2> QED
    BY <2>1, <2>2, <2>3
<1>21. Cat(S, y2, x2, y3)
  BY <1>19, <1>5, CatIs
<1> HIDE DEF y3
<1>22. y3 \in Seq(S)
  BY <1>21 DEF Cat
<1>23. /\ Len(y3) = 7 /\ y3[1] = c /\ y3[2] = Erasing("spare", 1)
       /\ y3[3] = Erasing("spare", 2) /\ y3[4] = Writing("spare", 1)
       /\ y3[5] = Writing("spare", 2) /\ y3[6] = m1 /\ y3[7] = m2
  <2>1. Len(y3) = 5 + 2 /\ (\A i \in 1..5 : y3[i] = y2[i]) /\ (\A i \in 1..2 : y3[5 + i] = x2[i])
    BY <1>21, <1>20, <1>12 DEF Cat
  <2>2. /\ y3[1] = c /\ y3[2] = Erasing("spare", 1) /\ y3[3] = Erasing("spare", 2)
        /\ y3[4] = Writing("spare", 1) /\ y3[5] = Writing("spare", 2)
    BY <1>20, <2>1
  <2>3. /\ y3[5 + 1] = m1 /\ y3[5 + 2] = m2
    BY <1>12, <2>1
  <2> QED
    BY <2>1, <2>2, <2>3
<1>24. Cat(S, x3, ew, z1)
  BY <1>5, <1>5, CatIs
<1> HIDE DEF z1
<1>25. z1 \in Seq(S)
  BY <1>24 DEF Cat
<1>26. /\ Len(z1) = 5 /\ z1[1] = m1 /\ z1[2] = m3 /\ z1[3] = m2 /\ z1[4] = Erasing("work", 1)
       /\ z1[5] = Erasing("work", 2)
  <2>1. Len(z1) = 3 + 2 /\ (\A i \in 1..3 : z1[i] = x3[i]) /\ (\A i \in 1..2 : z1[3 + i] = ew[i])
    BY <1>24, <1>13, <1>9 DEF Cat
  <2>2. /\ z1[1] = m1 /\ z1[2] = m3 /\ z1[3] = m2
    BY <1>13, <2>1
  <2>3. /\ z1[3 + 1] = Erasing("work", 1) /\ z1[3 + 2] = Erasing("work", 2)
    BY <1>9, <2>1
  <2> QED
    BY <2>1, <2>2, <2>3
<1>27. Cat(S, z1, ww, z2)
  BY <1>25, <1>5, CatIs
<1> HIDE DEF z2
<1>28. z2 \in Seq(S)
  BY <1>27 DEF Cat
<1>29. /\ Len(z2) = 7 /\ z2[1] = m1 /\ z2[2] = m3 /\ z2[3] = m2 /\ z2[4] = Erasing("work", 1)
       /\ z2[5] = Erasing("work", 2) /\ z2[6] = Writing("work", 1)
       /\ z2[7] = Writing("work", 2)
  <2>1. Len(z2) = 5 + 2 /\ (\A i \in 1..5 : z2[i] = z1[i]) /\ (\A i \in 1..2 : z2[5 + i] = ww[i])
    BY <1>27, <1>26, <1>10 DEF Cat
  <2>2. /\ z2[1] = m1 /\ z2[2] = m3 /\ z2[3] = m2 /\ z2[4] = Erasing("work", 1)
        /\ z2[5] = Erasing("work", 2)
    BY <1>26, <2>1
  <2>3. /\ z2[5 + 1] = Writing("work", 1) /\ z2[5 + 2] = Writing("work", 2)
    BY <1>10, <2>1
  <2> QED
    BY <2>1, <2>2, <2>3
<1>30. Cat(S, z2, x4, z3)
  BY <1>28, <1>5, CatIs
<1> HIDE DEF z3
<1>31. z3 \in Seq(S)
  BY <1>30 DEF Cat
<1>32. /\ Len(z3) = 8 /\ z3[1] = m1 /\ z3[2] = m3 /\ z3[3] = m2 /\ z3[4] = Erasing("work", 1)
       /\ z3[5] = Erasing("work", 2) /\ z3[6] = Writing("work", 1)
       /\ z3[7] = Writing("work", 2) /\ z3[8] = m4
  <2>1. Len(z3) = 7 + 1 /\ (\A i \in 1..7 : z3[i] = z2[i]) /\ (\A i \in 1..1 : z3[7 + i] = x4[i])
    BY <1>30, <1>29, <1>14 DEF Cat
  <2>2. /\ z3[1] = m1 /\ z3[2] = m3 /\ z3[3] = m2 /\ z3[4] = Erasing("work", 1)
        /\ z3[5] = Erasing("work", 2) /\ z3[6] = Writing("work", 1) /\ z3[7] = Writing("work", 2)
    BY <1>29, <2>1
  <2>3. /\ z3[7 + 1] = m4
    BY <1>14, <2>1
  <2> QED
    BY <2>1, <2>2, <2>3
<1>33. Cat(S, es, rs, b)
  BY <1>5, <1>5, CatIs
<1> HIDE DEF b
<1>34. b \in Seq(S)
  BY <1>33 DEF Cat
<1>35. /\ Len(b) = 4 /\ b[1] = Erasing("spare", 1) /\ b[2] = Erasing("spare", 2)
       /\ b[3] = Restoring(1) /\ b[4] = Restoring(2)
  <2>1. Len(b) = 2 + 2 /\ (\A i \in 1..2 : b[i] = es[i]) /\ (\A i \in 1..2 : b[2 + i] = rs[i])
    BY <1>33, <1>6, <1>8 DEF Cat
  <2>2. /\ b[1] = Erasing("spare", 1) /\ b[2] = Erasing("spare", 2)
    BY <1>6, <2>1
  <2>3. /\ b[2 + 1] = Restoring(1) /\ b[2 + 2] = Restoring(2)
    BY <1>8, <2>1
  <2> QED
    BY <2>1, <2>2, <2>3
<1>36. Cat(S, y3, z3, d)
  BY <1>22, <1>31, CatIs
<1> HIDE DEF d
<1>37. d \in Seq(S)
  BY <1>36 DEF Cat
<1>38. /\ Len(d) = 15 /\ d[1] = c /\ d[2] = Erasing("spare", 1) /\ d[3] = Erasing("spare", 2)
       /\ d[4] = Writing("spare", 1) /\ d[5] = Writing("spare", 2) /\ d[6] = m1 /\ d[7] = m2
       /\ d[8] = m1 /\ d[9] = m3 /\ d[10] = m2 /\ d[11] = Erasing("work", 1)
       /\ d[12] = Erasing("work", 2) /\ d[13] = Writing("work", 1)
       /\ d[14] = Writing("work", 2) /\ d[15] = m4
  <2>1. Len(d) = 7 + 8 /\ (\A i \in 1..7 : d[i] = y3[i]) /\ (\A i \in 1..8 : d[7 + i] = z3[i])
    BY <1>36, <1>23, <1>32 DEF Cat
  <2>2. /\ d[1] = c /\ d[2] = Erasing("spare", 1) /\ d[3] = Erasing("spare", 2)
        /\ d[4] = Writing("spare", 1) /\ d[5] = Writing("spare", 2) /\ d[6] = m1 /\ d[7] = m2
    BY <1>23, <2>1
  <2>3. /\ d[7 + 1] = m1 /\ d[7 + 2] = m3 /\ d[7 + 3] = m2 /\ d[7 + 4] = Erasing("work", 1)
        /\ d[7 + 5] = Erasing("work", 2) /\ d[7 + 6] = Writing("work", 1)
        /\ d[7 + 7] = Writing("work", 2) /\ d[7 + 8] = m4
    BY <1>32, <2>1
  <2> QED
    BY <2>1, <2>2, <2>3
<1>39. Cat(S, d, b, e)
  BY <1>37, <1>34, CatIs
<1> HIDE DEF e
<1>40. e \in Seq(S)
  BY <1>39 DEF Cat
<1>41. /\ Len(e) = 19 /\ e[1] = c /\ e[2] = Erasing("spare", 1) /\ e[3] = Erasing("spare", 2)
       /\ e[4] = Writing("spare", 1) /\ e[5] = Writing("spare", 2) /\ e[6] = m1 /\ e[7] = m2
       /\ e[8] = m1 /\ e[9] = m3 /\ e[10] = m2 /\ e[11] = Erasing("work", 1)
       /\ e[12] = Erasing("work", 2) /\ e[13] = Writing("work", 1)
       /\ e[14] = Writing("work", 2) /\ e[15] = m4 /\ e[16] = Erasing("spare", 1)
       /\ e[17] = Erasing("spare", 2) /\ e[18] = Restoring(1) /\ e[19] = Restoring(2)
  <2>1. Len(e) = 15 + 4 /\ (\A i \in 1..15 : e[i] = d[i]) /\ (\A i \in 1..4 : e[15 + i] = b[i])
    BY <1>39, <1>38, <1>35 DEF Cat
  <2>2. /\ e[1] = c /\ e[2] = Erasing("spare", 1) /\ e[3] = Erasing("spare", 2)
        /\ e[4] = Writing("spare", 1) /\ e[5] = Writing("spare", 2) /\ e[6] = m1 /\ e[7] = m2
        /\ e[8] = m1 /\ e[9] = m3 /\ e[10] = m2 /\ e[11] = Erasing("work", 1)
        /\ e[12] = Erasing("work", 2) /\ e[13] = Writing("work", 1) /\ e[14] = Writing("work", 2)
        /\ e[15] = m4
    BY <1>38, <2>1
  <2>3. /\ e[15 + 1] = Erasing("spare", 1) /\ e[15 + 2] = Erasing("spare", 2)
        /\ e[15 + 3] = Restoring(1) /\ e[15 + 4] = Restoring(2)
    BY <1>35, <2>1
  <2> QED
    BY <2>1, <2>2, <2>3
<1>42. \A k \in 1..19 : e[k] = f[k]
  BY <1>41, <1>4
<1> QED
  BY <1>3, <1>41, <1>42 DEF f

\* Whoever looks for the last header has asked whether the queue is full, or is
\* at the end of a reclaim, whose step k is one of K if it is next.
Tracked(t, K) ==
  \A i \in 1..Len(t) : t[i].do = "FindLastWrite" =>
    \/ i > 1 /\ t[i - 1].do = "ReclaimWhenFull"
    \/ /\ i <= 20 /\ \A j \in 1..(i - 1) : t[j] = ReclaimSteps[20 - i + j]
       /\ 21 - i \in K

LEMMA TrackedOn ==
  ASSUME NEW S, NEW t \in Seq(S), t # <<>>, NEW K, Tracked(t, K), NEW L,
         t[1].do = "ReclaimWhenFull" => 20 \in L,
         \A k \in 1..19 : t[1] = ReclaimSteps[k] /\ k \in K => k + 1 \in L
  PROVE  Tracked(Tail(t), L)
<1> DEFINE u == Tail(t)
<1>1. u \in Seq(S) /\ Len(t) \in Nat /\ Len(u) = Len(t) - 1 /\ \A i \in 1..Len(u) : u[i] = t[i + 1]
  BY HeadTailProperties, LenProperties
<1> SUFFICES ASSUME NEW i \in 1..Len(u), u[i].do = "FindLastWrite"
             PROVE  \/ i > 1 /\ u[i - 1].do = "ReclaimWhenFull"
                    \/ /\ i <= 20 /\ \A j \in 1..(i - 1) : u[j] = ReclaimSteps[20 - i + j]
                       /\ 21 - i \in L
  BY DEF Tracked
<1> HIDE DEF u
<1>2. i + 1 \in 1..Len(t) /\ t[i + 1].do = "FindLastWrite" /\ i + 1 > 1 /\ (i + 1) - 1 = i
  BY <1>1
<1>3. \/ t[i].do = "ReclaimWhenFull"
      \/ /\ i + 1 <= 20 /\ \A j \in 1..i : t[j] = ReclaimSteps[19 - i + j]
         /\ 20 - i \in K
  <2>1. \/ i + 1 > 1 /\ t[(i + 1) - 1].do = "ReclaimWhenFull"
        \/ /\ i + 1 <= 20 /\ \A j \in 1..((i + 1) - 1) : t[j] = ReclaimSteps[20 - (i + 1) + j]
           /\ 21 - (i + 1) \in K
    BY <1>2 DEF Tracked
  <2>2. 21 - (i + 1) = 20 - i /\ \A j \in 1..i : 20 - (i + 1) + j = 19 - i + j
    BY <1>1
  <2> QED
    BY <1>2, <2>1, <2>2
<1>4. CASE t[i].do = "ReclaimWhenFull"
  <2>1. CASE i = 1
    BY <1>4, <2>1
  <2>2. CASE i # 1
    <3>1. i - 1 \in 1..Len(u) /\ (i - 1) + 1 = i
      BY <1>1, <2>2
    <3>2. u[i - 1] = t[i]
      BY <1>1, <3>1
    <3> QED
      BY <1>1, <1>4, <2>2, <3>2
  <2> QED
    BY <2>1, <2>2
<1>5. CASE /\ i + 1 <= 20 /\ \A j \in 1..i : t[j] = ReclaimSteps[19 - i + j]
           /\ 20 - i \in K
  <2>1. 1 \in 1..i /\ 19 - i + 1 = 20 - i /\ 20 - i \in 1..19
    BY <1>1, <1>5
  <2>2. t[1] = ReclaimSteps[20 - i]
    BY <1>5, <2>1
  <2>3. (20 - i) + 1 \in L
    BY <1>5, <2>1, <2>2
  <2>4. ASSUME NEW j \in 1..(i - 1) PROVE u[j] = ReclaimSteps[20 - i + j]
    <3>1. j \in 1..Len(u) /\ j + 1 \in 1..i /\ 19 - i + (j + 1) = 20 - i + j
      BY <1>1
    <3> QED
      BY <1>1, <1>5, <3>1
  <2>5. (20 - i) + 1 = 21 - i
    BY <1>1
  <2> QED
    BY <1>5, <2>3, <2>4, <2>5
<1> QED
  BY <1>3, <1>4, <1>5

LEMMA TrackedInto ==
  ASSUME NEW op, NEW t \in Seq(Steps(op)), t # <<>>, NEW K, Tracked(t, K), NEW L, 1 \in L,
         NEW s, NEW f, NEW l, Procedure(op, s, f, l),
         t[1].do = "ReclaimWhenFull" => s = FtwReclaimWorkSpace("CleanUp"),
         \A k \in 1..19 : t[1] # ReclaimSteps[k]
  PROVE  Tracked(s \o Tail(t), L)
<1> DEFINE u == s \o Tail(t)
           m == Len(s)
           n == Len(t)
<1>1. m \in Nat /\ m >= 1 /\ n \in Nat /\ n >= 1
  BY ProcedureIs, LenProperties
<1>2. /\ Len(u) = m + n - 1
      /\ \A i \in 1..(m + n - 1) : u[i] = IF i <= m THEN s[i] ELSE t[i - m + 1]
  <2>1. s \in Seq(Steps(op)) /\ Tail(t) \in Seq(Steps(op)) /\ Len(Tail(t)) = n - 1
        /\ \A i \in 1..(n - 1) : Tail(t)[i] = t[i + 1]
    BY ProcedureIs, HeadTailProperties
  <2>2. /\ Len(u) = m + (n - 1)
        /\ \A i \in 1..m : u[i] = s[i]
        /\ \A i \in 1..(n - 1) : u[m + i] = Tail(t)[i]
    <3>1. Cat(Steps(op), s, Tail(t), u)
      BY <2>1, CatIs
    <3> HIDE DEF u
    <3> QED
      BY <2>1, <3>1 DEF Cat
  <2> HIDE DEF u, m, n
  <2>3. ASSUME NEW i \in 1..(m + n - 1), ~(i <= m) PROVE u[i] = t[i - m + 1]
    <3>1. i - m \in 1..(n - 1) /\ m + (i - m) = i
      BY <1>1, <2>3
    <3>2. u[m + (i - m)] = Tail(t)[i - m] /\ Tail(t)[i - m] = t[(i - m) + 1]
      BY <2>1, <2>2, <3>1
    <3> QED
      BY <3>1, <3>2
  <2>4. ASSUME NEW i \in 1..(m + n - 1), i <= m PROVE u[i] = s[i]
    <3>1. i \in 1..m
      BY <1>1, <2>4
    <3> QED
      BY <2>2, <3>1
  <2>5. Len(u) = m + n - 1
    BY <1>1, <2>2
  <2> QED
    BY <2>3, <2>4, <2>5
<1> SUFFICES ASSUME NEW i \in 1..(m + n - 1), u[i].do = "FindLastWrite"
             PROVE  \/ i > 1 /\ u[i - 1].do = "ReclaimWhenFull"
                    \/ /\ i <= 20 /\ \A j \in 1..(i - 1) : u[j] = ReclaimSteps[20 - i + j]
                       /\ 21 - i \in L
  BY <1>2 DEF Tracked
<1>3. \A k \in 1..m : s[k].do = "FindLastWrite" => k > 1 /\ s[k - 1].do = "ReclaimWhenFull"
  BY DEF Procedure, Refreshes
<1>4. \A k \in 1..n : t[k].do = "FindLastWrite" =>
        \/ k > 1 /\ t[k - 1].do = "ReclaimWhenFull"
        \/ /\ k <= 20 /\ \A j \in 1..(k - 1) : t[j] = ReclaimSteps[20 - k + j]
           /\ 21 - k \in K
  BY DEF Tracked
<1>5. t[1].do = "ReclaimWhenFull" => m = 19 /\ \A j \in 1..19 : s[j] = ReclaimSteps[j]
  <2> SUFFICES ASSUME t[1].do = "ReclaimWhenFull"
               PROVE  m = 19 /\ \A j \in 1..19 : s[j] = ReclaimSteps[j]
    OBVIOUS
  <2>1. s = FtwReclaimWorkSpace("CleanUp")
    OBVIOUS
  <2> HIDE DEF ReclaimSteps
  <2> QED
    BY <2>1, ReclaimIs
<1> HIDE DEF u, m, n
<1>6. CASE i <= m
  <2>1. i \in 1..m /\ s[i].do = "FindLastWrite"
    <3>1. u[i] = s[i]
      BY <1>2, <1>6
    <3>2. i \in 1..m
      BY <1>1, <1>6
    <3> QED
      BY <3>1, <3>2
  <2>2. i > 1 /\ s[i - 1].do = "ReclaimWhenFull"
    BY <1>3, <2>1
  <2>3. i - 1 \in 1..(m + n - 1) /\ i - 1 <= m
    BY <1>1, <2>1, <2>2
  <2> QED
    BY <1>2, <2>2, <2>3
<1>7. CASE i > m
  <2> DEFINE k == i - m + 1
  <2>1. k \in 1..n /\ k > 1 /\ i = k + m - 1
    BY <1>1, <1>7
  <2>2. u[i] = t[k]
    BY <1>1, <1>2, <1>7
  <2> HIDE DEF k
  <2>3. \/ k > 1 /\ t[k - 1].do = "ReclaimWhenFull"
        \/ k <= 20 /\ \A j \in 1..(k - 1) : t[j] = ReclaimSteps[20 - k + j]
    BY <1>4, <2>1, <2>2
  <2>4. t[k - 1].do = "ReclaimWhenFull"
    <3> SUFFICES ASSUME k <= 20, \A j \in 1..(k - 1) : t[j] = ReclaimSteps[20 - k + j] PROVE FALSE
      BY <2>3
    <3>1. 1 \in 1..(k - 1) /\ 20 - k + 1 \in 1..19
      BY <1>1, <2>1
    <3>2. t[1] = ReclaimSteps[20 - k + 1]
      BY <3>1
    <3> QED
      BY <3>1, <3>2
  <2>5. CASE k = 2
    <3>1. m = 19 /\ \A j \in 1..19 : s[j] = ReclaimSteps[j]
      BY <1>5, <2>4, <2>5
    <3>2. m = 19
      BY <3>1
    <3> HIDE DEF k
    <3>3. i = 20
      BY <2>1, <2>5, <3>2
    <3>4. ASSUME NEW j \in 1..19 PROVE u[j] = ReclaimSteps[j]
      <4>1. j \in 1..(m + n - 1) /\ j <= m
        BY <1>1, <3>2
      <4>2. u[j] = s[j]
        BY <1>2, <4>1
      <4> QED
        BY <3>1, <4>2
    <3>5. ASSUME NEW j \in 1..(i - 1) PROVE u[j] = ReclaimSteps[20 - i + j]
      <4>1. j \in 1..19 /\ 20 - i + j = j
        BY <3>3
      <4> QED
        BY <3>4, <4>1
    <3> QED
      BY <3>3, <3>5
  <2>6. CASE k # 2
    <3>1. i - 1 \in 1..(m + n - 1) /\ ~(i - 1 <= m) /\ (i - 1) - m + 1 = k - 1
      BY <1>1, <1>7, <2>1, <2>6
    <3>2. u[i - 1] = t[k - 1]
      BY <1>2, <3>1
    <3> QED
      BY <1>1, <1>7, <2>4, <3>2
  <2> QED
    BY <2>5, <2>6
<1> QED
  BY <1>1, <1>6, <1>7

\* Which steps of the reclaim are of a kind, and what they are done to.
LEMMA ReclaimStepIs ==
  ASSUME NEW k \in 1..19
  PROVE  /\ ReclaimSteps[k].do \in Writers \cup
              {"CleanUp", "WorkingBlockValid", "WorkingBlockInvalid", "LoadSpareAsWork"}
         /\ ReclaimSteps[k].do = "CleanUp" => k = 1
         /\ ReclaimSteps[k].do = "LoadSpareAsWork" => k = 9
         /\ ReclaimSteps[k].do = "WorkingBlockValid" => k \in {6, 8, 15}
         /\ ReclaimSteps[k].do = "WorkingBlockInvalid" => k \in {7, 10}
         /\ ReclaimSteps[k].do = "Erase" => k \in {2, 3, 11, 12, 16, 17} /\ (k \in {16, 17} => ReclaimSteps[k].area = "spare")
         /\ ReclaimSteps[k].do = "Restore" => k \in {18, 19}
         /\ ReclaimSteps[k].do = "Write" =>
              \/ k = 4
              \/ k = 5 /\ ReclaimSteps[k].area = "spare" /\ ReclaimSteps[k].block = 2
              \/ k = 13
              \/ k = 14 /\ ReclaimSteps[k].area = "work" /\ ReclaimSteps[k].block = 2
<1> DEFINE f == ReclaimSteps
<1>1. /\ f[1] = Step("CleanUp") /\ f[2] = Erasing("spare", 1) /\ f[3] = Erasing("spare", 2)
      /\ f[4] = Writing("spare", 1) /\ f[5] = Writing("spare", 2)
      /\ f[6] = Mark("WorkingBlockValid", "spare") /\ f[7] = Mark("WorkingBlockInvalid", "work")
      /\ f[8] = Mark("WorkingBlockValid", "spare") /\ f[9] = Step("LoadSpareAsWork")
      /\ f[10] = Mark("WorkingBlockInvalid", "work")
      /\ f[11] = Erasing("work", 1) /\ f[12] = Erasing("work", 2)
      /\ f[13] = Writing("work", 1) /\ f[14] = Writing("work", 2)
      /\ f[15] = Mark("WorkingBlockValid", "work")
      /\ f[16] = Erasing("spare", 1) /\ f[17] = Erasing("spare", 2)
      /\ f[18] = Restoring(1) /\ f[19] = Restoring(2)
  BY DEF ReclaimSteps
<1> HIDE DEF f
<1>2. /\ k \in {1} => f[k].do = "CleanUp"
      /\ k \in {9} => f[k].do = "LoadSpareAsWork"
      /\ k \in {6, 8, 15} => f[k].do = "WorkingBlockValid"
      /\ k \in {7, 10} => f[k].do = "WorkingBlockInvalid"
  BY <1>1 DEF Step, Mark
<1>3. /\ k \in {2, 3, 11, 12, 16, 17} => f[k].do = "Erase"
      /\ k \in {16, 17} => f[k].area = "spare"
  BY <1>1 DEF Erasing
<1>4. /\ k \in {4, 5, 13, 14} => f[k].do = "Write"
      /\ k = 5 => f[k].area = "spare" /\ f[k].block = 2
      /\ k = 14 => f[k].area = "work" /\ f[k].block = 2
  BY <1>1 DEF Writing
<1>5. k \in {18, 19} => f[k].do = "Restore"
  BY <1>1 DEF Restoring
<1>6. k \in {1} \cup {9} \cup {6, 8, 15} \cup {7, 10} \cup {2, 3, 11, 12, 16, 17} \cup {4, 5, 13, 14} \cup {18, 19}
  OBVIOUS
<1>7. /\ f[k].do \in Writers \cup {"CleanUp", "WorkingBlockValid", "WorkingBlockInvalid", "LoadSpareAsWork"}
      /\ f[k].do = "CleanUp" => k = 1
      /\ f[k].do = "LoadSpareAsWork" => k = 9
      /\ f[k].do = "WorkingBlockValid" => k \in {6, 8, 15}
      /\ f[k].do = "WorkingBlockInvalid" => k \in {7, 10}
      /\ f[k].do = "Erase" => k \in {2, 3, 11, 12, 16, 17}
      /\ f[k].do = "Restore" => k \in {18, 19}
      /\ f[k].do = "Write" => k \in {4, 5, 13, 14}
  <2>1. CASE k \in {1} \cup {9}
    BY <1>2, <2>1
  <2>2. CASE k \in {6, 8, 15}
    BY <1>2, <2>2
  <2>3. CASE k \in {7, 10}
    BY <1>2, <2>3
  <2>4. CASE k \in {2, 3, 11, 12, 16, 17}
    BY <1>3, <2>4 DEF Writers
  <2>5. CASE k \in {4, 5, 13, 14}
    BY <1>4, <2>5 DEF Writers
  <2>6. CASE k \in {18, 19}
    BY <1>5, <2>6 DEF Writers
  <2> QED
    BY <1>6, <2>1, <2>2, <2>3, <2>4, <2>5, <2>6
<1> QED
  BY <1>3, <1>4, <1>7 DEF f

-----------------------------------------------------------------------------
(***************************************************************************)
(* The inductive invariant.                                                *)
(***************************************************************************)
\* The last header and record of the work space are those found last.
Fresh ==
  /\ header = LastHeader(Queue("work"), platform.queue)
  /\ record = LastRecord(Queue("work"), platform.queue, header)

\* The writes asked for are allocated.
Served ==
  /\ Allocated(Queue("work"), header) /\ Queue("work")[header].writes = request.writes
  /\ Untouched(Queue("work"), platform.queue, header)

Roomy(p, c) == LastHeader(SpaceOf(p, c).queue, p.queue) < p.queue

\* There is room before step k of a reclaim, and behind it for k = 20.
Room(k) ==
  /\ k \in 2..5 \cup 10..14 => Roomy(platform, buffer[2])
  /\ k \in 6..9 => Roomy(platform, flash["spare"][2])
  /\ k \in 15..20 => Roomy(platform, flash["work"][2])

Rooms == {k \in 1..20 : Room(k)}

Placed ==
  /\ platform \in Platforms /\ up \in BOOLEAN
  /\ calls \in 0..platform.calls /\ crashes \in 0..platform.crashes
  /\ faults \in 0..platform.faults

Stored ==
  flash \in Flashes(platform) /\ buffer \in Images(platform) /\ spareBuffer \in Images(platform)

Pointed ==
  /\ header \in 1..(platform.queue - 1) /\ record \in (header + 1)..platform.queue
  /\ offset \in 1..platform.queue

Requested ==
  /\ request.op = "write" =>
       /\ request.target \in platform.writable /\ request.value \in Values
       /\ request.writes = 1
  /\ request.op = "allocate" => request.writes \in platform.requests

Planned == Linked(request.op, todo) /\ Tracked(todo, Rooms)

\* Steps that use the last header and record find them fresh.
Looked(s) ==
  /\ s.do \in {"AllocateHeader", "NeedHeader", "CheckRecord", "WriteHeader", "WritesAllocated",
               "WriteRecord"} => Fresh
  /\ s.do \in {"CheckRecord", "WriteRecord"} => Allocated(Queue("work"), header)
  /\ s.do = "WriteRecord" =>
       ~DestDone(Queue("work"), record) /\ ~SpareDone(Queue("work"), record)
  /\ s.do = "WriteHeader" =>
       /\ offset = header /\ ~Allocated(Queue("work"), header)
       /\ header + request.writes <= platform.queue
  /\ s.do = "WritesAllocated" => offset = header /\ Served
  /\ s.do = "Success" /\ request.op = "allocate" =>
       /\ header = LastHeader(Queue("work"), platform.queue)
       /\ Served /\ Queue("work")[header].writesAllocated

\* Blocks are erased one after the other and then written.
Cleared(s) ==
  /\ s.do = "Erase" /\ s.block = 2 => flash[s.area][1] = Erased
  /\ s.do \in {"Write", "Restore"} => flash[s.area][2] = Erased
  /\ s.do \in {"Write", "Restore"} /\ s.block = 1 => flash[s.area][1] = Erased

Ready == todo # <<>> => Looked(Head(todo)) /\ Cleared(Head(todo))

IInv == Placed /\ Stored /\ Pointed /\ Requested /\ Planned /\ Ready

-----------------------------------------------------------------------------
(***************************************************************************)
(* What the invariant says of the queues and of the steps to do.           *)
(***************************************************************************)
GoodQueue(q) ==
  /\ q \in Queues(platform.queue, HeaderWrites(platform), RecordTargets(platform))
  /\ InOrder(q, platform.queue)

LEMMA SpaceIs ==
  ASSUME IInv, NEW a \in Areas
  PROVE  /\ Space(a) \in GoodSpaces(platform) /\ Queue(a) = Space(a).queue
         /\ Space(a) = SpaceOf(platform, flash[a][2])
         /\ Queue(a) \in GoodQueues(platform) /\ GoodQueue(Queue(a))
         /\ \A b \in 1..2 : flash[a][b] \in GoodBlocks(platform)
         /\ "work" \in Areas /\ "spare" \in Areas
<1>1. \A b \in 1..2 : flash[a][b] \in GoodBlocks(platform)
  BY DEF IInv, Stored, Flashes, Images
<1>2. platform \in Platforms
  BY DEF IInv, Placed
<1>3. SpaceOf(platform, flash[a][2]) \in GoodSpaces(platform)
      /\ SpaceOf(platform, flash[a][2]).queue \in GoodQueues(platform)
  BY <1>1, <1>2, BlockIs
<1>4. Space(a) = SpaceOf(platform, flash[a][2])
  BY AsSpaceIs DEF Space
<1> QED
  BY <1>1, <1>3, <1>4 DEF Queue, GoodQueues, GoodQueue, Areas

LEMMA SizesAre ==
  ASSUME IInv
  PROVE  /\ platform \in Platforms /\ platform.queue \in Nat /\ platform.queue >= 2
         /\ HeaderWrites(platform) \in SUBSET Counts
         /\ QueueSize = platform.queue
         /\ \A q : FtwGetLastWriteHeader(q) = LastHeader(q, platform.queue)
         /\ \A q, h : FtwGetLastWriteRecord(q, h) = LastRecord(q, platform.queue, h)
BY PlatformIs, HeaderFound, RecordFound DEF IInv, Placed, QueueSize

\* What is found in a queue in order with room.
LEMMA FoundIs ==
  ASSUME IInv, NEW q, GoodQueue(q), LastHeader(q, platform.queue) < platform.queue
  PROVE  LET h == LastHeader(q, platform.queue)
             r == LastRecord(q, platform.queue, h)
         IN  h \in 1..(platform.queue - 1) /\ r \in (h + 1)..platform.queue
<1>1. LastHeader(q, platform.queue) \in 1..(platform.queue + 1)
  BY SizesAre, LastIs DEF GoodQueue
<1>2. LastHeader(q, platform.queue) \in 1..(platform.queue - 1)
  BY <1>1, SizesAre
<1> QED
  BY <1>2, SizesAre, RecordPlace DEF GoodQueue

LEMMA HeadIs ==
  ASSUME IInv, todo # <<>>
  PROVE  /\ todo \in Seq(Steps(request.op)) /\ Head(todo) = todo[1]
         /\ Head(todo) \in Steps(request.op) /\ Looked(Head(todo)) /\ Cleared(Head(todo))
         /\ Linked(request.op, Tail(todo)) /\ Tail(todo) \in Seq(Steps(request.op))
         /\ Tail(todo) # <<>> =>
              /\ Head(Tail(todo)) \in Steps(request.op)
              /\ Head(Tail(todo)) = Tail(todo)[1]
              /\ Follows(request.op, Head(todo), Head(Tail(todo)))
<1> DEFINE n == Len(todo)
           t == Tail(todo)
           m == Len(t)
<1>1. todo \in Seq(Steps(request.op)) /\ \A i \in 1..(n - 1) : Follows(request.op, todo[i], todo[i + 1])
  BY DEF IInv, Planned, Linked
<1>2. Looked(Head(todo)) /\ Cleared(Head(todo))
  BY DEF IInv, Ready
<1>3. /\ Head(todo) = todo[1] /\ Head(todo) \in Steps(request.op)
      /\ t \in Seq(Steps(request.op)) /\ m = n - 1 /\ n \in Nat /\ n >= 1
      /\ \A i \in 1..m : t[i] = todo[i + 1]
  BY <1>1, HeadTailProperties, LenProperties
<1>4. t # <<>> => Head(t) = t[1] /\ Head(t) \in Steps(request.op) /\ m >= 1
  BY <1>3, HeadTailProperties, LenProperties
<1> HIDE DEF n, t, m
<1>5. ASSUME NEW i \in 1..(m - 1) PROVE Follows(request.op, t[i], t[i + 1])
  <2>1. t[i] = todo[i + 1] /\ t[i + 1] = todo[(i + 1) + 1] /\ i + 1 \in 1..(n - 1)
    BY <1>3
  <2> QED
    BY <1>1, <2>1
<1>6. t # <<>> => Follows(request.op, Head(todo), Head(t))
  <2> SUFFICES ASSUME t # <<>> PROVE Follows(request.op, Head(todo), Head(t))
    OBVIOUS
  <2>1. 1 \in 1..(n - 1) /\ 1 \in 1..m
    BY <1>3, <1>4
  <2>2. Head(t) = todo[1 + 1]
    BY <1>3, <1>4, <2>1
  <2> QED
    BY <1>1, <1>3, <2>1, <2>2
<1>7. Linked(request.op, t)
  BY <1>3, <1>5 DEF Linked, m
<1> QED
  BY <1>1, <1>2, <1>3, <1>4, <1>6, <1>7 DEF t

Reclaiming ==
  Writers \cup {"CleanUp", "WorkingBlockValid", "WorkingBlockInvalid", "LoadSpareAsWork"}

LEMMA NotReclaiming ==
  ASSUME NEW s, s.do \notin Reclaiming
  PROVE  \A k \in 1..19 : s # ReclaimSteps[k]
BY ReclaimStepIs DEF Reclaiming

LEMMA GoneOn ==
  ASSUME IInv, todo # <<>>, todo' = Tail(todo), request' = request,
         Head(todo).do = "ReclaimWhenFull" => 20 \in Rooms',
         \A k \in 1..19 : Head(todo) = ReclaimSteps[k] /\ k \in Rooms => k + 1 \in Rooms'
  PROVE  /\ Planned'
         /\ todo' # <<>> => Head(todo') \in Steps(request'.op) /\ Follows(request'.op, Head(todo), Head(todo'))
<1>1. Linked(request'.op, todo')
  BY HeadIs
<1>2. Tracked(todo, Rooms)
  BY DEF IInv, Planned
<1>3. Tracked(Tail(todo), Rooms')
  <2> DEFINE K == Rooms
             L == Rooms'
  <2>1. /\ todo \in Seq(Steps(request.op)) /\ Tracked(todo, K)
        /\ todo[1].do = "ReclaimWhenFull" => 20 \in L
        /\ \A k \in 1..19 : todo[1] = ReclaimSteps[k] /\ k \in K => k + 1 \in L
    BY <1>2, HeadIs
  <2> HIDE DEF K, L
  <2>2. Tracked(Tail(todo), L)
    BY <2>1, TrackedOn
  <2> QED
    BY <2>2 DEF L
<1> QED
  BY <1>1, <1>3, HeadIs DEF Planned

LEMMA PutIn ==
  ASSUME IInv, todo # <<>>, NEW s, NEW f, NEW l, Procedure(request.op, s, f, l),
         todo' = s \o Tail(todo), request' = request, Head(todo).do \notin Reclaiming,
         Head(todo).do = "ReclaimWhenFull" => s = FtwReclaimWorkSpace("CleanUp"),
         Tail(todo) # <<>> => Follows(request.op, l, Head(Tail(todo)))
  PROVE  Planned' /\ todo' # <<>> /\ Head(todo') = f
<1> DEFINE op == request.op
           t == Tail(todo)
           m == Len(s)
           n == Len(t)
           u == s \o t
<1>1. /\ s \in Seq(Steps(op)) /\ m \in Nat /\ m >= 1 /\ s[1] = f /\ s[m] = l
      /\ \A i \in 1..(m - 1) : Follows(op, s[i], s[i + 1])
  BY ProcedureIs DEF Procedure, Linked
<1>2. t \in Seq(Steps(op)) /\ n \in Nat /\ \A i \in 1..(n - 1) : Follows(op, t[i], t[i + 1])
  BY HeadIs, LenProperties DEF Linked
<1>3. n >= 1 => Follows(op, l, t[1])
  <2>1. n >= 1 => t # <<>>
    BY <1>2
  <2> QED
    BY <2>1, HeadIs
<1>4. Cat(Steps(op), s, t, u)
  BY <1>1, <1>2, CatIs
<1>5. /\ u \in Seq(Steps(op)) /\ Len(u) = m + n
      /\ \A i \in 1..m : u[i] = s[i]
      /\ \A i \in 1..n : u[m + i] = t[i]
  BY <1>4 DEF Cat
<1> HIDE DEF op, t, m, n, u
<1>6. ASSUME NEW i \in 1..(m + n - 1) PROVE Follows(op, u[i], u[i + 1])
  <2>1. CASE i < m
    <3>1. i \in 1..m /\ i + 1 \in 1..m /\ i \in 1..(m - 1)
      BY <1>1, <1>2, <2>1
    <3> QED
      BY <1>1, <1>5, <3>1
  <2>2. CASE i = m
    <3>1. i \in 1..m /\ 1 \in 1..n /\ n >= 1
      BY <1>1, <1>2, <2>2
    <3>2. u[i] = l /\ u[i + 1] = t[1]
      BY <1>1, <1>5, <2>2, <3>1
    <3> QED
      BY <1>3, <3>1, <3>2
  <2>3. CASE i > m
    <3>1. i - m \in 1..n /\ (i - m) + 1 \in 1..n /\ i - m \in 1..(n - 1)
          /\ m + (i - m) = i /\ m + ((i - m) + 1) = i + 1
      BY <1>1, <1>2, <2>3
    <3>2. u[i] = t[i - m] /\ u[i + 1] = t[(i - m) + 1]
      BY <1>5, <3>1
    <3> QED
      BY <1>2, <3>1, <3>2
  <2> QED
    BY <1>1, <1>2, <2>1, <2>2, <2>3
<1>7. Linked(op, u)
  <2>1. u \in Seq(Steps(op)) /\ Len(u) - 1 = m + n - 1
    BY <1>1, <1>2, <1>5
  <2>2. \A i \in 1..(Len(u) - 1) : Follows(op, u[i], u[i + 1])
    BY <1>6, <2>1
  <2> QED
    BY <2>1, <2>2 DEF Linked
<1>8. u # <<>> /\ Head(u) = f
  <2>1. Len(u) >= 1 /\ u[1] = f
    BY <1>1, <1>2, <1>5
  <2>2. u # <<>>
    BY <2>1
  <2> QED
    BY <1>5, <2>1, <2>2, HeadTailProperties
<1>9. Tracked(s \o Tail(todo), Rooms')
  <2> DEFINE K == Rooms
             L == Rooms'
  <2>1. Tracked(todo, K)
    BY DEF IInv, Planned
  <2>2. 1 \in L
    BY DEF Rooms, Room
  <2>3. /\ todo \in Seq(Steps(request.op))
        /\ todo[1].do = "ReclaimWhenFull" => s = FtwReclaimWorkSpace("CleanUp")
        /\ \A k \in 1..19 : todo[1] # ReclaimSteps[k]
    BY HeadIs, NotReclaiming
  <2> HIDE DEF K, L
  <2>4. Tracked(s \o Tail(todo), L)
    BY <2>1, <2>2, <2>3, TrackedInto
  <2> QED
    BY <2>4 DEF L
<1> QED
  BY <1>7, <1>8, <1>9 DEF op, t, u, Planned

\* Behind a step that no other needs before it anything may be done.
LEMMA NextIsFree ==
  ASSUME IInv, todo # <<>>, Head(todo).do \notin Leading, Tail(todo) # <<>>
  PROVE  Free(request.op, Head(Tail(todo))) /\ \A l : Follows(request.op, l, Head(Tail(todo)))
BY HeadIs, FreeFollows

LEMMA ReadyFree ==
  ASSUME todo' # <<>> => Free(request'.op, Head(todo'))
  PROVE  Ready'
<1> SUFFICES ASSUME todo' # <<>> PROVE Looked(Head(todo))' /\ Cleared(Head(todo))'
  BY DEF Ready
<1>1. Free(request'.op, Head(todo'))
  OBVIOUS
<1> QED
  BY <1>1 DEF Free, Looked, Cleared

-----------------------------------------------------------------------------
(***************************************************************************)
(* The steps that write the flash.                                         *)
(***************************************************************************)
Put(f, area, block, c, g) == g = [f EXCEPT ![area][block] = c]

LEMMA PutIs ==
  ASSUME NEW p, NEW f \in Flashes(p), NEW area \in Areas, NEW block \in 1..2,
         NEW c \in GoodBlocks(p), NEW g, Put(f, area, block, c, g)
  PROVE  /\ g \in Flashes(p)
         /\ \A a \in Areas, b \in 1..2 :
              g[a][b] = IF a = area /\ b = block THEN c ELSE f[a][b]
<1> DEFINE e == [f EXCEPT ![area][block] = c]
<1>1. /\ e \in Flashes(p)
      /\ \A a \in Areas, b \in 1..2 :
           e[a][b] = IF a = area /\ b = block THEN c ELSE f[a][b]
  BY BlockSet
<1>2. g = e
  BY DEF Put
<1> HIDE DEF e
<1> QED
  BY <1>1, <1>2

LEMMA AreasAre == "work" \in Areas /\ "spare" \in Areas /\ 1 \in 1..2 /\ 2 \in 1..2
BY DEF Areas

LEMMA BlockWritten ==
  ASSUME IInv, NEW a \in Areas, NEW b \in 1..2, NEW c \in GoodBlocks(platform),
         SetBlock(a, b, c), platform' = platform, buffer' = buffer, spareBuffer' = spareBuffer
  PROVE  /\ Stored'
         /\ \A x \in Areas, y \in 1..2 : flash'[x][y] = IF x = a /\ y = b THEN c ELSE flash[x][y]
<1>1. flash \in Flashes(platform) /\ Put(flash, a, b, c, flash')
  BY DEF IInv, Stored, SetBlock, Put
<1>2. /\ flash' \in Flashes(platform)
      /\ \A x \in Areas, y \in 1..2 : flash'[x][y] = IF x = a /\ y = b THEN c ELSE flash[x][y]
  BY <1>1, PutIs
<1>3. flash' \in Flashes(platform') /\ buffer' \in Images(platform') /\ spareBuffer' \in Images(platform')
  BY <1>1, <1>2 DEF IInv, Stored
<1>4. Stored'
  BY <1>3 DEF Stored
<1> QED
  BY <1>1, <1>2, <1>4

\* A space with room is where it was, or was copied.
LEMMA RoomStays ==
  ASSUME platform' = platform, NEW c, NEW d, Roomy(platform, c), d = c
  PROVE  Roomy(platform', d)
OBVIOUS

\* What a step leaves alone when it goes on.
LEMMA Around ==
  ASSUME IInv, UNCHANGED <<counters, header, record, offset, request, up>>
  PROVE  Placed' /\ Pointed' /\ Requested'
BY DEF IInv, Placed, Pointed, Requested, counters

LEMMA EraseKeeps == IInv /\ Erase => IInv'
<1> SUFFICES ASSUME IInv, Erase PROVE IInv'
  OBVIOUS
<1> DEFINE s == Head(todo)
<1>1. todo # <<>> /\ s.do = "Erase" /\ SetBlock(s.area, s.block, Erased)
      /\ todo' = Tail(todo) /\ UNCHANGED <<counters, header, record, offset, request, up>>
      /\ platform' = platform /\ buffer' = buffer /\ spareBuffer' = spareBuffer
  BY DEF Erase, At, GoOn, volatile, counters
<1>2. s \in Steps(request.op) /\ Looked(s) /\ Cleared(s)
  BY <1>1, HeadIs
<1>3. s.area \in Areas /\ s.block \in 1..2
  BY <1>1, <1>2 DEF Steps, Writers
<1>4. /\ Stored'
      /\ \A x \in Areas, y \in 1..2 :
           flash'[x][y] = IF x = s.area /\ y = s.block THEN Erased ELSE flash[x][y]
  BY <1>1, <1>3, BlockWritten, ContentsGood
<1>5. Placed' /\ Pointed' /\ Requested'
  BY <1>1, Around
<1>6. ASSUME NEW k \in 1..19, s = ReclaimSteps[k], k \in Rooms PROVE k + 1 \in Rooms'
  <2>1. k \in {2, 3, 11, 12, 16, 17} /\ (k \in {16, 17} => s.area = "spare")
    BY <1>1, <1>6, ReclaimStepIs
  <2>2. Room(k)
    BY <1>6 DEF Rooms
  <2>3. CASE k \in {2, 3, 11, 12}
    <3>1. Roomy(platform, buffer[2])
      BY <2>2, <2>3 DEF Room
    <3>2. Roomy(platform, buffer[2])'
      BY <1>1, <3>1 DEF Roomy
    <3> QED
      BY <2>3, <3>2 DEF Room, Rooms
  <2>4. CASE k \in {16, 17}
    <3>1. Roomy(platform, flash["work"][2])
      BY <2>2, <2>4 DEF Room
    <3>2. flash'["work"][2] = flash["work"][2]
      BY <1>4, <2>1, <2>4, AreasAre
    <3>3. Roomy(platform', flash'["work"][2])
      BY <1>1, <3>1, <3>2, RoomStays
    <3> QED
      BY <2>4, <3>3 DEF Room, Rooms
  <2> QED
    BY <2>1, <2>3, <2>4
<1>7. /\ Planned'
      /\ todo' # <<>> => Head(todo') \in Steps(request'.op) /\ Follows(request'.op, s, Head(todo'))
  BY <1>1, <1>6, GoneOn
<1>8. Ready'
  <2> SUFFICES ASSUME todo' # <<>> PROVE Looked(Head(todo))' /\ Cleared(Head(todo))'
    BY DEF Ready
  <2> DEFINE t == Head(todo')
  <2>1. t \in Steps(request'.op) /\ Follows(request'.op, s, t)
    BY <1>7
  <2>2. /\ t.do \notin {"AllocateHeader", "NeedHeader", "CheckRecord", "WriteHeader",
                        "WritesAllocated", "WriteRecord"}
        /\ ~(t.do = "Success" /\ request'.op = "allocate")
    BY <1>1, <2>1 DEF Follows
  <2>3. t.do \in Writers => t.area \in Areas /\ t.block \in 1..2
    BY <2>1 DEF Steps
  <2> HIDE DEF s, t
  <2>4. t.do = "Erase" /\ t.block = 2 => flash'[t.area][1] = Erased
    BY <1>3, <1>4, <2>1, <2>3 DEF Follows, Writers
  <2>5. t.do \in {"Write", "Restore"} => /\ t.block = 1 /\ s.area = t.area /\ s.block = 2
    BY <1>1, <2>1, <2>3 DEF Follows, Writers
  <2>6. t.do \in {"Write", "Restore"} => flash'[t.area][2] = Erased /\ flash'[t.area][1] = Erased
    <3>1. s.block = 2 => flash[s.area][1] = Erased
      BY <1>1, <1>2 DEF Cleared
    <3> QED
      BY <1>3, <1>4, <2>5, <3>1
  <2>7. Looked(Head(todo))'
    BY <2>2 DEF Looked, t
  <2>8. Cleared(Head(todo))'
    BY <2>4, <2>6 DEF Cleared, t
  <2> QED
    BY <2>7, <2>8
<1> QED
  BY <1>4, <1>5, <1>7, <1>8 DEF IInv

\* Write and Restore put a block of a memory copy where it was erased.
LEMMA CopyKeeps ==
  ASSUME IInv, Write \/ Restore
  PROVE  IInv'
<1> DEFINE s == Head(todo)
           c == IF s.do = "Write" THEN buffer[s.block] ELSE spareBuffer[s.block]
<1>1. todo # <<>> /\ s.do \in {"Write", "Restore"} /\ SetBlock(s.area, s.block, c)
      /\ todo' = Tail(todo) /\ UNCHANGED <<counters, header, record, offset, request, up>>
      /\ platform' = platform /\ buffer' = buffer /\ spareBuffer' = spareBuffer
  BY DEF Write, Restore, At, GoOn, volatile, counters
<1>2. s \in Steps(request.op) /\ Looked(s) /\ Cleared(s)
  BY <1>1, HeadIs
<1>3. s.area \in Areas /\ s.block \in 1..2 /\ (s.do = "Restore" => s.area = "spare")
  BY <1>1, <1>2 DEF Steps, Writers
<1>4. c \in GoodBlocks(platform)
  BY <1>3 DEF IInv, Stored, Images
<1> HIDE DEF c
<1>5. /\ Stored'
      /\ \A x \in Areas, y \in 1..2 :
           flash'[x][y] = IF x = s.area /\ y = s.block THEN c ELSE flash[x][y]
  BY <1>1, <1>3, <1>4, BlockWritten
<1>6. Placed' /\ Pointed' /\ Requested'
  BY <1>1, Around
<1>7. ASSUME NEW k \in 1..19, s = ReclaimSteps[k], k \in Rooms PROVE k + 1 \in Rooms'
  <2>1. \/ s.do = "Write" /\ k \in {4, 13}
        \/ s.do = "Write" /\ k = 5 /\ s.area = "spare" /\ s.block = 2
        \/ s.do = "Write" /\ k = 14 /\ s.area = "work" /\ s.block = 2
        \/ s.do = "Restore" /\ k \in {18, 19}
    <3>1. s.do = "Write" => k \in {4, 13} \/ (k = 5 /\ s.area = "spare" /\ s.block = 2)
                            \/ (k = 14 /\ s.area = "work" /\ s.block = 2)
      BY <1>7, ReclaimStepIs
    <3>2. s.do = "Restore" => k \in {18, 19}
      BY <1>7, ReclaimStepIs
    <3> HIDE DEF s
    <3> QED
      BY <1>1, <3>1, <3>2
  <2>2. Room(k)
    BY <1>7 DEF Rooms
  <2>3. CASE k \in {4, 13}
    <3>1. Roomy(platform, buffer[2])
      BY <2>2, <2>3 DEF Room
    <3>2. Roomy(platform, buffer[2])'
      BY <1>1, <3>1 DEF Roomy
    <3> QED
      BY <2>3, <3>2 DEF Room, Rooms
  <2>4. CASE s.do = "Write" /\ k = 5 /\ s.area = "spare" /\ s.block = 2
    <3>1. Roomy(platform, buffer[2])
      BY <2>2, <2>4 DEF Room
    <3>2. flash'["spare"][2] = buffer[2]
      <4>1. flash'["spare"][2] = c
        BY <1>5, <2>4, AreasAre
      <4> QED
        BY <2>4, <4>1 DEF c
    <3>3. Roomy(platform', flash'["spare"][2])
      BY <1>1, <3>1, <3>2, RoomStays
    <3> QED
      BY <2>4, <3>3 DEF Room, Rooms
  <2>5. CASE s.do = "Write" /\ k = 14 /\ s.area = "work" /\ s.block = 2
    <3>1. Roomy(platform, buffer[2])
      BY <2>2, <2>5 DEF Room
    <3>2. flash'["work"][2] = buffer[2]
      <4>1. flash'["work"][2] = c
        BY <1>5, <2>5, AreasAre
      <4> QED
        BY <2>5, <4>1 DEF c
    <3>3. Roomy(platform', flash'["work"][2])
      BY <1>1, <3>1, <3>2, RoomStays
    <3> QED
      BY <2>5, <3>3 DEF Room, Rooms
  <2>6. CASE s.do = "Restore" /\ k \in {18, 19}
    <3>1. Roomy(platform, flash["work"][2])
      BY <2>2, <2>6 DEF Room
    <3>2. flash'["work"][2] = flash["work"][2]
      BY <1>3, <1>5, <2>6, AreasAre
    <3>3. Roomy(platform', flash'["work"][2])
      BY <1>1, <3>1, <3>2, RoomStays
    <3> QED
      BY <2>6, <3>3 DEF Room, Rooms
  <2> QED
    BY <2>1, <2>3, <2>4, <2>5, <2>6
<1>8. /\ Planned'
      /\ todo' # <<>> => Head(todo') \in Steps(request'.op) /\ Follows(request'.op, s, Head(todo'))
  BY <1>1, <1>7, GoneOn
<1>9. Ready'
  <2> SUFFICES ASSUME todo' # <<>> PROVE Looked(Head(todo))' /\ Cleared(Head(todo))'
    BY DEF Ready
  <2> DEFINE t == Head(todo')
  <2>1. t \in Steps(request'.op) /\ Follows(request'.op, s, t)
    BY <1>8
  <2>2. /\ t.do \notin {"AllocateHeader", "NeedHeader", "CheckRecord", "WriteHeader",
                        "WritesAllocated", "WriteRecord"}
        /\ ~(t.do = "Success" /\ request'.op = "allocate")
    BY <1>1, <2>1 DEF Follows
  <2>3. t.do \in Writers => t.area \in Areas /\ t.block \in 1..2
    BY <2>1 DEF Steps
  <2>4. flash[s.area][2] = Erased
    BY <1>1, <1>2 DEF Cleared
  <2> HIDE DEF s, t
  <2>5. ~(t.do = "Erase" /\ t.block = 2)
    BY <1>1, <2>1 DEF Follows
  <2>6. t.do \in {"Write", "Restore"} => t.block = 2 /\ s.area = t.area /\ s.block = 1
    BY <1>1, <2>1, <2>3 DEF Follows, Writers
  <2>7. t.do \in {"Write", "Restore"} => flash'[t.area][2] = Erased
    BY <1>3, <1>5, <2>4, <2>6
  <2>8. Looked(Head(todo))'
    BY <2>2 DEF Looked, t
  <2>9. Cleared(Head(todo))'
    BY <2>5, <2>6, <2>7 DEF Cleared, t
  <2> QED
    BY <2>8, <2>9
<1> QED
  BY <1>5, <1>6, <1>8, <1>9 DEF IInv

\* The bits of the working block header do not concern the queue.
LEMMA MarkValidKeeps ==
  ASSUME IInv, MarkValid \/ MarkInvalid
  PROVE  IInv'
<1> DEFINE s == Head(todo)
           a == s.area
           c == IF s.do = "WorkingBlockValid" THEN [Space(a) EXCEPT !.valid = TRUE]
                ELSE [Space(a) EXCEPT !.invalid = TRUE]
<1>1. todo # <<>> /\ s.do \in {"WorkingBlockValid", "WorkingBlockInvalid"} /\ SetBlock(a, 2, c)
      /\ todo' = Tail(todo) /\ UNCHANGED <<counters, header, record, offset, request, up>>
      /\ platform' = platform /\ buffer' = buffer /\ spareBuffer' = spareBuffer
  BY DEF MarkValid, MarkInvalid, At, GoOn, volatile, counters
<1>2. a \in Areas
  BY <1>1, HeadIs DEF Steps, Marks
<1>3. c \in GoodBlocks(platform) /\ SpaceOf(platform, c) = c /\ c.queue = Queue(a)
  <2> DEFINE d == [Space(a) EXCEPT !.valid = TRUE]
             e == [Space(a) EXCEPT !.invalid = TRUE]
  <2>1. Space(a) \in GoodSpaces(platform) /\ Queue(a) = Space(a).queue
    BY <1>2, SpaceIs
  <2>2. /\ d \in GoodBlocks(platform) /\ SpaceOf(platform, d) = d /\ d.queue = Space(a).queue
        /\ e \in GoodBlocks(platform) /\ SpaceOf(platform, e) = e /\ e.queue = Space(a).queue
    BY <2>1, SpaceWritten
  <2>3. c = d \/ c = e
    OBVIOUS
  <2> HIDE DEF c, d, e
  <2> QED
    BY <2>1, <2>2, <2>3
<1> HIDE DEF c
<1>4. 2 \in 1..2
  OBVIOUS
<1>5. /\ Stored'
      /\ \A x \in Areas, y \in 1..2 : flash'[x][y] = IF x = a /\ y = 2 THEN c ELSE flash[x][y]
  BY <1>1, <1>2, <1>3, <1>4, BlockWritten
<1>6. \A x \in Areas : SpaceOf(platform, flash'[x][2]).queue = SpaceOf(platform, flash[x][2]).queue
  BY <1>2, <1>3, <1>5, SpaceIs
<1>7. Placed' /\ Pointed' /\ Requested'
  BY <1>1, Around
<1>8. ASSUME NEW k \in 1..19, s = ReclaimSteps[k], k \in Rooms PROVE k + 1 \in Rooms'
  <2>1. k \in {6, 8, 15, 7, 10}
    <3>1. /\ s.do = "WorkingBlockValid" => k \in {6, 8, 15}
          /\ s.do = "WorkingBlockInvalid" => k \in {7, 10}
      BY <1>8, ReclaimStepIs
    <3> HIDE DEF s
    <3> QED
      BY <1>1, <3>1
  <2>2. Room(k)
    BY <1>8 DEF Rooms
  <2>3. "work" \in Areas /\ "spare" \in Areas
    BY DEF Areas
  <2>4. /\ Roomy(platform, flash["work"][2]) => Roomy(platform, flash["work"][2])'
        /\ Roomy(platform, flash["spare"][2]) => Roomy(platform, flash["spare"][2])'
        /\ Roomy(platform, buffer[2]) => Roomy(platform, buffer[2])'
    BY <1>1, <1>6, <2>3 DEF Roomy
  <2> HIDE DEF s
  <2>5. CASE k \in {6, 7, 8}
    BY <2>2, <2>4, <2>5 DEF Room, Rooms
  <2>6. CASE k = 10
    BY <2>2, <2>4, <2>6 DEF Room, Rooms
  <2>7. CASE k = 15
    BY <2>2, <2>4, <2>7 DEF Room, Rooms
  <2> QED
    BY <2>1, <2>5, <2>6, <2>7
<1>9. Planned'
  BY <1>1, <1>8, GoneOn
<1>10. s.do \notin Leading
  BY <1>1 DEF Leading, Writers
<1>11. Ready'
  BY <1>1, <1>10, NextIsFree, ReadyFree
<1> QED
  BY <1>5, <1>7, <1>9, <1>11 DEF IInv

-----------------------------------------------------------------------------
(***************************************************************************)
(* Going on, putting steps in front, returning.                            *)
(***************************************************************************)
LEMMA WentOn ==
  ASSUME IInv, todo # <<>>, todo' = Tail(todo), request' = request,
         Head(todo).do \notin Leading \cup Reclaiming, Head(todo).do # "ReclaimWhenFull"
  PROVE  Planned' /\ Ready'
<1>1. \A k \in 1..19 : Head(todo) # ReclaimSteps[k]
  BY NotReclaiming
<1>2. Planned'
  BY <1>1, GoneOn
<1>3. todo' # <<>> => Free(request'.op, Head(todo'))
  BY NextIsFree
<1> QED
  BY <1>2, <1>3, ReadyFree

LEMMA Inserted ==
  ASSUME IInv, todo # <<>>, NEW s, NEW f, NEW l, Procedure(request.op, s, f, l),
         Free(request.op, f), todo' = s \o Tail(todo), request' = request,
         Head(todo).do \notin Leading \cup Reclaiming,
         Head(todo).do = "ReclaimWhenFull" => s = FtwReclaimWorkSpace("CleanUp")
  PROVE  Planned' /\ Ready'
<1>1. Tail(todo) # <<>> => Follows(request.op, l, Head(Tail(todo)))
  BY NextIsFree
<1>2. Planned' /\ todo' # <<>> /\ Head(todo') = f
  BY <1>1, PutIn
<1> QED
  BY <1>2, ReadyFree

\* With nothing to do there is nothing to plan.
LEMMA NothingToDo ==
  ASSUME todo' = <<>>
  PROVE  Planned' /\ Ready'
<1>1. Linked(request'.op, todo')
  BY DEF Linked
<1>2. Tracked(todo, Rooms)'
  <2> DEFINE K == Rooms'
  <2>1. Tracked(<<>>, K)
    BY DEF Tracked
  <2> HIDE DEF K
  <2>2. Tracked(todo', K)
    BY <2>1
  <2> QED
    BY <2>2 DEF K
<1> QED
  BY <1>1, <1>2 DEF Planned, Ready

LEMMA Kept3 ==
  ASSUME IInv, UNCHANGED <<flash, header, record, offset, buffer, spareBuffer, platform>>
  PROVE  Stored' /\ Pointed'
BY DEF IInv, Stored, Pointed

LEMMA Returned ==
  ASSUME IInv, NEW s, Return(s), UNCHANGED <<flash, volatile, platform, calls, crashes>>,
         faults' \in 0..platform.faults
  PROVE  IInv'
<1>1. Stored' /\ Pointed'
  BY Kept3 DEF volatile
<1>2. Placed'
  BY DEF Return, IInv, Placed
<1>3. Requested'
  BY DEF Return, NoRequest, Requested
<1>4. Planned' /\ Ready'
  BY NothingToDo DEF Return
<1> QED
  BY <1>1, <1>2, <1>3, <1>4 DEF IInv

LEMMA ReturnKeeps ==
  ASSUME IInv, Success \/ NotFound \/ DeviceError
  PROVE  IInv'
<1>1. platform \in Platforms /\ platform.faults \in Nat /\ faults \in 0..platform.faults
  BY PlatformIs DEF IInv, Placed
<1>2. CASE Success
  BY <1>1, <1>2, Returned DEF Success, counters
<1>3. CASE NotFound
  BY <1>1, <1>3, Returned DEF NotFound, counters
<1>4. CASE DeviceError
  BY <1>1, <1>4, Returned DEF DeviceError
<1> QED
  BY <1>2, <1>3, <1>4

-----------------------------------------------------------------------------
(***************************************************************************)
(* The queue is written.                                                   *)
(***************************************************************************)
LEMMA QueueNext ==
  \A a \in Areas : Queue(a)' = SpaceOf(platform', flash'[a][2]).queue
BY DEF Queue, Space, AsSpace, SpaceOf, EmptyQueue, Blank, Cells, QueueSize

WithQueue(s, q) == [s EXCEPT !.queue = q]

LEMMA WithQueueIs ==
  ASSUME NEW p, NEW s \in GoodSpaces(p), NEW q \in GoodQueues(p)
  PROVE  /\ WithQueue(s, q) \in GoodBlocks(p) /\ SpaceOf(p, WithQueue(s, q)) = WithQueue(s, q)
         /\ WithQueue(s, q).queue = q
<1>1. WithQueue(s, q) \in GoodSpaces(p) /\ WithQueue(s, q).queue = q
  BY DEF GoodSpaces, WithQueue
<1>2. \A x \in GoodSpaces(p) : x \in GoodBlocks(p) /\ SpaceOf(p, x) = x
  BY DEF GoodSpaces, GoodBlocks, SpaceOf
<1> QED
  BY <1>1, <1>2

LEMMA QueueWritten ==
  ASSUME IInv, NEW a \in Areas, NEW q \in GoodQueues(platform),
         SetBlock(a, 2, [Space(a) EXCEPT !.queue = q]),
         platform' = platform, buffer' = buffer, spareBuffer' = spareBuffer
  PROVE  /\ Stored' /\ Queue(a)' = q
         /\ \A x \in Areas, y \in 1..2 : x # a \/ y # 2 => flash'[x][y] = flash[x][y]
<1> DEFINE c == WithQueue(Space(a), q)
<1>1. Space(a) \in GoodSpaces(platform)
  BY SpaceIs
<1>2. c \in GoodBlocks(platform) /\ SpaceOf(platform, c) = c /\ c.queue = q
  BY <1>1, WithQueueIs
<1> HIDE DEF c
<1>3. SetBlock(a, 2, c)
  BY DEF c, WithQueue
<1>4. /\ Stored'
      /\ \A x \in Areas, y \in 1..2 : flash'[x][y] = IF x = a /\ y = 2 THEN c ELSE flash[x][y]
  BY <1>2, <1>3, AreasAre, BlockWritten
<1>5. flash'[a][2] = c
  BY <1>4, AreasAre
<1>6. Queue(a)' = q
  BY <1>2, <1>5, QueueNext
<1> QED
  BY <1>4, <1>6

LEMMA CellWritten ==
  ASSUME NEW a, NEW c, NEW cell, SetCell(a, c, cell)
  PROVE  SetBlock(a, 2, [Space(a) EXCEPT !.queue = [Queue(a) EXCEPT ![c] = cell]])
BY DEF SetCell, Queue

LEMMA BitWritten ==
  ASSUME IInv, NEW a \in Areas, NEW c \in 1..platform.queue, NEW bit \in Bits, SetBit(a, c, bit),
         platform' = platform, buffer' = buffer, spareBuffer' = spareBuffer
  PROVE  /\ Stored' /\ Queue(a)' = Marked(Queue(a), c, bit)
         /\ \A x \in Areas, y \in 1..2 : x # a \/ y # 2 => flash'[x][y] = flash[x][y]
<1> DEFINE q == Marked(Queue(a), c, bit)
<1>1. SetCell(a, c, WithBit(Queue(a)[c], bit))
  BY DEF SetBit, WithBit, Queue
<1>2. SetBlock(a, 2, [Space(a) EXCEPT !.queue = q])
  BY <1>1, CellWritten DEF Marked
<1>3. GoodQueue(Queue(a))
  BY SpaceIs
<1>4. q \in GoodQueues(platform)
  <2>1. q \in Queues(platform.queue, HeaderWrites(platform), RecordTargets(platform))
    BY <1>3, SizesAre, MarkedIs DEF GoodQueue
  <2>2. InOrder(q, platform.queue)
    BY <1>3, SizesAre, MarkInOrder DEF GoodQueue
  <2> QED
    BY <2>1, <2>2 DEF GoodQueues
<1> HIDE DEF q
<1>5. /\ Stored' /\ Queue(a)' = q
      /\ \A x \in Areas, y \in 1..2 : x # a \/ y # 2 => flash'[x][y] = flash[x][y]
  BY <1>2, <1>4, QueueWritten
<1> QED
  BY <1>5 DEF q

LEMMA MarkKeeps ==
  ASSUME IInv, MarkSpareComplete \/ MarkDestComplete \/ MarkComplete
  PROVE  IInv'
<1>1. /\ todo # <<>> /\ Head(todo).do \in {"spareComplete", "destComplete", "complete"}
      /\ Head(todo).do = "spareComplete" => SetBit(Head(todo).area, record, "spareComplete")
      /\ Head(todo).do = "destComplete" => SetBit("work", record, "destComplete")
      /\ Head(todo).do = "complete" => SetBit("work", header, "complete")
      /\ todo' = Tail(todo) /\ UNCHANGED <<counters, header, record, offset, request, up>>
      /\ platform' = platform /\ buffer' = buffer /\ spareBuffer' = spareBuffer
  <2>1. CASE MarkSpareComplete
    BY <2>1 DEF MarkSpareComplete, At, GoOn, volatile, counters
  <2>2. CASE MarkDestComplete
    BY <2>2 DEF MarkDestComplete, At, GoOn, volatile, counters
  <2>3. CASE MarkComplete
    BY <2>3 DEF MarkComplete, At, GoOn, volatile, counters
  <2> QED
    BY <2>1, <2>2, <2>3
<1>2. Head(todo).area \in Areas
  BY <1>1, HeadIs DEF Steps, Marks
<1>3. PICK a \in Areas, c \in {header, record}, bit \in Bits : SetBit(a, c, bit)
  BY <1>1, <1>2, AreasAre DEF Bits
<1>4. c \in 1..platform.queue
  BY SizesAre DEF IInv, Pointed
<1>5. Stored'
  BY <1>1, <1>3, <1>4, BitWritten
<1>6. Placed' /\ Pointed' /\ Requested'
  BY <1>1, Around
<1>7. Head(todo).do \notin Leading \cup Reclaiming /\ Head(todo).do # "ReclaimWhenFull"
  BY <1>1 DEF Leading, Reclaiming, Writers
<1>8. Planned' /\ Ready'
  BY <1>1, <1>7, WentOn
<1> QED
  BY <1>5, <1>6, <1>8 DEF IInv

\* The writes asked for by an allocation are numbers that headers may have.
LEMMA WritesAre ==
  ASSUME IInv, request.op \in {"allocate", "write"}
  PROVE  request.writes \in HeaderWrites(platform) /\ request.writes \in Nat /\ request.writes # 0
<1>1. platform \in Platforms
  BY SizesAre
<1>2. request.writes \in HeaderWrites(platform)
  BY <1>1, PlatformIs DEF IInv, Requested
<1> QED
  BY <1>2, SizesAre DEF Counts

\* What a step that looks at the last header finds.
LEMMA FreshIs ==
  ASSUME IInv, Fresh
  PROVE  LET q == Queue("work")
             n == platform.queue
         IN  /\ LastHeader(q, n) = header /\ LastRecord(q, n, header) = record
             /\ GoodQueue(q) /\ q \in Queues(n, HeaderWrites(platform), RecordTargets(platform))
             /\ InOrder(q, n) /\ n \in Nat /\ HeaderWrites(platform) \in SUBSET Counts
             /\ header \in 1..(n - 1) /\ header \in 1..n /\ record \in 1..n
<1>1. GoodQueue(Queue("work"))
  BY AreasAre, SpaceIs
<1>2. /\ header \in 1..(platform.queue - 1) /\ header \in 1..platform.queue
      /\ record \in 1..platform.queue
  BY SizesAre DEF IInv, Pointed
<1> QED
  BY <1>1, <1>2, SizesAre DEF GoodQueue, Fresh

LEMMA FreshNext ==
  ASSUME NEW q, Queue("work")' = q, platform' = platform, header' = header, record' = record,
         LastHeader(q, platform.queue) = header, LastRecord(q, platform.queue, header) = record
  PROVE  Fresh'
<1>1. /\ header' = LastHeader(Queue("work")', platform'.queue)
      /\ record' = LastRecord(Queue("work")', platform'.queue, header')
  OBVIOUS
<1> QED
  BY <1>1 DEF Fresh

LEMMA ServedNext ==
  ASSUME NEW q, Queue("work")' = q, platform' = platform, header' = header, request' = request,
         Allocated(q, header), q[header].writes = request.writes,
         Untouched(q, platform.queue, header)
  PROVE  Served' /\ Allocated(Queue("work"), header)'
<1>1. /\ Allocated(Queue("work")', header') /\ Queue("work")'[header'].writes = request'.writes
      /\ Untouched(Queue("work")', platform'.queue, header')
  BY DEF Allocated
<1> QED
  BY <1>1 DEF Served, Allocated

LEMMA AllocateWriteHeaderKeeps == IInv /\ AllocateWriteHeader => IInv'
<1> SUFFICES ASSUME IInv, AllocateWriteHeader PROVE IInv'
  OBVIOUS
<1> DEFINE s == Head(todo)
           n == platform.queue
           q == Queue("work")
           w == request.writes
           r == [q EXCEPT ![header] = WriteHeader(w)]
<1>1. /\ todo # <<>> /\ s.do = "WriteHeader" /\ SetCell("work", offset, WriteHeader(w))
      /\ todo' = Tail(todo) /\ UNCHANGED <<counters, header, record, offset, request, up>>
      /\ platform' = platform /\ buffer' = buffer /\ spareBuffer' = spareBuffer
  BY DEF AllocateWriteHeader, At, GoOn, volatile, counters
<1>2. s \in Steps(request.op) /\ Looked(s)
  BY <1>1, HeadIs
<1>3. /\ Fresh /\ offset = header /\ ~Allocated(q, header) /\ header + w <= n
      /\ request.op \in {"allocate", "write"}
  BY <1>1, <1>2 DEF Looked, Steps
<1>4. /\ LastHeader(q, n) = header /\ LastRecord(q, n, header) = record
      /\ q \in Queues(n, HeaderWrites(platform), RecordTargets(platform)) /\ InOrder(q, n)
      /\ n \in Nat /\ HeaderWrites(platform) \in SUBSET Counts /\ header \in 1..n
      /\ w \in HeaderWrites(platform)
  BY <1>3, FreshIs, WritesAre
<1>5. /\ r \in Queues(n, HeaderWrites(platform), RecordTargets(platform)) /\ InOrder(r, n)
      /\ LastHeader(r, n) = header
      /\ Allocated(r, header) /\ r[header].writes = w /\ Untouched(r, n, header)
      /\ LastRecord(q, n, header) = header + 1 /\ LastRecord(r, n, header) = header + 1
  <2> HIDE DEF n, q, w, s
  <2> QED
    BY <1>3, <1>4, HeaderWritten
<1>6. r \in GoodQueues(platform)
  BY <1>5 DEF GoodQueues
<1>7. SetBlock("work", 2, [Space("work") EXCEPT !.queue = r])
  BY <1>1, <1>3, CellWritten
<1> HIDE DEF r
<1>8. /\ Stored' /\ Queue("work")' = r
  BY <1>1, <1>6, <1>7, AreasAre, QueueWritten
<1>9. Fresh'
  BY <1>1, <1>4, <1>5, <1>8, FreshNext
<1>10. Served'
  BY <1>1, <1>5, <1>8, ServedNext
<1>11. Placed' /\ Pointed' /\ Requested'
  BY <1>1, Around
<1>12. \A k \in 1..19 : s # ReclaimSteps[k]
  BY <1>1, NotReclaiming DEF Reclaiming, Writers
<1>13. /\ Planned'
       /\ todo' # <<>> => Head(todo') \in Steps(request'.op) /\ Follows(request'.op, s, Head(todo'))
  BY <1>1, <1>12, GoneOn
<1>14. Ready'
  <2> SUFFICES ASSUME todo' # <<>> PROVE Looked(Head(todo))' /\ Cleared(Head(todo))'
    BY DEF Ready
  <2> DEFINE t == Head(todo')
  <2>1. t \in Steps(request'.op) /\ Follows(request'.op, s, t)
    BY <1>13
  <2>2. CASE Free(request'.op, t)
    BY <2>2, ReadyFree DEF Ready
  <2>3. CASE t.do = "WritesAllocated"
    <3>1. offset' = header'
      BY <1>1, <1>3
    <3> QED
      BY <1>9, <1>10, <2>3, <3>1 DEF Looked, Cleared
  <2>4. t.do = "WritesAllocated" \/ Free(request'.op, t)
    BY <1>1, <2>1 DEF Free, Follows, Steps, Writers
  <2> QED
    BY <2>2, <2>3, <2>4
<1> QED
  BY <1>8, <1>11, <1>13, <1>14 DEF IInv

LEMMA MarkWritesAllocatedKeeps == IInv /\ MarkWritesAllocated => IInv'
<1> SUFFICES ASSUME IInv, MarkWritesAllocated PROVE IInv'
  OBVIOUS
<1> DEFINE s == Head(todo)
           n == platform.queue
           q == Queue("work")
           r == Marked(q, header, "writesAllocated")
<1>1. /\ todo # <<>> /\ s.do = "WritesAllocated" /\ SetBit("work", offset, "writesAllocated")
      /\ todo' = Tail(todo) /\ UNCHANGED <<counters, header, record, offset, request, up>>
      /\ platform' = platform /\ buffer' = buffer /\ spareBuffer' = spareBuffer
  BY DEF MarkWritesAllocated, At, GoOn, volatile, counters
<1>2. s \in Steps(request.op) /\ Looked(s)
  BY <1>1, HeadIs
<1>3. Fresh /\ offset = header /\ Served
  BY <1>1, <1>2 DEF Looked
<1>4. /\ LastHeader(q, n) = header /\ LastRecord(q, n, header) = record
      /\ q \in Queues(n, HeaderWrites(platform), RecordTargets(platform)) /\ InOrder(q, n)
      /\ n \in Nat /\ HeaderWrites(platform) \in SUBSET Counts /\ header \in 1..n
      /\ header \in 1..(n - 1)
  BY <1>3, FreshIs
<1>5. Allocated(q, header) /\ q[header].writes = request.writes /\ Untouched(q, n, header)
  BY <1>3 DEF Served
<1>6. /\ LastHeader(r, n) = header /\ LastRecord(r, n, header) = header + 1
      /\ Allocated(r, header) /\ r[header].writes = q[header].writes /\ r[header].writesAllocated
      /\ Untouched(r, n, header)
  <2> HIDE DEF n, q, s
  <2> QED
    BY <1>4, <1>5, AllocationMarked
<1>7. record = header + 1
  <2>1. ~DestDone(q, header + 1)
    <3>1. /\ header + 1 \in (header + 1)..n
          /\ q[header].writes \in Nat /\ q[header].writes # 0
      <4> HIDE DEF n, q
      <4>1. request.op \in {"allocate", "write"}
        BY <1>1, <1>2 DEF Steps
      <4>2. q[header].writes \in Nat /\ q[header].writes # 0
        BY <1>5, <4>1, WritesAre
      <4> QED
        BY <1>4, <4>2
    <3>2. q[header + 1] = EmptyCell
      <4> HIDE DEF n, q
      <4> QED
        BY <1>4, <1>5, <3>1 DEF Untouched
    <3> QED
      BY <3>2 DEF DestDone, EmptyCell
  <2> HIDE DEF n, q, s
  <2> QED
    BY <1>4, <2>1, RecordPlace
<1>8. /\ Stored' /\ Queue("work")' = r
  BY <1>1, <1>3, <1>4, AreasAre, BitWritten DEF Bits
<1> HIDE DEF r
<1>9. Fresh'
  BY <1>1, <1>6, <1>7, <1>8, FreshNext
<1>10. Served' /\ Allocated(Queue("work"), header)'
  BY <1>1, <1>5, <1>6, <1>8, ServedNext
<1>11. Placed' /\ Pointed' /\ Requested'
  BY <1>1, Around
<1>12. \A k \in 1..19 : s # ReclaimSteps[k]
  BY <1>1, NotReclaiming DEF Reclaiming, Writers
<1>13. /\ Planned'
       /\ todo' # <<>> => Head(todo') \in Steps(request'.op) /\ Follows(request'.op, s, Head(todo'))
  BY <1>1, <1>12, GoneOn
<1>14. Ready'
  <2> SUFFICES ASSUME todo' # <<>> PROVE Looked(Head(todo))' /\ Cleared(Head(todo))'
    BY DEF Ready
  <2> DEFINE t == Head(todo')
  <2>1. t \in Steps(request'.op) /\ Follows(request'.op, s, t)
    BY <1>13
  <2>2. CASE Free(request'.op, t)
    BY <2>2, ReadyFree DEF Ready
  <2>3. CASE t.do = "CheckRecord"
    BY <1>9, <1>10, <2>3 DEF Looked, Cleared
  <2>4. CASE t.do = "Success" /\ request'.op = "allocate"
    <3>1. Queue("work")'[header'].writesAllocated
      BY <1>1, <1>6, <1>8
    <3> QED
      BY <1>9, <1>10, <2>4, <3>1 DEF Looked, Cleared, Fresh
  <2>5. t.do = "CheckRecord" \/ (t.do = "Success" /\ request'.op = "allocate") \/ Free(request'.op, t)
    BY <1>1, <2>1 DEF Free, Follows, Steps, Writers
  <2> QED
    BY <2>2, <2>3, <2>4, <2>5
<1> QED
  BY <1>8, <1>11, <1>13, <1>14 DEF IInv

LEMMA WriteRecordCellKeeps == IInv /\ WriteRecordCell => IInv'
<1> SUFFICES ASSUME IInv, WriteRecordCell PROVE IInv'
  OBVIOUS
<1> DEFINE s == Head(todo)
           n == platform.queue
           q == Queue("work")
<1>1. /\ todo # <<>> /\ s.do = "WriteRecord"
      /\ todo' = Tail(todo) /\ UNCHANGED <<counters, header, record, offset, request, up>>
      /\ platform' = platform /\ buffer' = buffer /\ spareBuffer' = spareBuffer
  BY DEF WriteRecordCell, At, GoOn, volatile, counters
<1>2. s \in Steps(request.op) /\ Looked(s)
  BY <1>1, HeadIs
<1>3. /\ Fresh /\ Allocated(q, header) /\ ~DestDone(q, record) /\ request.op = "write"
  BY <1>1, <1>2 DEF Looked, Steps
<1>4. /\ LastHeader(q, n) = header /\ LastRecord(q, n, header) = record
      /\ q \in Queues(n, HeaderWrites(platform), RecordTargets(platform)) /\ InOrder(q, n)
      /\ n \in Nat /\ HeaderWrites(platform) \in SUBSET Counts
      /\ header \in 1..(n - 1) /\ record \in 1..n
  BY <1>3, FreshIs
<1>5. PICK t \in {request.target} \cup
             (IF Queued(record).kind = "record" /\ Queued(record).target # request.target
              THEN {"unknown"} ELSE {}) :
        SetCell("work", record, WriteRecord(t))
  BY DEF WriteRecordCell
<1>6. t \in RecordTargets(platform)
  <2>1. request.target \in platform.writable /\ request.target \in RecordTargets(platform)
    <3>1. request.target \in platform.writable
      BY <1>3 DEF IInv, Requested
    <3> QED
      BY <3>1, PlatformIs, SizesAre
  <2>2. CASE OneWritable(platform)
    <3>1. q[record].kind = "record" => q[record].target \in platform.writable
      <4>1. q[record].kind = "record" => q[record].target \in RecordTargets(platform)
        <5> HIDE DEF n, q, s
        <5> QED
          BY <1>4, QueueIs
      <4> QED
        BY <2>2, <4>1 DEF RecordTargets
    <3>2. q[record].kind = "record" => q[record].target = request.target
      BY <2>1, <2>2, <3>1 DEF OneWritable
    <3> QED
      BY <1>5, <2>1, <3>2 DEF Queued
  <2>3. CASE ~OneWritable(platform)
    BY <1>5, <2>1, <2>3 DEF RecordTargets
  <2> QED
    BY <2>2, <2>3
<1> DEFINE r == [q EXCEPT ![record] = WriteRecord(t)]
<1>7. r \in Queues(n, HeaderWrites(platform), RecordTargets(platform)) /\ InOrder(r, n)
  <2> HIDE DEF n, q, s
  <2> QED
    BY <1>3, <1>4, <1>6, RecordWritten
<1>8. r \in GoodQueues(platform)
  BY <1>7 DEF GoodQueues
<1>9. SetBlock("work", 2, [Space("work") EXCEPT !.queue = r])
  BY <1>5, CellWritten
<1> HIDE DEF r
<1>10. Stored'
  BY <1>1, <1>8, <1>9, AreasAre, QueueWritten
<1>11. Placed' /\ Pointed' /\ Requested'
  BY <1>1, Around
<1>12. s.do \notin Leading \cup Reclaiming /\ s.do # "ReclaimWhenFull"
  BY <1>1 DEF Leading, Reclaiming, Writers
<1>13. Planned' /\ Ready'
  BY <1>1, <1>12, WentOn
<1> QED
  BY <1>10, <1>11, <1>13 DEF IInv

-----------------------------------------------------------------------------
(***************************************************************************)
(* The steps in memory.                                                    *)
(***************************************************************************)
\* The check for a full queue leaves room, or a reclaim to make it.
LEMMA ReclaimWhenFullKeeps == IInv /\ ReclaimWhenFull => IInv'
<1> SUFFICES ASSUME IInv, ReclaimWhenFull PROVE IInv'
  OBVIOUS
<1> DEFINE s == Head(todo)
<1>1. /\ todo # <<>> /\ s.do = "ReclaimWhenFull"
      /\ UNCHANGED <<flash, volatile, counters, request, up>> /\ request' = request
      /\ platform' = platform
  BY DEF ReclaimWhenFull, At, GoOn, Insert, counters
<1>2. Stored' /\ Pointed'
  BY <1>1, Kept3 DEF volatile, counters
<1>3. Placed' /\ Requested'
  BY <1>1, Around DEF volatile
<1>4. s.do \notin Leading \cup Reclaiming
  BY <1>1 DEF Leading, Reclaiming, Writers
<1>5. CASE Full(Queue("work"))
  <2>1. todo' = FtwReclaimWorkSpace("CleanUp") \o Tail(todo)
    BY <1>5 DEF ReclaimWhenFull, Insert
  <2>2. Procedure(request.op, FtwReclaimWorkSpace("CleanUp"), Step("CleanUp"), Restoring(2))
    BY ReclaimProcedure
  <2>3. Free(request.op, Step("CleanUp"))
    BY PlainStep DEF Plain
  <2>4. Planned' /\ Ready'
    BY <1>1, <1>4, <2>1, <2>2, <2>3, Inserted
  <2> QED
    BY <1>2, <1>3, <2>4 DEF IInv
<1>6. CASE ~Full(Queue("work"))
  <2>1. todo' = Tail(todo)
    BY <1>6 DEF ReclaimWhenFull, GoOn
  <2>2. LastHeader(Queue("work"), platform.queue) \in Nat
    <3>1. GoodQueue(Queue("work"))
      BY AreasAre, SpaceIs
    <3> QED
      BY <3>1, SizesAre, LastIs DEF GoodQueue
  <2>3. LastHeader(Queue("work"), platform.queue) < platform.queue
    BY <1>6, <2>2, SizesAre DEF Full, TotalSize
  <2>4. Roomy(platform, flash["work"][2])
    BY <2>3, AreasAre, SpaceIs DEF Roomy
  <2>5. Roomy(platform', flash'["work"][2])
    BY <1>1, <2>4
  <2>6. 20 \in Rooms'
    BY <2>5 DEF Rooms, Room
  <2>7. \A k \in 1..19 : s # ReclaimSteps[k]
    BY <1>4, NotReclaiming
  <2>8. Planned'
    BY <1>1, <2>1, <2>6, <2>7, GoneOn
  <2>9. todo' # <<>> => Free(request'.op, Head(todo'))
    BY <1>1, <1>4, <2>1, NextIsFree
  <2>10. Ready'
    BY <2>9, ReadyFree
  <2> QED
    BY <1>2, <1>3, <2>8, <2>10 DEF IInv
<1> QED
  BY <1>5, <1>6

\* A look-up of the last header comes behind that check or its reclaim.
LEMMA RoomToLook ==
  ASSUME IInv, todo # <<>>, Head(todo).do = "FindLastWrite"
  PROVE  LastHeader(Queue("work"), platform.queue) < platform.queue
<1> DEFINE K == Rooms
<1>1. Tracked(todo, K) /\ todo \in Seq(Steps(request.op)) /\ todo[1].do = "FindLastWrite"
  BY HeadIs DEF IInv, Planned
<1>2. 1 \in 1..Len(todo)
  BY <1>1
<1> HIDE DEF K
<1>3. 20 \in K
  <2>1. \/ 1 > 1 /\ todo[1 - 1].do = "ReclaimWhenFull"
        \/ /\ 1 <= 20 /\ \A j \in 1..(1 - 1) : todo[j] = ReclaimSteps[20 - 1 + j]
           /\ 21 - 1 \in K
    BY <1>1, <1>2 DEF Tracked
  <2>2. 21 - 1 = 20 /\ ~(1 > 1)
    OBVIOUS
  <2> QED
    BY <2>1, <2>2
<1>4. Roomy(platform, flash["work"][2])
  BY <1>3 DEF K, Rooms, Room
<1> QED
  BY <1>4, AreasAre, SpaceIs DEF Roomy

LEMMA FindLastWriteKeeps == IInv /\ FindLastWrite => IInv'
<1> SUFFICES ASSUME IInv, FindLastWrite PROVE IInv'
  OBVIOUS
<1> DEFINE s == Head(todo)
           n == platform.queue
           q == Queue("work")
<1>1. /\ todo # <<>> /\ s.do = "FindLastWrite" /\ todo' = Tail(todo)
      /\ UNCHANGED <<flash, offset, buffer, spareBuffer, counters, request, up>>
      /\ platform' = platform /\ flash' = flash /\ request' = request
  BY DEF FindLastWrite, At, GoOn, counters
<1>2. header' = LastHeader(q, n) /\ record' = LastRecord(q, n, header')
  BY SizesAre DEF FindLastWrite
<1>3. GoodQueue(q) /\ LastHeader(q, n) < n
  BY <1>1, RoomToLook, AreasAre, SpaceIs
<1>4. header' \in 1..(n - 1) /\ record' \in (header' + 1)..n
  <2> HIDE DEF q
  <2> QED
    BY <1>2, <1>3, FoundIs
<1>5. Pointed'
  BY <1>1, <1>4 DEF IInv, Pointed
<1>6. Stored' /\ Placed' /\ Requested'
  BY <1>1 DEF IInv, Stored, Placed, Requested, counters
<1>7. Queue("work")' = q
  BY <1>1 DEF Queue, Space, AsSpace, EmptyQueue, Cells, QueueSize
<1>8. Fresh'
  BY <1>1, <1>2, <1>7 DEF Fresh
<1>9. \A k \in 1..19 : s # ReclaimSteps[k]
  BY <1>1, NotReclaiming DEF Reclaiming, Writers
<1>10. /\ Planned'
       /\ todo' # <<>> => Head(todo') \in Steps(request'.op) /\ Follows(request'.op, s, Head(todo'))
  BY <1>1, <1>9, GoneOn
<1>11. Ready'
  <2> SUFFICES ASSUME todo' # <<>> PROVE Looked(Head(todo))' /\ Cleared(Head(todo))'
    BY DEF Ready
  <2> DEFINE t == Head(todo')
  <2>1. t \in Steps(request'.op) /\ Follows(request'.op, s, t)
    BY <1>10
  <2>2. CASE Free(request'.op, t)
    BY <2>2, ReadyFree DEF Ready
  <2>3. CASE t.do \in {"AllocateHeader", "NeedHeader"}
    BY <1>8, <2>3 DEF Looked, Cleared
  <2>4. t.do \in {"AllocateHeader", "NeedHeader"} \/ Free(request'.op, t)
    BY <1>1, <2>1 DEF Free, Follows, Steps, Writers
  <2> QED
    BY <2>2, <2>3, <2>4
<1> QED
  BY <1>5, <1>6, <1>10, <1>11 DEF IInv

LEMMA PreservedIs ==
  ASSUME IInv, NEW q
  PROVE  Preserved(q) = Kept(q, platform.queue)
<1>1. /\ Cells = 1..platform.queue /\ EmptyQueue = Blank(platform.queue)
      /\ FtwGetLastWriteHeader(q) = LastHeader(q, platform.queue)
  BY SizesAre DEF Cells, EmptyQueue, Blank
<1> QED
  BY <1>1 DEF Preserved, Kept

\* A work space that is made in memory.
MadeSpace(f, q) == WorkSpace(f, FALSE, FALSE, q)

LEMMA MadeSpaceIs ==
  ASSUME NEW p, NEW f, f \in BOOLEAN, NEW q \in GoodQueues(p)
  PROVE  MadeSpace(f, q) \in GoodBlocks(p) /\ SpaceOf(p, MadeSpace(f, q)).queue = q
BY DEF MadeSpace, WorkSpace, GoodSpaces, GoodBlocks, SpaceOf

\* The contents that a reclaim makes in memory have room.
LEMMA CleanIs ==
  ASSUME IInv, NEW f \in BOOLEAN, NEW q \in GoodQueues(platform), LastHeader(q, platform.queue) = 1,
         todo # <<>>, Head(todo).do \in {"CleanUp", "CleanAll"}, CleanWorkSpace(f, q)
  PROVE  IInv'
<1> DEFINE s == Head(todo)
           n == platform.queue
           c == MadeSpace(f, q)
<1>1. /\ todo' = Tail(todo) /\ UNCHANGED <<flash, offset, counters, request, up>>
      /\ platform' = platform /\ flash' = flash /\ request' = request
      /\ buffer' = <<flash["work"][1], c>> /\ spareBuffer' = flash["spare"]
      /\ header' = LastHeader(q, n) /\ record' = LastRecord(q, n, header')
  BY SizesAre DEF CleanWorkSpace, GoOn, counters, MadeSpace
<1>2. c \in GoodBlocks(platform) /\ SpaceOf(platform, c).queue = q
  BY MadeSpaceIs
<1>3. GoodQueue(q) /\ LastHeader(q, n) < n
  BY SizesAre DEF GoodQueues, GoodQueue
<1>4. header' \in 1..(n - 1) /\ record' \in (header' + 1)..n
  BY <1>1, <1>3, FoundIs
<1>5. Pointed'
  BY <1>1, <1>4 DEF IInv, Pointed
<1>6. flash["work"][1] \in GoodBlocks(platform) /\ flash["spare"] \in Images(platform)
      /\ flash \in Flashes(platform)
  BY AreasAre DEF IInv, Stored, Flashes, Images
<1> HIDE DEF c
<1>7. buffer' \in Images(platform) /\ buffer'[2] = c
  <2>1. <<flash["work"][1], c>> \in Images(platform)
    BY <1>2, <1>6, ImageIs
  <2> QED
    BY <1>1, <2>1
<1>8. Stored'
  BY <1>1, <1>6, <1>7 DEF Stored
<1>9. Placed' /\ Requested'
  BY <1>1 DEF IInv, Placed, Requested, counters
<1>10. Roomy(platform', buffer'[2])
  BY <1>1, <1>2, <1>3, <1>7 DEF Roomy
<1>11. 2 \in Rooms'
  BY <1>10 DEF Rooms, Room
<1>12. ASSUME NEW k \in 1..19, s = ReclaimSteps[k] PROVE k = 1
  <2>1. /\ ReclaimSteps[k].do = "CleanUp" => k = 1
        /\ ReclaimSteps[k].do \in Reclaiming
    BY ReclaimStepIs DEF Reclaiming
  <2>2. "CleanAll" \notin Reclaiming
    BY DEF Reclaiming, Writers
  <2> HIDE DEF s
  <2>3. s.do \in {"CleanUp", "CleanAll"}
    BY DEF s
  <2> QED
    BY <1>12, <2>1, <2>2, <2>3
<1>13. Planned'
  <2>1. \A k \in 1..19 : Head(todo) = ReclaimSteps[k] /\ k \in Rooms => k + 1 \in Rooms'
    <3>1. 1 + 1 = 2
      OBVIOUS
    <3> QED
      BY <1>11, <1>12, <3>1
  <2> QED
    BY <1>1, <2>1, GoneOn
<1>14. todo' # <<>> => Free(request'.op, Head(todo'))
  <2>1. s.do \notin Leading
    BY DEF Leading, Writers
  <2> QED
    BY <1>1, <2>1, NextIsFree
<1>15. Ready'
  BY <1>14, ReadyFree
<1> QED
  BY <1>5, <1>8, <1>9, <1>13, <1>15 DEF IInv

LEMMA CleanKeeps ==
  ASSUME IInv, CleanUp \/ CleanAll
  PROVE  IInv'
<1>1. CASE CleanUp
  <2> DEFINE n == platform.queue
             q == Queue("work")
             r == Kept(q, n)
  <2>1. CleanWorkSpace(Space("work").formatted, r)
    BY <1>1, PreservedIs DEF CleanUp
  <2>2. GoodQueue(q) /\ Space("work").formatted \in BOOLEAN
    <3>1. GoodQueue(q) /\ Space("work") \in GoodSpaces(platform)
      BY AreasAre, SpaceIs
    <3> QED
      BY <3>1 DEF GoodSpaces
  <2>3. r \in GoodQueues(platform) /\ LastHeader(r, n) = 1
    <3>1. n \in Nat /\ n >= 1 /\ HeaderWrites(platform) \in SUBSET Counts
      BY SizesAre
    <3> HIDE DEF n, q
    <3>2. /\ r \in Queues(n, HeaderWrites(platform), RecordTargets(platform))
          /\ LastHeader(r, n) = 1 /\ InOrder(r, n)
      <4>1. q \in Queues(n, HeaderWrites(platform), RecordTargets(platform)) /\ InOrder(q, n)
        BY <2>2 DEF GoodQueue, n
      <4> QED
        BY <3>1, <4>1, KeptInOrder
    <3> QED
      BY <3>2 DEF GoodQueues, n
  <2>4. todo # <<>> /\ Head(todo).do \in {"CleanUp", "CleanAll"}
    BY <1>1 DEF CleanUp, At
  <2> HIDE DEF r
  <2> QED
    BY <2>1, <2>2, <2>3, <2>4, CleanIs
<1>2. CASE CleanAll
  <2>1. CleanWorkSpace(TRUE, Blank(platform.queue))
    BY <1>2 DEF CleanAll, EmptyQueue, Blank, Cells, QueueSize
  <2>2. Blank(platform.queue) \in GoodQueues(platform)
        /\ LastHeader(Blank(platform.queue), platform.queue) = 1
    BY SizesAre, BlankGood
  <2>3. todo # <<>> /\ Head(todo).do \in {"CleanUp", "CleanAll"}
    BY <1>2 DEF CleanAll, At
  <2> QED
    BY <2>1, <2>2, <2>3, CleanIs
<1> QED
  BY <1>1, <1>2

LEMMA LoadSpareKeeps == IInv /\ LoadSpare => IInv'
<1> SUFFICES ASSUME IInv, LoadSpare PROVE IInv'
  OBVIOUS
<1>1. /\ todo # <<>> /\ Head(todo).do = "LoadSpare" /\ todo' = Tail(todo)
      /\ UNCHANGED <<flash, header, record, offset, spareBuffer, counters, request, up>>
      /\ platform' = platform /\ request' = request /\ buffer' = flash["spare"]
  BY DEF LoadSpare, At, GoOn, counters
<1>2. flash["spare"] \in Images(platform)
  BY AreasAre DEF IInv, Stored, Flashes
<1>3. Stored' /\ Placed' /\ Requested' /\ Pointed'
  BY <1>1, <1>2 DEF IInv, Stored, Placed, Requested, Pointed, counters
<1>4. Head(todo).do \notin Leading \cup Reclaiming /\ Head(todo).do # "ReclaimWhenFull"
  BY <1>1 DEF Leading, Reclaiming, Writers
<1>5. Planned' /\ Ready'
  BY <1>1, <1>4, WentOn
<1> QED
  BY <1>3, <1>5 DEF IInv

LEMMA LoadTargetKeeps == IInv /\ LoadTarget => IInv'
<1> SUFFICES ASSUME IInv, LoadTarget PROVE IInv'
  OBVIOUS
<1> DEFINE d == IF request.target = "work" THEN flash["work"][2] ELSE Data(request.value)
<1>1. /\ todo # <<>> /\ Head(todo).do = "LoadTarget" /\ todo' = Tail(todo)
      /\ UNCHANGED <<flash, header, record, offset, counters, request, up>>
      /\ platform' = platform /\ request' = request
      /\ buffer' = <<Data(request.value), d>> /\ spareBuffer' = flash["spare"]
  BY DEF LoadTarget, At, GoOn, counters
<1>2. request.op = "write"
  BY <1>1, HeadIs DEF Steps
<1>3. Data(request.value) \in GoodBlocks(platform)
  BY <1>2, ContentsGood DEF IInv, Requested
<1>4. d \in GoodBlocks(platform)
  BY <1>3, AreasAre, SpaceIs
<1> HIDE DEF d
<1>5. flash["spare"] \in Images(platform) /\ <<Data(request.value), d>> \in Images(platform)
  BY <1>3, <1>4, ImageIs, AreasAre DEF IInv, Stored, Flashes
<1>6. Stored' /\ Placed' /\ Requested' /\ Pointed'
  BY <1>1, <1>5 DEF IInv, Stored, Placed, Requested, Pointed, counters
<1>7. Head(todo).do \notin Leading \cup Reclaiming /\ Head(todo).do # "ReclaimWhenFull"
  BY <1>1 DEF Leading, Reclaiming, Writers
<1>8. Planned' /\ Ready'
  BY <1>1, <1>7, WentOn
<1> QED
  BY <1>6, <1>8 DEF IInv

LEMMA LoadSpareAsWorkKeeps == IInv /\ LoadSpareAsWork => IInv'
<1> SUFFICES ASSUME IInv, LoadSpareAsWork PROVE IInv'
  OBVIOUS
<1> DEFINE c == MadeSpace(TRUE, Queue("spare"))
<1>1. /\ todo # <<>> /\ Head(todo).do = "LoadSpareAsWork" /\ todo' = Tail(todo)
      /\ UNCHANGED <<flash, header, record, offset, spareBuffer, counters, request, up>>
      /\ platform' = platform /\ request' = request
      /\ buffer' = <<flash["spare"][1], c>>
  BY DEF LoadSpareAsWork, At, GoOn, counters, MadeSpace
<1>2. c \in GoodBlocks(platform) /\ SpaceOf(platform, c).queue = Queue("spare")
  <2>1. Queue("spare") \in GoodQueues(platform)
    BY AreasAre, SpaceIs
  <2> QED
    BY <2>1, MadeSpaceIs
<1> HIDE DEF c
<1>3. <<flash["spare"][1], c>> \in Images(platform)
  BY <1>2, ImageIs, AreasAre, SpaceIs
<1>4. Stored' /\ Placed' /\ Requested' /\ Pointed' /\ buffer'[2] = c
  BY <1>1, <1>3 DEF IInv, Stored, Placed, Requested, Pointed, counters
<1>5. Head(todo).do \notin Leading /\ Head(todo).do # "ReclaimWhenFull"
  BY <1>1 DEF Leading, Writers
<1>6. ASSUME NEW k \in 1..19, Head(todo) = ReclaimSteps[k], k \in Rooms PROVE k + 1 \in Rooms'
  <2>1. k = 9
    BY <1>1, <1>6, ReclaimStepIs
  <2>2. Roomy(platform, flash["spare"][2])
    BY <1>6, <2>1 DEF Rooms, Room
  <2>3. LastHeader(Queue("spare"), platform.queue) < platform.queue
    BY <2>2, AreasAre, SpaceIs DEF Roomy
  <2>4. Roomy(platform', buffer'[2])
    BY <1>1, <1>2, <1>4, <2>3 DEF Roomy
  <2> QED
    BY <2>1, <2>4 DEF Rooms, Room
<1>7. Planned'
  BY <1>1, <1>5, <1>6, GoneOn
<1>8. todo' # <<>> => Free(request'.op, Head(todo'))
  BY <1>1, <1>5, NextIsFree
<1>9. Ready'
  BY <1>8, ReadyFree
<1> QED
  BY <1>4, <1>7, <1>9 DEF IInv

-----------------------------------------------------------------------------
(***************************************************************************)
(* The steps that choose what to do.  They leave flash and memory alone.   *)
(***************************************************************************)
LEMMA Alone ==
  ASSUME IInv, UNCHANGED <<flash, volatile, counters>>, up' = up, request' = request
  PROVE  /\ Placed' /\ Stored' /\ Pointed' /\ Requested'
         /\ platform' = platform /\ header' = header /\ record' = record
         /\ Queue("work")' = Queue("work")
<1>1. Placed' /\ Stored' /\ Pointed' /\ Requested' /\ platform' = platform
      /\ header' = header /\ record' = record
  BY DEF IInv, Placed, Stored, Pointed, Requested, counters, volatile
<1>2. Queue("work")' = Queue("work")
  BY DEF Queue, Space, AsSpace, EmptyQueue, Cells, QueueSize, counters
<1> QED
  BY <1>1, <1>2

\* A step of the services and of the initialization that needs nothing.
Choosing ==
  {"CheckRecord", "CheckRestart", "AbortWrites", "LastWrite", "ChooseWorkSpace",
   "AbortFirstRecord", "AbortLastRecord", "CheckRemainder", "RestartLastWrite"}

LEMMA ChoosingIs ==
  /\ \A name \in Choosing : name \notin Leading \cup Reclaiming /\ name # "ReclaimWhenFull"
  /\ "AllocateHeader" \notin Reclaiming /\ "NeedHeader" \notin Reclaiming
BY DEF Choosing, Leading, Reclaiming, Writers

LEMMA GoOnKeeps ==
  ASSUME IInv, todo # <<>>, Head(todo).do \in Choosing, GoOn,
         UNCHANGED <<flash, volatile, counters>>
  PROVE  IInv'
<1>1. todo' = Tail(todo) /\ up' = up /\ request' = request
  BY DEF GoOn
<1>2. Planned' /\ Ready'
  BY <1>1, ChoosingIs, WentOn
<1> QED
  BY <1>1, <1>2, Alone DEF IInv

LEMMA InsertKeeps ==
  ASSUME IInv, todo # <<>>, Head(todo).do \in Choosing, NEW s, NEW f, NEW l, Insert(s),
         Procedure(request.op, s, f, l), Free(request.op, f),
         UNCHANGED <<flash, volatile, counters>>
  PROVE  IInv'
<1>1. todo' = s \o Tail(todo) /\ up' = up /\ request' = request
  BY DEF Insert
<1>2. Planned' /\ Ready'
  BY <1>1, ChoosingIs, Inserted
<1> QED
  BY <1>1, <1>2, Alone DEF IInv

LEMMA ReturnsKeep ==
  ASSUME IInv, NEW s, Return(s), UNCHANGED <<flash, volatile, counters>>
  PROVE  IInv'
<1>1. faults' \in 0..platform.faults
  BY DEF IInv, Placed, counters
<1> QED
  BY <1>1, Returned DEF counters

\* Which of the steps that need others may follow.
LEMMA FollowsOn ==
  ASSUME NEW op, NEW t \in Steps(op)
  PROVE  /\ \A s : s.do = "AllocateHeader" /\ Follows(op, s, t)
                     => Follows(op, Step("WritesAllocated"), t)
         /\ \A s : s.do = "NeedHeader" /\ Follows(op, s, t)
                     => /\ Follows(op, Step("AllocateHeader"), t)
                        /\ t.do = "CheckRecord" \/ Free(op, t)
BY DEF Follows, Free, Steps, Writers, Step

\* AllocateWriteHeader keeps the offset of the last header when it reclaims the
\* work space (FtwMisc.c moves the queue to its front), so a header of several
\* records whose records do not fit behind that old place is written there all
\* the same.  The theorems are about behaviours in which the records fit.
RoomForHeader ==
  At("AllocateHeader") /\ ~Allocated(Queue("work"), header) /\ TotalSize(request.writes) <= QueueSize
    => header + TotalSize(request.writes) - 1 <= QueueSize

LEMMA AllocateHeaderKeeps == IInv /\ RoomForHeader /\ AllocateHeader => IInv'
<1> SUFFICES ASSUME IInv, RoomForHeader, AllocateHeader PROVE IInv'
  OBVIOUS
<1> DEFINE s == Head(todo)
           op == request.op
           n == platform.queue
           w == request.writes
           a == Step("WriteHeader")
           b == Step("WritesAllocated")
<1>1. /\ todo # <<>> /\ s.do = "AllocateHeader"
      /\ UNCHANGED <<flash, header, record, buffer, spareBuffer, counters>>
      /\ platform' = platform /\ calls' = calls /\ crashes' = crashes /\ faults' = faults
  BY DEF AllocateHeader, At, counters
<1>2. s \in Steps(op) /\ Looked(s) /\ Fresh /\ op \in {"allocate", "write"}
  BY <1>1, HeadIs DEF Looked, Steps
<1>3. w \in Nat /\ n \in Nat /\ header \in Nat /\ header \in 1..n /\ QueueSize = n
  BY <1>2, WritesAre, FreshIs, SizesAre
<1>4. CASE \E r : Return(r) /\ UNCHANGED offset
  BY <1>1, <1>4, ReturnsKeep DEF volatile, counters
<1>5. CASE ~ \E r : Return(r) /\ UNCHANGED offset
  <2>1. /\ TotalSize(w) <= n /\ ~Allocated(Queue("work"), header) /\ offset' = header
        /\ Insert((IF header + TotalSize(w) - 1 > n THEN FtwReclaimWorkSpace("CleanUp") ELSE <<>>)
                  \o <<a, b>>)
    <3>1. ~(TotalSize(w) > QueueSize) /\ ~Allocated(Queue("work"), header)
      BY <1>5 DEF AllocateHeader
    <3>2. TotalSize(w) <= n
      BY <1>3, <3>1 DEF TotalSize
    <3>3. /\ offset' = header
          /\ Insert((IF header + TotalSize(w) - 1 > QueueSize THEN FtwReclaimWorkSpace("CleanUp")
                     ELSE <<>>) \o <<a, b>>)
      BY <3>1 DEF AllocateHeader
    <3> QED
      BY <1>3, <3>1, <3>2, <3>3
  <2>2. header + TotalSize(w) - 1 <= n
    BY <1>1, <1>3, <2>1 DEF RoomForHeader, At
  <2>3. ~(header + TotalSize(w) - 1 > n) /\ header + w <= n
    BY <1>3, <2>2 DEF TotalSize
  <2>4. a \in Steps(op) /\ b \in Steps(op) /\ a.do = "WriteHeader" /\ b.do = "WritesAllocated"
    BY <1>2, ServiceStep DEF Asked
  <2> HIDE DEF a, b
  <2>5. <<>> \o <<a, b>> = <<a, b>>
    BY <2>4
  <2>6. todo' = <<a, b>> \o Tail(todo) /\ up' = up /\ request' = request
    BY <2>1, <2>3, <2>5 DEF Insert
  <2>7. Procedure(op, <<a, b>>, a, b)
    <3>1. Follows(op, a, b)
      BY <2>4 DEF Follows
    <3> QED
      BY <2>4, <3>1, TwoSteps
  <2>8. Tail(todo) # <<>> => Follows(op, b, Head(Tail(todo)))
    BY <1>1, HeadIs, FollowsOn DEF b
  <2>9. Planned' /\ todo' # <<>> /\ Head(todo') = a
    BY <1>1, <2>6, <2>7, <2>8, ChoosingIs, PutIn
  <2>10. Queue("work")' = Queue("work")
    BY <1>1 DEF Queue, Space, AsSpace, EmptyQueue, Cells, QueueSize
  <2>11. Fresh' /\ offset' = header' /\ ~Allocated(Queue("work"), header)'
         /\ header' + request'.writes <= platform'.queue
    BY <1>1, <1>2, <2>1, <2>3, <2>6, <2>10 DEF Fresh, Allocated
  <2>12. Ready'
    <3>1. Looked(Head(todo))' /\ Cleared(Head(todo))'
      BY <2>4, <2>9, <2>11 DEF Looked, Cleared
    <3> QED
      BY <3>1 DEF Ready
  <2>13. Placed' /\ Stored' /\ Pointed' /\ Requested'
    BY <1>1, <1>3, <2>1, <2>6 DEF IInv, Placed, Stored, Pointed, Requested
  <2> QED
    BY <2>9, <2>12, <2>13 DEF IInv
<1> QED
  BY <1>4, <1>5

LEMMA NeedHeaderKeeps == IInv /\ NeedHeader => IInv'
<1> SUFFICES ASSUME IInv, NeedHeader PROVE IInv'
  OBVIOUS
<1> DEFINE s == Head(todo)
           op == request.op
<1>1. todo # <<>> /\ s.do = "NeedHeader" /\ UNCHANGED <<flash, volatile, counters>>
  BY DEF NeedHeader, At
<1>2. s \in Steps(op) /\ Fresh /\ op = "write"
  BY <1>1, HeadIs DEF Looked, Steps
<1>3. CASE Allocated(Queue("work"), header)
  <2>1. todo' = Tail(todo) /\ up' = up /\ request' = request
    BY <1>3 DEF NeedHeader, GoOn
  <2>2. \A k \in 1..19 : s # ReclaimSteps[k]
    BY <1>1, NotReclaiming, ChoosingIs
  <2>3. /\ Planned'
        /\ todo' # <<>> => Head(todo') \in Steps(request'.op) /\ Follows(request'.op, s, Head(todo'))
    BY <1>1, <2>1, <2>2, GoneOn
  <2>4. /\ Placed' /\ Stored' /\ Pointed' /\ Requested'
        /\ platform' = platform /\ header' = header /\ record' = record
        /\ Queue("work")' = Queue("work")
    BY <1>1, <2>1, Alone
  <2>5. Fresh' /\ Allocated(Queue("work"), header)'
    BY <1>2, <1>3, <2>4 DEF Fresh, Allocated
  <2>6. Ready'
    <3> SUFFICES ASSUME todo' # <<>> PROVE Looked(Head(todo))' /\ Cleared(Head(todo))'
      BY DEF Ready
    <3> DEFINE t == Head(todo')
    <3>1. t.do = "CheckRecord" \/ Free(request'.op, t)
      BY <1>1, <2>3, FollowsOn
    <3>2. CASE t.do = "CheckRecord"
      BY <2>5, <3>2 DEF Looked, Cleared
    <3>3. CASE Free(request'.op, t)
      BY <3>3, ReadyFree DEF Ready
    <3> QED
      BY <3>1, <3>2, <3>3
  <2> QED
    BY <2>3, <2>4, <2>6 DEF IInv
<1>4. CASE ~Allocated(Queue("work"), header) /\ request.private
  BY <1>1, <1>4, ReturnsKeep DEF NeedHeader
<1>5. CASE ~Allocated(Queue("work"), header) /\ ~request.private
  <2>1. todo' = FtwAllocate \o Tail(todo) /\ up' = up /\ request' = request
    BY <1>5 DEF NeedHeader, Insert
  <2>2. Procedure(op, FtwAllocate, Step("ReclaimWhenFull"), Step("AllocateHeader"))
    BY <1>2, AllocateProcedure
  <2>3. Tail(todo) # <<>> => Follows(op, Step("AllocateHeader"), Head(Tail(todo)))
    BY <1>1, HeadIs, FollowsOn
  <2>4. Planned' /\ todo' # <<>> /\ Head(todo') = Step("ReclaimWhenFull")
    BY <1>1, <2>1, <2>2, <2>3, ChoosingIs, PutIn
  <2>5. Free(request'.op, Step("ReclaimWhenFull"))
    BY PlainStep DEF Plain
  <2>6. Ready'
    BY <2>4, <2>5, ReadyFree
  <2> QED
    BY <1>1, <2>1, <2>4, <2>6, Alone DEF IInv
<1> QED
  BY <1>3, <1>4, <1>5

LEMMA CheckRecordKeeps == IInv /\ CheckRecord => IInv'
<1> SUFFICES ASSUME IInv, CheckRecord PROVE IInv'
  OBVIOUS
<1> DEFINE s == Head(todo)
           q == Queue("work")
<1>1. todo # <<>> /\ s.do = "CheckRecord" /\ UNCHANGED <<flash, volatile, counters>>
  BY DEF CheckRecord, At
<1>2. s \in Steps(request.op) /\ Fresh /\ Allocated(q, header) /\ request.op = "write"
  BY <1>1, HeadIs DEF Looked, Steps
<1>3. CASE DestDone(q, record) \/ SpareDone(q, record)
  BY <1>1, <1>3, ReturnsKeep DEF CheckRecord
<1>4. CASE ~DestDone(q, record) /\ ~SpareDone(q, record)
  <2>1. todo' = WriteThroughSpare(request.target) \o Tail(todo) /\ up' = up /\ request' = request
    BY <1>4 DEF CheckRecord, Insert
  <2>2. request.target \in Areas
    <3>1. request.target \in platform.writable /\ platform \in Platforms
      BY <1>2 DEF IInv, Requested, Placed
    <3> QED
      BY <3>1, PlatformIs
  <2>3. Procedure(request.op, WriteThroughSpare(request.target), Step("WriteRecord"), Step("Success"))
    BY <1>2, <2>2, SpareProcedure
  <2>4. s.do \notin Leading \cup Reclaiming /\ s.do # "ReclaimWhenFull"
    BY <1>1, ChoosingIs DEF Choosing
  <2>5. Tail(todo) # <<>> => Follows(request.op, Step("Success"), Head(Tail(todo)))
    BY <1>1, <2>4, NextIsFree
  <2>6. Planned' /\ todo' # <<>> /\ Head(todo') = Step("WriteRecord")
    BY <1>1, <2>1, <2>3, <2>4, <2>5, PutIn
  <2>7. /\ Placed' /\ Stored' /\ Pointed' /\ Requested'
        /\ platform' = platform /\ header' = header /\ record' = record
        /\ Queue("work")' = q
    BY <1>1, <2>1, Alone
  <2>8. /\ Fresh' /\ Allocated(Queue("work"), header)'
        /\ ~DestDone(Queue("work"), record)' /\ ~SpareDone(Queue("work"), record)'
    BY <1>2, <1>4, <2>7 DEF Fresh, Allocated, DestDone, SpareDone
  <2>9. Head(todo').do = "WriteRecord"
    BY <2>6 DEF Step
  <2>10. Looked(Head(todo))' /\ Cleared(Head(todo))'
    BY <2>8, <2>9 DEF Looked, Cleared
  <2>11. Ready'
    BY <2>10 DEF Ready
  <2> QED
    BY <2>6, <2>7, <2>11 DEF IInv
<1> QED
  BY <1>3, <1>4

LEMMA CheckRestartKeeps == IInv /\ CheckRestart => IInv'
<1> SUFFICES ASSUME IInv, CheckRestart PROVE IInv'
  OBVIOUS
<1> DEFINE q == Queue("work")
           t == q[record].target
           a == Blocks("Erase", "spare")
<1>1. todo # <<>> /\ Head(todo).do = "CheckRestart" /\ UNCHANGED <<flash, volatile, counters>>
  BY DEF CheckRestart, At
<1>2. CASE DestDone(q, record) \/ ~SpareDone(q, record) \/ t = "unknown"
  BY <1>1, <1>2, ReturnsKeep DEF CheckRestart
<1>3. CASE ~DestDone(q, record) /\ SpareDone(q, record) /\ t # "unknown"
  <2>1. Insert(FtwWriteRecord(t) \o a)
    BY <1>3 DEF CheckRestart
  <2>2. t \in Areas
    <3>1. GoodQueue(q) /\ record \in 1..platform.queue /\ q[record].kind = "record"
      BY <1>3, AreasAre, SpaceIs, SizesAre DEF IInv, Pointed, SpareDone
    <3>2. q[record].kind = "record" => t \in RecordTargets(platform)
      <4> HIDE DEF q
      <4> QED
        BY <3>1, SizesAre, QueueIs DEF GoodQueue
    <3>3. RecordTargets(platform) \subseteq Areas \cup {"unknown"}
      BY SizesAre, PlatformIs
    <3> HIDE DEF q, t
    <3> QED
      BY <1>3, <3>1, <3>2, <3>3
  <2> HIDE DEF t, q, a
  <2>3. PICK f, l : Procedure(request.op, FtwWriteRecord(t), f, l) /\ Free(request.op, f)
    BY <2>2, WriteRecordProcedure
  <2>4. Procedure(request.op, a, Erasing("spare", 1), Erasing("spare", 2))
        /\ Free(request.op, Erasing("spare", 1))
    BY AreasAre, BlockSteps, WriterStep DEF a
  <2>5. Procedure(request.op, FtwWriteRecord(t) \o a, f, Erasing("spare", 2))
    BY <2>3, <2>4, FreeJoined
  <2>6. Head(todo).do \in Choosing
    BY <1>1 DEF Choosing
  <2> QED
    BY <1>1, <2>1, <2>3, <2>5, <2>6, InsertKeeps
<1> QED
  BY <1>2, <1>3

\* Procedures of the services that may be put behind any step.
LEMMA PutProcedures ==
  ASSUME NEW op
  PROVE  /\ Procedure(op, FtwAbort, Step("ReclaimWhenFull"), Step("AbortWrites"))
         /\ Procedure(op, FtwRestart, Step("ReclaimWhenFull"), Step("CheckRestart"))
         /\ Free(op, Step("ReclaimWhenFull"))
         /\ \A clean \in {"CleanUp", "CleanAll"} :
              /\ Procedure(op, FtwReclaimWorkSpace(clean), Step(clean), Restoring(2))
              /\ Free(op, Step(clean))
         /\ Procedure(op, <<Mark("complete", "work")>>, Mark("complete", "work"), Mark("complete", "work"))
         /\ Free(op, Mark("complete", "work"))
<1>1. "complete" \in Marks /\ "ReclaimWhenFull" \in Plain /\ "CleanUp" \in Plain /\ "CleanAll" \in Plain
  BY DEF Marks, Plain
<1>2. /\ Mark("complete", "work") \in Steps(op) /\ Free(op, Mark("complete", "work"))
      /\ Mark("complete", "work").do # "FindLastWrite"
  BY <1>1, AreasAre, MarkStep
<1> QED
  BY <1>1, <1>2, AbortProcedure, ReclaimProcedure, PlainStep, OneStep

LEMMA AbortWritesKeeps == IInv /\ AbortWrites => IInv'
<1> SUFFICES ASSUME IInv, AbortWrites PROVE IInv'
  OBVIOUS
<1>1. todo # <<>> /\ Head(todo).do \in Choosing /\ UNCHANGED <<flash, volatile, counters>>
  BY DEF AbortWrites, At, Choosing
<1>2. Insert(<<Mark("complete", "work")>>) \/ Return("not_found") \/ GoOn
  BY DEF AbortWrites
<1> QED
  BY <1>1, <1>2, PutProcedures, InsertKeeps, ReturnsKeep, GoOnKeeps

LEMMA LastWriteKeeps == IInv /\ LastWrite => IInv'
<1> SUFFICES ASSUME IInv, LastWrite PROVE IInv'
  OBVIOUS
<1>1. todo # <<>> /\ Head(todo).do \in Choosing /\ UNCHANGED <<flash, volatile, counters>>
  BY DEF LastWrite, At, Choosing
<1>2. Insert(FtwAbort \o <<Step("NotFound")>>) \/ \E s : Return(s)
  BY DEF LastWrite
<1>3. Procedure(request.op, FtwAbort \o <<Step("NotFound")>>, Step("ReclaimWhenFull"), Step("NotFound"))
  BY PutProcedures, PlainStep, StepBehind DEF Plain
<1> QED
  BY <1>1, <1>2, <1>3, PutProcedures, InsertKeeps, ReturnsKeep

LEMMA ChooseWorkSpaceKeeps == IInv /\ ChooseWorkSpace => IInv'
<1> SUFFICES ASSUME IInv, ChooseWorkSpace PROVE IInv'
  OBVIOUS
<1> DEFINE x == FlushSpareBlockToWorkingBlock \o FtwAbort \o WorkSpaceRefresh
<1>1. todo # <<>> /\ Head(todo).do \in Choosing /\ UNCHANGED <<flash, volatile, counters>>
  BY DEF ChooseWorkSpace, At, Choosing
<1>2. GoOn \/ Insert(x) \/ Insert(FtwReclaimWorkSpace("CleanAll"))
  BY DEF ChooseWorkSpace
<1>3. /\ Procedure(request.op, x, Mark("WorkingBlockValid", "spare"), Step("FindLastWrite"))
      /\ Free(request.op, Mark("WorkingBlockValid", "spare"))
  <2>1. Procedure(request.op, FlushSpareBlockToWorkingBlock \o FtwAbort,
                  Mark("WorkingBlockValid", "spare"), Step("AbortWrites"))
    BY FlushProcedure, PutProcedures, FreeJoined
  <2>2. Free(request.op, Mark("WorkingBlockValid", "spare"))
    BY AreasAre, MarkStep DEF Marks
  <2> QED
    BY <2>1, <2>2, RefreshProcedure, PutProcedures, FreeJoined
<1> HIDE DEF x
<1>4. CASE GoOn
  BY <1>1, <1>4, GoOnKeeps
<1>5. CASE Insert(x)
  BY <1>1, <1>3, <1>5, InsertKeeps
<1>6. CASE Insert(FtwReclaimWorkSpace("CleanAll"))
  BY <1>1, <1>6, PutProcedures, InsertKeeps
<1> QED
  BY <1>2, <1>4, <1>5, <1>6

LEMMA AbortRecordKeeps ==
  ASSUME IInv, AbortFirstRecord \/ AbortLastRecord
  PROVE  IInv'
<1>1. todo # <<>> /\ Head(todo).do \in Choosing /\ UNCHANGED <<flash, volatile, counters>>
  BY DEF AbortFirstRecord, AbortLastRecord, At, Choosing
<1>2. Insert(FtwAbort) \/ GoOn
  BY DEF AbortFirstRecord, AbortLastRecord
<1> QED
  BY <1>1, <1>2, PutProcedures, InsertKeeps, GoOnKeeps

LEMMA CheckRemainderKeeps == IInv /\ CheckRemainder => IInv'
<1> SUFFICES ASSUME IInv, CheckRemainder PROVE IInv'
  OBVIOUS
<1>1. todo # <<>> /\ Head(todo).do \in Choosing /\ UNCHANGED <<flash, volatile, counters>>
  BY DEF CheckRemainder, At, Choosing
<1>2. Insert(FtwReclaimWorkSpace("CleanUp")) \/ GoOn
  BY DEF CheckRemainder
<1> QED
  BY <1>1, <1>2, PutProcedures, InsertKeeps, GoOnKeeps

LEMMA RestartLastWriteKeeps == IInv /\ RestartLastWrite => IInv'
<1> SUFFICES ASSUME IInv, RestartLastWrite PROVE IInv'
  OBVIOUS
<1>1. todo # <<>> /\ Head(todo).do \in Choosing /\ UNCHANGED <<flash, volatile, counters>>
  BY DEF RestartLastWrite, At, Choosing
<1>2. Insert(<<>> \o FtwAbort) \/ Insert(FtwRestart \o FtwAbort) \/ GoOn
  BY DEF RestartLastWrite
<1>3. Procedure(request.op, FtwRestart \o FtwAbort, Step("ReclaimWhenFull"), Step("AbortWrites"))
  BY PutProcedures, FreeJoined
<1>4. <<>> \o FtwAbort = FtwAbort
  <2>1. FtwAbort \in Seq(Steps(request.op))
    BY PutProcedures, ProcedureIs
  <2> HIDE DEF FtwAbort
  <2> QED
    BY <2>1
<1> QED
  BY <1>1, <1>2, <1>3, <1>4, PutProcedures, InsertKeeps, GoOnKeeps

LEMMA HookServicesKeeps == IInv /\ HookServices => IInv'
<1> SUFFICES ASSUME IInv, HookServices PROVE IInv'
  OBVIOUS
<1>1. Stored' /\ Pointed'
  BY Kept3 DEF HookServices, volatile, counters
<1>2. Placed' /\ Requested'
  BY DEF HookServices, IInv, Placed, Requested, counters
<1>3. Planned' /\ Ready'
  BY NothingToDo DEF HookServices
<1> QED
  BY <1>1, <1>2, <1>3 DEF IInv

-----------------------------------------------------------------------------
(***************************************************************************)
(* A plan is begun: by a call, by the first boot and those that follow.    *)
(***************************************************************************)
LEMMA Begun ==
  ASSUME NEW s, NEW f, NEW l, Procedure(request'.op, s, f, l), Free(request'.op, f), todo' = s
  PROVE  Planned' /\ Ready'
<1>1. /\ Linked(request'.op, s) /\ Refreshes(s) /\ s # <<>> /\ s[1] = f
      /\ s \in Seq(Steps(request'.op))
  BY ProcedureIs DEF Procedure
<1>2. Head(todo') = f
  BY <1>1, HeadTailProperties
<1>3. Tracked(s, Rooms')
  <2> DEFINE K == Rooms'
  <2> HIDE DEF K
  <2>1. Tracked(s, K)
    BY <1>1 DEF Tracked, Refreshes
  <2> QED
    BY <2>1 DEF K
<1>4. Planned'
  BY <1>1, <1>3 DEF Planned
<1> QED
  BY <1>2, <1>4, ReadyFree

LEMMA CallIs ==
  ASSUME IInv, NEW op, NEW s, NEW x, Call(op, s, x), NEW f, NEW l, Procedure(op, s, f, l), Free(op, f),
         [x EXCEPT !.op = op].op = op, Requested'
  PROVE  IInv'
<1>1. /\ todo' = s /\ request'.op = op /\ calls' = calls + 1 /\ calls < platform.calls
      /\ UNCHANGED <<platform, flash, up, volatile, crashes, faults>>
  BY DEF Call
<1>2. Stored' /\ Pointed'
  BY <1>1, Kept3 DEF volatile
<1>3. Placed'
  <2>1. platform.calls \in Nat /\ calls \in 0..platform.calls
    BY SizesAre, PlatformIs DEF IInv, Placed
  <2>2. calls' \in 0..platform.calls
    BY <1>1, <2>1
  <2> QED
    BY <1>1, <2>2 DEF IInv, Placed
<1>4. Planned' /\ Ready'
  BY <1>1, Begun
<1> QED
  BY <1>2, <1>3, <1>4 DEF IInv

LEMMA CallAllocateKeeps == IInv /\ CallAllocate => IInv'
<1> SUFFICES ASSUME IInv, CallAllocate PROVE IInv'
  OBVIOUS
<1> DEFINE op == "allocate"
           s == Step("Success")
<1>1. PICK n \in platform.requests :
        Call("allocate", FtwAllocate \o <<s>>, [NoRequest EXCEPT !.writes = n])
  BY DEF CallAllocate
<1>2. request' = [[NoRequest EXCEPT !.writes = n] EXCEPT !.op = op] /\ platform' = platform
  BY <1>1 DEF Call
<1>3. /\ [[NoRequest EXCEPT !.writes = n] EXCEPT !.op = op].op = op
      /\ [[NoRequest EXCEPT !.writes = n] EXCEPT !.op = op].writes = n
  BY DEF NoRequest
<1>4. request'.op = op /\ request'.writes = n
  BY <1>2, <1>3
<1>5. Requested'
  BY <1>2, <1>4 DEF Requested
<1>6. Procedure(op, FtwAllocate \o <<s>>, Step("ReclaimWhenFull"), s)
  <2>1. s \in Steps(op) /\ s.do = "Success"
    BY ServiceStep DEF Asked
  <2>2. Procedure(op, <<s>>, s, s)
    BY <2>1, OneStep
  <2>3. Follows(op, Step("AllocateHeader"), s)
    BY <2>1 DEF Follows, Step
  <2>4. Procedure(op, FtwAllocate, Step("ReclaimWhenFull"), Step("AllocateHeader"))
    BY AllocateProcedure
  <2> HIDE DEF s, op
  <2> QED
    BY <2>2, <2>3, <2>4, Joined
<1>7. Free(op, Step("ReclaimWhenFull"))
  BY PutProcedures
<1> HIDE DEF s, op
<1>8. Call(op, FtwAllocate \o <<s>>, [NoRequest EXCEPT !.writes = n])
  BY <1>1 DEF op
<1> QED
  BY <1>3, <1>5, <1>6, <1>7, <1>8, CallIs

LEMMA CallWriteKeeps == IInv /\ CallWrite => IInv'
<1> SUFFICES ASSUME IInv, CallWrite PROVE IInv'
  OBVIOUS
<1>1. PICK t \in platform.writable, v \in Values, p \in platform.private :
        Call("write", FtwWrite,
             [NoRequest EXCEPT !.target = t, !.value = v, !.private = p, !.writes = 1])
  BY DEF CallWrite
<1> DEFINE x == [NoRequest EXCEPT !.target = t, !.value = v, !.private = p, !.writes = 1]
<1>3. Call("write", FtwWrite, x)
  BY <1>1
<1>4. /\ [x EXCEPT !.op = "write"].op = "write" /\ [x EXCEPT !.op = "write"].target = t
      /\ [x EXCEPT !.op = "write"].value = v /\ [x EXCEPT !.op = "write"].writes = 1
  BY DEF NoRequest
<1> HIDE DEF x
<1>5. request' = [x EXCEPT !.op = "write"] /\ platform' = platform
  BY <1>3 DEF Call
<1>6. Requested'
  BY <1>4, <1>5 DEF Requested
<1> QED
  BY <1>3, <1>4, <1>6, WriteProcedure, PutProcedures, CallIs

LEMMA OtherCallsKeep ==
  ASSUME IInv, CallRestart \/ CallAbort \/ CallLastWrite
  PROVE  IInv'
<1>1. \A op \in {"restart", "abort", "lastwrite"} :
        [NoRequest EXCEPT !.op = op].op = op
  BY DEF NoRequest
<1>2. \A op \in {"restart", "abort", "lastwrite"} :
        Step("Success") \in Steps(op) /\ Free(op, Step("Success")) /\ Step("Success").do # "FindLastWrite"
  BY ServiceStep DEF Asked
<1>3. Requested' /\ request'.op \in {"restart", "abort", "lastwrite"}
  <2>1. \E op \in {"restart", "abort", "lastwrite"} : request' = [NoRequest EXCEPT !.op = op]
    BY DEF CallRestart, CallAbort, CallLastWrite, Call
  <2> QED
    BY <1>1, <2>1 DEF Requested
<1>4. CASE CallRestart
  <2>1. Procedure("restart", FtwRestart \o <<Step("Success")>>, Step("ReclaimWhenFull"), Step("Success"))
    BY <1>2, PutProcedures, StepBehind
  <2> QED
    BY <1>1, <1>3, <1>4, <2>1, PutProcedures, CallIs DEF CallRestart
<1>5. CASE CallAbort
  <2>1. Procedure("abort", FtwAbort \o <<Step("Success")>>, Step("ReclaimWhenFull"), Step("Success"))
    BY <1>2, PutProcedures, StepBehind
  <2> QED
    BY <1>1, <1>3, <1>5, <2>1, PutProcedures, CallIs DEF CallAbort
<1>6. CASE CallLastWrite
  <2>1. Procedure("lastwrite", FtwGetLastWrite, Step("ReclaimWhenFull"), Step("LastWrite"))
    BY AbortProcedure
  <2> QED
    BY <1>1, <1>3, <1>6, <2>1, PutProcedures, CallIs DEF CallLastWrite
<1> QED
  BY <1>4, <1>5, <1>6

LEMMA PowerLossKeeps == IInv /\ PowerLoss => IInv'
<1> SUFFICES ASSUME IInv, PowerLoss PROVE IInv'
  OBVIOUS
<1>1. /\ crashes < platform.crashes /\ crashes' = crashes + 1
      /\ up' = FALSE /\ todo' = InitFtwProtocol /\ request' = NoRequest
      /\ header' = 1 /\ record' = 2 /\ offset' = 1
      /\ buffer' = <<Erased, Erased>> /\ spareBuffer' = <<Erased, Erased>>
      /\ UNCHANGED <<platform, flash, calls, faults>>
  BY DEF PowerLoss
<1>2. Placed'
  <2>1. platform.crashes \in Nat /\ crashes \in 0..platform.crashes
    BY SizesAre, PlatformIs DEF IInv, Placed
  <2>2. crashes' \in 0..platform.crashes
    BY <1>1, <2>1
  <2> QED
    BY <1>1, <2>2 DEF IInv, Placed
<1>3. Stored'
  BY <1>1, ContentsGood DEF IInv, Stored
<1>4. Pointed'
  BY <1>1, SizesAre DEF Pointed
<1>5. Requested'
  BY <1>1 DEF Requested, NoRequest
<1>6. Planned' /\ Ready'
  BY <1>1, InitProcedure, PutProcedures, Begun
<1> QED
  BY <1>2, <1>3, <1>4, <1>5, <1>6 DEF IInv

-----------------------------------------------------------------------------
(***************************************************************************)
(* The invariant holds at first, and every step keeps it that finds room   *)
(* for the header it places.                                               *)
(***************************************************************************)
LEMMA FirstBoot == Init => IInv
<1> SUFFICES ASSUME Init PROVE IInv
  OBVIOUS
<1>1. PICK v \in Values, formatted \in BOOLEAN :
        flash = [a \in Areas |->
                  IF a = "spare" THEN <<Erased, Erased>>
                  ELSE IF a = "work"
                  THEN <<Data(v), IF formatted THEN WorkSpace(TRUE, TRUE, FALSE, EmptyQueue)
                                  ELSE Erased>>
                  ELSE <<Data(v), Data(v)>>]
  BY DEF Init
<1>2. /\ platform \in Platforms /\ up = FALSE /\ todo = InitFtwProtocol
      /\ header = 1 /\ record = 2 /\ offset = 1 /\ request = NoRequest
      /\ buffer = <<Erased, Erased>> /\ spareBuffer = <<Erased, Erased>>
      /\ calls = 0 /\ crashes = 0 /\ faults = 0
  BY DEF Init
<1>3. Placed
  <2>1. platform.calls \in Nat /\ platform.crashes \in Nat /\ platform.faults \in Nat
    BY <1>2, PlatformIs
  <2>2. /\ calls \in 0..platform.calls /\ crashes \in 0..platform.crashes
        /\ faults \in 0..platform.faults
    BY <1>2, <2>1
  <2> QED
    BY <1>2, <2>2 DEF Placed
<1> DEFINE c == WorkSpace(TRUE, TRUE, FALSE, Blank(platform.queue))
<1>4. c \in GoodBlocks(platform)
  <2>1. Blank(platform.queue) \in GoodQueues(platform)
    BY <1>2, BlankGood
  <2> QED
    BY <2>1 DEF WorkSpace, GoodSpaces, GoodBlocks
<1>5. c = WorkSpace(TRUE, TRUE, FALSE, EmptyQueue)
  BY DEF EmptyQueue, Blank, Cells, QueueSize
<1> HIDE DEF c
<1>6. /\ <<Erased, Erased>> \in Images(platform)
      /\ <<Data(v), c>> \in Images(platform) /\ <<Data(v), Erased>> \in Images(platform)
      /\ <<Data(v), Data(v)>> \in Images(platform)
  BY <1>4, ContentsGood, ImageIs
<1>7. flash \in Flashes(platform)
  BY <1>1, <1>5, <1>6 DEF Flashes
<1>8. Stored
  BY <1>2, <1>6, <1>7 DEF Stored
<1>9. Pointed
  BY <1>2, PlatformIs DEF Pointed
<1>10. Requested
  BY <1>2 DEF Requested, NoRequest
<1>11. /\ Procedure(request.op, todo, Step("ReclaimWhenFull"), Step("HookServices"))
       /\ Free(request.op, Step("ReclaimWhenFull"))
  BY <1>2, InitProcedure, PutProcedures
<1>12. Planned /\ Ready
  <2>1. /\ Linked(request.op, todo) /\ Refreshes(todo) /\ todo # <<>>
        /\ todo[1] = Step("ReclaimWhenFull") /\ todo \in Seq(Steps(request.op))
    BY <1>11, ProcedureIs DEF Procedure
  <2>2. Head(todo) = Step("ReclaimWhenFull")
    BY <2>1, HeadTailProperties
  <2>3. Tracked(todo, Rooms)
    <3> DEFINE K == Rooms
    <3> HIDE DEF K
    <3>1. Tracked(todo, K)
      BY <2>1 DEF Tracked, Refreshes
    <3> QED
      BY <3>1 DEF K
  <2>4. Looked(Head(todo)) /\ Cleared(Head(todo))
    BY <1>11, <2>2 DEF Free, Looked, Cleared
  <2> QED
    BY <2>1, <2>3, <2>4 DEF Planned, Ready
<1> QED
  BY <1>3, <1>8, <1>9, <1>10, <1>12 DEF IInv

LEMMA StutterKeeps == IInv /\ UNCHANGED vars => IInv'
<1> SUFFICES ASSUME IInv, UNCHANGED vars PROVE IInv'
  OBVIOUS
<1>1. /\ UNCHANGED <<flash, up, todo, request, header, record, offset, buffer, spareBuffer>>
      /\ UNCHANGED <<platform, calls, crashes, faults>> /\ UNCHANGED <<flash, volatile, counters>>
  BY DEF vars, volatile, counters
<1>2. /\ Placed' /\ Stored' /\ Pointed' /\ Requested'
      /\ platform' = platform /\ header' = header /\ record' = record
      /\ Queue("work")' = Queue("work")
  BY <1>1, Alone
<1>3. Rooms' = Rooms
  BY <1>1 DEF Rooms, Room
<1>4. Planned'
  BY <1>1, <1>3 DEF IInv, Planned
<1>5. Fresh' = Fresh /\ Served' = Served
  BY <1>1, <1>2 DEF Fresh, Served, Allocated
<1>6. Ready'
  BY <1>1, <1>2, <1>5 DEF IInv, Ready, Looked, Cleared, Allocated, SpareDone, DestDone
<1> QED
  BY <1>2, <1>4, <1>6 DEF IInv

LEMMA StepKeeps == IInv /\ RoomForHeader /\ [Next]_vars => IInv'
<1> SUFFICES ASSUME IInv, RoomForHeader, [Next]_vars PROVE IInv'
  OBVIOUS
<1>1. CASE FlashAccess
  BY <1>1, EraseKeeps, CopyKeeps, MarkValidKeeps, MarkKeeps, AllocateWriteHeaderKeeps,
     MarkWritesAllocatedKeeps, WriteRecordCellKeeps DEF FlashAccess
<1>2. CASE ReclaimWhenFull \/ FindLastWrite \/ CleanUp \/ CleanAll \/ LoadSpare \/ LoadSpareAsWork
           \/ LoadTarget
  BY <1>2, ReclaimWhenFullKeeps, FindLastWriteKeeps, CleanKeeps, LoadSpareKeeps,
     LoadSpareAsWorkKeeps, LoadTargetKeeps
<1>3. CASE AllocateHeader \/ NeedHeader \/ CheckRecord \/ CheckRestart \/ AbortWrites \/ LastWrite
           \/ NotFound \/ Success
  BY <1>3, AllocateHeaderKeeps, NeedHeaderKeeps, CheckRecordKeeps, CheckRestartKeeps,
     AbortWritesKeeps, LastWriteKeeps, ReturnKeeps
<1>4. CASE ChooseWorkSpace \/ AbortFirstRecord \/ AbortLastRecord \/ CheckRemainder
           \/ RestartLastWrite \/ HookServices
  BY <1>4, ChooseWorkSpaceKeeps, AbortRecordKeeps, CheckRemainderKeeps, RestartLastWriteKeeps,
     HookServicesKeeps
<1>5. CASE Callers
  BY <1>5, CallAllocateKeeps, CallWriteKeeps, OtherCallsKeep DEF Callers
<1>6. CASE PowerLoss
  BY <1>6, PowerLossKeeps
<1>7. CASE DeviceError
  BY <1>7, ReturnKeeps
<1>8. CASE UNCHANGED vars
  BY <1>8, StutterKeeps
<1> QED
  BY <1>1, <1>2, <1>3, <1>4, <1>5, <1>6, <1>7, <1>8 DEF Next, Driver

-----------------------------------------------------------------------------
(***************************************************************************)
(* What the invariant implies.                                             *)
(***************************************************************************)
LEMMA CellValuesAre ==
  ASSUME IInv
  PROVE  CellSet(HeaderWrites(platform), RecordTargets(platform)) \subseteq CellValues
<1>1. /\ HeaderWrites(platform) = platform.requests \cup {1}
      /\ RecordTargets(platform) \subseteq platform.writable \cup {"unknown"}
  BY DEF HeaderWrites, RecordTargets
<1> QED
  BY <1>1 DEF CellSet, CellValues

LEMMA ContentsAre ==
  ASSUME IInv, NEW c \in GoodBlocks(platform)
  PROVE  IsContents(c)
<1>1. CASE c \in Contents
  <2>1. c.kind # "space"
    BY <1>1 DEF Contents, Erased, Data
  <2> QED
    BY <1>1, <2>1 DEF IsContents
<1>2. CASE c \in GoodSpaces(platform)
  <2>1. /\ c.kind = "space" /\ c.formatted \in BOOLEAN /\ c.valid \in BOOLEAN /\ c.invalid \in BOOLEAN
        /\ c.queue \in GoodQueues(platform)
    BY <1>2 DEF GoodSpaces
  <2>2. c.queue \in [1..platform.queue -> CellSet(HeaderWrites(platform), RecordTargets(platform))]
    BY <2>1 DEF GoodQueues, Queues
  <2>3. c.queue \in [1..platform.queue -> CellValues]
    BY <2>2, CellValuesAre
  <2>4. c.queue \in [Cells -> CellValues]
    BY <2>3 DEF Cells, QueueSize
  <2> QED
    BY <2>1, <2>4 DEF IsContents
<1> QED
  BY <1>1, <1>2 DEF GoodBlocks

LEMMA IsTyped == IInv => TypeOK
<1> SUFFICES ASSUME IInv PROVE TypeOK
  OBVIOUS
<1>1. DOMAIN flash = Areas /\ \A a \in Areas, b \in 1..2 : IsContents(flash[a][b])
  <2>1. \A a \in Areas, b \in 1..2 : flash[a][b] \in GoodBlocks(platform)
    BY SpaceIs
  <2>2. DOMAIN flash = Areas
    BY DEF IInv, Stored, Flashes
  <2> QED
    BY <2>1, <2>2, ContentsAre
<1>2. \A b \in 1..2 : IsContents(buffer[b]) /\ IsContents(spareBuffer[b])
  <2>1. \A b \in 1..2 : buffer[b] \in GoodBlocks(platform) /\ spareBuffer[b] \in GoodBlocks(platform)
    BY DEF IInv, Stored, Images
  <2> QED
    BY <2>1, ContentsAre
<1>3. /\ header \in 1..(QueueSize - 1) /\ record \in (header + 1)..QueueSize /\ offset \in Cells
  BY SizesAre DEF IInv, Pointed, Cells
<1>4. \A i \in DOMAIN todo : todo[i].area \in Areas \cup {"none"} /\ todo[i].block \in 0..2
  <2>1. todo \in Seq(Steps(request.op))
    BY DEF IInv, Planned, Linked
  <2>2. \A i \in DOMAIN todo : todo[i] \in Steps(request.op)
    BY <2>1
  <2> QED
    BY <2>2 DEF Steps
<1> QED
  BY <1>1, <1>2, <1>3, <1>4 DEF TypeOK, IInv, Placed

LEMMA IsInOrder == IInv => QueueInOrder
<1> SUFFICES ASSUME IInv PROVE QueueInOrder
  OBVIOUS
<1> DEFINE q == Queue(Current)
           n == platform.queue
           h == LastHeader(q, n)
           last == IF h \in Cells /\ Allocated(q, h) THEN h + q[h].writes ELSE h - 1
<1>1. Current \in Areas
  BY AreasAre DEF Current
<1>2. GoodQueue(q) /\ n \in Nat /\ HeaderWrites(platform) \in SUBSET Counts /\ Cells = 1..n
      /\ QueueSize = n /\ FtwGetLastWriteHeader(q) = h
  BY <1>1, SpaceIs, SizesAre DEF Cells
<1>3. last = LastCell(q, n)
  BY <1>2 DEF LastCell
<1>4. /\ q \in Queues(n, HeaderWrites(platform), RecordTargets(platform))
      /\ InOrder(q, n)
  BY <1>2 DEF GoodQueue
<1>5. h \in 1..(n + 1) /\ LastCell(q, n) \in Nat
  <2> HIDE DEF q, n
  <2> QED
    BY <1>2, <1>4, LastIs
<1>6. last <= n /\ \A c \in (last + 1)..n : q[c] = EmptyCell
  <2> HIDE DEF q, n, h, last
  <2> QED
    BY <1>2, <1>3, <1>4, <1>5 DEF InOrder
<1>7. \A c, d \in (h + 1)..last : c < d /\ q[d] # EmptyCell => DestDone(q, c)
  <2>1. \A c, d \in 1..n : h < c /\ c < d /\ q[d] # EmptyCell => DestDone(q, c)
    BY <1>4 DEF InOrder
  <2> HIDE DEF q, n, h, last
  <2>2. \A c \in (h + 1)..last : c \in 1..n /\ h < c
    BY <1>2, <1>3, <1>5, <1>6
  <2> QED
    BY <2>1, <2>2
<1> HIDE DEF q, n, h
<1> QED
  BY <1>2, <1>6, <1>7 DEF QueueInOrder, q

\* Only a successful allocation returns this status.
LEMMA AllocationReturns ==
  ASSUME [Next]_vars, status' = "allocated", status # "allocated"
  PROVE  At("Success") /\ request.op = "allocate"
<1>1. ~FlashAccess
  BY DEF FlashAccess, Erase, Write, Restore, MarkValid, MarkInvalid, MarkSpareComplete,
         MarkDestComplete, MarkComplete, AllocateWriteHeader, MarkWritesAllocated, WriteRecordCell,
         GoOn
<1>2. ~(ReclaimWhenFull \/ FindLastWrite \/ CleanUp \/ CleanAll \/ LoadSpare \/ LoadSpareAsWork
        \/ LoadTarget)
  BY DEF ReclaimWhenFull, FindLastWrite, CleanUp, CleanAll, CleanWorkSpace, LoadSpare,
         LoadSpareAsWork, LoadTarget, GoOn, Insert
<1>3. ~(AllocateHeader \/ NeedHeader \/ CheckRecord \/ CheckRestart \/ AbortWrites)
  BY DEF AllocateHeader, NeedHeader, CheckRecord, CheckRestart, AbortWrites, Return, GoOn, Insert
<1>4. ~(LastWrite \/ NotFound)
  BY DEF LastWrite, NotFound, Return, GoOn, Insert
<1>5. ~(ChooseWorkSpace \/ AbortFirstRecord \/ AbortLastRecord \/ CheckRemainder
        \/ RestartLastWrite \/ HookServices)
  BY DEF ChooseWorkSpace, AbortFirstRecord, AbortLastRecord, CheckRemainder, RestartLastWrite,
         HookServices, GoOn, Insert
<1>6. ~(Callers \/ PowerLoss)
  BY DEF Callers, CallAllocate, CallWrite, CallRestart, CallAbort, CallLastWrite, Call, PowerLoss
<1>7. ~DeviceError
  BY DEF DeviceError, Return
<1>8. Success => At("Success") /\ request.op = "allocate"
  BY DEF Success, Return
<1>9. ~UNCHANGED vars
  BY DEF vars
<1> QED
  BY <1>1, <1>2, <1>3, <1>4, <1>5, <1>6, <1>7, <1>8, <1>9 DEF Next, Driver

LEMMA ServedStep ==
  ASSUME IInv, [Next]_vars
  PROVE  status' = "allocated" /\ status # "allocated" =>
           LET q == Queue("work")
               h == FtwGetLastWriteHeader(q)
           IN  /\ h \in Cells /\ Allocated(q, h)
               /\ q[h].writes = request.writes /\ q[h].writesAllocated
               /\ \A c \in (h + 1)..(h + q[h].writes) : c \in Cells /\ q[c] = EmptyCell
<1> SUFFICES ASSUME status' = "allocated", status # "allocated"
             PROVE  LET q == Queue("work")
                        h == FtwGetLastWriteHeader(q)
                    IN  /\ h \in Cells /\ Allocated(q, h)
                        /\ q[h].writes = request.writes /\ q[h].writesAllocated
                        /\ \A c \in (h + 1)..(h + q[h].writes) : c \in Cells /\ q[c] = EmptyCell
  OBVIOUS
<1> DEFINE q == Queue("work")
           n == platform.queue
<1>1. At("Success") /\ request.op = "allocate"
  BY AllocationReturns
<1>2. header = LastHeader(q, n) /\ Served /\ q[header].writesAllocated
  BY <1>1, HeadIs DEF Looked, At
<1>3. FtwGetLastWriteHeader(q) = header /\ Cells = 1..n /\ header \in 1..n /\ n \in Nat
  BY <1>2, SizesAre DEF IInv, Pointed, Cells
<1>4. Allocated(q, header) /\ q[header].writes = request.writes /\ Untouched(q, n, header)
  BY <1>2 DEF Served
<1>5. request.writes \in Nat
  BY <1>1, WritesAre
<1> HIDE DEF n, q
<1>6. \A c \in (header + 1)..(header + q[header].writes) : c \in Cells /\ q[c] = EmptyCell
  BY <1>3, <1>4, <1>5 DEF Untouched
<1>7. /\ FtwGetLastWriteHeader(q) \in Cells /\ Allocated(q, FtwGetLastWriteHeader(q))
      /\ q[FtwGetLastWriteHeader(q)].writes = request.writes
      /\ q[FtwGetLastWriteHeader(q)].writesAllocated
  BY <1>2, <1>3, <1>4
<1> QED
  BY <1>3, <1>6, <1>7 DEF q

LEMMA ErasedStep ==
  ASSUME IInv, OneWritable(platform)
  PROVE  /\ (Write \/ Restore) => flash[Head(todo).area][Head(todo).block] = Erased
         /\ AllocateWriteHeader => Queued(offset) = EmptyCell
         /\ WriteRecordCell => Queued(record) \in {EmptyCell, WriteRecord(request.target)}
<1> DEFINE s == Head(todo)
           n == platform.queue
           q == Queue("work")
<1>1. ASSUME Write \/ Restore PROVE flash[s.area][s.block] = Erased
  <2>1. todo # <<>> /\ s.do \in {"Write", "Restore"}
    BY <1>1 DEF Write, Restore, At
  <2>2. s.block \in 1..2 /\ Cleared(s)
    BY <2>1, HeadIs DEF Steps, Writers
  <2> QED
    BY <2>1, <2>2 DEF Cleared
<1>2. ASSUME AllocateWriteHeader PROVE Queued(offset) = EmptyCell
  <2>1. todo # <<>> /\ s.do = "WriteHeader"
    BY <1>2 DEF AllocateWriteHeader, At
  <2>2. Fresh /\ offset = header /\ ~Allocated(q, header)
    BY <2>1, HeadIs DEF Looked
  <2>3. /\ LastHeader(q, n) = header /\ header \in 1..n /\ InOrder(q, n)
        /\ q \in Queues(n, HeaderWrites(platform), RecordTargets(platform))
        /\ n \in Nat /\ HeaderWrites(platform) \in SUBSET Counts
    BY <2>2, FreshIs
  <2> HIDE DEF n, q
  <2>4. \A c \in header..n : q[c] = EmptyCell
    BY <2>2, <2>3, HeaderPlace
  <2>5. q[header] = EmptyCell
    BY <2>3, <2>4
  <2> QED
    BY <2>2, <2>5 DEF q, Queued
<1>3. ASSUME WriteRecordCell PROVE Queued(record) \in {EmptyCell, WriteRecord(request.target)}
  <2>1. todo # <<>> /\ s.do = "WriteRecord"
    BY <1>3 DEF WriteRecordCell, At
  <2>2. /\ Fresh /\ Allocated(q, header) /\ ~DestDone(q, record) /\ ~SpareDone(q, record)
        /\ request.op = "write"
    BY <2>1, HeadIs DEF Looked, Steps
  <2>3. /\ LastHeader(q, n) = header /\ header \in 1..n /\ InOrder(q, n)
        /\ q \in Queues(n, HeaderWrites(platform), RecordTargets(platform))
        /\ n \in Nat /\ HeaderWrites(platform) \in SUBSET Counts
        /\ record \in 1..n /\ record \in (header + 1)..n
    BY <2>2, FreshIs DEF IInv, Pointed
  <2>4. ~Allocated(q, record) /\ q[record] \in CellSet(HeaderWrites(platform), RecordTargets(platform))
    <3> HIDE DEF n, q
    <3>1. \A c \in (header + 1)..n : ~Allocated(q, c)
      BY <2>3, HeaderPlace
    <3> QED
      BY <2>3, <3>1 DEF Queues
  <2>5. request.target \in platform.writable
    BY <2>2 DEF IInv, Requested
  <2> DEFINE c == q[record]
  <2>6. /\ c \in CellSet(HeaderWrites(platform), RecordTargets(platform)) /\ c.kind # "header"
        /\ ~(c.kind = "record" /\ c.spareComplete) /\ ~(c.kind = "record" /\ c.destComplete)
    BY <2>2, <2>4 DEF Allocated, SpareDone, DestDone
  <2> HIDE DEF c
  <2>7. CASE c \in [kind : {"erased"}]
    BY <2>7 DEF EmptyCell, c, Queued
  <2>8. CASE c \in [kind : {"record"}, target : RecordTargets(platform),
                    spareComplete : BOOLEAN, destComplete : BOOLEAN]
    <3>1. c.target = request.target
      BY <2>5, <2>8 DEF RecordTargets, OneWritable
    <3>2. c.kind = "record" /\ c.spareComplete = FALSE /\ c.destComplete = FALSE
      BY <2>6, <2>8
    <3>3. c = WriteRecord(request.target)
      BY <2>8, <3>1, <3>2 DEF WriteRecord
    <3> QED
      BY <3>3 DEF c, Queued
  <2> QED
    BY <2>6, <2>7, <2>8 DEF CellSet
<1> QED
  BY <1>1, <1>2, <1>3

\* One write at a time finds room for its header.
OneAtATime == \A p \in Platforms : p.requests \subseteq {1}

LEMMA RoomForOne ==
  ASSUME IInv, OneAtATime
  PROVE  RoomForHeader
<1> SUFFICES ASSUME At("AllocateHeader")
             PROVE  header + TotalSize(request.writes) - 1 <= QueueSize
  BY DEF RoomForHeader
<1>1. request.op \in {"allocate", "write"}
  BY HeadIs DEF At, Steps
<1>2. request.writes = 1
  BY <1>1, SizesAre DEF IInv, Requested, OneAtATime
<1>3. header \in 1..(platform.queue - 1) /\ QueueSize = platform.queue /\ platform.queue \in Nat
  BY SizesAre DEF IInv, Pointed
<1> QED
  BY <1>2, <1>3 DEF TotalSize

-----------------------------------------------------------------------------
(***************************************************************************)
(* The theorems.                                                           *)
(***************************************************************************)
\* The invariant of every call, crash and recovery: what flash, the copy of the
\* work space in memory and the rest of a call have to do with each other.
THEOREM Inductive == Spec /\ []RoomForHeader => []IInv
<1>1. Init => IInv
  BY FirstBoot
<1>2. IInv /\ RoomForHeader /\ [Next]_vars => IInv'
  BY StepKeeps
<1> QED
  BY <1>1, <1>2, PTL DEF Spec

\* Areas hold blocks, the work space a queue of cells of the platform's size,
\* and a call its operands, through every crash and failing flash access.
THEOREM TypesKept == Spec /\ []RoomForHeader => []TypeOK
<1>1. IInv => TypeOK
  BY IsTyped
<1> QED
  BY <1>1, Inductive, PTL

\* The queue of the work space stays in the order FtwGetLastWriteHeader and
\* FtwGetLastWriteRecord walk it in: allocated headers with their records, at
\* most the last of them open, whatever crashes cut off.
THEOREM OrderKept == Spec /\ []RoomForHeader => []QueueInOrder
<1>1. IInv => QueueInOrder
  BY IsInOrder
<1> QED
  BY <1>1, Inductive, PTL

\* A call of Allocate that returns EFI_SUCCESS leaves its header in the work
\* space as the last one, with the records asked for free behind it.
THEOREM AllocationsServed == Spec /\ []RoomForHeader => AllocateServed
<1> DEFINE A == status' = "allocated" /\ status # "allocated" =>
                  LET q == Queue("work")
                      h == FtwGetLastWriteHeader(q)
                  IN  /\ h \in Cells /\ Allocated(q, h)
                      /\ q[h].writes = request.writes /\ q[h].writesAllocated
                      /\ \A c \in (h + 1)..(h + q[h].writes) : c \in Cells /\ q[c] = EmptyCell
<1>1. IInv /\ [Next]_vars => [A]_vars
  BY ServedStep
<1>2. Spec /\ []RoomForHeader => [][A]_vars
  <2> HIDE DEF A
  <2> QED
    BY <1>1, Inductive, PTL DEF Spec
<1> QED
  BY <1>2 DEF AllocateServed

\* FtwWrite, the recovery at boot and the queue write only where flash is erased
\* (or, in a record, has the same target), where callers write one block.
THEOREM ErasedFirst ==
  ASSUME \A p \in Platforms : OneWritable(p)
  PROVE  Spec /\ []RoomForHeader => ErasedBeforeWritten
<1> DEFINE A == /\ (Write \/ Restore) => flash[Head(todo).area][Head(todo).block] = Erased
                /\ AllocateWriteHeader => Queued(offset) = EmptyCell
                /\ WriteRecordCell => Queued(record) \in {EmptyCell, WriteRecord(request.target)}
<1>1. IInv /\ [Next]_vars => [A]_vars
  BY ErasedStep, SizesAre
<1>2. Spec /\ []RoomForHeader => [][A]_vars
  <2> HIDE DEF A
  <2> QED
    BY <1>1, Inductive, PTL DEF Spec
<1> QED
  BY <1>2 DEF ErasedBeforeWritten

\* Callers that ask for one write at a time, as the variable driver does, always
\* find room for the header and its record behind the last header.
THEOREM RoomForOneWrite ==
  ASSUME OneAtATime
  PROVE  Spec => []RoomForHeader
<1>1. Init => IInv
  BY FirstBoot
<1>2. IInv => RoomForHeader
  BY RoomForOne
<1>3. IInv /\ [Next]_vars => IInv'
  BY <1>2, StepKeeps
<1> QED
  BY <1>1, <1>2, <1>3, PTL DEF Spec

\* So, for such callers, the types, the order of the queue and what Allocate
\* promises hold without a condition.
THEOREM OneWriteAtATime ==
  ASSUME OneAtATime
  PROVE  Spec => [](TypeOK /\ QueueInOrder) /\ AllocateServed
<1> HIDE DEF AllocateServed
<1> QED
  BY RoomForOneWrite, TypesKept, OrderKept, AllocationsServed, PTL
=============================================================================
