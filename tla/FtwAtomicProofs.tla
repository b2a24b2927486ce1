-------------------------- MODULE FtwAtomicProofs ---------------------------
(***************************************************************************)
(* The fault tolerant write driver implements FtwAtomic, whatever losses   *)
(* of power there are: for every value of the constants where flash        *)
(* accesses do not fail and callers do not write the working block.  The   *)
(* invariant says, for each step of a write, of a reclaim and of the       *)
(* recovery at boot, what the flash holds before it.                       *)
(***************************************************************************)
EXTENDS FaultTolerantWriteProofs

-----------------------------------------------------------------------------
(***************************************************************************)
(* Open queues: the last header is not complete.  Its last record may have *)
(* reached the spare block and not yet its destination.                    *)
(***************************************************************************)
Open(q, n)   == LastHeader(q, n) \in 1..n /\ Allocated(q, LastHeader(q, n))
Last(q, n)   == LastRecord(q, n, LastHeader(q, n))
Spared(q, n) == Open(q, n) /\ SpareDone(q, Last(q, n)) /\ ~DestDone(q, Last(q, n))

\* The last record has been written and has not reached its destination.
Waiting(q, n) == Open(q, n) /\ q[Last(q, n)].kind = "record" /\ ~DestDone(q, Last(q, n))

\* The last header of an open queue has room for its records.
OpenRanges(q, n) ==
  /\ LastHeader(q, n) \in 1..(n - 1) /\ LastHeader(q, n) \in 1..n /\ LastHeader(q, n) \in Nat
  /\ Last(q, n) \in (LastHeader(q, n) + 1)..n /\ Last(q, n) \in 1..n
  /\ q[LastHeader(q, n)].writes \in Nat /\ q[LastHeader(q, n)].writes # 0
  /\ ~q[LastHeader(q, n)].complete
  /\ Last(q, n) <= LastHeader(q, n) + q[LastHeader(q, n)].writes
  /\ LastHeader(q, n) + q[LastHeader(q, n)].writes <= n
  /\ LastCell(q, n) = LastHeader(q, n) + q[LastHeader(q, n)].writes
  /\ \A c \in (LastHeader(q, n) + 1)..n : c < Last(q, n) => DestDone(q, c)

LEMMA OpenIs ==
  ASSUME NEW n \in Nat, NEW W \in SUBSET Counts, NEW T, NEW q \in Queues(n, W, T), InOrder(q, n),
         Open(q, n)
  PROVE  OpenRanges(q, n)
<1> DEFINE h == LastHeader(q, n)
<1>1. /\ q[h].writes \in Nat /\ q[h].writes # 0 /\ ~q[h].complete
      /\ h + q[h].writes <= n /\ LastCell(q, n) = h + q[h].writes /\ h \in 1..n
  BY HeaderPlace DEF Open
<1>2. h \in 1..(n - 1)
  BY <1>1
<1>3. /\ Last(q, n) \in (h + 1)..n
      /\ \A c \in (h + 1)..n : c < Last(q, n) => DestDone(q, c)
      /\ Last(q, n) <= h + q[h].writes
  BY <1>2, RecordPlace DEF Last, Open
<1> QED
  BY <1>1, <1>2, <1>3 DEF OpenRanges

LEMMA BlankClosed ==
  ASSUME NEW n \in Nat
  PROVE  ~Open(Blank(n), n)
<1>1. Blank(n) \in [1..n -> {EmptyCell}]
  BY DEF Blank
<1>2. \A h \in 1..n : ~Allocated(Blank(n), h)
  BY DEF Blank, Allocated, EmptyCell
<1> QED
  BY <1>2 DEF Open

LEMMA KeptClosed ==
  ASSUME NEW n \in Nat, NEW q, ~Open(q, n)
  PROVE  Kept(q, n) = Blank(n)
BY DEF Open, Kept

\* The last record depends on the last header, its number of writes, and on
\* which records are complete.
LEMMA LastSame ==
  ASSUME NEW n \in Nat, NEW q, NEW r, NEW h \in 1..n,
         Allocated(q, h) <=> Allocated(r, h), q[h].writes = r[h].writes,
         \A c \in (h + 1)..n : DestDone(q, c) <=> DestDone(r, c)
  PROVE  LastRecord(q, n, h) = LastRecord(r, n, h)
<1> DEFINE A == {c \in (h + 1)..n : (Allocated(q, h) => c <= h + q[h].writes) /\ ~DestDone(q, c)}
           B == {c \in (h + 1)..n : (Allocated(r, h) => c <= h + r[h].writes) /\ ~DestDone(r, c)}
           F(S, w) == IF S = {} THEN h + w ELSE CHOOSE c \in S : \A d \in S : c <= d
<1>1. A = B
  OBVIOUS
<1>2. LastRecord(q, n, h) = F(A, q[h].writes)
  BY DEF LastRecord
<1>3. LastRecord(r, n, h) = F(B, r[h].writes)
  BY DEF LastRecord
<1> HIDE DEF A, B, F
<1> QED
  BY <1>1, <1>2, <1>3

\* A queue with an open header is not open when the bit of another cell, or
\* another bit of a header, is set in it, but in the same way.
LEMMA MarkOpen ==
  ASSUME NEW n \in Nat, NEW W \in SUBSET Counts, NEW T, NEW q \in Queues(n, W, T), InOrder(q, n),
         NEW c \in 1..n, NEW bit \in Bits, NEW r, r = Marked(q, c, bit)
  PROVE  /\ r \in Queues(n, W, T) /\ InOrder(r, n) /\ MarkOnly(q, r, n, c, bit)
         /\ Open(r, n) => Open(q, n) /\ LastHeader(r, n) = LastHeader(q, n)
         /\ bit = "complete" /\ c = LastHeader(q, n) => ~Open(r, n)
         /\ ~(bit = "complete" /\ c = LastHeader(q, n)) /\ Open(q, n) => Open(r, n)
<1>1. /\ r \in Queues(n, W, T) /\ MarkOnly(q, r, n, c, bit)
      /\ InOrder(r, n) /\ LastCell(r, n) = LastCell(q, n)
      /\ LastHeader(r, n) = IF bit = "complete" /\ c = LastHeader(q, n) /\ Allocated(q, c)
                            THEN LastCell(q, n) + 1 ELSE LastHeader(q, n)
  BY MarkedIs, MarkInOrder
<1>2. \A d \in 1..n : Allocated(q, d) <=> Allocated(r, d)
  BY <1>1 DEF MarkOnly
<1>3. CASE bit = "complete" /\ c = LastHeader(q, n) /\ Allocated(q, c)
  <2>1. LastHeader(r, n) = LastCell(q, n) + 1 /\ LastCell(q, n) \in Nat
    BY <1>1, <1>3, LastIs
  <2>2. ASSUME LastHeader(r, n) \in 1..n PROVE ~Allocated(r, LastHeader(r, n))
    <3>1. q[LastHeader(r, n)] = EmptyCell
      BY <2>1, <2>2 DEF InOrder
    <3> QED
      BY <1>2, <2>2, <3>1 DEF Allocated, EmptyCell
  <2>3. ~Open(r, n)
    BY <2>2 DEF Open
  <2> QED
    BY <1>1, <1>3, <2>3
<1>4. CASE ~(bit = "complete" /\ c = LastHeader(q, n) /\ Allocated(q, c))
  BY <1>1, <1>2, <1>4 DEF Open
<1> QED
  BY <1>1, <1>3, <1>4

\* A bit that is set elsewhere leaves the last record as it is.
LEMMA MarkElsewhere ==
  ASSUME NEW n \in Nat, NEW W \in SUBSET Counts, NEW T, NEW q \in Queues(n, W, T), InOrder(q, n),
         NEW c \in 1..n, NEW bit \in {"complete", "writesAllocated"}, NEW r, r = Marked(q, c, bit),
         Open(r, n)
  PROVE  /\ Open(q, n) /\ Last(r, n) = Last(q, n) /\ Last(q, n) \in 1..n
         /\ Spared(r, n) <=> Spared(q, n)
         /\ Waiting(r, n) <=> Waiting(q, n)
         /\ SpareDone(r, Last(r, n)) <=> SpareDone(q, Last(q, n))
         /\ Waiting(r, n) => r[Last(r, n)].target = q[Last(q, n)].target
<1>1. /\ MarkOnly(q, r, n, c, bit) /\ Open(q, n) /\ LastHeader(r, n) = LastHeader(q, n)
      /\ r \in Queues(n, W, T)
  BY MarkOpen DEF Bits
<1> DEFINE h == LastHeader(q, n)
<1>2. h \in 1..n /\ Last(q, n) \in 1..n /\ h \in Nat
  BY <1>1, OpenIs DEF OpenRanges
<1>3. /\ Allocated(q, h) <=> Allocated(r, h)
      /\ q[h].writes = r[h].writes
      /\ \A d \in 1..n : (DestDone(q, d) <=> DestDone(r, d)) /\ (SpareDone(q, d) <=> SpareDone(r, d))
                         /\ r[d].kind = q[d].kind
  BY <1>1, <1>2 DEF MarkOnly, Open
<1>4. \A d \in (h + 1)..n : DestDone(q, d) <=> DestDone(r, d)
  BY <1>2, <1>3
<1>5. LastRecord(q, n, h) = LastRecord(r, n, h)
  BY <1>2, <1>3, <1>4, LastSame
<1>6. Last(r, n) = Last(q, n)
  BY <1>1, <1>5 DEF Last
<1>7. ASSUME r[Last(q, n)].kind = "record" PROVE r[Last(q, n)].target = q[Last(q, n)].target
  <2>1. q[Last(q, n)].kind = "record"
    BY <1>2, <1>3, <1>7
  <2>2. r[Last(q, n)] = IF Last(q, n) = c THEN WithBit(q[c], bit) ELSE q[Last(q, n)]
    BY <1>1, <1>2 DEF MarkOnly
  <2>3. WithBit(q[Last(q, n)], bit).target = q[Last(q, n)].target
    <3>1. q[Last(q, n)] \in CellSet(W, T)
      BY <1>2, QueueIs
    <3> QED
      BY <2>1, <3>1, BitIs DEF Bits
  <2> QED
    BY <2>2, <2>3
<1> QED
  BY <1>1, <1>2, <1>3, <1>6, <1>7 DEF Spared, Waiting

\* The bit SPARE_COMPLETED of the last record.
LEMMA MarkSpared ==
  ASSUME NEW n \in Nat, NEW W \in SUBSET Counts, NEW T, NEW q \in Queues(n, W, T), InOrder(q, n),
         Waiting(q, n), NEW r, r = Marked(q, Last(q, n), "spareComplete")
  PROVE  /\ Last(r, n) = Last(q, n) /\ LastHeader(r, n) = LastHeader(q, n) /\ Spared(r, n)
         /\ r[Last(r, n)].target = q[Last(q, n)].target /\ r[Last(r, n)].kind = "record"
<1> DEFINE h == LastHeader(q, n)
           l == Last(q, n)
<1>1. Open(q, n) /\ q[l].kind = "record" /\ ~DestDone(q, l)
  BY DEF Waiting
<1>2. OpenRanges(q, n)
  BY <1>1, OpenIs
<1>20. h \in 1..n /\ l \in 1..n /\ h \in Nat
  BY <1>2 DEF OpenRanges
<1>3. MarkOnly(q, r, n, l, "spareComplete") /\ Open(r, n) /\ LastHeader(r, n) = h
  BY <1>1, <1>20, MarkOpen DEF Bits
<1>4. /\ Allocated(q, h) <=> Allocated(r, h)
      /\ q[h].writes = r[h].writes
      /\ \A d \in 1..n : DestDone(q, d) <=> DestDone(r, d)
      /\ SpareDone(r, l) /\ r[l].kind = "record"
  BY <1>1, <1>20, <1>3 DEF MarkOnly, Open
<1>5. \A d \in (h + 1)..n : DestDone(q, d) <=> DestDone(r, d)
  BY <1>20, <1>4
<1>6. LastRecord(q, n, h) = LastRecord(r, n, h)
  BY <1>20, <1>4, <1>5, LastSame
<1>7. Last(r, n) = l
  BY <1>3, <1>6 DEF Last
<1>8. r[l].target = q[l].target
  <2>1. q[l] \in CellSet(W, T) /\ r[l] = WithBit(q[l], "spareComplete")
    BY <1>20, <1>3, QueueIs DEF MarkOnly
  <2> QED
    BY <1>1, <2>1, BitIs DEF Bits
<1> QED
  BY <1>1, <1>20, <1>3, <1>4, <1>7, <1>8 DEF Spared

\* The bit DEST_COMPLETED of the last record: no other record is begun.
LEMMA MarkMoved ==
  ASSUME NEW n \in Nat, NEW W \in SUBSET Counts, NEW T, NEW q \in Queues(n, W, T), InOrder(q, n),
         Waiting(q, n), NEW r, r = Marked(q, Last(q, n), "destComplete")
  PROVE  ~Spared(r, n) /\ ~Waiting(r, n)
<1> DEFINE h == LastHeader(q, n)
           l == Last(q, n)
<1>1. Open(q, n) /\ q[l].kind = "record" /\ ~DestDone(q, l)
  BY DEF Waiting
<1>2. OpenRanges(q, n)
  BY <1>1, OpenIs
<1>20. h \in 1..n /\ l \in 1..n /\ h \in Nat /\ l \in (h + 1)..n
  BY <1>2 DEF OpenRanges
<1>3. /\ MarkOnly(q, r, n, l, "destComplete") /\ Open(r, n) /\ LastHeader(r, n) = h
      /\ r \in Queues(n, W, T) /\ InOrder(r, n)
  BY <1>1, <1>20, MarkOpen DEF Bits
<1>4. Last(r, n) \in (h + 1)..n /\ \A c \in (h + 1)..n : c < Last(r, n) => DestDone(r, c)
  <2>1. OpenRanges(r, n)
    BY <1>3, OpenIs
  <2> QED
    BY <1>3, <2>1 DEF OpenRanges
<1>5. ASSUME ~DestDone(r, Last(r, n)) PROVE r[Last(r, n)] = EmptyCell
  <2>1. DestDone(r, l) /\ \A d \in 1..n : d # l => (DestDone(q, d) <=> DestDone(r, d))
    BY <1>1, <1>20, <1>3 DEF MarkOnly
  <2>2. Last(r, n) # l
    BY <1>5, <2>1
  <2>3. ~(Last(r, n) < l)
    <3>1. SUFFICES ASSUME Last(r, n) < l PROVE FALSE
      OBVIOUS
    <3>2. DestDone(q, Last(r, n))
      BY <1>2, <1>4, <3>1 DEF OpenRanges
    <3>3. Last(r, n) \in 1..n
      BY <1>20, <1>4
    <3> QED
      BY <1>5, <2>1, <2>2, <3>2, <3>3
  <2>4. h < l /\ l < Last(r, n) /\ Last(r, n) \in 1..n
    BY <1>20, <1>4, <2>2, <2>3
  <2>5. q[Last(r, n)] = EmptyCell
    BY <1>1, <1>20, <2>4 DEF InOrder
  <2> QED
    BY <1>3, <2>4, <2>5 DEF MarkOnly
<1> QED
  BY <1>5 DEF Spared, Waiting, SpareDone, EmptyCell

\* A header that is written has no record yet.
LEMMA HeaderOpen ==
  ASSUME NEW n \in Nat, NEW r, NEW h \in 1..n, LastHeader(r, n) = h, LastRecord(r, n, h) = h + 1,
         r[h].writes \in Nat, r[h].writes # 0, Untouched(r, n, h)
  PROVE  ~Spared(r, n) /\ ~Waiting(r, n)
<1>1. r[h + 1] = EmptyCell
  BY DEF Untouched
<1> QED
  BY <1>1 DEF Spared, Waiting, Last, SpareDone, EmptyCell

\* A record that is written has no bit set.
LEMMA RecordOpen ==
  ASSUME NEW n \in Nat, NEW W \in SUBSET Counts, NEW T, NEW q \in Queues(n, W, T), InOrder(q, n),
         NEW h, h = LastHeader(q, n), NEW r, r = LastRecord(q, n, h),
         h \in 1..(n - 1), Allocated(q, h), ~DestDone(q, r), NEW t \in T
  PROVE  LET s == [q EXCEPT ![r] = WriteRecord(t)]
         IN  /\ Open(s, n) /\ LastHeader(s, n) = h
             /\ LastRecord(s, n, h) = r /\ s[r] = WriteRecord(t)
<1> DEFINE s == [q EXCEPT ![r] = WriteRecord(t)]
<1>1. h \in 1..(n - 1) /\ h \in 1..n
  OBVIOUS
<1>2. r \in (h + 1)..n
  BY <1>1, RecordPlace
<1>3. \A c \in (h + 1)..n : ~Allocated(q, c)
  BY <1>1, HeaderPlace
<1>4. WriteRecord(t) \in CellSet(W, T) /\ WriteRecord(t).kind = "record"
  BY DEF WriteRecord, CellSet
<1>5. s \in Queues(n, W, T)
  BY <1>4 DEF Queues
<1>6. \A c \in 1..n : s[c] = IF c = r THEN WriteRecord(t) ELSE q[c]
  BY DEF Queues
<1>7. Sized(q, n) /\ Sized(s, n)
  BY <1>5, QueueIs
<1>14. ~DestDone(q, r)
  OBVIOUS
<1> HIDE DEF s
<1>8. r \in 1..n /\ ~Allocated(q, r) /\ ~Allocated(s, r) /\ r > h /\ s[r] = WriteRecord(t)
  BY <1>1, <1>2, <1>3, <1>4, <1>6 DEF Allocated
<1>9. \A c \in 1..n : c # r => s[c] = q[c]
  BY <1>6
<1>10. \A c \in 1..n : (Allocated(s, c) <=> Allocated(q, c)) /\ (Allocated(q, c) => s[c] = q[c])
  BY <1>8, <1>9 DEF Allocated
<1>11. LastHeader(s, n) = h
  <2>1. \A c \in 1..n : /\ Complete(q, c) <=> Complete(s, c)
                        /\ Complete(q, c) => q[c].writes = s[c].writes
    BY <1>10 DEF Complete
  <2> QED
    BY <1>5, <1>7, <2>1, HeadersSame
<1>12. Allocated(s, h) /\ s[h] = q[h]
  BY <1>1, <1>10
<1>13. \A c \in (h + 1)..n : DestDone(q, c) <=> DestDone(s, c)
  <2>1. ~DestDone(s, r)
    BY <1>8 DEF DestDone, WriteRecord
  <2>2. \A c \in 1..n : c # r => (DestDone(q, c) <=> DestDone(s, c))
    BY <1>9 DEF DestDone
  <2>3. \A c \in (h + 1)..n : c \in 1..n
    BY <1>1
  <2> QED
    BY <1>14, <2>1, <2>2, <2>3
<1>15. LastRecord(s, n, h) = LastRecord(q, n, h)
  <2>1. Allocated(q, h) /\ q[h].writes = s[h].writes
    BY <1>12
  <2> QED
    BY <1>1, <1>12, <1>13, <2>1, LastSame
<1> QED
  BY <1>1, <1>8, <1>11, <1>12, <1>15 DEF s, Open

\* What the driver takes for the last header and record of a queue that is not
\* open is no record.
LEMMA ClosedRecord ==
  ASSUME NEW n \in Nat, NEW W \in SUBSET Counts, NEW T, NEW q \in Queues(n, W, T), InOrder(q, n),
         LastHeader(q, n) \in 1..(n - 1), ~Open(q, n)
  PROVE  ~SpareDone(q, Last(q, n))
<1> DEFINE h == LastHeader(q, n)
<1>1. h \in 1..n /\ ~Allocated(q, h) /\ h \in Nat /\ n \in Nat
  BY DEF Open
<1>2. Last(q, n) = h + 1
  BY <1>1, RecordPlace DEF Last
<1>3. \A c \in h..n : q[c] = EmptyCell
  BY <1>1, HeaderPlace
<1> QED
  BY <1>1, <1>2, <1>3 DEF SpareDone, EmptyCell

-----------------------------------------------------------------------------
(***************************************************************************)
(* The steps of a write and of a reclaim come in a fixed order; quiet      *)
(* steps leave the areas that callers write and the state of the working   *)
(* block alone.                                                            *)
(***************************************************************************)
QuietNames ==
  {"ReclaimWhenFull", "FindLastWrite", "AllocateHeader", "WriteHeader", "WritesAllocated",
   "NeedHeader", "CheckRecord", "CheckRestart", "AbortWrites", "LastWrite", "NotFound", "Success",
   "ChooseWorkSpace", "AbortFirstRecord", "AbortLastRecord", "CheckRemainder",
   "RestartLastWrite", "HookServices", "complete"}

Quiet(s)    == s.do \in QuietNames \/ (s.do \in {"Erase", "Restore"} /\ s.area = "spare")
AllQuiet(t) == \A i \in 1..Len(t) : Quiet(t[i])

\* No step of t has one of these names.
Lacks(t, names) == \A i \in 1..Len(t) : t[i].do \notin names

\* Steps of the boot, and those that use the record found last.
BootNames == {"CheckRemainder", "HookServices"}
LookNames == {"CheckRestart", "AbortWrites"}

Seeks(t) == \A i \in 1..Len(t) : i > 1 /\ t[i].do \in LookNames => t[i - 1].do = "FindLastWrite"

\* What is put in front of other steps.
Adds(s) ==
  Lacks(s, BootNames \cup {"LastWrite"}) /\ Seeks(s) /\ s # <<>> /\ s[1].do \notin LookNames

\* s are the steps from a to b of e.
From(S, s, e, a, b) ==
  s \in Seq(S) /\ Len(s) = b - a + 1 /\ \A j \in a..b : s[j - a + 1] = e[j]

\* t goes on with the steps of e from k to the last, m, and then with quiet ones.
On(t, e, m, k) ==
  /\ k \in 1..m /\ Len(t) >= m - k + 1
  /\ \A j \in k..m : t[j - k + 1] = e[j]
  /\ \A i \in 1..Len(t) : i > m - k + 1 => Quiet(t[i])

LEMMA TailIs ==
  ASSUME NEW S, NEW t \in Seq(S), t # <<>>
  PROVE  /\ Tail(t) \in Seq(S) /\ Len(Tail(t)) = Len(t) - 1 /\ Len(t) \in Nat /\ Len(t) >= 1
         /\ \A i \in 1..Len(Tail(t)) : Tail(t)[i] = t[i + 1] /\ i + 1 \in 1..Len(t)
         /\ Head(t) = t[1] /\ 1 \in 1..Len(t)
OBVIOUS

LEMMA QuietTail ==
  ASSUME NEW S, NEW t \in Seq(S), t # <<>>
  PROVE  /\ AllQuiet(t) => AllQuiet(Tail(t)) /\ Quiet(Head(t))
         /\ \A N : Lacks(t, N) => Lacks(Tail(t), N) /\ Head(t).do \notin N
         /\ Seeks(t) => Seeks(Tail(t))
<1>1. AllQuiet(t) => AllQuiet(Tail(t)) /\ Quiet(Head(t))
  BY TailIs DEF AllQuiet
<1>2. ASSUME NEW N, Lacks(t, N) PROVE Lacks(Tail(t), N) /\ Head(t).do \notin N
  BY <1>2, TailIs DEF Lacks
<1>3. ASSUME Seeks(t) PROVE Seeks(Tail(t))
  <2> SUFFICES ASSUME NEW i \in 1..Len(Tail(t)), i > 1, Tail(t)[i].do \in LookNames
               PROVE  Tail(t)[i - 1].do = "FindLastWrite"
    BY DEF Seeks
  <2>1. /\ Tail(t)[i] = t[i + 1] /\ i + 1 \in 1..Len(t)
        /\ i - 1 \in 1..Len(Tail(t)) /\ Tail(t)[i - 1] = t[(i - 1) + 1] /\ (i - 1) + 1 = i
    BY TailIs
  <2>2. (i + 1) > 1 /\ (i + 1) - 1 = i
    OBVIOUS
  <2>3. t[(i + 1) - 1].do = "FindLastWrite"
    BY <1>3, <2>1, <2>2 DEF Seeks
  <2> QED
    BY <2>1, <2>2, <2>3
<1> QED
  BY <1>1, <1>2, <1>3

LEMMA QuietCat ==
  ASSUME NEW S, NEW a \in Seq(S), NEW b \in Seq(S)
  PROVE  /\ AllQuiet(a) /\ AllQuiet(b) => AllQuiet(a \o b)
         /\ \A N : Lacks(a, N) /\ Lacks(b, N) => Lacks(a \o b, N)
         /\ \A N : Lacks(a \o b, N) => Lacks(a, N) /\ Lacks(b, N)
<1> DEFINE c == a \o b
<1>1. /\ Len(c) = Len(a) + Len(b) /\ Len(a) \in Nat /\ Len(b) \in Nat
      /\ \A i \in 1..Len(a) : c[i] = a[i] /\ i \in 1..Len(c)
      /\ \A i \in 1..Len(b) : c[Len(a) + i] = b[i] /\ Len(a) + i \in 1..Len(c)
  BY CatIs DEF Cat
<1> HIDE DEF c
<1>2. ASSUME NEW i \in 1..Len(c) PROVE (i \in 1..Len(a) /\ c[i] = a[i]) \/ \E j \in 1..Len(b) : c[i] = b[j]
  <2>1. CASE i <= Len(a)
    BY <1>1, <2>1
  <2>2. CASE i > Len(a)
    <3>1. i - Len(a) \in 1..Len(b) /\ Len(a) + (i - Len(a)) = i
      BY <1>1, <2>2
    <3> QED
      BY <1>1, <3>1
  <2> QED
    BY <1>1, <2>1, <2>2
<1>3. AllQuiet(a) /\ AllQuiet(b) => AllQuiet(c)
  BY <1>2 DEF AllQuiet
<1>4. ASSUME NEW N, Lacks(a, N), Lacks(b, N) PROVE Lacks(c, N)
  BY <1>2, <1>4 DEF Lacks
<1>5. ASSUME NEW N, Lacks(c, N) PROVE Lacks(a, N) /\ Lacks(b, N)
  BY <1>1, <1>5 DEF Lacks
<1> QED
  BY <1>3, <1>4, <1>5 DEF c

LEMMA SeeksCat ==
  ASSUME NEW S, NEW a \in Seq(S), NEW b \in Seq(S), Seeks(a), Seeks(b), a # <<>>,
         b # <<>> => b[1].do \notin LookNames
  PROVE  Seeks(a \o b) /\ a \o b # <<>> /\ (a \o b)[1] = a[1]
<1> DEFINE c == a \o b
<1>1. /\ Len(c) = Len(a) + Len(b) /\ Len(a) \in Nat /\ Len(b) \in Nat /\ c \in Seq(S)
      /\ \A i \in 1..Len(a) : c[i] = a[i] /\ i \in 1..Len(c)
      /\ \A i \in 1..Len(b) : c[Len(a) + i] = b[i] /\ Len(a) + i \in 1..Len(c)
  BY CatIs DEF Cat
<1>2. Len(a) >= 1
  BY <1>1
<1>20. b = <<>> \/ Len(b) >= 1
  BY <1>1
<1> HIDE DEF c
<1>3. ASSUME NEW i \in 1..Len(c), i > 1, c[i].do \in LookNames PROVE c[i - 1].do = "FindLastWrite"
  <2>1. CASE i <= Len(a)
    <3>1. i \in 1..Len(a) /\ i - 1 \in 1..Len(a)
      BY <1>1, <1>3, <2>1
    <3>2. c[i] = a[i] /\ c[i - 1] = a[i - 1]
      BY <1>1, <3>1
    <3> QED
      BY <1>3, <3>1, <3>2 DEF Seeks
  <2>2. CASE i > Len(a)
    <3> DEFINE j == i - Len(a)
    <3>1. j \in 1..Len(b) /\ Len(a) + j = i
      BY <1>1, <2>2
    <3>2. c[i] = b[j]
      BY <1>1, <3>1
    <3>3. b # <<>>
      BY <1>1, <3>1
    <3>4. j # 1
      BY <1>3, <3>2, <3>3
    <3>5. j > 1 /\ j - 1 \in 1..Len(b) /\ Len(a) + (j - 1) = i - 1
      BY <1>1, <3>1, <3>4
    <3>6. b[j - 1].do = "FindLastWrite"
      <4> HIDE DEF j
      <4> QED
        BY <1>3, <3>1, <3>2, <3>5 DEF Seeks
    <3>7. c[i - 1] = b[j - 1]
      <4> HIDE DEF j
      <4> QED
        BY <1>1, <3>5
    <3> QED
      BY <3>6, <3>7
  <2> QED
    BY <1>1, <2>1, <2>2
<1>4. Seeks(c)
  BY <1>3 DEF Seeks
<1>5. c # <<>> /\ c[1] = a[1]
  BY <1>1, <1>2
<1> QED
  BY <1>4, <1>5 DEF c

LEMMA AddsCat ==
  ASSUME NEW S, NEW a \in Seq(S), NEW b \in Seq(S), Adds(a), Adds(b)
  PROVE  Adds(a \o b)
<1>1. Lacks(a \o b, BootNames \cup {"LastWrite"})
  BY QuietCat DEF Adds
<1>2. Seeks(a \o b) /\ a \o b # <<>> /\ (a \o b)[1] = a[1]
  BY SeeksCat DEF Adds
<1> QED
  BY <1>1, <1>2 DEF Adds

LEMMA AddsOne ==
  ASSUME NEW s, s.do \notin BootNames \cup {"LastWrite"} \cup LookNames
  PROVE  Adds(<<s>>)
BY DEF Adds, Lacks, Seeks

LEMMA AddsTwo ==
  ASSUME NEW s, s.do \notin BootNames \cup {"LastWrite"} \cup LookNames,
         NEW t, t.do \notin BootNames \cup {"LastWrite"} \cup LookNames
  PROVE  Adds(<<s, t>>)
BY DEF Adds, Lacks, Seeks

\* What is put in front of the steps behind the first.
LEMMA AddsPut ==
  ASSUME NEW S, NEW t \in Seq(S), t # <<>>, Seeks(t), Head(t).do # "FindLastWrite",
         NEW s \in Seq(S), Seeks(s), s # <<>>, s[1].do \notin LookNames
  PROVE  Seeks(s \o Tail(t)) /\ s \o Tail(t) # <<>> /\ (s \o Tail(t))[1] = s[1]
<1>1. Tail(t) \in Seq(S) /\ Seeks(Tail(t))
  BY TailIs, QuietTail
<1>2. Tail(t) # <<>> => Tail(t)[1].do \notin LookNames
  <2> SUFFICES ASSUME Tail(t) # <<>> PROVE Tail(t)[1].do \notin LookNames
    OBVIOUS
  <2>1. 1 \in 1..Len(Tail(t))
    BY <1>1, TailIs
  <2>2. Tail(t)[1] = t[1 + 1] /\ 1 + 1 \in 1..Len(t) /\ Head(t) = t[1]
    BY <2>1, TailIs
  <2>3. t[2].do \in LookNames => t[1].do = "FindLastWrite"
    BY <2>2 DEF Seeks
  <2> QED
    BY <2>2, <2>3
<1> QED
  BY <1>1, <1>2, SeeksCat

\* The last step stays the last.
LEMMA LastStep ==
  ASSUME NEW S, NEW t \in Seq(S), t # <<>>
  PROVE  /\ Tail(t) = <<>> => t[Len(t)] = Head(t)
         /\ Tail(t) # <<>> => Tail(t)[Len(Tail(t))] = t[Len(t)]
         /\ \A s \in Seq(S) : Tail(t) # <<>> =>
              (s \o Tail(t)) # <<>> /\ (s \o Tail(t))[Len(s \o Tail(t))] = t[Len(t)]
<1>1. Tail(t) = <<>> => t[Len(t)] = Head(t)
  <2> SUFFICES ASSUME Tail(t) = <<>> PROVE t[Len(t)] = Head(t)
    OBVIOUS
  <2>0. Tail(t) = <<>>
    OBVIOUS
  <2>1. Len(Tail(t)) = 0
    <3>1. Len(<<>>) = 0
      OBVIOUS
    <3> QED
      BY ONLY <3>1, <2>0
  <2>2. Len(t) = 1 /\ Head(t) = t[1]
    BY <2>1, TailIs
  <2> QED
    BY <2>2
<1>2. Tail(t) # <<>> => Tail(t)[Len(Tail(t))] = t[Len(t)]
  OBVIOUS
<1>3. ASSUME NEW s \in Seq(S), Tail(t) # <<>>
      PROVE  (s \o Tail(t)) # <<>> /\ (s \o Tail(t))[Len(s \o Tail(t))] = t[Len(t)]
  <2> DEFINE b == Tail(t)
             c == s \o b
  <2>1. b \in Seq(S) /\ Len(b) \in Nat /\ Len(b) >= 1 /\ Len(s) \in Nat
    BY <1>3
  <2>2. b[Len(b)] = t[Len(t)]
    BY <1>2, <1>3
  <2> HIDE DEF b
  <2>3. Len(c) = Len(s) + Len(b) /\ \A i \in 1..Len(b) : c[Len(s) + i] = b[i]
    BY <2>1, CatIs DEF Cat
  <2>4. c # <<>>
    BY <2>1, <2>3
  <2> QED
    BY <2>1, <2>2, <2>3, <2>4 DEF b
<1> QED
  BY <1>1, <1>2, <1>3

LEMMA OnHead ==
  ASSUME NEW S, NEW t \in Seq(S), NEW e, NEW m \in Nat, NEW k, On(t, e, m, k)
  PROVE  t # <<>> /\ Head(t) = e[k] /\ t[1] = e[k]
<1>1. Len(t) \in Nat /\ Len(t) >= 1 /\ k \in k..m /\ (k - k) + 1 = 1
  BY DEF On
<1>2. t # <<>>
  BY <1>1
<1>3. t[1] = e[k]
  BY <1>1 DEF On
<1> QED
  BY <1>2, <1>3, TailIs

LEMMA OnTail ==
  ASSUME NEW S, NEW t \in Seq(S), NEW e, NEW m \in Nat, NEW k, On(t, e, m, k)
  PROVE  /\ k < m => On(Tail(t), e, m, k + 1)
         /\ k = m => AllQuiet(Tail(t))
<1>1. /\ k \in 1..m /\ Len(t) >= m - k + 1
      /\ \A j \in k..m : t[j - k + 1] = e[j]
      /\ \A i \in 1..Len(t) : i > m - k + 1 => Quiet(t[i])
  BY DEF On
<1>2. /\ Len(Tail(t)) = Len(t) - 1 /\ Len(t) \in Nat
      /\ \A i \in 1..Len(Tail(t)) : Tail(t)[i] = t[i + 1] /\ i + 1 \in 1..Len(t)
  BY OnHead, TailIs
<1>3. ASSUME k < m PROVE On(Tail(t), e, m, k + 1)
  <2>1. k + 1 \in 1..m /\ Len(Tail(t)) >= m - (k + 1) + 1
    BY <1>1, <1>2, <1>3
  <2>2. ASSUME NEW j \in (k + 1)..m PROVE Tail(t)[j - (k + 1) + 1] = e[j]
    <3>1. j - (k + 1) + 1 \in 1..Len(Tail(t)) /\ (j - (k + 1) + 1) + 1 = j - k + 1 /\ j \in k..m
      BY <1>1, <1>2, <1>3
    <3> QED
      BY <1>1, <1>2, <3>1
  <2>3. ASSUME NEW i \in 1..Len(Tail(t)), i > m - (k + 1) + 1 PROVE Quiet(Tail(t)[i])
    <3>1. i + 1 > m - k + 1
      BY <1>1, <2>3
    <3> QED
      BY <1>1, <1>2, <3>1
  <2> QED
    BY <2>1, <2>2, <2>3 DEF On
<1>4. ASSUME k = m PROVE AllQuiet(Tail(t))
  <2>1. \A i \in 1..Len(Tail(t)) : i + 1 > m - k + 1
    BY <1>1, <1>4
  <2> QED
    BY <1>1, <1>2, <2>1 DEF AllQuiet
<1> QED
  BY <1>3, <1>4

LEMMA OnQuiet ==
  ASSUME NEW S, NEW s \in Seq(S), NEW e, NEW m \in Nat, NEW k, On(s, e, m, k),
         NEW t \in Seq(S), AllQuiet(t)
  PROVE  On(s \o t, e, m, k)
<1> DEFINE c == s \o t
<1>1. /\ k \in 1..m /\ Len(s) >= m - k + 1 /\ Len(s) \in Nat /\ Len(t) \in Nat
      /\ \A j \in k..m : s[j - k + 1] = e[j]
      /\ \A i \in 1..Len(s) : i > m - k + 1 => Quiet(s[i])
  BY DEF On
<1>2. /\ Len(c) = Len(s) + Len(t)
      /\ \A i \in 1..Len(s) : c[i] = s[i]
      /\ \A i \in 1..Len(t) : c[Len(s) + i] = t[i]
  BY CatIs DEF Cat
<1> HIDE DEF c
<1>3. ASSUME NEW j \in k..m PROVE c[j - k + 1] = e[j]
  <2>1. j - k + 1 \in 1..Len(s)
    BY <1>1
  <2> QED
    BY <1>1, <1>2, <2>1
<1>4. ASSUME NEW i \in 1..Len(c), i > m - k + 1 PROVE Quiet(c[i])
  <2>1. CASE i <= Len(s)
    BY <1>1, <1>2, <1>4, <2>1
  <2>2. CASE i > Len(s)
    <3>1. i - Len(s) \in 1..Len(t) /\ Len(s) + (i - Len(s)) = i
      BY <1>1, <1>2, <2>2
    <3>2. c[i] = t[i - Len(s)]
      BY <1>2, <3>1
    <3> QED
      BY <3>1, <3>2 DEF AllQuiet
  <2> QED
    BY <1>1, <2>1, <2>2
<1>5. Len(c) >= m - k + 1
  BY <1>1, <1>2
<1>6. On(c, e, m, k)
  BY <1>1, <1>3, <1>4, <1>5 DEF On
<1> QED
  BY <1>6 DEF c

LEMMA FromCat ==
  ASSUME NEW S, NEW e, NEW k \in Nat, NEW j \in Nat, NEW l \in Nat, NEW m \in Nat,
         NEW s, From(S, s, e, k, j), NEW t, From(S, t, e, l, m), l = j + 1, k <= l, l <= m
  PROVE  From(S, s \o t, e, k, m)
<1> DEFINE c == s \o t
<1>1. /\ s \in Seq(S) /\ Len(s) = j - k + 1 /\ \A i \in k..j : s[i - k + 1] = e[i]
      /\ t \in Seq(S) /\ Len(t) = m - l + 1 /\ \A i \in l..m : t[i - l + 1] = e[i]
  BY DEF From
<1>10. s \in Seq(S) /\ t \in Seq(S)
  BY DEF From
<1>11. Cat(S, s, t, c)
  BY <1>10, CatIs
<1>2. /\ Len(c) = Len(s) + Len(t) /\ c \in Seq(S)
      /\ \A i \in 1..Len(s) : c[i] = s[i]
      /\ \A i \in 1..Len(t) : c[Len(s) + i] = t[i]
  BY <1>11 DEF Cat
<1> HIDE DEF c
<1>3. ASSUME NEW i \in k..m PROVE c[i - k + 1] = e[i]
  <2>1. CASE i <= j
    <3>1. i - k + 1 \in 1..Len(s) /\ i \in k..j
      BY <1>1, <2>1
    <3> QED
      BY <1>1, <1>2, <3>1
  <2>2. CASE i > j
    <3>1. i - l + 1 \in 1..Len(t) /\ Len(s) + (i - l + 1) = i - k + 1 /\ i \in l..m
      BY <1>1, <2>2
    <3> QED
      BY <1>1, <1>2, <3>1
  <2> QED
    BY <2>1, <2>2
<1>4. Len(c) = m - k + 1
  BY <1>1, <1>2
<1>5. From(S, c, e, k, m)
  BY <1>2, <1>3, <1>4 DEF From
<1> QED
  BY <1>5 DEF c

LEMMA FromOne ==
  ASSUME NEW S, NEW e, NEW k \in Nat, e[k] \in S, NEW x, x = e[k]
  PROVE  From(S, <<x>>, e, k, k)
BY DEF From

LEMMA FromTwo ==
  ASSUME NEW S, NEW e, NEW k \in Nat, NEW l \in Nat, l = k + 1, NEW x, NEW y,
         e[k] \in S, e[l] \in S, x = e[k], y = e[l]
  PROVE  From(S, <<x, y>>, e, k, l)
<1>1. <<x, y>> \in Seq(S) /\ Len(<<x, y>>) = l - k + 1
  OBVIOUS
<1>2. ASSUME NEW j \in k..l PROVE <<x, y>>[j - k + 1] = e[j]
  <2>1. (j = k /\ j - k + 1 = 1) \/ (j = l /\ j - k + 1 = 2)
    OBVIOUS
  <2> QED
    BY <2>1
<1> QED
  BY <1>1, <1>2 DEF From

LEMMA FromOn ==
  ASSUME NEW S, NEW e, NEW k \in Nat, NEW m \in Nat, NEW s, From(S, s, e, k, m), 1 <= k, k <= m
  PROVE  On(s, e, m, k)
BY DEF From, On

LEMMA OnBehind ==
  ASSUME NEW S, NEW e, NEW k \in Nat, NEW j \in Nat, NEW l \in Nat, NEW m \in Nat, 1 <= k, k <= l,
         NEW s, From(S, s, e, k, j), l = j + 1, NEW t \in Seq(S), On(t, e, m, l)
  PROVE  On(s \o t, e, m, k)
<1> DEFINE c == s \o t
<1>1. /\ s \in Seq(S) /\ Len(s) = j - k + 1 /\ \A i \in k..j : s[i - k + 1] = e[i]
      /\ l \in 1..m /\ Len(t) >= m - l + 1 /\ \A i \in l..m : t[i - l + 1] = e[i]
      /\ \A i \in 1..Len(t) : i > m - l + 1 => Quiet(t[i])
      /\ Len(t) \in Nat
  BY DEF From, On
<1>10. s \in Seq(S)
  BY DEF From
<1>11. Cat(S, s, t, c)
  BY <1>10, CatIs
<1>2. /\ Len(c) = Len(s) + Len(t)
      /\ \A i \in 1..Len(s) : c[i] = s[i]
      /\ \A i \in 1..Len(t) : c[Len(s) + i] = t[i]
  BY <1>11 DEF Cat
<1> HIDE DEF c
<1>3. ASSUME NEW i \in k..m PROVE c[i - k + 1] = e[i]
  <2>1. CASE i <= j
    <3>1. i - k + 1 \in 1..Len(s) /\ i \in k..j
      BY <1>1, <2>1
    <3> QED
      BY <1>1, <1>2, <3>1
  <2>2. CASE i > j
    <3>1. i - l + 1 \in 1..Len(t) /\ Len(s) + (i - l + 1) = i - k + 1 /\ i \in l..m
      BY <1>1, <2>2
    <3> QED
      BY <1>1, <1>2, <3>1
  <2> QED
    BY <2>1, <2>2
<1>4. ASSUME NEW i \in 1..Len(c), i > m - k + 1 PROVE Quiet(c[i])
  <2>1. i - Len(s) \in 1..Len(t) /\ Len(s) + (i - Len(s)) = i /\ i - Len(s) > m - l + 1
    BY <1>1, <1>2, <1>4
  <2> QED
    BY <1>1, <1>2, <2>1
<1>5. Len(c) >= m - k + 1 /\ k \in 1..m
  BY <1>1, <1>2
<1>6. On(c, e, m, k)
  BY <1>3, <1>4, <1>5 DEF On
<1> QED
  BY <1>6 DEF c

-----------------------------------------------------------------------------
(***************************************************************************)
(* The steps of the procedures.                                            *)
(***************************************************************************)
\* A reclaim until the working block is valid; from step 8 on, the copy of the
\* spare block to the working block.
MoveSteps(clean) ==
  <<Step(clean), Erasing("spare", 1), Erasing("spare", 2), Writing("spare", 1),
    Writing("spare", 2), Mark("WorkingBlockValid", "spare"), Mark("WorkingBlockInvalid", "work"),
    Mark("WorkingBlockValid", "spare"), Step("LoadSpareAsWork"), Mark("WorkingBlockInvalid", "work"),
    Erasing("work", 1), Erasing("work", 2), Writing("work", 1), Writing("work", 2),
    Mark("WorkingBlockValid", "work")>>

\* A write until its record is complete; from step 8 on, the copy of the spare
\* block to target t.
WriteSteps(t) ==
  <<Step("WriteRecord"), Step("LoadTarget"), Erasing("spare", 1), Erasing("spare", 2),
    Writing("spare", 1), Writing("spare", 2), Mark("spareComplete", "work"), Step("LoadSpare"),
    Erasing(t, 1), Erasing(t, 2), Writing(t, 1), Writing(t, 2), Mark("destComplete", "work")>>

BootSteps ==
  <<Step("ReclaimWhenFull"), Step("FindLastWrite"), Step("ChooseWorkSpace"),
    Step("AbortFirstRecord"), Step("AbortLastRecord"), Step("CheckRemainder"),
    Step("RestartLastWrite"), Step("HookServices")>>

RestartSteps == <<Step("ReclaimWhenFull"), Step("FindLastWrite"), Step("CheckRestart")>>
AbortSteps   == <<Step("ReclaimWhenFull"), Step("FindLastWrite"), Step("AbortWrites")>>

Cleans == {"CleanUp", "CleanAll"}

LEMMA MoveStepsAre ==
  ASSUME NEW clean
  PROVE  /\ MoveSteps(clean)[1] = Step(clean) /\ MoveSteps(clean)[2] = Erasing("spare", 1)
         /\ MoveSteps(clean)[3] = Erasing("spare", 2) /\ MoveSteps(clean)[4] = Writing("spare", 1)
         /\ MoveSteps(clean)[5] = Writing("spare", 2)
         /\ MoveSteps(clean)[6] = Mark("WorkingBlockValid", "spare")
         /\ MoveSteps(clean)[7] = Mark("WorkingBlockInvalid", "work")
         /\ MoveSteps(clean)[8] = Mark("WorkingBlockValid", "spare")
         /\ MoveSteps(clean)[9] = Step("LoadSpareAsWork")
         /\ MoveSteps(clean)[10] = Mark("WorkingBlockInvalid", "work")
         /\ MoveSteps(clean)[11] = Erasing("work", 1) /\ MoveSteps(clean)[12] = Erasing("work", 2)
         /\ MoveSteps(clean)[13] = Writing("work", 1) /\ MoveSteps(clean)[14] = Writing("work", 2)
         /\ MoveSteps(clean)[15] = Mark("WorkingBlockValid", "work")
BY DEF MoveSteps

LEMMA WriteStepsAre ==
  ASSUME NEW t
  PROVE  /\ WriteSteps(t)[1] = Step("WriteRecord") /\ WriteSteps(t)[2] = Step("LoadTarget")
         /\ WriteSteps(t)[3] = Erasing("spare", 1) /\ WriteSteps(t)[4] = Erasing("spare", 2)
         /\ WriteSteps(t)[5] = Writing("spare", 1) /\ WriteSteps(t)[6] = Writing("spare", 2)
         /\ WriteSteps(t)[7] = Mark("spareComplete", "work") /\ WriteSteps(t)[8] = Step("LoadSpare")
         /\ WriteSteps(t)[9] = Erasing(t, 1) /\ WriteSteps(t)[10] = Erasing(t, 2)
         /\ WriteSteps(t)[11] = Writing(t, 1) /\ WriteSteps(t)[12] = Writing(t, 2)
         /\ WriteSteps(t)[13] = Mark("destComplete", "work")
BY DEF WriteSteps

LEMMA BootStepsAre ==
  /\ BootSteps[1] = Step("ReclaimWhenFull") /\ BootSteps[2] = Step("FindLastWrite")
  /\ BootSteps[3] = Step("ChooseWorkSpace") /\ BootSteps[4] = Step("AbortFirstRecord")
  /\ BootSteps[5] = Step("AbortLastRecord") /\ BootSteps[6] = Step("CheckRemainder")
  /\ BootSteps[7] = Step("RestartLastWrite") /\ BootSteps[8] = Step("HookServices")
BY DEF BootSteps

LEMMA LookStepsAre ==
  /\ RestartSteps[1] = Step("ReclaimWhenFull") /\ RestartSteps[2] = Step("FindLastWrite")
  /\ RestartSteps[3] = Step("CheckRestart")
  /\ AbortSteps[1] = Step("ReclaimWhenFull") /\ AbortSteps[2] = Step("FindLastWrite")
  /\ AbortSteps[3] = Step("AbortWrites")
BY DEF RestartSteps, AbortSteps

LEMMA DoIs ==
  /\ \A name : Step(name).do = name
  /\ \A bit, area : Mark(bit, area).do = bit /\ Mark(bit, area).area = area
  /\ \A area, b : /\ Erasing(area, b).do = "Erase" /\ Erasing(area, b).area = area /\ Erasing(area, b).block = b
                  /\ Writing(area, b).do = "Write" /\ Writing(area, b).area = area /\ Writing(area, b).block = b
  /\ \A b : Restoring(b).do = "Restore" /\ Restoring(b).area = "spare" /\ Restoring(b).block = b
BY DEF Step, Mark, Erasing, Writing, Restoring

LEMMA BlocksAre ==
  \A area : /\ Blocks("Erase", area) = <<Erasing(area, 1), Erasing(area, 2)>>
            /\ Blocks("Write", area) = <<Writing(area, 1), Writing(area, 2)>>
            /\ Blocks("Restore", "spare") = <<Restoring(1), Restoring(2)>>
BY DEF Blocks, Erasing, Writing, Restoring

LEMMA QuietOne ==
  ASSUME NEW s, Quiet(s)
  PROVE  AllQuiet(<<s>>)
BY DEF AllQuiet

LEMMA LacksOne ==
  ASSUME NEW s, NEW N, s.do \notin N
  PROVE  Lacks(<<s>>, N)
BY DEF Lacks

LEMMA RefreshAre ==
  ASSUME NEW op
  PROVE  /\ WorkSpaceRefresh = <<Step("ReclaimWhenFull"), Step("FindLastWrite")>>
         /\ Step("ReclaimWhenFull") \in Steps(op) /\ Step("FindLastWrite") \in Steps(op)
         /\ WorkSpaceRefresh \in Seq(Steps(op))
         /\ AllQuiet(WorkSpaceRefresh) /\ Adds(WorkSpaceRefresh) /\ Lacks(WorkSpaceRefresh, {"Success"})
<1> DEFINE a == Step("ReclaimWhenFull")
           b == Step("FindLastWrite")
<1>1. a \in Steps(op) /\ b \in Steps(op)
  BY PlainStep DEF Plain
<1>2. WorkSpaceRefresh = <<a, b>>
  BY DEF WorkSpaceRefresh
<1>3. a.do = "ReclaimWhenFull" /\ b.do = "FindLastWrite"
  BY DoIs
<1> HIDE DEF a, b
<1>4. /\ <<a, b>> \in Seq(Steps(op)) /\ Len(<<a, b>>) = 2 /\ <<a, b>>[1] = a /\ <<a, b>>[2] = b
  BY <1>1
<1>5. AllQuiet(<<a, b>>) /\ Lacks(<<a, b>>, {"Success"})
  BY <1>3, <1>4 DEF AllQuiet, Lacks, Quiet, QuietNames
<1>6. Adds(<<a, b>>)
  BY <1>3, AddsTwo DEF BootNames, LookNames
<1> QED
  BY <1>1, <1>2, <1>4, <1>5, <1>6 DEF a, b

\* A look-up of the last write and what it is for.
LEMMA LookUpIs ==
  ASSUME NEW op, NEW name \in {"AbortWrites", "CheckRestart", "AllocateHeader"},
         Step(name) \in Steps(op), NEW s, s = WorkSpaceRefresh \o <<Step(name)>>
  PROVE  /\ s \in Seq(Steps(op)) /\ Len(s) = 3 /\ s[1] = Step("ReclaimWhenFull")
         /\ s[2] = Step("FindLastWrite") /\ s[3] = Step(name)
         /\ AllQuiet(s) /\ Adds(s) /\ Lacks(s, {"Success"}) /\ s # <<>>
<1> DEFINE a == Step("ReclaimWhenFull")
           b == Step("FindLastWrite")
           c == Step(name)
           x == <<a, b>>
           y == <<c>>
<1>1. a.do = "ReclaimWhenFull" /\ b.do = "FindLastWrite" /\ c.do = name
  BY DoIs
<1>2. s = x \o y /\ a \in Steps(op) /\ b \in Steps(op) /\ c \in Steps(op)
  BY RefreshAre
<1> HIDE DEF a, b, c
<1>3. /\ x \in Seq(Steps(op)) /\ Len(x) = 2 /\ x[1] = a /\ x[2] = b
      /\ y \in Seq(Steps(op)) /\ Len(y) = 1 /\ y[1] = c
  BY <1>2
<1> HIDE DEF x, y
<1>4. Cat(Steps(op), x, y, s)
  BY <1>2, <1>3, CatIs
<1>5. /\ s \in Seq(Steps(op)) /\ Len(s) = 2 + 1
      /\ \A i \in 1..2 : s[i] = x[i]
      /\ \A i \in 1..1 : s[2 + i] = y[i]
  BY <1>3, <1>4 DEF Cat
<1>6. s[1] = a /\ s[2] = b /\ s[2 + 1] = c
  BY <1>3, <1>5
<1>7. Len(s) = 3 /\ s[3] = c /\ s # <<>>
  BY <1>5, <1>6
<1>8. \A i \in 1..Len(s) : i = 1 \/ i = 2 \/ i = 3
  BY <1>7
<1>9. AllQuiet(s)
  BY <1>1, <1>6, <1>7, <1>8 DEF AllQuiet, Quiet, QuietNames
<1>10. Lacks(s, BootNames \cup {"LastWrite"}) /\ Lacks(s, {"Success"})
  BY <1>1, <1>6, <1>7, <1>8 DEF Lacks, BootNames
<1>11. Seeks(s)
  <2> SUFFICES ASSUME NEW i \in 1..Len(s), i > 1, s[i].do \in LookNames
               PROVE  s[i - 1].do = "FindLastWrite"
    BY DEF Seeks
  <2>1. i = 3
    BY <1>1, <1>6, <1>8 DEF LookNames
  <2> QED
    BY <1>1, <1>6, <2>1
<1>12. Adds(s)
  BY <1>1, <1>6, <1>7, <1>10, <1>11 DEF Adds, LookNames
<1> QED
  BY <1>5, <1>6, <1>7, <1>9, <1>10, <1>12 DEF a, b, c

LEMMA LookUpsAre ==
  ASSUME NEW op
  PROVE  /\ FtwAbort \in Seq(Steps(op)) /\ AllQuiet(FtwAbort) /\ Adds(FtwAbort)
         /\ Lacks(FtwAbort, {"Success"}) /\ On(FtwAbort, AbortSteps, 3, 1)
         /\ FtwRestart \in Seq(Steps(op)) /\ AllQuiet(FtwRestart) /\ Adds(FtwRestart)
         /\ Lacks(FtwRestart, {"Success"}) /\ On(FtwRestart, RestartSteps, 3, 1)
         /\ op \in {"allocate", "write"} =>
              /\ FtwAllocate \in Seq(Steps(op)) /\ AllQuiet(FtwAllocate) /\ Adds(FtwAllocate)
              /\ Lacks(FtwAllocate, {"Success"})
<1>1. Step("AbortWrites") \in Steps(op) /\ Step("CheckRestart") \in Steps(op)
  BY PlainStep DEF Plain
<1>2. /\ FtwAbort \in Seq(Steps(op)) /\ AllQuiet(FtwAbort) /\ Adds(FtwAbort)
      /\ Lacks(FtwAbort, {"Success"}) /\ Len(FtwAbort) = 3 /\ FtwAbort[1] = Step("ReclaimWhenFull")
      /\ FtwAbort[2] = Step("FindLastWrite") /\ FtwAbort[3] = Step("AbortWrites")
  BY <1>1, LookUpIs DEF FtwAbort
<1>3. /\ FtwRestart \in Seq(Steps(op)) /\ AllQuiet(FtwRestart) /\ Adds(FtwRestart)
      /\ Lacks(FtwRestart, {"Success"}) /\ Len(FtwRestart) = 3 /\ FtwRestart[1] = Step("ReclaimWhenFull")
      /\ FtwRestart[2] = Step("FindLastWrite") /\ FtwRestart[3] = Step("CheckRestart")
  BY <1>1, LookUpIs DEF FtwRestart
<1>4. ASSUME op \in {"allocate", "write"}
      PROVE  /\ FtwAllocate \in Seq(Steps(op)) /\ AllQuiet(FtwAllocate) /\ Adds(FtwAllocate)
             /\ Lacks(FtwAllocate, {"Success"})
  <2>1. Step("AllocateHeader") \in Steps(op)
    BY <1>4, ServiceStep
  <2> QED
    BY <2>1, LookUpIs DEF FtwAllocate
<1>5. ASSUME NEW s, NEW e, Len(s) = 3, s[1] = e[1], s[2] = e[2], s[3] = e[3] PROVE On(s, e, 3, 1)
  <2>1. \A j \in 1..3 : s[j - 1 + 1] = e[j]
    <3>1. \A j \in 1..3 : (j = 1 /\ j - 1 + 1 = 1) \/ (j = 2 /\ j - 1 + 1 = 2) \/ (j = 3 /\ j - 1 + 1 = 3)
      OBVIOUS
    <3> QED
      BY <1>5, <3>1
  <2> QED
    BY <1>5, <2>1 DEF On
<1>6. On(FtwAbort, AbortSteps, 3, 1) /\ On(FtwRestart, RestartSteps, 3, 1)
  BY <1>2, <1>3, <1>5, LookStepsAre
<1> QED
  BY <1>2, <1>3, <1>4, <1>6

\* FtwGetLastWrite gives up a write that cannot be restarted.
LEMMA GiveUpIs ==
  ASSUME NEW op
  PROVE  /\ FtwAbort \o <<Step("NotFound")>> \in Seq(Steps(op))
         /\ AllQuiet(FtwAbort \o <<Step("NotFound")>>) /\ Adds(FtwAbort \o <<Step("NotFound")>>)
         /\ Lacks(FtwAbort \o <<Step("NotFound")>>, {"Success"})
<1> DEFINE x == <<Step("NotFound")>>
<1>1. Step("NotFound") \in Steps(op) /\ Step("NotFound").do = "NotFound"
  BY PlainStep DEF Plain
<1>2. x \in Seq(Steps(op)) /\ AllQuiet(x) /\ Lacks(x, {"Success"}) /\ Adds(x)
  <2>1. Quiet(Step("NotFound"))
    BY <1>1 DEF Quiet, QuietNames
  <2>2. x \in Seq(Steps(op))
    BY <1>1
  <2> QED
    BY <1>1, <2>1, <2>2, QuietOne, LacksOne, AddsOne DEF BootNames, LookNames
<1> HIDE DEF x
<1>3. FtwAbort \in Seq(Steps(op)) /\ AllQuiet(FtwAbort) /\ Adds(FtwAbort) /\ Lacks(FtwAbort, {"Success"})
  BY LookUpsAre
<1>4. FtwAbort \o x \in Seq(Steps(op))
  BY <1>2, <1>3
<1> QED
  BY <1>2, <1>3, <1>4, QuietCat, AddsCat DEF x

\* Steps that are no part of the boot, of a look-up or of a return.
Inner(s) == Adds(s) /\ Lacks(s, {"Success"})

LEMMA InnerOne ==
  ASSUME NEW s, s.do \notin BootNames \cup {"LastWrite", "Success"} \cup LookNames
  PROVE  Inner(<<s>>)
<1>1. s.do \notin BootNames \cup {"LastWrite"} \cup LookNames /\ s.do \notin {"Success"}
  OBVIOUS
<1> QED
  BY <1>1, AddsOne, LacksOne DEF Inner

LEMMA InnerTwo ==
  ASSUME NEW op, NEW s \in Steps(op), s.do \notin BootNames \cup {"LastWrite", "Success"} \cup LookNames,
         NEW t \in Steps(op), t.do \notin BootNames \cup {"LastWrite", "Success"} \cup LookNames
  PROVE  Inner(<<s, t>>) /\ <<s, t>> \in Seq(Steps(op))
<1>1. Adds(<<s, t>>)
  BY AddsTwo
<1>2. Lacks(<<s, t>>, {"Success"})
  BY DEF Lacks
<1>3. <<s, t>> \in Seq(Steps(op))
  OBVIOUS
<1> QED
  BY <1>1, <1>2, <1>3 DEF Inner

LEMMA InnerCat ==
  ASSUME NEW S, NEW a \in Seq(S), NEW b \in Seq(S), Inner(a), Inner(b)
  PROVE  Inner(a \o b) /\ a \o b \in Seq(S)
<1>1. a \o b \in Seq(S)
  OBVIOUS
<1> QED
  BY <1>1, AddsCat, QuietCat DEF Inner

LEMMA BlocksInner ==
  ASSUME NEW op, NEW area \in Areas
  PROVE  /\ Inner(Blocks("Erase", area)) /\ Blocks("Erase", area) \in Seq(Steps(op))
         /\ Inner(Blocks("Write", area)) /\ Blocks("Write", area) \in Seq(Steps(op))
         /\ Inner(Blocks("Restore", "spare")) /\ Blocks("Restore", "spare") \in Seq(Steps(op))
<1>1. \A b \in 1..2 : /\ Erasing(area, b) \in Steps(op) /\ Erasing(area, b).do = "Erase"
                      /\ Writing(area, b) \in Steps(op) /\ Writing(area, b).do = "Write"
                      /\ Restoring(b) \in Steps(op) /\ Restoring(b).do = "Restore"
  BY WriterStep
<1>2. {"Erase", "Write", "Restore"} \cap (BootNames \cup {"LastWrite", "Success"} \cup LookNames) = {}
  BY DEF BootNames, LookNames
<1>3. /\ Inner(<<Erasing(area, 1), Erasing(area, 2)>>) /\ <<Erasing(area, 1), Erasing(area, 2)>> \in Seq(Steps(op))
      /\ Inner(<<Writing(area, 1), Writing(area, 2)>>) /\ <<Writing(area, 1), Writing(area, 2)>> \in Seq(Steps(op))
      /\ Inner(<<Restoring(1), Restoring(2)>>) /\ <<Restoring(1), Restoring(2)>> \in Seq(Steps(op))
  BY <1>1, <1>2, InnerTwo
<1> QED
  BY <1>3, BlocksAre

\* Blocks of an area, as steps k and k + 1 of e.
LEMMA BlocksFrom ==
  ASSUME NEW op, NEW area \in Areas, NEW e, NEW k \in Nat
  PROVE  /\ e[k] = Erasing(area, 1) /\ e[k + 1] = Erasing(area, 2)
              => From(Steps(op), Blocks("Erase", area), e, k, k + 1)
         /\ e[k] = Writing(area, 1) /\ e[k + 1] = Writing(area, 2)
              => From(Steps(op), Blocks("Write", area), e, k, k + 1)
<1>1. \A b \in 1..2 : Erasing(area, b) \in Steps(op) /\ Writing(area, b) \in Steps(op)
  BY WriterStep
<1>2. ASSUME e[k] = Erasing(area, 1), e[k + 1] = Erasing(area, 2)
      PROVE  From(Steps(op), <<Erasing(area, 1), Erasing(area, 2)>>, e, k, k + 1)
  BY <1>1, <1>2, FromTwo
<1>3. ASSUME e[k] = Writing(area, 1), e[k + 1] = Writing(area, 2)
      PROVE  From(Steps(op), <<Writing(area, 1), Writing(area, 2)>>, e, k, k + 1)
  BY <1>1, <1>3, FromTwo
<1> QED
  BY <1>2, <1>3, BlocksAre

LEMMA RestoreIs ==
  ASSUME NEW op
  PROVE  RestoreSpare \in Seq(Steps(op)) /\ AllQuiet(RestoreSpare) /\ Inner(RestoreSpare)
<1>1. "spare" \in Areas
  BY AreasAre
<1> DEFINE x == Blocks("Erase", "spare")
           y == Blocks("Restore", "spare")
<1>2. x \in Seq(Steps(op)) /\ y \in Seq(Steps(op)) /\ Inner(x) /\ Inner(y)
  BY <1>1, BlocksInner
<1>3. AllQuiet(x) /\ AllQuiet(y)
  <2>1. Quiet(Erasing("spare", 1)) /\ Quiet(Erasing("spare", 2)) /\ Quiet(Restoring(1)) /\ Quiet(Restoring(2))
    BY DoIs DEF Quiet
  <2>2. \A s, t : Quiet(s) /\ Quiet(t) => AllQuiet(<<s, t>>)
    BY DEF AllQuiet
  <2> QED
    BY <2>1, <2>2, BlocksAre
<1> HIDE DEF x, y
<1>4. AllQuiet(x \o y) /\ Inner(x \o y) /\ x \o y \in Seq(Steps(op))
  BY <1>2, <1>3, QuietCat, InnerCat
<1> QED
  BY <1>4 DEF RestoreSpare, x, y

LEMMA ThreeSteps ==
  ASSUME NEW S, NEW a \in S, NEW b \in S, NEW c \in S
  PROVE  <<a, b, c>> = <<a, b>> \o <<c>>
<1> DEFINE x == <<a, b>>
           y == <<c>>
           z == <<a, b, c>>
           w == x \o y
<1>2. x \in Seq(S) /\ Len(x) = 2 /\ x[1] = a /\ x[2] = b /\ y \in Seq(S) /\ Len(y) = 1 /\ y[1] = c
  OBVIOUS
<1>3. z \in Seq(S) /\ Len(z) = 3 /\ z[1] = a /\ z[2] = b /\ z[3] = c
  OBVIOUS
<1> HIDE DEF x, y
<1>1. Cat(S, x, y, w)
  BY <1>2, CatIs
<1> HIDE DEF w
<1>4. w \in Seq(S) /\ Len(w) = 2 + 1 /\ (\A i \in 1..2 : w[i] = x[i]) /\ (\A i \in 1..1 : w[2 + i] = y[i])
  BY <1>1, <1>2 DEF Cat
<1>5. w[1] = a /\ w[2] = b /\ w[2 + 1] = c
  BY <1>2, <1>4
<1>6. \A i \in 1..3 : w[i] = z[i]
  <2>1. \A i \in 1..3 : i = 1 \/ i = 2 \/ i = 3
    OBVIOUS
  <2> QED
    BY <1>3, <1>5, <2>1
<1> HIDE DEF z
<1>7. w = z
  BY <1>3, <1>4, <1>6
<1> QED
  BY <1>7 DEF w, x, y, z

LEMMA FlushIs ==
  ASSUME NEW op, NEW clean
  PROVE  /\ From(Steps(op), FlushSpareBlockToWorkingBlock, MoveSteps(clean), 8, 15)
         /\ FlushSpareBlockToWorkingBlock \in Seq(Steps(op))
         /\ Inner(FlushSpareBlockToWorkingBlock)
<1> DEFINE m1 == Mark("WorkingBlockValid", "spare")
           m2 == Mark("WorkingBlockInvalid", "work")
           m3 == Step("LoadSpareAsWork")
           m4 == Mark("WorkingBlockValid", "work")
           e  == MoveSteps(clean)
           S  == Steps(op)
           a  == <<m1, m3>>
           b  == <<m2>>
           x  == <<m1, m3, m2>>
           ew == Blocks("Erase", "work")
           ww == Blocks("Write", "work")
           z  == <<m4>>
<1>1. "work" \in Areas /\ "spare" \in Areas
  BY AreasAre
<1>2. m1 \in S /\ m2 \in S /\ m3 \in S /\ m4 \in S
  BY <1>1, PlainStep, MarkStep DEF Plain, Marks
<1>3. /\ e[8] = m1 /\ e[9] = m3 /\ e[10] = m2 /\ e[11] = Erasing("work", 1) /\ e[12] = Erasing("work", 2)
      /\ e[13] = Writing("work", 1) /\ e[14] = Writing("work", 2) /\ e[15] = m4
  BY MoveStepsAre
<1>4. m1.do = "WorkingBlockValid" /\ m2.do = "WorkingBlockInvalid" /\ m3.do = "LoadSpareAsWork" /\ m4.do = "WorkingBlockValid"
  BY DoIs
<1>5. FlushSpareBlockToWorkingBlock = ((x \o ew) \o ww) \o z
  BY DEF FlushSpareBlockToWorkingBlock
<1> HIDE DEF m1, m2, m3, m4, e, S
<1>6. x = a \o b
  BY <1>2, ThreeSteps
<1>7. From(S, a, e, 8, 9) /\ From(S, b, e, 10, 10) /\ From(S, z, e, 15, 15)
  BY <1>2, <1>3, FromTwo, FromOne
<1>8. From(S, ew, e, 11, 12) /\ From(S, ww, e, 13, 14)
  BY <1>1, <1>3, BlocksFrom DEF S
<1>9. Inner(a) /\ Inner(b) /\ Inner(z) /\ a \in Seq(S) /\ b \in Seq(S) /\ z \in Seq(S)
  <2>1. {"WorkingBlockValid", "WorkingBlockInvalid", "LoadSpareAsWork"} \cap (BootNames \cup {"LastWrite", "Success"} \cup LookNames) = {}
    BY DEF BootNames, LookNames
  <2>2. Inner(a) /\ a \in Seq(S)
    BY <1>2, <1>4, <2>1, InnerTwo DEF S
  <2>3. Inner(b) /\ Inner(z)
    BY <1>4, <2>1, InnerOne
  <2> QED
    BY <1>2, <2>2, <2>3
<1>10. Inner(ew) /\ Inner(ww) /\ ew \in Seq(S) /\ ww \in Seq(S)
  BY <1>1, BlocksInner DEF S
<1> HIDE DEF a, b, ew, ww, z
<1>11. From(S, a \o b, e, 8, 10) /\ Inner(a \o b) /\ a \o b \in Seq(S)
  BY <1>7, <1>9, FromCat, InnerCat
<1> HIDE DEF x
<1>12. From(S, x, e, 8, 10) /\ Inner(x) /\ x \in Seq(S)
  BY <1>6, <1>11
<1>13. From(S, x \o ew, e, 8, 12) /\ Inner(x \o ew) /\ x \o ew \in Seq(S)
  BY <1>8, <1>10, <1>12, FromCat, InnerCat
<1> DEFINE y1 == x \o ew
           y2 == y1 \o ww
           y3 == y2 \o z
<1> HIDE DEF y1
<1>14. From(S, y1, e, 8, 12) /\ Inner(y1) /\ y1 \in Seq(S)
  BY <1>13 DEF y1
<1>15. From(S, y2, e, 8, 14)
  BY <1>8, <1>14, FromCat
<1>16. Inner(y2) /\ y2 \in Seq(S)
  BY <1>10, <1>14, InnerCat
<1> HIDE DEF y2
<1>17. From(S, y3, e, 8, 15)
  BY <1>7, <1>15, FromCat
<1>18. Inner(y3) /\ y3 \in Seq(S)
  BY <1>9, <1>16, InnerCat
<1>19. FlushSpareBlockToWorkingBlock = y3
  BY <1>5 DEF y1, y2
<1> QED
  BY <1>17, <1>18, <1>19 DEF S, e

\* s are the steps from k to m of e, or starts with those from k on of m.
Part(op, s, e, k, m)  == From(Steps(op), s, e, k, m) /\ Inner(s)
Going(op, s, e, m, k) == On(s, e, m, k) /\ Inner(s) /\ s \in Seq(Steps(op))

LEMMA PartCat ==
  ASSUME NEW op, NEW e, NEW k \in Nat, NEW j \in Nat, NEW l \in Nat, NEW m \in Nat,
         NEW s, Part(op, s, e, k, j), NEW t, Part(op, t, e, l, m), l = j + 1, k <= l, l <= m
  PROVE  Part(op, s \o t, e, k, m)
<1>1. From(Steps(op), s, e, k, j) /\ From(Steps(op), t, e, l, m) /\ Inner(s) /\ Inner(t)
  BY DEF Part
<1>2. s \in Seq(Steps(op)) /\ t \in Seq(Steps(op))
  BY <1>1 DEF From
<1>3. From(Steps(op), s \o t, e, k, m)
  BY <1>1, FromCat
<1>4. Inner(s \o t)
  BY <1>1, <1>2, InnerCat
<1> QED
  BY <1>3, <1>4 DEF Part

LEMMA GoingQuiet ==
  ASSUME NEW op, NEW e, NEW m \in Nat, NEW k, NEW s, Going(op, s, e, m, k),
         NEW t \in Seq(Steps(op)), AllQuiet(t), Inner(t)
  PROVE  Going(op, s \o t, e, m, k)
<1>1. On(s, e, m, k) /\ Inner(s) /\ s \in Seq(Steps(op))
  BY DEF Going
<1>2. On(s \o t, e, m, k)
  BY <1>1, OnQuiet
<1>3. Inner(s \o t) /\ s \o t \in Seq(Steps(op))
  BY <1>1, InnerCat
<1> QED
  BY <1>2, <1>3 DEF Going

LEMMA GoingBehind ==
  ASSUME NEW op, NEW e, NEW k \in Nat, NEW j \in Nat, NEW l \in Nat, NEW m \in Nat, 1 <= k, k <= l,
         NEW s, Part(op, s, e, k, j), l = j + 1, NEW t, Going(op, t, e, m, l)
  PROVE  Going(op, s \o t, e, m, k)
<1>1. From(Steps(op), s, e, k, j) /\ Inner(s) /\ On(t, e, m, l) /\ Inner(t) /\ t \in Seq(Steps(op))
  BY DEF Part, Going
<1>2. s \in Seq(Steps(op))
  BY <1>1 DEF From
<1>3. On(s \o t, e, m, k)
  BY <1>1, OnBehind
<1>4. Inner(s \o t) /\ s \o t \in Seq(Steps(op))
  BY <1>1, <1>2, InnerCat
<1> QED
  BY <1>3, <1>4 DEF Going

LEMMA PartGoing ==
  ASSUME NEW op, NEW e, NEW k \in Nat, NEW m \in Nat, NEW s, Part(op, s, e, k, m), 1 <= k, k <= m
  PROVE  Going(op, s, e, m, k)
<1>1. From(Steps(op), s, e, k, m) /\ Inner(s)
  BY DEF Part
<1>2. s \in Seq(Steps(op)) /\ On(s, e, m, k)
  BY <1>1, FromOn DEF From
<1> QED
  BY <1>1, <1>2 DEF Going

LEMMA PartOne ==
  ASSUME NEW op, NEW e, NEW k \in Nat, NEW x \in Steps(op), x = e[k],
         x.do \notin BootNames \cup {"LastWrite", "Success"} \cup LookNames
  PROVE  Part(op, <<x>>, e, k, k)
<1>1. From(Steps(op), <<x>>, e, k, k)
  BY FromOne
<1>2. Inner(<<x>>)
  BY InnerOne
<1> QED
  BY <1>1, <1>2 DEF Part

LEMMA PartTwo ==
  ASSUME NEW op, NEW e, NEW k \in Nat, NEW l \in Nat, l = k + 1,
         NEW x \in Steps(op), x = e[k], NEW y \in Steps(op), y = e[l],
         x.do \notin BootNames \cup {"LastWrite", "Success"} \cup LookNames,
         y.do \notin BootNames \cup {"LastWrite", "Success"} \cup LookNames
  PROVE  Part(op, <<x, y>>, e, k, l)
<1>1. From(Steps(op), <<x, y>>, e, k, l)
  BY FromTwo
<1>2. Inner(<<x, y>>)
  BY InnerTwo
<1> QED
  BY <1>1, <1>2 DEF Part

LEMMA PartBlocks ==
  ASSUME NEW op, NEW area \in Areas, NEW e, NEW k \in Nat, NEW l \in Nat, l = k + 1
  PROVE  /\ e[k] = Erasing(area, 1) /\ e[l] = Erasing(area, 2) => Part(op, Blocks("Erase", area), e, k, l)
         /\ e[k] = Writing(area, 1) /\ e[l] = Writing(area, 2) => Part(op, Blocks("Write", area), e, k, l)
BY BlocksFrom, BlocksInner DEF Part

\* A reclaim goes through its steps and then restores the spare block.
LEMMA ReclaimOn ==
  ASSUME NEW op, NEW clean \in Cleans
  PROVE  Going(op, FtwReclaimWorkSpace(clean), MoveSteps(clean), 15, 1)
<1> DEFINE e  == MoveSteps(clean)
           c  == Step(clean)
           m1 == Mark("WorkingBlockValid", "spare")
           m2 == Mark("WorkingBlockInvalid", "work")
           p1 == <<c>>
           es == Blocks("Erase", "spare")
           ws == Blocks("Write", "spare")
           p4 == <<m1, m2>>
           p5 == FlushSpareBlockToWorkingBlock
           p6 == RestoreSpare
           y2 == p1 \o es
           y3 == y2 \o ws
           y4 == y3 \o p4
           y5 == y4 \o p5
           y6 == y5 \o p6
<1>1. "work" \in Areas /\ "spare" \in Areas
  BY AreasAre
<1>2. c \in Steps(op) /\ m1 \in Steps(op) /\ m2 \in Steps(op)
  BY <1>1, PlainStep, MarkStep DEF Plain, Marks, Cleans
<1>3. c.do \in Cleans /\ m1.do = "WorkingBlockValid" /\ m2.do = "WorkingBlockInvalid"
  BY DoIs
<1>4. /\ e[1] = c /\ e[2] = Erasing("spare", 1) /\ e[3] = Erasing("spare", 2)
      /\ e[4] = Writing("spare", 1) /\ e[5] = Writing("spare", 2) /\ e[6] = m1 /\ e[7] = m2
  BY MoveStepsAre
<1>5. FtwReclaimWorkSpace(clean) = y6
  BY DEF FtwReclaimWorkSpace
<1>6. {"CleanUp", "CleanAll", "WorkingBlockValid", "WorkingBlockInvalid"} \cap
         (BootNames \cup {"LastWrite", "Success"} \cup LookNames) = {}
  BY DEF BootNames, LookNames
<1>7. Part(op, p5, e, 8, 15)
  BY FlushIs DEF Part
<1>8. p6 \in Seq(Steps(op)) /\ AllQuiet(p6) /\ Inner(p6)
  BY RestoreIs
<1> HIDE DEF c, m1, m2, e, p5, p6
<1>9. Part(op, p1, e, 1, 1)
  BY <1>2, <1>3, <1>4, <1>6, PartOne DEF Cleans
<1>10. Part(op, p4, e, 6, 7)
  BY <1>2, <1>3, <1>4, <1>6, PartTwo
<1>11. Part(op, es, e, 2, 3) /\ Part(op, ws, e, 4, 5)
  BY <1>1, <1>4, PartBlocks
<1> HIDE DEF p1, es, ws, p4
<1>12. Part(op, y2, e, 1, 3)
  BY <1>9, <1>11, PartCat
<1> HIDE DEF y2
<1>13. Part(op, y3, e, 1, 5)
  BY <1>12, <1>11, PartCat
<1> HIDE DEF y3
<1>14. Part(op, y4, e, 1, 7)
  BY <1>13, <1>10, PartCat
<1> HIDE DEF y4
<1>15. Part(op, y5, e, 1, 15)
  BY <1>14, <1>7, PartCat
<1> HIDE DEF y5
<1>16. Going(op, y5, e, 15, 1)
  BY <1>15, PartGoing
<1>17. Going(op, y6, e, 15, 1)
  BY <1>16, <1>8, GoingQuiet
<1> QED
  BY <1>5, <1>17 DEF e

\* The spare block is put in the place of the working block, and what was going
\* on is given up.
LEMMA ReplaceOn ==
  ASSUME NEW op
  PROVE  /\ On(FlushSpareBlockToWorkingBlock \o FtwAbort \o WorkSpaceRefresh, MoveSteps("CleanUp"), 15, 8)
         /\ Adds(FlushSpareBlockToWorkingBlock \o FtwAbort \o WorkSpaceRefresh)
         /\ Lacks(FlushSpareBlockToWorkingBlock \o FtwAbort \o WorkSpaceRefresh, {"Success"})
         /\ FlushSpareBlockToWorkingBlock \o FtwAbort \o WorkSpaceRefresh \in Seq(Steps(op))
<1> DEFINE e == MoveSteps("CleanUp")
           x == FlushSpareBlockToWorkingBlock
           y == FtwAbort
           z == WorkSpaceRefresh
           u == x \o y
           v == u \o z
<1>1. Part(op, x, e, 8, 15)
  BY FlushIs DEF Part
<1>2. y \in Seq(Steps(op)) /\ AllQuiet(y) /\ Inner(y)
  BY LookUpsAre DEF Inner
<1>3. z \in Seq(Steps(op)) /\ AllQuiet(z) /\ Inner(z)
  BY RefreshAre DEF Inner
<1> HIDE DEF x, y, z, e
<1>4. Going(op, x, e, 15, 8)
  BY <1>1, PartGoing
<1>5. Going(op, u, e, 15, 8)
  BY <1>2, <1>4, GoingQuiet
<1> HIDE DEF u
<1>6. Going(op, v, e, 15, 8)
  BY <1>3, <1>5, GoingQuiet
<1> QED
  BY <1>6 DEF u, v, x, y, z, e, Going, Inner

\* The copy of the spare block to a target, and what is written behind it.
LEMMA TargetOn ==
  ASSUME NEW op, NEW t \in Targets
  PROVE  Going(op, FtwWriteRecord(t), WriteSteps(t), 13, 8)
<1> DEFINE e  == WriteSteps(t)
           l  == Step("LoadSpare")
           d  == Mark("destComplete", "work")
           m  == Mark("complete", "work")
           p1 == <<l>>
           et == Blocks("Erase", t)
           wt == Blocks("Write", t)
           p4 == <<d>>
           p5 == IF IsLastRecordOfWrites(Queue("work"), header, record) THEN <<m>> ELSE <<>>
           y2 == p1 \o et
           y3 == y2 \o wt
           y4 == y3 \o p4
           y5 == y4 \o p5
<1>1. "work" \in Areas /\ t \in Areas /\ t # "work"
  BY AreasAre, FtwAssumption DEF Areas
<1>2. l \in Steps(op) /\ d \in Steps(op) /\ m \in Steps(op)
  BY <1>1, PlainStep, MarkStep DEF Plain, Marks
<1>3. l.do = "LoadSpare" /\ d.do = "destComplete" /\ m.do = "complete"
  BY DoIs
<1>4. /\ e[8] = l /\ e[9] = Erasing(t, 1) /\ e[10] = Erasing(t, 2)
      /\ e[11] = Writing(t, 1) /\ e[12] = Writing(t, 2) /\ e[13] = d
  BY WriteStepsAre
<1>5. FtwWriteRecord(t) = y5
  BY <1>1 DEF FtwWriteRecord, FlushSpareBlockToTargetBlock
<1>6. {"LoadSpare", "destComplete", "complete"} \cap
         (BootNames \cup {"LastWrite", "Success"} \cup LookNames) = {}
  BY DEF BootNames, LookNames
<1>7. Quiet(m)
  BY <1>3 DEF Quiet, QuietNames
<1> HIDE DEF e, l, d, m
<1>8. Part(op, p1, e, 8, 8) /\ Part(op, p4, e, 13, 13)
  BY <1>2, <1>3, <1>4, <1>6, PartOne
<1>9. Part(op, et, e, 9, 10) /\ Part(op, wt, e, 11, 12)
  BY <1>1, <1>4, PartBlocks
<1> HIDE DEF p1, et, wt, p4
<1>10. Part(op, y2, e, 8, 10)
  BY <1>8, <1>9, PartCat
<1> HIDE DEF y2
<1>11. Part(op, y3, e, 8, 12)
  BY <1>10, <1>9, PartCat
<1> HIDE DEF y3
<1>12. Part(op, y4, e, 8, 13)
  BY <1>11, <1>8, PartCat
<1> HIDE DEF y4
<1>13. Going(op, y4, e, 13, 8)
  BY <1>12, PartGoing
<1>14. CASE IsLastRecordOfWrites(Queue("work"), header, record)
  <2>1. p5 = <<m>>
    BY <1>14
  <2>2. <<m>> \in Seq(Steps(op)) /\ AllQuiet(<<m>>) /\ Inner(<<m>>)
    BY <1>2, <1>3, <1>6, <1>7, QuietOne, InnerOne
  <2> HIDE DEF p5
  <2>3. Going(op, y4 \o p5, e, 13, 8)
    BY <1>13, <2>1, <2>2, GoingQuiet
  <2> QED
    BY <1>5, <2>3 DEF e
<1>15. CASE ~IsLastRecordOfWrites(Queue("work"), header, record)
  <2>1. p5 = <<>>
    BY <1>15
  <2> HIDE DEF p5
  <2>2. y4 \in Seq(Steps(op))
    BY <1>13 DEF Going
  <2>3. y4 \o <<>> = y4
    BY <2>2
  <2> QED
    BY <1>5, <1>13, <2>1, <2>3 DEF e
<1> QED
  BY <1>14, <1>15

\* A write goes through its steps, restores the spare block and succeeds.
LEMMA WriteOn ==
  ASSUME NEW t \in Targets, NEW s, s = WriteThroughSpare(t)
  PROVE  /\ On(s, WriteSteps(t), 13, 1) /\ Adds(s) /\ s \in Seq(Steps("write")) /\ s # <<>>
         /\ s[Len(s)] = Step("Success")
<1> DEFINE e  == WriteSteps(t)
           a  == Step("WriteRecord")
           b  == Step("LoadTarget")
           c  == Mark("spareComplete", "work")
           d  == Step("Success")
           p1 == <<a, b>>
           es == Blocks("Erase", "spare")
           ws == Blocks("Write", "spare")
           p4 == <<c>>
           p5 == FtwWriteRecord(t)
           p6 == RestoreSpare
           p7 == <<d>>
           y2 == p1 \o es
           y3 == y2 \o ws
           y4 == y3 \o p4
           y5 == y4 \o p5
           y6 == y5 \o p6
           y7 == y6 \o p7
<1>1. "work" \in Areas /\ "spare" \in Areas
  BY AreasAre
<1>2. a \in Steps("write") /\ b \in Steps("write") /\ c \in Steps("write") /\ d \in Steps("write")
  BY <1>1, ServiceStep, MarkStep DEF Marks
<1>3. a.do = "WriteRecord" /\ b.do = "LoadTarget" /\ c.do = "spareComplete" /\ d.do = "Success"
  BY DoIs
<1>4. /\ e[1] = a /\ e[2] = b /\ e[3] = Erasing("spare", 1) /\ e[4] = Erasing("spare", 2)
      /\ e[5] = Writing("spare", 1) /\ e[6] = Writing("spare", 2) /\ e[7] = c
  BY WriteStepsAre
<1>5. s = y7
  BY DEF WriteThroughSpare
<1>6. {"WriteRecord", "LoadTarget", "spareComplete"} \cap
         (BootNames \cup {"LastWrite", "Success"} \cup LookNames) = {}
      /\ "Success" \notin BootNames \cup {"LastWrite"} \cup LookNames
  BY DEF BootNames, LookNames
<1>7. Quiet(d)
  BY <1>3 DEF Quiet, QuietNames
<1>8. Going("write", p5, e, 13, 8)
  BY TargetOn
<1>9. p6 \in Seq(Steps("write")) /\ AllQuiet(p6) /\ Inner(p6)
  BY RestoreIs
<1> HIDE DEF e, a, b, c, d, p5, p6
<1>10. Part("write", p1, e, 1, 2)
  BY <1>2, <1>3, <1>4, <1>6, PartTwo
<1>11. Part("write", p4, e, 7, 7)
  BY <1>2, <1>3, <1>4, <1>6, PartOne
<1>12. Part("write", es, e, 3, 4) /\ Part("write", ws, e, 5, 6)
  BY <1>1, <1>4, PartBlocks
<1>13. p7 \in Seq(Steps("write")) /\ AllQuiet(p7) /\ Adds(p7) /\ Len(p7) = 1 /\ p7[1] = d
  BY <1>2, <1>3, <1>6, <1>7, QuietOne, AddsOne
<1> HIDE DEF p1, es, ws, p4, p7
<1>14. Part("write", y2, e, 1, 4)
  BY <1>10, <1>12, PartCat
<1> HIDE DEF y2
<1>15. Part("write", y3, e, 1, 6)
  BY <1>12, <1>14, PartCat
<1> HIDE DEF y3
<1>16. Part("write", y4, e, 1, 7)
  BY <1>11, <1>15, PartCat
<1> HIDE DEF y4
<1>17. Going("write", y5, e, 13, 1)
  BY <1>8, <1>16, GoingBehind
<1> HIDE DEF y5
<1>18. Going("write", y6, e, 13, 1)
  BY <1>9, <1>17, GoingQuiet
<1> HIDE DEF y6
<1>19. On(y6, e, 13, 1) /\ Adds(y6) /\ y6 \in Seq(Steps("write"))
  BY <1>18 DEF Going, Inner
<1>20. Cat(Steps("write"), y6, p7, y7)
  BY <1>13, <1>19, CatIs
<1>21. On(y7, e, 13, 1)
  BY <1>13, <1>19, OnQuiet
<1>22. Adds(y7)
  BY <1>13, <1>19, AddsCat
<1> HIDE DEF y7
<1>23. /\ y7 \in Seq(Steps("write")) /\ Len(y7) = Len(y6) + 1 /\ Len(y6) \in Nat
       /\ y7[Len(y6) + 1] = d
  BY <1>13, <1>19, <1>20 DEF Cat
<1>24. y7 # <<>>
  BY <1>23
<1> QED
  BY <1>5, <1>21, <1>22, <1>23, <1>24 DEF e, d

-----------------------------------------------------------------------------
(***************************************************************************)
(* What a write, a reclaim and a recovery have done before each of their   *)
(* steps.                                                                  *)
(***************************************************************************)
\* The platforms the proof is about: flash accesses do not fail, callers do not
\* write the working block, and where they write several blocks they ask for
\* one write at a time.
Steady(p) ==
  /\ p.faults = 0 /\ "work" \notin p.writable
  /\ OneWritable(p) \/ p.requests \subseteq {1}

Length    == platform.queue
WorkQueue == Queue("work")
IsValid   == IsValidWorkSpace(flash["work"][2])
IsOpen    == Open(WorkQueue, Length)
IsSpared  == Spared(WorkQueue, Length)
IsWaiting == Waiting(WorkQueue, Length)
LastCellOf == WorkQueue[Last(WorkQueue, Length)]

Even(c) == c[1] = c[2] /\ \E v \in Values : c[1] = Data(v)

\* The contents that a call of FtwWrite has been given.
NewContents == <<Data(request.value), Data(request.value)>>

\* Where the recovery is, in its own steps and in those that it puts in front.
BootAt(k) ==
  /\ ~up /\ AllQuiet(todo) /\ On(todo, BootSteps, 8, k) /\ Len(todo) = 9 - k
  /\ k >= 3 => Fresh
RestartAt(k) == ~up /\ AllQuiet(todo) /\ On(todo, RestartSteps, 3, k) /\ (k >= 3 => Fresh)
AbortAt(k)   == ~up /\ AllQuiet(todo) /\ On(todo, AbortSteps, 3, k) /\ (k >= 3 => Fresh)
CompleteAt   == ~up /\ AllQuiet(todo) /\ At("complete") /\ header = LastHeader(WorkQueue, Length)

\* Before step k of a write to block t.
WriteAt(t, k) ==
  /\ On(todo, WriteSteps(t), 13, k) /\ t \in platform.writable /\ IsValid /\ IsOpen /\ Fresh
  /\ k >= 2 => WorkQueue[record].kind = "record" /\ WorkQueue[record].target = t
  /\ k <= 7 => /\ request.op = "write" /\ t = request.target
               /\ ~SpareDone(WorkQueue, record) /\ ~DestDone(WorkQueue, record)
  /\ k \in 3..7 => buffer = NewContents
  /\ k \in 6..7 => flash["spare"][1] = buffer[1]
  /\ k = 7 => flash["spare"][2] = buffer[2]
  /\ k >= 8 => /\ IsSpared
               /\ up => request.op = "write" /\ t = request.target /\ flash["spare"] = NewContents
  /\ k \in 9..13 => buffer = flash["spare"]
  /\ k \in 12..13 => flash[t][1] = buffer[1]
  /\ k = 13 => flash[t][2] = buffer[2]

\* Before step k of a reclaim: there is nothing open in the work space, so
\* that a recovery may take it from where it likes.
SpaceBlock(c) == c.kind = "space" /\ ~Open(c.queue, Length)
Formatted(c)  == c.kind = "space" /\ c.formatted /\ ~c.invalid

MoveAt(k) ==
  /\ \E clean \in Cleans : On(todo, MoveSteps(clean), 15, k)
  /\ ~IsOpen
  /\ k \in 2..5 \cup 10..14 => SpaceBlock(buffer[2])
  /\ k \in 6..15 => ~Open(Queue("spare"), Length)
  /\ k \in 10..14 => Formatted(buffer[2])
  /\ k = 15 => Formatted(flash["work"][2])

InBoot(m)     == \E k \in 1..m : BootAt(k)
InRestart     == \E k \in 1..3 : RestartAt(k)
InAbort       == \E k \in 1..3 : AbortAt(k)
InWrite(a, b) == \E t \in platform.writable, k \in a..b : WriteAt(t, k)
InMove        == \E k \in 1..15 : MoveAt(k)

\* What is to be done is one of these.
Shape == AllQuiet(todo) \/ InWrite(1, 13) \/ InMove

\* The work space is not valid in a reclaim or before the boot has looked at it,
\* and then there is nothing open that could be lost.
Shelved ==
  ~IsValid => /\ ~IsOpen
              /\ IsValidWorkSpace(flash["spare"][2]) => ~Open(Queue("spare"), Length)
              /\ InMove \/ InBoot(3)

\* The new contents are in the spare block until they are in their place.
SpareKept ==
  IsSpared => /\ Even(flash["spare"]) /\ LastCellOf.target \in platform.writable
              /\ InWrite(8, 13) \/ InBoot(7) \/ InRestart

TargetsWhole == \A t \in platform.writable : Even(flash[t]) \/ (IsSpared /\ LastCellOf.target = t)

\* The boot does not come to its check of the erased cells with a header open
\* that it should have given up.
Remains == IsOpen /\ ~Lacks(todo, {"CheckRemainder"}) => InBoot(6) \/ InAbort \/ CompleteAt

\* A record whose contents are not in the spare block is given up, or nobody
\* writes it over for another block.
Left ==
  IsWaiting => /\ LastCellOf.target \in platform.writable
               /\ \/ OneWritable(platform) \/ SpareDone(WorkQueue, Last(WorkQueue, Length))
                  \/ InWrite(2, 7) \/ InBoot(4) \/ InAbort \/ CompleteAt

\* A write that is going to succeed has replaced the contents, or is in its steps.
Succeeds ==
  request.op = "write" /\ ~Lacks(todo, {"Success"}) =>
    InWrite(1, 13) \/ flash[request.target] = NewContents

\* The order of steps, of any plan.
Ordered ==
  /\ Seeks(todo)
  /\ todo # <<>> /\ Head(todo).do \in LookNames => Fresh
  /\ request.op = "write" =>
       /\ todo # <<>> /\ todo[Len(todo)].do \in {"CheckRecord", "Success"}
       /\ Lacks(todo, {"LastWrite"})
  /\ up => Lacks(todo, BootNames)
  /\ ~up => request.op = "none"

Standing == Shelved /\ SpareKept /\ TargetsWhole /\ Remains /\ Left

AInv == Steady(platform) /\ Shape /\ Ordered /\ Standing /\ Succeeds

\* Nothing needs a recovery.
Calm ==
  /\ IsValid /\ ~IsSpared
  /\ IsOpen => Lacks(todo, {"CheckRemainder"})
  /\ IsWaiting => LastCellOf.target \in platform.writable /\ OneWritable(platform)
  /\ \A t \in platform.writable : Even(flash[t])

\* The contents of block t that count.
Held(t) == IF IsSpared /\ LastCellOf.target = t THEN flash["spare"] ELSE flash[t]
Same    == \A t \in platform.writable : Held(t)' = Held(t)

LEMMA WorkIs ==
  ASSUME IInv
  PROVE  /\ Length \in Nat /\ Length >= 2 /\ HeaderWrites(platform) \in SUBSET Counts
         /\ WorkQueue \in Queues(Length, HeaderWrites(platform), RecordTargets(platform))
         /\ InOrder(WorkQueue, Length)
         /\ Queue("spare") \in Queues(Length, HeaderWrites(platform), RecordTargets(platform))
         /\ InOrder(Queue("spare"), Length)
         /\ QueueSize = Length
<1>1. GoodQueue(Queue("work")) /\ GoodQueue(Queue("spare"))
  BY SpaceIs, AreasAre
<1> QED
  BY <1>1, SizesAre DEF GoodQueue, Length, WorkQueue

\* Targets are no areas of the driver's own.
LEMMA WritableIs ==
  ASSUME IInv, Steady(platform)
  PROVE  /\ platform.writable \subseteq Targets /\ "work" \notin platform.writable
         /\ "spare" \notin platform.writable /\ platform.writable \subseteq Areas
         /\ "work" \notin Targets /\ "spare" \notin Targets /\ "unknown" \notin platform.writable
<1>1. platform \in Platforms
  BY SizesAre
<1>2. platform \in Platform
  BY <1>1, FtwAssumption
<1>3. platform.writable \subseteq Targets \cup {"work"}
  BY <1>2 DEF Platform
<1> QED
  BY <1>3, FtwAssumption DEF Steady, Areas

\* A step that leaves the block with the work space alone.
LEMMA WorkSame ==
  ASSUME flash'["work"][2] = flash["work"][2], platform' = platform
  PROVE  /\ Length' = Length /\ WorkQueue' = WorkQueue
         /\ IsValid' <=> IsValid
         /\ IsOpen' <=> IsOpen
         /\ IsSpared' <=> IsSpared
         /\ IsWaiting' <=> IsWaiting
         /\ LastCellOf' = LastCellOf
         /\ SpareDone(WorkQueue, Last(WorkQueue, Length))' <=> SpareDone(WorkQueue, Last(WorkQueue, Length))
<1>1. "work" \in Areas
  BY AreasAre
<1>2. Queue("work")' = Queue("work")
  <2>1. Queue("work")' = SpaceOf(platform', flash'["work"][2]).queue
    BY <1>1, QueueNext
  <2>2. Queue("work") = SpaceOf(platform, flash["work"][2]).queue
    BY AsSpaceIs DEF Queue, Space
  <2> QED
    BY <2>1, <2>2
<1>3. Length' = Length /\ WorkQueue' = WorkQueue
  BY <1>2 DEF Length, WorkQueue
<1>4. IsValid' <=> IsValid
  BY DEF IsValid
<1> QED
  BY <1>3, <1>4 DEF IsOpen, IsSpared, IsWaiting, LastCellOf

LEMMA FreshSame ==
  ASSUME flash'["work"][2] = flash["work"][2], platform' = platform, header' = header, record' = record, Fresh
  PROVE  Fresh'
<1>1. Length' = Length /\ WorkQueue' = WorkQueue
  BY WorkSame
<1> QED
  BY <1>1 DEF Fresh, Length, WorkQueue

LEMMA SpareSame ==
  ASSUME flash'["spare"][2] = flash["spare"][2], platform' = platform
  PROVE  Queue("spare")' = Queue("spare") /\ Length' = Length
<1>1. "spare" \in Areas
  BY AreasAre
<1>2. Queue("spare")' = SpaceOf(platform', flash'["spare"][2]).queue
  BY <1>1, QueueNext
<1>3. Queue("spare") = SpaceOf(platform, flash["spare"][2]).queue
  BY AsSpaceIs DEF Queue, Space
<1> QED
  BY <1>2, <1>3 DEF Length

LEMMA OpenWaits ==
  /\ IsSpared => IsOpen /\ IsWaiting /\ SpareDone(WorkQueue, Last(WorkQueue, Length))
  /\ IsWaiting => IsOpen
  /\ IsWaiting /\ SpareDone(WorkQueue, Last(WorkQueue, Length)) => IsSpared
BY DEF IsSpared, IsOpen, IsWaiting, Spared, Waiting, SpareDone

-----------------------------------------------------------------------------
(***************************************************************************)
(* The places where the driver may be exclude one another.                 *)
(***************************************************************************)
LEMMA QuietNotOn ==
  ASSUME NEW S, NEW t \in Seq(S), NEW e, NEW m \in Nat, NEW k, On(t, e, m, k), ~Quiet(e[m])
  PROVE  ~AllQuiet(t)
<1>1. k \in 1..m /\ Len(t) >= m - k + 1 /\ Len(t) \in Nat /\ \A j \in k..m : t[j - k + 1] = e[j]
  BY DEF On
<1>2. t[m - k + 1] = e[m] /\ m - k + 1 \in 1..Len(t)
  BY <1>1
<1> QED
  BY <1>2 DEF AllQuiet

LEMMA PlanIs ==
  ASSUME IInv
  PROVE  todo \in Seq(Steps(request.op))
BY DEF IInv, Planned, Linked

LEMMA WriteHead ==
  ASSUME IInv, NEW t, NEW k, WriteAt(t, k)
  PROVE  todo # <<>> /\ Head(todo) = WriteSteps(t)[k] /\ k \in 1..13 /\ ~AllQuiet(todo)
<1>1. todo \in Seq(Steps(request.op)) /\ On(todo, WriteSteps(t), 13, k)
  BY PlanIs DEF WriteAt
<1>2. ~Quiet(WriteSteps(t)[13])
  BY WriteStepsAre, DoIs DEF Quiet, QuietNames
<1>3. ~AllQuiet(todo)
  BY <1>1, <1>2, QuietNotOn
<1>4. todo # <<>> /\ Head(todo) = WriteSteps(t)[k]
  BY <1>1, OnHead
<1>5. k \in 1..13
  BY <1>1 DEF On
<1> QED
  BY <1>3, <1>4, <1>5

LEMMA MoveHead ==
  ASSUME IInv, NEW k, MoveAt(k)
  PROVE  /\ todo # <<>> /\ k \in 1..15 /\ ~AllQuiet(todo)
         /\ \E clean \in Cleans : Head(todo) = MoveSteps(clean)[k] /\ On(todo, MoveSteps(clean), 15, k)
<1>1. PICK clean \in Cleans : On(todo, MoveSteps(clean), 15, k)
  BY DEF MoveAt
<1>2. todo \in Seq(Steps(request.op))
  BY PlanIs
<1>3. ~Quiet(MoveSteps(clean)[15])
  BY MoveStepsAre, DoIs DEF Quiet, QuietNames
<1>4. ~AllQuiet(todo)
  BY <1>1, <1>2, <1>3, QuietNotOn
<1>5. todo # <<>> /\ Head(todo) = MoveSteps(clean)[k]
  BY <1>1, <1>2, OnHead
<1>6. k \in 1..15
  BY <1>1 DEF On
<1> QED
  BY <1>1, <1>4, <1>5, <1>6

LEMMA QuietHere ==
  ASSUME IInv, AllQuiet(todo)
  PROVE  (\A a, b : ~InWrite(a, b)) /\ ~InMove
BY WriteHead, MoveHead DEF InWrite, InMove

LEMMA BootHead ==
  ASSUME IInv, NEW k, BootAt(k)
  PROVE  todo # <<>> /\ Head(todo) = BootSteps[k] /\ k \in 1..8 /\ AllQuiet(todo) /\ ~up
<1>1. todo \in Seq(Steps(request.op)) /\ On(todo, BootSteps, 8, k) /\ AllQuiet(todo) /\ ~up
  BY PlanIs DEF BootAt
<1>2. todo # <<>> /\ Head(todo) = BootSteps[k]
  BY <1>1, OnHead
<1> QED
  BY <1>1, <1>2 DEF On

LEMMA RestartHead ==
  ASSUME IInv, NEW k, RestartAt(k)
  PROVE  todo # <<>> /\ Head(todo) = RestartSteps[k] /\ k \in 1..3 /\ AllQuiet(todo) /\ ~up
<1>1. todo \in Seq(Steps(request.op)) /\ On(todo, RestartSteps, 3, k) /\ AllQuiet(todo) /\ ~up
  BY PlanIs DEF RestartAt
<1>2. todo # <<>> /\ Head(todo) = RestartSteps[k]
  BY <1>1, OnHead
<1> QED
  BY <1>1, <1>2 DEF On

LEMMA AbortHead ==
  ASSUME IInv, NEW k, AbortAt(k)
  PROVE  todo # <<>> /\ Head(todo) = AbortSteps[k] /\ k \in 1..3 /\ AllQuiet(todo) /\ ~up
<1>1. todo \in Seq(Steps(request.op)) /\ On(todo, AbortSteps, 3, k) /\ AllQuiet(todo) /\ ~up
  BY PlanIs DEF AbortAt
<1>2. todo # <<>> /\ Head(todo) = AbortSteps[k]
  BY <1>1, OnHead
<1> QED
  BY <1>1, <1>2 DEF On

\* Which place the next step is in.
Places(name) ==
  /\ \A k : BootAt(k) => BootSteps[k].do = name
  /\ \A k : RestartAt(k) => RestartSteps[k].do = name
  /\ \A k : AbortAt(k) => AbortSteps[k].do = name
  /\ CompleteAt => name = "complete"

LEMMA PlacesAre ==
  ASSUME IInv, NEW name, At(name)
  PROVE  Places(name)
BY BootHead, RestartHead, AbortHead DEF Places, At, CompleteAt

LEMMA BootNumber ==
  ASSUME NEW k \in 1..8
  PROVE  /\ BootSteps[k].do = "ReclaimWhenFull" <=> k = 1
         /\ BootSteps[k].do = "FindLastWrite" <=> k = 2
         /\ BootSteps[k].do = "ChooseWorkSpace" <=> k = 3
         /\ BootSteps[k].do = "AbortFirstRecord" <=> k = 4
         /\ BootSteps[k].do = "AbortLastRecord" <=> k = 5
         /\ BootSteps[k].do = "CheckRemainder" <=> k = 6
         /\ BootSteps[k].do = "RestartLastWrite" <=> k = 7
         /\ BootSteps[k].do = "HookServices" <=> k = 8
         /\ BootSteps[k].do \in {"ReclaimWhenFull", "FindLastWrite", "ChooseWorkSpace", "AbortFirstRecord",
                                 "AbortLastRecord", "CheckRemainder", "RestartLastWrite", "HookServices"}
BY BootStepsAre, DoIs

LEMMA LookNumber ==
  ASSUME NEW k \in 1..3
  PROVE  /\ RestartSteps[k].do = "ReclaimWhenFull" <=> k = 1
         /\ RestartSteps[k].do = "FindLastWrite" <=> k = 2
         /\ RestartSteps[k].do = "CheckRestart" <=> k = 3
         /\ RestartSteps[k].do \in {"ReclaimWhenFull", "FindLastWrite", "CheckRestart"}
         /\ AbortSteps[k].do = "ReclaimWhenFull" <=> k = 1
         /\ AbortSteps[k].do = "FindLastWrite" <=> k = 2
         /\ AbortSteps[k].do = "AbortWrites" <=> k = 3
         /\ AbortSteps[k].do \in {"ReclaimWhenFull", "FindLastWrite", "AbortWrites"}
BY LookStepsAre, DoIs

LEMMA WriteNumber ==
  ASSUME NEW t, NEW k \in 1..13
  PROVE  /\ WriteSteps(t)[k].do = "WriteRecord" <=> k = 1
         /\ WriteSteps(t)[k].do = "LoadTarget" <=> k = 2
         /\ WriteSteps(t)[k].do = "Erase" <=> k \in {3, 4, 9, 10}
         /\ WriteSteps(t)[k].do = "Write" <=> k \in {5, 6, 11, 12}
         /\ WriteSteps(t)[k].do = "spareComplete" <=> k = 7
         /\ WriteSteps(t)[k].do = "LoadSpare" <=> k = 8
         /\ WriteSteps(t)[k].do = "destComplete" <=> k = 13
         /\ WriteSteps(t)[k].do \in {"WriteRecord", "LoadTarget", "Erase", "Write", "spareComplete",
                                     "LoadSpare", "destComplete"}
BY WriteStepsAre, DoIs

LEMMA MoveNumber ==
  ASSUME NEW clean \in Cleans, NEW k \in 1..15
  PROVE  /\ MoveSteps(clean)[k].do \in Cleans <=> k = 1
         /\ MoveSteps(clean)[k].do = "Erase" <=> k \in {2, 3, 11, 12}
         /\ MoveSteps(clean)[k].do = "Write" <=> k \in {4, 5, 13, 14}
         /\ MoveSteps(clean)[k].do = "WorkingBlockValid" <=> k \in {6, 8, 15}
         /\ MoveSteps(clean)[k].do = "WorkingBlockInvalid" <=> k \in {7, 10}
         /\ MoveSteps(clean)[k].do = "LoadSpareAsWork" <=> k = 9
         /\ MoveSteps(clean)[k].do \in Cleans \cup {"Erase", "Write", "WorkingBlockValid",
                                                    "WorkingBlockInvalid", "LoadSpareAsWork"}
<1>1. k \in {1, 2, 3, 4, 5, 6, 7, 8, 9, 10, 11, 12, 13, 14, 15}
  OBVIOUS
<1>2. MoveSteps(clean)[1].do = clean /\ clean \in {"CleanUp", "CleanAll"}
  BY MoveStepsAre, DoIs DEF Cleans
<1>3. /\ \A j \in {2, 3, 11, 12} : MoveSteps(clean)[j].do = "Erase"
      /\ \A j \in {4, 5, 13, 14} : MoveSteps(clean)[j].do = "Write"
      /\ \A j \in {6, 8, 15} : MoveSteps(clean)[j].do = "WorkingBlockValid"
      /\ \A j \in {7, 10} : MoveSteps(clean)[j].do = "WorkingBlockInvalid"
      /\ MoveSteps(clean)[9].do = "LoadSpareAsWork"
  BY MoveStepsAre, DoIs
<1> QED
  BY <1>1, <1>2, <1>3 DEF Cleans

\* Steps that may find something to recover.
Recovering ==
  {"ReclaimWhenFull", "FindLastWrite", "ChooseWorkSpace", "AbortFirstRecord", "AbortLastRecord",
   "CheckRemainder", "RestartLastWrite", "CheckRestart", "AbortWrites", "complete"}

LEMMA Nowhere ==
  ASSUME IInv, todo = <<>> \/ up \/ Head(todo).do \notin Recovering
  PROVE  (\A m \in 0..7 : ~InBoot(m)) /\ ~InRestart /\ ~InAbort /\ ~CompleteAt
<1>1. ASSUME NEW k, BootAt(k), k < 8 PROVE FALSE
  <2>1. todo # <<>> /\ Head(todo) = BootSteps[k] /\ k \in 1..8 /\ ~up
    BY <1>1, BootHead
  <2>2. Head(todo).do \in Recovering
    BY <1>1, <2>1, BootStepsAre, DoIs DEF Recovering
  <2> QED
    BY <2>1, <2>2
<1>2. ASSUME NEW k, RestartAt(k) PROVE FALSE
  <2>1. todo # <<>> /\ Head(todo) = RestartSteps[k] /\ k \in 1..3 /\ ~up
    BY <1>2, RestartHead
  <2> QED
    BY <2>1, LookNumber DEF Recovering
<1>3. ASSUME NEW k, AbortAt(k) PROVE FALSE
  <2>1. todo # <<>> /\ Head(todo) = AbortSteps[k] /\ k \in 1..3 /\ ~up
    BY <1>3, AbortHead
  <2> QED
    BY <2>1, LookNumber DEF Recovering
<1>4. ~CompleteAt
  BY DEF CompleteAt, At, Recovering
<1> QED
  BY <1>1, <1>2, <1>3, <1>4 DEF InBoot, InRestart, InAbort

\* Otherwise nothing needs a recovery.
LEMMA CalmIf ==
  ASSUME AInv, IsValid, ~IsSpared, IsOpen => Lacks(todo, {"CheckRemainder"}),
         IsWaiting => OneWritable(platform)
  PROVE  Calm
BY DEF AInv, Standing, TargetsWhole, Left, Calm

LEMMA CalmHere ==
  ASSUME IInv, AInv, AllQuiet(todo), todo = <<>> \/ up \/ Head(todo).do \notin Recovering
  PROVE  Calm
<1>1. /\ ~InBoot(3) /\ ~InBoot(4) /\ ~InBoot(6) /\ ~InBoot(7) /\ ~InRestart /\ ~InAbort /\ ~CompleteAt
  BY Nowhere
<1>2. ~InMove /\ ~InWrite(8, 13) /\ ~InWrite(2, 7)
  BY QuietHere
<1>3. IsValid
  BY <1>1, <1>2 DEF AInv, Standing, Shelved
<1>4. ~IsSpared
  BY <1>1, <1>2 DEF AInv, Standing, SpareKept
<1>5. IsOpen => Lacks(todo, {"CheckRemainder"})
  BY <1>1 DEF AInv, Standing, Remains
<1>6. IsWaiting => OneWritable(platform)
  BY <1>1, <1>2, <1>4, OpenWaits DEF AInv, Standing, Left
<1> QED
  BY <1>3, <1>4, <1>5, <1>6, CalmIf

\* What stands when nothing is open any more.
LEMMA ClosedStands ==
  ASSUME AInv, ~IsSpared, ~IsOpen', platform' = platform, Shelved',
         \A t \in platform.writable : flash'[t] = flash[t]
  PROVE  Standing' /\ Same
<1>1. ~IsSpared' /\ ~IsWaiting'
  BY DEF IsOpen, IsSpared, IsWaiting, Spared, Waiting
<1>2. \A t \in platform.writable : Even(flash[t])
  BY DEF AInv, Standing, TargetsWhole
<1>3. TargetsWhole'
  <2> SUFFICES ASSUME NEW t \in platform'.writable PROVE Even(flash'[t])
    BY DEF TargetsWhole
  <2>1. flash'[t] = flash[t] /\ Even(flash[t])
    BY <1>2
  <2> QED
    BY <2>1
<1>4. SpareKept' /\ Remains' /\ Left'
  BY <1>1 DEF SpareKept, Remains, Left
<1>5. Same
  BY <1>1 DEF Same, Held
<1> QED
  BY <1>3, <1>4, <1>5 DEF Standing

LEMMA CalmStands ==
  ASSUME Calm, Calm', platform' = platform, \A t \in platform.writable : flash'[t] = flash[t]
  PROVE  Standing' /\ Same
<1>1. IsValid' /\ ~IsSpared' /\ ~IsSpared
  BY DEF Calm
<1>2. Shelved' /\ SpareKept'
  BY <1>1 DEF Shelved, SpareKept
<1>3. TargetsWhole' /\ Remains' /\ Left'
  BY DEF Calm, TargetsWhole, Remains, Left
<1>4. Same
  BY <1>1 DEF Same, Held
<1> QED
  BY <1>2, <1>3, <1>4 DEF Standing

\* Calm lasts while the work space and the targets stay.
LEMMA CalmStays ==
  ASSUME Calm, flash'["work"][2] = flash["work"][2], platform' = platform,
         \A t \in platform.writable : flash'[t] = flash[t],
         Lacks(todo, {"CheckRemainder"}) => Lacks(todo', {"CheckRemainder"})
  PROVE  Calm' /\ Standing' /\ Same
<1>1. /\ IsValid' <=> IsValid
      /\ IsOpen' <=> IsOpen
      /\ IsSpared' <=> IsSpared
      /\ IsWaiting' <=> IsWaiting
      /\ LastCellOf' = LastCellOf
  BY WorkSame
<1>2. \A t \in platform'.writable : Even(flash'[t])
  BY DEF Calm
<1>3. Calm'
  BY <1>1, <1>2 DEF Calm
<1> QED
  BY <1>3, CalmStands

-----------------------------------------------------------------------------
(***************************************************************************)
(* The order of steps is kept by going on, putting in, and returning.      *)
(***************************************************************************)
LEMMA OrderedOn ==
  ASSUME IInv, Ordered, todo # <<>>, todo' = Tail(todo), request' = request, up' = up,
         Head(todo).do \notin {"CheckRecord", "Success"}, Head(todo).do = "FindLastWrite" => Fresh'
  PROVE  Ordered'
<1> DEFINE t == Tail(todo)
<1>1. todo \in Seq(Steps(request.op))
  BY PlanIs
<1>2. Seeks(todo) /\ Seeks(t)
  BY <1>1, QuietTail DEF Ordered
<1>3. t \in Seq(Steps(request.op)) /\ (t # <<>> => 1 \in 1..Len(t) /\ Head(t) = t[1] /\ t[1] = todo[2] /\ 2 \in 1..Len(todo))
      /\ Head(todo) = todo[1]
  BY <1>1
<1>4. t # <<>> /\ Head(t).do \in LookNames => Fresh'
  <2>1. ASSUME t # <<>>, Head(t).do \in LookNames PROVE Fresh'
    <3>1. 2 \in 1..Len(todo) /\ todo[2].do \in LookNames /\ 2 > 1 /\ 2 - 1 = 1
      BY <1>3, <2>1
    <3>2. todo[1].do = "FindLastWrite"
      BY <1>2, <3>1 DEF Seeks
    <3> QED
      BY <1>3, <3>2
  <2> QED
    BY <2>1
<1>5. ASSUME request.op = "write"
      PROVE  t # <<>> /\ t[Len(t)].do \in {"CheckRecord", "Success"} /\ Lacks(t, {"LastWrite"})
  <2>1. todo[Len(todo)].do \in {"CheckRecord", "Success"} /\ Lacks(todo, {"LastWrite"})
    BY <1>5 DEF Ordered
  <2>2. t # <<>>
    <3>1. t = <<>> => todo[Len(todo)] = Head(todo)
      BY <1>1, LastStep
    <3> QED
      BY <2>1, <3>1
  <2>3. t[Len(t)] = todo[Len(todo)]
    BY <1>1, <2>2, LastStep
  <2> QED
    BY <1>1, <2>1, <2>2, <2>3, QuietTail
<1>6. up => Lacks(t, BootNames)
  BY <1>1, QuietTail DEF Ordered
<1> HIDE DEF t
<1>7. todo' = t
  BY DEF t
<1> QED
  BY <1>2, <1>4, <1>5, <1>6, <1>7 DEF Ordered

LEMMA OrderedIn ==
  ASSUME IInv, Ordered, todo # <<>>, NEW s, s \in Seq(Steps(request.op)), Adds(s), todo' = s \o Tail(todo),
         request' = request, up' = up,
         Head(todo).do # "FindLastWrite",
         Head(todo).do \in {"CheckRecord", "Success"} =>
           Tail(todo) # <<>> \/ s[Len(s)].do \in {"CheckRecord", "Success"}
  PROVE  Ordered'
<1> DEFINE t == s \o Tail(todo)
<1>1. todo \in Seq(Steps(request.op)) /\ Tail(todo) \in Seq(Steps(request.op))
  BY PlanIs
<1>2. Seeks(s) /\ s # <<>> /\ s[1].do \notin LookNames /\ Lacks(s, BootNames \cup {"LastWrite"})
  BY DEF Adds
<1>3. Seeks(t) /\ t # <<>> /\ t[1] = s[1]
  BY <1>1, <1>2, AddsPut DEF Ordered
<1>4. t \in Seq(Steps(request.op)) /\ Head(t) = t[1]
  BY <1>1, <1>3
<1>5. Lacks(s, {"LastWrite"}) /\ Lacks(s, BootNames)
  BY <1>2 DEF Lacks
<1>6. /\ Lacks(todo, {"LastWrite"}) => Lacks(t, {"LastWrite"})
      /\ Lacks(todo, BootNames) => Lacks(t, BootNames)
  BY <1>1, <1>5, QuietTail, QuietCat
<1>7. ASSUME request.op = "write" PROVE t[Len(t)].do \in {"CheckRecord", "Success"}
  <2>1. todo[Len(todo)].do \in {"CheckRecord", "Success"}
    BY <1>7 DEF Ordered
  <2>2. CASE Tail(todo) # <<>>
    <3>1. t[Len(t)] = todo[Len(todo)]
      BY <1>1, <2>2, LastStep
    <3> QED
      BY <2>1, <3>1
  <2>3. CASE Tail(todo) = <<>>
    <3>1. todo[Len(todo)] = Head(todo)
      BY <1>1, <2>3, LastStep
    <3>2. s[Len(s)].do \in {"CheckRecord", "Success"}
      BY <2>1, <2>3, <3>1
    <3>3. s \o <<>> = s
      OBVIOUS
    <3>4. t = s
      BY <2>3, <3>3
    <3> QED
      BY <3>2, <3>4
  <2> QED
    BY <2>2, <2>3
<1> HIDE DEF t
<1>8. todo' = t
  BY DEF t
<1> QED
  BY <1>2, <1>3, <1>4, <1>6, <1>7, <1>8 DEF Ordered

LEMMA OrderedEnd ==
  ASSUME todo' = <<>>, request' = NoRequest
  PROVE  Ordered' /\ AllQuiet(todo') /\ Succeeds' /\ \A N : Lacks(todo', N)
<1>1. request'.op = "none"
  BY DEF NoRequest
<1> QED
  BY <1>1 DEF Ordered, AllQuiet, Succeeds, Lacks, Seeks

\* A plan without an end that succeeds gets none.
LEMMA SucceedsOn ==
  ASSUME Succeeds, request' = request, \A a, b : ~InWrite(a, b),
         Lacks(todo, {"Success"}) => Lacks(todo', {"Success"}),
         request.op = "write" => flash'[request.target] = flash[request.target]
  PROVE  Succeeds'
BY DEF Succeeds, NewContents

-----------------------------------------------------------------------------
(***************************************************************************)
(* Quiet steps.                                                            *)
(***************************************************************************)
TargetsSame == \A t \in platform.writable : flash'[t] = flash[t]

LEMMA AskedTarget ==
  ASSUME IInv, request.op = "write"
  PROVE  request.target \in platform.writable /\ request.value \in Values
BY DEF IInv, Requested

LEMMA GoneOnQuietly ==
  ASSUME IInv, AInv, AllQuiet(todo), todo # <<>>, GoOn, platform' = platform, TargetsSame,
         Head(todo).do \notin {"CheckRecord", "Success"}, Head(todo).do = "FindLastWrite" => Fresh', Standing'
  PROVE  AInv'
<1>1. /\ todo' = Tail(todo) /\ up' = up /\ request' = request
      /\ Ordered /\ Succeeds /\ Steady(platform)
  BY DEF GoOn, AInv
<1>2. Ordered'
  BY <1>1, OrderedOn
<1>3. todo \in Seq(Steps(request.op))
  BY PlanIs
<1>4. AllQuiet(todo') /\ (Lacks(todo, {"Success"}) => Lacks(todo', {"Success"}))
  BY <1>1, <1>3, QuietTail
<1>5. \A a, b : ~InWrite(a, b)
  BY QuietHere
<1>6. request.op = "write" => flash'[request.target] = flash[request.target]
  BY AskedTarget DEF TargetsSame
<1>7. Succeeds'
  BY <1>1, <1>4, <1>5, <1>6, SucceedsOn
<1> QED
  BY <1>1, <1>2, <1>4, <1>7 DEF AInv, Shape

LEMMA CalmGoes ==
  ASSUME IInv, AInv, AllQuiet(todo), Calm, todo # <<>>, GoOn, platform' = platform, TargetsSame,
         flash'["work"][2] = flash["work"][2],
         Head(todo).do \notin {"CheckRecord", "Success", "FindLastWrite"}
  PROVE  AInv' /\ Same
<1>1. todo \in Seq(Steps(request.op)) /\ todo' = Tail(todo)
  BY PlanIs DEF GoOn
<1>2. Lacks(todo, {"CheckRemainder"}) => Lacks(todo', {"CheckRemainder"})
  BY <1>1, QuietTail
<1>3. Standing' /\ Same
  BY <1>2, CalmStays DEF TargetsSame
<1> QED
  BY <1>3, GoneOnQuietly

\* The same when the step writes the work space and leaves it calm.
LEMMA CalmWrites ==
  ASSUME IInv, AInv, AllQuiet(todo), Calm, Calm', todo # <<>>, GoOn, platform' = platform, TargetsSame,
         Head(todo).do \notin {"CheckRecord", "Success", "FindLastWrite"}
  PROVE  AInv' /\ Same
<1>1. Standing' /\ Same
  BY CalmStands DEF TargetsSame
<1> QED
  BY <1>1, GoneOnQuietly

LEMMA ClosedGoes ==
  ASSUME IInv, AInv, AllQuiet(todo), todo # <<>>, GoOn, platform' = platform, TargetsSame,
         Head(todo).do \notin {"CheckRecord", "Success", "FindLastWrite"},
         ~IsSpared, ~IsOpen', IsValid'
  PROVE  AInv' /\ Same
<1>1. Shelved'
  BY DEF Shelved
<1>2. Standing' /\ Same
  BY <1>1, ClosedStands DEF TargetsSame
<1> QED
  BY <1>2, GoneOnQuietly

\* Steps that are put in front.
LEMMA PutOrdered ==
  ASSUME IInv, AInv, AllQuiet(todo), todo # <<>>, NEW s, Insert(s), platform' = platform, TargetsSame,
         Head(todo).do \notin {"CheckRecord", "Success", "FindLastWrite"},
         s \in Seq(Steps(request.op)), Adds(s), Lacks(s, {"Success"})
  PROVE  Ordered' /\ Succeeds' /\ Steady(platform')
<1>1. /\ todo' = s \o Tail(todo) /\ up' = up /\ request' = request
      /\ Ordered /\ Succeeds /\ Steady(platform)
  BY DEF Insert, AInv
<1>2. Ordered'
  BY <1>1, OrderedIn
<1>3. todo \in Seq(Steps(request.op)) /\ Tail(todo) \in Seq(Steps(request.op))
  BY PlanIs
<1>4. Lacks(todo, {"Success"}) => Lacks(todo', {"Success"})
  BY <1>1, <1>3, QuietTail, QuietCat
<1>5. \A a, b : ~InWrite(a, b)
  BY QuietHere
<1>6. request.op = "write" => flash'[request.target] = flash[request.target]
  BY AskedTarget DEF TargetsSame
<1>7. Succeeds'
  BY <1>1, <1>4, <1>5, <1>6, SucceedsOn
<1> QED
  BY <1>1, <1>2, <1>7

LEMMA CalmPuts ==
  ASSUME IInv, AInv, AllQuiet(todo), Calm, todo # <<>>, NEW s, Insert(s), platform' = platform,
         flash' = flash,
         Head(todo).do \notin {"CheckRecord", "Success", "FindLastWrite"},
         s \in Seq(Steps(request.op)), Adds(s), Lacks(s, {"Success"}), AllQuiet(s)
  PROVE  AInv' /\ Same
<1>1. TargetsSame
  BY DEF TargetsSame
<1>2. Ordered' /\ Succeeds' /\ Steady(platform')
  BY <1>1, PutOrdered
<1>3. todo \in Seq(Steps(request.op)) /\ Tail(todo) \in Seq(Steps(request.op)) /\ todo' = s \o Tail(todo)
  BY PlanIs DEF Insert
<1>4. AllQuiet(todo')
  BY <1>3, QuietTail, QuietCat
<1>5. Lacks(s, {"CheckRemainder"})
  BY DEF Adds, Lacks, BootNames
<1>6. Lacks(todo, {"CheckRemainder"}) => Lacks(todo', {"CheckRemainder"})
  BY <1>3, <1>5, QuietTail, QuietCat
<1>7. Standing' /\ Same
  BY <1>6, CalmStays DEF TargetsSame
<1> QED
  BY <1>2, <1>4, <1>7 DEF AInv, Shape

LEMMA CalmReturns ==
  ASSUME IInv, AInv, AllQuiet(todo), NEW s, Return(s), platform' = platform, flash' = flash
  PROVE  AInv' /\ Same
<1>1. todo' = <<>> /\ request' = NoRequest /\ up /\ Steady(platform)
  BY DEF Return, AInv
<1>2. Ordered' /\ AllQuiet(todo') /\ Succeeds' /\ Lacks(todo', {"CheckRemainder"})
  BY <1>1, OrderedEnd
<1>3. Calm
  BY <1>1, CalmHere
<1>4. Standing' /\ Same
  BY <1>2, <1>3, CalmStays
<1> QED
  BY <1>1, <1>2, <1>4 DEF AInv, Shape

LEMMA SetIs ==
  ASSUME IInv, NEW a \in Areas, NEW b \in 1..2, NEW c, SetBlock(a, b, c)
  PROVE  /\ \A x \in Areas : x # a => flash'[x] = flash[x]
         /\ flash'[a][b] = c /\ \A y \in 1..2 : y # b => flash'[a][y] = flash[a][y]
<1>1. flash \in [Areas -> Images(platform)]
  BY DEF IInv, Stored, Flashes
<1>2. flash[a] \in [1..2 -> GoodBlocks(platform)]
  BY <1>1 DEF Images
<1>3. flash' = [flash EXCEPT ![a][b] = c]
  BY DEF SetBlock
<1>4. \A x \in Areas : x # a => flash'[x] = flash[x]
  BY <1>1, <1>3
<1>5. flash'[a] = [flash[a] EXCEPT ![b] = c]
  BY <1>1, <1>3
<1>6. flash'[a][b] = c /\ \A y \in 1..2 : y # b => flash'[a][y] = flash[a][y]
  BY <1>2, <1>5
<1> QED
  BY <1>4, <1>6

\* Only the spare block is written.
LEMMA SpareSet ==
  ASSUME IInv, Steady(platform), NEW b \in 1..2, NEW c, SetBlock("spare", b, c)
  PROVE  flash'["work"] = flash["work"] /\ TargetsSame
<1>1. "spare" \in Areas /\ "work" \in Areas /\ "work" # "spare"
  BY AreasAre
<1>2. \A x \in Areas : x # "spare" => flash'[x] = flash[x]
  BY <1>1, SetIs
<1>3. \A t \in platform.writable : t \in Areas /\ t # "spare"
  BY WritableIs
<1> QED
  BY <1>1, <1>2, <1>3 DEF TargetsSame

LEMMA WorkSet ==
  ASSUME IInv, Steady(platform), NEW b \in 1..2, NEW c, SetBlock("work", b, c)
  PROVE  flash'["spare"] = flash["spare"] /\ TargetsSame
<1>1. "spare" \in Areas /\ "work" \in Areas /\ "work" # "spare"
  BY AreasAre
<1>2. \A x \in Areas : x # "work" => flash'[x] = flash[x]
  BY <1>1, SetIs
<1>3. \A t \in platform.writable : t \in Areas /\ t # "work"
  BY WritableIs
<1> QED
  BY <1>1, <1>2, <1>3 DEF TargetsSame

LEMMA BlockOf ==
  ASSUME IInv, todo # <<>>, Head(todo).do \in Writers
  PROVE  /\ Head(todo).block \in 1..2 /\ Head(todo).area \in Areas
         /\ Head(todo).do = "Restore" => Head(todo).area = "spare"
<1>1. Head(todo) \in Steps(request.op)
  BY HeadIs
<1> QED
  BY <1>1 DEF Steps

LEMMA QuietWriter ==
  ASSUME IInv, AInv, AllQuiet(todo), Erase \/ Restore
  PROVE  AInv' /\ Same
<1>1. /\ todo # <<>> /\ Head(todo).do \in {"Erase", "Restore"} /\ GoOn /\ platform' = platform
      /\ \E c : SetBlock(Head(todo).area, Head(todo).block, c)
  BY DEF Erase, Restore, At, counters
<1>2. Quiet(Head(todo))
  BY <1>1, PlanIs, QuietTail
<1>3. Head(todo).area = "spare" /\ Head(todo).block \in 1..2
  BY <1>1, <1>2, BlockOf DEF Quiet, QuietNames, Writers
<1>4. Steady(platform)
  BY DEF AInv
<1>5. flash'["work"] = flash["work"] /\ TargetsSame
  BY <1>1, <1>3, <1>4, SpareSet
<1>6. Calm
  BY <1>1, CalmHere DEF Recovering
<1> QED
  BY <1>1, <1>5, <1>6, CalmGoes

LEMMA QuietNeedHeader ==
  ASSUME IInv, AInv, AllQuiet(todo), NeedHeader
  PROVE  AInv' /\ Same
<1>1. todo # <<>> /\ Head(todo).do = "NeedHeader" /\ platform' = platform /\ flash' = flash
  BY DEF NeedHeader, At, counters
<1>2. GoOn \/ Return("not_ready") \/ Insert(FtwAllocate)
  BY DEF NeedHeader
<1>3. Calm
  BY <1>1, CalmHere DEF Recovering
<1>4. request.op = "write"
  <2>1. Head(todo) \in Steps(request.op)
    BY <1>1, HeadIs
  <2> QED
    BY <1>1, <2>1 DEF Steps
<1>5. CASE GoOn
  BY <1>1, <1>3, <1>5, CalmGoes DEF TargetsSame
<1>6. CASE Return("not_ready")
  BY <1>1, <1>6, CalmReturns
<1>7. CASE Insert(FtwAllocate)
  BY <1>1, <1>3, <1>4, <1>7, LookUpsAre, CalmPuts
<1> QED
  BY <1>2, <1>5, <1>6, <1>7

LEMMA HeaderSteps ==
  ASSUME NEW op \in {"allocate", "write"}, NEW s, s = <<Step("WriteHeader"), Step("WritesAllocated")>>
  PROVE  s \in Seq(Steps(op)) /\ Adds(s) /\ Lacks(s, {"Success"}) /\ AllQuiet(s)
<1> DEFINE a == Step("WriteHeader")
           b == Step("WritesAllocated")
<1>1. a \in Steps(op) /\ b \in Steps(op)
  BY ServiceStep
<1>2. a.do = "WriteHeader" /\ b.do = "WritesAllocated"
  BY DoIs
<1>3. s = <<a, b>>
  OBVIOUS
<1> HIDE DEF a, b
<1>4. Inner(<<a, b>>) /\ <<a, b>> \in Seq(Steps(op))
  BY <1>1, <1>2, InnerTwo DEF BootNames, LookNames
<1>5. AllQuiet(<<a, b>>)
  BY <1>2 DEF AllQuiet, Quiet, QuietNames
<1> QED
  BY <1>3, <1>4, <1>5 DEF Inner

LEMMA QuietAllocateHeader ==
  ASSUME IInv, AInv, RoomForHeader, AllQuiet(todo), AllocateHeader
  PROVE  AInv' /\ Same
<1>1. todo # <<>> /\ Head(todo).do = "AllocateHeader" /\ platform' = platform /\ flash' = flash
  BY DEF AllocateHeader, At, counters
<1>2. Calm
  BY <1>1, CalmHere DEF Recovering
<1>3. request.op \in {"allocate", "write"}
  <2>1. Head(todo) \in Steps(request.op)
    BY <1>1, HeadIs
  <2> QED
    BY <1>1, <2>1 DEF Steps
<1>4. CASE TotalSize(request.writes) > QueueSize
  <2>1. Return("buffer_too_small")
    BY <1>4 DEF AllocateHeader
  <2> QED
    BY <1>1, <2>1, CalmReturns
<1>5. CASE ~(TotalSize(request.writes) > QueueSize) /\ Allocated(Queue("work"), header)
  <2>1. Return("access_denied")
    BY <1>5 DEF AllocateHeader
  <2> QED
    BY <1>1, <2>1, CalmReturns
<1>6. CASE ~(TotalSize(request.writes) > QueueSize) /\ ~Allocated(Queue("work"), header)
  <2> DEFINE s == <<Step("WriteHeader"), Step("WritesAllocated")>>
  <2>1. header + TotalSize(request.writes) - 1 <= QueueSize
    <3>1. QueueSize \in Nat /\ TotalSize(request.writes) \in Nat /\ header \in Nat
      <4>1. request.writes \in Nat
        BY <1>3, WritesAre
      <4> QED
        BY <4>1, WorkIs DEF TotalSize, IInv, Pointed
    <3>2. TotalSize(request.writes) <= QueueSize
      BY <1>6, <3>1
    <3> QED
      BY <1>1, <1>6, <3>2 DEF RoomForHeader, At
  <2>2. ~(header + TotalSize(request.writes) - 1 > QueueSize)
    <3>1. QueueSize \in Nat /\ TotalSize(request.writes) \in Nat /\ header \in Nat
      <4>1. request.writes \in Nat
        BY <1>3, WritesAre
      <4> QED
        BY <4>1, WorkIs DEF TotalSize, IInv, Pointed
    <3> QED
      BY <2>1, <3>1
  <2>3. Insert(<<>> \o s)
    BY <1>6, <2>2 DEF AllocateHeader
  <2>4. s \in Seq(Steps(request.op)) /\ Adds(s) /\ Lacks(s, {"Success"}) /\ AllQuiet(s)
    BY <1>3, HeaderSteps
  <2> HIDE DEF s
  <2>5. <<>> \o s = s
    BY <2>4
  <2> QED
    BY <1>1, <1>2, <2>3, <2>4, <2>5, CalmPuts
<1> QED
  BY <1>4, <1>5, <1>6

LEMMA QuietLastWrite ==
  ASSUME IInv, AInv, AllQuiet(todo), LastWrite
  PROVE  AInv' /\ Same
<1>1. todo # <<>> /\ Head(todo).do = "LastWrite" /\ platform' = platform /\ flash' = flash
  BY DEF LastWrite, At, counters
<1>2. (\E s : Return(s)) \/ Insert(FtwAbort \o <<Step("NotFound")>>)
  BY DEF LastWrite
<1>3. Calm
  BY <1>1, CalmHere DEF Recovering
<1>4. CASE \E s : Return(s)
  BY <1>1, <1>4, CalmReturns
<1>5. CASE Insert(FtwAbort \o <<Step("NotFound")>>)
  BY <1>1, <1>3, <1>5, GiveUpIs, CalmPuts
<1> QED
  BY <1>2, <1>4, <1>5

LEMMA QuietReturn ==
  ASSUME IInv, AInv, AllQuiet(todo), NotFound \/ Success
  PROVE  AInv' /\ Same
BY CalmReturns DEF NotFound, Success, counters

LEMMA QuietHookServices ==
  ASSUME IInv, AInv, AllQuiet(todo), HookServices
  PROVE  AInv' /\ Same
<1>1. /\ todo # <<>> /\ Head(todo).do = "HookServices" /\ platform' = platform /\ flash' = flash
      /\ todo' = <<>> /\ request' = request /\ up'
  BY DEF HookServices, At, counters
<1>2. Calm /\ Steady(platform)
  BY <1>1, CalmHere DEF Recovering, AInv
<1>3. request.op = "none"
  <2>1. ~Lacks(todo, BootNames)
    <3>1. todo \in Seq(Steps(request.op))
      BY PlanIs
    <3> QED
      BY <1>1, <3>1, QuietTail DEF BootNames
  <2> QED
    BY <2>1 DEF AInv, Ordered, IInv, Placed
<1>4. AllQuiet(todo') /\ (\A N : Lacks(todo', N)) /\ Seeks(todo')
  BY <1>1 DEF AllQuiet, Lacks, Seeks
<1>5. Ordered' /\ Succeeds'
  BY <1>1, <1>3, <1>4 DEF Ordered, Succeeds
<1>6. Standing' /\ Same
  BY <1>1, <1>2, <1>4, CalmStays
<1> QED
  BY <1>1, <1>2, <1>4, <1>5, <1>6 DEF AInv, Shape

\* The queue in the working block is written; the bits of its header stay.
LEMMA QueueValid ==
  ASSUME IInv, IsValid, NEW q \in GoodQueues(platform),
         SetBlock("work", 2, [Space("work") EXCEPT !.queue = q])
  PROVE  IsValid'
<1> DEFINE s == Space("work")
           c == [s EXCEPT !.queue = q]
<1>1. "work" \in Areas /\ 2 \in 1..2
  BY AreasAre
<1>2. flash'["work"][2] = c
  BY <1>1, SetIs
<1>3. s = flash["work"][2] /\ s.kind = "space" /\ s.formatted /\ s.valid /\ ~s.invalid
  BY DEF IsValid, IsValidWorkSpace, Space, AsSpace
<1>4. s \in GoodSpaces(platform)
  BY <1>1, SpaceIs
<1> HIDE DEF s
<1>5. c.kind = s.kind /\ c.formatted = s.formatted /\ c.valid = s.valid /\ c.invalid = s.invalid
  BY <1>4 DEF GoodSpaces
<1> HIDE DEF c
<1> QED
  BY <1>2, <1>3, <1>5 DEF IsValid, IsValidWorkSpace

LEMMA CellValid ==
  ASSUME IInv, Steady(platform), NEW c, NEW cell, SetCell("work", c, cell), platform' = platform,
         NEW q \in GoodQueues(platform), q = [WorkQueue EXCEPT ![c] = cell],
         buffer' = buffer, spareBuffer' = spareBuffer
  PROVE  /\ IsValid => IsValid'
         /\ WorkQueue' = q /\ Length' = Length /\ TargetsSame /\ flash'["spare"] = flash["spare"]
<1>1. SetBlock("work", 2, [Space("work") EXCEPT !.queue = q])
  BY CellWritten DEF WorkQueue
<1>2. "work" \in Areas /\ 2 \in 1..2
  BY AreasAre
<1>3. Queue("work")' = q
  BY <1>1, <1>2, QueueWritten
<1>4. TargetsSame /\ flash'["spare"] = flash["spare"]
  BY <1>1, <1>2, WorkSet
<1>5. IsValid => IsValid'
  BY <1>1, QueueValid
<1> QED
  BY <1>3, <1>4, <1>5 DEF WorkQueue, Length

LEMMA BitValid ==
  ASSUME IInv, Steady(platform), NEW c \in 1..Length, NEW bit \in Bits, SetBit("work", c, bit),
         platform' = platform, buffer' = buffer, spareBuffer' = spareBuffer
  PROVE  /\ IsValid => IsValid'
         /\ WorkQueue' = Marked(WorkQueue, c, bit) /\ Length' = Length /\ TargetsSame
         /\ flash'["spare"] = flash["spare"]
<1> DEFINE q == Marked(WorkQueue, c, bit)
<1>1. q \in GoodQueues(platform)
  <2>1. q \in Queues(Length, HeaderWrites(platform), RecordTargets(platform)) /\ InOrder(q, Length)
    <3> HIDE DEF q
    <3>1. q = Marked(WorkQueue, c, bit)
      BY DEF q
    <3> QED
      BY <3>1, WorkIs, MarkOpen
  <2> QED
    BY <2>1 DEF GoodQueues, Length
<1>2. SetCell("work", c, WithBit(WorkQueue[c], bit))
  BY DEF SetBit, WithBit, WorkQueue, Queue
<1>3. q = [WorkQueue EXCEPT ![c] = WithBit(WorkQueue[c], bit)]
  BY DEF Marked
<1> HIDE DEF q
<1>4. /\ IsValid => IsValid'
      /\ WorkQueue' = q /\ Length' = Length /\ TargetsSame /\ flash'["spare"] = flash["spare"]
  BY <1>1, <1>2, <1>3, CellValid
<1> QED
  BY <1>4 DEF q

\* Services run when the boot is over.
LEMMA InService ==
  ASSUME IInv, AInv, request.op # "none"
  PROVE  up /\ Lacks(todo, {"CheckRemainder"}) /\ Lacks(Tail(todo), {"CheckRemainder"})
<1>1. up
  BY DEF AInv, Ordered, IInv, Placed
<1>2. Lacks(todo, BootNames)
  BY <1>1 DEF AInv, Ordered
<1>3. Lacks(todo, {"CheckRemainder"})
  BY <1>2 DEF Lacks, BootNames
<1>4. todo # <<>> => Lacks(Tail(todo), {"CheckRemainder"})
  BY <1>3, PlanIs, QuietTail
<1>5. todo = <<>> => Lacks(Tail(todo), {"CheckRemainder"})
  BY DEF Lacks
<1> QED
  BY <1>1, <1>3, <1>4, <1>5

LEMMA FreshFound ==
  ASSUME IInv, Fresh
  PROVE  /\ LastHeader(WorkQueue, Length) = header /\ LastRecord(WorkQueue, Length, header) = record
         /\ Last(WorkQueue, Length) = record /\ LastCellOf = WorkQueue[record]
         /\ header \in 1..(Length - 1) /\ header \in 1..Length /\ record \in 1..Length
         /\ record \in (header + 1)..Length
         /\ IsOpen <=> Allocated(WorkQueue, header)
<1>1. /\ LastHeader(WorkQueue, Length) = header /\ LastRecord(WorkQueue, Length, header) = record
      /\ header \in 1..(Length - 1) /\ header \in 1..Length /\ record \in 1..Length
  BY FreshIs DEF WorkQueue, Length
<1>2. record \in (header + 1)..Length
  BY DEF IInv, Pointed, Length
<1> QED
  BY <1>1, <1>2 DEF Last, LastCellOf, IsOpen, Open

LEMMA QuietWriteHeader ==
  ASSUME IInv, AInv, AllQuiet(todo), AllocateWriteHeader
  PROVE  AInv' /\ Same
<1> DEFINE w == request.writes
           r == [WorkQueue EXCEPT ![header] = WriteHeader(w)]
<1>1. /\ todo # <<>> /\ Head(todo).do = "WriteHeader" /\ SetCell("work", offset, WriteHeader(w))
      /\ GoOn /\ platform' = platform /\ buffer' = buffer /\ spareBuffer' = spareBuffer
  BY DEF AllocateWriteHeader, At, volatile, counters
<1>2. Head(todo) \in Steps(request.op) /\ Looked(Head(todo))
  BY <1>1, HeadIs
<1>3. /\ Fresh /\ offset = header /\ ~Allocated(WorkQueue, header) /\ header + w <= Length
      /\ request.op \in {"allocate", "write"}
  BY <1>1, <1>2 DEF Looked, Steps, WorkQueue, Length
<1>4. w \in HeaderWrites(platform) /\ w \in Nat /\ w # 0
  BY <1>3, WritesAre
<1>5. Steady(platform) /\ Calm
  BY <1>1, CalmHere DEF AInv, Recovering
<1>6. LastHeader(WorkQueue, Length) = header /\ header \in 1..Length
  BY <1>3, FreshFound
<1>7. /\ r \in Queues(Length, HeaderWrites(platform), RecordTargets(platform)) /\ InOrder(r, Length)
      /\ LastHeader(r, Length) = header
      /\ r[header].writes = w /\ Untouched(r, Length, header) /\ LastRecord(r, Length, header) = header + 1
  <2>1. /\ Length \in Nat /\ HeaderWrites(platform) \in SUBSET Counts
        /\ WorkQueue \in Queues(Length, HeaderWrites(platform), RecordTargets(platform))
        /\ InOrder(WorkQueue, Length)
    BY WorkIs
  <2> HIDE DEF w
  <2> QED
    BY <1>3, <1>4, <1>6, <2>1, HeaderWritten
<1> HIDE DEF w
<1>8. ~Spared(r, Length) /\ ~Waiting(r, Length)
  <2>1. r = r
    OBVIOUS
  <2> HIDE DEF r
  <2> QED
    BY <1>4, <1>6, <1>7, WorkIs, HeaderOpen
<1>9. r \in GoodQueues(platform)
  BY <1>7 DEF GoodQueues, Length
<1>10. /\ IsValid => IsValid'
       /\ WorkQueue' = r /\ Length' = Length /\ TargetsSame
  <2>1. SetCell("work", header, WriteHeader(w))
    BY <1>1, <1>3 DEF w
  <2> QED
    BY <1>1, <1>5, <1>9, <2>1, CellValid
<1> HIDE DEF r
<1>11. Lacks(todo', {"CheckRemainder"})
  BY <1>1, <1>3, InService DEF GoOn
<1>12. Calm'
  <2>1. ~IsSpared' /\ ~IsWaiting'
    BY <1>8, <1>10 DEF IsSpared, IsWaiting
  <2>2. \A t \in platform'.writable : Even(flash'[t])
    BY <1>1, <1>5, <1>10 DEF TargetsSame, Calm
  <2> QED
    BY <1>5, <1>10, <1>11, <2>1, <2>2 DEF Calm
<1> QED
  BY <1>1, <1>5, <1>10, <1>12, CalmWrites

\* A bit of a header, of one that is not the last or one about its writes.
LEMMA CalmMarks ==
  ASSUME IInv, AInv, AllQuiet(todo), Calm, todo # <<>>, GoOn, platform' = platform,
         Head(todo).do \in {"complete", "WritesAllocated"},
         NEW c \in 1..Length, NEW bit \in {"complete", "writesAllocated"}, SetBit("work", c, bit),
         buffer' = buffer, spareBuffer' = spareBuffer
  PROVE  AInv' /\ Same
<1> DEFINE r == Marked(WorkQueue, c, bit)
<1>1. Steady(platform) /\ bit \in Bits
  BY DEF AInv, Bits
<1>2. /\ IsValid => IsValid'
      /\ WorkQueue' = r /\ Length' = Length /\ TargetsSame
  BY <1>1, BitValid
<1>3. r = Marked(WorkQueue, c, bit)
  OBVIOUS
<1> HIDE DEF r
<1>4. Lacks(todo, {"CheckRemainder"}) => Lacks(todo', {"CheckRemainder"})
  BY PlanIs, QuietTail DEF GoOn
<1>5. CASE ~Open(r, Length)
  <2>1. ~IsOpen' /\ IsValid' /\ ~IsSpared
    BY <1>2, <1>5 DEF IsOpen, Calm
  <2> QED
    BY <1>2, <2>1, ClosedGoes
<1>6. CASE Open(r, Length)
  <2>1. /\ Open(WorkQueue, Length) /\ Last(r, Length) = Last(WorkQueue, Length)
        /\ Spared(r, Length) <=> Spared(WorkQueue, Length)
        /\ Waiting(r, Length) <=> Waiting(WorkQueue, Length)
        /\ Waiting(r, Length) => r[Last(r, Length)].target = WorkQueue[Last(WorkQueue, Length)].target
    <3>1. /\ Length \in Nat /\ HeaderWrites(platform) \in SUBSET Counts
          /\ WorkQueue \in Queues(Length, HeaderWrites(platform), RecordTargets(platform))
          /\ InOrder(WorkQueue, Length)
      BY WorkIs
    <3> QED
      BY <1>3, <1>6, <3>1, MarkElsewhere
  <2>2. /\ IsOpen /\ (IsSpared' <=> IsSpared) /\ (IsWaiting' <=> IsWaiting)
        /\ IsWaiting' => LastCellOf'.target = LastCellOf.target
    BY <1>2, <2>1 DEF IsOpen, IsSpared, IsWaiting, LastCellOf
  <2>3. \A t \in platform'.writable : Even(flash'[t])
    BY <1>2 DEF TargetsSame, Calm
  <2>4. Calm'
    BY <1>2, <1>4, <2>2, <2>3 DEF Calm
  <2> QED
    BY <1>2, <2>4, CalmWrites
<1> QED
  BY <1>5, <1>6

LEMMA QuietWritesAllocated ==
  ASSUME IInv, AInv, AllQuiet(todo), MarkWritesAllocated
  PROVE  AInv' /\ Same
<1>1. /\ todo # <<>> /\ Head(todo).do = "WritesAllocated" /\ SetBit("work", offset, "writesAllocated")
      /\ GoOn /\ platform' = platform /\ buffer' = buffer /\ spareBuffer' = spareBuffer
  BY DEF MarkWritesAllocated, At, volatile, counters
<1>2. offset \in 1..Length
  BY DEF IInv, Pointed, Length
<1>3. Calm
  BY <1>1, CalmHere DEF Recovering
<1> QED
  BY <1>1, <1>2, <1>3, CalmMarks

LEMMA QuietComplete ==
  ASSUME IInv, AInv, AllQuiet(todo), MarkComplete
  PROVE  AInv' /\ Same
<1>1. /\ todo # <<>> /\ Head(todo).do = "complete" /\ SetBit("work", header, "complete") /\ At("complete")
      /\ GoOn /\ platform' = platform /\ buffer' = buffer /\ spareBuffer' = spareBuffer
  BY DEF MarkComplete, At, volatile, counters
<1>2. header \in 1..Length
  BY WorkIs DEF IInv, Pointed, Length
<1>3. (\A m \in 1..8 : ~InBoot(m)) /\ ~InRestart /\ ~InAbort
  <2>1. Places("complete")
    BY <1>1, PlacesAre
  <2>2. \A k : ~BootAt(k)
    BY <2>1, BootHead, BootNumber DEF Places
  <2>3. \A k : ~RestartAt(k) /\ ~AbortAt(k)
    BY <2>1, RestartHead, AbortHead, LookNumber DEF Places
  <2> QED
    BY <2>2, <2>3 DEF InBoot, InRestart, InAbort
<1>4. (\A a, b : ~InWrite(a, b)) /\ ~InMove
  BY QuietHere
<1>5. IsValid /\ ~IsSpared
  BY <1>3, <1>4 DEF AInv, Standing, Shelved, SpareKept
<1>6. CASE CompleteAt
  <2> DEFINE r == Marked(WorkQueue, header, "complete")
  <2>1. header = LastHeader(WorkQueue, Length)
    BY <1>6 DEF CompleteAt
  <2>2. Steady(platform) /\ "complete" \in Bits
    BY DEF AInv, Bits
  <2>3. IsValid' /\ WorkQueue' = r /\ Length' = Length /\ TargetsSame
    BY <1>1, <1>2, <1>5, <2>2, BitValid
  <2>4. r = Marked(WorkQueue, header, "complete")
    OBVIOUS
  <2> HIDE DEF r
  <2>5. ~Open(r, Length)
    BY <1>2, <2>1, <2>2, <2>4, WorkIs, MarkOpen
  <2>6. ~IsOpen'
    BY <2>3, <2>5 DEF IsOpen
  <2> QED
    BY <1>1, <1>5, <2>3, <2>6, ClosedGoes
<1>7. CASE ~CompleteAt
  <2>1. IsOpen => Lacks(todo, {"CheckRemainder"})
    BY <1>3, <1>7 DEF AInv, Standing, Remains
  <2>2. IsWaiting => OneWritable(platform)
    BY <1>3, <1>4, <1>5, <1>7, OpenWaits DEF AInv, Standing, Left
  <2>3. Calm
    BY <1>5, <2>1, <2>2, CalmIf
  <2> QED
    BY <1>1, <1>2, <2>3, CalmMarks
<1> QED
  BY <1>6, <1>7

-----------------------------------------------------------------------------
(***************************************************************************)
(* Steps of the recovery that leave the flash as it is.                    *)
(***************************************************************************)
\* What stands when a step in memory leads to places where it may.
LEMMA StandsIn ==
  ASSUME AInv, flash' = flash, platform' = platform,
         ~IsValid => InMove' \/ InBoot(3)',
         IsSpared => InWrite(8, 13)' \/ InBoot(7)' \/ InRestart',
         IsOpen /\ ~Lacks(todo', {"CheckRemainder"}) => InBoot(6)' \/ InAbort' \/ CompleteAt',
         IsWaiting => \/ OneWritable(platform) \/ SpareDone(WorkQueue, Last(WorkQueue, Length))
                      \/ InWrite(2, 7)' \/ InBoot(4)' \/ InAbort' \/ CompleteAt'
  PROVE  Standing' /\ Same
<1>1. /\ Length' = Length /\ WorkQueue' = WorkQueue
      /\ IsValid' <=> IsValid
      /\ IsOpen' <=> IsOpen
      /\ IsSpared' <=> IsSpared
      /\ IsWaiting' <=> IsWaiting
      /\ LastCellOf' = LastCellOf
      /\ SpareDone(WorkQueue, Last(WorkQueue, Length))' <=> SpareDone(WorkQueue, Last(WorkQueue, Length))
  BY WorkSame
<1>2. Queue("spare")' = Queue("spare")
  BY SpareSame
<1>3. Shelved'
  BY <1>1, <1>2 DEF AInv, Standing, Shelved
<1>4. SpareKept'
  BY <1>1 DEF AInv, Standing, SpareKept
<1>5. TargetsWhole'
  BY <1>1 DEF AInv, Standing, TargetsWhole
<1>6. Remains'
  BY <1>1 DEF Remains
<1>7. Left'
  BY <1>1 DEF AInv, Standing, Left
<1>8. Same
  BY <1>1 DEF Same, Held
<1> QED
  BY <1>3, <1>4, <1>5, <1>6, <1>7, <1>8 DEF Standing

LEMMA BootNext ==
  ASSUME IInv, NEW k \in 1..7, BootAt(k), GoOn, k >= 2 => Fresh'
  PROVE  BootAt(k + 1)'
<1>1. todo \in Seq(Steps(request.op)) /\ todo # <<>>
  BY PlanIs, BootHead
<1>2. On(todo, BootSteps, 8, k) /\ AllQuiet(todo) /\ Len(todo) = 9 - k /\ ~up
  BY DEF BootAt
<1>3. todo' = Tail(todo) /\ up' = up
  BY DEF GoOn
<1>4. On(todo', BootSteps, 8, k + 1)
  BY <1>1, <1>2, <1>3, OnTail
<1>5. AllQuiet(todo') /\ Len(todo') = Len(todo) - 1
  BY <1>1, <1>2, <1>3, QuietTail, TailIs
<1>6. Len(todo') = 9 - (k + 1)
  BY <1>2, <1>5
<1> QED
  BY <1>2, <1>3, <1>4, <1>5, <1>6 DEF BootAt

LEMMA RestartNext ==
  ASSUME IInv, NEW k \in 1..2, RestartAt(k), GoOn, k >= 2 => Fresh'
  PROVE  RestartAt(k + 1)'
<1>1. todo \in Seq(Steps(request.op)) /\ todo # <<>>
  BY PlanIs, RestartHead
<1>2. On(todo, RestartSteps, 3, k) /\ AllQuiet(todo) /\ ~up
  BY DEF RestartAt
<1>3. todo' = Tail(todo) /\ up' = up
  BY DEF GoOn
<1>4. On(todo', RestartSteps, 3, k + 1)
  BY <1>1, <1>2, <1>3, OnTail
<1>5. AllQuiet(todo')
  BY <1>1, <1>2, <1>3, QuietTail
<1> QED
  BY <1>2, <1>3, <1>4, <1>5 DEF RestartAt

LEMMA AbortNext ==
  ASSUME IInv, NEW k \in 1..2, AbortAt(k), GoOn, k >= 2 => Fresh'
  PROVE  AbortAt(k + 1)'
<1>1. todo \in Seq(Steps(request.op)) /\ todo # <<>>
  BY PlanIs, AbortHead
<1>2. On(todo, AbortSteps, 3, k) /\ AllQuiet(todo) /\ ~up
  BY DEF AbortAt
<1>3. todo' = Tail(todo) /\ up' = up
  BY DEF GoOn
<1>4. On(todo', AbortSteps, 3, k + 1)
  BY <1>1, <1>2, <1>3, OnTail
<1>5. AllQuiet(todo')
  BY <1>1, <1>2, <1>3, QuietTail
<1> QED
  BY <1>2, <1>3, <1>4, <1>5 DEF AbortAt

\* The first two steps of the boot, of a restart and of an abortion.
LEMMA LooksOn ==
  ASSUME IInv, AInv, AllQuiet(todo), NEW j \in 1..2, NEW name,
         name = IF j = 1 THEN "ReclaimWhenFull" ELSE "FindLastWrite", At(name), GoOn,
         flash' = flash, platform' = platform, j = 2 => Fresh'
  PROVE  AInv' /\ Same
<1>1. todo # <<>> /\ Head(todo).do = name
  BY DEF At
<1>2. Places(name)
  BY PlacesAre
<1>3. \A k : BootAt(k) => k = j
  BY <1>2, BootHead, BootNumber DEF Places
<1>4. \A k : (RestartAt(k) => k = j) /\ (AbortAt(k) => k = j)
  BY <1>2, RestartHead, AbortHead, LookNumber DEF Places
<1>5. ~CompleteAt
  BY <1>2 DEF Places
<1>6. \A a, b : ~InWrite(a, b)
  BY QuietHere
<1>60. ~InMove
  BY QuietHere
<1>7. \A m \in 3..8 : InBoot(m) => InBoot(m)'
  <2> SUFFICES ASSUME NEW m \in 3..8, InBoot(m) PROVE InBoot(m)'
    OBVIOUS
  <2>1. BootAt(j)
    BY <1>3 DEF InBoot
  <2>2. BootAt(j + 1)'
    BY <2>1, BootNext
  <2>3. j + 1 \in 1..m
    OBVIOUS
  <2> QED
    BY <2>2, <2>3 DEF InBoot
<1>8. InRestart => InRestart'
  <2> SUFFICES ASSUME InRestart PROVE InRestart'
    OBVIOUS
  <2>1. RestartAt(j)
    BY <1>4 DEF InRestart
  <2>2. RestartAt(j + 1)'
    BY <2>1, RestartNext
  <2>3. j + 1 \in 1..3
    OBVIOUS
  <2> QED
    BY <2>2, <2>3 DEF InRestart
<1>9. InAbort => InAbort'
  <2> SUFFICES ASSUME InAbort PROVE InAbort'
    OBVIOUS
  <2>1. AbortAt(j)
    BY <1>4 DEF InAbort
  <2>2. AbortAt(j + 1)'
    BY <2>1, AbortNext
  <2>3. j + 1 \in 1..3
    OBVIOUS
  <2> QED
    BY <2>2, <2>3 DEF InAbort
<1>10. Lacks(todo, {"CheckRemainder"}) => Lacks(todo', {"CheckRemainder"})
  BY <1>1, PlanIs, QuietTail DEF GoOn
<1>11. ~IsValid => InBoot(3)'
  BY <1>60, <1>7 DEF AInv, Standing, Shelved
<1>12. IsSpared => InBoot(7)' \/ InRestart'
  BY <1>6, <1>7, <1>8 DEF AInv, Standing, SpareKept
<1>13. IsOpen /\ ~Lacks(todo', {"CheckRemainder"}) => InBoot(6)' \/ InAbort'
  BY <1>5, <1>7, <1>9, <1>10 DEF AInv, Standing, Remains
<1>14. IsWaiting => \/ OneWritable(platform) \/ SpareDone(WorkQueue, Last(WorkQueue, Length))
                    \/ InBoot(4)' \/ InAbort'
  BY <1>5, <1>6, <1>7, <1>9 DEF AInv, Standing, Left
<1>15. Standing' /\ Same
  BY <1>11, <1>12, <1>13, <1>14, StandsIn
<1>16. Head(todo).do \notin {"CheckRecord", "Success"} /\ (Head(todo).do = "FindLastWrite" => Fresh')
  BY <1>1
<1>17. TargetsSame
  BY DEF TargetsSame
<1> QED
  BY <1>1, <1>15, <1>16, <1>17, GoneOnQuietly

\* A reclaim begins when nothing is open.
LEMMA Reclaims ==
  ASSUME IInv, AInv, AllQuiet(todo), todo # <<>>, NEW clean \in Cleans,
         Insert(FtwReclaimWorkSpace(clean)), flash' = flash, platform' = platform, ~IsOpen,
         Head(todo).do \notin {"CheckRecord", "Success", "FindLastWrite"}
  PROVE  AInv' /\ Same
<1> DEFINE s == FtwReclaimWorkSpace(clean)
<1>1. On(s, MoveSteps(clean), 15, 1) /\ Adds(s) /\ Lacks(s, {"Success"}) /\ s \in Seq(Steps(request.op))
  BY ReclaimOn DEF Going, Inner
<1> HIDE DEF s
<1>2. Insert(s)
  BY DEF s
<1>3. TargetsSame
  BY DEF TargetsSame
<1>4. Ordered' /\ Succeeds' /\ Steady(platform')
  BY <1>1, <1>2, <1>3, PutOrdered
<1>5. todo \in Seq(Steps(request.op)) /\ Tail(todo) \in Seq(Steps(request.op)) /\ AllQuiet(Tail(todo))
      /\ todo' = s \o Tail(todo)
  BY <1>2, PlanIs, QuietTail DEF Insert
<1>6. On(todo', MoveSteps(clean), 15, 1)
  BY <1>1, <1>5, OnQuiet
<1>7. ~IsOpen' /\ (IsValid' <=> IsValid) /\ Length' = Length
  BY WorkSame
<1>8. MoveAt(1)'
  BY <1>6, <1>7 DEF MoveAt
<1>9. InMove'
  BY <1>8 DEF InMove
<1>10. ~IsSpared
  BY OpenWaits
<1>11. Queue("spare")' = Queue("spare")
  BY SpareSame
<1>12. Shelved'
  BY <1>7, <1>9, <1>11 DEF AInv, Standing, Shelved
<1>13. Standing' /\ Same
  BY <1>7, <1>10, <1>12, ClosedStands
<1> QED
  BY <1>4, <1>9, <1>13 DEF AInv, Shape

LEMMA QuietReclaimWhenFull ==
  ASSUME IInv, AInv, AllQuiet(todo), ReclaimWhenFull
  PROVE  AInv' /\ Same
<1>1. todo # <<>> /\ Head(todo).do = "ReclaimWhenFull" /\ flash' = flash /\ platform' = platform /\ At("ReclaimWhenFull")
  BY DEF ReclaimWhenFull, At, counters
<1>2. CASE Full(Queue("work"))
  <2>1. Insert(FtwReclaimWorkSpace("CleanUp"))
    BY <1>2 DEF ReclaimWhenFull
  <2>2. ~IsOpen
    <3>1. LastHeader(WorkQueue, Length) + TotalSize(1) - 1 > Length
      BY <1>2, SizesAre, WorkIs DEF Full, WorkQueue, Length
    <3>2. IsOpen => LastHeader(WorkQueue, Length) \in 1..(Length - 1)
      <4>1. IsOpen => OpenRanges(WorkQueue, Length)
        <5>1. /\ Length \in Nat /\ HeaderWrites(platform) \in SUBSET Counts
              /\ WorkQueue \in Queues(Length, HeaderWrites(platform), RecordTargets(platform))
              /\ InOrder(WorkQueue, Length)
          BY WorkIs
        <5> QED
          BY <5>1, OpenIs DEF IsOpen
      <4> QED
        BY <4>1 DEF OpenRanges
    <3>3. Length \in Nat
      BY WorkIs
    <3> QED
      BY <3>1, <3>2, <3>3 DEF TotalSize
  <2>3. "CleanUp" \in Cleans
    BY DEF Cleans
  <2> QED
    BY <1>1, <2>1, <2>2, <2>3, Reclaims
<1>3. CASE ~Full(Queue("work"))
  <2>1. GoOn
    BY <1>3 DEF ReclaimWhenFull
  <2>2. 1 \in 1..2
    OBVIOUS
  <2> QED
    BY <1>1, <2>1, <2>2, LooksOn
<1> QED
  BY <1>2, <1>3

LEMMA QuietFindLastWrite ==
  ASSUME IInv, AInv, AllQuiet(todo), FindLastWrite
  PROVE  AInv' /\ Same
<1>1. /\ flash' = flash /\ platform' = platform /\ At("FindLastWrite") /\ GoOn
      /\ header' = FtwGetLastWriteHeader(Queue("work"))
      /\ record' = FtwGetLastWriteRecord(Queue("work"), header')
  BY DEF FindLastWrite, counters
<1>2. Length' = Length /\ WorkQueue' = WorkQueue
  BY <1>1, WorkSame
<1>3. header' = LastHeader(WorkQueue, Length) /\ record' = LastRecord(WorkQueue, Length, header')
  BY <1>1, SizesAre DEF WorkQueue, Length
<1>4. Fresh'
  BY <1>2, <1>3 DEF Fresh, WorkQueue, Length
<1>5. 2 \in 1..2
  OBVIOUS
<1> QED
  BY <1>1, <1>4, <1>5, LooksOn

LEMMA QuietCheckRecord ==
  ASSUME IInv, AInv, AllQuiet(todo), CheckRecord
  PROVE  AInv' /\ Same
<1>1. /\ todo # <<>> /\ Head(todo).do = "CheckRecord" /\ platform' = platform /\ flash' = flash
      /\ header' = header /\ record' = record
  BY DEF CheckRecord, At, counters, volatile
<1>2. CASE \E s : Return(s)
  BY <1>1, <1>2, CalmReturns
<1>3. CASE /\ ~DestDone(WorkQueue, record) /\ ~SpareDone(WorkQueue, record)
           /\ Insert(WriteThroughSpare(request.target))
  <2> DEFINE t == request.target
             s == WriteThroughSpare(t)
  <2>1. request.op = "write" /\ Fresh /\ Allocated(WorkQueue, header)
    BY <1>1, HeadIs DEF Steps, Looked, WorkQueue
  <2>2. t \in platform.writable /\ t \in Targets
    BY <2>1, AskedTarget, WritableIs DEF AInv
  <2>3. Calm /\ Lacks(todo, {"CheckRemainder"})
    BY <1>1, <2>1, CalmHere, InService DEF Recovering
  <2>4. /\ On(s, WriteSteps(t), 13, 1) /\ Adds(s) /\ s \in Seq(Steps("write")) /\ s # <<>>
        /\ s[Len(s)] = Step("Success")
    BY <2>2, WriteOn
  <2> HIDE DEF s
  <2>5. todo' = s \o Tail(todo) /\ request' = request /\ up' = up
    BY <1>3 DEF Insert, s
  <2>6. todo \in Seq(Steps(request.op)) /\ Tail(todo) \in Seq(Steps(request.op)) /\ AllQuiet(Tail(todo))
    BY <1>1, PlanIs, QuietTail
  <2>7. On(todo', WriteSteps(t), 13, 1)
    BY <2>1, <2>4, <2>5, <2>6, OnQuiet
  <2>8. Ordered'
    <3>1. s[Len(s)].do \in {"CheckRecord", "Success"}
      BY <2>4, DoIs
    <3>2. Ordered
      BY DEF AInv
    <3> QED
      BY <1>1, <2>1, <2>4, <2>5, <3>1, <3>2, OrderedIn
  <2>9. Lacks(todo', {"CheckRemainder"})
    <3>1. Lacks(s, {"CheckRemainder"})
      BY <2>4 DEF Adds, Lacks, BootNames
    <3>2. Lacks(Tail(todo), {"CheckRemainder"})
      BY <1>1, <2>3, <2>6, QuietTail
    <3> QED
      BY <2>1, <2>4, <2>5, <2>6, <3>1, <3>2, QuietCat
  <2>10. Calm' /\ Standing' /\ Same
    BY <1>1, <2>3, <2>9, CalmStays
  <2>11. Fresh' /\ WorkQueue' = WorkQueue /\ Length' = Length /\ (IsOpen' <=> IsOpen) /\ (IsValid' <=> IsValid)
    BY <1>1, <2>1, FreshSame, WorkSame
  <2>12. IsValid /\ IsOpen
    BY <2>1, <2>3, FreshFound DEF Calm
  <2>13. WriteAt(t, 1)'
    BY <1>1, <1>3, <2>1, <2>2, <2>5, <2>7, <2>11, <2>12 DEF WriteAt
  <2>14. InWrite(1, 13)'
    BY <1>1, <2>2, <2>5, <2>13 DEF InWrite
  <2> QED
    BY <1>1, <2>8, <2>10, <2>14 DEF AInv, Shape, Succeeds
<1> QED
  BY <1>2, <1>3 DEF CheckRecord, WorkQueue

\* A header that is not complete is given up.
LEMMA QuietAbortWrites ==
  ASSUME IInv, AInv, AllQuiet(todo), AbortWrites
  PROVE  AInv' /\ Same
<1> DEFINE s == <<Mark("complete", "work")>>
<1>1. /\ todo # <<>> /\ Head(todo).do = "AbortWrites" /\ platform' = platform /\ flash' = flash
      /\ header' = header /\ record' = record /\ At("AbortWrites")
  BY DEF AbortWrites, At, counters, volatile
<1>2. Places("AbortWrites")
  BY <1>1, PlacesAre
<1>3. Fresh
  BY <1>1 DEF AInv, Ordered, LookNames
<1>4. ~InMove /\ (\A a, b : ~InWrite(a, b)) /\ (\A m \in 0..7 : ~InBoot(m)) /\ ~InRestart /\ ~CompleteAt
  <2>1. \A k : ~BootAt(k)
    BY <1>2, BootHead, BootNumber DEF Places
  <2>2. \A k : ~RestartAt(k)
    BY <1>2, RestartHead, LookNumber DEF Places
  <2> QED
    BY <1>2, <2>1, <2>2, QuietHere DEF InBoot, InRestart, Places
<1>5. IsValid
  BY <1>4 DEF AInv, Standing, Shelved
<1>6. ~IsSpared
  BY <1>4 DEF AInv, Standing, SpareKept
<1>7. TargetsSame /\ flash'["work"][2] = flash["work"][2] /\ (IsOpen' <=> IsOpen) /\ (IsValid' <=> IsValid)
  BY <1>1, WorkSame DEF TargetsSame
<1>8. CASE Allocated(WorkQueue, header) /\ ~Complete(WorkQueue, header) /\ Insert(s)
  <2>1. /\ s \in Seq(Steps(request.op)) /\ Adds(s) /\ Lacks(s, {"Success"}) /\ AllQuiet(s)
        /\ s # <<>> /\ s[1].do = "complete"
    <3>1. Mark("complete", "work") \in Steps(request.op) /\ Mark("complete", "work").do = "complete"
      BY MarkStep, AreasAre DEF Marks
    <3>2. Quiet(Mark("complete", "work"))
      BY <3>1 DEF Quiet, QuietNames
    <3>3. AllQuiet(s)
      BY <3>2, QuietOne
    <3>4. Inner(s)
      BY <3>1, InnerOne DEF BootNames, LookNames
    <3> QED
      BY <3>1, <3>3, <3>4 DEF Inner
  <2> HIDE DEF s
  <2>2. Ordered' /\ Succeeds' /\ Steady(platform')
    BY <1>1, <1>7, <1>8, <2>1, PutOrdered
  <2>3. todo \in Seq(Steps(request.op)) /\ Tail(todo) \in Seq(Steps(request.op)) /\ AllQuiet(Tail(todo))
        /\ todo' = s \o Tail(todo) /\ up' = up
    BY <1>1, <1>8, PlanIs, QuietTail DEF Insert
  <2>4. AllQuiet(todo') /\ todo' # <<>> /\ Head(todo').do = "complete"
    <3>1. Cat(Steps(request.op), s, Tail(todo), s \o Tail(todo))
      BY <2>1, <2>3, CatIs
    <3>2. Len(s) \in Nat /\ Len(s) >= 1 /\ Len(Tail(todo)) \in Nat
      BY <2>1, <2>3, TailIs, LenProperties
    <3>3. todo' \in Seq(Steps(request.op)) /\ Len(todo') >= 1 /\ todo'[1] = s[1]
      BY <2>3, <3>1, <3>2 DEF Cat
    <3>4. AllQuiet(todo')
      BY <2>1, <2>3, QuietCat
    <3>5. todo' # <<>> /\ Head(todo') = todo'[1]
      BY <3>3
    <3> QED
      BY <2>1, <3>3, <3>4, <3>5
  <2>5. CASE up
    <3>1. Calm
      BY <2>5, CalmHere
    <3> QED
      BY <1>1, <1>8, <2>1, <3>1, CalmPuts
  <2>6. CASE ~up
    <3>1. LastHeader(WorkQueue, Length)' = header'
      BY <1>1, <1>3, FreshFound, WorkSame
    <3>2. CompleteAt'
      BY <2>3, <2>4, <2>6, <3>1 DEF CompleteAt, At
    <3>3. Standing' /\ Same
      BY <1>1, <1>5, <1>6, <3>2, StandsIn
    <3> QED
      BY <2>2, <2>4, <3>3 DEF AInv, Shape
  <2> QED
    BY <2>5, <2>6 DEF IInv, Placed
<1>9. CASE \E r : Return(r)
  BY <1>1, <1>9, CalmReturns
<1>10. CASE ~(Allocated(WorkQueue, header) /\ ~Complete(WorkQueue, header)) /\ GoOn
  <2>1. ~IsOpen
    <3>1. LastHeader(WorkQueue, Length) = header
      BY <1>3, FreshFound
    <3>2. ~Complete(WorkQueue, header)
      <4>1. header \in 1..Length
        BY <1>3, FreshFound
      <4> QED
        BY <3>1, <4>1, WorkIs, HeaderPlace
    <3> QED
      BY <1>10, <3>1, <3>2 DEF IsOpen, Open
  <2> QED
    BY <1>1, <1>5, <1>6, <1>7, <1>10, <2>1, ClosedGoes
<1> QED
  BY <1>8, <1>9, <1>10 DEF AbortWrites, WorkQueue

LEMMA QuietCheckRestart ==
  ASSUME IInv, AInv, AllQuiet(todo), CheckRestart
  PROVE  AInv' /\ Same
<1>1. /\ todo # <<>> /\ Head(todo).do = "CheckRestart" /\ platform' = platform /\ flash' = flash
      /\ header' = header /\ record' = record /\ At("CheckRestart")
  BY DEF CheckRestart, At, counters, volatile
<1>2. Places("CheckRestart")
  BY <1>1, PlacesAre
<1>3. Fresh
  BY <1>1 DEF AInv, Ordered, LookNames
<1>4. ~InMove /\ (\A a, b : ~InWrite(a, b)) /\ (\A m \in 0..7 : ~InBoot(m)) /\ ~InAbort /\ ~CompleteAt
  <2>1. \A k : ~BootAt(k)
    BY <1>2, BootHead, BootNumber DEF Places
  <2>2. \A k : ~AbortAt(k)
    BY <1>2, AbortHead, LookNumber DEF Places
  <2> QED
    BY <1>2, <2>1, <2>2, QuietHere DEF InBoot, InAbort, Places
<1>5. IsValid
  BY <1>4 DEF AInv, Standing, Shelved
<1>6. CASE \E r : Return(r)
  BY <1>1, <1>6, CalmReturns
<1>7. CASE /\ ~DestDone(WorkQueue, record) /\ SpareDone(WorkQueue, record)
           /\ Insert(FtwWriteRecord(WorkQueue[record].target) \o Blocks("Erase", "spare"))
  <2>0. PICK t : t = WorkQueue[record].target
    OBVIOUS
  <2> DEFINE b == Blocks("Erase", "spare")
             s == FtwWriteRecord(t) \o b
  <2>1. IsOpen /\ IsSpared /\ LastCellOf = WorkQueue[record]
    <3>1. LastHeader(WorkQueue, Length) \in 1..(Length - 1) /\ Last(WorkQueue, Length) = record
          /\ LastCellOf = WorkQueue[record]
      BY <1>3, FreshFound
    <3>2. /\ Length \in Nat /\ HeaderWrites(platform) \in SUBSET Counts
          /\ WorkQueue \in Queues(Length, HeaderWrites(platform), RecordTargets(platform))
          /\ InOrder(WorkQueue, Length)
      BY WorkIs
    <3>3. IsOpen
      BY <1>7, <3>1, <3>2, ClosedRecord DEF IsOpen
    <3> QED
      BY <1>7, <3>1, <3>3 DEF IsSpared, Spared, IsOpen
  <2>2. InRestart
    BY <1>4, <2>1 DEF AInv, Standing, SpareKept
  <2>3. ~up
    BY <2>2 DEF InRestart, RestartAt
  <2>4. t \in platform.writable /\ t \in Targets
    BY <2>0, <2>1, WritableIs DEF AInv, Standing, SpareKept
  <2>5. Going(request.op, s, WriteSteps(t), 13, 8)
    <3>1. Going(request.op, FtwWriteRecord(t), WriteSteps(t), 13, 8)
      BY <2>4, TargetOn
    <3>2. Inner(b) /\ b \in Seq(Steps(request.op))
      BY BlocksInner, AreasAre
    <3>3. AllQuiet(b)
      BY BlocksAre, DoIs DEF AllQuiet, Quiet
    <3> HIDE DEF b
    <3> QED
      BY <3>1, <3>2, <3>3, GoingQuiet
  <2>6. On(s, WriteSteps(t), 13, 8) /\ Adds(s) /\ Lacks(s, {"Success"}) /\ s \in Seq(Steps(request.op))
    BY <2>5 DEF Going, Inner
  <2>60. Insert(s)
    BY <1>7, <2>0
  <2> HIDE DEF s
  <2>61. TargetsSame
    BY <1>1 DEF TargetsSame
  <2>7. Ordered' /\ Succeeds' /\ Steady(platform')
    BY <1>1, <2>6, <2>60, <2>61, PutOrdered
  <2>8. todo' = s \o Tail(todo) /\ up' = up
    BY <2>60 DEF Insert
  <2>9. todo \in Seq(Steps(request.op)) /\ Tail(todo) \in Seq(Steps(request.op)) /\ AllQuiet(Tail(todo))
    BY <1>1, PlanIs, QuietTail
  <2>10. On(todo', WriteSteps(t), 13, 8)
    BY <2>6, <2>8, <2>9, OnQuiet
  <2>11. Fresh' /\ WorkQueue' = WorkQueue /\ Length' = Length /\ (IsOpen' <=> IsOpen) /\ (IsValid' <=> IsValid)
         /\ (IsSpared' <=> IsSpared)
    BY <1>1, <1>3, FreshSame, WorkSame
  <2>12. WorkQueue[record].kind = "record"
    BY <1>7 DEF SpareDone
  <2>13. WriteAt(t, 8)'
    BY <1>1, <1>5, <2>0, <2>1, <2>3, <2>4, <2>8, <2>10, <2>11, <2>12 DEF WriteAt
  <2>14. InWrite(8, 13)'
    BY <1>1, <2>4, <2>13 DEF InWrite
  <2>15. InWrite(1, 13)'
    BY <1>1, <2>4, <2>13 DEF InWrite
  <2>16. Lacks(todo', {"CheckRemainder"}) \/ ~Lacks(todo, {"CheckRemainder"})
    <3>1. Lacks(s, {"CheckRemainder"})
      BY <2>6 DEF Adds, Lacks, BootNames
    <3> QED
      BY <1>1, <2>6, <2>8, <2>9, <3>1, QuietCat, QuietTail
  <2>17. IsOpen => Lacks(todo, {"CheckRemainder"})
    BY <1>4 DEF AInv, Standing, Remains, InBoot
  <2>18. SpareDone(WorkQueue, Last(WorkQueue, Length))
    BY <2>1, OpenWaits
  <2>19. Standing' /\ Same
    BY <1>1, <1>5, <2>1, <2>14, <2>16, <2>17, <2>18, StandsIn
  <2> QED
    BY <2>7, <2>15, <2>19 DEF AInv, Shape
<1> QED
  BY <1>6, <1>7 DEF CheckRestart, WorkQueue

\* What a step of the boot that comes third or later finds, when it is quiet.
BootFinds(k) ==
  /\ \A j : BootAt(j) => j = k
  /\ \A m \in 0..7 : InBoot(m) => BootAt(k) /\ k <= m
  /\ (\A a, b : ~InWrite(a, b)) /\ ~InMove /\ ~InRestart /\ ~InAbort /\ ~CompleteAt
  /\ BootAt(k) => Fresh /\ ~up
  /\ k >= 4 => IsValid
  /\ IsValid => Calm \/ BootAt(k)

LEMMA BootFound ==
  ASSUME IInv, AInv, AllQuiet(todo), NEW k \in 3..7, At(BootSteps[k].do)
  PROVE  BootFinds(k)
<1>1. Places(BootSteps[k].do)
  BY PlacesAre
<1>2. \A j : BootAt(j) => j = k
  <2> SUFFICES ASSUME NEW j, BootAt(j) PROVE j = k
    OBVIOUS
  <2>1. j \in 1..8 /\ BootSteps[j].do = BootSteps[k].do
    BY <1>1, BootHead DEF Places
  <2>2. k \in 1..8
    OBVIOUS
  <2> QED
    BY <2>1, <2>2, BootNumber
<1>3. BootSteps[k].do \notin {"ReclaimWhenFull", "FindLastWrite", "CheckRestart", "AbortWrites", "complete"}
  BY BootNumber
<1>4. (\A j : ~RestartAt(j)) /\ (\A j : ~AbortAt(j)) /\ ~CompleteAt
  BY <1>1, <1>3, RestartHead, AbortHead, LookNumber DEF Places
<1>5. (\A a, b : ~InWrite(a, b)) /\ ~InMove /\ ~InRestart /\ ~InAbort
  BY <1>4, QuietHere DEF InRestart, InAbort
<1>6. \A m \in 0..7 : InBoot(m) => BootAt(k) /\ k <= m
  BY <1>2 DEF InBoot
<1>7. BootAt(k) => Fresh /\ ~up
  BY DEF BootAt
<1>8. k >= 4 => IsValid
  BY <1>5, <1>6 DEF AInv, Standing, Shelved
<1>9. ASSUME IsValid, ~BootAt(k) PROVE Calm
  <2>1. ~IsSpared
    BY <1>5, <1>6, <1>9 DEF AInv, Standing, SpareKept
  <2>2. IsOpen => Lacks(todo, {"CheckRemainder"})
    BY <1>4, <1>5, <1>6, <1>9 DEF AInv, Standing, Remains
  <2>3. IsWaiting => OneWritable(platform)
    BY <1>4, <1>5, <1>6, <1>9, <2>1, OpenWaits DEF AInv, Standing, Left
  <2> QED
    BY <1>9, <2>1, <2>2, <2>3, CalmIf
<1> QED
  BY <1>2, <1>4, <1>5, <1>6, <1>7, <1>8, <1>9 DEF BootFinds

\* The recovery goes on to its next step.
LEMMA BootGoes ==
  ASSUME IInv, AInv, AllQuiet(todo), NEW k \in 3..6, At(BootSteps[k].do), BootAt(k), GoOn, IsValid,
         flash' = flash, platform' = platform, header' = header, record' = record,
         k >= 4 /\ IsWaiting =>
           OneWritable(platform) \/ SpareDone(WorkQueue, Last(WorkQueue, Length)),
         k = 6 => Lacks(todo', {"CheckRemainder"})
  PROVE  AInv' /\ Same
<1>1. todo # <<>> /\ Head(todo).do \notin {"CheckRecord", "Success", "FindLastWrite"}
  BY BootNumber DEF At
<1>2. Fresh'
  BY FreshSame DEF BootAt
<1>3. BootAt(k + 1)'
  <2>1. k \in 1..7
    OBVIOUS
  <2> QED
    BY <1>2, <2>1, BootNext
<1>4. \A m \in 4..7 : m >= k + 1 => InBoot(m)'
  BY <1>3 DEF InBoot
<1>5. InBoot(7)' /\ (k < 6 => InBoot(6)') /\ (k = 3 => InBoot(4)')
  BY <1>4
<1>6. Standing' /\ Same
  BY <1>5, StandsIn
<1>7. TargetsSame
  BY DEF TargetsSame
<1> QED
  BY <1>1, <1>6, <1>7, GoneOnQuietly

\* The recovery gives up the last header.
LEMMA Aborts ==
  ASSUME IInv, AInv, AllQuiet(todo), todo # <<>>, Insert(FtwAbort), flash' = flash, platform' = platform,
         ~up, IsValid, ~IsSpared,
         Head(todo).do \notin {"CheckRecord", "Success", "FindLastWrite"}
  PROVE  AInv' /\ Same
<1>1. /\ FtwAbort \in Seq(Steps(request.op)) /\ AllQuiet(FtwAbort) /\ Adds(FtwAbort)
      /\ Lacks(FtwAbort, {"Success"}) /\ On(FtwAbort, AbortSteps, 3, 1)
  BY LookUpsAre
<1>2. TargetsSame
  BY DEF TargetsSame
<1>3. Ordered' /\ Succeeds' /\ Steady(platform')
  BY <1>1, <1>2, PutOrdered
<1>4. todo \in Seq(Steps(request.op)) /\ Tail(todo) \in Seq(Steps(request.op)) /\ AllQuiet(Tail(todo))
      /\ todo' = FtwAbort \o Tail(todo) /\ up' = up
  BY PlanIs, QuietTail DEF Insert
<1>5. On(todo', AbortSteps, 3, 1)
  BY <1>1, <1>4, OnQuiet
<1>6. AllQuiet(todo')
  BY <1>1, <1>4, QuietCat
<1>7. InAbort'
  BY <1>4, <1>5, <1>6 DEF InAbort, AbortAt
<1>8. Standing' /\ Same
  BY <1>7, StandsIn
<1> QED
  BY <1>3, <1>6, <1>8 DEF AInv, Shape

LEMMA QuietAbortFirstRecord ==
  ASSUME IInv, AInv, AllQuiet(todo), AbortFirstRecord
  PROVE  AInv' /\ Same
<1>1. /\ todo # <<>> /\ Head(todo).do = "AbortFirstRecord" /\ platform' = platform /\ flash' = flash
      /\ header' = header /\ record' = record /\ At(BootSteps[4].do)
  BY BootStepsAre, DoIs DEF AbortFirstRecord, At, counters, volatile
<1>2. BootFinds(4)
  BY <1>1, BootFound
<1>3. IsValid
  BY <1>2 DEF BootFinds
<1>4. TargetsSame
  BY <1>1 DEF TargetsSame
<1>5. CASE Calm /\ GoOn
  BY <1>1, <1>4, <1>5, CalmGoes
<1>6. CASE Calm /\ Insert(FtwAbort)
  BY <1>1, <1>6, LookUpsAre, CalmPuts
<1>7. CASE /\ BootAt(4) /\ Insert(FtwAbort)
           /\ Allocated(WorkQueue, header) /\ ~SpareDone(WorkQueue, record)
  <2>1. Fresh /\ ~up
    BY <1>2, <1>7 DEF BootFinds
  <2>2. ~IsSpared
    BY <1>7, <2>1, FreshFound DEF IsSpared, Spared
  <2> QED
    BY <1>1, <1>3, <1>7, <2>1, <2>2, Aborts
<1>8. CASE /\ BootAt(4) /\ GoOn
           /\ ~(/\ Allocated(WorkQueue, header) /\ ~SpareDone(WorkQueue, record)
                /\ IsFirstRecordOfWrites(header, record))
  <2>1. Fresh
    BY <1>2, <1>8 DEF BootFinds
  <2>2. ASSUME IsWaiting, ~OneWritable(platform), ~SpareDone(WorkQueue, Last(WorkQueue, Length))
        PROVE  FALSE
    <3>1. IsOpen
      BY <2>2, OpenWaits
    <3>2. Last(WorkQueue, Length) = record /\ LastHeader(WorkQueue, Length) = header
          /\ Allocated(WorkQueue, header) /\ header \in 1..Length
      BY <2>1, <3>1, FreshFound
    <3>3. platform.requests \subseteq {1}
      BY <2>2 DEF AInv, Steady
    <3>4. /\ Length \in Nat /\ HeaderWrites(platform) \in SUBSET Counts
          /\ WorkQueue \in Queues(Length, HeaderWrites(platform), RecordTargets(platform))
          /\ InOrder(WorkQueue, Length)
      BY WorkIs
    <3>5. OpenRanges(WorkQueue, Length)
      BY <3>1, <3>4, OpenIs DEF IsOpen
    <3>6. WorkQueue[header].writes \in HeaderWrites(platform)
      BY <3>2, <3>4, QueueIs
    <3>7. WorkQueue[header].writes = 1
      BY <3>3, <3>6 DEF HeaderWrites
    <3>8. record = header + 1
      BY <3>2, <3>5, <3>7 DEF OpenRanges
    <3> QED
      BY <1>8, <2>2, <3>2, <3>8 DEF IsFirstRecordOfWrites
  <2> QED
    BY <1>1, <1>3, <1>8, <2>2, BootGoes
<1>9. Calm \/ BootAt(4)
  BY <1>2, <1>3 DEF BootFinds
<1> QED
  BY <1>5, <1>6, <1>7, <1>8, <1>9 DEF AbortFirstRecord, WorkQueue

LEMMA QuietAbortLastRecord ==
  ASSUME IInv, AInv, AllQuiet(todo), AbortLastRecord
  PROVE  AInv' /\ Same
<1>1. /\ todo # <<>> /\ Head(todo).do = "AbortLastRecord" /\ platform' = platform /\ flash' = flash
      /\ header' = header /\ record' = record /\ At(BootSteps[5].do)
  BY BootStepsAre, DoIs DEF AbortLastRecord, At, counters, volatile
<1>2. BootFinds(5)
  BY <1>1, BootFound
<1>3. IsValid
  BY <1>2 DEF BootFinds
<1>4. TargetsSame
  BY <1>1 DEF TargetsSame
<1>5. CASE Calm /\ GoOn
  BY <1>1, <1>4, <1>5, CalmGoes
<1>6. CASE Calm /\ Insert(FtwAbort)
  BY <1>1, <1>6, LookUpsAre, CalmPuts
<1>7. CASE BootAt(5) /\ Insert(FtwAbort) /\ DestDone(WorkQueue, record)
  <2>1. Fresh /\ ~up
    BY <1>2, <1>7 DEF BootFinds
  <2>2. ~IsSpared
    BY <1>7, <2>1, FreshFound DEF IsSpared, Spared
  <2> QED
    BY <1>1, <1>3, <1>7, <2>1, <2>2, Aborts
<1>8. CASE BootAt(5) /\ GoOn
  <2>1. ~InBoot(4) /\ ~InWrite(2, 7) /\ ~InAbort /\ ~CompleteAt
    BY <1>2 DEF BootFinds
  <2>2. IsWaiting => OneWritable(platform) \/ SpareDone(WorkQueue, Last(WorkQueue, Length))
    BY <2>1 DEF AInv, Standing, Left
  <2> QED
    BY <1>1, <1>3, <1>8, <2>2, BootGoes
<1>9. Calm \/ BootAt(5)
  BY <1>2, <1>3 DEF BootFinds
<1> QED
  BY <1>5, <1>6, <1>7, <1>8, <1>9 DEF AbortLastRecord, WorkQueue

\* The working block is taken as it is, or is replaced.
LEMMA QuietChooseWorkSpace ==
  ASSUME IInv, AInv, AllQuiet(todo), ChooseWorkSpace
  PROVE  AInv' /\ Same
<1>1. /\ todo # <<>> /\ Head(todo).do = "ChooseWorkSpace" /\ platform' = platform /\ flash' = flash
      /\ header' = header /\ record' = record /\ At(BootSteps[3].do)
  BY BootStepsAre, DoIs DEF ChooseWorkSpace, At, counters, volatile
<1>2. BootFinds(3)
  BY <1>1, BootFound
<1>3. TargetsSame
  BY <1>1 DEF TargetsSame
<1>4. CASE Calm /\ GoOn
  BY <1>1, <1>3, <1>4, CalmGoes
<1>5. CASE IsValid /\ BootAt(3) /\ GoOn
  BY <1>1, <1>5, BootGoes
<1>6. ~IsValid => ~IsOpen /\ (IsValidWorkSpace(flash["spare"][2]) => ~Open(Queue("spare"), Length))
  BY DEF AInv, Standing, Shelved
<1>7. CASE ~IsValid /\ Insert(FtwReclaimWorkSpace("CleanAll"))
  <2>1. "CleanAll" \in Cleans
    BY DEF Cleans
  <2> QED
    BY <1>1, <1>6, <1>7, <2>1, Reclaims
<1>8. CASE /\ ~IsValid /\ IsValidWorkSpace(flash["spare"][2])
           /\ Insert(FlushSpareBlockToWorkingBlock \o FtwAbort \o WorkSpaceRefresh)
  <2> DEFINE s == FlushSpareBlockToWorkingBlock \o FtwAbort \o WorkSpaceRefresh
  <2>1. On(s, MoveSteps("CleanUp"), 15, 8) /\ Adds(s) /\ Lacks(s, {"Success"}) /\ s \in Seq(Steps(request.op))
    BY ReplaceOn
  <2>2. Insert(s)
    BY <1>8
  <2> HIDE DEF s
  <2>3. Ordered' /\ Succeeds' /\ Steady(platform')
    BY <1>1, <1>3, <2>1, <2>2, PutOrdered
  <2>4. todo \in Seq(Steps(request.op)) /\ Tail(todo) \in Seq(Steps(request.op)) /\ AllQuiet(Tail(todo))
        /\ todo' = s \o Tail(todo)
    BY <1>1, <2>2, PlanIs, QuietTail DEF Insert
  <2>5. On(todo', MoveSteps("CleanUp"), 15, 8)
    BY <2>1, <2>4, OnQuiet
  <2>6. ~IsOpen' /\ Length' = Length /\ Queue("spare")' = Queue("spare")
    BY <1>1, <1>6, <1>8, WorkSame, SpareSame
  <2>7. MoveAt(8)'
    BY <1>6, <1>8, <2>5, <2>6 DEF MoveAt, Cleans
  <2>8. InMove'
    BY <2>7 DEF InMove
  <2>9. ~IsSpared
    BY <1>6, <1>8, OpenWaits
  <2>10. Shelved'
    BY <1>1, <1>6, <1>8, <2>6, <2>8 DEF Shelved
  <2>11. Standing' /\ Same
    BY <1>1, <2>6, <2>9, <2>10, ClosedStands
  <2> QED
    BY <2>3, <2>8, <2>11 DEF AInv, Shape
<1>9. IsValid => Calm \/ BootAt(3)
  BY <1>2 DEF BootFinds
<1> QED
  BY <1>4, <1>5, <1>7, <1>8, <1>9 DEF ChooseWorkSpace, IsValid

\* Behind the last open header and its records there is nothing.
LEMMA NothingBehind ==
  ASSUME IInv, IsOpen, Fresh
  PROVE  /\ Allocated(WorkQueue, header) /\ header + TotalSize(WorkQueue[header].writes) \in Nat
         /\ \A c \in (header + TotalSize(WorkQueue[header].writes))..Length : WorkQueue[c] = EmptyCell
<1>1. /\ Length \in Nat /\ HeaderWrites(platform) \in SUBSET Counts
      /\ WorkQueue \in Queues(Length, HeaderWrites(platform), RecordTargets(platform))
      /\ InOrder(WorkQueue, Length)
  BY WorkIs
<1>2. OpenRanges(WorkQueue, Length)
  BY <1>1, OpenIs DEF IsOpen
<1>3. LastHeader(WorkQueue, Length) = header /\ Allocated(WorkQueue, header)
  BY FreshFound
<1>4. LastCell(WorkQueue, Length) = header + WorkQueue[header].writes /\ WorkQueue[header].writes \in Nat
      /\ header \in Nat
  BY <1>2, <1>3 DEF OpenRanges
<1>5. \A c \in 1..Length : c > LastCell(WorkQueue, Length) => WorkQueue[c] = EmptyCell
  BY <1>1 DEF InOrder
<1>6. \A c \in (header + TotalSize(WorkQueue[header].writes))..Length : c \in 1..Length /\ c > LastCell(WorkQueue, Length)
  BY <1>1, <1>4 DEF TotalSize
<1> QED
  BY <1>3, <1>4, <1>5, <1>6 DEF TotalSize

LEMMA QuietCheckRemainder ==
  ASSUME IInv, AInv, AllQuiet(todo), CheckRemainder
  PROVE  AInv' /\ Same
<1>1. /\ todo # <<>> /\ Head(todo).do = "CheckRemainder" /\ platform' = platform /\ flash' = flash
      /\ header' = header /\ record' = record /\ At(BootSteps[6].do)
  BY BootStepsAre, DoIs DEF CheckRemainder, At, counters, volatile
<1>2. BootFinds(6)
  BY <1>1, BootFound
<1>3. IsValid
  BY <1>2 DEF BootFinds
<1>4. TargetsSame /\ (IsOpen' <=> IsOpen) /\ (IsValid' <=> IsValid)
  BY <1>1, WorkSame DEF TargetsSame
<1>5. todo \in Seq(Steps(request.op))
  BY PlanIs
<1>6. CASE ~IsOpen /\ GoOn
  <2>1. ~IsSpared
    BY <1>6, OpenWaits
  <2> QED
    BY <1>1, <1>3, <1>4, <1>6, <2>1, ClosedGoes
<1>7. CASE ~IsOpen /\ Insert(FtwReclaimWorkSpace("CleanUp"))
  <2>1. "CleanUp" \in Cleans
    BY DEF Cleans
  <2> QED
    BY <1>1, <1>7, <2>1, Reclaims
<1>8. CASE IsOpen
  <2>1. ~Lacks(todo, {"CheckRemainder"})
    BY <1>1, <1>5, QuietTail
  <2>2. BootAt(6) /\ Fresh
    BY <1>2, <1>3, <1>8, <2>1 DEF BootFinds, Calm
  <2>3. /\ Allocated(WorkQueue, header) /\ header + TotalSize(WorkQueue[header].writes) \in Nat
        /\ \A c \in (header + TotalSize(WorkQueue[header].writes))..Length : WorkQueue[c] = EmptyCell
    BY <1>8, <2>2, NothingBehind
  <2>4. GoOn
    BY <2>3, WorkIs DEF CheckRemainder, WorkQueue
  <2>5. ~InBoot(4) /\ ~InWrite(2, 7) /\ ~InAbort /\ ~CompleteAt
    BY <1>2 DEF BootFinds
  <2>6. IsWaiting => OneWritable(platform) \/ SpareDone(WorkQueue, Last(WorkQueue, Length))
    BY <2>5 DEF AInv, Standing, Left
  <2>7. Lacks(todo', {"CheckRemainder"})
    <3>1. /\ Len(todo) = 3 /\ todo[2] = BootSteps[7] /\ todo[3] = BootSteps[8]
      <4>1. On(todo, BootSteps, 8, 6) /\ Len(todo) = 3
        BY <2>2 DEF BootAt
      <4>2. \A j \in 6..8 : todo[j - 5] = BootSteps[j]
        BY <4>1 DEF On
      <4> QED
        BY <4>1, <4>2
    <3>2. /\ Len(Tail(todo)) = Len(todo) - 1
          /\ \A i \in 1..Len(Tail(todo)) : Tail(todo)[i] = todo[i + 1]
      BY <1>1, <1>5, TailIs
    <3>3. Len(Tail(todo)) = 2
      BY <3>1, <3>2
    <3>4. Tail(todo)[1] = todo[2] /\ Tail(todo)[2] = todo[3]
      BY <3>2, <3>3
    <3>5. todo[2].do # "CheckRemainder" /\ todo[3].do # "CheckRemainder"
      BY <3>1, BootNumber
    <3>6. \A i \in 1..2 : Tail(todo)[i].do # "CheckRemainder"
      <4>1. \A i \in 1..2 : i = 1 \/ i = 2
        OBVIOUS
      <4>2. Tail(todo)[1].do # "CheckRemainder" /\ Tail(todo)[2].do # "CheckRemainder"
        BY <3>4, <3>5
      <4> QED
        BY <4>1, <4>2
    <3> QED
      BY <2>4, <3>3, <3>6 DEF Lacks, GoOn
  <2> QED
    BY <1>1, <1>3, <2>2, <2>4, <2>6, <2>7, BootGoes
<1>9. GoOn \/ Insert(FtwReclaimWorkSpace("CleanUp"))
  BY DEF CheckRemainder
<1> QED
  BY <1>6, <1>7, <1>8, <1>9

LEMMA QuietRestartLastWrite ==
  ASSUME IInv, AInv, AllQuiet(todo), RestartLastWrite
  PROVE  AInv' /\ Same
<1>1. /\ todo # <<>> /\ Head(todo).do = "RestartLastWrite" /\ platform' = platform /\ flash' = flash
      /\ header' = header /\ record' = record /\ At(BootSteps[7].do)
  BY BootStepsAre, DoIs DEF RestartLastWrite, At, counters, volatile
<1>2. BootFinds(7)
  BY <1>1, BootFound
<1>3. IsValid
  BY <1>2 DEF BootFinds
<1>4. TargetsSame
  BY <1>1 DEF TargetsSame
<1>5. todo \in Seq(Steps(request.op)) /\ Tail(todo) \in Seq(Steps(request.op)) /\ AllQuiet(Tail(todo))
  BY <1>1, PlanIs, QuietTail
<1>6. ~IsSpared => Calm
  <2> SUFFICES ASSUME ~IsSpared PROVE Calm
    OBVIOUS
  <2>1. ~InBoot(6) /\ ~InBoot(4) /\ ~InWrite(2, 7) /\ ~InAbort /\ ~CompleteAt
    BY <1>2 DEF BootFinds
  <2>2. IsOpen => Lacks(todo, {"CheckRemainder"})
    BY <2>1 DEF AInv, Standing, Remains
  <2>3. IsWaiting => OneWritable(platform)
    BY <2>1, OpenWaits DEF AInv, Standing, Left
  <2> QED
    BY <1>3, <2>2, <2>3, CalmIf
<1>7. \A s : s \in {FtwAbort, <<>> \o FtwAbort, FtwRestart \o FtwAbort} =>
        /\ s \in Seq(Steps(request.op)) /\ Adds(s) /\ Lacks(s, {"Success"}) /\ AllQuiet(s)
  <2>1. /\ FtwAbort \in Seq(Steps(request.op)) /\ AllQuiet(FtwAbort) /\ Adds(FtwAbort)
        /\ Lacks(FtwAbort, {"Success"})
        /\ FtwRestart \in Seq(Steps(request.op)) /\ AllQuiet(FtwRestart) /\ Adds(FtwRestart)
        /\ Lacks(FtwRestart, {"Success"})
    BY LookUpsAre
  <2>2. <<>> \o FtwAbort = FtwAbort
    BY <2>1
  <2>3. Inner(FtwRestart \o FtwAbort) /\ FtwRestart \o FtwAbort \in Seq(Steps(request.op))
    BY <2>1, InnerCat DEF Inner
  <2>4. AllQuiet(FtwRestart \o FtwAbort)
    BY <2>1, QuietCat
  <2> QED
    BY <2>1, <2>2, <2>3, <2>4 DEF Inner
<1>8. CASE Calm /\ GoOn
  BY <1>1, <1>4, <1>8, CalmGoes
<1>9. CASE Calm /\ \E s \in {FtwAbort, <<>> \o FtwAbort, FtwRestart \o FtwAbort} : Insert(s)
  <2>1. PICK s : /\ Insert(s) /\ s \in Seq(Steps(request.op)) /\ Adds(s) /\ Lacks(s, {"Success"})
                 /\ AllQuiet(s)
    BY <1>7, <1>9
  <2> QED
    BY <1>1, <1>9, <2>1, CalmPuts
<1>10. CASE IsSpared
  <2> DEFINE s == FtwRestart \o FtwAbort
  <2>1. BootAt(7) /\ Fresh /\ ~up
    BY <1>2, <1>3, <1>10 DEF BootFinds, Calm
  <2>2. LastCellOf = WorkQueue[record] /\ ~Complete(WorkQueue, header) /\ SpareDone(WorkQueue, record)
    <3>1. IsOpen
      BY <1>10, OpenWaits
    <3>2. OpenRanges(WorkQueue, Length)
      BY <3>1, WorkIs, OpenIs DEF IsOpen
    <3>3. LastHeader(WorkQueue, Length) = header /\ Last(WorkQueue, Length) = record
          /\ LastCellOf = WorkQueue[record]
      BY <2>1, FreshFound
    <3>4. ~WorkQueue[header].complete
      BY <3>2, <3>3 DEF OpenRanges
    <3>5. SpareDone(WorkQueue, record)
      BY <1>10, <3>3 DEF IsSpared, Spared
    <3> QED
      BY <3>3, <3>4, <3>5 DEF Complete
  <2>3. LastCellOf.target \in platform.writable /\ "unknown" \notin platform.writable
    BY <1>10, WritableIs DEF AInv, Standing, SpareKept
  <2>4. Insert(s)
    BY <2>2, <2>3 DEF RestartLastWrite, WorkQueue
  <2>5. s \in Seq(Steps(request.op)) /\ Adds(s) /\ Lacks(s, {"Success"}) /\ AllQuiet(s)
    BY <1>7
  <2>6. On(s, RestartSteps, 3, 1)
    <3>1. /\ FtwAbort \in Seq(Steps(request.op)) /\ AllQuiet(FtwAbort)
          /\ FtwRestart \in Seq(Steps(request.op)) /\ On(FtwRestart, RestartSteps, 3, 1)
      BY LookUpsAre
    <3> QED
      BY <3>1, OnQuiet
  <2> HIDE DEF s
  <2>7. Ordered' /\ Succeeds' /\ Steady(platform')
    BY <1>1, <1>4, <2>4, <2>5, PutOrdered
  <2>8. todo' = s \o Tail(todo) /\ up' = up
    BY <2>4 DEF Insert
  <2>9. On(todo', RestartSteps, 3, 1)
    BY <1>5, <2>5, <2>6, <2>8, OnQuiet
  <2>10. AllQuiet(todo')
    BY <1>5, <2>5, <2>8, QuietCat
  <2>11. InRestart'
    BY <2>1, <2>8, <2>9, <2>10 DEF InRestart, RestartAt
  <2>12. IsOpen => Lacks(todo, {"CheckRemainder"})
    BY <1>2 DEF BootFinds, AInv, Standing, Remains
  <2>13. Lacks(todo', {"CheckRemainder"}) \/ ~IsOpen
    <3>1. Lacks(s, {"CheckRemainder"})
      BY <2>5 DEF Adds, Lacks, BootNames
    <3> QED
      BY <1>1, <1>5, <2>5, <2>8, <2>12, <3>1, QuietCat, QuietTail
  <2>14. SpareDone(WorkQueue, Last(WorkQueue, Length))
    BY <1>10, OpenWaits
  <2>15. Standing' /\ Same
    BY <1>1, <1>3, <2>11, <2>13, <2>14, StandsIn
  <2> QED
    BY <2>7, <2>10, <2>15 DEF AInv, Shape
<1>11. GoOn \/ \E s \in {FtwAbort, <<>> \o FtwAbort, FtwRestart \o FtwAbort} : Insert(s)
  BY DEF RestartLastWrite
<1> QED
  BY <1>6, <1>8, <1>9, <1>10, <1>11

\* No quiet step spoils what a write, a reclaim or a recovery has done.
LEMMA QuietStep ==
  ASSUME IInv, AInv, RoomForHeader, AllQuiet(todo), Driver
  PROVE  AInv' /\ Same
<1>1. todo # <<>> => Quiet(Head(todo))
  BY PlanIs, QuietTail
<1>2. /\ ~Write /\ ~MarkValid /\ ~MarkInvalid /\ ~MarkSpareComplete /\ ~MarkDestComplete /\ ~WriteRecordCell
      /\ ~CleanUp /\ ~CleanAll /\ ~LoadSpare /\ ~LoadSpareAsWork /\ ~LoadTarget
  BY <1>1 DEF Write, MarkValid, MarkInvalid, MarkSpareComplete, MarkDestComplete, WriteRecordCell, CleanUp,
              CleanAll, LoadSpare, LoadSpareAsWork, LoadTarget, At, Quiet, QuietNames
<1>3. CASE FlashAccess
  BY <1>2, <1>3, QuietWriter, QuietComplete, QuietWriteHeader, QuietWritesAllocated DEF FlashAccess
<1>4. CASE ReclaimWhenFull \/ FindLastWrite \/ AllocateHeader \/ NeedHeader \/ CheckRecord \/ CheckRestart
           \/ AbortWrites \/ LastWrite \/ NotFound \/ Success
  BY <1>4, QuietReclaimWhenFull, QuietFindLastWrite, QuietAllocateHeader, QuietNeedHeader, QuietCheckRecord,
     QuietCheckRestart, QuietAbortWrites, QuietLastWrite, QuietReturn
<1>5. CASE ChooseWorkSpace \/ AbortFirstRecord \/ AbortLastRecord \/ CheckRemainder \/ RestartLastWrite
           \/ HookServices
  BY <1>5, QuietChooseWorkSpace, QuietAbortFirstRecord, QuietAbortLastRecord, QuietCheckRemainder,
     QuietRestartLastWrite, QuietHookServices
<1> QED
  BY <1>2, <1>3, <1>4, <1>5 DEF Driver

-----------------------------------------------------------------------------
(***************************************************************************)
(* The steps of a reclaim.                                                 *)
(***************************************************************************)
\* What is left to do is in one place only.
LEMMA OneEnd ==
  ASSUME NEW S, NEW t \in Seq(S), NEW e, NEW m \in Nat, NEW k, On(t, e, m, k), ~Quiet(e[m]),
         NEW f, NEW n \in Nat, NEW j, On(t, f, n, j), ~Quiet(f[n])
  PROVE  e[m] = f[n]
<1>1. /\ k \in 1..m /\ Len(t) >= m - k + 1 /\ t[m - k + 1] = e[m]
      /\ \A i \in 1..Len(t) : i > m - k + 1 => Quiet(t[i])
  BY DEF On
<1>2. /\ j \in 1..n /\ Len(t) >= n - j + 1 /\ t[n - j + 1] = f[n]
      /\ \A i \in 1..Len(t) : i > n - j + 1 => Quiet(t[i])
  BY DEF On
<1>3. Len(t) \in Nat
  OBVIOUS
<1>4. m - k + 1 \in 1..Len(t) /\ n - j + 1 \in 1..Len(t)
  BY <1>1, <1>2, <1>3
<1>5. ~(m - k + 1 > n - j + 1) /\ ~(n - j + 1 > m - k + 1)
  BY <1>1, <1>2, <1>4
<1>6. m - k + 1 = n - j + 1
  BY <1>1, <1>2, <1>5
<1> QED
  BY <1>1, <1>2, <1>6

LEMMA MoveNotWrite ==
  ASSUME IInv, NEW clean, NEW k, On(todo, MoveSteps(clean), 15, k)
  PROVE  \A t, j : ~On(todo, WriteSteps(t), 13, j)
<1> SUFFICES ASSUME NEW t, NEW j, On(todo, WriteSteps(t), 13, j) PROVE FALSE
  OBVIOUS
<1>1. /\ MoveSteps(clean)[15].do = "WorkingBlockValid" /\ WriteSteps(t)[13].do = "destComplete"
  BY MoveStepsAre, WriteStepsAre, DoIs
<1>2. ~Quiet(MoveSteps(clean)[15]) /\ ~Quiet(WriteSteps(t)[13])
  BY <1>1 DEF Quiet, QuietNames
<1>3. todo \in Seq(Steps(request.op))
  BY PlanIs
<1>4. MoveSteps(clean)[15] = WriteSteps(t)[13]
  BY <1>2, <1>3, OneEnd
<1> QED
  BY <1>1, <1>4

SpareClosed == IsValidWorkSpace(flash["spare"][2]) => ~Open(Queue("spare"), Length)

\* What holds before step j of a reclaim, and behind the last.
MoveHas(j) ==
  /\ ~IsOpen
  /\ j \in 2..5 \cup 10..14 => SpaceBlock(buffer[2])
  /\ j \in 6..15 => ~Open(Queue("spare"), Length)
  /\ j \in 10..14 => Formatted(buffer[2])
  /\ j = 15 => Formatted(flash["work"][2])
  /\ j = 16 => IsValid
  /\ ~IsValid => SpareClosed

LEMMA MoveHere ==
  ASSUME IInv, AInv, NEW k, MoveAt(k)
  PROVE  /\ k \in 1..15 /\ todo # <<>> /\ MoveHas(k) /\ \A a, b : ~InWrite(a, b)
         /\ \E clean \in Cleans : On(todo, MoveSteps(clean), 15, k) /\ Head(todo) = MoveSteps(clean)[k]
         /\ Steady(platform)
<1>1. /\ todo # <<>> /\ k \in 1..15
      /\ \E clean \in Cleans : Head(todo) = MoveSteps(clean)[k] /\ On(todo, MoveSteps(clean), 15, k)
  BY MoveHead
<1>2. ~IsValid => SpareClosed
  BY DEF AInv, Standing, Shelved, SpareClosed
<1>3. MoveHas(k)
  BY <1>1, <1>2 DEF MoveHas, MoveAt
<1>4. \A a, b : ~InWrite(a, b)
  BY <1>1, MoveNotWrite DEF InWrite, WriteAt
<1> QED
  BY <1>1, <1>3, <1>4 DEF AInv

LEMMA MoveGoes ==
  ASSUME IInv, AInv, NEW k, MoveAt(k), GoOn, platform' = platform, TargetsSame, MoveHas(k + 1)'
  PROVE  AInv' /\ Same
<1>1. /\ k \in 1..15 /\ todo # <<>> /\ MoveHas(k) /\ \A a, b : ~InWrite(a, b)
      /\ Steady(platform) /\ Ordered /\ Succeeds
  BY MoveHere DEF AInv
<1>2. PICK clean \in Cleans : On(todo, MoveSteps(clean), 15, k) /\ Head(todo) = MoveSteps(clean)[k]
  BY MoveHere
<1>3. /\ todo' = Tail(todo) /\ up' = up /\ request' = request
  BY DEF GoOn
<1>4. todo \in Seq(Steps(request.op))
  BY PlanIs
<1>5. Head(todo).do \notin {"CheckRecord", "Success", "FindLastWrite"}
  <2>1. Head(todo).do \in Cleans \cup {"Erase", "Write", "WorkingBlockValid", "WorkingBlockInvalid",
                                       "LoadSpareAsWork"}
    <3>1. k \in 1..15
      BY <1>1
    <3>2. MoveSteps(clean)[k].do \in Cleans \cup {"Erase", "Write", "WorkingBlockValid", "WorkingBlockInvalid",
                                                "LoadSpareAsWork"}
      BY <3>1, MoveNumber
    <3> QED
      BY <1>2, <3>2
  <2> QED
    BY <2>1 DEF Cleans
<1>6. Ordered'
  BY <1>1, <1>3, <1>5, OrderedOn
<1>7. Lacks(todo, {"Success"}) => Lacks(todo', {"Success"})
  BY <1>1, <1>3, <1>4, QuietTail
<1>8. request.op = "write" => flash'[request.target] = flash[request.target]
  BY AskedTarget DEF TargetsSame
<1>9. Succeeds'
  BY <1>1, <1>3, <1>7, <1>8, SucceedsOn
<1>10. ~IsOpen' /\ ~IsSpared
  BY <1>1, OpenWaits DEF MoveHas
<1>11. AllQuiet(todo') \/ InMove'
  <2>1. CASE k = 15
    <3>1. AllQuiet(Tail(todo))
      BY <1>2, <1>4, <2>1, OnTail
    <3> QED
      BY <1>3, <3>1
  <2>2. CASE k < 15
    <3>1. On(todo', MoveSteps(clean), 15, k + 1)
      BY <1>2, <1>3, <1>4, <2>2, OnTail
    <3>2. MoveAt(k + 1)'
      BY <3>1 DEF MoveAt, MoveHas
    <3>3. k + 1 \in 1..15
      BY <1>1, <2>2
    <3> QED
      BY <3>2, <3>3 DEF InMove
  <2> QED
    BY <1>1, <2>1, <2>2
<1>12. ~IsValid' => InMove'
  <2> SUFFICES ASSUME k = 15 PROVE IsValid'
    <3>1. k # 15 => InMove'
      <4> SUFFICES ASSUME k # 15 PROVE InMove'
        OBVIOUS
      <4>0. k < 15
        BY <1>1
      <4>1. On(todo', MoveSteps(clean), 15, k + 1)
        BY <1>2, <1>3, <1>4, <4>0, OnTail
      <4>2. MoveAt(k + 1)'
        BY <4>1 DEF MoveAt, MoveHas
      <4>3. k + 1 \in 1..15
        BY <1>1, <4>0
      <4> QED
        BY <4>2, <4>3 DEF InMove
    <3> QED
      BY <3>1
  <2> QED
    BY DEF MoveHas
<1>13. Shelved'
  BY <1>12 DEF Shelved, MoveHas, SpareClosed
<1>14. Standing' /\ Same
  BY <1>10, <1>13, ClosedStands DEF TargetsSame
<1> QED
  BY <1>1, <1>6, <1>9, <1>11, <1>14 DEF AInv, Shape

LEMMA MoveCleans ==
  ASSUME IInv, AInv, InMove, CleanUp \/ CleanAll
  PROVE  AInv' /\ Same
<1>1. PICK k \in 1..15 : MoveAt(k)
  BY DEF InMove
<1>2. PICK clean \in Cleans : On(todo, MoveSteps(clean), 15, k) /\ Head(todo) = MoveSteps(clean)[k]
  BY <1>1, MoveHere
<1>3. k = 1
  BY <1>2, MoveNumber DEF CleanUp, CleanAll, At, Cleans
<1>4. /\ MoveHas(k) /\ Steady(platform)
  BY <1>1, MoveHere
<1>5. PICK f, q : CleanWorkSpace(f, q) /\ ~Open(q, Length)
  <2>1. Length \in Nat /\ Length = platform.queue
    BY WorkIs DEF Length
  <2>2. ~Open(Blank(Length), Length)
    BY <2>1, BlankClosed
  <2>3. CASE CleanUp
    <3>1. Preserved(WorkQueue) = Kept(WorkQueue, Length)
      BY PreservedIs DEF Length
    <3>2. ~Open(WorkQueue, Length)
      BY <1>4 DEF MoveHas, IsOpen
    <3>3. Kept(WorkQueue, Length) = Blank(Length)
      BY <2>1, <3>2, KeptClosed
    <3>4. CleanWorkSpace(Space("work").formatted, Preserved(WorkQueue))
      BY <2>3 DEF CleanUp, WorkQueue
    <3> QED
      BY <2>2, <3>1, <3>3, <3>4
  <2>4. CASE CleanAll
    <3>1. CleanWorkSpace(TRUE, Blank(Length))
      BY <2>4 DEF CleanAll, EmptyQueue, Blank, Cells, QueueSize, Length
    <3> QED
      BY <2>2, <3>1
  <2> QED
    BY <2>3, <2>4
<1>6. /\ flash' = flash /\ platform' = platform /\ GoOn
      /\ buffer'[2] = WorkSpace(f, FALSE, FALSE, q)
  BY <1>5 DEF CleanWorkSpace, counters
<1>7. Length' = Length /\ (IsOpen' <=> IsOpen) /\ (IsValid' <=> IsValid) /\ Queue("spare")' = Queue("spare")
  BY <1>6, WorkSame, SpareSame
<1>8. SpaceBlock(buffer[2])'
  BY <1>5, <1>6, <1>7 DEF SpaceBlock, WorkSpace
<1>80. ~IsOpen' /\ (~IsValid' => SpareClosed')
  BY <1>4, <1>6, <1>7 DEF MoveHas, SpareClosed
<1>9. MoveHas(2)'
  BY <1>8, <1>80 DEF MoveHas
<1>10. TargetsSame
  BY <1>6 DEF TargetsSame
<1> QED
  BY <1>1, <1>3, <1>6, <1>9, <1>10, MoveGoes

\* The queue that a block would give.
LEMMA QueueOf ==
  ASSUME IInv, platform' = platform, NEW a \in {"work", "spare"}
  PROVE  /\ Queue(a) = SpaceOf(platform, flash[a][2]).queue
         /\ Queue(a)' = SpaceOf(platform, flash'[a][2]).queue
         /\ Length' = Length
         /\ flash'[a][2] = flash[a][2] => Queue(a)' = Queue(a)
         /\ flash'[a][2].kind = "space" => Queue(a)' = flash'[a][2].queue
         /\ flash'[a][2].kind # "space" => ~Open(Queue(a), Length)'
<1>1. a \in Areas
  BY AreasAre
<1>2. Queue(a) = SpaceOf(platform, flash[a][2]).queue
  BY AsSpaceIs DEF Queue, Space
<1>3. Queue(a)' = SpaceOf(platform, flash'[a][2]).queue
  BY <1>1, QueueNext
<1>4. Length' = Length /\ Length = platform.queue /\ Length \in Nat
  BY WorkIs DEF Length
<1>5. flash'[a][2].kind = "space" => Queue(a)' = flash'[a][2].queue
  BY <1>3 DEF SpaceOf
<1>6. flash'[a][2].kind # "space" => Queue(a)' = Blank(Length)
  BY <1>3, <1>4 DEF SpaceOf, WorkSpace
<1>7. ~Open(Blank(Length), Length)
  BY <1>4, BlankClosed
<1> QED
  BY <1>2, <1>3, <1>4, <1>5, <1>6, <1>7

LEMMA MoveLoads ==
  ASSUME IInv, AInv, InMove, LoadSpareAsWork
  PROVE  AInv' /\ Same
<1>1. PICK k \in 1..15 : MoveAt(k)
  BY DEF InMove
<1>2. PICK clean \in Cleans : On(todo, MoveSteps(clean), 15, k) /\ Head(todo) = MoveSteps(clean)[k]
  BY <1>1, MoveHere
<1>3. k = 9
  BY <1>2, MoveNumber DEF LoadSpareAsWork, At
<1>4. MoveHas(k)
  BY <1>1, MoveHere
<1>5. /\ flash' = flash /\ platform' = platform /\ GoOn
      /\ buffer'[2] = WorkSpace(TRUE, FALSE, FALSE, Queue("spare"))
  BY DEF LoadSpareAsWork, counters
<1>6. Length' = Length /\ (IsOpen' <=> IsOpen) /\ (IsValid' <=> IsValid) /\ Queue("spare")' = Queue("spare")
  BY <1>5, WorkSame, SpareSame
<1>7. SpaceBlock(buffer[2])' /\ Formatted(buffer[2])'
  BY <1>3, <1>4, <1>5, <1>6 DEF SpaceBlock, Formatted, WorkSpace, MoveHas
<1>70. ~IsOpen' /\ (~IsValid' => SpareClosed') /\ ~Open(Queue("spare"), Length)'
  BY <1>3, <1>4, <1>5, <1>6 DEF MoveHas, SpareClosed
<1>8. MoveHas(10)'
  BY <1>7, <1>70 DEF MoveHas
<1>9. TargetsSame
  BY <1>5 DEF TargetsSame
<1> QED
  BY <1>1, <1>3, <1>5, <1>8, <1>9, MoveGoes

\* Which blocks the steps of a reclaim erase and write.
LEMMA MoveBlock ==
  ASSUME IInv, AInv, NEW k, MoveAt(k)
  PROVE  /\ k = 2 => Head(todo).area = "spare" /\ Head(todo).block = 1
         /\ k = 3 => Head(todo).area = "spare" /\ Head(todo).block = 2
         /\ k = 4 => Head(todo).area = "spare" /\ Head(todo).block = 1
         /\ k = 5 => Head(todo).area = "spare" /\ Head(todo).block = 2
         /\ k \in {6, 8} => Head(todo).area = "spare"
         /\ k \in {7, 10, 15} => Head(todo).area = "work"
         /\ k = 11 => Head(todo).area = "work" /\ Head(todo).block = 1
         /\ k = 12 => Head(todo).area = "work" /\ Head(todo).block = 2
         /\ k = 13 => Head(todo).area = "work" /\ Head(todo).block = 1
         /\ k = 14 => Head(todo).area = "work" /\ Head(todo).block = 2
<1>1. PICK clean \in Cleans : Head(todo) = MoveSteps(clean)[k]
  BY MoveHere
<1>2. /\ k = 2 => Head(todo) = Erasing("spare", 1)
      /\ k = 3 => Head(todo) = Erasing("spare", 2)
  BY <1>1, MoveStepsAre
<1>3. /\ k = 3 => Head(todo) = Erasing("spare", 2)
      /\ k = 4 => Head(todo) = Writing("spare", 1)
      /\ k = 5 => Head(todo) = Writing("spare", 2)
      /\ k \in {6, 8} => Head(todo) = Mark("WorkingBlockValid", "spare")
      /\ k \in {7, 10} => Head(todo) = Mark("WorkingBlockInvalid", "work")
  BY <1>1, MoveStepsAre
<1>4. /\ k = 2 => Head(todo) = Erasing("spare", 1)
      /\ k = 11 => Head(todo) = Erasing("work", 1)
      /\ k = 12 => Head(todo) = Erasing("work", 2)
      /\ k = 13 => Head(todo) = Writing("work", 1)
      /\ k = 14 => Head(todo) = Writing("work", 2)
      /\ k = 15 => Head(todo) = Mark("WorkingBlockValid", "work")
  BY <1>1, MoveStepsAre
<1>5. \A area, b : /\ Erasing(area, b).area = area /\ Erasing(area, b).block = b
                   /\ Writing(area, b).area = area /\ Writing(area, b).block = b
                   /\ \A bit : Mark(bit, area).area = area
  BY DoIs
<1> QED
  BY <1>3, <1>4, <1>5

\* The spare block is written in a reclaim before it counts.
LEMMA MoveSpare ==
  ASSUME IInv, AInv, NEW k \in 2..5, MoveAt(k), NEW b \in 1..2, k \in {3, 5} <=> b = 2,
         NEW c, SetBlock("spare", b, c), GoOn, platform' = platform, buffer' = buffer,
         k = 3 => c = Erased, k = 5 => c = buffer[2]
  PROVE  AInv' /\ Same
<1>1. MoveHas(k) /\ Steady(platform)
  BY MoveHere
<1>2. flash'["work"] = flash["work"] /\ TargetsSame
  BY <1>1, SpareSet
<1>3. Length' = Length /\ (IsOpen' <=> IsOpen) /\ (IsValid' <=> IsValid)
  BY <1>2, WorkSame
<1>4. SpaceBlock(buffer[2]) /\ ~IsOpen
  BY <1>1 DEF MoveHas
<1>5. SpaceBlock(buffer[2])'
  BY <1>3, <1>4 DEF SpaceBlock
<1>6. flash'["spare"][b] = c /\ (b = 1 => flash'["spare"][2] = flash["spare"][2])
  BY AreasAre, SetIs
<1>7. k = 5 => ~Open(Queue("spare"), Length)'
  <2> SUFFICES ASSUME k = 5 PROVE ~Open(Queue("spare"), Length)'
    OBVIOUS
  <2>1. flash'["spare"][2] = buffer[2] /\ buffer[2].kind = "space" /\ ~Open(buffer[2].queue, Length)
    BY <1>4, <1>6 DEF SpaceBlock
  <2>2. Queue("spare")' = buffer[2].queue
    BY <2>1, QueueOf
  <2> QED
    BY <1>3, <2>1, <2>2
<1>8. k = 3 => SpareClosed'
  <2> SUFFICES ASSUME k = 3 PROVE SpareClosed'
    OBVIOUS
  <2>1. flash'["spare"][2] = Erased
    BY <1>6
  <2> QED
    BY <2>1 DEF SpareClosed, IsValidWorkSpace, Erased
<1>9. b = 1 => (SpareClosed' <=> SpareClosed)
  BY <1>3, <1>6, QueueOf DEF SpareClosed
<1>10. ~IsValid' => SpareClosed'
  <2>1. CASE k = 5
    BY <1>7, <2>1 DEF SpareClosed
  <2>2. CASE k # 5
    BY <1>1, <1>3, <1>8, <1>9, <2>2 DEF MoveHas
  <2> QED
    BY <2>1, <2>2
<1>11. ~IsOpen'
  BY <1>3, <1>4
<1>12. MoveHas(k + 1)'
  <2>1. CASE k = 5
    <3>1. MoveHas(6)'
      BY <1>7, <1>10, <1>11, <2>1 DEF MoveHas
    <3> QED
      BY <2>1, <3>1
  <2>2. CASE k \in 2..4
    <3>1. MoveHas(k + 1)'
      BY <1>5, <1>10, <1>11, <2>2 DEF MoveHas
    <3> QED
      BY <3>1
  <2> QED
    BY <2>1, <2>2
<1> QED
  BY <1>2, <1>12, MoveGoes

\* The working block is written while the spare block has the work space.
LEMMA MoveWork ==
  ASSUME IInv, AInv, NEW k \in 11..14, MoveAt(k), NEW b \in 1..2, k \in {12, 14} <=> b = 2,
         NEW c, SetBlock("work", b, c), GoOn, platform' = platform, buffer' = buffer,
         k = 12 => c = Erased, k = 14 => c = buffer[2]
  PROVE  AInv' /\ Same
<1>1. MoveHas(k) /\ Steady(platform)
  BY MoveHere
<1>2. flash'["spare"] = flash["spare"] /\ TargetsSame
  BY <1>1, WorkSet
<1>3. Length' = Length /\ Queue("spare")' = Queue("spare")
  BY <1>2, SpareSame
<1>4. SpaceBlock(buffer[2]) /\ Formatted(buffer[2]) /\ ~IsOpen /\ ~Open(Queue("spare"), Length)
  BY <1>1 DEF MoveHas
<1>5. SpaceBlock(buffer[2])' /\ Formatted(buffer[2])' /\ ~Open(Queue("spare"), Length)'
  BY <1>3, <1>4 DEF SpaceBlock, Formatted
<1>6. flash'["work"][b] = c /\ (b = 1 => flash'["work"][2] = flash["work"][2])
  BY AreasAre, SetIs
<1>7. ~IsOpen'
  <2>1. CASE b = 1
    BY <1>4, <1>6, <2>1, WorkSame
  <2>2. CASE k = 12
    <3>1. flash'["work"][2].kind # "space"
      BY <1>6, <2>2 DEF Erased
    <3> QED
      BY <3>1, QueueOf DEF IsOpen, WorkQueue
  <2>3. CASE k = 14
    <3>1. flash'["work"][2] = buffer[2] /\ buffer[2].kind = "space" /\ ~Open(buffer[2].queue, Length)
      BY <1>4, <1>6, <2>3 DEF SpaceBlock
    <3>2. WorkQueue' = buffer[2].queue
      BY <3>1, QueueOf DEF WorkQueue
    <3> QED
      BY <1>3, <3>1, <3>2 DEF IsOpen
  <2> QED
    BY <2>1, <2>2, <2>3
<1>8. ~IsValid' => SpareClosed'
  BY <1>5 DEF SpareClosed
<1>9. k = 14 => Formatted(flash["work"][2])'
  BY <1>4, <1>6 DEF Formatted
<1>10. MoveHas(k + 1)'
  <2>1. CASE k = 14
    <3>1. MoveHas(15)'
      BY <1>5, <1>7, <1>8, <1>9, <2>1 DEF MoveHas
    <3> QED
      BY <2>1, <3>1
  <2>2. CASE k \in 11..13
    BY <1>5, <1>7, <1>8, <2>2 DEF MoveHas
  <2> QED
    BY <2>1, <2>2
<1> QED
  BY <1>2, <1>10, MoveGoes

LEMMA MoveWriters ==
  ASSUME IInv, AInv, InMove, Erase \/ Write
  PROVE  AInv' /\ Same
<1>1. PICK k \in 1..15 : MoveAt(k)
  BY DEF InMove
<1>2. PICK clean \in Cleans : On(todo, MoveSteps(clean), 15, k) /\ Head(todo) = MoveSteps(clean)[k]
  BY <1>1, MoveHere
<1>3. GoOn /\ platform' = platform /\ buffer' = buffer
  BY DEF Erase, Write, counters, volatile
<1>4. CASE Erase
  <2>1. k \in {2, 3, 11, 12}
    BY <1>2, <1>4, MoveNumber DEF Erase, At
  <2>2. SetBlock(Head(todo).area, Head(todo).block, Erased)
    BY <1>4 DEF Erase
  <2>3. k = 2 => SetBlock("spare", 1, Erased)
    BY <1>1, <2>2, MoveBlock
  <2>4. k = 3 => SetBlock("spare", 2, Erased)
    BY <1>1, <2>2, MoveBlock
  <2>5. k = 11 => SetBlock("work", 1, Erased)
    BY <1>1, <2>2, MoveBlock
  <2>6. k = 12 => SetBlock("work", 2, Erased)
    BY <1>1, <2>2, MoveBlock
  <2>7. CASE k \in {2, 3}
    BY <1>1, <1>3, <2>3, <2>4, <2>7, MoveSpare
  <2>8. CASE k \in {11, 12}
    BY <1>1, <1>3, <2>5, <2>6, <2>8, MoveWork
  <2> QED
    BY <2>1, <2>7, <2>8
<1>5. CASE Write
  <2>1. k \in {4, 5, 13, 14}
    BY <1>2, <1>5, MoveNumber DEF Write, At
  <2>2. SetBlock(Head(todo).area, Head(todo).block, buffer[Head(todo).block])
    BY <1>5 DEF Write
  <2>3. k = 4 => SetBlock("spare", 1, buffer[1])
    BY <1>1, <2>2, MoveBlock
  <2>4. k = 5 => SetBlock("spare", 2, buffer[2])
    BY <1>1, <2>2, MoveBlock
  <2>5. k = 13 => SetBlock("work", 1, buffer[1])
    BY <1>1, <2>2, MoveBlock
  <2>6. k = 14 => SetBlock("work", 2, buffer[2])
    BY <1>1, <2>2, MoveBlock
  <2>7. CASE k \in {4, 5}
    BY <1>1, <1>3, <2>3, <2>4, <2>7, MoveSpare
  <2>8. CASE k \in {13, 14}
    BY <1>1, <1>3, <2>5, <2>6, <2>8, MoveWork
  <2> QED
    BY <2>1, <2>7, <2>8
<1> QED
  BY <1>4, <1>5

\* The bits of the working block header.
LEMMA HeaderBit ==
  ASSUME IInv, NEW a \in {"work", "spare"}, NEW c, SetBlock(a, 2, c), platform' = platform,
         c \in {[Space(a) EXCEPT !.valid = TRUE], [Space(a) EXCEPT !.invalid = TRUE]}
  PROVE  /\ flash'[a][2] = c /\ c.kind = "space" /\ c.formatted = Space(a).formatted
         /\ Queue(a)' = Queue(a)
         /\ c = [Space(a) EXCEPT !.valid = TRUE] => c.valid /\ c.invalid = Space(a).invalid
<1> DEFINE s == Space(a)
<1>1. a \in Areas /\ 2 \in 1..2
  BY AreasAre
<1>2. flash'[a][2] = c
  BY <1>1, SetIs
<1>3. s \in GoodSpaces(platform) /\ Queue(a) = s.queue
  BY <1>1, SpaceIs
<1>4. c \in {[s EXCEPT !.valid = TRUE], [s EXCEPT !.invalid = TRUE]}
  OBVIOUS
<1>5. (c = [Space(a) EXCEPT !.valid = TRUE]) <=> (c = [s EXCEPT !.valid = TRUE])
  OBVIOUS
<1>6. s.formatted = Space(a).formatted /\ s.invalid = Space(a).invalid
  OBVIOUS
<1> HIDE DEF s
<1>7. c.kind = "space" /\ c.formatted = s.formatted /\ c.queue = s.queue
      /\ (c = [s EXCEPT !.valid = TRUE] => c.valid /\ c.invalid = s.invalid)
  BY <1>3, <1>4 DEF GoodSpaces
<1>8. Queue(a)' = c.queue
  BY <1>2, <1>7, QueueOf
<1> QED
  BY <1>2, <1>3, <1>5, <1>6, <1>7, <1>8

LEMMA MoveMarksSpare ==
  ASSUME IInv, AInv, NEW k \in {6, 8}, MoveAt(k), MarkValid
  PROVE  AInv' /\ Same
<1> DEFINE c == [Space("spare") EXCEPT !.valid = TRUE]
<1>1. GoOn /\ platform' = platform /\ buffer' = buffer
  BY DEF MarkValid, counters, volatile
<1>2. SetBlock("spare", 2, c)
  BY MoveBlock DEF MarkValid
<1>3. MoveHas(k) /\ Steady(platform)
  BY MoveHere
<1>4. flash'["work"] = flash["work"] /\ TargetsSame
  BY <1>2, <1>3, AreasAre, SpareSet
<1>5. Length' = Length /\ (IsOpen' <=> IsOpen) /\ (IsValid' <=> IsValid)
  BY <1>1, <1>4, WorkSame
<1>6. Queue("spare")' = Queue("spare")
  BY <1>1, <1>2, HeaderBit
<1>7. ~Open(Queue("spare"), Length) /\ ~IsOpen
  BY <1>3 DEF MoveHas
<1>8. ~Open(Queue("spare"), Length)' /\ ~IsOpen' /\ SpareClosed'
  BY <1>5, <1>6, <1>7 DEF SpareClosed
<1>9. MoveHas(7)' /\ MoveHas(9)'
  BY <1>8 DEF MoveHas
<1>10. MoveHas(k + 1)'
  BY <1>9
<1> QED
  BY <1>1, <1>4, <1>10, MoveGoes

LEMMA MoveMarksWork ==
  ASSUME IInv, AInv, NEW k \in {7, 10, 15}, MoveAt(k), MarkInvalid \/ MarkValid,
         MarkValid <=> k = 15
  PROVE  AInv' /\ Same
<1> DEFINE c == IF k = 15 THEN [Space("work") EXCEPT !.valid = TRUE]
                ELSE [Space("work") EXCEPT !.invalid = TRUE]
<1>1. GoOn /\ platform' = platform /\ buffer' = buffer
  BY DEF MarkValid, MarkInvalid, counters, volatile
<1>2. SetBlock("work", 2, c)
  BY MoveBlock DEF MarkValid, MarkInvalid
<1>3. MoveHas(k) /\ Steady(platform)
  BY MoveHere
<1>4. flash'["spare"] = flash["spare"] /\ TargetsSame
  BY <1>2, <1>3, AreasAre, WorkSet
<1>5. Length' = Length /\ Queue("spare")' = Queue("spare")
  BY <1>1, <1>4, SpareSame
<1>6. /\ flash'["work"][2] = c /\ c.kind = "space" /\ c.formatted = Space("work").formatted
      /\ Queue("work")' = Queue("work")
      /\ k = 15 => c.valid /\ c.invalid = Space("work").invalid
  <2>1. c \in {[Space("work") EXCEPT !.valid = TRUE], [Space("work") EXCEPT !.invalid = TRUE]}
    OBVIOUS
  <2>2. k = 15 => c = [Space("work") EXCEPT !.valid = TRUE]
    OBVIOUS
  <2> HIDE DEF c
  <2> QED
    BY <1>1, <1>2, <2>1, <2>2, HeaderBit
<1> HIDE DEF c
<1>7. ~Open(Queue("spare"), Length) /\ ~IsOpen
  BY <1>3 DEF MoveHas
<1>8. ~Open(Queue("spare"), Length)' /\ ~IsOpen' /\ SpareClosed'
  BY <1>5, <1>6, <1>7 DEF SpareClosed, IsOpen, WorkQueue
<1>9. CASE k = 7
  <2>1. MoveHas(8)'
    BY <1>8 DEF MoveHas
  <2>2. MoveHas(k + 1)'
    BY <1>9, <2>1
  <2> QED
    BY <1>1, <1>4, <2>2, MoveGoes
<1>10. CASE k = 10
  <2>1. SpaceBlock(buffer[2]) /\ Formatted(buffer[2])
    BY <1>3, <1>10 DEF MoveHas
  <2>2. SpaceBlock(buffer[2])' /\ Formatted(buffer[2])'
    BY <1>1, <1>5, <2>1 DEF SpaceBlock, Formatted
  <2>3. MoveHas(11)'
    BY <1>8, <2>2 DEF MoveHas
  <2>4. MoveHas(k + 1)'
    BY <1>10, <2>3
  <2> QED
    BY <1>1, <1>4, <2>4, MoveGoes
<1>11. CASE k = 15
  <2>1. Formatted(flash["work"][2])
    BY <1>3, <1>11 DEF MoveHas
  <2>2. Space("work").formatted /\ ~Space("work").invalid
    BY <2>1 DEF Formatted, Space, AsSpace
  <2>3. IsValid'
    BY <1>6, <1>11, <2>2 DEF IsValid, IsValidWorkSpace
  <2>4. MoveHas(16)'
    BY <1>8, <2>3 DEF MoveHas
  <2>5. MoveHas(k + 1)'
    BY <1>11, <2>4
  <2> QED
    BY <1>1, <1>4, <2>5, MoveGoes
<1> QED
  BY <1>9, <1>10, <1>11

LEMMA MoveMarks ==
  ASSUME IInv, AInv, InMove, MarkValid \/ MarkInvalid
  PROVE  AInv' /\ Same
<1>1. PICK k \in 1..15 : MoveAt(k)
  BY DEF InMove
<1>2. PICK clean \in Cleans : On(todo, MoveSteps(clean), 15, k) /\ Head(todo) = MoveSteps(clean)[k]
  BY <1>1, MoveHere
<1>3. (MarkValid => Head(todo).do = "WorkingBlockValid") /\ (MarkInvalid => Head(todo).do = "WorkingBlockInvalid")
  BY DEF MarkValid, MarkInvalid, At
<1>4. (MarkValid => k \in {6, 8, 15}) /\ (MarkInvalid => k \in {7, 10})
  BY <1>2, <1>3, MoveNumber
<1>5. CASE k \in {6, 8}
  BY <1>1, <1>4, <1>5, MoveMarksSpare
<1>6. CASE k \in {7, 10, 15}
  <2>1. MarkValid <=> k = 15
    BY <1>4, <1>6
  <2> QED
    BY <1>1, <1>6, <2>1, MoveMarksWork
<1> QED
  BY <1>4, <1>5, <1>6

\* No step of a reclaim spoils anything.
LEMMA MoveStep ==
  ASSUME IInv, AInv, InMove, Driver
  PROVE  AInv' /\ Same
<1>1. PICK k \in 1..15 : MoveAt(k)
  BY DEF InMove
<1>2. PICK clean \in Cleans : Head(todo) = MoveSteps(clean)[k]
  BY <1>1, MoveHere
<1>3. Head(todo).do \in {"CleanUp", "CleanAll", "Erase", "Write", "WorkingBlockValid", "WorkingBlockInvalid",
                         "LoadSpareAsWork"}
  <2>1. MoveSteps(clean)[k].do \in Cleans \cup {"Erase", "Write", "WorkingBlockValid", "WorkingBlockInvalid",
                                              "LoadSpareAsWork"}
    BY MoveNumber
  <2> QED
    BY <1>2, <2>1 DEF Cleans
<1>4. Erase \/ Write \/ CleanUp \/ CleanAll \/ MarkValid \/ MarkInvalid \/ LoadSpareAsWork
  BY <1>3 DEF Driver, FlashAccess, Restore, MarkSpareComplete, MarkDestComplete, MarkComplete,
              AllocateWriteHeader, MarkWritesAllocated, WriteRecordCell, ReclaimWhenFull, FindLastWrite,
              LoadSpare, AllocateHeader, NeedHeader, CheckRecord, LoadTarget, CheckRestart, AbortWrites,
              LastWrite, NotFound, Success, ChooseWorkSpace, AbortFirstRecord, AbortLastRecord,
              CheckRemainder, RestartLastWrite, HookServices, At
<1> QED
  BY <1>4, MoveWriters, MoveCleans, MoveMarks, MoveLoads

-----------------------------------------------------------------------------
(***************************************************************************)
(* The steps of a write.                                                   *)
(***************************************************************************)
\* What holds before step j of a write to block t, and behind the last.
WriteHas(t, k) ==
  /\ IsValid
  /\ k <= 13 => IsOpen /\ Fresh
  /\ k \in 2..13 => WorkQueue[record].kind = "record" /\ WorkQueue[record].target = t
  /\ k <= 7 => /\ request.op = "write" /\ t = request.target
               /\ ~SpareDone(WorkQueue, record) /\ ~DestDone(WorkQueue, record)
  /\ k \in 3..7 => buffer = NewContents
  /\ k \in 6..7 => flash["spare"][1] = buffer[1]
  /\ k = 7 => flash["spare"][2] = buffer[2]
  /\ k \in 8..13 =>
       /\ IsSpared
       /\ up => request.op = "write" /\ t = request.target /\ flash["spare"] = NewContents
  /\ k \in 9..13 => buffer = flash["spare"]
  /\ k \in 12..13 => flash[t][1] = buffer[1]
  /\ k = 13 => flash[t][2] = buffer[2]

LEMMA WriteHere ==
  ASSUME IInv, AInv, NEW t, NEW k, WriteAt(t, k)
  PROVE  /\ k \in 1..13 /\ todo # <<>> /\ WriteHas(t, k) /\ Head(todo) = WriteSteps(t)[k]
         /\ t \in platform.writable /\ t \in Areas /\ t # "work" /\ t # "spare"
         /\ On(todo, WriteSteps(t), 13, k)
         /\ Steady(platform) /\ platform.writable \subseteq Areas
         /\ (\A m : ~InBoot(m)) /\ ~InRestart /\ ~InAbort /\ ~CompleteAt /\ ~InMove
         /\ k \in {3, 4, 9, 10} <=> Head(todo).do = "Erase"
         /\ k \in {5, 6, 11, 12} <=> Head(todo).do = "Write"
<1>1. todo # <<>> /\ Head(todo) = WriteSteps(t)[k] /\ k \in 1..13 /\ ~AllQuiet(todo)
  BY WriteHead
<1>2. On(todo, WriteSteps(t), 13, k) /\ t \in platform.writable
  BY DEF WriteAt
<1>3. WriteHas(t, k)
  BY <1>1 DEF WriteAt, WriteHas
<1>4. Steady(platform)
  BY DEF AInv
<1>5. t \in Areas /\ t # "work" /\ t # "spare" /\ platform.writable \subseteq Areas
  BY <1>2, <1>4, WritableIs
<1>6. (\A m : ~InBoot(m)) /\ ~InRestart /\ ~InAbort /\ ~CompleteAt
  BY <1>1 DEF InBoot, BootAt, InRestart, RestartAt, InAbort, AbortAt, CompleteAt
<1>7. ~InMove
  BY <1>2, MoveNotWrite DEF InMove, MoveAt
<1>8. (k \in {3, 4, 9, 10} <=> Head(todo).do = "Erase") /\ (k \in {5, 6, 11, 12} <=> Head(todo).do = "Write")
  BY <1>1, WriteNumber
<1> QED
  BY <1>1, <1>2, <1>3, <1>4, <1>5, <1>6, <1>7, <1>8

\* A write goes on to its next step.
LEMMA WriteNext ==
  ASSUME IInv, AInv, NEW t, NEW k, WriteAt(t, k), k < 13, GoOn, platform' = platform, WriteHas(t, k + 1)'
  PROVE  /\ WriteAt(t, k + 1)' /\ InWrite(1, 13)' /\ Ordered' /\ Succeeds'
         /\ k + 1 \in 2..7 => InWrite(2, 7)'
         /\ k + 1 \in 8..13 => InWrite(8, 13)'
         /\ Lacks(todo', {"CheckRemainder"}) /\ Steady(platform')
<1>1. /\ k \in 1..13 /\ todo # <<>> /\ Head(todo) = WriteSteps(t)[k] /\ t \in platform.writable
      /\ On(todo, WriteSteps(t), 13, k) /\ Steady(platform)
      /\ (\A m : ~InBoot(m)) /\ ~InAbort /\ ~CompleteAt
  BY WriteHere
<1>2. todo \in Seq(Steps(request.op)) /\ todo' = Tail(todo) /\ up' = up /\ request' = request
  BY PlanIs DEF GoOn
<1>3. On(todo', WriteSteps(t), 13, k + 1)
  BY <1>1, <1>2, OnTail
<1>4. k + 1 \in 1..13
  BY <1>1
<1>5. WriteAt(t, k + 1)'
  BY <1>1, <1>3, <1>4 DEF WriteHas, WriteAt
<1>6. InWrite(1, 13)' /\ (k + 1 \in 2..7 => InWrite(2, 7)') /\ (k + 1 \in 8..13 => InWrite(8, 13)')
  BY <1>1, <1>4, <1>5 DEF InWrite
<1>7. Head(todo).do \in {"WriteRecord", "LoadTarget", "Erase", "Write", "spareComplete", "LoadSpare", "destComplete"}
  BY <1>1, WriteNumber
<1>8. Ordered'
  <2>1. Head(todo).do \notin {"CheckRecord", "Success", "FindLastWrite"}
    BY <1>7
  <2>2. Ordered
    BY DEF AInv
  <2> QED
    BY <1>1, <1>2, <2>1, <2>2, OrderedOn
<1>9. IsOpen
  <2>1. WriteHas(t, k)
    BY WriteHere
  <2> QED
    BY <1>1, <2>1 DEF WriteHas
<1>10. Lacks(todo, {"CheckRemainder"})
  BY <1>1, <1>9 DEF AInv, Standing, Remains
<1>11. Lacks(todo', {"CheckRemainder"})
  BY <1>1, <1>2, <1>10, QuietTail
<1> QED
  BY <1>1, <1>5, <1>6, <1>8, <1>11 DEF Succeeds

\* Until the spare block counts, the targets have their contents.
LEMMA EarlyStands ==
  ASSUME IInv, AInv, NEW t, NEW k, WriteAt(t, k), k <= 6, GoOn, platform' = platform, TargetsSame,
         WriteHas(t, k + 1)', ~IsSpared', IsWaiting' => LastCellOf'.target \in platform.writable
  PROVE  AInv' /\ Same
<1>1. k \in 1..13 /\ WriteHas(t, k)
  BY WriteHere
<1>2. /\ WriteAt(t, k + 1)' /\ InWrite(1, 13)' /\ Ordered' /\ Succeeds' /\ InWrite(2, 7)'
      /\ Lacks(todo', {"CheckRemainder"}) /\ Steady(platform')
  <2>1. k < 13 /\ k + 1 \in 2..7
    BY <1>1
  <2> QED
    BY <2>1, WriteNext
<1>3. ~IsSpared
  <2>1. Fresh /\ ~SpareDone(WorkQueue, record)
    BY <1>1 DEF WriteHas
  <2> QED
    BY <2>1, FreshFound DEF IsSpared, Spared
<1>4. Shelved' /\ SpareKept'
  BY DEF Shelved, SpareKept, WriteHas
<1>5. TargetsWhole'
  BY <1>3 DEF AInv, Standing, TargetsWhole, TargetsSame, Even
<1>6. Remains' /\ Left'
  BY <1>2 DEF Remains, Left
<1>7. Same
  BY <1>3 DEF Same, Held, TargetsSame
<1> QED
  BY <1>2, <1>4, <1>5, <1>6, <1>7 DEF AInv, Shape, Standing

\* From then on the target's contents are in the spare block.
LEMMA LateStands ==
  ASSUME IInv, AInv, NEW t, NEW k, WriteAt(t, k), k \in 8..12, GoOn, platform' = platform,
         flash'["work"] = flash["work"], flash'["spare"] = flash["spare"],
         \A u \in platform.writable : u # t => flash'[u] = flash[u],
         WriteHas(t, k + 1)'
  PROVE  AInv' /\ Same
<1>1. WriteHas(t, k) /\ t \in platform.writable
  BY WriteHere
<1>2. /\ WriteAt(t, k + 1)' /\ InWrite(1, 13)' /\ Ordered' /\ Succeeds' /\ InWrite(8, 13)'
      /\ Lacks(todo', {"CheckRemainder"}) /\ Steady(platform')
  <2>1. k < 13 /\ k + 1 \in 8..13
    OBVIOUS
  <2> QED
    BY <2>1, WriteNext
<1>3. IsSpared /\ LastCellOf.target = t
  <2>1. Fresh /\ IsSpared /\ WorkQueue[record].target = t
    BY <1>1 DEF WriteHas
  <2> QED
    BY <2>1, FreshFound
<1>4. /\ IsSpared' /\ LastCellOf' = LastCellOf /\ IsValid'
      /\ SpareDone(WorkQueue, Last(WorkQueue, Length))'
  BY <1>1, <1>3, WorkSame, OpenWaits DEF WriteHas
<1>5. Shelved'
  BY <1>4 DEF Shelved
<1>6. Even(flash["spare"])'
  BY <1>3 DEF AInv, Standing, SpareKept, Even
<1>7. SpareKept'
  BY <1>1, <1>2, <1>3, <1>4, <1>6 DEF SpareKept
<1>8. TargetsWhole'
  BY <1>3, <1>4 DEF AInv, Standing, TargetsWhole, Even
<1>9. Remains' /\ Left'
  BY <1>1, <1>2, <1>3, <1>4 DEF Remains, Left
<1>10. Same
  BY <1>3, <1>4 DEF Same, Held
<1> QED
  BY <1>2, <1>5, <1>7, <1>8, <1>9, <1>10 DEF AInv, Shape, Standing

\* A step that leaves the work space alone, before the spare block counts.
LEMMA EarlySame ==
  ASSUME IInv, AInv, NEW t, NEW k, WriteAt(t, k), k \in 2..6, GoOn, platform' = platform, TargetsSame,
         flash'["work"] = flash["work"], header' = header, record' = record,
         k \in 2..6 => buffer' = NewContents,
         k \in 5..6 => flash'["spare"][1] = buffer'[1],
         k = 6 => flash'["spare"][2] = buffer'[2]
  PROVE  AInv' /\ Same
<1>1. WriteHas(t, k) /\ t \in platform.writable
  BY WriteHere
<1>2. /\ IsValid /\ IsOpen /\ Fresh /\ WorkQueue[record].kind = "record" /\ WorkQueue[record].target = t
      /\ request.op = "write" /\ t = request.target
      /\ ~SpareDone(WorkQueue, record) /\ ~DestDone(WorkQueue, record)
  BY <1>1 DEF WriteHas
<1>3. /\ IsValid' /\ IsOpen' /\ WorkQueue' = WorkQueue /\ (IsSpared' <=> IsSpared)
      /\ LastCellOf' = LastCellOf
  BY <1>2, WorkSame
<1>4. Fresh'
  BY <1>2, FreshSame
<1>5. request' = request /\ up' = up
  BY DEF GoOn
<1>6. NewContents' = NewContents
  BY <1>5 DEF NewContents
<1>7. /\ WorkQueue'[record'].kind = "record" /\ WorkQueue'[record'].target = t
      /\ request'.op = "write" /\ t = request'.target
      /\ ~SpareDone(WorkQueue, record)' /\ ~DestDone(WorkQueue, record)'
      /\ buffer' = NewContents'
  BY <1>2, <1>3, <1>5, <1>6
<1>8. WriteHas(t, k + 1)'
  BY <1>3, <1>4, <1>7 DEF WriteHas
<1>9. ~IsSpared' /\ LastCellOf'.target \in platform.writable
  <2>1. ~IsSpared /\ LastCellOf.target = t
    BY <1>2, FreshFound DEF IsSpared, Spared
  <2> QED
    BY <1>1, <1>3, <2>1
<1>10. k <= 6
  OBVIOUS
<1> QED
  BY <1>8, <1>9, <1>10, EarlyStands

LEMMA WriteLoadsTarget ==
  ASSUME IInv, AInv, NEW t, NEW k, WriteAt(t, k), LoadTarget
  PROVE  AInv' /\ Same
<1>1. /\ Head(todo).do = "LoadTarget" /\ GoOn /\ platform' = platform /\ flash' = flash
      /\ header' = header /\ record' = record
      /\ buffer' = <<Data(request.value),
                     IF request.target = "work" THEN flash["work"][2] ELSE Data(request.value)>>
  BY DEF LoadTarget, At, counters
<1>2. k \in 1..13 /\ Head(todo) = WriteSteps(t)[k] /\ WriteHas(t, k) /\ t # "work"
  BY WriteHere
<1>3. k = 2
  BY <1>1, <1>2, WriteNumber
<1>4. t = request.target
  BY <1>2, <1>3 DEF WriteHas
<1>5. buffer' = NewContents
  BY <1>1, <1>2, <1>4 DEF NewContents
<1>6. TargetsSame /\ flash'["work"] = flash["work"]
  BY <1>1 DEF TargetsSame
<1> QED
  BY <1>1, <1>3, <1>5, <1>6, EarlySame

\* Which blocks the steps of a write erase and write.
LEMMA WriteBlock ==
  ASSUME IInv, AInv, NEW t, NEW k, WriteAt(t, k)
  PROVE  /\ k \in 3..6 => Head(todo).area = "spare"
         /\ k \in 9..12 => Head(todo).area = t
         /\ k \in {3, 5, 9, 11} => Head(todo).block = 1
         /\ k \in {4, 6, 10, 12} => Head(todo).block = 2
<1>1. Head(todo) = WriteSteps(t)[k] /\ k \in 1..13
  BY WriteHere
<1>2. /\ k = 3 => Head(todo) = Erasing("spare", 1)
      /\ k = 4 => Head(todo) = Erasing("spare", 2)
      /\ k = 5 => Head(todo) = Writing("spare", 1)
      /\ k = 6 => Head(todo) = Writing("spare", 2)
      /\ k = 9 => Head(todo) = Erasing(t, 1)
      /\ k = 10 => Head(todo) = Erasing(t, 2)
      /\ k = 11 => Head(todo) = Writing(t, 1)
      /\ k = 12 => Head(todo) = Writing(t, 2)
  BY <1>1, WriteStepsAre
<1>3. \A area, b : /\ Erasing(area, b).area = area /\ Erasing(area, b).block = b
                   /\ Writing(area, b).area = area /\ Writing(area, b).block = b
  BY DoIs
<1> QED
  BY <1>1, <1>2, <1>3

LEMMA WriteSpareBlocks ==
  ASSUME IInv, AInv, NEW t, NEW k, WriteAt(t, k), k \in 3..6, NEW b \in 1..2, k = 6 <=> b = 2 /\ k > 4,
         k = 5 => b = 1,
         NEW c, SetBlock("spare", b, c), k \in 5..6 => c = buffer[b],
         GoOn, platform' = platform, buffer' = buffer, header' = header, record' = record
  PROVE  AInv' /\ Same
<1>1. WriteHas(t, k) /\ Steady(platform)
  BY WriteHere
<1>2. flash'["work"] = flash["work"] /\ TargetsSame
  BY <1>1, SpareSet
<1>3. buffer = NewContents /\ (k = 6 => flash["spare"][1] = buffer[1])
  BY <1>1 DEF WriteHas
<1>4. flash'["spare"][b] = c /\ \A y \in 1..2 : y # b => flash'["spare"][y] = flash["spare"][y]
  BY AreasAre, SetIs
<1>5. k \in 5..6 => flash'["spare"][1] = buffer'[1]
  BY <1>3, <1>4
<1>6. k = 6 => flash'["spare"][2] = buffer'[2]
  BY <1>4
<1>7. k \in 2..6 /\ buffer' = NewContents
  BY <1>3
<1> QED
  BY <1>2, <1>5, <1>6, <1>7, EarlySame

\* The record of the write goes to its cell.
LEMMA WriteRecords ==
  ASSUME IInv, AInv, NEW t, NEW k, WriteAt(t, k), WriteRecordCell
  PROVE  AInv' /\ Same
<1>1. /\ Head(todo).do = "WriteRecord" /\ GoOn /\ platform' = platform
      /\ header' = header /\ record' = record /\ buffer' = buffer /\ spareBuffer' = spareBuffer
  BY DEF WriteRecordCell, At, counters, volatile
<1>2. /\ k \in 1..13 /\ Head(todo) = WriteSteps(t)[k] /\ WriteHas(t, k) /\ t \in platform.writable
      /\ Steady(platform) /\ (\A m : ~InBoot(m)) /\ ~InAbort /\ ~CompleteAt
  BY WriteHere
<1>3. k = 1
  BY <1>1, <1>2, WriteNumber
<1>4. /\ IsValid /\ IsOpen /\ Fresh /\ t = request.target /\ request.op = "write"
      /\ ~SpareDone(WorkQueue, record) /\ ~DestDone(WorkQueue, record)
  BY <1>2, <1>3 DEF WriteHas
<1>5. /\ LastHeader(WorkQueue, Length) = header /\ LastRecord(WorkQueue, Length, header) = record
      /\ Last(WorkQueue, Length) = record /\ LastCellOf = WorkQueue[record]
      /\ header \in 1..(Length - 1) /\ Allocated(WorkQueue, header)
  BY <1>4, FreshFound
<1>6. Queued(record).kind = "record" => Queued(record).target = t
  <2> SUFFICES ASSUME WorkQueue[record].kind = "record" PROVE WorkQueue[record].target = t
    BY DEF Queued, WorkQueue
  <2>1. IsWaiting
    BY <1>4, <1>5 DEF IsWaiting, Waiting, IsOpen
  <2>2. ~InWrite(2, 7)
    <3> SUFFICES ASSUME NEW u, NEW j \in 2..7, WriteAt(u, j) PROVE FALSE
      BY DEF InWrite
    <3>1. Head(todo) = WriteSteps(u)[j] /\ j \in 1..13
      BY WriteHere
    <3> QED
      BY <1>1, <3>1, WriteNumber
  <2>3. LastCellOf.target \in platform.writable /\ OneWritable(platform)
    BY <1>2, <1>4, <1>5, <2>1, <2>2 DEF AInv, Standing, Left
  <2> QED
    BY <1>2, <1>5, <2>3 DEF OneWritable
<1>7. SetCell("work", record, WriteRecord(t))
  BY <1>4, <1>6 DEF WriteRecordCell
<1> DEFINE s == [WorkQueue EXCEPT ![record] = WriteRecord(t)]
<1>8. /\ Length \in Nat /\ HeaderWrites(platform) \in SUBSET Counts
      /\ WorkQueue \in Queues(Length, HeaderWrites(platform), RecordTargets(platform))
      /\ InOrder(WorkQueue, Length)
  BY WorkIs
<1>9. t \in RecordTargets(platform)
  BY <1>2 DEF RecordTargets
<1>10. s \in Queues(Length, HeaderWrites(platform), RecordTargets(platform)) /\ InOrder(s, Length)
  BY <1>4, <1>5, <1>8, <1>9, RecordWritten
<1>11. /\ Open(s, Length) /\ LastHeader(s, Length) = header
       /\ LastRecord(s, Length, header) = record /\ s[record] = WriteRecord(t)
  <2>1. /\ header = LastHeader(WorkQueue, Length) /\ record = LastRecord(WorkQueue, Length, header)
        /\ header \in 1..(Length - 1) /\ Allocated(WorkQueue, header) /\ ~DestDone(WorkQueue, record)
    BY <1>4, <1>5
  <2> QED
    BY <1>8, <1>9, <2>1, RecordOpen
<1>12. s \in GoodQueues(platform)
  BY <1>10 DEF GoodQueues, Length
<1>13. s = [WorkQueue EXCEPT ![record] = WriteRecord(t)]
  OBVIOUS
<1> HIDE DEF s
<1>14. /\ IsValid' /\ WorkQueue' = s /\ Length' = Length /\ TargetsSame
  BY <1>1, <1>2, <1>4, <1>7, <1>12, <1>13, CellValid
<1>15. IsOpen' /\ LastCellOf' = WriteRecord(t)
  BY <1>11, <1>14 DEF IsOpen, LastCellOf, Last
<1>16. Fresh'
  <2>1. /\ header' = LastHeader(WorkQueue', Length') /\ record' = LastRecord(WorkQueue', Length', header')
    BY <1>1, <1>11, <1>14
  <2> QED
    BY <2>1 DEF Fresh, WorkQueue, Length
<1>17. WorkQueue'[record'] = WriteRecord(t)
  BY <1>1, <1>11, <1>14
<1>18. /\ WriteRecord(t).kind = "record" /\ WriteRecord(t).target = t
       /\ ~WriteRecord(t).spareComplete /\ ~WriteRecord(t).destComplete
  BY DEF WriteRecord
<1>19. ~SpareDone(WorkQueue, record)' /\ ~DestDone(WorkQueue, record)'
  BY <1>17, <1>18 DEF SpareDone, DestDone
<1>20. request'.op = "write" /\ t = request'.target
  BY <1>1, <1>4 DEF GoOn
<1>21. WriteHas(t, 2)'
  BY <1>14, <1>15, <1>16, <1>17, <1>18, <1>19, <1>20 DEF WriteHas
<1>22. ~IsSpared' /\ LastCellOf'.target \in platform.writable
  BY <1>2, <1>15, <1>18 DEF IsSpared, Spared, LastCellOf, SpareDone
<1> QED
  BY <1>1, <1>3, <1>14, <1>21, <1>22, EarlyStands

\* A step of the copy of the spare block to the target.
LEMMA LateSame ==
  ASSUME IInv, AInv, NEW t, NEW k, WriteAt(t, k), k \in 8..12, GoOn, platform' = platform,
         flash'["work"] = flash["work"], flash'["spare"] = flash["spare"],
         \A u \in platform.writable : u # t => flash'[u] = flash[u],
         header' = header, record' = record, buffer' = flash["spare"],
         k \in 11..12 => flash'[t][1] = buffer'[1],
         k = 12 => flash'[t][2] = buffer'[2]
  PROVE  AInv' /\ Same
<1>1. WriteHas(t, k)
  BY WriteHere
<1>2. /\ IsValid /\ IsOpen /\ Fresh /\ IsSpared
      /\ WorkQueue[record].kind = "record" /\ WorkQueue[record].target = t
      /\ up => request.op = "write" /\ t = request.target /\ flash["spare"] = NewContents
  BY <1>1 DEF WriteHas
<1>3. /\ IsValid' /\ IsOpen' /\ IsSpared' /\ WorkQueue' = WorkQueue
  BY <1>2, WorkSame
<1>4. Fresh'
  BY <1>2, FreshSame
<1>5. request' = request /\ up' = up
  BY DEF GoOn
<1>6. NewContents' = NewContents
  BY <1>5 DEF NewContents
<1>7. /\ WorkQueue'[record'].kind = "record" /\ WorkQueue'[record'].target = t
      /\ up' => request'.op = "write" /\ t = request'.target /\ flash'["spare"] = NewContents'
      /\ buffer' = flash'["spare"]
  BY <1>2, <1>3, <1>5, <1>6
<1>8. k + 1 \in 9..13 /\ (k + 1 \in 12..13 <=> k \in 11..12) /\ (k + 1 = 13 <=> k = 12)
  OBVIOUS
<1>9. WriteHas(t, k + 1)'
  BY <1>3, <1>4, <1>7, <1>8 DEF WriteHas
<1> QED
  BY <1>9, LateStands

LEMMA WriteLoadsSpare ==
  ASSUME IInv, AInv, NEW t, NEW k, WriteAt(t, k), LoadSpare
  PROVE  AInv' /\ Same
<1>1. /\ Head(todo).do = "LoadSpare" /\ GoOn /\ platform' = platform /\ flash' = flash
      /\ header' = header /\ record' = record /\ buffer' = flash["spare"]
  BY DEF LoadSpare, At, counters
<1>2. k \in 1..13 /\ Head(todo) = WriteSteps(t)[k]
  BY WriteHere
<1>3. k = 8
  BY <1>1, <1>2, WriteNumber
<1> QED
  BY <1>1, <1>3, LateSame

LEMMA WriteTargetBlocks ==
  ASSUME IInv, AInv, NEW t, NEW k, WriteAt(t, k), k \in 9..12, NEW b \in 1..2, k \in {10, 12} <=> b = 2,
         NEW c, SetBlock(t, b, c), k \in 11..12 => c = buffer[b],
         GoOn, platform' = platform, buffer' = buffer, header' = header, record' = record
  PROVE  AInv' /\ Same
<1>1. /\ WriteHas(t, k) /\ t \in Areas /\ t # "work" /\ t # "spare" /\ platform.writable \subseteq Areas
  BY WriteHere
<1>2. /\ \A x \in Areas : x # t => flash'[x] = flash[x]
      /\ flash'[t][b] = c /\ \A y \in 1..2 : y # b => flash'[t][y] = flash[t][y]
  BY <1>1, SetIs
<1>3. /\ flash'["work"] = flash["work"] /\ flash'["spare"] = flash["spare"]
      /\ \A u \in platform.writable : u # t => flash'[u] = flash[u]
  BY <1>1, <1>2, AreasAre
<1>4. buffer' = flash["spare"] /\ (k = 12 => flash[t][1] = buffer[1])
  BY <1>1 DEF WriteHas
<1>5. k \in 11..12 => flash'[t][1] = buffer'[1]
  BY <1>2, <1>4
<1>6. k = 12 => flash'[t][2] = buffer'[2]
  BY <1>2
<1> QED
  BY <1>3, <1>4, <1>5, <1>6, LateSame

LEMMA WriteWriters ==
  ASSUME IInv, AInv, NEW t, NEW k, WriteAt(t, k), Erase \/ Write
  PROVE  AInv' /\ Same
<1>1. /\ GoOn /\ platform' = platform /\ buffer' = buffer /\ header' = header /\ record' = record
  BY DEF Erase, Write, counters, volatile
<1> DEFINE b == Head(todo).block
           c == IF Head(todo).do = "Write" THEN buffer[b] ELSE Erased
<1>2. SetBlock(Head(todo).area, b, c) /\ Head(todo).do \in {"Erase", "Write"}
  BY DEF Erase, Write, At
<1>3. (Head(todo).do = "Write" => c = buffer[b]) 
  OBVIOUS
<1>4. /\ k \in {3, 4, 9, 10} <=> Head(todo).do = "Erase"
      /\ k \in {5, 6, 11, 12} <=> Head(todo).do = "Write"
      /\ k \in 1..13
  BY WriteHere
<1>5. /\ k \in 3..6 => Head(todo).area = "spare"
      /\ k \in 9..12 => Head(todo).area = t
      /\ k \in {3, 5, 9, 11} => b = 1
      /\ k \in {4, 6, 10, 12} => b = 2
  BY WriteBlock
<1> HIDE DEF b, c
<1>6. k \in 3..6 \/ k \in 9..12
  BY <1>2, <1>4
<1>7. b \in 1..2
  BY <1>5, <1>6
<1>8. CASE k \in 3..6
  <2>1. SetBlock("spare", b, c)
    BY <1>2, <1>5, <1>8
  <2>2. (k = 6 <=> b = 2 /\ k > 4) /\ (k = 5 => b = 1) /\ (k \in 5..6 => c = buffer[b])
    BY <1>3, <1>4, <1>5, <1>8
  <2> QED
    BY <1>1, <1>7, <1>8, <2>1, <2>2, WriteSpareBlocks
<1>9. CASE k \in 9..12
  <2>1. SetBlock(t, b, c)
    BY <1>2, <1>5, <1>9
  <2>2. (k \in {10, 12} <=> b = 2) /\ (k \in 11..12 => c = buffer[b])
    BY <1>3, <1>4, <1>5, <1>9
  <2> QED
    BY <1>1, <1>7, <1>9, <2>1, <2>2, WriteTargetBlocks
<1> QED
  BY <1>6, <1>8, <1>9

LEMMA ImagesEqual ==
  ASSUME NEW p, NEW f \in Images(p), NEW g \in Images(p), f[1] = g[1], f[2] = g[2]
  PROVE  f = g
<1>1. \A b \in 1..2 : f[b] = g[b]
  <2>1. \A b \in 1..2 : b = 1 \/ b = 2
    OBVIOUS
  <2> QED
    BY <2>1
<1> QED
  BY <1>1 DEF Images

LEMMA EvenImage ==
  ASSUME NEW p, NEW f \in Images(p), NEW v \in Values, f[1] = Data(v), f[2] = Data(v)
  PROVE  f = <<Data(v), Data(v)>> /\ Even(f)
<1>1. Data(v) \in GoodBlocks(p)
  BY DEF GoodBlocks, Contents
<1>2. <<Data(v), Data(v)>> \in Images(p)
  BY <1>1 DEF Images
<1>3. f = <<Data(v), Data(v)>>
  <2> DEFINE g == <<Data(v), Data(v)>>
  <2>1. g[1] = Data(v) /\ g[2] = Data(v) /\ g \in Images(p)
    BY <1>2
  <2> HIDE DEF g
  <2>2. f = g
    BY <2>1, ImagesEqual
  <2> QED
    BY <2>2 DEF g
<1> QED
  BY <1>3 DEF Even

\* The contents that count have been replaced by what the caller gave.
Replaced ==
  /\ request.op = "write"
  /\ \A u \in platform.writable : Held(u)' = IF u = request.target THEN NewContents ELSE Held(u)

\* The moment of a write: the spare block counts.
LEMMA WriteMarksSpare ==
  ASSUME IInv, AInv, NEW t, NEW k, WriteAt(t, k), MarkSpareComplete
  PROVE  AInv' /\ Replaced
<1>1. /\ Head(todo).do = "spareComplete" /\ GoOn /\ platform' = platform /\ header' = header
      /\ record' = record /\ buffer' = buffer /\ spareBuffer' = spareBuffer
      /\ SetBit(Head(todo).area, record, "spareComplete")
  BY DEF MarkSpareComplete, At, counters, volatile
<1>2. /\ k \in 1..13 /\ Head(todo) = WriteSteps(t)[k] /\ WriteHas(t, k) /\ t \in platform.writable
      /\ Steady(platform)
  BY WriteHere
<1>3. k = 7
  BY <1>1, <1>2, WriteNumber
<1>4. Head(todo).area = "work"
  <2>1. Head(todo) = Mark("spareComplete", "work")
    BY <1>2, <1>3, WriteStepsAre
  <2> QED
    BY <2>1, DoIs
<1>5. /\ IsValid /\ IsOpen /\ Fresh /\ WorkQueue[record].kind = "record" /\ WorkQueue[record].target = t
      /\ request.op = "write" /\ t = request.target
      /\ ~SpareDone(WorkQueue, record) /\ ~DestDone(WorkQueue, record)
      /\ buffer = NewContents /\ flash["spare"][1] = buffer[1] /\ flash["spare"][2] = buffer[2]
  BY <1>2, <1>3 DEF WriteHas
<1>6. /\ LastHeader(WorkQueue, Length) = header /\ LastRecord(WorkQueue, Length, header) = record
      /\ Last(WorkQueue, Length) = record /\ LastCellOf = WorkQueue[record] /\ record \in 1..Length
  BY <1>5, FreshFound
<1>7. /\ IsValid' /\ WorkQueue' = Marked(WorkQueue, record, "spareComplete") /\ Length' = Length
      /\ TargetsSame /\ flash'["spare"] = flash["spare"]
  BY <1>1, <1>2, <1>4, <1>5, <1>6, BitValid DEF Bits
<1>8. /\ Length \in Nat /\ HeaderWrites(platform) \in SUBSET Counts
      /\ WorkQueue \in Queues(Length, HeaderWrites(platform), RecordTargets(platform))
      /\ InOrder(WorkQueue, Length)
  BY WorkIs
<1>9. Waiting(WorkQueue, Length) /\ ~IsSpared
  BY <1>5, <1>6 DEF Waiting, IsOpen, IsSpared, Spared
<1> DEFINE r == Marked(WorkQueue, record, "spareComplete")
<1>10. r = Marked(WorkQueue, Last(WorkQueue, Length), "spareComplete") /\ WorkQueue' = r
  BY <1>6, <1>7
<1> HIDE DEF r
<1>11. /\ Last(r, Length) = record /\ LastHeader(r, Length) = header /\ Spared(r, Length)
       /\ r[record].target = t /\ r[record].kind = "record"
  <2>1. /\ Last(r, Length) = Last(WorkQueue, Length)
        /\ LastHeader(r, Length) = LastHeader(WorkQueue, Length) /\ Spared(r, Length)
        /\ r[Last(r, Length)].target = WorkQueue[Last(WorkQueue, Length)].target
        /\ r[Last(r, Length)].kind = "record"
    BY <1>8, <1>9, <1>10, MarkSpared
  <2> QED
    BY <1>5, <1>6, <2>1
<1>12. IsSpared' /\ IsOpen' /\ LastCellOf'.target = t
  <2>1. IsSpared' /\ LastCellOf' = r[record]
    BY <1>7, <1>10, <1>11 DEF IsSpared, LastCellOf
  <2> QED
    BY <1>11, <2>1 DEF IsSpared, IsOpen, Spared
<1>13. Fresh'
  <2>1. header' = LastHeader(WorkQueue', Length') /\ record' = LastRecord(WorkQueue', Length', header')
    BY <1>1, <1>7, <1>10, <1>11 DEF Last
  <2> QED
    BY <2>1 DEF Fresh, WorkQueue, Length
<1>14. /\ WorkQueue'[record'].kind = "record" /\ WorkQueue'[record'].target = t
  BY <1>1, <1>10, <1>11
<1>15. flash["spare"] = NewContents /\ Even(flash["spare"])
  <2>1. request.value \in Values
    BY <1>5, AskedTarget
  <2>2. flash["spare"] \in Images(platform)
    BY AreasAre DEF IInv, Stored, Flashes
  <2>3. flash["spare"][1] = Data(request.value) /\ flash["spare"][2] = Data(request.value)
    BY <1>5 DEF NewContents
  <2> QED
    BY <2>1, <2>2, <2>3, EvenImage DEF NewContents
<1>16. /\ request' = request /\ up' = up /\ NewContents' = NewContents
  BY <1>1 DEF GoOn, NewContents
<1>17. request'.op = "write" /\ t = request'.target /\ flash'["spare"] = NewContents'
  BY <1>5, <1>7, <1>15, <1>16
<1>18. WriteHas(t, k + 1)'
  BY <1>3, <1>7, <1>12, <1>13, <1>14, <1>17 DEF WriteHas
<1>19. /\ InWrite(1, 13)' /\ Ordered' /\ Succeeds' /\ InWrite(8, 13)'
       /\ Lacks(todo', {"CheckRemainder"}) /\ Steady(platform')
  <2>1. k < 13 /\ k + 1 \in 8..13
    BY <1>3
  <2> QED
    BY <1>1, <1>18, <2>1, WriteNext
<1>20. Shelved'
  BY <1>7 DEF Shelved
<1>21. SpareKept'
  <2>1. Even(flash["spare"])'
    BY <1>7, <1>15 DEF Even
  <2> QED
    BY <1>1, <1>2, <1>12, <1>19, <2>1 DEF SpareKept
<1>22. TargetsWhole'
  BY <1>1, <1>7, <1>9, <1>12 DEF AInv, Standing, TargetsWhole, TargetsSame, Even
<1>23. Remains'
  BY <1>19 DEF Remains
<1>24. Left'
  <2>1. SpareDone(WorkQueue, Last(WorkQueue, Length))'
    BY <1>12 DEF IsSpared, Spared
  <2> QED
    BY <1>1, <1>2, <1>12, <2>1 DEF Left
<1>25. Replaced
  <2> SUFFICES ASSUME NEW u \in platform.writable
               PROVE  Held(u)' = IF u = request.target THEN NewContents ELSE Held(u)
    BY <1>5 DEF Replaced
  <2>1. Held(u) = flash[u]
    BY <1>9 DEF Held
  <2>2. Held(u)' = IF u = t THEN flash'["spare"] ELSE flash'[u]
    BY <1>12 DEF Held
  <2>3. flash'[u] = flash[u]
    BY <1>7 DEF TargetsSame
  <2> QED
    BY <1>5, <1>7, <1>15, <2>1, <2>2, <2>3
<1> QED
  BY <1>19, <1>20, <1>21, <1>22, <1>23, <1>24, <1>25 DEF AInv, Shape, Standing

\* The record says that the target has the contents.
LEMMA WriteMarksTarget ==
  ASSUME IInv, AInv, NEW t, NEW k, WriteAt(t, k), MarkDestComplete
  PROVE  AInv' /\ Same
<1>1. /\ Head(todo).do = "destComplete" /\ GoOn /\ platform' = platform /\ header' = header
      /\ record' = record /\ buffer' = buffer /\ spareBuffer' = spareBuffer
      /\ SetBit("work", record, "destComplete")
  BY DEF MarkDestComplete, At, counters, volatile
<1>2. /\ k \in 1..13 /\ todo # <<>> /\ Head(todo) = WriteSteps(t)[k] /\ WriteHas(t, k)
      /\ t \in platform.writable /\ t \in Areas /\ On(todo, WriteSteps(t), 13, k)
      /\ Steady(platform) /\ (\A m : ~InBoot(m)) /\ ~InAbort /\ ~CompleteAt
  BY WriteHere
<1>3. k = 13
  BY <1>1, <1>2, WriteNumber
<1>4. /\ IsValid /\ IsOpen /\ Fresh /\ WorkQueue[record].target = t /\ IsSpared
      /\ up => request.op = "write" /\ t = request.target /\ flash["spare"] = NewContents
      /\ buffer = flash["spare"] /\ flash[t][1] = buffer[1] /\ flash[t][2] = buffer[2]
  BY <1>2, <1>3 DEF WriteHas
<1>5. /\ Last(WorkQueue, Length) = record /\ LastCellOf = WorkQueue[record] /\ record \in 1..Length
  BY <1>4, FreshFound
<1>6. /\ IsValid' /\ WorkQueue' = Marked(WorkQueue, record, "destComplete") /\ Length' = Length
      /\ TargetsSame /\ flash'["spare"] = flash["spare"]
  BY <1>1, <1>2, <1>4, <1>5, BitValid DEF Bits
<1>7. /\ Length \in Nat /\ HeaderWrites(platform) \in SUBSET Counts
      /\ WorkQueue \in Queues(Length, HeaderWrites(platform), RecordTargets(platform))
      /\ InOrder(WorkQueue, Length)
  BY WorkIs
<1>8. Waiting(WorkQueue, Length)
  BY <1>4, OpenWaits DEF IsWaiting
<1> DEFINE r == Marked(WorkQueue, record, "destComplete")
<1>9. r = Marked(WorkQueue, Last(WorkQueue, Length), "destComplete") /\ WorkQueue' = r
  BY <1>5, <1>6
<1> HIDE DEF r
<1>10. ~Spared(r, Length) /\ ~Waiting(r, Length)
  BY <1>7, <1>8, <1>9, MarkMoved
<1>11. ~IsSpared' /\ ~IsWaiting'
  BY <1>6, <1>9, <1>10 DEF IsSpared, IsWaiting
<1>12. todo \in Seq(Steps(request.op)) /\ todo' = Tail(todo) /\ up' = up /\ request' = request
  BY <1>1, PlanIs DEF GoOn
<1>13. AllQuiet(todo')
  BY <1>2, <1>3, <1>12, OnTail
<1>14. Ordered'
  <2>1. Ordered
    BY DEF AInv
  <2> QED
    BY <1>1, <1>2, <1>12, <2>1, OrderedOn
<1>15. Lacks(todo', {"CheckRemainder"})
  <2>1. Lacks(todo, {"CheckRemainder"})
    BY <1>2, <1>4 DEF AInv, Standing, Remains
  <2> QED
    BY <1>2, <1>12, <2>1, QuietTail
<1>16. flash[t] = flash["spare"]
  <2>1. flash["spare"] \in Images(platform) /\ flash[t] \in Images(platform)
    BY <1>2, AreasAre DEF IInv, Stored, Flashes
  <2> QED
    BY <1>4, <2>1, ImagesEqual
<1>17. flash'[t] = flash["spare"] /\ Even(flash["spare"]) /\ LastCellOf.target = t
  BY <1>2, <1>4, <1>5, <1>6, <1>16 DEF TargetsSame, AInv, Standing, SpareKept
<1>18. TargetsWhole'
  <2> SUFFICES ASSUME NEW u \in platform.writable PROVE Even(flash[u])'
    BY <1>1 DEF TargetsWhole
  <2>1. flash'[u] = flash[u]
    BY <1>6 DEF TargetsSame
  <2>2. Even(flash[u])
    BY <1>16, <1>17 DEF AInv, Standing, TargetsWhole
  <2> QED
    BY <2>1, <2>2 DEF Even
<1>19. Succeeds'
  <2> SUFFICES ASSUME request'.op = "write" PROVE flash'[request'.target] = NewContents'
    BY DEF Succeeds
  <2>1. request.op = "write" /\ NewContents' = NewContents /\ request'.target = request.target
    BY <1>12 DEF NewContents
  <2>2. up
    BY <2>1 DEF AInv, Ordered
  <2> QED
    BY <1>4, <1>17, <2>1, <2>2
<1>20. Same
  <2> SUFFICES ASSUME NEW u \in platform.writable PROVE Held(u)' = Held(u)
    BY DEF Same
  <2>1. Held(u)' = flash'[u]
    BY <1>11 DEF Held
  <2>2. Held(u) = IF u = t THEN flash["spare"] ELSE flash[u]
    BY <1>4, <1>17 DEF Held
  <2>3. flash'[u] = flash[u]
    BY <1>6 DEF TargetsSame
  <2> QED
    BY <1>16, <2>1, <2>2, <2>3
<1>21. Shelved' /\ SpareKept' /\ Remains' /\ Left'
  BY <1>6, <1>11, <1>15 DEF Shelved, SpareKept, Remains, Left
<1> QED
  BY <1>1, <1>2, <1>13, <1>14, <1>18, <1>19, <1>20, <1>21 DEF AInv, Shape, Standing

\* The steps of a write keep the contents, but for the one that replaces them.
LEMMA WriteStep ==
  ASSUME IInv, AInv, InWrite(1, 13), Driver
  PROVE  AInv' /\ (Same \/ (MarkSpareComplete /\ Replaced))
<1>1. PICK t \in platform.writable, k \in 1..13 : WriteAt(t, k)
  BY DEF InWrite
<1>2. Head(todo) = WriteSteps(t)[k] /\ k \in 1..13
  BY <1>1, WriteHere
<1>3. Head(todo).do \in {"WriteRecord", "LoadTarget", "Erase", "Write", "spareComplete", "LoadSpare",
                         "destComplete"}
  BY <1>2, WriteNumber
<1>4. Erase \/ Write \/ WriteRecordCell \/ LoadTarget \/ LoadSpare \/ MarkSpareComplete \/ MarkDestComplete
  BY <1>3 DEF Driver, FlashAccess, Restore, MarkValid, MarkInvalid, MarkComplete,
              AllocateWriteHeader, MarkWritesAllocated, ReclaimWhenFull, FindLastWrite, CleanUp, CleanAll,
              LoadSpareAsWork, AllocateHeader, NeedHeader, CheckRecord, CheckRestart, AbortWrites,
              LastWrite, NotFound, Success, ChooseWorkSpace, AbortFirstRecord, AbortLastRecord,
              CheckRemainder, RestartLastWrite, HookServices, At
<1>5. CASE Erase \/ Write
  BY <1>1, <1>5, WriteWriters
<1>6. CASE WriteRecordCell
  BY <1>1, <1>6, WriteRecords
<1>7. CASE LoadTarget
  BY <1>1, <1>7, WriteLoadsTarget
<1>8. CASE LoadSpare
  BY <1>1, <1>8, WriteLoadsSpare
<1>9. CASE MarkSpareComplete
  BY <1>1, <1>9, WriteMarksSpare
<1>10. CASE MarkDestComplete
  BY <1>1, <1>10, WriteMarksTarget
<1> QED
  BY <1>4, <1>5, <1>6, <1>7, <1>8, <1>9, <1>10

LEMMA DriverStep ==
  ASSUME IInv, AInv, RoomForHeader, Driver
  PROVE  AInv' /\ (Same \/ (MarkSpareComplete /\ Replaced))
<1>1. AllQuiet(todo) \/ InWrite(1, 13) \/ InMove
  BY DEF AInv, Shape
<1> QED
  BY <1>1, QuietStep, WriteStep, MoveStep

-----------------------------------------------------------------------------
(***************************************************************************)
(* Calls, losses of power, the first boot.                                 *)
(***************************************************************************)
\* The steps of a service when it is called.
CallPlan(s) ==
  /\ AllQuiet(s) /\ Lacks(s, BootNames) /\ Seeks(s)
  /\ s # <<>> /\ s[1].do \notin LookNames

LEMMA CallPlanIs ==
  ASSUME NEW s, Len(s) \in 3..4, s[1].do = "ReclaimWhenFull", s[2].do = "FindLastWrite",
         \A i \in 1..Len(s) : s[i].do \in QuietNames \ BootNames,
         Len(s) = 4 => s[4].do \notin LookNames, s # <<>>
  PROVE  CallPlan(s)
<1>1. AllQuiet(s) /\ Lacks(s, BootNames)
  BY DEF AllQuiet, Quiet, Lacks
<1>2. \A i \in 1..Len(s) : i = 1 \/ i = 2 \/ i = 3 \/ (i = 4 /\ Len(s) = 4)
  OBVIOUS
<1>3. Seeks(s)
  <2> SUFFICES ASSUME NEW i \in 1..Len(s), i > 1, s[i].do \in LookNames
               PROVE  s[i - 1].do = "FindLastWrite"
    BY DEF Seeks
  <2>1. i = 3
    BY <1>2 DEF LookNames
  <2> QED
    BY <2>1
<1> QED
  BY <1>1, <1>3 DEF CallPlan, LookNames

\* A look-up and one or two steps behind it.
Three(op, s, c) ==
  /\ s \in Seq(Steps(op)) /\ Len(s) = 3 /\ s # <<>>
  /\ s[1].do = "ReclaimWhenFull" /\ s[2].do = "FindLastWrite" /\ s[3] = c

LEMMA OneBehind ==
  ASSUME NEW op, NEW c \in Steps(op), NEW s, s = WorkSpaceRefresh \o <<c>>
  PROVE  Three(op, s, c)
<1> DEFINE a == Step("ReclaimWhenFull")
           b == Step("FindLastWrite")
           S == Steps(op)
<1>1. a.do = "ReclaimWhenFull" /\ b.do = "FindLastWrite"
  BY DoIs
<1>2. WorkSpaceRefresh = <<a, b>> /\ a \in S /\ b \in S
  BY RefreshAre
<1>3. c \in S
  OBVIOUS
<1> HIDE DEF a, b, S
<1> DEFINE x == <<a, b>> \o <<c>>
<1>4. /\ x \in Seq(S) /\ Len(x) = 3 /\ x[1] = a /\ x[2] = b /\ x[3] = c /\ x # <<>>
  BY <1>2, <1>3
<1>5. s = x
  BY <1>2
<1> HIDE DEF x
<1> QED
  BY <1>1, <1>4, <1>5 DEF S, Three

Four(op, s, c, d) ==
  /\ s \in Seq(Steps(op)) /\ Len(s) = 4 /\ s # <<>>
  /\ s[1].do = "ReclaimWhenFull" /\ s[2].do = "FindLastWrite" /\ s[3] = c /\ s[4] = d

LEMMA TwoBehind ==
  ASSUME NEW op, NEW c \in Steps(op), NEW d \in Steps(op), NEW s,
         s = WorkSpaceRefresh \o <<c, d>> \/ s = (WorkSpaceRefresh \o <<c>>) \o <<d>>
  PROVE  Four(op, s, c, d)
<1> DEFINE a == Step("ReclaimWhenFull")
           b == Step("FindLastWrite")
           S == Steps(op)
           x == WorkSpaceRefresh \o <<c>>
           y == <<a, b>> \o <<c, d>>
           z == x \o <<d>>
<1>1. a.do = "ReclaimWhenFull" /\ b.do = "FindLastWrite"
  BY DoIs
<1>2. WorkSpaceRefresh = <<a, b>> /\ a \in S /\ b \in S
  BY RefreshAre
<1>3. c \in S /\ d \in S
  OBVIOUS
<1>4. /\ x \in Seq(S) /\ Len(x) = 3 /\ x # <<>>
      /\ x[1].do = "ReclaimWhenFull" /\ x[2].do = "FindLastWrite" /\ x[3] = c
  <2>1. x = WorkSpaceRefresh \o <<c>>
    OBVIOUS
  <2> HIDE DEF x
  <2>2. Three(op, x, c)
    BY <2>1, OneBehind
  <2> QED
    BY <2>2 DEF Three
<1> HIDE DEF a, b, S, x
<1>5. /\ y \in Seq(S) /\ Len(y) = 4 /\ y[1] = a /\ y[2] = b /\ y[3] = c /\ y[4] = d /\ y # <<>>
  BY <1>2, <1>3
<1>6. /\ z \in Seq(S) /\ Len(z) = 4 /\ z # <<>>
      /\ z[1] = x[1] /\ z[2] = x[2] /\ z[3] = c /\ z[4] = d
  <2> DEFINE e == <<d>>
  <2>1. e \in Seq(S) /\ Len(e) = 1 /\ e[1] = d /\ z = x \o e
    BY <1>3
  <2> HIDE DEF e, z
  <2>2. Cat(S, x, e, z)
    BY <1>4, <2>1, CatIs
  <2>3. /\ z \in Seq(S) /\ Len(z) = 3 + 1
        /\ \A i \in 1..3 : z[i] = x[i]
        /\ \A i \in 1..1 : z[3 + i] = e[i]
    BY <1>4, <2>1, <2>2 DEF Cat
  <2>4. z[1] = x[1] /\ z[2] = x[2] /\ z[3] = c /\ z[3 + 1] = d
    BY <1>4, <2>1, <2>3
  <2>5. Len(z) = 4 /\ z[4] = d
    BY <2>3, <2>4
  <2>6. z # <<>>
    <3>1. Len(<<>>) = 0
      OBVIOUS
    <3> QED
      BY <2>5, <3>1
  <2> QED
    BY <2>3, <2>4, <2>5, <2>6
<1> HIDE DEF y, z
<1>7. s = y \/ s = z
  BY <1>2 DEF y, z, x
<1> QED
  BY <1>1, <1>4, <1>5, <1>6, <1>7 DEF S, Four

LEMMA CallStarts ==
  ASSUME IInv, AInv, up, todo = <<>>, NEW S, NEW s \in Seq(S), CallPlan(s), todo' = s, flash' = flash,
         platform' = platform, up' = up,
         request'.op = "write" => s[Len(s)].do = "CheckRecord" /\ Lacks(s, {"Success", "LastWrite"})
  PROVE  AInv' /\ Same
<1>1. AllQuiet(todo)
  BY DEF AllQuiet
<1>2. Calm
  BY <1>1, CalmHere
<1>3. /\ AllQuiet(s) /\ Lacks(s, BootNames) /\ Seeks(s) /\ s # <<>> /\ s[1].do \notin LookNames
  BY DEF CallPlan
<1>4. Lacks(todo', {"CheckRemainder"})
  BY <1>3 DEF Lacks, BootNames
<1>5. Standing' /\ Same
  BY <1>2, <1>4, CalmStays
<1>6. Ordered'
  <2>1. Head(todo') = s[1]
    BY <1>3
  <2>2. request'.op = "write" => Lacks(s, {"LastWrite"})
    BY DEF Lacks
  <2> QED
    BY <1>3, <2>1, <2>2 DEF Ordered
<1>7. Succeeds'
  BY DEF Succeeds, Lacks
<1>8. Steady(platform)'
  BY DEF AInv, Steady, OneWritable
<1> QED
  BY <1>3, <1>5, <1>6, <1>7, <1>8 DEF AInv, Shape

LEMMA ServiceSteps ==
  ASSUME NEW name \in {"AllocateHeader", "NeedHeader", "CheckRecord", "CheckRestart", "AbortWrites",
                       "LastWrite", "Success"}
  PROVE  /\ Step(name) \in Steps("write") /\ Step(name).do = name
         /\ name \in QuietNames \ BootNames
<1>1. Step(name).do = name /\ Step(name) = [do |-> name, area |-> "none", block |-> 0]
  BY DoIs DEF Step
<1>2. name \in Names /\ name \notin Writers /\ name \notin Marks /\ name # "Restore"
  BY DEF Names, Plain, Asked, Writers, Marks
<1>3. name \in QuietNames \ BootNames
  BY DEF QuietNames, BootNames
<1> QED
  BY <1>1, <1>2, <1>3 DEF Steps

LEMMA CallTwo ==
  ASSUME NEW c \in {"AllocateHeader", "NeedHeader", "CheckRestart", "AbortWrites"},
         NEW d \in {"CheckRecord", "Success"}, NEW s,
         s = WorkSpaceRefresh \o <<Step(c), Step(d)>> \/ s = (WorkSpaceRefresh \o <<Step(c)>>) \o <<Step(d)>>
  PROVE  /\ CallPlan(s) /\ s \in Seq(Steps("write")) /\ s[Len(s)].do = d
         /\ d = "CheckRecord" => Lacks(s, {"Success", "LastWrite"})
<1>1. /\ Step(c) \in Steps("write") /\ Step(c).do = c /\ c \in QuietNames \ BootNames
      /\ Step(d) \in Steps("write") /\ Step(d).do = d /\ d \in QuietNames \ BootNames
  BY ServiceSteps
<1>2. /\ s \in Seq(Steps("write")) /\ Len(s) = 4 /\ s # <<>>
      /\ s[1].do = "ReclaimWhenFull" /\ s[2].do = "FindLastWrite" /\ s[3] = Step(c) /\ s[4] = Step(d)
  <2>1. Step(c) \in Steps("write") /\ Step(d) \in Steps("write")
    BY <1>1
  <2>2. Four("write", s, Step(c), Step(d))
    BY <2>1, TwoBehind
  <2> QED
    BY <2>2 DEF Four
<1>3. \A i \in 1..Len(s) : i = 1 \/ i = 2 \/ i = 3 \/ i = 4
  BY <1>2
<1>4. "ReclaimWhenFull" \in QuietNames \ BootNames /\ "FindLastWrite" \in QuietNames \ BootNames
  BY DEF QuietNames, BootNames
<1>5. \A i \in 1..Len(s) : s[i].do \in QuietNames \ BootNames
  BY <1>1, <1>2, <1>3, <1>4
<1>6. d \notin LookNames
  BY DEF LookNames
<1>7. CallPlan(s)
  BY <1>1, <1>2, <1>5, <1>6, CallPlanIs
<1>8. d = "CheckRecord" => Lacks(s, {"Success", "LastWrite"})
  BY <1>1, <1>2, <1>3 DEF Lacks
<1> QED
  BY <1>1, <1>2, <1>7, <1>8

LEMMA CallOne ==
  ASSUME NEW s, s = WorkSpaceRefresh \o <<Step("LastWrite")>>
  PROVE  CallPlan(s) /\ s \in Seq(Steps("write"))
<1>1. /\ Step("LastWrite") \in Steps("write") /\ Step("LastWrite").do = "LastWrite"
      /\ "LastWrite" \in QuietNames \ BootNames
  BY ServiceSteps
<1>2. /\ s \in Seq(Steps("write")) /\ Len(s) = 3 /\ s # <<>>
      /\ s[1].do = "ReclaimWhenFull" /\ s[2].do = "FindLastWrite" /\ s[3] = Step("LastWrite")
  <2> DEFINE c == Step("LastWrite")
  <2>1. c \in Steps("write") /\ s = WorkSpaceRefresh \o <<c>>
    BY <1>1
  <2> HIDE DEF c
  <2>2. Three("write", s, c)
    BY <2>1, OneBehind
  <2> QED
    BY <2>2 DEF c, Three
<1>3. \A i \in 1..Len(s) : i = 1 \/ i = 2 \/ i = 3
  BY <1>2
<1>4. "ReclaimWhenFull" \in QuietNames \ BootNames /\ "FindLastWrite" \in QuietNames \ BootNames
  BY DEF QuietNames, BootNames
<1>5. \A i \in 1..Len(s) : s[i].do \in QuietNames \ BootNames
  BY <1>1, <1>2, <1>3, <1>4
<1>6. Len(s) \in 3..4 /\ Len(s) # 4
  BY <1>2
<1> QED
  BY <1>2, <1>5, <1>6, CallPlanIs

LEMMA CallStep ==
  ASSUME IInv, AInv, Callers
  PROVE  AInv' /\ Same
<1>1. up /\ todo = <<>> /\ flash' = flash /\ platform' = platform /\ up' = up
  BY DEF Callers, CallAllocate, CallWrite, CallRestart, CallAbort, CallLastWrite, Call
<1>2. CASE CallAllocate
  <2>1. todo' = (WorkSpaceRefresh \o <<Step("AllocateHeader")>>) \o <<Step("Success")>> /\ request'.op = "allocate"
    BY <1>2 DEF CallAllocate, Call, FtwAllocate, NoRequest
  <2> QED
    BY <1>1, <2>1, CallTwo, CallStarts
<1>3. CASE CallWrite
  <2>1. todo' = WorkSpaceRefresh \o <<Step("NeedHeader"), Step("CheckRecord")>> /\ request'.op = "write"
    BY <1>3 DEF CallWrite, Call, FtwWrite, NoRequest
  <2> QED
    BY <1>1, <2>1, CallTwo, CallStarts
<1>4. CASE CallRestart
  <2>1. todo' = (WorkSpaceRefresh \o <<Step("CheckRestart")>>) \o <<Step("Success")>> /\ request'.op = "restart"
    BY <1>4 DEF CallRestart, Call, FtwRestart, NoRequest
  <2> QED
    BY <1>1, <2>1, CallTwo, CallStarts
<1>5. CASE CallAbort
  <2>1. todo' = (WorkSpaceRefresh \o <<Step("AbortWrites")>>) \o <<Step("Success")>> /\ request'.op = "abort"
    BY <1>5 DEF CallAbort, Call, FtwAbort, NoRequest
  <2> QED
    BY <1>1, <2>1, CallTwo, CallStarts
<1>6. CASE CallLastWrite
  <2>1. todo' = WorkSpaceRefresh \o <<Step("LastWrite")>> /\ request'.op = "lastwrite"
    BY <1>6 DEF CallLastWrite, Call, FtwGetLastWrite, NoRequest
  <2> QED
    BY <1>1, <2>1, CallOne, CallStarts
<1> QED
  BY <1>2, <1>3, <1>4, <1>5, <1>6 DEF Callers

LEMMA BootIs ==
  /\ AllQuiet(InitFtwProtocol) /\ Seeks(InitFtwProtocol) /\ On(InitFtwProtocol, BootSteps, 8, 1)
  /\ Len(InitFtwProtocol) = 8 /\ InitFtwProtocol # <<>>
  /\ Head(InitFtwProtocol) = Step("ReclaimWhenFull")
<1> DEFINE S == {BootSteps[j] : j \in 1..8}
           e == BootSteps
           t == <<Step("ChooseWorkSpace"), Step("AbortFirstRecord"), Step("AbortLastRecord"),
                  Step("CheckRemainder"), Step("RestartLastWrite"), Step("HookServices")>>
<1>1. \A j \in 1..8 : e[j] \in S
  OBVIOUS
<1>2. From(S, WorkSpaceRefresh, e, 1, 2)
  <2>1. WorkSpaceRefresh = <<Step("ReclaimWhenFull"), Step("FindLastWrite")>>
    BY RefreshAre
  <2>2. e[1] = Step("ReclaimWhenFull") /\ e[2] = Step("FindLastWrite") /\ e[1] \in S /\ e[2] \in S
    BY <1>1, BootStepsAre
  <2> HIDE DEF e, S
  <2>3. From(S, <<Step("ReclaimWhenFull"), Step("FindLastWrite")>>, e, 1, 2)
    BY <2>2, FromTwo
  <2> QED
    BY <2>1, <2>3
<1>3. From(S, t, e, 3, 8)
  <2>1. /\ e[3] = t[1] /\ e[4] = t[2] /\ e[5] = t[3] /\ e[6] = t[4] /\ e[7] = t[5] /\ e[8] = t[6]
        /\ Len(t) = 6
    BY BootStepsAre
  <2>2. t \in Seq(S)
    <3>1. /\ Step("ChooseWorkSpace") \in S /\ Step("AbortFirstRecord") \in S /\ Step("AbortLastRecord") \in S
          /\ Step("CheckRemainder") \in S /\ Step("RestartLastWrite") \in S /\ Step("HookServices") \in S
      BY <1>1, BootStepsAre
    <3> HIDE DEF S
    <3> QED
      BY <3>1
  <2> HIDE DEF e, S, t
  <2>3. \A j \in 3..8 : j = 3 \/ j = 4 \/ j = 5 \/ j = 6 \/ j = 7 \/ j = 8
    OBVIOUS
  <2>4. \A j \in 3..8 : t[j - 3 + 1] = e[j]
    BY <2>1, <2>3
  <2> QED
    BY <2>1, <2>2, <2>4 DEF From
<1>4. InitFtwProtocol = WorkSpaceRefresh \o t
  BY DEF InitFtwProtocol
<1> HIDE DEF e, S, t
<1>5. From(S, InitFtwProtocol, e, 1, 8)
  BY <1>2, <1>3, <1>4, FromCat
<1>6. On(InitFtwProtocol, e, 8, 1)
  BY <1>5, FromOn
<1>7. /\ InitFtwProtocol \in Seq(S) /\ Len(InitFtwProtocol) = 8
      /\ \A j \in 1..8 : InitFtwProtocol[j] = e[j]
  BY <1>5 DEF From
<1>8. \A i \in 1..8 : BootSteps[i].do \in QuietNames /\ BootSteps[i].do \notin LookNames
  BY BootNumber DEF QuietNames, LookNames
<1>9. AllQuiet(InitFtwProtocol) /\ Seeks(InitFtwProtocol)
  BY <1>7, <1>8 DEF AllQuiet, Quiet, Seeks, e
<1>10. InitFtwProtocol # <<>> /\ Head(InitFtwProtocol) = Step("ReclaimWhenFull")
  BY <1>6, <1>7, OnHead, BootStepsAre DEF e
<1> QED
  BY <1>6, <1>7, <1>9, <1>10 DEF e

LEMMA BootBegins ==
  ASSUME todo' = InitFtwProtocol, up' = FALSE, request' = NoRequest
  PROVE  /\ BootAt(1)' /\ InBoot(3)' /\ InBoot(4)' /\ InBoot(6)' /\ InBoot(7)'
         /\ Ordered' /\ Succeeds' /\ AllQuiet(todo')
<1>1. /\ AllQuiet(todo') /\ Seeks(todo') /\ On(todo', BootSteps, 8, 1) /\ Len(todo') = 8
      /\ Head(todo') = Step("ReclaimWhenFull") /\ ~up'
  BY BootIs
<1>2. BootAt(1)'
  BY <1>1 DEF BootAt
<1>3. InBoot(3)' /\ InBoot(4)' /\ InBoot(6)' /\ InBoot(7)'
  BY <1>2 DEF InBoot
<1>4. Step("ReclaimWhenFull").do \notin LookNames
  BY DoIs DEF LookNames
<1>5. request'.op = "none"
  BY DEF NoRequest
<1>6. Ordered' /\ Succeeds'
  BY <1>1, <1>4, <1>5 DEF Ordered, Succeeds
<1> QED
  BY <1>1, <1>2, <1>3, <1>6

\* After a loss of power the recovery finds everything that counts.
LEMMA PowerLossStep ==
  ASSUME IInv, AInv, PowerLoss
  PROVE  AInv' /\ Same
<1>1. /\ todo' = InitFtwProtocol /\ up' = FALSE /\ request' = NoRequest
      /\ flash' = flash /\ platform' = platform
  BY DEF PowerLoss
<1>2. /\ InBoot(3)' /\ InBoot(4)' /\ InBoot(6)' /\ InBoot(7)'
      /\ Ordered' /\ Succeeds' /\ AllQuiet(todo')
  BY <1>1, BootBegins
<1>3. Standing' /\ Same
  BY <1>1, <1>2, StandsIn
<1> QED
  BY <1>1, <1>2, <1>3 DEF AInv, Shape, Steady, OneWritable

\* The services of a steady platform do not fail.
LEMMA NoError ==
  ASSUME IInv, AInv
  PROVE  ~DeviceError /\ faults = 0
<1>1. platform.faults = 0 /\ faults \in 0..platform.faults
  BY DEF AInv, Steady, IInv, Placed
<1> QED
  BY <1>1 DEF DeviceError

LEMMA FirstBootStands ==
  ASSUME Init, \A p \in Platforms : Steady(p)
  PROVE  AInv
<1>1. PICK v \in Values, formatted \in BOOLEAN :
        /\ platform \in Platforms
        /\ flash = [a \in Areas |->
                     IF a = "spare" THEN <<Erased, Erased>>
                     ELSE IF a = "work"
                     THEN <<Data(v), IF formatted THEN WorkSpace(TRUE, TRUE, FALSE, EmptyQueue)
                                     ELSE Erased>>
                     ELSE <<Data(v), Data(v)>>]
        /\ up = FALSE /\ todo = InitFtwProtocol /\ request = NoRequest
  BY DEF Init
<1>2. IInv
  BY FirstBoot
<1>3. Steady(platform)
  BY <1>1
<1>4. /\ platform.writable \subseteq Areas /\ "work" \notin platform.writable
      /\ "spare" \notin platform.writable
  BY <1>2, <1>3, WritableIs
<1>5. /\ \A t \in platform.writable : flash[t] = <<Data(v), Data(v)>>
      /\ flash["spare"][2] = Erased
      /\ flash["work"][2] = IF formatted THEN WorkSpace(TRUE, TRUE, FALSE, EmptyQueue) ELSE Erased
  BY <1>1, <1>4, AreasAre
<1>6. WorkQueue = Blank(Length)
  <2>1. EmptyQueue = Blank(Length)
    BY DEF EmptyQueue, Blank, Cells, QueueSize, Length
  <2>2. WorkQueue = EmptyQueue
    BY <1>5 DEF WorkQueue, Queue, Space, AsSpace, WorkSpace, Erased
  <2> QED
    BY <2>1, <2>2
<1>7. ~IsOpen
  <2>1. Length \in Nat
    BY <1>2, WorkIs
  <2> QED
    BY <1>6, <2>1, BlankClosed DEF IsOpen
<1>8. ~IsSpared /\ ~IsWaiting
  BY <1>7, OpenWaits
<1>9. ~IsValidWorkSpace(flash["spare"][2])
  BY <1>5 DEF IsValidWorkSpace, Erased
<1>10. /\ AllQuiet(todo) /\ Seeks(todo) /\ On(todo, BootSteps, 8, 1) /\ Len(todo) = 8
       /\ Head(todo) = Step("ReclaimWhenFull") /\ ~up
  BY <1>1, BootIs
<1>11. InBoot(3)
  <2>1. BootAt(1)
    BY <1>10 DEF BootAt
  <2> QED
    BY <2>1 DEF InBoot
<1>12. TargetsWhole
  BY <1>5 DEF TargetsWhole, Even
<1>13. Standing
  BY <1>7, <1>8, <1>9, <1>11, <1>12 DEF Standing, Shelved, SpareKept, Remains, Left
<1>14. request.op = "none"
  BY <1>1 DEF NoRequest
<1>15. Head(todo).do \notin LookNames
  BY <1>10, DoIs DEF LookNames
<1>16. Ordered /\ Succeeds
  BY <1>10, <1>14, <1>15 DEF Ordered, Succeeds
<1> QED
  BY <1>3, <1>10, <1>13, <1>16 DEF AInv, Shape

LEMMA StutterStands ==
  ASSUME AInv, UNCHANGED vars
  PROVE  AInv' /\ Same
<1>1. /\ flash' = flash /\ up' = up /\ todo' = todo /\ request' = request /\ header' = header
      /\ record' = record /\ buffer' = buffer /\ platform' = platform
  BY DEF vars, volatile, counters
<1>2. /\ Length' = Length /\ WorkQueue' = WorkQueue
      /\ (IsValid' <=> IsValid) /\ (IsOpen' <=> IsOpen) /\ (IsSpared' <=> IsSpared)
      /\ (IsWaiting' <=> IsWaiting) /\ LastCellOf' = LastCellOf
      /\ (SpareDone(WorkQueue, Last(WorkQueue, Length))' <=> SpareDone(WorkQueue, Last(WorkQueue, Length)))
  BY <1>1, WorkSame
<1>3. Queue("spare")' = Queue("spare") /\ NewContents' = NewContents
  BY <1>1, SpareSame DEF NewContents
<1>4. Fresh' <=> Fresh
  BY <1>1, <1>2 DEF Fresh, WorkQueue, Length
<1>5. \A t, k : WriteAt(t, k)' <=> WriteAt(t, k)
  BY <1>1, <1>2, <1>3, <1>4 DEF WriteAt, SpareDone, DestDone
<1>6. \A k : MoveAt(k)' <=> MoveAt(k)
  BY <1>1, <1>2, <1>3 DEF MoveAt, SpaceBlock, Formatted
<1>7. \A k : /\ BootAt(k)' <=> BootAt(k)
             /\ RestartAt(k)' <=> RestartAt(k)
             /\ AbortAt(k)' <=> AbortAt(k)
  BY <1>1, <1>4 DEF BootAt, RestartAt, AbortAt
<1>8. CompleteAt' <=> CompleteAt
  BY <1>1, <1>2 DEF CompleteAt, At
<1>9. /\ \A m : InBoot(m)' <=> InBoot(m)
      /\ InRestart' <=> InRestart
      /\ InAbort' <=> InAbort
      /\ \A a, b : InWrite(a, b)' <=> InWrite(a, b)
      /\ InMove' <=> InMove
  BY <1>1, <1>5, <1>6, <1>7 DEF InBoot, InRestart, InAbort, InWrite, InMove
<1>10. Steady(platform') /\ Shape'
  BY <1>1, <1>9 DEF AInv, Shape
<1>11. Ordered'
  BY <1>1, <1>4 DEF AInv, Ordered
<1>12. Succeeds'
  BY <1>1, <1>3, <1>9 DEF AInv, Succeeds
<1>13. Shelved' /\ SpareKept'
  BY <1>1, <1>2, <1>3, <1>9 DEF AInv, Standing, Shelved, SpareKept, Even
<1>14. TargetsWhole' /\ Remains'
  BY <1>1, <1>2, <1>8, <1>9 DEF AInv, Standing, TargetsWhole, Remains, Even
<1>15. Left'
  BY <1>1, <1>2, <1>8, <1>9 DEF AInv, Standing, Left
<1>16. Same
  BY <1>1, <1>2 DEF Same, Held
<1> QED
  BY <1>10, <1>11, <1>12, <1>13, <1>14, <1>15, <1>16 DEF AInv, Standing

\* What a step does to the contents that count.
LEMMA StepStands ==
  ASSUME IInv, AInv, RoomForHeader, [Next]_vars
  PROVE  AInv' /\ (Same \/ (MarkSpareComplete /\ Replaced))
<1>1. Driver \/ Callers \/ PowerLoss \/ UNCHANGED vars
  BY NoError DEF Next
<1> QED
  BY <1>1, DriverStep, CallStep, PowerLossStep, StutterStands

AllSteady == \A p \in Platforms : Steady(p)

\* Where callers do not write the working block and accesses do not fail, every
\* call, loss of power and recovery leaves what it has to finish, and nothing
\* else, in the work space.
THEOREM Recoverable ==
  ASSUME AllSteady
  PROVE  Spec /\ []RoomForHeader => [](IInv /\ AInv)
<1>1. Init => AInv
  BY FirstBootStands DEF AllSteady
<1>2. IInv /\ AInv /\ RoomForHeader /\ [Next]_vars => AInv'
  BY StepStands
<1> QED
  BY <1>1, <1>2, Inductive, PTL DEF Spec

-----------------------------------------------------------------------------
(***************************************************************************)
(* The contents that are available are those that count.                   *)
(***************************************************************************)
LEMMA PendingIs ==
  ASSUME IInv, AInv, NEW t
  PROVE  Pending(t) <=> IsSpared /\ LastCellOf.target = t
<1> DEFINE q == Queue(Current)
           n == platform.queue
<1>1. /\ QueueSize = n /\ Cells = 1..n /\ n = Length
      /\ \A u : FtwGetLastWriteHeader(u) = LastHeader(u, n)
      /\ \A u, h : FtwGetLastWriteRecord(u, h) = LastRecord(u, n, h)
  BY SizesAre DEF Cells, Length
<1>2. Pending(t) <=> Spared(q, n) /\ q[Last(q, n)].target = t
  BY <1>1 DEF Pending, Spared, Open, Last
<1>3. CASE Current = "work"
  BY <1>1, <1>2, <1>3 DEF IsSpared, LastCellOf, WorkQueue
<1>4. CASE Current # "work"
  <2>1. Current = "spare" /\ ~IsValid /\ IsValidWorkSpace(flash["spare"][2])
    BY <1>4 DEF Current, IsValid
  <2>2. ~IsOpen /\ ~Open(Queue("spare"), Length)
    BY <2>1 DEF AInv, Standing, Shelved
  <2>3. ~Pending(t)
    BY <1>1, <1>2, <2>1, <2>2 DEF Spared
  <2> QED
    BY <2>2, <2>3, OpenWaits
<1> QED
  BY <1>3, <1>4

\* What a loss of power would leave of a block is one of the contents.
Shown == \A t \in platform.writable : \E v \in Values : Held(t) = <<Data(v), Data(v)>> /\ Available(t) = v

LEMMA ShownIs == IInv /\ AInv => Shown
<1> SUFFICES ASSUME IInv, AInv, NEW t \in platform.writable
             PROVE  \E v \in Values : Held(t) = <<Data(v), Data(v)>> /\ Available(t) = v
  BY DEF Shown
<1>1. Steady(platform)
  BY DEF AInv
<1>2. t \in Areas /\ t # "work" /\ t # "spare"
  BY <1>1, WritableIs
<1> DEFINE area == IF Pending(t) THEN "spare" ELSE t
<1>3. area \in Areas /\ Held(t) = flash[area]
  BY <1>2, PendingIs, AreasAre DEF Held
<1>4. Available(t) = Whole(flash[area][1], flash[area][2])
  BY <1>2 DEF Available
<1>5. Even(flash[area])
  BY PendingIs DEF AInv, Standing, SpareKept, TargetsWhole
<1> HIDE DEF area
<1>6. PICK v \in Values : flash[area][1] = Data(v) /\ flash[area][2] = Data(v)
  BY <1>5 DEF Even
<1>7. flash[area] \in Images(platform)
  BY <1>3 DEF IInv, Stored, Flashes
<1>8. flash[area] = <<Data(v), Data(v)>>
  BY <1>6, <1>7, EvenImage
<1>9. Available(t) = v
  BY <1>4, <1>6 DEF Whole, Data
<1> QED
  BY <1>3, <1>8, <1>9

\* Whenever no service is running, there is nothing to recover: the work space
\* is valid, nothing is pending and the contents of every block are whole.
THEOREM Settled ==
  ASSUME AllSteady
  PROVE  Spec /\ []RoomForHeader => []SettledWhenIdle
<1>1. IInv /\ AInv => SettledWhenIdle
  <2> SUFFICES ASSUME IInv, AInv, up, todo = <<>>
               PROVE  /\ IsValidWorkSpace(flash["work"][2])
                      /\ \A t \in platform.writable : ~Pending(t) /\ Available(t) # "damaged"
    BY DEF SettledWhenIdle
  <2>1. AllQuiet(todo)
    BY DEF AllQuiet
  <2>2. IsValid /\ ~IsSpared
    BY <2>1, CalmHere DEF Calm
  <2>3. \A t \in platform.writable : Available(t) # "damaged"
    BY ShownIs, FtwAssumption DEF Shown
  <2> QED
    BY <2>2, <2>3, PendingIs DEF IsValid
<1> QED
  BY <1>1, Recoverable, PTL

-----------------------------------------------------------------------------
(***************************************************************************)
(* The driver implements FtwAtomic.                                        *)
(***************************************************************************)
\* What a step does to the contents that count, to the call and its outcome.
Passing == Same /\ request' = request /\ status' = status
Putting == Replaced /\ request' = request /\ status' = status
Calling ==
  /\ Same /\ request.op # "write" /\ request'.op = "write" /\ status' = "none"
  /\ request'.target \in platform.writable /\ request'.value \in Values
Closing ==
  /\ Same /\ request'.op # "write"
  /\ request.op = "write" /\ status' = "success" => Held(request.target) = NewContents

Effects == platform' = platform /\ (Passing \/ Putting \/ Calling \/ Closing)

\* A step of the driver goes on, or a service returns; only two say success.
LEMMA DriverReturns ==
  ASSUME Driver
  PROVE  /\ platform' = platform
         /\ \/ request' = request /\ status' = status
            \/ request' = NoRequest /\ (status' = "success" => At("Success") \/ At("LastWrite"))
<1>1. CASE FlashAccess
  BY <1>1 DEF FlashAccess, Erase, Write, Restore, MarkValid, MarkInvalid, MarkSpareComplete,
              MarkDestComplete, MarkComplete, AllocateWriteHeader, MarkWritesAllocated, WriteRecordCell,
              GoOn, counters
<1>2. CASE ReclaimWhenFull \/ FindLastWrite \/ CleanUp \/ CleanAll \/ LoadSpare \/ LoadSpareAsWork
           \/ LoadTarget
  BY <1>2 DEF ReclaimWhenFull, FindLastWrite, CleanUp, CleanAll, CleanWorkSpace, LoadSpare,
              LoadSpareAsWork, LoadTarget, GoOn, Insert, counters
<1>3. CASE AllocateHeader \/ NeedHeader \/ CheckRecord \/ CheckRestart \/ AbortWrites
  BY <1>3 DEF AllocateHeader, NeedHeader, CheckRecord, CheckRestart, AbortWrites, Return, GoOn, Insert,
              counters
<1>4. CASE LastWrite \/ NotFound \/ Success
  BY <1>4 DEF LastWrite, NotFound, Success, Return, GoOn, Insert, counters
<1>5. CASE ChooseWorkSpace \/ AbortFirstRecord \/ AbortLastRecord \/ CheckRemainder \/ RestartLastWrite
           \/ HookServices
  BY <1>5 DEF ChooseWorkSpace, AbortFirstRecord, AbortLastRecord, CheckRemainder, RestartLastWrite,
              HookServices, GoOn, Insert, counters
<1> QED
  BY <1>1, <1>2, <1>3, <1>4, <1>5 DEF Driver

\* A write that succeeds has replaced the contents.
LEMMA WriteSucceeds ==
  ASSUME IInv, AInv, request.op = "write", At("Success") \/ At("LastWrite")
  PROVE  Held(request.target) = NewContents
<1>1. todo \in Seq(Steps(request.op)) /\ todo # <<>> /\ Head(todo).do \in {"Success", "LastWrite"}
  BY PlanIs DEF At
<1>2. Head(todo) = todo[1] /\ 1 \in 1..Len(todo)
  BY <1>1, TailIs
<1>3. Head(todo).do = "Success"
  <2>1. Lacks(todo, {"LastWrite"})
    BY DEF AInv, Ordered
  <2> QED
    BY <1>1, <1>2, <2>1 DEF Lacks
<1>4. ~InWrite(1, 13)
  <2> SUFFICES ASSUME NEW t \in platform.writable, NEW k \in 1..13, WriteAt(t, k) PROVE FALSE
    BY DEF InWrite
  <2>1. Head(todo) = WriteSteps(t)[k]
    BY WriteHere
  <2> QED
    BY <1>3, <2>1, WriteNumber
<1>5. ~InMove
  <2> SUFFICES ASSUME NEW k \in 1..15, MoveAt(k) PROVE FALSE
    BY DEF InMove
  <2>1. PICK clean \in Cleans : Head(todo) = MoveSteps(clean)[k]
    BY MoveHere
  <2> QED
    BY <1>3, <2>1, MoveNumber DEF Cleans
<1>6. AllQuiet(todo)
  BY <1>4, <1>5 DEF AInv, Shape
<1>7. ~IsSpared
  <2>1. Head(todo).do \notin Recovering
    BY <1>3 DEF Recovering
  <2> QED
    BY <1>6, <2>1, CalmHere DEF Calm
<1>8. flash[request.target] = NewContents
  <2>1. ~Lacks(todo, {"Success"})
    BY <1>2, <1>3 DEF Lacks
  <2> QED
    BY <1>4, <2>1 DEF AInv, Succeeds
<1> QED
  BY <1>7, <1>8 DEF Held

LEMMA EffectsOf ==
  ASSUME IInv, AInv, RoomForHeader, [Next]_vars
  PROVE  Effects
<1>1. Same \/ (MarkSpareComplete /\ Replaced)
  BY StepStands
<1>2. Driver \/ Callers \/ PowerLoss \/ UNCHANGED vars
  BY NoError DEF Next
<1>3. CASE Driver
  <2>1. platform' = platform
    BY <1>3, DriverReturns
  <2>2. CASE MarkSpareComplete /\ Replaced
    <3>1. request' = request /\ status' = status
      BY <2>2 DEF MarkSpareComplete, GoOn
    <3> QED
      BY <2>1, <2>2, <3>1 DEF Effects, Putting
  <2>3. CASE Same
    <3>1. CASE request' = request /\ status' = status
      BY <2>1, <2>3, <3>1 DEF Effects, Passing
    <3>2. CASE request' = NoRequest /\ (status' = "success" => At("Success") \/ At("LastWrite"))
      <4>1. request'.op # "write"
        BY <3>2 DEF NoRequest
      <4>2. request.op = "write" /\ status' = "success" => Held(request.target) = NewContents
        BY <3>2, WriteSucceeds
      <4> QED
        BY <2>1, <2>3, <4>1, <4>2 DEF Effects, Closing
    <3> QED
      BY <1>3, <3>1, <3>2, DriverReturns
  <2> QED
    BY <1>1, <2>2, <2>3
<1>4. CASE Callers
  <2>1. Same
    BY <1>4, CallStep
  <2>2. platform' = platform /\ status' = "none"
    BY <1>4 DEF Callers, CallAllocate, CallWrite, CallRestart, CallAbort, CallLastWrite, Call
  <2>3. CASE CallWrite
    <3>1. /\ todo = <<>> /\ request'.op = "write" /\ request'.target \in platform.writable
          /\ request'.value \in Values
      BY <2>3 DEF CallWrite, Call, NoRequest
    <3>2. request.op # "write"
      BY <3>1 DEF AInv, Ordered
    <3> QED
      BY <2>1, <2>2, <3>1, <3>2 DEF Effects, Calling
  <2>4. CASE ~CallWrite
    <3>1. request'.op # "write"
      BY <1>4, <2>4 DEF Callers, CallAllocate, CallRestart, CallAbort, CallLastWrite, Call, NoRequest
    <3> QED
      BY <2>1, <2>2, <3>1 DEF Effects, Closing
  <2> QED
    BY <2>3, <2>4
<1>5. CASE PowerLoss
  <2>1. Same
    BY <1>5, PowerLossStep
  <2>2. platform' = platform /\ status' = "none" /\ request'.op # "write"
    BY <1>5 DEF PowerLoss, NoRequest
  <2> QED
    BY <2>1, <2>2 DEF Effects, Closing
<1>6. CASE UNCHANGED vars
  <2>1. Same
    BY <1>6, StutterStands
  <2>2. platform' = platform /\ status' = status /\ request' = request
    BY <1>6 DEF vars, counters
  <2> QED
    BY <2>1, <2>2 DEF Effects, Passing
<1> QED
  BY <1>2, <1>3, <1>4, <1>5, <1>6

LEMMA DataIs == \A v, w : <<Data(v), Data(v)>> = <<Data(w), Data(w)>> => v = w
<1> SUFFICES ASSUME NEW v, NEW w, <<Data(v), Data(v)>> = <<Data(w), Data(w)>> PROVE v = w
  OBVIOUS
<1>1. Data(v) = Data(w)
  <2> DEFINE x == Data(v)
             y == Data(w)
  <2>1. <<x, x>> = <<y, y>>
    OBVIOUS
  <2> HIDE DEF x, y
  <2>2. x = y
    BY <2>1
  <2> QED
    BY <2>2 DEF x, y
<1>2. Data(v).value = v /\ Data(w).value = w
  BY DEF Data
<1> QED
  BY <1>1, <1>2

LEMMA PromisesMove ==
  ASSUME Shown, Shown', platform' = platform
  PROVE  /\ Same => \A t : Promised(t)' = Promised(t)
         /\ Replaced => \A t : Promised(t)' = IF t = request.target /\ t \in platform.writable
                                              THEN request.value ELSE Promised(t)
<1>1. \A t : t \notin platform.writable => Promised(t)' = Promised(t)
  BY DEF Promised
<1>2. \A t \in platform.writable : Promised(t) = Available(t) /\ Promised(t)' = Available(t)'
  BY DEF Promised
<1>3. ASSUME NEW t \in platform.writable
      PROVE  \E v \in Values : Held(t) = <<Data(v), Data(v)>> /\ Promised(t) = v
  BY <1>2 DEF Shown
<1>4. ASSUME NEW t \in platform.writable
      PROVE  \E v \in Values : Held(t)' = <<Data(v), Data(v)>> /\ Promised(t)' = v
  BY <1>2 DEF Shown
<1>5. ASSUME Same, NEW t \in platform.writable PROVE Promised(t)' = Promised(t)
  <2>1. Held(t)' = Held(t)
    BY <1>5 DEF Same
  <2> QED
    BY <1>3, <1>4, <2>1, DataIs
<1>6. ASSUME Replaced, NEW t \in platform.writable
      PROVE  Promised(t)' = IF t = request.target THEN request.value ELSE Promised(t)
  <2>1. Held(t)' = IF t = request.target THEN <<Data(request.value), Data(request.value)>> ELSE Held(t)
    BY <1>6 DEF Replaced, NewContents
  <2> QED
    BY <1>3, <1>4, <2>1, DataIs
<1> QED
  BY <1>1, <1>5, <1>6

\* The blocks and the write in progress, as FtwAtomic sees them.
Promises == [t \in Targets \cup {"work"} |-> Promised(t)]
Ongoing ==
  [target |-> IF request.op = "write" THEN request.target ELSE "none",
   value  |-> IF request.op = "write" THEN request.value ELSE "none"]
NothingOn == [target |-> "none", value |-> "none"]

AtomicStep ==
  /\ Effects /\ Shown /\ Shown'
  /\ platform.writable \subseteq Targets
  /\ request.op = "write" => request.target \in platform.writable /\ request.value \in Values

LEMMA OngoingIs ==
  ASSUME AtomicStep
  PROVE  /\ request.op = "write" => /\ Ongoing.target = request.target /\ Ongoing.value = request.value
                                    /\ Ongoing # NothingOn
         /\ request.op # "write" => Ongoing = NothingOn
<1>1. "none" \notin Targets
  BY FtwAssumption
<1>2. request.op = "write" => request.target # "none"
  BY <1>1 DEF AtomicStep
<1> QED
  BY <1>2 DEF Ongoing, NothingOn

LEMMA Steadily == ASSUME AllSteady PROVE Spec /\ []RoomForHeader => [][AtomicStep]_(Atomic!vars)
<1>1. IInv /\ AInv /\ RoomForHeader /\ IInv' /\ AInv' /\ [Next]_vars => [AtomicStep]_(Atomic!vars)
  <2> SUFFICES ASSUME IInv, AInv, RoomForHeader, IInv', AInv', [Next]_vars
               PROVE  AtomicStep
    OBVIOUS
  <2>1. Shown /\ Shown'
    BY ShownIs, PTL
  <2>2. Effects
    BY EffectsOf
  <2>3. platform.writable \subseteq Targets
    BY WritableIs DEF AInv
  <2>4. request.op = "write" => request.target \in platform.writable /\ request.value \in Values
    BY AskedTarget
  <2> QED
    BY <2>1, <2>2, <2>3, <2>4 DEF AtomicStep
<1> QED
  BY <1>1, Recoverable, PTL DEF Spec

\* What FtwWrite promises: whatever losses of power there are, at any step, and
\* whatever reclaims and recoveries they interrupt, a write replaces the contents
\* of its block at one moment or not at all, and no other block's.
THEOREM AtomicWrites ==
  ASSUME AllSteady
  PROVE  Spec /\ []RoomForHeader => ImplementsFtwAtomic
<1>1. Init => Atomic!Init
  <2> SUFFICES ASSUME Init PROVE Atomic!Init
    OBVIOUS
  <2>1. Shown
    BY FirstBoot, FirstBootStands, ShownIs DEF AllSteady
  <2>2. request = NoRequest /\ status = "none" /\ \E v \in Values : TRUE
    BY DEF Init
  <2>3. \A t \in Targets \cup {"work"} : Promised(t) \in Values
    <3>1. \A t \in platform.writable : Available(t) \in Values
      BY <2>1 DEF Shown
    <3> QED
      BY <2>2, <3>1 DEF Promised
  <2>4. Promises \in [Targets \cup {"work"} -> Values]
    BY <2>3 DEF Promises
  <2>5. Ongoing = NothingOn
    BY <2>2 DEF Ongoing, NothingOn, NoRequest
  <2> QED
    BY <2>2, <2>4, <2>5 DEF Atomic!Init, Promises, Ongoing, NothingOn
<1>2. AtomicStep => [Atomic!Next]_(Atomic!vars)
  <2> SUFFICES ASSUME AtomicStep PROVE [Atomic!Next]_(Atomic!vars)
    OBVIOUS
  <2>1. Shown /\ Shown' /\ platform' = platform
    BY DEF AtomicStep, Effects
  <2>2. Same => Promises' = Promises
    <3>1. Same => \A t : Promised(t)' = Promised(t)
      BY <2>1, PromisesMove
    <3> QED
      BY <3>1 DEF Promises
  <2>3. CASE Passing
    <3>1. Promises' = Promises /\ Ongoing' = Ongoing /\ status' = status
      BY <2>2, <2>3 DEF Passing, Ongoing
    <3> QED
      BY <3>1 DEF Atomic!vars, Promises, Ongoing
  <2>4. CASE Putting
    <3>1. /\ request.op = "write" /\ request.target \in platform.writable
          /\ request.target \in Targets \cup {"work"}
      BY <2>4 DEF Putting, Replaced, AtomicStep
    <3>2. \A t : Promised(t)' = IF t = request.target THEN request.value ELSE Promised(t)
      BY <2>1, <2>4, <3>1, PromisesMove DEF Putting
    <3>3. Promises' = [Promises EXCEPT ![request.target] = request.value]
      BY <3>1, <3>2 DEF Promises
    <3>4. Ongoing' = Ongoing /\ status' = status
      BY <2>4 DEF Putting, Ongoing
    <3>5. Ongoing # NothingOn /\ Promises' = [Promises EXCEPT ![Ongoing.target] = Ongoing.value]
      BY <3>1, <3>3, OngoingIs
    <3>6. Atomic!Replace
      BY <3>4, <3>5 DEF Atomic!Replace, Promises, Ongoing, NothingOn
    <3> QED
      BY <3>6 DEF Atomic!Next
  <2>5. CASE Calling
    <3>1. Promises' = Promises /\ Ongoing = NothingOn /\ status' = "none"
      BY <2>2, <2>5, OngoingIs DEF Calling
    <3>2. Ongoing' \in [target : Targets \cup {"work"}, value : Values]
      BY <2>5 DEF Calling, Ongoing, AtomicStep
    <3>3. Atomic!Begin
      BY <3>1, <3>2 DEF Atomic!Begin, Atomic!Writes, Promises, Ongoing, NothingOn
    <3> QED
      BY <3>3 DEF Atomic!Next
  <2>6. CASE Closing
    <3>1. Promises' = Promises /\ Ongoing' = NothingOn
      BY <2>2, <2>6 DEF Closing, Ongoing, NothingOn
    <3>2. ASSUME Ongoing # NothingOn, status' = "success"
          PROVE  Promises[Ongoing.target] = Ongoing.value
      <4>1. request.op = "write"
        BY <3>2, OngoingIs
      <4>2. /\ request.target \in platform.writable /\ request.target \in Targets
            /\ Ongoing.target = request.target /\ Ongoing.value = request.value
        BY <4>1, OngoingIs DEF AtomicStep
      <4>3. Held(request.target) = <<Data(request.value), Data(request.value)>>
        BY <2>6, <3>2, <4>1 DEF Closing, NewContents
      <4>4. Available(request.target) = request.value
        BY <2>1, <4>2, <4>3, DataIs DEF Shown
      <4> QED
        BY <4>2, <4>4 DEF Promises, Promised
    <3>3. Atomic!End
      BY <3>1, <3>2 DEF Atomic!End, Promises, Ongoing, NothingOn
    <3> QED
      BY <3>3 DEF Atomic!Next
  <2> QED
    BY <2>3, <2>4, <2>5, <2>6 DEF AtomicStep, Effects
<1> QED
  BY <1>1, <1>2, Steadily, PTL DEF ImplementsFtwAtomic, Atomic!Spec, Spec

\* So callers that ask for one write at a time, as the variable driver does, need
\* no condition.
THEOREM OneAtomicWriteAtATime ==
  ASSUME AllSteady, OneAtATime
  PROVE  Spec => []SettledWhenIdle /\ ImplementsFtwAtomic
<1> HIDE DEF ImplementsFtwAtomic
<1> QED
  BY RoomForOneWrite, Settled, AtomicWrites, PTL
=============================================================================
