--------------------------- MODULE DxeEventProofs ---------------------------
(***************************************************************************)
(* Proofs about DxeEvent, for every value of its constants and without the *)
(* bounds of the runs, in builds that read gEventPending once in each turn *)
(* of CoreRestoreTpl's loop (ReadsOnce): in a build that reads it again,   *)
(* gEfiCurrentTpl may leave the levels and some of the statements fail.    *)
(***************************************************************************)
EXTENDS DxeEvent, FiniteSetTheorems, TLAPS

(***************************************************************************)
(* The inductive invariant.  Its heart is a statement about the whole      *)
(* stack: every activation knows the level it will return at, the          *)
(* activation below it runs at that level again, and levels never decrease *)
(* up the stack.                                                           *)
(***************************************************************************)
\* Activation f runs at level c.
LevelOK(f, c) ==
  /\ c >= f.level
  /\ f.proc = "Task" => c = IF f.arg = NoTpl THEN f.level ELSE f.arg
  /\ f.proc = "Dispatch" /\ f.pc = "notify" /\ f.ev = CheckTimerEvent => f.level = TPL_TIMER
  /\ f.proc \in {"Dispatch", "Signal", "NotifyList", "CheckEvent", "Wait", "Close", "Isr"}
       => c = f.level
  /\ f.proc = "NotifyList" => f.level = TPL_HIGH_LEVEL
  /\ f.proc = "Isr" => f.level < TPL_HIGH_LEVEL
  /\ f.proc \in {"Close", "SetTimer"} => f.level <= TPL_NOTIFY
  /\ f.proc = "SetTimer" => c = IF f.pc = "remove" THEN f.level ELSE TPL_TIMER
  /\ f.proc = "CheckTimers" => f.level = TPL_TIMER /\ c = TPL_TIMER
  /\ f.proc = "RestoreTpl" /\ f.pc = "dispatch" => f.arg > f.level

\* Activation f was called by activation g.
CalledBy(f, g) ==
  /\ f.proc = "Dispatch" => g.proc = "RestoreTpl" /\ g.level < f.level
  /\ f.proc = "CheckTimers" => g.proc = "Dispatch"
  /\ f.proc = "Task" => g.proc = "Dispatch"

Bottom(f) == f.proc = "Task" /\ f.ev = NoEvent

\* The stack s whose top runs at level c.
StackOK(s, c) ==
  /\ s \in Seq(Activation)
  /\ Len(s) > 0
  /\ Bottom(s[Len(s)])
  /\ \A i \in 1..(Len(s) - 1) : ~Bottom(s[i]) /\ CalledBy(s[i], s[i + 1])
  /\ \A i \in 1..Len(s) : LevelOK(s[i], IF i = 1 THEN c ELSE s[i - 1].level)
  /\ \A i, j \in 1..Len(s) : i < j => s[i].level >= s[j].level

\* Activation f holds mEfiTimerLock.
Holds(f) ==
  \/ f.proc = "SetTimer" /\ f.pc # "remove"
  \/ f.proc = "CheckTimers" /\ f.pc # "lock"

\* The owner level o of mEfiTimerLock, and the one activation that holds it.
LockOK(s, o) ==
  /\ \A i \in 1..Len(s) : Holds(s[i]) => o = s[i].level
  /\ \A i, j \in 1..Len(s) : Holds(s[i]) /\ Holds(s[j]) => i = j
  /\ o # NoTpl => \E i \in 1..Len(s) : Holds(s[i])

\* mEfiCheckTimerEvent is only ever queued at its own level.
CheckTimerEventOK ==
  /\ event[CheckTimerEvent].type = {"SIGNAL"}
  /\ event[CheckTimerEvent].ntpl = TPL_TIMER
  /\ \A t \in QueueLevels : Linked(queue[t], CheckTimerEvent) => t = TPL_TIMER

\* The types of everything but the stack.
DataOK ==
  /\ tpl \in Tpls
  /\ interrupts \in BOOLEAN
  /\ pending \subseteq QueueLevels
  /\ queue \in [QueueLevels -> Seq(Event)]
  /\ signalList \in Seq(Event)
  /\ timerList \in Seq(Event)
  /\ timerOwner \in Tpls \cup {NoTpl}
  /\ now \in Nat
  /\ event \in [Event -> EventRecord]
  /\ calls \in Nat

ControlOK == StackOK(stack, tpl) /\ LockOK(stack, timerOwner)

IndInv ==
  /\ ReadsOnce
  /\ DataOK
  /\ ControlOK
  /\ QueueConsistent
  /\ CheckTimerEventOK
  /\ HighLevelMasksInterrupts

-----------------------------------------------------------------------------
(***************************************************************************)
(* Sequences and lists.                                                    *)
(***************************************************************************)
\* What pushing an activation (or inserting at the head of a list) builds.
LEMMA PushSeq ==
  ASSUME NEW S, NEW s \in Seq(S), NEW f \in S
  PROVE  LET p == <<f>> \o s
         IN  /\ p \in Seq(S)
             /\ p # <<>>
             /\ Len(p) = Len(s) + 1
             /\ \A i \in 1..Len(p) : p[i] = IF i = 1 THEN f ELSE s[i - 1]
             /\ Head(p) = f
             /\ Tail(p) = s
OBVIOUS

LEMMA PopSeq ==
  ASSUME NEW S, NEW s \in Seq(S), s # <<>>
  PROVE  /\ Tail(s) \in Seq(S)
         /\ Head(s) = s[1] /\ Head(s) \in S
         /\ Len(Tail(s)) = Len(s) - 1 /\ Len(s) > 0
         /\ \A i \in 1..(Len(s) - 1) : Tail(s)[i] = s[i + 1]
OBVIOUS

\* Unlinking an entry from a list without duplicates.
LEMMA UnlinkList ==
  ASSUME NEW S, NEW s \in Seq(S), NEW e \in S, NoDuplicates(s)
  PROVE  /\ Unlink(s, e) \in Seq(S)
         /\ NoDuplicates(Unlink(s, e))
         /\ ~Linked(Unlink(s, e), e)
         /\ \A x : Linked(Unlink(s, e), x) => Linked(s, x)
<1>1. CASE ~Linked(s, e)
  BY <1>1 DEF Unlink
<1>2. CASE Linked(s, e)
  <2> DEFINE k == PositionOf(s, e)
             r == RemoveEntryList(s, e)
  <2>1. k \in 1..Len(s) /\ s[k] = e
    BY <1>2 DEF Linked, PositionOf
  <2> HIDE DEF k
  <2>2. r = [i \in 1..(Len(s) - 1) |-> IF i < k THEN s[i] ELSE s[i + 1]]
    BY DEF RemoveEntryList, k
  <2>3. r \in Seq(S) /\ Len(r) = Len(s) - 1
    BY <2>1, <2>2
  <2>4. \A i \in 1..Len(r) : r[i] = IF i < k THEN s[i] ELSE s[i + 1]
    BY <2>2, <2>3
  <2> HIDE DEF r
  <2>5. NoDuplicates(r)
    BY <2>1, <2>3, <2>4 DEF NoDuplicates
  <2>6. ~Linked(r, e)
    BY <2>1, <2>3, <2>4 DEF NoDuplicates, Linked
  <2>7. \A x : Linked(r, x) => Linked(s, x)
    BY <2>1, <2>3, <2>4 DEF Linked
  <2> QED
    BY <1>2, <2>3, <2>5, <2>6, <2>7 DEF Unlink, r
<1> QED
  BY <1>1, <1>2

\* Appending an entry that is not linked.
LEMMA AppendList ==
  ASSUME NEW S, NEW s \in Seq(S), NEW e \in S, NoDuplicates(s), ~Linked(s, e)
  PROVE  /\ InsertTailList(s, e) \in Seq(S)
         /\ NoDuplicates(InsertTailList(s, e))
         /\ \A x : Linked(InsertTailList(s, e), x) => x = e \/ Linked(s, x)
BY DEF InsertTailList, NoDuplicates, Linked

\* The list without its first entry.
LEMMA TailList ==
  ASSUME NEW S, NEW s \in Seq(S), s # <<>>, NoDuplicates(s)
  PROVE  /\ Tail(s) \in Seq(S)
         /\ NoDuplicates(Tail(s))
         /\ Head(s) \in S /\ Linked(s, Head(s))
         /\ \A x : Linked(Tail(s), x) => Linked(s, x)
BY DEF NoDuplicates, Linked

\* Removing and inserting timers keeps lists of events.
LEMMA UnlinkType ==
  ASSUME NEW S, NEW s \in Seq(S), NEW e
  PROVE  Unlink(s, e) \in Seq(S)
<1>1. CASE Linked(s, e)
  <2>1. PositionOf(s, e) \in 1..Len(s)
    BY <1>1 DEF Linked, PositionOf
  <2> QED
    BY <1>1, <2>1 DEF Unlink, RemoveEntryList
<1> QED
  BY <1>1 DEF Unlink

LEMMA InsertBeforeType ==
  ASSUME NEW S, NEW s \in Seq(S), NEW e \in S, NEW k \in 1..(Len(s) + 1)
  PROVE  InsertBefore(s, k, e) \in Seq(S)
BY DEF InsertBefore

-----------------------------------------------------------------------------
(***************************************************************************)
(* The stack.  What an action does to the stack is a few of three changes: *)
(* the top activation returns, a new one is called, or the top one goes on *)
(* with another pc, and each keeps StackOK.                                *)
(***************************************************************************)
\* Task priority levels are numbers, and activations have one.
LEMMA LevelsAreNumbers ==
  /\ Tpls \subseteq Nat /\ QueueLevels \subseteq Nat
  /\ \A f \in Activation : f \in FrameRecord /\ FrameOK(f) /\ f.level \in Tpls /\ f.level \in Nat
<1>1. Tpls \subseteq Nat /\ QueueLevels \subseteq Nat
  BY DEF QueueLevels, NoTpl, Tpls, NotifyTpls, TPL_APPLICATION, TPL_CALLBACK, TPL_NOTIFY,
         TPL_TIMER, TPL_HIGH_LEVEL
<1>2. \A f \in Activation : f \in FrameRecord /\ FrameOK(f)
  BY DEF Activation
<1>3. \A f \in FrameRecord : f.level \in Tpls
  BY DEF FrameRecord
<1> QED
  BY <1>1, <1>2, <1>3

\* A return: the activation below runs at the level returned to.
LEMMA PopStack ==
  ASSUME NEW s, NEW c, StackOK(s, c), ~Bottom(s[1])
  PROVE  StackOK(Tail(s), s[1].level) /\ Len(s) > 1
<1>1. s \in Seq(Activation) /\ s # <<>>
  BY DEF StackOK
<1>2. Len(s) > 1
  BY <1>1 DEF StackOK
<1>3. /\ Tail(s) \in Seq(Activation)
      /\ Len(Tail(s)) = Len(s) - 1
      /\ \A i \in 1..(Len(s) - 1) : Tail(s)[i] = s[i + 1]
  BY <1>1, PopSeq
<1> DEFINE r == Tail(s)
<1> HIDE DEF r
<1>4. Bottom(r[Len(r)])
  BY <1>1, <1>2, <1>3 DEF StackOK, r
<1>5. \A i \in 1..(Len(r) - 1) : ~Bottom(r[i]) /\ CalledBy(r[i], r[i + 1])
  <2> TAKE i \in 1..(Len(r) - 1)
  <2>1. r[i] = s[i + 1] /\ r[i + 1] = s[(i + 1) + 1] /\ i + 1 \in 1..(Len(s) - 1)
    BY <1>1, <1>2, <1>3 DEF r
  <2> QED
    BY <2>1 DEF StackOK
<1>6. \A i \in 1..Len(r) : LevelOK(r[i], IF i = 1 THEN s[1].level ELSE r[i - 1].level)
  <2> TAKE i \in 1..Len(r)
  <2>1. r[i] = s[i + 1] /\ i + 1 \in 1..Len(s) /\ i + 1 # 1
    BY <1>1, <1>2, <1>3 DEF r
  <2>2. LevelOK(s[i + 1], s[(i + 1) - 1].level)
    BY <2>1 DEF StackOK
  <2>3. s[(i + 1) - 1] = IF i = 1 THEN s[1] ELSE r[i - 1]
    BY <1>1, <1>2, <1>3 DEF r
  <2> QED
    BY <2>1, <2>2, <2>3
<1>7. \A i, j \in 1..Len(r) : i < j => r[i].level >= r[j].level
  <2> SUFFICES ASSUME NEW i \in 1..Len(r), NEW j \in 1..Len(r), i < j
               PROVE  r[i].level >= r[j].level
    OBVIOUS
  <2>1. /\ r[i] = s[i + 1] /\ r[j] = s[j + 1]
        /\ i + 1 \in 1..Len(s) /\ j + 1 \in 1..Len(s) /\ i + 1 < j + 1
    BY <1>1, <1>2, <1>3 DEF r
  <2> QED
    BY <2>1 DEF StackOK
<1> QED
  BY <1>2, <1>3, <1>4, <1>5, <1>6, <1>7 DEF StackOK, r

\* A call: the new activation returns at the level the caller runs at.
LEMMA PushStack ==
  ASSUME NEW s, NEW f \in Activation, NEW c,
         StackOK(s, f.level), LevelOK(f, c), CalledBy(f, s[1]), ~Bottom(f)
  PROVE  StackOK(<<f>> \o s, c)
<1> DEFINE p == <<f>> \o s
<1>1. s \in Seq(Activation) /\ Len(s) > 0
  BY DEF StackOK
<1>2. /\ p \in Seq(Activation)
      /\ Len(p) = Len(s) + 1
      /\ \A i \in 1..Len(p) : p[i] = IF i = 1 THEN f ELSE s[i - 1]
  BY <1>1, PushSeq
<1> HIDE DEF p
<1>3. Bottom(p[Len(p)])
  BY <1>1, <1>2 DEF StackOK
<1>4. \A i \in 1..(Len(p) - 1) : ~Bottom(p[i]) /\ CalledBy(p[i], p[i + 1])
  <2> TAKE i \in 1..(Len(p) - 1)
  <2>1. CASE i = 1
    <3>1. p[i] = f /\ p[i + 1] = s[1]
      BY <1>1, <1>2, <2>1
    <3> QED
      BY <3>1
  <2>2. CASE i # 1
    <3>1. p[i] = s[i - 1] /\ p[i + 1] = s[(i - 1) + 1] /\ i - 1 \in 1..(Len(s) - 1)
      BY <1>1, <1>2, <2>2
    <3> QED
      BY <3>1 DEF StackOK
  <2> QED
    BY <2>1, <2>2
<1>5. \A i \in 1..Len(p) : LevelOK(p[i], IF i = 1 THEN c ELSE p[i - 1].level)
  <2> TAKE i \in 1..Len(p)
  <2>1. CASE i = 1
    BY <1>1, <1>2, <2>1
  <2>2. CASE i # 1
    <3>1. p[i] = s[i - 1] /\ i - 1 \in 1..Len(s)
      BY <1>1, <1>2, <2>2
    <3>2. LevelOK(s[i - 1], IF i - 1 = 1 THEN f.level ELSE s[(i - 1) - 1].level)
      BY <3>1 DEF StackOK
    <3>3. p[i - 1] = IF i - 1 = 1 THEN f ELSE s[(i - 1) - 1]
      BY <1>1, <1>2, <2>2
    <3> QED
      BY <2>2, <3>1, <3>2, <3>3
  <2> QED
    BY <2>1, <2>2
<1>6. \A i, j \in 1..Len(p) : i < j => p[i].level >= p[j].level
  <2> SUFFICES ASSUME NEW i \in 1..Len(p), NEW j \in 1..Len(p), i < j
               PROVE  p[i].level >= p[j].level
    OBVIOUS
  <2>1. p[j] = s[j - 1] /\ j - 1 \in 1..Len(s)
    BY <1>1, <1>2
  <2>2. \A k \in 1..Len(s) : s[k].level \in Nat
    <3> TAKE k \in 1..Len(s)
    <3>1. s[k] \in Activation
      BY <1>1
    <3> QED
      BY <3>1, LevelsAreNumbers
  <2>3. f.level \in Nat
    BY LevelsAreNumbers
  <2>4. CASE i = 1
    <3>1. LevelOK(s[1], f.level)
      BY <1>1 DEF StackOK
    <3>2. f.level >= s[1].level
      BY <3>1 DEF LevelOK
    <3>3. j - 1 = 1 \/ s[1].level >= s[j - 1].level
      BY <2>1, <1>1 DEF StackOK
    <3>4. s[1].level \in Nat /\ s[j - 1].level \in Nat
      BY <1>1, <2>1, <2>2
    <3>5. f.level >= s[j - 1].level
      BY <2>3, <3>2, <3>3, <3>4
    <3>6. p[i] = f
      BY <1>2, <2>4
    <3> QED
      BY <2>1, <3>5, <3>6
  <2>5. CASE i # 1
    <3>1. p[i] = s[i - 1] /\ i - 1 \in 1..Len(s) /\ i - 1 < j - 1
      BY <1>1, <1>2, <2>5
    <3> QED
      BY <2>1, <3>1 DEF StackOK
  <2> QED
    BY <2>4, <2>5
<1> QED
  BY <1>1, <1>2, <1>3, <1>4, <1>5, <1>6 DEF StackOK, p

\* Going on: the top activation changes what it keeps, not its level.
LEMMA ReplaceTop ==
  ASSUME NEW s, NEW c, NEW f \in Activation, NEW d,
         StackOK(s, c), f.level = s[1].level, LevelOK(f, d),
         Len(s) > 1 => ~Bottom(f) /\ CalledBy(f, s[2]),
         Bottom(s[1]) => Bottom(f)
  PROVE  StackOK(<<f>> \o Tail(s), d)
<1>1. s \in Seq(Activation) /\ Len(s) > 0 /\ s # <<>>
  BY DEF StackOK
<1>2. CASE ~Bottom(s[1])
  <2>1. StackOK(Tail(s), f.level) /\ Len(s) > 1
    BY <1>2, PopStack
  <2>2. Tail(s)[1] = s[2]
    BY <1>1, <2>1
  <2> QED
    BY <2>1, <2>2, PushStack
<1>3. CASE Bottom(s[1])
  <2>1. Len(s) = 1
    <3>1. Len(s) \in Nat
      BY <1>1
    <3>2. ~(1 \in 1..(Len(s) - 1))
      BY <1>3 DEF StackOK
    <3>3. \A n \in Nat : n > 0 /\ ~(1 \in 1..(n - 1)) => n = 1
      OBVIOUS
    <3> QED
      BY <1>1, <3>1, <3>2, <3>3
  <2> DEFINE p == <<f>> \o Tail(s)
  <2>2. p \in Seq(Activation) /\ Len(p) = 1 /\ p[1] = f
    BY <1>1, <2>1
  <2> HIDE DEF p
  <2>3. StackOK(p, d)
    BY <1>3, <2>2 DEF StackOK
  <2> QED
    BY <2>3 DEF p
<1> QED
  BY <1>2, <1>3

\* The lock: changes that neither add nor remove its holder.
LEMMA LockPush ==
  ASSUME NEW s \in Seq(Activation), NEW f \in Activation, NEW o, LockOK(s, o), ~Holds(f)
  PROVE  LockOK(<<f>> \o s, o)
<1> DEFINE p == <<f>> \o s
<1>1. /\ Len(p) = Len(s) + 1 /\ Len(s) \in Nat
      /\ \A i \in 1..Len(p) : p[i] = IF i = 1 THEN f ELSE s[i - 1]
  BY PushSeq
<1> HIDE DEF p
<1>2. \A i \in 1..Len(p) : Holds(p[i]) => i > 1 /\ i - 1 \in 1..Len(s) /\ p[i] = s[i - 1]
  BY <1>1
<1>3. \A i \in 1..Len(s) : i + 1 \in 1..Len(p) /\ p[i + 1] = s[i]
  BY <1>1
<1>4. \A i \in 1..Len(p) : Holds(p[i]) => o = p[i].level
  BY <1>2 DEF LockOK
<1>5. \A i, j \in 1..Len(p) : Holds(p[i]) /\ Holds(p[j]) => i = j
  <2> SUFFICES ASSUME NEW i \in 1..Len(p), NEW j \in 1..Len(p), Holds(p[i]), Holds(p[j])
               PROVE  i = j
    OBVIOUS
  <2>1. /\ i - 1 \in 1..Len(s) /\ Holds(s[i - 1])
        /\ j - 1 \in 1..Len(s) /\ Holds(s[j - 1])
    BY <1>2
  <2>2. i - 1 = j - 1
    BY <2>1 DEF LockOK
  <2> QED
    BY <2>2
<1>6. o # NoTpl => \E i \in 1..Len(p) : Holds(p[i])
  <2> SUFFICES ASSUME o # NoTpl PROVE \E i \in 1..Len(p) : Holds(p[i])
    OBVIOUS
  <2>1. PICK i \in 1..Len(s) : Holds(s[i])
    BY DEF LockOK
  <2> QED
    BY <2>1, <1>3
<1> QED
  BY <1>4, <1>5, <1>6 DEF LockOK, p

LEMMA LockPop ==
  ASSUME NEW s \in Seq(Activation), s # <<>>, NEW o, LockOK(s, o), ~Holds(s[1])
  PROVE  LockOK(Tail(s), o)
<1> DEFINE r == Tail(s)
<1>1. /\ Len(r) = Len(s) - 1 /\ Len(s) \in Nat /\ Len(s) > 0
      /\ \A i \in 1..Len(r) : i + 1 \in 1..Len(s) /\ r[i] = s[i + 1]
  BY PopSeq
<1> HIDE DEF r
<1>2. \A i \in 1..Len(r) : Holds(r[i]) => o = r[i].level
  BY <1>1 DEF LockOK
<1>3. \A i, j \in 1..Len(r) : Holds(r[i]) /\ Holds(r[j]) => i = j
  <2> SUFFICES ASSUME NEW i \in 1..Len(r), NEW j \in 1..Len(r), Holds(r[i]), Holds(r[j])
               PROVE  i = j
    OBVIOUS
  <2>1. i + 1 = j + 1
    BY <1>1 DEF LockOK
  <2> QED
    BY <2>1
<1>4. o # NoTpl => \E i \in 1..Len(r) : Holds(r[i])
  <2> SUFFICES ASSUME o # NoTpl PROVE \E i \in 1..Len(r) : Holds(r[i])
    OBVIOUS
  <2>1. PICK i \in 1..Len(s) : Holds(s[i])
    BY DEF LockOK
  <2>2. i # 1 /\ i - 1 \in 1..Len(r) /\ r[i - 1] = s[i]
    BY <1>1, <2>1
  <2> QED
    BY <2>1, <2>2
<1> QED
  BY <1>2, <1>3, <1>4 DEF LockOK, r

\* The holder goes on, still holding the lock.
LEMMA LockKeep ==
  ASSUME NEW s \in Seq(Activation), s # <<>>, NEW f \in Activation, NEW o, LockOK(s, o),
         Holds(s[1]), Holds(f), f.level = s[1].level
  PROVE  LockOK(<<f>> \o Tail(s), o)
<1> DEFINE p == <<f>> \o Tail(s)
<1>1. /\ Len(p) = Len(s) /\ Len(s) \in Nat /\ Len(s) > 0
      /\ \A i \in 1..Len(p) : p[i] = IF i = 1 THEN f ELSE s[i]
  BY PopSeq, PushSeq
<1> HIDE DEF p
<1>2. \A i \in 1..Len(p) : (Holds(p[i]) <=> Holds(s[i])) /\ p[i].level = s[i].level
  BY <1>1
<1> QED
  BY <1>1, <1>2 DEF LockOK, p

\* The holder releases the lock: nobody holds it.
LEMMA LockRelease ==
  ASSUME NEW s \in Seq(Activation), s # <<>>, NEW o, LockOK(s, o), Holds(s[1])
  PROVE  LockOK(Tail(s), NoTpl) /\ o = s[1].level
<1> DEFINE r == Tail(s)
<1>1. /\ Len(r) = Len(s) - 1 /\ Len(s) \in Nat /\ Len(s) > 0
      /\ \A i \in 1..Len(r) : i + 1 \in 1..Len(s) /\ r[i] = s[i + 1]
  BY PopSeq
<1>2. \A i \in 1..Len(s) : Holds(s[i]) => i = 1
  BY <1>1 DEF LockOK
<1> HIDE DEF r
<1>3. \A i \in 1..Len(r) : ~Holds(r[i])
  BY <1>1, <1>2
<1>4. o = s[1].level
  BY <1>1 DEF LockOK
<1> QED
  BY <1>3, <1>4 DEF LockOK, r

\* The lock is free and the top activation, below which nobody holds it,
\* acquires it.
LEMMA LockAcquire ==
  ASSUME NEW s \in Seq(Activation), s # <<>>, NEW f \in Activation, Holds(f),
         \A i \in 1..Len(s) : ~Holds(s[i])
  PROVE  LockOK(<<f>> \o Tail(s), f.level)
<1> DEFINE p == <<f>> \o Tail(s)
<1>1. /\ Len(p) = Len(s) /\ Len(s) \in Nat /\ Len(s) > 0
      /\ \A i \in 1..Len(p) : p[i] = IF i = 1 THEN f ELSE s[i]
  BY PopSeq, PushSeq
<1> HIDE DEF p
<1> QED
  BY <1>1 DEF LockOK, p

LEMMA LockReplace ==
  ASSUME NEW s \in Seq(Activation), s # <<>>, NEW f \in Activation, NEW o, LockOK(s, o),
         ~Holds(s[1]), ~Holds(f)
  PROVE  LockOK(<<f>> \o Tail(s), o)
<1>1. Tail(s) \in Seq(Activation)
  BY PopSeq
<1> QED
  BY <1>1, LockPop, LockPush

-----------------------------------------------------------------------------
(***************************************************************************)
(* The three changes, for stack and lock together.                         *)
(***************************************************************************)
LEMMA StackNotEmpty ==
  ASSUME NEW s, NEW c, StackOK(s, c)
  PROVE  /\ s \in Seq(Activation) /\ s # <<>> /\ Len(s) > 0
         /\ Head(s) = s[1] /\ s[1] \in Activation /\ LevelOK(s[1], c)
         /\ Tail(s) \in Seq(Activation)
<1>1. s \in Seq(Activation) /\ Len(s) > 0
  BY DEF StackOK
<1>2. s # <<>> /\ 1 \in 1..Len(s)
  BY <1>1
<1>3. LevelOK(s[1], c)
  BY <1>2 DEF StackOK
<1> QED
  BY <1>1, <1>2, <1>3, PopSeq

\* The top activation calls g, at the level it runs at.
LEMMA Calls ==
  ASSUME NEW s, NEW c, NEW o, StackOK(s, c), LockOK(s, o),
         NEW g \in Activation, NEW d, g.level = c, LevelOK(g, d), CalledBy(g, s[1]),
         ~Bottom(g), ~Holds(g)
  PROVE  StackOK(<<g>> \o s, d) /\ LockOK(<<g>> \o s, o)
BY PushStack, LockPush, StackNotEmpty

\* The top activation returns to its caller, at the level c.
LEMMA Returns ==
  ASSUME NEW s, NEW c, NEW o, StackOK(s, c), LockOK(s, o), s[1].level = c,
         ~Bottom(s[1]), ~Holds(s[1])
  PROVE  StackOK(Tail(s), c) /\ LockOK(Tail(s), o)
BY PopStack, LockPop, StackNotEmpty

\* The top activation goes on with another pc, event or argument.
LEMMA GoesOn ==
  ASSUME NEW s, NEW c, NEW o, StackOK(s, c), LockOK(s, o),
         NEW f \in Activation, f.proc = s[1].proc, f.level = s[1].level,
         f.proc # "Task",
         f.proc = "RestoreTpl" => f.pc # "dispatch",
         f.proc = "SetTimer" => (f.pc = "remove" <=> s[1].pc = "remove"),
         f.proc = "CheckTimers" => (f.pc = "lock" <=> s[1].pc = "lock"),
         f.proc = "Dispatch" /\ f.pc = "notify" /\ f.ev = CheckTimerEvent
           => f.level = TPL_TIMER
  PROVE  StackOK(<<f>> \o Tail(s), c) /\ LockOK(<<f>> \o Tail(s), o)
<1>1. /\ s \in Seq(Activation) /\ s # <<>> /\ Len(s) > 0
      /\ s[1] \in Activation /\ LevelOK(s[1], c)
  BY StackNotEmpty
<1>2. LevelOK(f, c)
  BY <1>1 DEF LevelOK
<1>3. ~Bottom(f) /\ ~Bottom(s[1])
  BY DEF Bottom
<1>4. Len(s) > 1 => CalledBy(f, s[2])
  <2> SUFFICES ASSUME Len(s) > 1 PROVE CalledBy(f, s[2])
    OBVIOUS
  <2>1. 1 \in 1..(Len(s) - 1) /\ s[1 + 1] = s[2]
    BY <1>1
  <2>2. CalledBy(s[1], s[2])
    BY <2>1 DEF StackOK
  <2> QED
    BY <2>2 DEF CalledBy
<1>5. StackOK(<<f>> \o Tail(s), c)
  BY <1>2, <1>3, <1>4, ReplaceTop
<1>6. Holds(f) <=> Holds(s[1])
  BY DEF Holds
<1>7. LockOK(<<f>> \o Tail(s), o)
  BY <1>1, <1>6, LockReplace, LockKeep
<1> QED
  BY <1>5, <1>7

\* A section under gEventQueueLock: the release is still to be done.
LEMMA Section ==
  ASSUME NEW s, NEW t \in Tpls, NEW o, StackOK(s, t), LockOK(s, o)
  PROVE  /\ StackOK(<<RestoreTo(t)>> \o s, TPL_HIGH_LEVEL)
         /\ LockOK(<<RestoreTo(t)>> \o s, o)
<1>1. /\ RestoreTo(t) \in Activation
      /\ RestoreTo(t).level = t /\ RestoreTo(t).proc = "RestoreTpl"
      /\ RestoreTo(t).pc = "while"
  BY DEF RestoreTo, Frame, Activation, FrameRecord, FrameOK, Procs, Pcs
<1>2. TPL_HIGH_LEVEL >= t
  BY DEF Tpls, NotifyTpls, TPL_APPLICATION, TPL_CALLBACK, TPL_NOTIFY, TPL_TIMER,
         TPL_HIGH_LEVEL
<1>3. LevelOK(RestoreTo(t), TPL_HIGH_LEVEL)
  BY <1>1, <1>2 DEF LevelOK
<1>4. CalledBy(RestoreTo(t), s[1]) /\ ~Bottom(RestoreTo(t)) /\ ~Holds(RestoreTo(t))
  BY <1>1 DEF CalledBy, Bottom, Holds
<1> QED
  BY <1>1, <1>3, <1>4, Calls

-----------------------------------------------------------------------------
(***************************************************************************)
(* What the invariant says of the top activation, and of the activations   *)
(* the services build.                                                     *)
(***************************************************************************)
LEMMA TopFacts ==
  ASSUME IndInv
  PROVE  /\ StackOK(stack, tpl) /\ LockOK(stack, timerOwner)
         /\ stack \in Seq(Activation) /\ stack # <<>> /\ Len(stack) > 0
         /\ Top = stack[1] /\ Callers = Tail(stack) /\ Callers \in Seq(Activation)
         /\ Top \in Activation /\ Top \in FrameRecord /\ FrameOK(Top)
         /\ Top.level \in Tpls /\ Top.level \in Nat /\ LevelOK(Top, tpl)
         /\ tpl \in Tpls /\ tpl \in Nat
<1>1. StackOK(stack, tpl) /\ LockOK(stack, timerOwner) /\ tpl \in Tpls
  BY DEF IndInv, ControlOK, DataOK
<1>2. tpl \in Nat
  BY <1>1, LevelsAreNumbers
<1>3. Top = stack[1] /\ Callers = Tail(stack)
  BY <1>1, StackNotEmpty DEF Top, Callers
<1> QED
  BY <1>1, <1>2, <1>3, StackNotEmpty, LevelsAreNumbers

\* The activation below the top one runs, and called it.
LEMMA CallerFacts ==
  ASSUME IndInv, ~Bottom(Top)
  PROVE  /\ Len(stack) > 1 /\ stack[2] \in Activation
         /\ StackOK(Callers, Top.level) /\ CalledBy(Top, stack[2])
         /\ LevelOK(stack[2], Top.level) /\ Top.level >= stack[2].level
<1>1. Len(stack) > 1 /\ StackOK(Callers, Top.level)
  BY TopFacts, PopStack
<1>2. Len(stack) \in Nat
  BY TopFacts
<1>3. 1 \in 1..(Len(stack) - 1) /\ 2 \in 1..Len(stack) /\ 1 \in 1..Len(stack)
      /\ 1 < 2 /\ 1 + 1 = 2 /\ 2 - 1 = 1 /\ 2 # 1
  BY <1>1, <1>2
<1>4. CalledBy(Top, stack[2])
  BY <1>3, TopFacts DEF StackOK
<1>5. LevelOK(stack[2], stack[1].level)
  BY <1>3, TopFacts DEF StackOK
<1>6. Top.level >= stack[2].level
  BY <1>3, TopFacts DEF StackOK
<1> QED
  BY <1>1, <1>3, <1>4, <1>5, <1>6, TopFacts

\* A two-activation prefix is pushed one by one.
LEMMA TwoSeq ==
  ASSUME NEW s \in Seq(Activation), NEW f \in Activation, NEW g \in Activation
  PROVE  <<f, g>> \o s = <<f>> \o (<<g>> \o s)
<1> DEFINE p == <<f, g>> \o s
           r == <<g>> \o s
           q == <<f>> \o r
<1>1. /\ p \in Seq(Activation) /\ Len(p) = Len(s) + 2
      /\ \A i \in 1..Len(p) : p[i] = IF i = 1 THEN f ELSE IF i = 2 THEN g ELSE s[i - 2]
  OBVIOUS
<1>2. /\ r \in Seq(Activation) /\ Len(r) = Len(s) + 1
      /\ \A i \in 1..Len(r) : r[i] = IF i = 1 THEN g ELSE s[i - 1]
  BY PushSeq
<1> HIDE DEF r
<1>3. /\ q \in Seq(Activation) /\ Len(q) = Len(r) + 1
      /\ \A i \in 1..Len(q) : q[i] = IF i = 1 THEN f ELSE r[i - 1]
  BY <1>2, PushSeq
<1> HIDE DEF p, q
<1>4. Len(s) \in Nat
  OBVIOUS
<1>5. \A i \in 1..Len(p) : p[i] = q[i]
  <2> TAKE i \in 1..Len(p)
  <2>1. CASE i = 1
    BY <1>1, <1>2, <1>3, <1>4, <2>1
  <2>2. CASE i = 2
    BY <1>1, <1>2, <1>3, <1>4, <2>2
  <2>3. CASE i > 2
    <3>1. i - 1 \in 1..Len(r) /\ i - 1 # 1 /\ (i - 1) - 1 = i - 2 /\ i \in 1..Len(q)
      BY <1>1, <1>2, <1>3, <1>4, <2>3
    <3>2. q[i] = r[i - 1] /\ r[i - 1] = s[(i - 1) - 1] /\ p[i] = s[i - 2]
      BY <1>1, <1>2, <1>3, <2>3, <3>1
    <3> QED
      BY <3>1, <3>2
  <2> QED
    BY <1>1, <1>4, <2>1, <2>2, <2>3
<1>6. p = q
  BY <1>1, <1>2, <1>3, <1>4, <1>5
<1> QED
  BY <1>6 DEF p, q, r

\* The top activation continues at another pc of its procedure.
LEMMA ContinueFrame ==
  ASSUME IndInv, NEW pc \in Pcs \ {"notify", "dispatch"}
  PROVE  LET f == [Top EXCEPT !.pc = pc]
         IN  /\ f \in Activation /\ f.pc = pc
             /\ f.proc = Top.proc /\ f.level = Top.level /\ f.ev = Top.ev /\ f.arg = Top.arg
<1> DEFINE f == [Top EXCEPT !.pc = pc]
<1>1. Top \in FrameRecord /\ FrameOK(Top)
  BY TopFacts
<1>2. /\ f \in FrameRecord /\ f.pc = pc
      /\ f.proc = Top.proc /\ f.level = Top.level /\ f.ev = Top.ev /\ f.arg = Top.arg
  BY <1>1 DEF FrameRecord
<1> HIDE DEF f
<1>3. FrameOK(f)
  BY <1>1, <1>2 DEF FrameOK
<1> QED
  BY <1>2, <1>3 DEF Activation, f

\* The current level is one the lists of levels know.
LEMMA TplNumbers ==
  /\ TPL_APPLICATION = 4 /\ TPL_CALLBACK = 8 /\ TPL_NOTIFY = 16 /\ TPL_TIMER = 30
  /\ TPL_HIGH_LEVEL = 31 /\ NoTpl = 0
  /\ Tpls = {4, 8, 16, 30, 31} /\ NotifyTpls = {8, 16, 30} /\ QueueLevels = {0, 8, 16, 30}
BY DEF Tpls, NotifyTpls, QueueLevels, TPL_APPLICATION, TPL_CALLBACK, TPL_NOTIFY, TPL_TIMER,
       TPL_HIGH_LEVEL, NoTpl

LEMMA HighLevelFacts ==
  /\ TPL_HIGH_LEVEL \in Tpls /\ ~(TPL_HIGH_LEVEL < TPL_HIGH_LEVEL)
  /\ \A t \in Tpls : t # TPL_HIGH_LEVEL => t < TPL_HIGH_LEVEL
  /\ \A t \in Tpls : t >= TPL_HIGH_LEVEL => t = TPL_HIGH_LEVEL
BY TplNumbers

\* The activations of the services.
LEMMA ServiceFrames ==
  ASSUME NEW e \in Event, tpl \in Tpls
  PROVE  /\ Signal(e) \in Activation /\ Check(e) \in Activation
         /\ Close(e) \in Activation
         /\ Isr \in Activation /\ CheckTimers \in Activation /\ Task(e) \in Activation
         /\ NotifyList(e) \in Activation
         /\ WaitList # <<>> => Wait \in Activation
         /\ \A mode \in {"cancel", "periodic", "relative"}, d \in Nat :
              SetTimer(e, mode, d) \in Activation
<1>1. CheckTimerEvent \in Event /\ tpl \in Tpls /\ NoTpl = 0 /\ 0 \in Nat /\ 1 \in Nat
      /\ TPL_HIGH_LEVEL \in Tpls
  BY TplNumbers DEF Event
<1>2. WaitList # <<>> => 1 \in 1..Len(WaitList)
  BY ConstantsAssumption
<1>3. Signal(e) \in Activation /\ Check(e) \in Activation /\ Close(e) \in Activation
  BY <1>1 DEF Signal, Check, Close, Frame, Activation, FrameRecord, FrameOK, Procs, Pcs
<1>4. Isr \in Activation /\ CheckTimers \in Activation /\ Task(e) \in Activation
  BY <1>1 DEF Isr, CheckTimers, Task, Frame, Activation, FrameRecord, FrameOK, Procs, Pcs
<1>5. NotifyList(e) \in Activation
  BY <1>1 DEF NotifyList, Frame, Activation, FrameRecord, FrameOK, Procs, Pcs
<1>6. WaitList # <<>> => Wait \in Activation
  BY <1>1, <1>2 DEF Wait, Frame, Activation, FrameRecord, FrameOK, Procs, Pcs
<1>7. \A mode \in {"cancel", "periodic", "relative"}, d \in Nat :
        SetTimer(e, mode, d) \in Activation
  BY <1>1 DEF SetTimer, Frame, Activation, FrameRecord, FrameOK, Procs, Pcs
<1> QED
  BY <1>3, <1>4, <1>5, <1>6, <1>7

-----------------------------------------------------------------------------
(***************************************************************************)
(* The parts of the invariant an action leaves alone, and what             *)
(* CoreNotifyEvent and a section under gEventQueueLock do to it.           *)
(***************************************************************************)
LEMMA QueuesUntouched ==
  ASSUME IndInv, UNCHANGED <<pending, queue>>,
         event'[CheckTimerEvent].type = event[CheckTimerEvent].type,
         event'[CheckTimerEvent].ntpl = event[CheckTimerEvent].ntpl
  PROVE  QueueConsistent' /\ CheckTimerEventOK'
BY DEF IndInv, QueueConsistent, CheckTimerEventOK

\* Only the stack and the timers' data change.
LEMMA StackStep ==
  ASSUME IndInv, UNCHANGED <<tpl, interrupts, pending, queue, event>>, DataOK', ControlOK'
  PROVE  IndInv'
<1>1. QueueConsistent' /\ CheckTimerEventOK'
  BY QueuesUntouched
<1>2. HighLevelMasksInterrupts'
  BY DEF IndInv, HighLevelMasksInterrupts
<1> QED
  BY <1>1, <1>2 DEF IndInv

LEMMA SectionStep ==
  ASSUME IndInv, NEW s, StackOK(s, tpl), LockOK(s, timerOwner'), EventLockSection(s)
  PROVE  ControlOK' /\ HighLevelMasksInterrupts' /\ tpl' \in Tpls /\ interrupts' \in BOOLEAN
<1>1. tpl' = TPL_HIGH_LEVEL /\ interrupts' = FALSE /\ stack' = <<RestoreTo(tpl)>> \o s
  BY DEF EventLockSection
<1>2. ControlOK'
  BY <1>1, Section, TopFacts DEF ControlOK
<1> QED
  BY <1>1, <1>2, HighLevelFacts, Zenon DEF HighLevelMasksInterrupts

\* The queues after CoreNotifyEvent.
LEMMA NotifyKeeps ==
  ASSUME IndInv, NEW e \in Event, NotifyEvent(e)
  PROVE  /\ queue' \in [QueueLevels -> Seq(Event)] /\ pending' \subseteq QueueLevels
         /\ QueueConsistent'
         /\ \A t \in QueueLevels : Linked(queue'[t], CheckTimerEvent) => t = TPL_TIMER
<1> DEFINE u == event[e].ntpl
           r == Unlink(queue[u], e)
           q == InsertTailList(r, e)
<1>1. /\ event \in [Event -> EventRecord] /\ queue \in [QueueLevels -> Seq(Event)]
      /\ pending \subseteq QueueLevels /\ QueueConsistent /\ CheckTimerEventOK
  BY DEF IndInv, DataOK
<1>2. u \in QueueLevels
  BY <1>1 DEF EventRecord, QueueLevels
<1>3. queue[u] \in Seq(Event) /\ NoDuplicates(queue[u])
  BY <1>1, <1>2 DEF QueueConsistent
<1>4. queue' = [queue EXCEPT ![u] = q] /\ pending' = pending \cup {u}
  BY DEF NotifyEvent
<1> HIDE DEF u
<1>5. /\ r \in Seq(Event) /\ NoDuplicates(r) /\ ~Linked(r, e)
      /\ \A x : Linked(r, x) => Linked(queue[u], x)
  BY <1>3, UnlinkList
<1> HIDE DEF r
<1>6. /\ q \in Seq(Event) /\ NoDuplicates(q)
      /\ \A x : Linked(q, x) => x = e \/ Linked(r, x)
  BY <1>5, AppendList
<1> HIDE DEF q
<1>7. queue' \in [QueueLevels -> Seq(Event)] /\ pending' \subseteq QueueLevels
  BY <1>1, <1>2, <1>4, <1>6
<1>8. QueueConsistent'
  BY <1>1, <1>2, <1>4, <1>6 DEF QueueConsistent
<1>9. ASSUME NEW t \in QueueLevels, Linked(queue'[t], CheckTimerEvent)
      PROVE  t = TPL_TIMER
  <2>1. CASE t # u
    BY <1>1, <1>2, <1>4, <1>9, <2>1 DEF CheckTimerEventOK
  <2>2. CASE t = u
    <3>1. Linked(q, CheckTimerEvent)
      BY <1>1, <1>2, <1>4, <1>9, <2>2
    <3>2. CASE e = CheckTimerEvent
      BY <1>1, <2>2, <3>2 DEF CheckTimerEventOK, u
    <3>3. CASE e # CheckTimerEvent
      BY <1>1, <1>2, <1>5, <1>6, <2>2, <3>1, <3>3 DEF CheckTimerEventOK
    <3> QED
      BY <3>2, <3>3
  <2> QED
    BY <2>1, <2>2
<1> QED
  BY <1>7, <1>8, <1>9

-----------------------------------------------------------------------------
(***************************************************************************)
(* CoreRestoreTpl.                                                         *)
(***************************************************************************)
\* HighBitSet64 of the pending levels, when one of them is above t.
LEMMA HighBit ==
  ASSUME NEW bits \in SUBSET QueueLevels, NEW t \in Tpls, NEW q \in bits, q > t
  PROVE  HighBitSet64(bits) \in bits /\ HighBitSet64(bits) \in NotifyTpls /\ HighBitSet64(bits) > t
<1>1. \E p \in bits : \A r \in bits : r <= p
  <2>1. CASE 30 \in bits
    BY <2>1, TplNumbers
  <2>2. CASE 30 \notin bits /\ 16 \in bits
    BY <2>2, TplNumbers
  <2>3. CASE 30 \notin bits /\ 16 \notin bits
    BY <2>3, TplNumbers
  <2> QED
    BY <2>1, <2>2, <2>3
<1>2. HighBitSet64(bits) \in bits /\ \A r \in bits : r <= HighBitSet64(bits)
  BY <1>1 DEF HighBitSet64
<1>3. HighBitSet64(bits) \in QueueLevels
  BY <1>2
<1>4. HighBitSet64(bits) >= q
  BY <1>2, <1>3, TplNumbers
<1>5. HighBitSet64(bits) > t /\ HighBitSet64(bits) # 0
  BY <1>3, <1>4, TplNumbers
<1> QED
  BY <1>2, <1>3, <1>5, TplNumbers

LEMMA RestoreTplTestInv ==
  ASSUME IndInv, RestoreTplTest
  PROVE  IndInv'
<1> DEFINE p == HighBitSet64(pending)
           f == [Top EXCEPT !.pc = "dispatch", !.arg = p]
<1>1. At("RestoreTpl", "while") /\ Unmasked(Top.level) # {} /\ stack' = <<f>> \o Callers
  BY DEF RestoreTplTest
<1>2. UNCHANGED <<tpl, interrupts, pending, queue, signalList, timerList, timerOwner,
                  now, event, calls>>
  BY DEF RestoreTplTest
<1>3. p \in NotifyTpls /\ p > Top.level
  <2>1. pending \in SUBSET QueueLevels
    BY DEF IndInv, DataOK
  <2>2. PICK q \in pending : q > Top.level
    BY <1>1 DEF Unmasked
  <2> QED
    BY <2>1, <2>2, HighBit, TopFacts
<1> HIDE DEF p
<1>4. p \in Nat
  BY <1>3, TplNumbers
<1>5. /\ f \in FrameRecord /\ f.pc = "dispatch" /\ f.arg = p
      /\ f.proc = "RestoreTpl" /\ f.level = Top.level
  BY <1>1, <1>4, TopFacts DEF FrameRecord, Pcs, At
<1> HIDE DEF f
<1>6. f \in Activation
  BY <1>3, <1>5 DEF Activation, FrameOK
<1>7. ~Bottom(Top) /\ ~Holds(Top) /\ ~Bottom(f) /\ ~Holds(f)
  BY <1>1, <1>5 DEF At, Bottom, Holds
<1>8. StackOK(<<f>> \o Callers, tpl)
  <2>1. LevelOK(f, tpl)
    BY <1>3, <1>5, TopFacts DEF LevelOK
  <2>2. Len(stack) > 1 => CalledBy(f, stack[2])
    BY <1>5 DEF CalledBy
  <2> QED
    BY <1>5, <1>6, <1>7, <2>1, <2>2, TopFacts, ReplaceTop
<1>9. LockOK(<<f>> \o Callers, timerOwner)
  BY <1>5, <1>6, <1>7, TopFacts, LockReplace
<1>10. ControlOK'
  BY <1>1, <1>2, <1>8, <1>9 DEF ControlOK
<1>11. DataOK'
  BY <1>2 DEF IndInv, DataOK
<1> QED
  BY <1>2, <1>10, <1>11, StackStep

LEMMA RestoreTplDispatchInv ==
  ASSUME IndInv, RestoreTplDispatch
  PROVE  IndInv'
<1> DEFINE p == Top.arg
           g == [Top EXCEPT !.pc = "while", !.arg = 0]
           f == DispatchAt(p)
<1>1. At("RestoreTpl", "dispatch") /\ ReadsOnce
  BY DEF RestoreTplDispatch, IndInv
<1>2. /\ tpl' = p /\ interrupts' = (interrupts \/ p < TPL_HIGH_LEVEL)
      /\ stack' = <<f, g>> \o Callers
      /\ UNCHANGED <<pending, queue, signalList, timerList, timerOwner, now, event, calls>>
  BY <1>1 DEF RestoreTplDispatch
<1>3. pending \in SUBSET QueueLevels /\ interrupts \in BOOLEAN
  BY DEF IndInv, DataOK
<1>4. p \in NotifyTpls /\ p > Top.level
  BY <1>1, TopFacts DEF FrameOK, LevelOK, At
<1> HIDE DEF p
<1>5. p \in Tpls /\ p \in Nat /\ p < TPL_HIGH_LEVEL
  BY <1>4, TplNumbers
<1>6. /\ g \in Activation /\ g.pc = "while"
      /\ g.proc = "RestoreTpl" /\ g.level = Top.level
  <2>1. /\ g \in FrameRecord /\ g.pc = "while"
        /\ g.proc = "RestoreTpl" /\ g.level = Top.level
    BY <1>1, TopFacts DEF FrameRecord, Pcs, At
  <2> HIDE DEF g
  <2> QED
    BY <2>1 DEF Activation, FrameOK
<1>7. f \in Activation /\ f.proc = "Dispatch" /\ f.pc = "lock" /\ f.level = p /\ f.arg = 0
  BY <1>4, <1>5 DEF DispatchAt, Frame, Activation, FrameRecord, FrameOK, Procs, Pcs
<1> HIDE DEF f, g
<1>8. ~Bottom(Top) /\ ~Holds(Top) /\ ~Bottom(g) /\ ~Holds(g) /\ ~Bottom(f) /\ ~Holds(f)
  BY <1>1, <1>6, <1>7 DEF At, Bottom, Holds
<1>9. StackOK(<<g>> \o Callers, p)
  <2>1. LevelOK(g, p)
    BY <1>4, <1>5, <1>6, TopFacts DEF LevelOK
  <2>2. Len(stack) > 1 => CalledBy(g, stack[2])
    BY <1>6 DEF CalledBy
  <2> QED
    BY <1>6, <1>8, <2>1, <2>2, TopFacts, ReplaceTop
<1>10. LockOK(<<g>> \o Callers, timerOwner)
  BY <1>6, <1>8, TopFacts, LockReplace
<1>11. stack' = <<f>> \o (<<g>> \o Callers)
  BY <1>2, <1>6, <1>7, TopFacts, TwoSeq
<1>12. ControlOK'
  <2> DEFINE s == <<g>> \o Callers
  <2>1. s[1] = g
    BY <1>6, TopFacts, PushSeq
  <2>2. CalledBy(f, s[1])
    BY <1>4, <1>5, <1>6, <1>7, <2>1 DEF CalledBy
  <2>3. LevelOK(f, p)
    BY <1>5, <1>7 DEF LevelOK
  <2> HIDE DEF s
  <2>4. StackOK(s, p) /\ LockOK(s, timerOwner)
    BY <1>9, <1>10 DEF s
  <2>5. StackOK(<<f>> \o s, p) /\ LockOK(<<f>> \o s, timerOwner)
    BY <1>7, <1>8, <2>2, <2>3, <2>4, Calls
  <2> QED
    BY <1>2, <1>11, <2>5 DEF ControlOK, s
<1>13. QueueConsistent' /\ CheckTimerEventOK'
  BY <1>2, QueuesUntouched
<1>14. DataOK'
  BY <1>2, <1>3, <1>5 DEF IndInv, DataOK
<1>15. HighLevelMasksInterrupts'
  BY <1>2, <1>3, <1>5 DEF HighLevelMasksInterrupts
<1> QED
  BY <1>12, <1>13, <1>14, <1>15 DEF IndInv

LEMMA RestoreTplLoopEndInv ==
  ASSUME IndInv, RestoreTplLoopEnd
  PROVE  IndInv'
<1> DEFINE f == [Top EXCEPT !.pc = "set"]
<1>1. At("RestoreTpl", "while") /\ stack' = <<f>> \o Callers
  BY DEF RestoreTplLoopEnd, Continue
<1>2. UNCHANGED <<tpl, interrupts, pending, queue, signalList, timerList, timerOwner,
                  now, event, calls>>
  BY DEF RestoreTplLoopEnd
<1>3. f \in Activation /\ f.pc = "set" /\ f.proc = "RestoreTpl" /\ f.level = Top.level
  BY <1>1, ContinueFrame DEF At, Pcs
<1> HIDE DEF f
<1>4. ControlOK'
  BY <1>1, <1>2, <1>3, TopFacts, GoesOn DEF ControlOK, At
<1>5. DataOK'
  BY <1>2 DEF IndInv, DataOK
<1> QED
  BY <1>2, <1>4, <1>5, StackStep

LEMMA RestoreTplSetInv ==
  ASSUME IndInv, RestoreTplSet
  PROVE  IndInv'
<1>1. At("RestoreTpl", "set") /\ stack' = Callers
  BY DEF RestoreTplSet
<1>2. /\ tpl' = Top.level /\ interrupts' = (interrupts \/ Top.level < TPL_HIGH_LEVEL)
      /\ UNCHANGED <<pending, queue, signalList, timerList, timerOwner, now, event, calls>>
  BY DEF RestoreTplSet
<1>3. ~Bottom(Top) /\ ~Holds(Top)
  BY <1>1 DEF At, Bottom, Holds
<1>4. ControlOK'
  BY <1>1, <1>2, <1>3, TopFacts, PopStack, LockPop DEF ControlOK
<1>5. QueueConsistent' /\ CheckTimerEventOK'
  BY <1>2, QueuesUntouched
<1>6. DataOK'
  BY <1>2, TopFacts DEF IndInv, DataOK
<1>7. HighLevelMasksInterrupts'
  <2>1. interrupts \in BOOLEAN /\ (interrupts <=> tpl < TPL_HIGH_LEVEL)
    BY DEF IndInv, DataOK, HighLevelMasksInterrupts
  <2>2. tpl >= Top.level
    BY TopFacts DEF LevelOK
  <2>3. Top.level \in Tpls /\ tpl \in Tpls
    BY TopFacts
  <2>4. Top.level = TPL_HIGH_LEVEL => tpl = TPL_HIGH_LEVEL
    BY <2>2, <2>3, HighLevelFacts
  <2>5. interrupts' <=> Top.level < TPL_HIGH_LEVEL
    BY <1>2, <2>1, <2>3, <2>4, HighLevelFacts, Zenon
  <2> QED
    BY <1>2, <2>5, Zenon DEF HighLevelMasksInterrupts
<1> QED
  BY <1>4, <1>5, <1>6, <1>7 DEF IndInv

-----------------------------------------------------------------------------
(***************************************************************************)
(* CoreDispatchEventNotifies.                                              *)
(***************************************************************************)
LEMMA DispatchTakeInv ==
  ASSUME IndInv, DispatchTake
  PROVE  IndInv'
<1> DEFINE p == Top.level
           e == Head(queue[p])
           f == [Top EXCEPT !.pc = "notify", !.ev = e]
<1>1. /\ At("Dispatch", "lock") /\ queue[p] # <<>>
      /\ queue' = [queue EXCEPT ![p] = Tail(@)]
      /\ event' = [event EXCEPT ![e].count = IF Is(e, "SIGNAL") THEN 0 ELSE @]
      /\ EventLockSection(<<f>> \o Callers)
      /\ UNCHANGED <<pending, signalList, timerList, timerOwner, now, calls>>
  BY DEF DispatchTake
<1>2. /\ event \in [Event -> EventRecord] /\ queue \in [QueueLevels -> Seq(Event)]
      /\ pending \subseteq QueueLevels /\ QueueConsistent /\ CheckTimerEventOK
      /\ CheckTimerEvent \in Event
  BY DEF IndInv, DataOK, Event
<1>3. p \in NotifyTpls /\ p \in QueueLevels
  BY <1>1, TopFacts DEF FrameOK, At, QueueLevels
<1>4. /\ Tail(queue[p]) \in Seq(Event) /\ NoDuplicates(Tail(queue[p]))
      /\ e \in Event /\ Linked(queue[p], e)
      /\ \A x : Linked(Tail(queue[p]), x) => Linked(queue[p], x)
  BY <1>1, <1>2, <1>3, TailList DEF QueueConsistent
<1>5. e = CheckTimerEvent => p = TPL_TIMER
  BY <1>2, <1>3, <1>4 DEF CheckTimerEventOK
<1> HIDE DEF e
<1>6. /\ f \in FrameRecord /\ f.proc = "Dispatch" /\ f.pc = "notify" /\ f.ev = e
      /\ f.level = p
  BY <1>1, <1>4, TopFacts DEF FrameRecord, Pcs, At
<1> HIDE DEF f
<1>7. f \in Activation
  BY <1>3, <1>4, <1>6 DEF Activation, FrameOK
<1>8. StackOK(<<f>> \o Callers, tpl) /\ LockOK(<<f>> \o Callers, timerOwner)
  BY <1>1, <1>5, <1>6, <1>7, TopFacts, GoesOn DEF At
<1>9. ControlOK' /\ HighLevelMasksInterrupts' /\ tpl' \in Tpls /\ interrupts' \in BOOLEAN
  BY <1>1, <1>8, SectionStep
<1>10. /\ event' \in [Event -> EventRecord]
       /\ event'[CheckTimerEvent].type = event[CheckTimerEvent].type
       /\ event'[CheckTimerEvent].ntpl = event[CheckTimerEvent].ntpl
  BY <1>1, <1>2, <1>4 DEF EventRecord
<1>11. queue' \in [QueueLevels -> Seq(Event)]
  BY <1>1, <1>2, <1>3, <1>4
<1>12. QueueConsistent'
  <2> SUFFICES ASSUME NEW t \in QueueLevels
               PROVE  (queue'[t] # <<>> => t \in pending') /\ NoDuplicates(queue'[t])
    BY DEF QueueConsistent
  <2> QED
    BY <1>1, <1>2, <1>3, <1>4 DEF QueueConsistent
<1>13. CheckTimerEventOK'
  BY <1>1, <1>2, <1>3, <1>4, <1>10 DEF CheckTimerEventOK
<1>14. DataOK'
  BY <1>1, <1>9, <1>10, <1>11 DEF IndInv, DataOK
<1> QED
  BY <1>9, <1>12, <1>13, <1>14 DEF IndInv

LEMMA DispatchNotifyInv ==
  ASSUME IndInv, DispatchNotify
  PROVE  IndInv'
<1> DEFINE e == Top.ev
           f == [Top EXCEPT !.pc = "lock", !.ev = NoEvent]
           g == IF e = CheckTimerEvent THEN CheckTimers ELSE Task(e)
           s == <<f>> \o Callers
<1>1. /\ At("Dispatch", "notify") /\ stack' = <<g, f>> \o Callers
      /\ UNCHANGED <<tpl, interrupts, pending, queue, signalList, timerList, timerOwner,
                     now, event, calls>>
  BY DEF DispatchNotify
<1>2. e \in Event /\ e # NoEvent
  BY <1>1, TopFacts, ConstantsAssumption DEF FrameOK, At
<1>3. /\ f \in FrameRecord /\ f.proc = "Dispatch" /\ f.pc = "lock" /\ f.level = Top.level
  BY <1>1, TopFacts DEF FrameRecord, Pcs, At
<1> HIDE DEF f
<1>4. f \in Activation
  BY <1>1, <1>3, TopFacts DEF Activation, FrameOK, At
<1>5. StackOK(s, tpl) /\ LockOK(s, timerOwner) /\ s[1] = f
  <2>1. StackOK(s, tpl) /\ LockOK(s, timerOwner)
    BY <1>1, <1>3, <1>4, TopFacts, GoesOn DEF At
  <2>2. s[1] = f
    BY <1>4, TopFacts, PushSeq
  <2> QED
    BY <2>1, <2>2
<1> HIDE DEF s
<1>6. g \in Activation
  BY <1>2, TopFacts, ServiceFrames
<1>7. /\ g.level = tpl /\ ~Bottom(g) /\ ~Holds(g) /\ CalledBy(g, f)
  BY <1>2, <1>3 DEF CheckTimers, Task, Frame, Bottom, Holds, CalledBy
<1>8. LevelOK(g, tpl)
  <2>1. tpl = Top.level /\ (e = CheckTimerEvent => Top.level = TPL_TIMER)
    BY <1>1, TopFacts DEF LevelOK, At
  <2>2. CASE e = CheckTimerEvent
    BY <2>1, <2>2, TopFacts, TplNumbers DEF LevelOK, CheckTimers, Frame
  <2>3. CASE e # CheckTimerEvent
    BY <2>1, <2>3, TopFacts, TplNumbers DEF LevelOK, Task, Frame
  <2> QED
    BY <2>2, <2>3
<1> HIDE DEF g
<1>9. stack' = <<g>> \o s
  BY <1>1, <1>4, <1>6, TopFacts, TwoSeq DEF s
<1>10. ControlOK'
  BY <1>1, <1>5, <1>6, <1>7, <1>8, <1>9, Calls DEF ControlOK
<1>11. DataOK'
  BY <1>1 DEF IndInv, DataOK
<1> QED
  BY <1>1, <1>10, <1>11, StackStep

LEMMA DispatchDoneInv ==
  ASSUME IndInv, DispatchDone
  PROVE  IndInv'
<1>1. /\ At("Dispatch", "lock") /\ queue[Top.level] = <<>>
      /\ pending' = pending \ {Top.level} /\ EventLockSection(Callers)
      /\ UNCHANGED <<queue, signalList, timerList, timerOwner, now, event, calls>>
  BY DEF DispatchDone
<1>2. ~Bottom(Top) /\ ~Holds(Top) /\ Top.level = tpl
  BY <1>1, TopFacts DEF At, Bottom, Holds, LevelOK
<1>3. StackOK(Callers, tpl) /\ LockOK(Callers, timerOwner)
  BY <1>2, TopFacts, Returns
<1>4. ControlOK' /\ HighLevelMasksInterrupts' /\ tpl' \in Tpls /\ interrupts' \in BOOLEAN
  BY <1>1, <1>3, SectionStep
<1>5. QueueConsistent' /\ CheckTimerEventOK'
  BY <1>1 DEF IndInv, QueueConsistent, CheckTimerEventOK
<1>6. DataOK'
  BY <1>1, <1>4 DEF IndInv, DataOK
<1> QED
  BY <1>4, <1>5, <1>6 DEF IndInv

-----------------------------------------------------------------------------
(***************************************************************************)
(* CoreSignalEvent and CoreNotifySignalList.                               *)
(***************************************************************************)
\* A section that signals or notifies events, before `after` continues: what
\* it does to the queues, and to the event structures, is one of these.
QueuesNotified ==
  UNCHANGED <<queue, pending>> \/ \E e \in Event : NotifyEvent(e)

SameEvents ==
  /\ event' \in [Event -> EventRecord]
  /\ event'[CheckTimerEvent].type = event[CheckTimerEvent].type
  /\ event'[CheckTimerEvent].ntpl = event[CheckTimerEvent].ntpl

LEMMA QueueStep ==
  ASSUME IndInv, QueuesNotified, SameEvents
  PROVE  /\ QueueConsistent' /\ CheckTimerEventOK'
         /\ queue' \in [QueueLevels -> Seq(Event)] /\ pending' \subseteq QueueLevels
<1>1. CASE UNCHANGED <<queue, pending>>
  BY <1>1, QueuesUntouched DEF SameEvents, IndInv, DataOK
<1>2. CASE \E e \in Event : NotifyEvent(e)
  <2>1. /\ queue' \in [QueueLevels -> Seq(Event)] /\ pending' \subseteq QueueLevels
        /\ QueueConsistent'
        /\ \A t \in QueueLevels : Linked(queue'[t], CheckTimerEvent) => t = TPL_TIMER
    BY <1>2, NotifyKeeps
  <2>2. CheckTimerEventOK'
    BY <2>1 DEF SameEvents, CheckTimerEventOK, IndInv
  <2> QED
    BY <2>1, <2>2
<1> QED
  BY <1>1, <1>2 DEF QueuesNotified

LEMMA SignalEventInv ==
  ASSUME IndInv, SignalEvent
  PROVE  IndInv'
<1> DEFINE e == Top.ev
           f == [Top EXCEPT !.pc = "group"]
           s == IF event[e].count = 0 /\ Is(e, "SIGNAL") /\ ExFlag(e)
                THEN <<f>> \o Callers ELSE Callers
<1>1. /\ At("Signal", "start")
      /\ UNCHANGED <<signalList, timerList, timerOwner, now, calls>>
  BY DEF SignalEvent
<1>2. e \in Event /\ event \in [Event -> EventRecord] /\ CheckTimerEvent \in Event
  BY <1>1, TopFacts DEF FrameOK, At, IndInv, DataOK, Event
<1>3. EventLockSection(s)
  BY DEF SignalEvent, Continue
<1>4. QueuesNotified
  BY <1>2 DEF SignalEvent, QueuesNotified
<1>5. SameEvents
  <2>1. event' = event \/ event' = [event EXCEPT ![e].count = 1]
    BY DEF SignalEvent
  <2> QED
    BY <1>2, <2>1 DEF SameEvents, EventRecord
<1>6. StackOK(s, tpl) /\ LockOK(s, timerOwner)
  <2>1. StackOK(Callers, tpl) /\ LockOK(Callers, timerOwner)
    <3>1. ~Bottom(Top) /\ ~Holds(Top) /\ Top.level = tpl
      BY <1>1, TopFacts DEF At, Bottom, Holds, LevelOK
    <3> QED
      BY <3>1, TopFacts, Returns
  <2>2. StackOK(<<f>> \o Callers, tpl) /\ LockOK(<<f>> \o Callers, timerOwner)
    <3>1. f \in Activation /\ f.proc = "Signal" /\ f.level = Top.level
      BY <1>1, ContinueFrame DEF At, Pcs
    <3> HIDE DEF f
    <3> QED
      BY <1>1, <3>1, TopFacts, GoesOn DEF At
  <2> QED
    BY <2>1, <2>2
<1> HIDE DEF s
<1>7. ControlOK' /\ HighLevelMasksInterrupts' /\ tpl' \in Tpls /\ interrupts' \in BOOLEAN
  BY <1>1, <1>3, <1>6, SectionStep
<1>8. /\ QueueConsistent' /\ CheckTimerEventOK'
      /\ queue' \in [QueueLevels -> Seq(Event)] /\ pending' \subseteq QueueLevels
  BY <1>4, <1>5, QueueStep
<1>9. DataOK'
  BY <1>1, <1>5, <1>7, <1>8 DEF IndInv, DataOK, SameEvents
<1> QED
  BY <1>7, <1>8, <1>9 DEF IndInv

LEMMA SignalGroupInv ==
  ASSUME IndInv, SignalGroup
  PROVE  IndInv'
<1> DEFINE e == Top.ev
           f == [Top EXCEPT !.pc = "end"]
           g == NotifyList(e)
           s == <<f>> \o Callers
           r == <<RestoreTo(tpl)>> \o s
<1>1. /\ At("Signal", "group") /\ tpl' = TPL_HIGH_LEVEL /\ interrupts' = FALSE
      /\ stack' = <<g, RestoreTo(tpl)>> \o s
      /\ UNCHANGED <<pending, queue, signalList, timerList, timerOwner, now, event, calls>>
  BY DEF SignalGroup, Continue
<1>2. e \in Event
  BY <1>1, TopFacts DEF FrameOK, At
<1>3. f \in Activation /\ f.proc = "Signal" /\ f.level = Top.level
  BY <1>1, ContinueFrame DEF At, Pcs
<1> HIDE DEF f
<1>4. StackOK(s, tpl) /\ LockOK(s, timerOwner) /\ s \in Seq(Activation)
  BY <1>1, <1>3, TopFacts, GoesOn, StackNotEmpty DEF At
<1> HIDE DEF s
<1>5. StackOK(r, TPL_HIGH_LEVEL) /\ LockOK(r, timerOwner)
  BY <1>4, TopFacts, Section
<1>6. g \in Activation /\ RestoreTo(tpl) \in Activation
  BY <1>2, TopFacts, ServiceFrames
     DEF RestoreTo, Frame, Activation, FrameRecord, FrameOK, Procs, Pcs
<1>7. stack' = <<g>> \o r
  BY <1>1, <1>4, <1>6, TwoSeq
<1>8. /\ g.level = TPL_HIGH_LEVEL /\ ~Bottom(g) /\ ~Holds(g) /\ CalledBy(g, r[1])
      /\ LevelOK(g, TPL_HIGH_LEVEL)
  BY TplNumbers DEF NotifyList, Frame, Bottom, Holds, CalledBy, LevelOK
<1> HIDE DEF g, r
<1>9. ControlOK'
  BY <1>1, <1>5, <1>6, <1>7, <1>8, Calls DEF ControlOK
<1>10. QueueConsistent' /\ CheckTimerEventOK'
  BY <1>1, QueuesUntouched
<1>11. DataOK'
  BY <1>1, HighLevelFacts DEF IndInv, DataOK
<1>12. HighLevelMasksInterrupts'
  BY <1>1, HighLevelFacts, Zenon DEF HighLevelMasksInterrupts
<1> QED
  BY <1>9, <1>10, <1>11, <1>12 DEF IndInv

LEMMA NotifyListEntryInv ==
  ASSUME IndInv, NotifyListEntry
  PROVE  IndInv'
<1> DEFINE f == [Top EXCEPT !.arg = @ + 1]
<1>1. /\ At("NotifyList", "walk") /\ Top.arg <= Len(signalList)
      /\ stack' = <<f>> \o Callers
      /\ UNCHANGED <<tpl, interrupts, signalList, timerList, timerOwner, now, event, calls>>
  BY DEF NotifyListEntry
<1>2. /\ event \in [Event -> EventRecord] /\ signalList \in Seq(Event)
      /\ Top.arg \in Nat /\ Top.arg > 0
  BY <1>1, TopFacts DEF IndInv, DataOK, FrameOK, At, FrameRecord
<1>3. signalList[Top.arg] \in Event
  BY <1>1, <1>2
<1>4. QueuesNotified
  BY <1>3 DEF NotifyListEntry, QueuesNotified
<1>5. SameEvents
  BY <1>1, <1>2 DEF SameEvents
<1>6. f \in FrameRecord /\ f.proc = "NotifyList" /\ f.level = Top.level /\ f.arg > 0
      /\ f.ev = Top.ev
  <2>1. Top.arg + 1 \in Nat /\ Top.arg + 1 > 0 /\ Top.proc = "NotifyList"
    BY <1>1, <1>2 DEF At
  <2>2. Top \in FrameRecord
    BY TopFacts
  <2> QED
    BY <2>1, <2>2 DEF FrameRecord
<1> HIDE DEF f
<1>7. f \in Activation
  BY <1>1, <1>6, TopFacts DEF Activation, FrameOK, At
<1>8. ControlOK'
  BY <1>1, <1>6, <1>7, TopFacts, GoesOn DEF ControlOK, At
<1>9. /\ QueueConsistent' /\ CheckTimerEventOK'
      /\ queue' \in [QueueLevels -> Seq(Event)] /\ pending' \subseteq QueueLevels
  BY <1>4, <1>5, QueueStep
<1>10. DataOK'
  BY <1>1, <1>9 DEF IndInv, DataOK
<1>11. HighLevelMasksInterrupts'
  BY <1>1 DEF IndInv, HighLevelMasksInterrupts
<1> QED
  BY <1>8, <1>9, <1>10, <1>11 DEF IndInv

LEMMA NotifyListEndInv ==
  ASSUME IndInv, NotifyListEnd
  PROVE  IndInv'
<1>1. /\ At("NotifyList", "walk") /\ stack' = Callers
      /\ UNCHANGED <<tpl, interrupts, pending, queue, signalList, timerList, timerOwner,
                     now, event, calls>>
  BY DEF NotifyListEnd
<1>2. ~Bottom(Top) /\ ~Holds(Top) /\ Top.level = tpl
  BY <1>1, TopFacts DEF At, Bottom, Holds, LevelOK
<1>3. ControlOK'
  BY <1>1, <1>2, TopFacts, Returns DEF ControlOK
<1>4. DataOK'
  BY <1>1 DEF IndInv, DataOK
<1> QED
  BY <1>1, <1>3, <1>4, StackStep

LEMMA SignalEndInv ==
  ASSUME IndInv, SignalEnd
  PROVE  IndInv'
<1>1. /\ At("Signal", "end") /\ EventLockSection(Callers)
      /\ UNCHANGED <<pending, queue, signalList, timerList, timerOwner, now, event, calls>>
  BY DEF SignalEnd
<1>2. ~Bottom(Top) /\ ~Holds(Top) /\ Top.level = tpl
  BY <1>1, TopFacts DEF At, Bottom, Holds, LevelOK
<1>3. StackOK(Callers, tpl) /\ LockOK(Callers, timerOwner)
  BY <1>2, TopFacts, Returns
<1>4. ControlOK' /\ HighLevelMasksInterrupts' /\ tpl' \in Tpls /\ interrupts' \in BOOLEAN
  BY <1>1, <1>3, SectionStep
<1>5. QueueConsistent' /\ CheckTimerEventOK'
  BY <1>1, QueuesUntouched
<1>6. DataOK'
  BY <1>1, <1>4 DEF IndInv, DataOK
<1> QED
  BY <1>4, <1>5, <1>6 DEF IndInv

-----------------------------------------------------------------------------
(***************************************************************************)
(* CoreCheckEvent and CoreWaitForEvent.                                    *)
(***************************************************************************)
\* CoreCheckEvent returns, and CoreWaitForEvent takes note of the status.
LEMMA AnswerKeeps ==
  ASSUME IndInv, Top.proc = "CheckEvent", NEW pc \in {"next", "return"}
  PROVE  StackOK(Answer(pc), tpl) /\ LockOK(Answer(pc), timerOwner)
<1>1. ~Bottom(Top) /\ ~Holds(Top) /\ Top.level = tpl
  BY TopFacts DEF Bottom, Holds, LevelOK
<1>2. StackOK(Callers, tpl) /\ LockOK(Callers, timerOwner)
  BY <1>1, TopFacts, Returns
<1> DEFINE w == Head(Callers)
           f == [w EXCEPT !.pc = pc]
<1>3. CASE Callers # <<>> /\ w.proc = "Wait"
  <2>1. w = Callers[1] /\ w \in Activation
    BY <1>2, StackNotEmpty
  <2>2. w \in FrameRecord /\ FrameOK(w)
    BY <2>1, LevelsAreNumbers
  <2>3. /\ f \in FrameRecord /\ f.proc = "Wait" /\ f.level = w.level /\ f.arg = w.arg
    BY <1>3, <2>2 DEF FrameRecord, Pcs
  <2> HIDE DEF f
  <2>4. f \in Activation
    BY <1>3, <2>2, <2>3 DEF Activation, FrameOK
  <2>5. StackOK(<<f>> \o Tail(Callers), tpl) /\ LockOK(<<f>> \o Tail(Callers), timerOwner)
    BY <1>2, <1>3, <2>1, <2>3, <2>4, GoesOn
  <2> QED
    BY <1>3, <2>5 DEF Answer, f
<1>4. CASE ~(Callers # <<>> /\ w.proc = "Wait")
  BY <1>2, <1>4 DEF Answer
<1> QED
  BY <1>3, <1>4

LEMMA CheckEventQueueInv ==
  ASSUME IndInv, CheckEventQueue
  PROVE  IndInv'
<1> DEFINE e == Top.ev
           f == [Top EXCEPT !.pc = "test"]
<1>1. /\ At("CheckEvent", "start")
      /\ UNCHANGED <<signalList, timerList, timerOwner, now, event, calls>>
  BY DEF CheckEventQueue
<1>2. e \in Event /\ event \in [Event -> EventRecord] /\ CheckTimerEvent \in Event
  BY <1>1, TopFacts DEF FrameOK, At, IndInv, DataOK, Event
<1>3. f \in Activation /\ f.proc = "CheckEvent" /\ f.level = Top.level
  BY <1>1, ContinueFrame DEF At, Pcs
<1>4. /\ StackOK(Continue("test"), tpl) /\ LockOK(Continue("test"), timerOwner)
  <2> HIDE DEF f
  <2>1. StackOK(<<f>> \o Callers, tpl) /\ LockOK(<<f>> \o Callers, timerOwner)
    BY <1>1, <1>3, TopFacts, GoesOn DEF At
  <2> QED
    BY <2>1 DEF Continue, f
<1>5. QueuesNotified
  BY <1>2 DEF CheckEventQueue, QueuesNotified
<1>6. SameEvents
  BY <1>1, <1>2 DEF SameEvents
<1>7. ControlOK' /\ HighLevelMasksInterrupts' /\ tpl' \in Tpls /\ interrupts' \in BOOLEAN
  <2>1. CASE EventLockSection(Continue("test"))
    BY <1>1, <1>4, <2>1, SectionStep
  <2>2. CASE stack' \in {Answer("return"), Continue("test")}
             /\ UNCHANGED <<tpl, interrupts>>
    <3>1. StackOK(Answer("return"), tpl) /\ LockOK(Answer("return"), timerOwner)
      BY <1>1, AnswerKeeps DEF At
    <3>2. ControlOK'
      BY <1>1, <1>4, <2>2, <3>1 DEF ControlOK
    <3> QED
      BY <2>2, <3>2 DEF IndInv, DataOK, HighLevelMasksInterrupts
  <2> QED
    BY <2>1, <2>2 DEF CheckEventQueue
<1>8. /\ QueueConsistent' /\ CheckTimerEventOK'
      /\ queue' \in [QueueLevels -> Seq(Event)] /\ pending' \subseteq QueueLevels
  BY <1>5, <1>6, QueueStep
<1>9. DataOK'
  BY <1>1, <1>7, <1>8 DEF IndInv, DataOK
<1> QED
  BY <1>7, <1>8, <1>9 DEF IndInv

LEMMA CheckEventClearInv ==
  ASSUME IndInv, CheckEventClear
  PROVE  IndInv'
<1> DEFINE e == Top.ev
<1>1. /\ At("CheckEvent", "test")
      /\ UNCHANGED <<pending, queue, signalList, timerList, timerOwner, now, calls>>
  BY DEF CheckEventClear
<1>2. e \in Event /\ event \in [Event -> EventRecord] /\ CheckTimerEvent \in Event
  BY <1>1, TopFacts DEF FrameOK, At, IndInv, DataOK, Event
<1>3. SameEvents
  <2>1. event' = event \/ event' = [event EXCEPT ![e].count = 0]
    BY DEF CheckEventClear
  <2> QED
    BY <1>2, <2>1 DEF SameEvents, EventRecord
<1>4. /\ StackOK(Answer("return"), tpl) /\ LockOK(Answer("return"), timerOwner)
      /\ StackOK(Answer("next"), tpl) /\ LockOK(Answer("next"), timerOwner)
  BY <1>1, AnswerKeeps DEF At
<1>5. ControlOK' /\ HighLevelMasksInterrupts' /\ tpl' \in Tpls /\ interrupts' \in BOOLEAN
  <2>1. CASE EventLockSection(Answer("return"))
    BY <1>1, <1>4, <2>1, SectionStep
  <2>2. CASE stack' = Answer("next") /\ UNCHANGED <<tpl, interrupts>>
    <3>1. ControlOK'
      BY <1>1, <1>4, <2>2 DEF ControlOK
    <3> QED
      BY <2>2, <3>1 DEF IndInv, DataOK, HighLevelMasksInterrupts
  <2> QED
    BY <2>1, <2>2 DEF CheckEventClear
<1>6. QueueConsistent' /\ CheckTimerEventOK'
  BY <1>1, <1>3, QueuesUntouched DEF SameEvents
<1>7. DataOK'
  BY <1>1, <1>3, <1>5 DEF IndInv, DataOK, SameEvents
<1> QED
  BY <1>5, <1>6, <1>7 DEF IndInv

\* The top activation continues as f and calls g, at the level it runs at.
LEMMA GoesOnAndCalls ==
  ASSUME IndInv,
         NEW f \in Activation, f.proc = Top.proc, f.level = Top.level, f.proc # "Task",
         f.proc = "SetTimer" => (f.pc = "remove" <=> Top.pc = "remove"),
         f.proc = "CheckTimers" => (f.pc = "lock" <=> Top.pc = "lock"),
         f.proc \notin {"Dispatch", "RestoreTpl"},
         NEW g \in Activation, g.level = tpl, LevelOK(g, tpl), CalledBy(g, f),
         ~Bottom(g), ~Holds(g)
  PROVE  StackOK(<<g, f>> \o Callers, tpl) /\ LockOK(<<g, f>> \o Callers, timerOwner)
<1> DEFINE s == <<f>> \o Callers
<1>1. StackOK(s, tpl) /\ LockOK(s, timerOwner)
  BY TopFacts, GoesOn
<1>2. s[1] = f
  BY TopFacts, PushSeq
<1>3. <<g, f>> \o Callers = <<g>> \o s
  BY TopFacts, TwoSeq
<1> HIDE DEF s
<1>4. StackOK(<<g>> \o s, tpl) /\ LockOK(<<g>> \o s, timerOwner)
  BY <1>1, <1>2, Calls
<1> QED
  BY <1>3, <1>4

\* A called Signal or Check returns at the current level.
LEMMA SignalCalled ==
  ASSUME tpl \in Tpls, NEW e \in Event
  PROVE  \A g \in {Signal(e), Check(e)} :
           /\ g \in Activation /\ g.level = tpl /\ LevelOK(g, tpl)
           /\ ~Bottom(g) /\ ~Holds(g) /\ \A f : CalledBy(g, f)
<1>1. Signal(e) \in Activation /\ Check(e) \in Activation /\ tpl \in Nat
  BY ServiceFrames, LevelsAreNumbers
<1>2. \A g \in {Signal(e), Check(e)} :
        /\ g.proc \in {"Signal", "CheckEvent"} /\ g.level = tpl
  BY DEF Signal, Check, Frame
<1> QED
  BY <1>1, <1>2 DEF LevelOK, Bottom, Holds, CalledBy

LEMMA WaitForEventCheckInv ==
  ASSUME IndInv, WaitForEventCheck
  PROVE  IndInv'
<1> DEFINE e == WaitList[Top.arg]
           f == [Top EXCEPT !.pc = "check"]
<1>1. /\ At("Wait", "check") /\ stack' = <<Check(e), f>> \o Callers
      /\ UNCHANGED <<tpl, interrupts, pending, queue, signalList, timerList, timerOwner,
                     now, event, calls>>
  BY DEF WaitForEventCheck, Call
<1>2. e \in Event
  BY <1>1, TopFacts, ConstantsAssumption DEF FrameOK, At, Event
<1>3. f \in Activation /\ f.proc = "Wait" /\ f.level = Top.level
  BY <1>1, ContinueFrame DEF At, Pcs
<1> HIDE DEF f, e
<1>4. ControlOK'
  BY <1>1, <1>2, <1>3, TopFacts, SignalCalled, GoesOnAndCalls DEF ControlOK, At
<1>5. DataOK'
  BY <1>1 DEF IndInv, DataOK
<1> QED
  BY <1>1, <1>4, <1>5, StackStep

LEMMA WaitForEventNextInv ==
  ASSUME IndInv, WaitForEventNext
  PROVE  IndInv'
<1> DEFINE f == [Top EXCEPT !.pc = "check", !.arg = @ + 1]
           h == [Top EXCEPT !.pc = "check", !.arg = 1]
<1>1. /\ At("Wait", "next")
      /\ UNCHANGED <<tpl, interrupts, pending, queue, signalList, timerList, timerOwner,
                     now, event, calls>>
      /\ stack' = IF Top.arg < Len(WaitList) THEN <<f>> \o Callers
                  ELSE <<Signal(IdleLoopEvent), h>> \o Callers
  BY DEF WaitForEventNext
<1>2. Top.arg \in 1..Len(WaitList) /\ Len(WaitList) \in Nat /\ IdleLoopEvent \in Event
  BY <1>1, TopFacts, ConstantsAssumption DEF FrameOK, At, Event
<1>3. Top.arg + 1 \in Nat /\ Top \in FrameRecord
  BY <1>2, TopFacts
<1>4. f \in FrameRecord /\ f.proc = "Wait" /\ f.level = Top.level /\ f.arg = Top.arg + 1
  BY <1>1, <1>3 DEF FrameRecord, Pcs, At
<1>5. h \in FrameRecord /\ h.proc = "Wait" /\ h.level = Top.level /\ h.arg = 1
  BY <1>1, <1>3 DEF FrameRecord, Pcs, At
<1> HIDE DEF f, h
<1>6. ControlOK'
  <2>1. CASE Top.arg < Len(WaitList)
    <3>1. f.arg \in 1..Len(WaitList)
      BY <1>2, <1>4, <2>1
    <3>2. f \in Activation
      BY <1>4, <3>1 DEF Activation, FrameOK
    <3> QED
      BY <1>1, <1>4, <2>1, <3>2, TopFacts, GoesOn DEF ControlOK, At
  <2>2. CASE ~(Top.arg < Len(WaitList))
    <3>1. h.arg \in 1..Len(WaitList)
      BY <1>2, <1>5
    <3>2. h \in Activation
      BY <1>5, <3>1 DEF Activation, FrameOK
    <3> QED
      BY <1>1, <1>2, <1>5, <2>2, <3>2, TopFacts, SignalCalled, GoesOnAndCalls
         DEF ControlOK, At
  <2> QED
    BY <2>1, <2>2
<1>7. DataOK'
  BY <1>1 DEF IndInv, DataOK
<1> QED
  BY <1>1, <1>6, <1>7, StackStep

LEMMA WaitForEventReturnInv ==
  ASSUME IndInv, WaitForEventReturn
  PROVE  IndInv'
<1>1. /\ At("Wait", "return") /\ stack' = Callers
      /\ UNCHANGED <<tpl, interrupts, pending, queue, signalList, timerList, timerOwner,
                     now, event, calls>>
  BY DEF WaitForEventReturn
<1>2. ~Bottom(Top) /\ ~Holds(Top) /\ Top.level = tpl
  BY <1>1, TopFacts DEF At, Bottom, Holds, LevelOK
<1>3. ControlOK'
  BY <1>1, <1>2, TopFacts, Returns DEF ControlOK
<1>4. DataOK'
  BY <1>1 DEF IndInv, DataOK
<1> QED
  BY <1>1, <1>3, <1>4, StackStep

-----------------------------------------------------------------------------
(***************************************************************************)
(* CoreCloseEvent.                                                         *)
(***************************************************************************)
\* A call to CoreSetTimer, which callers at TPL_NOTIFY or below may make.
LEMMA SetTimerCalled ==
  ASSUME tpl \in Tpls, tpl <= TPL_NOTIFY, NEW e \in Event,
         NEW mode \in {"cancel", "periodic", "relative"}, NEW d \in Nat
  PROVE  LET g == SetTimer(e, mode, d)
         IN  /\ g \in Activation /\ g.level = tpl /\ LevelOK(g, tpl)
             /\ ~Bottom(g) /\ ~Holds(g) /\ \A f : CalledBy(g, f)
<1> DEFINE g == SetTimer(e, mode, d)
<1>1. g \in Activation /\ tpl \in Nat
  BY ServiceFrames, LevelsAreNumbers
<1>2. g.proc = "SetTimer" /\ g.pc = "remove" /\ g.level = tpl
  BY DEF SetTimer, Frame
<1> HIDE DEF g
<1>3. LevelOK(g, tpl) /\ ~Bottom(g) /\ ~Holds(g) /\ \A f : CalledBy(g, f)
  BY <1>1, <1>2 DEF LevelOK, Bottom, Holds, CalledBy
<1> QED
  BY <1>1, <1>2, <1>3 DEF g

LEMMA CloseEventCancelInv ==
  ASSUME IndInv, CloseEventCancel
  PROVE  IndInv'
<1> DEFINE f == [Top EXCEPT !.pc = "unlink"]
           g == SetTimer(Top.ev, "cancel", 0)
<1>1. /\ At("Close", "start")
      /\ UNCHANGED <<tpl, interrupts, pending, queue, signalList, timerList, timerOwner,
                     now, event, calls>>
      /\ stack' = <<g, f>> \o Callers \/ stack' = <<f>> \o Callers
  BY DEF CloseEventCancel, Call, Continue
<1>2. Top.ev \in Event /\ tpl \in Tpls /\ tpl <= TPL_NOTIFY
  BY <1>1, TopFacts DEF FrameOK, At, LevelOK
<1>3. f \in Activation /\ f.proc = "Close" /\ f.level = Top.level
  BY <1>1, ContinueFrame DEF At, Pcs
<1> HIDE DEF f
<1>4. /\ g \in Activation /\ g.level = tpl /\ LevelOK(g, tpl)
      /\ ~Bottom(g) /\ ~Holds(g) /\ CalledBy(g, f)
  BY <1>2, SetTimerCalled
<1> HIDE DEF g
<1>5. StackOK(<<f>> \o Callers, tpl) /\ LockOK(<<f>> \o Callers, timerOwner)
  BY <1>1, <1>3, TopFacts, GoesOn DEF At
<1>6. StackOK(<<g, f>> \o Callers, tpl) /\ LockOK(<<g, f>> \o Callers, timerOwner)
  BY <1>1, <1>3, <1>4, GoesOnAndCalls DEF At
<1>7. ControlOK'
  BY <1>1, <1>5, <1>6 DEF ControlOK
<1>8. DataOK'
  BY <1>1 DEF IndInv, DataOK
<1> QED
  BY <1>1, <1>7, <1>8, StackStep

LEMMA CloseEventUnlinkInv ==
  ASSUME IndInv, CloseEventUnlink
  PROVE  IndInv'
<1> DEFINE e == Top.ev
           f == [Top EXCEPT !.pc = "free"]
<1>1. /\ At("Close", "unlink")
      /\ queue' = [t \in QueueLevels |-> Unlink(queue[t], e)]
      /\ signalList' = Unlink(signalList, e)
      /\ EventLockSection(<<f>> \o Callers)
      /\ UNCHANGED <<pending, timerList, timerOwner, now, event, calls>>
  BY DEF CloseEventUnlink, Continue
<1>2. /\ e \in Event /\ queue \in [QueueLevels -> Seq(Event)] /\ signalList \in Seq(Event)
      /\ QueueConsistent /\ CheckTimerEventOK
  BY <1>1, TopFacts DEF FrameOK, At, IndInv, DataOK
<1>3. f \in Activation /\ f.proc = "Close" /\ f.level = Top.level
  BY <1>1, ContinueFrame DEF At, Pcs
<1>4. StackOK(<<f>> \o Callers, tpl) /\ LockOK(<<f>> \o Callers, timerOwner)
  <2> HIDE DEF f
  <2> QED
    BY <1>1, <1>3, TopFacts, GoesOn DEF At
<1> HIDE DEF f
<1>5. ControlOK' /\ HighLevelMasksInterrupts' /\ tpl' \in Tpls /\ interrupts' \in BOOLEAN
  BY <1>1, <1>4, SectionStep
<1>6. \A t \in QueueLevels :
        /\ Unlink(queue[t], e) \in Seq(Event)
        /\ NoDuplicates(Unlink(queue[t], e))
        /\ \A x : Linked(Unlink(queue[t], e), x) => Linked(queue[t], x)
  BY <1>2, UnlinkList DEF QueueConsistent
<1>7. \A t \in QueueLevels : queue[t] = <<>> => Unlink(queue[t], e) = <<>>
  <2>1. ~Linked(<<>>, e)
    BY DEF Linked
  <2> QED
    BY <2>1 DEF Unlink
<1>8. queue' \in [QueueLevels -> Seq(Event)] /\ signalList' \in Seq(Event)
  BY <1>1, <1>2, <1>6, UnlinkType
<1>9. QueueConsistent'
  BY <1>1, <1>2, <1>6, <1>7 DEF QueueConsistent
<1>10. CheckTimerEventOK'
  BY <1>1, <1>2, <1>6 DEF CheckTimerEventOK
<1>11. DataOK'
  BY <1>1, <1>5, <1>8 DEF IndInv, DataOK
<1> QED
  BY <1>5, <1>9, <1>10, <1>11 DEF IndInv

LEMMA CloseEventFreeInv ==
  ASSUME IndInv, CloseEventFree
  PROVE  IndInv'
<1>1. /\ At("Close", "free") /\ stack' = Callers
      /\ event' = [event EXCEPT ![Top.ev].alive = FALSE]
      /\ UNCHANGED <<tpl, interrupts, pending, queue, signalList, timerList, timerOwner,
                     now, calls>>
  BY DEF CloseEventFree
<1>2. ~Bottom(Top) /\ ~Holds(Top) /\ Top.level = tpl
  BY <1>1, TopFacts DEF At, Bottom, Holds, LevelOK
<1>3. ControlOK'
  BY <1>1, <1>2, TopFacts, Returns DEF ControlOK
<1>4. SameEvents
  <2>1. event \in [Event -> EventRecord] /\ CheckTimerEvent \in Event
    BY DEF IndInv, DataOK, Event
  <2> QED
    BY <1>1, <2>1 DEF SameEvents, EventRecord
<1>5. DataOK' /\ HighLevelMasksInterrupts'
  BY <1>1, <1>4 DEF IndInv, DataOK, SameEvents, HighLevelMasksInterrupts
<1>6. QueueConsistent' /\ CheckTimerEventOK'
  BY <1>1, <1>4, QueuesUntouched DEF SameEvents
<1> QED
  BY <1>3, <1>5, <1>6 DEF IndInv

-----------------------------------------------------------------------------
(***************************************************************************)
(* CoreSetTimer and CoreCheckTimers.                                       *)
(***************************************************************************)
LEMMA SmallestNat ==
  ASSUME NEW T \in SUBSET Nat, T # {}
  PROVE  \E x \in T : \A y \in T : x <= y
<1> DEFINE U == {1..n : n \in T}
<1>1. \A n \in Nat : 1..n \in SUBSET Nat /\ IsFiniteSet(1..n)
  BY FS_Interval
<1>2. U \subseteq {S \in SUBSET Nat : IsFiniteSet(S)} /\ U # {}
  BY <1>1
<1>3. \E x \in U : \A y \in U : ~(<<y, x>> \in StrictSubsetOrdering(Nat))
  BY <1>2, FS_StrictSubsetOrderingWellFounded, WFMin DEF FiniteSubsetsOf
<1>4. PICK x \in T : \A y \in T : ~(<<1..y, 1..x>> \in StrictSubsetOrdering(Nat))
  BY <1>3
<1>5. ASSUME NEW y \in T, y < x
      PROVE  FALSE
  <2>1. /\ 1..y \in SUBSET Nat /\ 1..x \in SUBSET Nat /\ 1..y \subseteq 1..x
        /\ x \in 1..x /\ x \notin 1..y
    BY <1>5
  <2> QED
    BY <2>1, <1>4 DEF StrictSubsetOrdering
<1> QED
  BY <1>5

\* The list of timers stays one.
LEMMA InsertEventTimerType ==
  ASSUME NEW list \in Seq(Event), NEW e \in Event
  PROVE  InsertEventTimer(list, e) \in Seq(Event)
<1> DEFINE later == {i \in 1..Len(list) : event[list[i]].trigger > event[e].trigger}
           at == IF later = {} THEN Len(list) + 1
                 ELSE CHOOSE i \in later : \A j \in later : i <= j
<1>1. later \in SUBSET Nat /\ later \subseteq 1..Len(list)
  OBVIOUS
<1> HIDE DEF later
<1>2. at \in 1..(Len(list) + 1)
  <2>1. CASE later = {}
    BY <2>1
  <2>2. CASE later # {}
    <3>1. \E i \in later : \A j \in later : i <= j
      BY <1>1, <2>2, SmallestNat
    <3>2. at \in later
      BY <2>2, <3>1
    <3>3. Len(list) \in Nat
      OBVIOUS
    <3> HIDE DEF at
    <3> QED
      BY <1>1, <3>2, <3>3
  <2> QED
    BY <2>1, <2>2
<1>3. InsertEventTimer(list, e) = InsertBefore(list, at, e)
  BY DEF InsertEventTimer, later
<1> HIDE DEF at
<1> QED
  BY <1>2, <1>3, InsertBeforeType

\* Below an activation that returns at a level under TPL_TIMER, nobody holds
\* mEfiTimerLock: its holders run at TPL_TIMER.
LEMMA NobodyHolds ==
  ASSUME NEW s, NEW c, StackOK(s, c), NEW k \in 1..Len(s), s[k].level < TPL_TIMER,
         NEW i \in 1..Len(s), i > k
  PROVE  ~Holds(s[i])
<1>1. s \in Seq(Activation) /\ Len(s) \in Nat
  BY DEF StackOK
<1>2. i # 1 /\ i - 1 \in 1..Len(s) /\ (k = i - 1 \/ k < i - 1)
  BY <1>1
<1>3. s[k].level >= s[i - 1].level
  <2>1. s[k] \in Activation
    BY <1>1
  <2>2. s[k].level \in Nat
    BY <2>1, LevelsAreNumbers
  <2>3. CASE k = i - 1
    BY <2>2, <2>3
  <2>4. CASE k < i - 1
    BY <1>2, <2>4 DEF StackOK
  <2> QED
    BY <1>2, <2>3, <2>4
<1>4. LevelOK(s[i], s[i - 1].level)
  BY <1>2 DEF StackOK
<1>5. s[i - 1].level \in Nat /\ s[k].level \in Nat
  <2>1. s[i - 1] \in Activation /\ s[k] \in Activation
    BY <1>1, <1>2
  <2> QED
    BY <2>1, LevelsAreNumbers
<1>6. s[i - 1].level # TPL_TIMER
  BY <1>3, <1>5, TplNumbers
<1> QED
  BY <1>4, <1>6 DEF LevelOK, Holds

\* When SetTimer and CheckTimers acquire the lock, nobody holds it.
LEMMA LockIsFree ==
  ASSUME IndInv, At("SetTimer", "remove") \/ At("CheckTimers", "lock")
  PROVE  \A i \in 1..Len(stack) : ~Holds(stack[i])
<1>1. ~Bottom(Top) /\ ~Holds(Top)
  BY DEF At, Bottom, Holds
<1>2. Len(stack) \in Nat /\ stack[1] = Top
  BY TopFacts
<1>3. CASE At("SetTimer", "remove")
  <2>1. Top.level < TPL_TIMER
    BY <1>3, TopFacts, TplNumbers DEF At, LevelOK
  <2>2. 1 \in 1..Len(stack)
    BY TopFacts
  <2>3. \A i \in 1..Len(stack) : i > 1 => ~Holds(stack[i])
    BY <1>2, <2>1, <2>2, TopFacts, NobodyHolds
  <2> QED
    BY <1>1, <1>2, <2>3
<1>4. CASE At("CheckTimers", "lock")
  <2>1. /\ Len(stack) > 1 /\ stack[2].proc = "Dispatch" /\ Top.level = TPL_TIMER
        /\ stack[2].level = TPL_TIMER
    BY <1>1, <1>4, CallerFacts, TopFacts DEF CalledBy, At, LevelOK
  <2>2. ~Bottom(stack[2]) /\ ~Holds(stack[2]) /\ Len(stack) # 2
    BY <2>1, TopFacts DEF Bottom, Holds, StackOK
  <2>3. Len(stack) > 2 /\ 2 \in 1..(Len(stack) - 1) /\ 3 \in 1..Len(stack) /\ 2 + 1 = 3
    <3>1. \A n \in Nat : n > 1 /\ n # 2 => n > 2 /\ 2 \in 1..(n - 1) /\ 3 \in 1..n
      OBVIOUS
    <3>2. Len(stack) \in Nat /\ Len(stack) > 1 /\ Len(stack) # 2
      BY <1>2, <2>1, <2>2
    <3>3. Len(stack) > 2 /\ 2 \in 1..(Len(stack) - 1) /\ 3 \in 1..Len(stack)
      BY <3>1, <3>2, Zenon
    <3> QED
      BY <3>3
  <2>4. CalledBy(stack[2], stack[2 + 1])
    BY <2>3, TopFacts DEF StackOK
  <2>5. stack[3].proc = "RestoreTpl" /\ stack[3].level < TPL_TIMER
    BY <2>1, <2>3, <2>4 DEF CalledBy
  <2>6. \A i \in 1..Len(stack) : i > 3 => ~Holds(stack[i])
    BY <2>3, <2>5, TopFacts, NobodyHolds
  <2>7. ~Holds(stack[3])
    BY <2>5 DEF Holds
  <2>8. \A i \in 1..Len(stack) : i = 1 \/ i = 2 \/ i = 3 \/ i > 3
    OBVIOUS
  <2> QED
    BY <1>1, <1>2, <2>2, <2>6, <2>7, <2>8
<1> QED
  BY <1>3, <1>4

\* Only the structure of an event changes, in its trigger time and period.
LEMMA TimerEdit ==
  ASSUME IndInv, NEW e \in Event, NEW t \in Nat, NEW p \in Nat,
         \/ event' = [event EXCEPT ![e].trigger = t, ![e].period = p]
         \/ event' = [event EXCEPT ![e].trigger = t]
         \/ event' = event
  PROVE  SameEvents
<1>1. event \in [Event -> EventRecord] /\ CheckTimerEvent \in Event
  BY DEF IndInv, DataOK, Event
<1>2. CASE event' = [event EXCEPT ![e].trigger = t, ![e].period = p]
  <2>1. event[e] \in EventRecord
    BY <1>1
  <2> DEFINE r == [event[e] EXCEPT !.trigger = t, !.period = p]
  <2>2. r \in EventRecord /\ r.type = event[e].type /\ r.ntpl = event[e].ntpl
    BY <2>1 DEF EventRecord
  <2>3. event' = [event EXCEPT ![e] = r]
    BY <1>1, <1>2
  <2> HIDE DEF r
  <2> QED
    BY <1>1, <2>2, <2>3 DEF SameEvents
<1>3. CASE event' = [event EXCEPT ![e].trigger = t]
  BY <1>1, <1>3 DEF SameEvents, EventRecord
<1> QED
  BY <1>1, <1>2, <1>3 DEF SameEvents

\* A step that changes the stack, the timers and the level below
\* TPL_HIGH_LEVEL.
LEMMA TimerStep ==
  ASSUME IndInv, SameEvents, ControlOK', UNCHANGED <<pending, queue, signalList, interrupts>>,
         timerList' \in Seq(Event), timerOwner' \in Tpls \cup {NoTpl}, now' \in Nat,
         calls' \in Nat,
         tpl' = tpl \/ (tpl' \in Tpls /\ tpl' < TPL_HIGH_LEVEL /\ tpl < TPL_HIGH_LEVEL)
  PROVE  IndInv'
<1>1. QueueConsistent' /\ CheckTimerEventOK'
  BY QueuesUntouched DEF SameEvents
<1>2. tpl' \in Tpls /\ interrupts' \in BOOLEAN
  BY DEF IndInv, DataOK
<1>3. DataOK'
  BY <1>2 DEF IndInv, DataOK, SameEvents
<1>4. HighLevelMasksInterrupts'
  BY Zenon DEF IndInv, HighLevelMasksInterrupts
<1> QED
  BY <1>1, <1>3, <1>4 DEF IndInv

LEMMA SetTimerRemoveInv ==
  ASSUME IndInv, SetTimerRemove
  PROVE  IndInv'
<1> DEFINE e == Top.ev
           pc == IF Top.mode = "cancel" THEN "release" ELSE "time"
           f == [Top EXCEPT !.pc = pc]
<1>1. /\ At("SetTimer", "remove")
      /\ UNCHANGED <<interrupts, pending, queue, signalList, now, calls>>
      /\ \/ stack' = Callers /\ UNCHANGED <<tpl, timerOwner, timerList, event>>
         \/ /\ timerOwner' = tpl /\ tpl' = TPL_TIMER /\ timerList' = Unlink(timerList, e)
            /\ event' = [event EXCEPT ![e].trigger = 0, ![e].period = 0]
            /\ stack' = <<f>> \o Callers
  BY DEF SetTimerRemove, Continue, TimerLockTpl
<1>2. /\ e \in Event /\ timerList \in Seq(Event) /\ timerOwner \in Tpls \cup {NoTpl}
      /\ now \in Nat /\ calls \in Nat /\ tpl = Top.level /\ tpl <= TPL_NOTIFY
  BY <1>1, TopFacts DEF FrameOK, At, IndInv, DataOK, LevelOK
<1>3. ~Bottom(Top) /\ ~Holds(Top)
  BY <1>1 DEF At, Bottom, Holds
<1>4. SameEvents
  BY <1>1, <1>2, TimerEdit
<1>5. CASE stack' = Callers /\ UNCHANGED <<tpl, timerOwner, timerList, event>>
  <2>1. ControlOK'
    BY <1>2, <1>3, <1>5, TopFacts, Returns DEF ControlOK
  <2> QED
    BY <1>1, <1>2, <1>4, <1>5, <2>1, TimerStep
<1>6. CASE /\ timerOwner' = tpl /\ tpl' = TPL_TIMER /\ timerList' = Unlink(timerList, e)
           /\ stack' = <<f>> \o Callers
  <2>1. pc \in Pcs \ {"notify", "dispatch"} /\ pc # "remove"
    BY DEF Pcs
  <2> HIDE DEF pc
  <2>2. f \in Activation /\ f.proc = "SetTimer" /\ f.level = tpl /\ f.pc # "remove"
    BY <1>1, <1>2, <2>1, ContinueFrame DEF At
  <2> HIDE DEF f
  <2>3. Holds(f) /\ ~Bottom(f)
    BY <2>2 DEF Holds, Bottom
  <2>4. LockOK(<<f>> \o Callers, tpl)
    BY <1>1, <2>2, <2>3, TopFacts, LockIsFree, LockAcquire
  <2>5. LevelOK(f, TPL_TIMER)
    BY <1>2, <2>2, TopFacts, TplNumbers DEF LevelOK
  <2>6. Len(stack) > 1 => CalledBy(f, stack[2])
    BY <2>2 DEF CalledBy
  <2>7. StackOK(<<f>> \o Callers, TPL_TIMER)
    BY <1>2, <1>3, <2>2, <2>3, <2>5, <2>6, TopFacts, ReplaceTop
  <2>8. ControlOK'
    BY <1>6, <2>4, <2>7 DEF ControlOK
  <2>9. TPL_TIMER \in Tpls /\ TPL_TIMER < TPL_HIGH_LEVEL /\ tpl < TPL_HIGH_LEVEL
    BY <1>2, TopFacts, TplNumbers
  <2>10. timerList' \in Seq(Event)
    BY <1>2, <1>6, UnlinkType
  <2> QED
    BY <1>1, <1>2, <1>4, <1>6, <2>8, <2>9, <2>10, TopFacts, TimerStep
<1> QED
  BY <1>1, <1>5, <1>6

LEMMA SetTimerTimeInv ==
  ASSUME IndInv, SetTimerTime
  PROVE  IndInv'
<1> DEFINE periodic == Top.mode = "periodic"
           delay == IF periodic /\ Top.arg = 0 THEN TimerPeriod ELSE Top.arg
           period == IF periodic THEN delay ELSE 0
           f == [Top EXCEPT !.pc = "insert", !.arg = delay]
<1>1. /\ At("SetTimer", "time")
      /\ event' = [event EXCEPT ![Top.ev].trigger = now + delay, ![Top.ev].period = period]
      /\ stack' = <<f>> \o Callers
      /\ UNCHANGED <<tpl, interrupts, pending, queue, signalList, timerList, timerOwner,
                     now, calls>>
  BY DEF SetTimerTime
<1>2. /\ Top.ev \in Event /\ Top.arg \in Nat /\ timerList \in Seq(Event)
      /\ timerOwner \in Tpls \cup {NoTpl} /\ now \in Nat /\ calls \in Nat
  BY <1>1, TopFacts DEF FrameOK, FrameRecord, At, IndInv, DataOK
<1>3. delay \in Nat /\ period \in Nat
  BY <1>2, ConstantsAssumption
<1> HIDE DEF delay
<1>4. now + delay \in Nat
  BY <1>2, <1>3
<1> HIDE DEF period
<1>5. SameEvents
  BY <1>1, <1>2, <1>3, <1>4, TimerEdit
<1>6. /\ f \in FrameRecord /\ f.proc = "SetTimer" /\ f.pc = "insert" /\ f.level = Top.level
      /\ f.ev = Top.ev
  BY <1>1, <1>3, TopFacts DEF FrameRecord, Pcs, At
<1> HIDE DEF f
<1>7. f \in Activation
  BY <1>2, <1>6 DEF Activation, FrameOK
<1>8. ControlOK'
  BY <1>1, <1>6, <1>7, TopFacts, GoesOn DEF ControlOK, At
<1> QED
  BY <1>1, <1>2, <1>5, <1>8, TimerStep

LEMMA SetTimerInsertInv ==
  ASSUME IndInv, SetTimerInsert
  PROVE  IndInv'
<1> DEFINE f == [Top EXCEPT !.pc = "release"]
           g == Signal(CheckTimerEvent)
<1>1. /\ At("SetTimer", "insert")
      /\ timerList' = InsertEventTimer(timerList, Top.ev)
      /\ stack' = <<g, f>> \o Callers \/ stack' = <<f>> \o Callers
      /\ UNCHANGED <<tpl, interrupts, pending, queue, signalList, timerOwner, now, event,
                     calls>>
  BY DEF SetTimerInsert, Call, Continue
<1>2. /\ Top.ev \in Event /\ timerList \in Seq(Event) /\ CheckTimerEvent \in Event
      /\ timerOwner \in Tpls \cup {NoTpl} /\ now \in Nat /\ calls \in Nat
  BY <1>1, TopFacts DEF FrameOK, At, IndInv, DataOK, Event
<1>3. timerList' \in Seq(Event)
  BY <1>1, <1>2, InsertEventTimerType
<1>4. f \in Activation /\ f.proc = "SetTimer" /\ f.level = Top.level /\ f.pc = "release"
  BY <1>1, ContinueFrame DEF At, Pcs
<1> HIDE DEF f
<1>5. SameEvents
  BY <1>1, <1>2 DEF SameEvents, IndInv, DataOK
<1>6. StackOK(<<f>> \o Callers, tpl) /\ LockOK(<<f>> \o Callers, timerOwner)
  BY <1>1, <1>4, TopFacts, GoesOn DEF At
<1>7. StackOK(<<g, f>> \o Callers, tpl) /\ LockOK(<<g, f>> \o Callers, timerOwner)
  BY <1>1, <1>2, <1>4, TopFacts, SignalCalled, GoesOnAndCalls DEF At
<1> HIDE DEF g
<1>8. ControlOK'
  BY <1>1, <1>6, <1>7 DEF ControlOK
<1> QED
  BY <1>1, <1>2, <1>3, <1>5, <1>8, TimerStep

\* CoreReleaseLock (&mEfiTimerLock): the level before it was acquired comes
\* back.
LEMMA ReleaseInv ==
  ASSUME IndInv, Holds(Top), timerOwner' = NoTpl,
         stack' = <<RestoreTo(timerOwner)>> \o Callers,
         UNCHANGED <<tpl, interrupts, pending, queue, signalList, timerList, now, event, calls>>
  PROVE  IndInv'
<1> DEFINE f == RestoreTo(timerOwner)
<1>1. LockOK(Callers, NoTpl) /\ timerOwner = Top.level
  BY TopFacts, LockRelease
<1>2. ~Bottom(Top)
  BY DEF Bottom, Holds
<1>3. StackOK(Callers, Top.level)
  BY <1>2, CallerFacts
<1>4. f \in Activation /\ f.proc = "RestoreTpl" /\ f.pc = "while" /\ f.level = Top.level
  BY <1>1, TopFacts DEF RestoreTo, Frame, Activation, FrameRecord, FrameOK, Procs, Pcs
<1> HIDE DEF f
<1>5. ~Bottom(f) /\ ~Holds(f) /\ CalledBy(f, Callers[1])
  BY <1>4 DEF Bottom, Holds, CalledBy
<1>6. LevelOK(f, tpl)
  BY <1>4, TopFacts DEF LevelOK
<1>7. StackOK(<<f>> \o Callers, tpl)
  BY <1>3, <1>4, <1>5, <1>6, PushStack
<1>8. LockOK(<<f>> \o Callers, NoTpl)
  BY <1>1, <1>4, <1>5, TopFacts, LockPush
<1>9. ControlOK'
  BY <1>7, <1>8 DEF ControlOK, f
<1>10. DataOK'
  BY DEF IndInv, DataOK
<1> QED
  BY <1>9, <1>10, StackStep

LEMMA SetTimerReleaseInv ==
  ASSUME IndInv, SetTimerRelease
  PROVE  IndInv'
BY ReleaseInv DEF SetTimerRelease, At, Holds

LEMMA CheckTimersDoneInv ==
  ASSUME IndInv, CheckTimersDone
  PROVE  IndInv'
BY ReleaseInv DEF CheckTimersDone, At, Holds

LEMMA CheckTimersLockInv ==
  ASSUME IndInv, CheckTimersLock
  PROVE  IndInv'
<1> DEFINE f == [Top EXCEPT !.pc = "loop", !.arg = now]
<1>1. /\ At("CheckTimers", "lock") /\ timerOwner' = tpl /\ tpl' = TPL_TIMER
      /\ stack' = <<f>> \o Callers
      /\ UNCHANGED <<interrupts, pending, queue, signalList, timerList, now, event, calls>>
  BY DEF CheckTimersLock, TimerLockTpl
<1>2. /\ Top.ev \in Event /\ tpl = TPL_TIMER /\ Top.level = TPL_TIMER
      /\ timerList \in Seq(Event) /\ now \in Nat /\ calls \in Nat
  BY <1>1, TopFacts DEF FrameOK, At, IndInv, DataOK, LevelOK
<1>3. /\ f \in FrameRecord /\ f.proc = "CheckTimers" /\ f.pc = "loop"
      /\ f.level = Top.level /\ f.ev = Top.ev
  BY <1>1, <1>2, TopFacts DEF FrameRecord, Pcs, At
<1> HIDE DEF f
<1>4. f \in Activation /\ Holds(f) /\ ~Bottom(f) /\ ~Bottom(Top)
  BY <1>1, <1>2, <1>3 DEF Activation, FrameOK, Holds, Bottom, At
<1>5. LockOK(<<f>> \o Callers, TPL_TIMER)
  BY <1>1, <1>2, <1>3, <1>4, TopFacts, LockIsFree, LockAcquire
<1>6. LevelOK(f, TPL_TIMER)
  BY <1>2, <1>3, TplNumbers DEF LevelOK
<1>7. CalledBy(f, stack[2])
  BY <1>1, <1>3, <1>4, CallerFacts DEF CalledBy, At
<1>8. StackOK(<<f>> \o Callers, TPL_TIMER)
  BY <1>3, <1>4, <1>6, <1>7, TopFacts, ReplaceTop
<1>9. ControlOK'
  BY <1>1, <1>2, <1>5, <1>8 DEF ControlOK
<1>10. SameEvents /\ TPL_TIMER \in Tpls
  BY <1>1, TplNumbers DEF SameEvents, IndInv, DataOK
<1> QED
  BY <1>1, <1>2, <1>9, <1>10, TimerStep

LEMMA CheckTimersExpireInv ==
  ASSUME IndInv, CheckTimersExpire
  PROVE  IndInv'
<1> DEFINE e == Head(timerList)
           f == [Top EXCEPT !.pc = "period", !.ev = e]
           g == Signal(e)
<1>1. /\ At("CheckTimers", "loop") /\ timerList # <<>> /\ timerList' = Tail(timerList)
      /\ stack' = <<g, f>> \o Callers
      /\ UNCHANGED <<tpl, interrupts, pending, queue, signalList, timerOwner, now, event,
                     calls>>
  BY DEF CheckTimersExpire, Expired
<1>2. /\ timerList \in Seq(Event) /\ timerOwner \in Tpls \cup {NoTpl}
      /\ now \in Nat /\ calls \in Nat
  BY DEF IndInv, DataOK
<1>3. e \in Event /\ timerList' \in Seq(Event)
  BY <1>1, <1>2
<1> HIDE DEF e
<1>4. /\ f \in FrameRecord /\ f.proc = "CheckTimers" /\ f.pc = "period"
      /\ f.level = Top.level /\ f.ev = e
  BY <1>1, <1>3, TopFacts DEF FrameRecord, Pcs, At
<1> HIDE DEF f
<1>5. f \in Activation
  BY <1>3, <1>4 DEF Activation, FrameOK
<1>6. /\ g \in Activation /\ g.level = tpl /\ LevelOK(g, tpl)
      /\ ~Bottom(g) /\ ~Holds(g) /\ CalledBy(g, f)
  BY <1>3, TopFacts, SignalCalled
<1> HIDE DEF g
<1>7. ControlOK'
  BY <1>1, <1>4, <1>5, <1>6, GoesOnAndCalls DEF ControlOK, At
<1>8. SameEvents
  BY <1>1 DEF SameEvents, IndInv, DataOK
<1> QED
  BY <1>1, <1>2, <1>3, <1>7, <1>8, TimerStep

LEMMA CheckTimersPeriodInv ==
  ASSUME IndInv, CheckTimersPeriod
  PROVE  IndInv'
<1> DEFINE e == Top.ev
           next == event[e].trigger + event[e].period
           f == [Top EXCEPT !.pc = "loop"]
           h == [Top EXCEPT !.pc = "insert"]
           g == Signal(CheckTimerEvent)
<1>1. /\ At("CheckTimers", "period")
      /\ stack' \in {<<f>> \o Callers, <<h>> \o Callers, <<g, h>> \o Callers}
      /\ UNCHANGED <<tpl, interrupts, pending, queue, signalList, timerList, timerOwner,
                     now, calls>>
  BY DEF CheckTimersPeriod, Call, Continue
<1>2. /\ e \in Event /\ Top.arg \in Nat /\ timerList \in Seq(Event)
      /\ timerOwner \in Tpls \cup {NoTpl} /\ now \in Nat /\ calls \in Nat
      /\ event \in [Event -> EventRecord] /\ CheckTimerEvent \in Event
  BY <1>1, TopFacts DEF FrameOK, FrameRecord, At, IndInv, DataOK, Event
<1>3. event[e].trigger \in Nat /\ event[e].period \in Nat
  BY <1>2 DEF EventRecord
<1>4. next \in Nat
  BY <1>3
<1>5. SameEvents
  <2>1. \/ event' = event
        \/ event' = [event EXCEPT ![e].trigger = Top.arg]
        \/ event' = [event EXCEPT ![e].trigger = next]
    BY DEF CheckTimersPeriod
  <2> HIDE DEF next
  <2> QED
    BY <1>2, <1>4, <2>1, TimerEdit
<1>6. /\ f \in Activation /\ f.proc = "CheckTimers" /\ f.level = Top.level /\ f.pc # "lock"
      /\ h \in Activation /\ h.proc = "CheckTimers" /\ h.level = Top.level /\ h.pc # "lock"
  BY <1>1, ContinueFrame DEF At, Pcs
<1> HIDE DEF f, h
<1>7. /\ StackOK(<<f>> \o Callers, tpl) /\ LockOK(<<f>> \o Callers, timerOwner)
      /\ StackOK(<<h>> \o Callers, tpl) /\ LockOK(<<h>> \o Callers, timerOwner)
  BY <1>1, <1>6, TopFacts, GoesOn DEF At
<1>8. StackOK(<<g, h>> \o Callers, tpl) /\ LockOK(<<g, h>> \o Callers, timerOwner)
  BY <1>1, <1>2, <1>6, TopFacts, SignalCalled, GoesOnAndCalls DEF At
<1> HIDE DEF g
<1>9. ControlOK'
  BY <1>1, <1>7, <1>8 DEF ControlOK
<1> QED
  BY <1>1, <1>2, <1>5, <1>9, TimerStep

LEMMA CheckTimersInsertInv ==
  ASSUME IndInv, CheckTimersInsert
  PROVE  IndInv'
<1> DEFINE f == [Top EXCEPT !.pc = "loop"]
<1>1. /\ At("CheckTimers", "insert")
      /\ timerList' = InsertEventTimer(timerList, Top.ev)
      /\ stack' = <<f>> \o Callers
      /\ UNCHANGED <<tpl, interrupts, pending, queue, signalList, timerOwner, now, event,
                     calls>>
  BY DEF CheckTimersInsert, Continue
<1>2. /\ Top.ev \in Event /\ timerList \in Seq(Event)
      /\ timerOwner \in Tpls \cup {NoTpl} /\ now \in Nat /\ calls \in Nat
  BY <1>1, TopFacts DEF FrameOK, At, IndInv, DataOK
<1>3. timerList' \in Seq(Event)
  BY <1>1, <1>2, InsertEventTimerType
<1>4. f \in Activation /\ f.proc = "CheckTimers" /\ f.level = Top.level /\ f.pc = "loop"
  BY <1>1, ContinueFrame DEF At, Pcs
<1> HIDE DEF f
<1>5. ControlOK'
  BY <1>1, <1>4, TopFacts, GoesOn DEF ControlOK, At
<1>6. SameEvents
  BY <1>1 DEF SameEvents, IndInv, DataOK
<1> QED
  BY <1>1, <1>2, <1>3, <1>5, <1>6, TimerStep

-----------------------------------------------------------------------------
(***************************************************************************)
(* The timer interrupt.                                                    *)
(***************************************************************************)
LEMMA TimerTickInv ==
  ASSUME IndInv, TimerTick
  PROVE  IndInv'
<1> DEFINE s == <<Isr>> \o stack
<1>1. /\ interrupts /\ tpl' = TPL_HIGH_LEVEL /\ interrupts' = FALSE
      /\ now' = IF now + TimerPeriod <= MaxTime THEN now + TimerPeriod ELSE MaxTime
      /\ stack' = <<RestoreTo(tpl), Isr>> \o stack
      /\ UNCHANGED <<signalList, timerList, timerOwner, calls>>
  BY DEF TimerTick
<1>2. /\ CheckTimerEvent \in Event /\ event \in [Event -> EventRecord] /\ now \in Nat
  BY DEF IndInv, DataOK, Event
<1>3. tpl < TPL_HIGH_LEVEL
  BY <1>1 DEF IndInv, HighLevelMasksInterrupts
<1>4. now' \in Nat
  BY <1>1, <1>2, ConstantsAssumption
<1>5. QueuesNotified
  BY <1>2 DEF TimerTick, QueuesNotified
<1>6. SameEvents
  <2>1. event' = event \/ event' = [event EXCEPT ![CheckTimerEvent].count = 1]
    BY DEF TimerTick
  <2> QED
    BY <1>2, <2>1 DEF SameEvents, EventRecord
<1>7. /\ Isr \in Activation /\ RestoreTo(tpl) \in Activation
  BY <1>2, TopFacts, ServiceFrames
     DEF RestoreTo, Frame, Activation, FrameRecord, FrameOK, Procs, Pcs
<1>8. /\ Isr.level = tpl /\ Isr.proc = "Isr"
  BY DEF Isr, Frame
<1>9. LevelOK(Isr, tpl) /\ CalledBy(Isr, stack[1]) /\ ~Bottom(Isr) /\ ~Holds(Isr)
  BY <1>3, <1>8, TopFacts DEF LevelOK, CalledBy, Bottom, Holds
<1>10. StackOK(s, tpl) /\ LockOK(s, timerOwner)
  BY <1>7, <1>8, <1>9, TopFacts, Calls
<1>11. stack' = <<RestoreTo(tpl)>> \o s
  BY <1>1, <1>7, TopFacts, TwoSeq
<1> HIDE DEF s
<1>12. EventLockSection(s)
  BY <1>1, <1>11 DEF EventLockSection
<1>13. ControlOK' /\ HighLevelMasksInterrupts' /\ tpl' \in Tpls /\ interrupts' \in BOOLEAN
  BY <1>1, <1>10, <1>12, SectionStep
<1>14. /\ QueueConsistent' /\ CheckTimerEventOK'
       /\ queue' \in [QueueLevels -> Seq(Event)] /\ pending' \subseteq QueueLevels
  BY <1>5, <1>6, QueueStep
<1>15. DataOK'
  BY <1>1, <1>4, <1>6, <1>13, <1>14 DEF IndInv, DataOK, SameEvents
<1> QED
  BY <1>13, <1>14, <1>15 DEF IndInv

LEMMA IsrReturnInv ==
  ASSUME IndInv, IsrReturn
  PROVE  IndInv'
<1>1. /\ At("Isr", "iret") /\ interrupts' = TRUE /\ stack' = Callers
      /\ UNCHANGED <<tpl, pending, queue, signalList, timerList, timerOwner, now, event,
                     calls>>
  BY DEF IsrReturn
<1>2. ~Bottom(Top) /\ ~Holds(Top) /\ Top.level = tpl /\ tpl < TPL_HIGH_LEVEL
  BY <1>1, TopFacts DEF At, Bottom, Holds, LevelOK
<1>3. ControlOK'
  BY <1>1, <1>2, TopFacts, Returns DEF ControlOK
<1>4. QueueConsistent' /\ CheckTimerEventOK'
  BY <1>1, QueuesUntouched
<1>5. DataOK'
  BY <1>1 DEF IndInv, DataOK
<1>6. HighLevelMasksInterrupts'
  BY <1>1, <1>2, Zenon DEF HighLevelMasksInterrupts
<1> QED
  BY <1>3, <1>4, <1>5, <1>6 DEF IndInv

-----------------------------------------------------------------------------
(***************************************************************************)
(* Tasks.                                                                  *)
(***************************************************************************)
\* A task calls the service f at the level it runs at.
LEMMA InvokeInv ==
  ASSUME IndInv, NEW f \in Activation, Invoke(f), f.level = tpl, LevelOK(f, tpl),
         CalledBy(f, stack[1]), ~Bottom(f), ~Holds(f)
  PROVE  IndInv'
<1>1. /\ calls' = calls + 1 /\ stack' = <<f>> \o stack
      /\ UNCHANGED <<tpl, interrupts, pending, queue, signalList, timerList, timerOwner,
                     now, event>>
  BY DEF Invoke, CoreState
<1>2. ControlOK'
  BY <1>1, TopFacts, Calls DEF ControlOK
<1>3. DataOK'
  BY <1>1 DEF IndInv, DataOK
<1> QED
  BY <1>1, <1>2, <1>3, StackStep

LEMMA CallSignalInv ==
  ASSUME IndInv, NEW e \in Handle, CallSignal(e)
  PROVE  IndInv'
<1>1. Invoke(Signal(e)) /\ e \in Event
  BY DEF CallSignal, Event
<1> QED
  BY <1>1, TopFacts, SignalCalled, InvokeInv

LEMMA CallCheckInv ==
  ASSUME IndInv, NEW e \in Handle, CallCheck(e)
  PROVE  IndInv'
<1>1. Invoke(Check(e)) /\ e \in Event
  BY DEF CallCheck, Event
<1> QED
  BY <1>1, TopFacts, SignalCalled, InvokeInv

LEMMA CallSetTimerInv ==
  ASSUME IndInv, NEW e \in Handle, NEW mode \in {"cancel", "periodic", "relative"},
         NEW d \in Nat, CallSetTimer(e, mode, d)
  PROVE  IndInv'
<1>1. Invoke(SetTimer(e, mode, d)) /\ e \in Event /\ tpl <= TPL_NOTIFY
  BY DEF CallSetTimer, MayCallOn, MayCall, Event
<1> QED
  BY <1>1, TopFacts, SetTimerCalled, InvokeInv

LEMMA CallCloseInv ==
  ASSUME IndInv, NEW e \in Handle, CallClose(e)
  PROVE  IndInv'
<1>1. Invoke(Close(e)) /\ e \in Event /\ tpl <= TPL_NOTIFY
  BY DEF CallClose, MayCallOn, MayCall, Event
<1>2. Close(e) \in Activation
  BY <1>1, TopFacts, ServiceFrames
<1>3. Close(e).proc = "Close" /\ Close(e).level = tpl
  BY DEF Close, Frame
<1>4. LevelOK(Close(e), tpl) /\ CalledBy(Close(e), stack[1]) /\ ~Bottom(Close(e))
      /\ ~Holds(Close(e))
  BY <1>1, <1>3, TopFacts DEF LevelOK, CalledBy, Bottom, Holds
<1> QED
  BY <1>1, <1>2, <1>3, <1>4, InvokeInv

LEMMA CallWaitInv ==
  ASSUME IndInv, CallWait
  PROVE  IndInv'
<1>1. Invoke(Wait) /\ WaitList # <<>>
  BY DEF CallWait
<1>2. Wait \in Activation
  <2>1. CheckTimerEvent \in Event
    BY DEF Event
  <2> QED
    BY <1>1, <2>1, TopFacts, ServiceFrames
<1>3. Wait.proc = "Wait" /\ Wait.level = tpl
  BY DEF Wait, Frame
<1>4. LevelOK(Wait, tpl) /\ CalledBy(Wait, stack[1]) /\ ~Bottom(Wait) /\ ~Holds(Wait)
  BY <1>3, TopFacts DEF LevelOK, CalledBy, Bottom, Holds
<1> QED
  BY <1>1, <1>2, <1>3, <1>4, InvokeInv

\* A task changes the level it raised itself to, in its own activation.
LEMMA TaskEdit ==
  ASSUME IndInv, At("Task", "run"), NEW t \in Tpls \cup {NoTpl}, NEW d,
         d = IF t = NoTpl THEN Top.level ELSE t, d \in Nat, d >= Top.level
  PROVE  LET f == [Top EXCEPT !.arg = t]
         IN  /\ f \in Activation /\ StackOK(<<f>> \o Callers, d)
             /\ LockOK(<<f>> \o Callers, timerOwner)
<1> DEFINE f == [Top EXCEPT !.arg = t]
<1>1. t \in Nat
  BY TplNumbers
<1>2. /\ f \in FrameRecord /\ f.proc = "Task" /\ f.pc = "run" /\ f.level = Top.level
      /\ f.ev = Top.ev /\ f.arg = t
  BY <1>1, TopFacts DEF FrameRecord, At
<1> HIDE DEF f
<1>3. f \in Activation /\ ~Holds(f) /\ ~Holds(Top)
  BY <1>2 DEF Activation, FrameOK, Holds, At
<1>4. LevelOK(f, d)
  BY <1>2 DEF LevelOK
<1>5. Bottom(Top) => Bottom(f)
  BY <1>2 DEF Bottom
<1>6. Len(stack) > 1 => ~Bottom(f) /\ CalledBy(f, stack[2])
  <2> SUFFICES ASSUME Len(stack) > 1
               PROVE  ~Bottom(f) /\ CalledBy(f, stack[2])
    OBVIOUS
  <2>1. Len(stack) \in Nat
    BY TopFacts
  <2>2. 1 \in 1..(Len(stack) - 1) /\ 1 + 1 = 2
    BY <2>1
  <2>3. ~Bottom(Top) /\ CalledBy(Top, stack[2])
    BY <2>2, TopFacts DEF StackOK
  <2> QED
    BY <1>2, <2>3 DEF Bottom, CalledBy, At
<1>7. StackOK(<<f>> \o Callers, d)
  BY <1>2, <1>3, <1>4, <1>5, <1>6, TopFacts, ReplaceTop
<1>8. LockOK(<<f>> \o Callers, timerOwner)
  BY <1>3, TopFacts, LockReplace
<1> QED
  BY <1>3, <1>7, <1>8 DEF f

LEMMA CallRaiseTplInv ==
  ASSUME IndInv, NEW t \in RaiseTargets, CallRaiseTpl(t)
  PROVE  IndInv'
<1> DEFINE f == [Top EXCEPT !.arg = t]
<1>1. /\ At("Task", "run") /\ Top.arg = NoTpl /\ t > tpl /\ tpl' = t
      /\ interrupts' = (interrupts /\ t < TPL_HIGH_LEVEL)
      /\ stack' = <<f>> \o Callers /\ calls' = calls + 1
      /\ UNCHANGED <<pending, queue, signalList, timerList, timerOwner, now, event>>
  BY DEF CallRaiseTpl, MayCall
<1>2. t \in Tpls /\ t \in Nat /\ t # NoTpl
  BY ConstantsAssumption, TplNumbers
<1>3. tpl = Top.level /\ tpl \in Nat
  BY <1>1, TopFacts DEF LevelOK, At
<1>4. t >= Top.level
  BY <1>1, <1>2, <1>3
<1>5. ControlOK'
  <2>1. StackOK(<<f>> \o Callers, t) /\ LockOK(<<f>> \o Callers, timerOwner)
    BY <1>1, <1>2, <1>4, TaskEdit
  <2> QED
    BY <1>1, <2>1 DEF ControlOK
<1>6. QueueConsistent' /\ CheckTimerEventOK'
  BY <1>1, QueuesUntouched
<1>7. DataOK'
  BY <1>1, <1>2 DEF IndInv, DataOK
<1>8. HighLevelMasksInterrupts'
  <2>1. t < TPL_HIGH_LEVEL => tpl < TPL_HIGH_LEVEL
    BY <1>1, <1>2, <1>3, TplNumbers
  <2> QED
    BY <1>1, <2>1, Zenon DEF IndInv, HighLevelMasksInterrupts
<1> QED
  BY <1>5, <1>6, <1>7, <1>8 DEF IndInv

LEMMA CallRestoreTplInv ==
  ASSUME IndInv, CallRestoreTpl
  PROVE  IndInv'
<1> DEFINE f == [Top EXCEPT !.arg = NoTpl]
           g == RestoreTo(Top.level)
           s == <<f>> \o Callers
<1>1. /\ At("Task", "run") /\ stack' = <<g, f>> \o Callers
      /\ UNCHANGED <<tpl, interrupts, pending, queue, signalList, timerList, timerOwner,
                     now, event, calls>>
  BY DEF CallRestoreTpl
<1>2. f \in Activation /\ StackOK(s, Top.level) /\ LockOK(s, timerOwner)
  <2>1. Top.level \in Nat /\ Top.level >= Top.level /\ NoTpl \in Tpls \cup {NoTpl}
    BY TopFacts
  <2>2. /\ f \in Activation /\ StackOK(<<f>> \o Callers, Top.level)
        /\ LockOK(<<f>> \o Callers, timerOwner)
    BY <1>1, <2>1, TaskEdit
  <2> QED
    BY <2>2
<1>3. g \in Activation /\ g.proc = "RestoreTpl" /\ g.pc = "while" /\ g.level = Top.level
  BY TopFacts DEF RestoreTo, Frame, Activation, FrameRecord, FrameOK, Procs, Pcs
<1> HIDE DEF f, g
<1>4. stack' = <<g>> \o s
  BY <1>1, <1>2, <1>3, TopFacts, TwoSeq
<1> HIDE DEF s
<1>5. LevelOK(g, tpl) /\ CalledBy(g, s[1]) /\ ~Bottom(g) /\ ~Holds(g)
  BY <1>3, TopFacts DEF LevelOK, CalledBy, Bottom, Holds
<1>6. ControlOK'
  BY <1>1, <1>2, <1>3, <1>4, <1>5, Calls DEF ControlOK
<1>7. DataOK'
  BY <1>1 DEF IndInv, DataOK
<1> QED
  BY <1>1, <1>6, <1>7, StackStep

LEMMA CallCreateInv ==
  ASSUME IndInv, NEW e \in Handle, NEW r \in CreateRequests, CallCreate(e, r)
  PROVE  IndInv'
<1> DEFINE type == CreatedType(r)
           ntpl == IF Notifies(type) THEN r.tpl ELSE NoTpl
           new == NewEvent(type, ntpl, CreatedGroup(r))
<1>1. /\ ~InvalidRequest(r) /\ event' = [event EXCEPT ![e] = new]
      /\ signalList' \in {signalList, InsertHeadList(signalList, e)}
      /\ EventLockSection(stack)
      /\ UNCHANGED <<pending, queue, timerList, timerOwner, now, calls>>
  BY DEF CallCreate
<1>2. /\ e \in Event /\ e # CheckTimerEvent /\ CheckTimerEvent \in Event
      /\ event \in [Event -> EventRecord] /\ signalList \in Seq(Event)
  BY ConstantsAssumption DEF IndInv, DataOK, Event
<1>3. r \in [type : mEventTable, tpl : Tpls, group : Groups]
  BY ConstantsAssumption
<1>4. type \in mEventTable
  BY <1>3 DEF CreatedType, mEventTable
<1>5. ntpl \in NotifyTpls \cup {NoTpl}
  BY <1>1, <1>3 DEF InvalidRequest, Tpls
<1>6. CreatedGroup(r) \in Groups
  BY <1>3 DEF CreatedGroup, Groups
<1> HIDE DEF type, ntpl
<1>7. new \in EventRecord
  BY <1>4, <1>5, <1>6 DEF NewEvent, EventRecord
<1> HIDE DEF new
<1>8. SameEvents
  BY <1>1, <1>2, <1>7 DEF SameEvents
<1>9. signalList' \in Seq(Event)
  BY <1>1, <1>2, PushSeq DEF InsertHeadList
<1>10. ControlOK' /\ HighLevelMasksInterrupts' /\ tpl' \in Tpls /\ interrupts' \in BOOLEAN
  BY <1>1, TopFacts, SectionStep
<1>11. QueueConsistent' /\ CheckTimerEventOK'
  BY <1>1, <1>8, QueuesUntouched DEF SameEvents
<1>12. DataOK'
  BY <1>1, <1>8, <1>9, <1>10 DEF IndInv, DataOK, SameEvents
<1> QED
  BY <1>10, <1>11, <1>12 DEF IndInv

LEMMA TaskReturnInv ==
  ASSUME IndInv, TaskReturn
  PROVE  IndInv'
<1>1. /\ At("Task", "run") /\ Top.ev # NoEvent /\ Top.arg = NoTpl /\ stack' = Callers
      /\ UNCHANGED <<tpl, interrupts, pending, queue, signalList, timerList, timerOwner,
                     now, event, calls>>
  BY DEF TaskReturn
<1>2. ~Bottom(Top) /\ ~Holds(Top) /\ Top.level = tpl
  BY <1>1, TopFacts DEF At, Bottom, Holds, LevelOK
<1>3. ControlOK'
  BY <1>1, <1>2, TopFacts, Returns DEF ControlOK
<1>4. DataOK'
  BY <1>1 DEF IndInv, DataOK
<1> QED
  BY <1>1, <1>3, <1>4, StackStep

-----------------------------------------------------------------------------
(***************************************************************************)
(* The invariant.                                                          *)
(***************************************************************************)
LEMMA InitInv == Init /\ ReadsOnce => IndInv
<1> SUFFICES ASSUME Init, ReadsOnce PROVE IndInv
  OBVIOUS
<1> DEFINE f == Frame("Task", "run", NoEvent, TPL_APPLICATION)
<1>1. /\ tpl = TPL_APPLICATION /\ interrupts = TRUE /\ pending = {}
      /\ queue = [t \in QueueLevels |-> <<>>]
      /\ signalList = <<IdleLoopEvent, CheckTimerEvent>> /\ timerList = <<>>
      /\ timerOwner = NoTpl /\ now = 0 /\ stack = <<f>> /\ calls = 0
  BY DEF Init
<1>2. /\ event \in [Event -> EventRecord]
      /\ event[CheckTimerEvent] = NewEvent({"SIGNAL"}, TPL_TIMER, NoGroup)
  <2>1. /\ NewEvent({"SIGNAL"}, TPL_TIMER, NoGroup) \in EventRecord
        /\ NewEvent({"SIGNAL"}, TPL_NOTIFY, IdleLoopGroup) \in EventRecord
        /\ NewEvent({}, NoTpl, NoGroup) \in EventRecord
    BY DEF NewEvent, EventRecord, mEventTable, Groups, NotifyTpls
  <2>2. FreeBlock \in EventRecord
    BY <2>1 DEF FreeBlock, EventRecord
  <2> QED
    BY <2>1, <2>2 DEF Init, Event
<1>3. /\ f \in Activation /\ f.proc = "Task" /\ f.ev = NoEvent /\ f.level = TPL_APPLICATION
      /\ f.arg = NoTpl
  BY TplNumbers DEF Frame, Activation, FrameRecord, FrameOK, Procs, Pcs
<1>4. StackOK(stack, tpl)
  <2>1. LevelOK(f, tpl) /\ Bottom(f)
    BY <1>1, <1>3, TplNumbers DEF LevelOK, Bottom
  <2> HIDE DEF f
  <2>2. stack \in Seq(Activation) /\ Len(stack) = 1 /\ stack[1] = f
    BY <1>1, <1>3
  <2> QED
    BY <2>1, <2>2 DEF StackOK
<1>5. LockOK(stack, timerOwner)
  <2> HIDE DEF f
  <2>1. Len(stack) = 1 /\ stack[1] = f /\ ~Holds(f)
    BY <1>1, <1>3 DEF Holds
  <2> QED
    BY <1>1, <2>1 DEF LockOK
<1>6. DataOK
  <2>1. signalList \in Seq(Event) /\ timerList \in Seq(Event)
    BY <1>1 DEF Event
  <2>2. queue \in [QueueLevels -> Seq(Event)]
    BY <1>1
  <2> QED
    BY <1>1, <1>2, <2>1, <2>2, TplNumbers DEF DataOK
<1>7. QueueConsistent /\ CheckTimerEventOK
  BY <1>1, <1>2 DEF QueueConsistent, CheckTimerEventOK, NoDuplicates, Linked, NewEvent
<1>8. HighLevelMasksInterrupts
  BY <1>1, TplNumbers DEF HighLevelMasksInterrupts
<1> QED
  BY <1>4, <1>5, <1>6, <1>7, <1>8 DEF IndInv, ControlOK

LEMMA StutterInv ==
  ASSUME IndInv, UNCHANGED vars
  PROVE  IndInv'
BY DEF vars, IndInv, DataOK, ControlOK, QueueConsistent, CheckTimerEventOK,
       HighLevelMasksInterrupts

LEMMA NextInv == IndInv /\ [Next]_vars => IndInv'
<1> SUFFICES ASSUME IndInv, [Next]_vars PROVE IndInv'
  OBVIOUS
<1>1. ASSUME RestoreTplStep PROVE IndInv'
  BY <1>1, RestoreTplTestInv, RestoreTplDispatchInv, RestoreTplLoopEndInv, RestoreTplSetInv DEF RestoreTplStep
<1>2. ASSUME DispatchStep PROVE IndInv'
  BY <1>2, DispatchTakeInv, DispatchNotifyInv, DispatchDoneInv DEF DispatchStep
<1>3. ASSUME SignalStep PROVE IndInv'
  BY <1>3, SignalEventInv, SignalGroupInv, NotifyListEntryInv, NotifyListEndInv, SignalEndInv
     DEF SignalStep
<1>4. ASSUME CheckStep \/ WaitStep PROVE IndInv'
  BY <1>4, CheckEventQueueInv, CheckEventClearInv, WaitForEventCheckInv,
     WaitForEventNextInv, WaitForEventReturnInv DEF CheckStep, WaitStep
<1>5. ASSUME CloseStep PROVE IndInv'
  BY <1>5, CloseEventCancelInv, CloseEventUnlinkInv, CloseEventFreeInv DEF CloseStep
<1>6. ASSUME SetTimerStep PROVE IndInv'
  BY <1>6, SetTimerRemoveInv, SetTimerTimeInv, SetTimerInsertInv, SetTimerReleaseInv
     DEF SetTimerStep
<1>7. ASSUME CheckTimersStep PROVE IndInv'
  BY <1>7, CheckTimersLockInv, CheckTimersExpireInv, CheckTimersPeriodInv,
     CheckTimersInsertInv, CheckTimersDoneInv DEF CheckTimersStep
<1>8. ASSUME ServiceStep PROVE IndInv'
  BY <1>1, <1>2, <1>3, <1>4, <1>5, <1>6, <1>7, <1>8, IsrReturnInv DEF ServiceStep
<1>9. ASSUME TaskStep PROVE IndInv'
  <2>1. Delays \subseteq Nat /\ 0 \in Nat
    BY ConstantsAssumption
  <2>2. ASSUME NEW e \in Handle,
               \/ CallSignal(e) \/ CallCheck(e) \/ CallClose(e)
               \/ CallSetTimer(e, "cancel", 0)
               \/ \E mode \in {"periodic", "relative"}, d \in Delays :
                    CallSetTimer(e, mode, d)
               \/ \E r \in CreateRequests : CallCreate(e, r)
        PROVE  IndInv'
    <3>1. ASSUME NEW mode \in {"periodic", "relative"}, NEW d \in Delays,
                 CallSetTimer(e, mode, d)
          PROVE  IndInv'
      BY <2>1, <3>1, CallSetTimerInv
    <3>2. ASSUME CallSetTimer(e, "cancel", 0) PROVE IndInv'
      BY <2>1, <3>2, CallSetTimerInv
    <3> QED
      BY <2>2, <3>1, <3>2, CallSignalInv, CallCheckInv, CallCloseInv, CallCreateInv
  <2> QED
    BY <1>9, <2>2, CallWaitInv, CallRaiseTplInv, CallRestoreTplInv, TaskReturnInv
       DEF TaskStep
<1> QED
  BY <1>8, <1>9, TimerTickInv, StutterInv DEF Next

LEMMA Inductive == Spec /\ ReadsOnce => []IndInv
BY InitInv, NextInv, PTL DEF Spec

-----------------------------------------------------------------------------
(***************************************************************************)
(* The properties the invariant establishes.                               *)
(***************************************************************************)
\* Every reachable state is well-typed: the event services' data, and what
\* each procedure keeps in its activation (levels, list positions, events), in
\* builds that read gEventPending once: gEfiCurrentTpl is a level.
THEOREM TypeCorrect == Spec /\ ReadsOnce => []TypeOK
<1>1. IndInv => TypeOK
  BY DEF IndInv, DataOK, ControlOK, StackOK, TypeOK
<1> QED
  BY <1>1, Inductive, PTL

\* A level with queued notifications is pending, and an event is queued at
\* most once per level, whatever interrupts, nests or closes.
THEOREM QueuesConsistent == Spec /\ ReadsOnce => []QueueConsistent
<1>1. IndInv => QueueConsistent
  BY DEF IndInv
<1> QED
  BY <1>1, Inductive, PTL

\* Interrupts are off exactly at TPL_HIGH_LEVEL, in builds that read
\* gEventPending once.
THEOREM HighLevelMasks == Spec /\ ReadsOnce => []HighLevelMasksInterrupts
<1>1. IndInv => HighLevelMasksInterrupts
  BY DEF IndInv
<1> QED
  BY <1>1, Inductive, PTL

\* Every service returns at the level it was called at.
THEOREM LevelIsRestored == Spec /\ ReadsOnce => []LevelRestored
<1>1. IndInv => LevelRestored
  <2> SUFFICES ASSUME IndInv, At("Task", "run") PROVE
               /\ tpl = IF Top.arg = NoTpl THEN Top.level ELSE Top.arg
               /\ Top.ev # NoEvent => stack[2].proc = "Dispatch" /\ stack[2].level = Top.level
    BY DEF LevelRestored
  <2>1. tpl = IF Top.arg = NoTpl THEN Top.level ELSE Top.arg
    BY TopFacts DEF LevelOK, At
  <2>2. ASSUME Top.ev # NoEvent
        PROVE  stack[2].proc = "Dispatch" /\ stack[2].level = Top.level
    <3>1. ~Bottom(Top)
      BY <2>2 DEF Bottom
    <3> QED
      BY <3>1, CallerFacts DEF CalledBy, LevelOK, At
  <2> QED
    BY <2>1, <2>2
<1> QED
  BY <1>1, Inductive, PTL

\* mEfiTimerLock is never acquired while it is held, nor from above its level.
THEOREM TimerLockIsFree == Spec /\ ReadsOnce => []TimerLockNotReentered
<1>1. IndInv => TimerLockNotReentered
  <2> SUFFICES ASSUME IndInv, At("CheckTimers", "lock") \/ At("SetTimer", "remove")
               PROVE  timerOwner = NoTpl /\ tpl <= TPL_TIMER
    BY DEF TimerLockNotReentered
  <2>1. timerOwner = NoTpl
    BY LockIsFree, TopFacts DEF LockOK
  <2>2. tpl <= TPL_TIMER
    BY TopFacts, TplNumbers DEF LevelOK, At
  <2> QED
    BY <2>1, <2>2
<1> QED
  BY <1>1, Inductive, PTL

\* Dispatches nest strictly upwards, and the current level is never below one,
\* although a tick may dispatch what the loop has tested before the loop sets
\* the level: in builds that read gEventPending once.
THEOREM DispatchesNest == Spec /\ ReadsOnce => []DispatchNests
<1>1. IndInv => DispatchNests
  <2> DEFINE dispatch == {i \in 1..Len(stack) : stack[i].proc = "Dispatch"}
  <2> SUFFICES ASSUME IndInv
               PROVE  /\ \A i, j \in dispatch : i < j => stack[i].level > stack[j].level
                      /\ \A i \in dispatch : tpl >= stack[i].level
    BY DEF DispatchNests
  <2>1. stack \in Seq(Activation) /\ Len(stack) \in Nat
    BY TopFacts
  <2>2. \A i \in 1..Len(stack) : stack[i].level \in Nat
    BY <2>1, LevelsAreNumbers
  <2>3. ASSUME NEW i \in dispatch, NEW j \in dispatch, i < j
        PROVE  stack[i].level > stack[j].level
    <3>1. i \in 1..(Len(stack) - 1) /\ i + 1 \in 1..Len(stack) /\ j \in 1..Len(stack)
      BY <2>1, <2>3
    <3>2. stack[i + 1].proc = "RestoreTpl" /\ stack[i + 1].level < stack[i].level
      BY <3>1, TopFacts DEF StackOK, CalledBy
    <3>3. i + 1 < j
      BY <2>3, <3>1, <3>2
    <3>4. stack[i + 1].level >= stack[j].level
      BY <3>1, <3>3, TopFacts DEF StackOK
    <3> QED
      BY <2>2, <3>1, <3>2, <3>4
  <2>4. ASSUME NEW i \in dispatch
        PROVE  tpl >= stack[i].level
    <3>1. tpl >= stack[1].level /\ tpl \in Nat
      BY TopFacts DEF LevelOK
    <3>2. 1 \in 1..Len(stack) /\ i \in 1..Len(stack) /\ (i = 1 \/ 1 < i)
      BY <2>1
    <3>3. i = 1 \/ stack[1].level >= stack[i].level
      BY <3>2, TopFacts DEF StackOK
    <3> QED
      BY <2>2, <3>1, <3>2, <3>3
  <2> QED
    BY <2>3, <2>4
<1> QED
  BY <1>1, Inductive, PTL
=============================================================================
