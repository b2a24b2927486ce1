--------------------------- MODULE DxeEventSafety ---------------------------
(***************************************************************************)
(* Memory safety, the order of the timers and the latching of signals, for *)
(* callers that are careful with the events they close, and that the event *)
(* services then implement EventDispatch, in builds that read              *)
(* gEventPending once (ReadsOnce).  For every value of the other constants *)
(* and without the bounds of the runs.                                     *)
(***************************************************************************)
EXTENDS DxeEventProofs, SequenceTheorems

(***************************************************************************)
(* Where events are closed, they are closed as MayClose says and a         *)
(* notification works on its own event only.  (The program at the bottom   *)
(* of the stack works on any.)  DxeEvent_close shows what happens without. *)
(***************************************************************************)
Careful ==
  "Close" \in Ops =>
    /\ DisciplinedClose
    /\ SharedOps \cap {"Signal", "SetTimer", "Check", "Close"} = {}

(***************************************************************************)
(* The inductive invariant.  It relates what is on the lists to the        *)
(* structures, each activation to both, and every two activations of the   *)
(* stack to each other.                                                    *)
(***************************************************************************)
Frames(s) == {s[i] : i \in 1..Len(s)}

IsAt(f, proc, pc) == f.proc = proc /\ f.pc = pc

\* Activation f has taken its timer off mEfiTimerList and may put it back.
InHand(f) ==
  \/ f.proc = "SetTimer" /\ f.pc \in {"time", "insert"}
  \/ f.proc = "CheckTimers" /\ f.pc \in {"period", "insert"}

\* The timer of e is on mEfiTimerList, or about to be put there.
Timing(e) ==
  Linked(timerList, e) \/ \E f \in Frames(stack) : InHand(f) /\ f.ev = e

Uses(f, e) ==
  \/ f.ev = e /\ Reads(f)
  \/ f.proc = "Wait" /\ Linked(WaitList, e)

\* Activation f may be above activation g.  Nothing interrupts the walk of
\* CoreNotifySignalList; nothing below a close uses the event that is
\* closed; and above it only CoreCheckTimers and the signal it sends, until
\* the cancelling of the timer, which the close itself called, is through.
PairOK(f, g) ==
  /\ g.proc # "NotifyList"
  /\ f.proc = "Close" => ~Uses(g, f.ev)
  /\ g.proc = "Close" =>
       /\ f.proc # "Wait"
       /\ f.ev = g.ev =>
            /\ g.pc # "free"
            /\ \/ f.proc \in {"CheckTimers", "Signal", "NotifyList"}
               \/ f.proc = "SetTimer" /\ f.mode = "cancel"

PairsOK(s) == \A i, j \in 1..Len(s) : i < j => PairOK(s[i], s[j])

\* What is on a list is allocated and of the type the list is for, and is
\* queued at the level of its notification function.
ListsOK ==
  /\ NoDuplicates(signalList)
  /\ TimerListSorted
  /\ event[CheckTimerEvent].alive
  /\ event[IdleLoopEvent].alive
  /\ \A e \in Event :
       /\ Linked(signalList, e) => event[e].alive /\ Is(e, "SIGNAL")
       /\ Linked(timerList, e) => event[e].alive /\ Is(e, "TIMER")
       /\ \A t \in QueueLevels : Linked(queue[t], e) => event[e].alive /\ event[e].ntpl = t

\* What activation f works on is allocated, a timer in hand is not linked,
\* and the event a close is about to free is on no list.
FrameSafe(f) ==
  /\ Reads(f) => event[f.ev].alive
  /\ f.proc = "Wait" => \A i \in 1..Len(WaitList) : event[WaitList[i]].alive
  /\ InHand(f) => Is(f.ev, "TIMER") /\ ~Linked(timerList, f.ev)
  /\ f.proc = "Close" =>
       /\ f.ev \in Handle
       /\ "Close" \in Ops
       /\ f.level >= event[f.ev].ntpl
       /\ f.pc = "free" =>
            /\ ~Linked(timerList, f.ev)
            /\ ~Linked(signalList, f.ev)
            /\ \A t \in QueueLevels : ~Linked(queue[t], f.ev)

FramesSafe == \A f \in Frames(stack) : FrameSafe(f)

\* Once a close has called CoreSetTimer, its event is no timer any more, or
\* the call has not yet got to its section.
CancelsOK ==
  \A g \in Frames(stack) : IsAt(g, "Close", "unlink") =>
    \/ \E f \in Frames(stack) : IsAt(f, "SetTimer", "remove") /\ f.ev = g.ev
    \/ ~Timing(g.ev)

\* A NOTIFY_SIGNAL event is on gEventSignalQueue, or about to be freed.
SignalsKnown ==
  \A e \in Event : event[e].alive /\ Is(e, "SIGNAL") =>
    Linked(signalList, e) \/ \E f \in Frames(stack) : IsAt(f, "Close", "free") /\ f.ev = e

\* Activation f sees to it that the signal of e is not lost.
Carries(f, e) ==
  /\ f.ev = e
  /\ \/ IsAt(f, "Signal", "group")
     \/ f.proc = "NotifyList" /\ f.arg <= PositionOf(signalList, e)
     \/ IsAt(f, "Close", "free")

\* SignalLatched, in these words.
Latched ==
  \A e \in Event : event[e].alive /\ Is(e, "SIGNAL") /\ event[e].count = 1 =>
    Linked(queue[event[e].ntpl], e) \/ \E f \in Frames(stack) : Carries(f, e)

SafeInv ==
  /\ ListsOK
  /\ FramesSafe
  /\ PairsOK(stack)
  /\ CancelsOK
  /\ SignalsKnown
  /\ Latched

-----------------------------------------------------------------------------
(***************************************************************************)
(* The activations of a stack.                                             *)
(***************************************************************************)
\* The stack s is well-ordered, and its activations are G.
Stacked(s, G) == s \in Seq(Activation) /\ Frames(s) = G /\ PairsOK(s)

\* No list is walked and only handles are closed in G.
Lower(G) == \A g \in G : g.proc # "NotifyList" /\ (g.proc = "Close" => g.ev \in Handle)

LEMMA PushStacked ==
  ASSUME NEW s, NEW G, NEW f \in Activation, Stacked(s, G), \A g \in G : PairOK(f, g)
  PROVE  Stacked(<<f>> \o s, {f} \cup G)
<1> DEFINE p == <<f>> \o s
<1>1. s \in Seq(Activation) /\ Frames(s) = G /\ PairsOK(s) /\ Len(s) \in Nat
  BY DEF Stacked
<1>2. /\ p \in Seq(Activation) /\ Len(p) = Len(s) + 1
      /\ \A i \in 1..Len(p) : p[i] = IF i = 1 THEN f ELSE s[i - 1]
  BY <1>1, PushSeq
<1> HIDE DEF p
<1>3. \A i \in 1..Len(p) : (i = 1 /\ p[i] = f) \/ (i - 1 \in 1..Len(s) /\ p[i] = s[i - 1])
  BY <1>1, <1>2
<1>4. \A i \in 1..Len(s) : i + 1 \in 1..Len(p) /\ p[i + 1] = s[i]
  BY <1>1, <1>2
<1>5. Frames(p) = {f} \cup Frames(s)
  <2>1. Frames(p) \subseteq {f} \cup Frames(s)
    BY <1>3 DEF Frames
  <2>2. f \in Frames(p)
    <3>1. 1 \in 1..Len(p) /\ p[1] = f
      BY <1>1, <1>2
    <3> QED
      BY <3>1 DEF Frames
  <2>3. Frames(s) \subseteq Frames(p)
    BY <1>4 DEF Frames
  <2> QED
    BY <2>1, <2>2, <2>3
<1>6. PairsOK(p)
  <2> SUFFICES ASSUME NEW i \in 1..Len(p), NEW j \in 1..Len(p), i < j
               PROVE  PairOK(p[i], p[j])
    BY DEF PairsOK
  <2>1. j - 1 \in 1..Len(s) /\ p[j] = s[j - 1]
    BY <1>3
  <2>2. CASE i = 1
    <3>1. p[i] = f /\ p[j] \in G
      BY <1>1, <1>2, <2>1, <2>2 DEF Frames
    <3> QED
      BY <3>1
  <2>3. CASE i # 1
    <3>1. i - 1 \in 1..Len(s) /\ p[i] = s[i - 1] /\ i - 1 < j - 1
      BY <1>3, <2>3
    <3> QED
      BY <1>1, <2>1, <3>1 DEF PairsOK
  <2> QED
    BY <2>2, <2>3
<1> QED
  BY <1>1, <1>2, <1>5, <1>6 DEF Stacked, p

LEMMA PopStacked ==
  ASSUME NEW s \in Seq(Activation), s # <<>>, PairsOK(s)
  PROVE  /\ Stacked(Tail(s), Frames(Tail(s)))
         /\ Frames(s) = {s[1]} \cup Frames(Tail(s))
         /\ \A g \in Frames(Tail(s)) : PairOK(s[1], g)
<1> DEFINE r == Tail(s)
<1>1. /\ r \in Seq(Activation) /\ Len(r) = Len(s) - 1 /\ Len(s) \in Nat /\ Len(s) > 0
      /\ \A i \in 1..Len(r) : i + 1 \in 1..Len(s) /\ r[i] = s[i + 1]
  BY PopSeq
<1> HIDE DEF r
<1>2. \A i \in 1..Len(s) : i = 1 \/ (i - 1 \in 1..Len(r) /\ s[i] = r[i - 1])
  BY <1>1
<1>3. PairsOK(r)
  <2> SUFFICES ASSUME NEW i \in 1..Len(r), NEW j \in 1..Len(r), i < j
               PROVE  PairOK(r[i], r[j])
    BY DEF PairsOK
  <2>1. i + 1 < j + 1
    OBVIOUS
  <2> QED
    BY <1>1, <2>1 DEF PairsOK
<1>4. Frames(s) = {s[1]} \cup Frames(r)
  <2>1. 1 \in 1..Len(s)
    BY <1>1
  <2>2. Frames(s) \subseteq {s[1]} \cup Frames(r)
    BY <1>2 DEF Frames
  <2>3. Frames(r) \subseteq Frames(s)
    BY <1>1 DEF Frames
  <2>4. s[1] \in Frames(s)
    BY <2>1 DEF Frames
  <2> QED
    BY <2>2, <2>3, <2>4
<1>5. ASSUME NEW g \in Frames(r) PROVE PairOK(s[1], g)
  <2>1. PICK i \in 1..Len(r) : g = r[i]
    BY DEF Frames
  <2>2. 1 \in 1..Len(s) /\ i + 1 \in 1..Len(s) /\ 1 < i + 1 /\ g = s[i + 1]
    BY <1>1, <2>1
  <2> QED
    BY <2>2 DEF PairsOK
<1> QED
  BY <1>1, <1>3, <1>4, <1>5 DEF Stacked, r

\* What the invariant says of the running activation and of those below.
LEMMA SafeTop ==
  ASSUME IndInv, SafeInv
  PROVE  /\ Stacked(stack, Frames(stack))
         /\ Stacked(Callers, Frames(Callers))
         /\ Frames(stack) = {Top} \cup Frames(Callers)
         /\ \A g \in Frames(Callers) : PairOK(Top, g)
         /\ Lower(Frames(Callers))
         /\ Top.proc # "NotifyList" => Lower(Frames(stack))
         /\ FrameSafe(Top)
         /\ \A g \in Frames(Callers) : FrameSafe(g)
<1>1. /\ stack \in Seq(Activation) /\ stack # <<>> /\ Top = stack[1] /\ Callers = Tail(stack)
  BY TopFacts
<1>2. PairsOK(stack) /\ \A f \in Frames(stack) : FrameSafe(f)
  BY DEF SafeInv, FramesSafe
<1>3. /\ Stacked(Callers, Frames(Callers))
      /\ Frames(stack) = {Top} \cup Frames(Callers)
      /\ \A g \in Frames(Callers) : PairOK(Top, g)
  BY <1>1, <1>2, PopStacked
<1>4. Stacked(stack, Frames(stack))
  BY <1>1, <1>2 DEF Stacked
<1>5. FrameSafe(Top) /\ \A g \in Frames(Callers) : FrameSafe(g)
  BY <1>2, <1>3
<1>6. \A g \in Frames(Callers) : g.proc # "NotifyList"
  BY <1>3 DEF PairOK
<1>7. \A g \in Frames(stack) : g.proc = "Close" => g.ev \in Handle
  BY <1>2 DEF FrameSafe
<1>8. Lower(Frames(Callers)) /\ (Top.proc # "NotifyList" => Lower(Frames(stack)))
  BY <1>3, <1>6, <1>7 DEF Lower
<1> QED
  BY <1>3, <1>4, <1>5, <1>8

\* The same activation, further on in its code.
LEMMA PairLike ==
  ASSUME NEW f, NEW h, NEW g, PairOK(h, g), f.proc = h.proc, f.ev = h.ev, f.mode = h.mode
  PROVE  PairOK(f, g)
BY DEF PairOK

\* An activation that works on no event of the callers.
LEMMA PairNeutral ==
  ASSUME NEW f, NEW G, Lower(G), f.proc \notin {"Close", "Wait"}, f.ev \notin Handle
  PROVE  \A g \in G : PairOK(f, g)
BY DEF PairOK, Lower

-----------------------------------------------------------------------------
(***************************************************************************)
(* What a step does: which activations are new (N) and which stay (K: all  *)
(* but the running one, and the CoreWaitForEvent it answers), and which    *)
(* events it queues (Q) and which timers it links (T).                     *)
(***************************************************************************)
Turns(N, K) ==
  /\ Stacked(stack', N \cup K)
  /\ K \subseteq Frames(stack)
  /\ \A f \in Frames(stack) : f = Top \/ f \in K \/ f.proc = "Wait"

\* The events keep everything but their signal state and their times.
KindsKept ==
  \A e \in Event :
    /\ event'[e].alive = event[e].alive /\ event'[e].type = event[e].type
    /\ event'[e].ntpl = event[e].ntpl /\ event'[e].group = event[e].group

Adds(Q, T) ==
  /\ KindsKept
  /\ signalList' = signalList
  /\ \A e \in Event : Linked(timerList', e) => Linked(timerList, e) \/ e \in T
  /\ \A e \in Event, t \in QueueLevels :
       Linked(queue'[t], e) => Linked(queue[t], e) \/ (e \in Q /\ t = event[e].ntpl)

LEMMA Fixed == CheckTimerEvent \in Event /\ IdleLoopEvent \in Event /\ Handle \subseteq Event
  /\ CheckTimerEvent \notin Handle /\ IdleLoopEvent \notin Handle /\ NoEvent \notin Handle
BY ConstantsAssumption DEF Event

\* An activation of well-typed events works on one of them, or on none.
LEMMA ReadsEvent ==
  ASSUME NEW f \in Activation
  PROVE  /\ Reads(f) => f.ev \in Event
         /\ InHand(f) => f.ev \in Event /\ Reads(f)
         /\ f.proc = "Close" => f.ev \in Event /\ Reads(f)
         /\ Reads(f) => ~IsAt(f, "SetTimer", "release")
<1>1. FrameOK(f)
  BY LevelsAreNumbers
<1> QED
  BY <1>1 DEF Reads, InHand, FrameOK, IsAt

LEMMA WaitListEvents == \A i \in 1..Len(WaitList) : WaitList[i] \in Event
BY ConstantsAssumption DEF Event

\* The lists after a step.
LEMMA KeepLists ==
  ASSUME IndInv, SafeInv, NEW Q, NEW T, Adds(Q, T), TimerListSorted',
         \A e \in Q : event[e].alive, \A e \in T : event[e].alive /\ Is(e, "TIMER")
  PROVE  ListsOK'
<1>1. ListsOK
  BY DEF SafeInv
<1>2. NoDuplicates(signalList')
  BY <1>1 DEF ListsOK, Adds
<1>3. event'[CheckTimerEvent].alive /\ event'[IdleLoopEvent].alive
  BY <1>1, Fixed DEF ListsOK, Adds, KindsKept
<1>4. ASSUME NEW e \in Event
      PROVE  /\ Linked(signalList', e) => event'[e].alive /\ "SIGNAL" \in event'[e].type
             /\ Linked(timerList', e) => event'[e].alive /\ "TIMER" \in event'[e].type
             /\ \A t \in QueueLevels :
                  Linked(queue'[t], e) => event'[e].alive /\ event'[e].ntpl = t
  <2>1. Linked(signalList', e) => event'[e].alive /\ "SIGNAL" \in event'[e].type
    BY <1>1 DEF ListsOK, Adds, KindsKept, Is
  <2>2. Linked(timerList', e) => event'[e].alive /\ "TIMER" \in event'[e].type
    BY <1>1 DEF ListsOK, Adds, KindsKept, Is
  <2>3. ASSUME NEW t \in QueueLevels, Linked(queue'[t], e)
        PROVE  event'[e].alive /\ event'[e].ntpl = t
    BY <1>1, <2>3 DEF ListsOK, Adds, KindsKept
  <2> QED
    BY <2>1, <2>2, <2>3
<1> QED
  BY <1>2, <1>3, <1>4 DEF ListsOK, Is

\* An activation that stays.
LEMMA KeepFrame ==
  ASSUME IndInv, SafeInv, NEW f \in Activation, FrameSafe(f), NEW Q, NEW T, Adds(Q, T),
         IsAt(f, "Close", "free") => f.ev \notin Q \cup T,
         InHand(f) => f.ev \notin T
  PROVE  FrameSafe(f)'
<1>1. Reads(f) => event'[f.ev].alive
  BY ReadsEvent DEF FrameSafe, Adds, KindsKept
<1>2. f.proc = "Wait" => \A i \in 1..Len(WaitList) : event'[WaitList[i]].alive
  BY WaitListEvents DEF FrameSafe, Adds, KindsKept
<1>3. InHand(f) => "TIMER" \in event'[f.ev].type /\ ~Linked(timerList', f.ev)
  BY ReadsEvent DEF FrameSafe, Adds, KindsKept, Is
<1>4. ASSUME f.proc = "Close"
      PROVE  f.ev \in Handle /\ "Close" \in Ops /\ f.level >= event'[f.ev].ntpl
  BY <1>4, ReadsEvent DEF FrameSafe, Adds, KindsKept
<1>5. ASSUME f.proc = "Close", f.pc = "free"
      PROVE  /\ ~Linked(timerList', f.ev) /\ ~Linked(signalList', f.ev)
             /\ \A t \in QueueLevels : ~Linked(queue'[t], f.ev)
  BY <1>5, ReadsEvent DEF FrameSafe, Adds, IsAt
<1> QED
  BY <1>1, <1>2, <1>3, <1>4, <1>5 DEF FrameSafe, Is

LEMMA KeepFrames ==
  ASSUME IndInv, SafeInv, NEW N, NEW K, Turns(N, K), NEW Q, NEW T, Adds(Q, T),
         \A f \in N : FrameSafe(f)',
         \A f \in K : /\ IsAt(f, "Close", "free") => f.ev \notin Q \cup T
                      /\ InHand(f) => f.ev \notin T
  PROVE  FramesSafe'
<1>1. Frames(stack') = N \cup K /\ K \subseteq Frames(stack)
  BY DEF Turns, Stacked
<1>2. ASSUME NEW f \in K PROVE FrameSafe(f)'
  <2>1. f \in Frames(stack) /\ FrameSafe(f)
    BY <1>1 DEF SafeInv, FramesSafe
  <2>2. f \in Activation
    BY <2>1, TopFacts DEF Frames
  <2> QED
    BY <2>1, <2>2, KeepFrame
<1> QED
  BY <1>1, <1>2 DEF FramesSafe

\* The closes after a step that starts no timer, or one that is not closed.
LEMMA KeepCancels ==
  ASSUME IndInv, SafeInv, NEW N, NEW K, Turns(N, K),
         \/ Top \in K
         \/ ~IsAt(Top, "SetTimer", "remove")
         \/ \A e \in Event : e = Top.ev => ~(Timing(e)')
         \/ \A g \in K : g.proc = "Close" => g.ev # Top.ev,
         \A f \in N : InHand(f) =>
           Timing(f.ev) \/ \A g \in K : g.proc = "Close" => g.ev # f.ev,
         \A g \in N : IsAt(g, "Close", "unlink") =>
           \/ \E f \in N : IsAt(f, "SetTimer", "remove") /\ f.ev = g.ev
           \/ ~(Timing(g.ev)'),
         \A e \in Event : Linked(timerList', e) => Timing(e)
  PROVE  CancelsOK'
<1>1. /\ Frames(stack') = N \cup K /\ K \subseteq Frames(stack)
      /\ \A f \in Frames(stack) : f = Top \/ f \in K \/ f.proc = "Wait"
  BY DEF Turns, Stacked
<1>2. ASSUME NEW g \in K, g.proc = "Close", g.ev \in Event, Timing(g.ev)'
      PROVE  Timing(g.ev)
  <2>1. CASE Linked(timerList', g.ev)
    BY <1>2, <2>1
  <2>2. CASE \E f \in Frames(stack') : InHand(f) /\ f.ev = g.ev
    <3>1. PICK f \in N \cup K : InHand(f) /\ f.ev = g.ev
      BY <1>1, <2>2
    <3> QED
      BY <1>1, <1>2, <3>1 DEF Timing
  <2> QED
    BY <1>2, <2>1, <2>2 DEF Timing
<1>3. ASSUME NEW g \in K, IsAt(g, "Close", "unlink")
      PROVE  \/ \E f \in Frames(stack') : IsAt(f, "SetTimer", "remove") /\ f.ev = g.ev
             \/ ~(Timing(g.ev)')
  <2>1. g \in Frames(stack) /\ g \in Activation /\ g.proc = "Close"
    BY <1>1, <1>3, TopFacts DEF Frames, IsAt
  <2>2. g.ev \in Event
    BY <2>1, ReadsEvent
  <2>3. \/ \E f \in Frames(stack) : IsAt(f, "SetTimer", "remove") /\ f.ev = g.ev
        \/ ~Timing(g.ev)
    BY <1>3, <2>1 DEF SafeInv, CancelsOK
  <2> QED
    BY <1>1, <1>2, <2>1, <2>2, <2>3 DEF IsAt
<1> QED
  BY <1>1, <1>3 DEF CancelsOK

\* The events after a step that frees none.
LEMMA KeepSignals ==
  ASSUME IndInv, SafeInv, NEW N, NEW K, Turns(N, K), KindsKept, signalList' = signalList,
         Top \in K \/ ~IsAt(Top, "Close", "free")
  PROVE  SignalsKnown'
<1>1. /\ Frames(stack') = N \cup K /\ K \subseteq Frames(stack)
      /\ \A f \in Frames(stack) : f = Top \/ f \in K \/ f.proc = "Wait"
  BY DEF Turns, Stacked
<1>2. ASSUME NEW e \in Event, event'[e].alive, "SIGNAL" \in event'[e].type
      PROVE  \/ Linked(signalList', e)
             \/ \E f \in Frames(stack') : IsAt(f, "Close", "free") /\ f.ev = e
  <2>1. \/ Linked(signalList, e)
        \/ \E f \in Frames(stack) : IsAt(f, "Close", "free") /\ f.ev = e
    BY <1>2 DEF SafeInv, SignalsKnown, KindsKept, Is
  <2> QED
    BY <1>1, <2>1 DEF IsAt
<1> QED
  BY <1>2 DEF SignalsKnown, Is

\* A signalled event whose signal is still taken care of.
Kept(N, e) ==
  \/ /\ event[e].count = 1
     /\ Linked(queue[event[e].ntpl], e) => Linked(queue'[event[e].ntpl], e)
  \/ Linked(queue'[event[e].ntpl], e)
  \/ \E f \in N : Carries(f, e)

\* The signals after a step.
LEMMA KeepLatched ==
  ASSUME IndInv, SafeInv, NEW N, NEW K, Turns(N, K), KindsKept, signalList' = signalList,
         \A e \in Event :
           event[e].alive /\ Is(e, "SIGNAL") /\ event'[e].count = 1 => Kept(N, e),
         \/ Top \in K
         \/ \A e \in Event : event[e].alive /\ Is(e, "SIGNAL") /\ Carries(Top, e) =>
              Linked(queue'[event[e].ntpl], e) \/ \E f \in N \cup K : Carries(f, e)
  PROVE  Latched'
<1>1. /\ Frames(stack') = N \cup K /\ K \subseteq Frames(stack)
      /\ \A f \in Frames(stack) : f = Top \/ f \in K \/ f.proc = "Wait"
  BY DEF Turns, Stacked
<1>2. \A f, e : Carries(f, e)' <=> Carries(f, e)
  BY DEF Carries
<1>3. ASSUME NEW e \in Event,
             event'[e].alive /\ "SIGNAL" \in event'[e].type /\ event'[e].count = 1
      PROVE  Linked(queue'[event'[e].ntpl], e) \/ \E f \in Frames(stack') : Carries(f, e)'
  <2>1. event[e].alive /\ Is(e, "SIGNAL") /\ event'[e].ntpl = event[e].ntpl
    BY <1>3 DEF KindsKept, Is
  <2>2. Kept(N, e)
    BY <1>3, <2>1
  <2>3. CASE \E f \in N : Carries(f, e)
    BY <1>1, <1>2, <2>3
  <2>4. CASE Linked(queue'[event[e].ntpl], e)
    BY <2>1, <2>4
  <2>5. CASE /\ event[e].count = 1
             /\ Linked(queue[event[e].ntpl], e) => Linked(queue'[event[e].ntpl], e)
    <3>1. Linked(queue[event[e].ntpl], e) \/ \E f \in Frames(stack) : Carries(f, e)
      BY <2>1, <2>5 DEF SafeInv, Latched
    <3>2. ASSUME NEW f \in Frames(stack), Carries(f, e)
          PROVE  Linked(queue'[event[e].ntpl], e) \/ \E h \in N \cup K : Carries(h, e)
      <4>1. f.proc # "Wait"
        BY <3>2 DEF Carries, IsAt
      <4> QED
        BY <1>1, <2>1, <3>2, <4>1
    <3>3. \/ Linked(queue'[event[e].ntpl], e)
          \/ \E h \in N \cup K : Carries(h, e)
      BY <2>5, <3>1, <3>2
    <3> QED
      BY <1>1, <1>2, <2>1, <3>3
  <2> QED
    BY <2>2, <2>3, <2>4, <2>5 DEF Kept
<1> QED
  BY <1>3 DEF Latched, Is

\* An activation that reads no event structure.
Plain(f) == ~Reads(f) /\ f.proc # "Wait"

LEMMA PlainSafe ==
  ASSUME NEW f, Plain(f)
  PROVE  FrameSafe(f) /\ FrameSafe(f)' /\ ~InHand(f) /\ f.proc # "Close"
BY DEF Plain, FrameSafe, Reads, InHand

\* An activation that may return without anything being lost.
Passes(f) ==
  /\ ~IsAt(f, "SetTimer", "remove") /\ ~IsAt(f, "Close", "free")
  /\ ~IsAt(f, "Signal", "group") /\ f.proc # "NotifyList"

\* A step that changes neither events nor lists.
LEMMA ListsUntouched ==
  ASSUME IndInv, SafeInv, NEW N, NEW K, Turns(N, K),
         UNCHANGED <<event, queue, signalList, timerList>>,
         \A f \in N : FrameSafe(f) /\ ~InHand(f),
         \A g \in N : IsAt(g, "Close", "unlink") =>
           \/ \E f \in N : IsAt(f, "SetTimer", "remove") /\ f.ev = g.ev
           \/ ~Timing(g.ev),
         \/ Top \in K
         \/ /\ ~IsAt(Top, "Close", "free")
            /\ IsAt(Top, "SetTimer", "remove") => ~Timing(Top.ev)
            /\ \A e \in Event : event[e].alive /\ Is(e, "SIGNAL") /\ Carries(Top, e) =>
                 Linked(queue[event[e].ntpl], e) \/ \E f \in N \cup K : Carries(f, e)
  PROVE  SafeInv'
<1>1. Adds({}, {}) /\ KindsKept
  BY DEF Adds, KindsKept
<1>2. ListsOK'
  BY DEF SafeInv, ListsOK, TimerListSorted, Is
<1>3. FramesSafe'
  <2>1. \A f : FrameSafe(f) => FrameSafe(f)'
    BY DEF FrameSafe, Is
  <2>2. \A f \in N : FrameSafe(f)'
    BY <2>1
  <2> DEFINE Q == {}
  <2>3. Adds(Q, Q)
    BY <1>1
  <2>4. \A f \in K : /\ IsAt(f, "Close", "free") => f.ev \notin Q \cup Q
                     /\ InHand(f) => f.ev \notin Q
    OBVIOUS
  <2> HIDE DEF Q
  <2> QED
    BY <2>2, <2>3, <2>4, KeepFrames
<1>4. CancelsOK'
  <2>1. \A e : Timing(e)' => Timing(e)
    BY DEF Timing, Turns, Stacked
  <2>2. \A e \in Event : Linked(timerList', e) => Timing(e)
    BY DEF Timing
  <2> QED
    BY <2>1, <2>2, KeepCancels
<1>5. SignalsKnown'
  BY <1>1, KeepSignals
<1>6. Latched'
  <2>1. \A e \in Event : event[e].alive /\ Is(e, "SIGNAL") /\ event'[e].count = 1 => Kept(N, e)
    BY DEF Kept
  <2> QED
    BY <1>1, <2>1, KeepLatched
<1> QED
  BY <1>2, <1>3, <1>4, <1>5, <1>6 DEF SafeInv, Turns, Stacked

LEMMA ControlStep ==
  ASSUME IndInv, SafeInv, NEW N, NEW K, Turns(N, K),
         UNCHANGED <<event, queue, signalList, timerList>>,
         \A f \in N : FrameSafe(f) /\ ~InHand(f) /\ ~IsAt(f, "Close", "unlink"),
         Top \in K \/ Passes(Top)
  PROVE  SafeInv'
<1>1. Passes(Top) => \A e \in Event : ~Carries(Top, e)
  BY DEF Passes, Carries
<1> QED
  BY <1>1, ListsUntouched DEF Passes

-----------------------------------------------------------------------------
(***************************************************************************)
(* The activations the actions build.                                      *)
(***************************************************************************)
LEMMA Further ==
  ASSUME IndInv, SafeInv, NEW pc \in Pcs \ {"notify", "dispatch"}, NEW f, f = [Top EXCEPT !.pc = pc]
  PROVE  /\ f \in Activation /\ f.pc = pc /\ f.proc = Top.proc /\ f.level = Top.level
         /\ f.ev = Top.ev /\ f.arg = Top.arg /\ f.mode = Top.mode
         /\ \A g \in Frames(Callers) : PairOK(f, g)
<1>1. /\ f \in Activation /\ f.pc = pc /\ f.proc = Top.proc /\ f.level = Top.level
      /\ f.ev = Top.ev /\ f.arg = Top.arg
  BY ContinueFrame
<1>2. f.mode = Top.mode
  BY TopFacts DEF FrameRecord
<1> QED
  BY <1>1, <1>2, SafeTop, PairLike

\* CoreRestoreTpl between the test of its loop and the dispatch, and back at
\* the test.
LEMMA TestedFrame ==
  ASSUME IndInv, Top.proc = "RestoreTpl", Unmasked(Top.level) # {},
         NEW f, f = [Top EXCEPT !.pc = "dispatch", !.arg = HighBitSet64(pending)]
  PROVE  f \in Activation /\ f.proc = "RestoreTpl" /\ f.ev = Top.ev /\ f.mode = Top.mode
<1>1. HighBitSet64(pending) \in NotifyTpls
  <2>1. PICK q \in pending : q > Top.level
    BY DEF Unmasked
  <2>2. pending \in SUBSET QueueLevels
    BY DEF IndInv, DataOK
  <2> QED
    BY <2>1, <2>2, HighBit, TopFacts
<1> DEFINE h == HighBitSet64(pending)
<1>2. h \in NotifyTpls /\ h \in Nat /\ "dispatch" \in Pcs
  BY <1>1, TplNumbers DEF Pcs
<1>3. f = [Top EXCEPT !.pc = "dispatch", !.arg = h] /\ Top \in FrameRecord
  BY TopFacts
<1> HIDE DEF h
<1>4. /\ f \in FrameRecord /\ f.proc = "RestoreTpl" /\ f.pc = "dispatch" /\ f.ev = Top.ev
      /\ f.mode = Top.mode /\ f.arg = h
  BY <1>2, <1>3 DEF FrameRecord
<1> QED
  BY <1>2, <1>4 DEF Activation, FrameOK

LEMMA LoopFrame ==
  ASSUME IndInv, Top.proc = "RestoreTpl", NEW f, f = [Top EXCEPT !.pc = "while", !.arg = 0]
  PROVE  f \in Activation /\ f.proc = "RestoreTpl" /\ f.ev = Top.ev /\ f.mode = Top.mode
<1>1. /\ f \in FrameRecord /\ f.proc = "RestoreTpl" /\ f.pc = "while" /\ f.ev = Top.ev
      /\ f.mode = Top.mode
  BY TopFacts DEF FrameRecord, Pcs
<1> QED
  BY <1>1 DEF Activation, FrameOK

LEMMA BuiltFrames ==
  ASSUME NEW e
  PROVE  /\ Signal(e).proc = "Signal" /\ Signal(e).pc = "start" /\ Signal(e).ev = e
         /\ Check(e).proc = "CheckEvent" /\ Check(e).pc = "start" /\ Check(e).ev = e
         /\ Close(e).proc = "Close" /\ Close(e).pc = "start" /\ Close(e).ev = e
         /\ Close(e).level = tpl
         /\ Task(e).proc = "Task" /\ Task(e).pc = "run" /\ Task(e).ev = e
         /\ NotifyList(e).proc = "NotifyList" /\ NotifyList(e).ev = e /\ NotifyList(e).arg = 1
         /\ NotifyList(e).pc = "walk"
         /\ CheckTimers.proc = "CheckTimers" /\ CheckTimers.pc = "lock"
         /\ CheckTimers.ev = CheckTimerEvent
         /\ Isr.proc = "Isr" /\ Isr.ev = NoEvent
         /\ Wait.proc = "Wait" /\ Wait.pc = "check" /\ Wait.ev = NoEvent
         /\ \A mode, d : /\ SetTimer(e, mode, d).proc = "SetTimer"
                         /\ SetTimer(e, mode, d).pc = "remove"
                         /\ SetTimer(e, mode, d).ev = e /\ SetTimer(e, mode, d).mode = mode
BY DEF Signal, Check, Close, Task, NotifyList, CheckTimers, Isr, Wait, SetTimer, Frame

\* The release of gEventQueueLock, on top of the activations s.
LEMMA OnRestore ==
  ASSUME NEW t \in Tpls, NEW s, NEW G, Stacked(s, G), Lower(G), NEW r, r = RestoreTo(t)
  PROVE  Stacked(<<r>> \o s, {r} \cup G) /\ Plain(r) /\ Passes(r) /\ r \in Activation
<1>1. /\ r \in Activation /\ r.proc = "RestoreTpl" /\ r.ev = NoEvent
  BY DEF RestoreTo, Frame, Activation, FrameRecord, FrameOK, Procs, Pcs
<1>2. Plain(r) /\ Passes(r)
  BY <1>1 DEF Plain, Reads, Passes, IsAt
<1>3. \A g \in G : PairOK(r, g)
  BY <1>1, Fixed, PairNeutral
<1> QED
  BY <1>1, <1>2, <1>3, PushStacked

\* A step in a section under gEventQueueLock, that goes on with s.
LEMMA SectionTurns ==
  ASSUME IndInv, SafeInv, NEW N, NEW s, NEW r, r = RestoreTo(tpl), EventLockSection(s),
         Stacked(s, N \cup Frames(Callers)), Lower(N)
  PROVE  Turns({r} \cup N, Frames(Callers)) /\ Plain(r) /\ Passes(r)
<1>1. Lower(N \cup Frames(Callers))
  BY SafeTop DEF Lower
<1>2. stack' = <<r>> \o s
  BY DEF EventLockSection
<1>3. Stacked(stack', {r} \cup (N \cup Frames(Callers))) /\ Plain(r) /\ Passes(r)
  BY <1>1, <1>2, OnRestore, TopFacts
<1> QED
  BY <1>3, SafeTop DEF Turns

\* The running activation goes on as f.
LEMMA GoesOnTurns ==
  ASSUME IndInv, SafeInv, NEW f \in Activation, stack' = <<f>> \o Callers,
         \A g \in Frames(Callers) : PairOK(f, g)
  PROVE  Turns({f}, Frames(Callers))
BY SafeTop, PushStacked DEF Turns

\* The running activation returns.
LEMMA ReturnTurns ==
  ASSUME IndInv, SafeInv, stack' = Callers
  PROVE  Turns({}, Frames(Callers))
<1>1. {} \cup Frames(Callers) = Frames(Callers)
  OBVIOUS
<1> QED
  BY <1>1, SafeTop DEF Turns

\* The running activation goes on as f when the h it calls returns.
LEMMA CallTurns ==
  ASSUME IndInv, SafeInv, NEW f \in Activation, NEW h \in Activation,
         stack' = <<h, f>> \o Callers,
         \A g \in Frames(Callers) : PairOK(f, g) /\ PairOK(h, g), PairOK(h, f)
  PROVE  Turns({h, f}, Frames(Callers))
<1> DEFINE C == Frames(Callers)
<1>1. stack' = <<h>> \o (<<f>> \o Callers)
  BY TopFacts, TwoSeq
<1>2. Stacked(<<f>> \o Callers, {f} \cup C)
  BY SafeTop, PushStacked
<1>3. Stacked(stack', {h} \cup ({f} \cup C))
  <2> DEFINE s == <<f>> \o Callers
             G == {f} \cup C
  <2>1. Stacked(s, G) /\ stack' = <<h>> \o s /\ \A g \in G : PairOK(h, g)
    BY <1>1, <1>2
  <2> HIDE DEF s, G
  <2>2. Stacked(<<h>> \o s, {h} \cup G)
    BY <2>1, PushStacked
  <2> QED
    BY <2>1, <2>2 DEF G
<1>4. {h} \cup ({f} \cup C) = {h, f} \cup C
  OBVIOUS
<1> QED
  BY <1>3, <1>4, SafeTop DEF Turns

\* The running activation calls h, and has still everything to do.
LEMMA InvokeTurns ==
  ASSUME IndInv, SafeInv, NEW h \in Activation, stack' = <<h>> \o stack,
         \A g \in Frames(stack) : PairOK(h, g)
  PROVE  Turns({h}, Frames(stack)) /\ Top \in Frames(stack)
BY SafeTop, PushStacked DEF Turns

\* Above an activation that neither walks a list nor closes an event.
LEMMA PairFree ==
  ASSUME NEW h, NEW f, h.proc # "Close", f.proc \notin {"NotifyList", "Close"}
  PROVE  PairOK(h, f)
BY DEF PairOK

-----------------------------------------------------------------------------
(***************************************************************************)
(* CoreRestoreTpl and CoreDispatchEventNotifies.                           *)
(***************************************************************************)
LEMMA RestoreTplTestSafe ==
  ASSUME IndInv, SafeInv, RestoreTplTest
  PROVE  SafeInv'
<1>1. /\ Top.proc = "RestoreTpl" /\ Unmasked(Top.level) # {}
      /\ UNCHANGED <<event, queue, signalList, timerList>>
  BY DEF RestoreTplTest, At
<1>2. PICK f : f = [Top EXCEPT !.pc = "dispatch", !.arg = HighBitSet64(pending)]
  OBVIOUS
<1>3. stack' = <<f>> \o Callers
  BY <1>2 DEF RestoreTplTest
<1>4. f \in Activation /\ f.proc = "RestoreTpl" /\ f.ev = Top.ev /\ f.mode = Top.mode
  BY <1>1, <1>2, TestedFrame
<1>5. \A g \in Frames(Callers) : PairOK(f, g)
  BY <1>1, <1>4, SafeTop, PairLike
<1>6. Turns({f}, Frames(Callers))
  BY <1>3, <1>4, <1>5, GoesOnTurns
<1>7. Plain(f) /\ Passes(Top)
  BY <1>1, <1>4 DEF Plain, Reads, Passes, IsAt
<1> QED
  BY <1>1, <1>6, <1>7, PlainSafe, ControlStep DEF IsAt

LEMMA RestoreTplDispatchSafe ==
  ASSUME IndInv, SafeInv, RestoreTplDispatch
  PROVE  SafeInv'
<1>1. PICK f : f = [Top EXCEPT !.pc = "while", !.arg = 0]
  OBVIOUS
<1>2. PICK h : h = DispatchAt(Top.arg)
  OBVIOUS
<1>3. /\ Top.proc = "RestoreTpl" /\ stack' = <<h, f>> \o Callers
      /\ UNCHANGED <<event, queue, signalList, timerList>>
  BY <1>1, <1>2 DEF RestoreTplDispatch, At, IndInv
<1>4. Top.arg \in NotifyTpls
  BY TopFacts DEF RestoreTplDispatch, At, FrameOK
<1>5. h \in Activation /\ h.proc = "Dispatch" /\ h.pc = "lock" /\ h.ev = NoEvent
  BY <1>2, <1>4, TplNumbers DEF DispatchAt, Frame, Activation, FrameRecord, FrameOK, Procs, Pcs
<1>6. /\ f \in Activation /\ f.proc = "RestoreTpl"
      /\ \A g \in Frames(Callers) : PairOK(f, g)
  <2>1. f \in Activation /\ f.proc = "RestoreTpl" /\ f.ev = Top.ev /\ f.mode = Top.mode
    BY <1>1, <1>3, LoopFrame
  <2> QED
    BY <1>3, <2>1, SafeTop, PairLike
<1>7. \A g \in Frames(Callers) : PairOK(h, g)
  BY <1>5, SafeTop, PairNeutral, Fixed
<1>8. Turns({h, f}, Frames(Callers))
  BY <1>3, <1>5, <1>6, <1>7, PairFree, CallTurns
<1>9. Plain(h) /\ Plain(f) /\ Passes(Top)
  BY <1>3, <1>5, <1>6 DEF Plain, Reads, Passes, IsAt
<1> QED
  BY <1>3, <1>8, <1>9, PlainSafe, ControlStep DEF IsAt

LEMMA RestoreTplLoopEndSafe ==
  ASSUME IndInv, SafeInv, RestoreTplLoopEnd
  PROVE  SafeInv'
<1>1. /\ Top.proc = "RestoreTpl" /\ stack' = Continue("set")
      /\ UNCHANGED <<event, queue, signalList, timerList>>
  BY DEF RestoreTplLoopEnd, At
<1>2. PICK f : f = [Top EXCEPT !.pc = "set"]
  OBVIOUS
<1>3. /\ f \in Activation /\ f.proc = "RestoreTpl"
      /\ \A g \in Frames(Callers) : PairOK(f, g)
  BY <1>1, <1>2, Further DEF Pcs
<1>4. Turns({f}, Frames(Callers))
  BY <1>1, <1>2, <1>3, GoesOnTurns DEF Continue
<1>5. Plain(f) /\ Passes(Top)
  BY <1>1, <1>3 DEF Plain, Reads, Passes, IsAt
<1> QED
  BY <1>1, <1>4, <1>5, PlainSafe, ControlStep DEF IsAt

\* An activation returns that sees to nothing.
LEMMA ReturnSafe ==
  ASSUME IndInv, SafeInv, stack' = Callers, Passes(Top),
         UNCHANGED <<event, queue, signalList, timerList>>
  PROVE  SafeInv'
<1>1. Turns({}, Frames(Callers))
  BY ReturnTurns
<1> QED
  BY <1>1, ControlStep

LEMMA RestoreTplSetSafe ==
  ASSUME IndInv, SafeInv, RestoreTplSet
  PROVE  SafeInv'
BY ReturnSafe DEF RestoreTplSet, At, Passes, IsAt

LEMMA DispatchNotifySafe ==
  ASSUME IndInv, SafeInv, DispatchNotify
  PROVE  SafeInv'
<1>1. /\ At("Dispatch", "notify") /\ Top.proc = "Dispatch" /\ Top.pc = "notify"
      /\ UNCHANGED <<event, queue, signalList, timerList>>
  BY DEF DispatchNotify, At
<1>2. PICK h : h = IF Top.ev = CheckTimerEvent THEN CheckTimers ELSE Task(Top.ev)
  OBVIOUS
<1>3. PICK f : f = [Top EXCEPT !.pc = "lock", !.ev = NoEvent]
  OBVIOUS
<1>4. stack' = <<h, f>> \o Callers
  BY <1>2, <1>3 DEF DispatchNotify
<1>5. Top.ev \in Event
  BY <1>1, TopFacts DEF FrameOK
<1>6. /\ h \in Activation /\ h.ev = Top.ev
      /\ (h.proc = "Task" \/ IsAt(h, "CheckTimers", "lock"))
  BY <1>2, <1>5, TopFacts, ServiceFrames, BuiltFrames DEF IsAt
<1>7. f \in Activation /\ f.proc = "Dispatch" /\ f.pc = "lock" /\ f.ev = NoEvent
  <2>1. f \in FrameRecord /\ f.proc = "Dispatch" /\ f.pc = "lock" /\ f.ev = NoEvent
        /\ f.level = Top.level
    BY <1>1, <1>3, TopFacts DEF FrameRecord, Pcs
  <2>2. FrameOK(f)
    BY <1>1, <2>1, TopFacts DEF FrameOK
  <2> QED
    BY <2>1, <2>2 DEF Activation
<1>8. \A g \in Frames(Callers) : PairOK(f, g) /\ PairOK(h, g)
  <2>1. \A g \in Frames(Callers) : PairOK(f, g)
    BY <1>7, SafeTop, PairNeutral, Fixed
  <2>2. \A g \in Frames(Callers) : PairOK(h, g)
    BY <1>1, <1>6, SafeTop DEF PairOK, IsAt
  <2> QED
    BY <2>1, <2>2
<1>9. PairOK(h, f)
  BY <1>6, <1>7, PairFree DEF IsAt
<1>10. Turns({h, f}, Frames(Callers))
  BY <1>4, <1>6, <1>7, <1>8, <1>9, CallTurns
<1>11. Plain(h) /\ Plain(f) /\ Passes(Top)
  BY <1>1, <1>6, <1>7 DEF Plain, Reads, Passes, IsAt
<1> QED
  BY <1>1, <1>10, <1>11, PlainSafe, ControlStep DEF IsAt

\* A section under gEventQueueLock that does nothing to events or lists.
LEMMA ReleaseSafe ==
  ASSUME IndInv, SafeInv, EventLockSection(Callers), Passes(Top),
         UNCHANGED <<event, queue, signalList, timerList>>
  PROVE  SafeInv'
<1>1. PICK r : r = RestoreTo(tpl)
  OBVIOUS
<1> DEFINE N == {}
<1>2. Stacked(Callers, N \cup Frames(Callers)) /\ Lower(N)
  <2>1. N \cup Frames(Callers) = Frames(Callers)
    OBVIOUS
  <2> QED
    BY <2>1, SafeTop DEF Lower
<1>3. Turns({r} \cup N, Frames(Callers)) /\ Plain(r)
  <2> HIDE DEF N
  <2> QED
    BY <1>1, <1>2, SectionTurns
<1>4. Turns({r}, Frames(Callers))
  <2>1. {r} \cup N = {r}
    OBVIOUS
  <2> QED
    BY <1>3, <2>1
<1> QED
  BY <1>3, <1>4, PlainSafe, ControlStep DEF IsAt

LEMMA DispatchDoneSafe ==
  ASSUME IndInv, SafeInv, DispatchDone
  PROVE  SafeInv'
BY ReleaseSafe DEF DispatchDone, At, Passes, IsAt

LEMMA SignalEndSafe ==
  ASSUME IndInv, SafeInv, SignalEnd
  PROVE  SafeInv'
BY ReleaseSafe DEF SignalEnd, At, Passes, IsAt

LEMMA IsrReturnSafe ==
  ASSUME IndInv, SafeInv, IsrReturn
  PROVE  SafeInv'
BY ReturnSafe DEF IsrReturn, At, Passes, IsAt

LEMMA TaskReturnSafe ==
  ASSUME IndInv, SafeInv, TaskReturn
  PROVE  SafeInv'
BY ReturnSafe DEF TaskReturn, At, Passes, IsAt

LEMMA WaitForEventReturnSafe ==
  ASSUME IndInv, SafeInv, WaitForEventReturn
  PROVE  SafeInv'
BY ReturnSafe DEF WaitForEventReturn, At, Passes, IsAt

\* Only allocated events with a timer are on the timers' list or in hand.
LEMMA TimingTimer ==
  ASSUME IndInv, SafeInv, NEW e \in Event, Timing(e)
  PROVE  event[e].alive /\ Is(e, "TIMER")
<1>1. CASE Linked(timerList, e)
  BY <1>1 DEF SafeInv, ListsOK
<1>2. CASE \E f \in Frames(stack) : InHand(f) /\ f.ev = e
  <2>1. PICK f \in Frames(stack) : InHand(f) /\ f.ev = e
    BY <1>2
  <2>2. f \in Activation /\ FrameSafe(f)
    BY TopFacts DEF Frames, SafeInv, FramesSafe
  <2> QED
    BY <2>1, <2>2, ReadsEvent DEF FrameSafe
<1> QED
  BY <1>1, <1>2 DEF Timing

\* A linked entry has a position.
LEMMA Position ==
  ASSUME NEW list, NEW e, Linked(list, e)
  PROVE  PositionOf(list, e) \in 1..Len(list) /\ list[PositionOf(list, e)] = e
BY DEF Linked, PositionOf

\* An allocated NOTIFY_SIGNAL event that is on no list is about to be freed,
\* by an activation below the running one.
LEMMA UnknownSignal ==
  ASSUME IndInv, SafeInv, NEW e \in Event, event[e].alive, Is(e, "SIGNAL"),
         ~Linked(signalList, e), ~IsAt(Top, "Close", "free")
  PROVE  \E g \in Frames(Callers) : Carries(g, e)
<1>1. PICK g \in Frames(stack) : IsAt(g, "Close", "free") /\ g.ev = e
  BY DEF SafeInv, SignalsKnown
<1>2. g \in Frames(Callers)
  BY <1>1, SafeTop
<1> QED
  BY <1>1, <1>2 DEF Carries

-----------------------------------------------------------------------------
(***************************************************************************)
(* CoreSignalEvent and CoreNotifySignalList.                               *)
(***************************************************************************)
LEMMA SignalGroupSafe ==
  ASSUME IndInv, SafeInv, SignalGroup
  PROVE  SafeInv'
<1> DEFINE C == Frames(Callers)
<1>1. /\ Top.proc = "Signal" /\ Top.pc = "group"
      /\ stack' = <<NotifyList(Top.ev), RestoreTo(tpl)>> \o Continue("end")
      /\ UNCHANGED <<event, queue, signalList, timerList>>
  BY DEF SignalGroup, At
<1>2. PICK f : f = [Top EXCEPT !.pc = "end"]
  OBVIOUS
<1>3. PICK r : r = RestoreTo(tpl)
  OBVIOUS
<1>4. PICK n : n = NotifyList(Top.ev)
  OBVIOUS
<1>5. Top.ev \in Event
  BY <1>1, TopFacts DEF FrameOK
<1>6. /\ f \in Activation /\ f.proc = "Signal" /\ f.pc = "end"
      /\ \A g \in C : PairOK(f, g)
  BY <1>1, <1>2, Further DEF Pcs
<1>7. /\ n \in Activation /\ n.proc = "NotifyList" /\ n.ev = Top.ev /\ n.arg = 1
  BY <1>4, <1>5, TopFacts, ServiceFrames, BuiltFrames
<1>8. Stacked(<<f>> \o Callers, {f} \cup C) /\ Lower({f} \cup C)
  BY <1>6, SafeTop, PushStacked DEF Lower
<1>9. Stacked(<<r>> \o (<<f>> \o Callers), {r} \cup ({f} \cup C)) /\ Plain(r) /\ r \in Activation
      /\ r.proc = "RestoreTpl"
  <2>1. r.proc = "RestoreTpl"
    BY <1>3 DEF RestoreTo, Frame
  <2> QED
    BY <1>3, <1>8, <2>1, OnRestore, TopFacts
<1>10. \A g \in {r} \cup ({f} \cup C) : PairOK(n, g)
  <2>1. \A g \in C : PairOK(n, g)
    BY <1>1, <1>7, SafeTop DEF PairOK
  <2>2. PairOK(n, r) /\ PairOK(n, f)
    BY <1>6, <1>7, <1>9, PairFree
  <2> QED
    BY <2>1, <2>2
<1>11. stack' = <<n>> \o (<<r>> \o (<<f>> \o Callers))
  <2>1. <<f>> \o Callers \in Seq(Activation)
    BY <1>8 DEF Stacked
  <2> QED
    BY <1>1, <1>2, <1>3, <1>4, <1>7, <1>9, <2>1, TwoSeq DEF Continue
<1>12. Turns({n, r, f}, C)
  <2> DEFINE s == <<r>> \o (<<f>> \o Callers)
             G == {r} \cup ({f} \cup C)
  <2>1. Stacked(s, G) /\ stack' = <<n>> \o s /\ \A g \in G : PairOK(n, g)
    BY <1>9, <1>10, <1>11
  <2> HIDE DEF s, G
  <2>2. Stacked(<<n>> \o s, {n} \cup G)
    BY <1>7, <2>1, PushStacked
  <2>3. {n} \cup G = {n, r, f} \cup C
    BY DEF G
  <2> QED
    BY <2>1, <2>2, <2>3, SafeTop DEF Turns
<1>13. FrameSafe(n) /\ ~InHand(n) /\ n.proc # "Close" /\ Plain(f)
  <2>1. event[Top.ev].alive
    BY <1>1, SafeTop DEF FrameSafe, Reads
  <2> QED
    BY <1>6, <1>7, <2>1 DEF FrameSafe, InHand, Plain, Reads
<1>14. ASSUME NEW e \in Event, event[e].alive, Is(e, "SIGNAL"), Carries(Top, e)
       PROVE  \E g \in {n, r, f} \cup C : Carries(g, e)
  <2>1. Top.ev = e
    BY <1>14 DEF Carries
  <2>2. CASE Linked(signalList, e)
    <3>1. 1 <= PositionOf(signalList, e)
      BY <2>2, Position
    <3> QED
      BY <1>7, <2>1, <3>1 DEF Carries
  <2>3. CASE ~Linked(signalList, e)
    BY <1>1, <1>14, <2>3, UnknownSignal DEF IsAt
  <2> QED
    BY <2>2, <2>3
<1>15. \A g \in {n, r, f} : FrameSafe(g) /\ ~InHand(g) /\ ~IsAt(g, "Close", "unlink")
  BY <1>9, <1>13, PlainSafe DEF IsAt
<1>16. ~IsAt(Top, "Close", "free") /\ ~IsAt(Top, "SetTimer", "remove")
  BY <1>1 DEF IsAt
<1> DEFINE N == {n, r, f}
<1>17. /\ Turns(N, C)
       /\ \A g \in N : FrameSafe(g) /\ ~InHand(g) /\ ~IsAt(g, "Close", "unlink")
       /\ \A e \in Event : event[e].alive /\ Is(e, "SIGNAL") /\ Carries(Top, e) =>
            \E g \in N \cup C : Carries(g, e)
  BY <1>12, <1>14, <1>15
<1> HIDE DEF N, C
<1> QED
  BY <1>1, <1>16, <1>17, ListsUntouched

LEMMA NotifyListEndSafe ==
  ASSUME IndInv, SafeInv, NotifyListEnd
  PROVE  SafeInv'
<1> DEFINE C == Frames(Callers)
<1>1. /\ Top.proc = "NotifyList" /\ Top.arg > Len(signalList) /\ Top.arg \in Nat
      /\ stack' = Callers
      /\ UNCHANGED <<event, queue, signalList, timerList>>
  BY TopFacts DEF NotifyListEnd, At, FrameRecord
<1>2. Turns({}, C)
  BY <1>1, ReturnTurns
<1>3. ASSUME NEW e \in Event, event[e].alive, Is(e, "SIGNAL"), Carries(Top, e)
      PROVE  \E g \in {} \cup C : Carries(g, e)
  <2>1. Top.arg <= PositionOf(signalList, e)
    BY <1>1, <1>3 DEF Carries, IsAt
  <2>2. ~Linked(signalList, e)
    <3>1. signalList \in Seq(Event)
      BY DEF IndInv, DataOK
    <3>2. Len(signalList) \in Nat
      BY <3>1
    <3> QED
      BY <1>1, <2>1, <3>2, Position
  <2> QED
    BY <1>1, <1>3, <2>2, UnknownSignal DEF IsAt
<1> QED
  BY <1>1, <1>2, <1>3, ListsUntouched DEF IsAt

-----------------------------------------------------------------------------
(***************************************************************************)
(* CoreWaitForEvent.                                                       *)
(***************************************************************************)
LEMMA WaitForEventCheckSafe ==
  ASSUME IndInv, SafeInv, WaitForEventCheck
  PROVE  SafeInv'
<1> DEFINE C == Frames(Callers)
<1>1. /\ Top.proc = "Wait"
      /\ stack' = Call(Check(WaitList[Top.arg]), "check")
      /\ UNCHANGED <<event, queue, signalList, timerList>>
  BY DEF WaitForEventCheck, At
<1>2. PICK f : f = [Top EXCEPT !.pc = "check"]
  OBVIOUS
<1>3. PICK h : h = Check(WaitList[Top.arg])
  OBVIOUS
<1>4. Top.arg \in 1..Len(WaitList) /\ WaitList[Top.arg] \in Event
  BY <1>1, TopFacts, WaitListEvents DEF FrameOK
<1>5. \A i \in 1..Len(WaitList) : event[WaitList[i]].alive
  BY <1>1, SafeTop DEF FrameSafe
<1>6. f \in Activation /\ f.proc = "Wait" /\ \A g \in C : PairOK(f, g)
  BY <1>1, <1>2, Further DEF Pcs
<1>7. h \in Activation /\ h.proc = "CheckEvent" /\ h.ev = WaitList[Top.arg]
  BY <1>3, <1>4, TopFacts, ServiceFrames, BuiltFrames
<1>8. \A g \in C : PairOK(h, g)
  BY <1>1, <1>7, SafeTop DEF PairOK
<1>9. Turns({h, f}, C)
  BY <1>1, <1>2, <1>3, <1>6, <1>7, <1>8, PairFree, CallTurns DEF Call
<1>10. \A x \in {h, f} : FrameSafe(x) /\ ~InHand(x) /\ ~IsAt(x, "Close", "unlink")
  BY <1>4, <1>5, <1>6, <1>7 DEF FrameSafe, InHand, IsAt, Reads
<1> QED
  BY <1>1, <1>9, <1>10, ControlStep DEF Passes, IsAt

LEMMA WaitForEventNextSafe ==
  ASSUME IndInv, SafeInv, WaitForEventNext
  PROVE  SafeInv'
<1> DEFINE C == Frames(Callers)
<1>1. /\ Top.proc = "Wait" /\ Passes(Top)
      /\ UNCHANGED <<event, queue, signalList, timerList>>
  BY DEF WaitForEventNext, At, Passes, IsAt
<1>2. Top.arg \in 1..Len(WaitList) /\ Len(WaitList) \in Nat
  BY <1>1, TopFacts, ConstantsAssumption DEF FrameOK
<1>3. \A i \in 1..Len(WaitList) : event[WaitList[i]].alive
  BY <1>1, SafeTop DEF FrameSafe
<1>4. ASSUME NEW a \in 1..Len(WaitList), NEW f, f = [Top EXCEPT !.pc = "check", !.arg = a]
      PROVE  /\ f \in Activation /\ f.proc = "Wait" /\ FrameSafe(f)
             /\ \A g \in C : PairOK(f, g)
  <2>1. /\ f \in FrameRecord /\ f.proc = "Wait" /\ f.ev = Top.ev /\ f.mode = Top.mode
        /\ f.arg = a
    <3>1. a \in Nat
      BY <1>2
    <3> QED
      BY <1>1, <1>4, <3>1, TopFacts DEF FrameRecord, Pcs
  <2>2. f \in Activation
    BY <2>1 DEF Activation, FrameOK
  <2>3. FrameSafe(f)
    BY <1>3, <2>1 DEF FrameSafe, Reads, InHand
  <2> QED
    BY <1>1, <2>1, <2>2, <2>3, SafeTop, PairLike
<1>5. CASE Top.arg < Len(WaitList)
  <2>1. PICK a : a = Top.arg + 1
    OBVIOUS
  <2>2. PICK f : f = [Top EXCEPT !.pc = "check", !.arg = a]
    OBVIOUS
  <2>3. stack' = <<f>> \o Callers /\ a \in 1..Len(WaitList)
    BY <1>2, <1>5, <2>1, <2>2 DEF WaitForEventNext
  <2>4. Turns({f}, C)
    BY <1>4, <2>2, <2>3, GoesOnTurns
  <2>5. \A x \in {f} : FrameSafe(x) /\ ~InHand(x) /\ ~IsAt(x, "Close", "unlink")
    BY <1>4, <2>2, <2>3 DEF InHand, IsAt
  <2> QED
    BY <1>1, <2>4, <2>5, ControlStep
<1>6. CASE ~(Top.arg < Len(WaitList))
  <2>1. PICK h : h = Signal(IdleLoopEvent)
    OBVIOUS
  <2>2. PICK f : f = [Top EXCEPT !.pc = "check", !.arg = 1]
    OBVIOUS
  <2>3. stack' = <<h, f>> \o Callers /\ 1 \in 1..Len(WaitList)
    BY <1>2, <1>6, <2>1, <2>2 DEF WaitForEventNext
  <2>4. h \in Activation /\ h.proc = "Signal" /\ h.ev = IdleLoopEvent
    BY <2>1, TopFacts, Fixed, ServiceFrames, BuiltFrames
  <2>5. \A g \in C : PairOK(f, g) /\ PairOK(h, g)
    BY <1>4, <2>2, <2>3, <2>4, SafeTop, Fixed, PairNeutral
  <2>6. Turns({h, f}, C)
    BY <1>4, <2>2, <2>3, <2>4, <2>5, PairFree, CallTurns
  <2>7. FrameSafe(h) /\ ~InHand(h)
    BY <2>4 DEF FrameSafe, InHand, SafeInv, ListsOK
  <2>8. \A x \in {h, f} : FrameSafe(x) /\ ~InHand(x) /\ ~IsAt(x, "Close", "unlink")
    BY <1>4, <2>2, <2>3, <2>4, <2>7 DEF InHand, IsAt
  <2> QED
    BY <1>1, <2>6, <2>8, ControlStep
<1> QED
  BY <1>5, <1>6

-----------------------------------------------------------------------------
(***************************************************************************)
(* CoreCloseEvent before its section, and the releases of mEfiTimerLock.   *)
(***************************************************************************)
LEMMA CloseEventCancelSafe ==
  ASSUME IndInv, SafeInv, CloseEventCancel
  PROVE  SafeInv'
<1> DEFINE C == Frames(Callers)
<1>1. /\ Top.proc = "Close" /\ Top.pc = "start" /\ Passes(Top)
      /\ UNCHANGED <<event, queue, signalList, timerList>>
  BY DEF CloseEventCancel, At, Passes, IsAt
<1>2. PICK f : f = [Top EXCEPT !.pc = "unlink"]
  OBVIOUS
<1>3. PICK h : h = SetTimer(Top.ev, "cancel", 0)
  OBVIOUS
<1>4. Top.ev \in Event /\ event[Top.ev].alive
  BY <1>1, TopFacts, SafeTop DEF FrameOK, FrameSafe, Reads
<1>5. /\ f \in Activation /\ f.proc = "Close" /\ f.pc = "unlink" /\ f.ev = Top.ev
      /\ f.level = Top.level /\ \A g \in C : PairOK(f, g)
  BY <1>1, <1>2, Further DEF Pcs
<1>6. /\ h \in Activation /\ h.proc = "SetTimer" /\ h.pc = "remove" /\ h.ev = Top.ev
      /\ h.mode = "cancel"
  BY <1>3, <1>4, TopFacts, ServiceFrames, BuiltFrames
<1>7. FrameSafe(f) /\ FrameSafe(h) /\ ~InHand(f) /\ ~InHand(h)
  <2>1. FrameSafe(Top)
    BY SafeTop
  <2>2. FrameSafe(f)
    BY <1>1, <1>4, <1>5, <2>1 DEF FrameSafe, InHand
  <2>3. FrameSafe(h)
    BY <1>4, <1>6 DEF FrameSafe, InHand
  <2> QED
    BY <1>5, <1>6, <2>2, <2>3 DEF InHand
<1>8. \A e \in Event : ~Carries(Top, e)
  BY <1>1 DEF Carries, IsAt
<1>9. CASE Is(Top.ev, "TIMER")
  <2>1. stack' = <<h, f>> \o Callers
    BY <1>2, <1>3, <1>9 DEF CloseEventCancel, Call
  <2>2. \A g \in C : PairOK(h, g)
    <3> SUFFICES ASSUME NEW g \in C PROVE PairOK(h, g)
      OBVIOUS
    <3>1. PairOK(Top, g)
      BY SafeTop
    <3>2. g.proc = "Close" => g.ev # Top.ev
      BY <1>1, <3>1 DEF PairOK, Uses, Reads
    <3> QED
      BY <1>1, <1>6, <3>1, <3>2 DEF PairOK
  <2>3. PairOK(h, f)
    BY <1>5, <1>6 DEF PairOK
  <2> DEFINE N == {h, f}
  <2>4. /\ Turns(N, C)
        /\ \A g \in N : FrameSafe(g) /\ ~InHand(g)
        /\ \A g \in N : IsAt(g, "Close", "unlink") =>
             \E x \in N : IsAt(x, "SetTimer", "remove") /\ x.ev = g.ev
    BY <1>5, <1>6, <1>7, <2>1, <2>2, <2>3, CallTurns DEF IsAt
  <2> HIDE DEF N, C
  <2> QED
    BY <1>1, <1>8, <2>4, ListsUntouched DEF Passes
<1>10. CASE ~Is(Top.ev, "TIMER")
  <2>1. stack' = <<f>> \o Callers
    BY <1>2, <1>10 DEF CloseEventCancel, Continue
  <2>2. ~Timing(f.ev)
    BY <1>4, <1>5, <1>10, TimingTimer
  <2> DEFINE N == {f}
  <2>3. /\ Turns(N, C)
        /\ \A g \in N : FrameSafe(g) /\ ~InHand(g)
        /\ \A g \in N : ~Timing(g.ev)
    BY <1>5, <1>7, <2>1, <2>2, GoesOnTurns
  <2> HIDE DEF N, C
  <2> QED
    BY <1>1, <1>8, <2>3, ListsUntouched DEF Passes
<1> QED
  BY <1>9, <1>10

LEMMA ReleaseTimersSafe ==
  ASSUME IndInv, SafeInv, Holds(Top), ~IsAt(Top, "SetTimer", "remove"),
         stack' = <<RestoreTo(timerOwner)>> \o Callers,
         UNCHANGED <<event, queue, signalList, timerList>>
  PROVE  SafeInv'
<1>1. timerOwner \in Tpls
  BY TopFacts, LockRelease
<1>2. PICK r : r = RestoreTo(timerOwner)
  OBVIOUS
<1>3. Stacked(stack', {r} \cup Frames(Callers)) /\ Plain(r)
  BY <1>1, <1>2, SafeTop, OnRestore
<1>4. Turns({r}, Frames(Callers))
  BY <1>3, SafeTop DEF Turns
<1>5. Passes(Top)
  BY DEF Holds, Passes, IsAt
<1> QED
  BY <1>3, <1>4, <1>5, PlainSafe, ControlStep DEF IsAt

LEMMA SetTimerReleaseSafe ==
  ASSUME IndInv, SafeInv, SetTimerRelease
  PROVE  SafeInv'
BY ReleaseTimersSafe DEF SetTimerRelease, At, Holds, IsAt

LEMMA CheckTimersDoneSafe ==
  ASSUME IndInv, SafeInv, CheckTimersDone
  PROVE  SafeInv'
BY ReleaseTimersSafe DEF CheckTimersDone, At, Holds, IsAt

LEMMA CheckTimersLockSafe ==
  ASSUME IndInv, SafeInv, CheckTimersLock
  PROVE  SafeInv'
<1>1. /\ Top.proc = "CheckTimers" /\ Passes(Top)
      /\ UNCHANGED <<event, queue, signalList, timerList>>
  BY DEF CheckTimersLock, At, Passes, IsAt
<1>2. PICK f : f = [Top EXCEPT !.pc = "loop", !.arg = now]
  OBVIOUS
<1>3. now \in Nat /\ Top.ev \in Event
  BY <1>1, TopFacts DEF IndInv, DataOK, FrameOK
<1>4. /\ f \in FrameRecord /\ f.proc = "CheckTimers" /\ f.pc = "loop"
      /\ f.ev = Top.ev /\ f.mode = Top.mode
  BY <1>1, <1>2, <1>3, TopFacts DEF FrameRecord, Pcs
<1>5. f \in Activation
  BY <1>3, <1>4 DEF Activation, FrameOK
<1>6. stack' = <<f>> \o Callers
  BY <1>2 DEF CheckTimersLock
<1>7. \A g \in Frames(Callers) : PairOK(f, g)
  BY <1>1, <1>4, SafeTop, PairLike
<1>8. Turns({f}, Frames(Callers))
  BY <1>5, <1>6, <1>7, GoesOnTurns
<1>9. Plain(f)
  BY <1>4 DEF Plain, Reads
<1> QED
  BY <1>1, <1>8, <1>9, PlainSafe, ControlStep DEF IsAt

-----------------------------------------------------------------------------
(***************************************************************************)
(* The calls of tasks.                                                     *)
(***************************************************************************)
\* Nothing is below the program at the bottom of the stack.
LEMMA BottomAlone ==
  ASSUME IndInv, Bottom(Top)
  PROVE  Frames(Callers) = {}
<1>1. stack \in Seq(Activation) /\ Len(stack) \in Nat /\ Len(stack) > 0 /\ stack # <<>>
  BY TopFacts
<1>2. ~(1 \in 1..(Len(stack) - 1))
  BY TopFacts DEF StackOK
<1>3. Len(stack) = 1
  <2>1. \A n \in Nat : n > 0 /\ ~(1 \in 1..(n - 1)) => n = 1
    OBVIOUS
  <2> QED
    BY <1>1, <1>2, <2>1
<1>4. Len(Callers) = 0
  BY <1>1, <1>3, PopSeq DEF Callers
<1> QED
  BY <1>4 DEF Frames

\* A careful task makes no call on an event that is being closed.
LEMMA CalleeAlone ==
  ASSUME IndInv, SafeInv, Careful, NEW op \in {"Signal", "SetTimer", "Check", "Close"},
         NEW e \in Handle, MayCallOn(op, e)
  PROVE  \A g \in Frames(stack) : g.proc # "NotifyList" /\ (g.proc = "Close" => g.ev # e)
<1>1. Top.proc = "Task" /\ (Top.ev \in {NoEvent, e} \/ op \in SharedOps)
  BY DEF MayCallOn, MayCall, At
<1>2. ASSUME NEW g \in Frames(Callers), g.proc = "Close" PROVE g.ev # e
  <2>1. "Close" \in Ops
    BY <1>2, SafeTop DEF FrameSafe
  <2>2. op \notin SharedOps
    BY <2>1 DEF Careful
  <2>3. Top.ev # NoEvent
    BY <1>1, <1>2, BottomAlone DEF Bottom
  <2>4. PairOK(Top, g) /\ Top.ev = e
    BY <1>1, <2>2, <2>3, SafeTop
  <2> QED
    BY <1>1, <1>2, <2>4 DEF PairOK
<1> QED
  BY <1>1, <1>2, SafeTop DEF Lower

\* A call on an event that is not being closed.
LEMMA InvokeSafe ==
  ASSUME IndInv, SafeInv, NEW h \in Activation, Invoke(h), FrameSafe(h), ~InHand(h),
         ~IsAt(h, "Close", "unlink"), \A g \in Frames(stack) : PairOK(h, g)
  PROVE  SafeInv'
<1>1. Turns({h}, Frames(stack)) /\ Top \in Frames(stack)
  BY InvokeTurns DEF Invoke
<1>2. UNCHANGED <<event, queue, signalList, timerList>>
  BY DEF Invoke, CoreState
<1> QED
  BY <1>1, <1>2, ControlStep

LEMMA CallSignalSafe ==
  ASSUME IndInv, SafeInv, Careful, NEW e \in Handle, CallSignal(e)
  PROVE  SafeInv'
<1>1. MayCallOn("Signal", e) /\ event[e].alive
  BY DEF CallSignal, MayCallOn
<1>2. PICK h : h = Signal(e)
  OBVIOUS
<1>3. h \in Activation /\ h.proc = "Signal" /\ h.pc = "start" /\ h.ev = e
  BY <1>2, TopFacts, Fixed, ServiceFrames, BuiltFrames
<1>4. \A g \in Frames(stack) : PairOK(h, g)
  BY <1>1, <1>3, CalleeAlone DEF PairOK
<1>5. FrameSafe(h) /\ ~InHand(h)
  BY <1>1, <1>3 DEF FrameSafe, InHand
<1> QED
  BY <1>2, <1>3, <1>4, <1>5, InvokeSafe DEF CallSignal, IsAt

LEMMA CallCheckSafe ==
  ASSUME IndInv, SafeInv, Careful, NEW e \in Handle, CallCheck(e)
  PROVE  SafeInv'
<1>1. MayCallOn("Check", e) /\ event[e].alive
  BY DEF CallCheck, MayCallOn
<1>2. PICK h : h = Check(e)
  OBVIOUS
<1>3. h \in Activation /\ h.proc = "CheckEvent" /\ h.pc = "start" /\ h.ev = e
  BY <1>2, TopFacts, Fixed, ServiceFrames, BuiltFrames
<1>4. \A g \in Frames(stack) : PairOK(h, g)
  BY <1>1, <1>3, CalleeAlone DEF PairOK
<1>5. FrameSafe(h) /\ ~InHand(h)
  BY <1>1, <1>3 DEF FrameSafe, InHand
<1> QED
  BY <1>2, <1>3, <1>4, <1>5, InvokeSafe DEF CallCheck, IsAt

LEMMA CallSetTimerSafe ==
  ASSUME IndInv, SafeInv, Careful, NEW e \in Handle,
         NEW mode \in {"cancel", "periodic", "relative"}, NEW d \in Nat,
         CallSetTimer(e, mode, d)
  PROVE  SafeInv'
<1>1. MayCallOn("SetTimer", e) /\ event[e].alive
  BY DEF CallSetTimer, MayCallOn
<1>2. PICK h : h = SetTimer(e, mode, d)
  OBVIOUS
<1>3. h \in Activation /\ h.proc = "SetTimer" /\ h.pc = "remove" /\ h.ev = e
  BY <1>2, TopFacts, Fixed, ServiceFrames, BuiltFrames
<1>4. \A g \in Frames(stack) : PairOK(h, g)
  BY <1>1, <1>3, CalleeAlone DEF PairOK
<1>5. FrameSafe(h) /\ ~InHand(h)
  BY <1>1, <1>3 DEF FrameSafe, InHand
<1> QED
  BY <1>2, <1>3, <1>4, <1>5, InvokeSafe DEF CallSetTimer, IsAt

LEMMA CallCloseSafe ==
  ASSUME IndInv, SafeInv, Careful, NEW e \in Handle, CallClose(e)
  PROVE  SafeInv'
<1>1. MayCallOn("Close", e) /\ event[e].alive /\ "Close" \in Ops
  BY DEF CallClose, MayCallOn, MayCall
<1>2. PICK h : h = Close(e)
  OBVIOUS
<1>3. h \in Activation /\ h.proc = "Close" /\ h.pc = "start" /\ h.ev = e /\ h.level = tpl
  BY <1>2, TopFacts, Fixed, ServiceFrames, BuiltFrames
<1>4. tpl >= event[e].ntpl /\ ~InUse(e)
  BY <1>1 DEF CallClose, MayClose, Careful
<1>5. \A g \in Frames(stack) : ~Uses(g, e)
  BY <1>4 DEF Frames, Uses, InUse
<1>6. \A g \in Frames(stack) : PairOK(h, g)
  BY <1>1, <1>3, <1>5, CalleeAlone DEF PairOK
<1>7. FrameSafe(h) /\ ~InHand(h)
  BY <1>1, <1>3, <1>4 DEF FrameSafe, InHand
<1> QED
  BY <1>2, <1>3, <1>6, <1>7, InvokeSafe DEF CallClose, IsAt

\* A close is never below a task at TPL_APPLICATION.
LEMMA CallWaitSafe ==
  ASSUME IndInv, SafeInv, CallWait
  PROVE  SafeInv'
<1>1. /\ Top.proc = "Task" /\ tpl = TPL_APPLICATION /\ WaitList # <<>>
      /\ \A i \in 1..Len(WaitList) : event[WaitList[i]].alive
  BY DEF CallWait, MayCall, At
<1>2. PICK h : h = Wait
  OBVIOUS
<1>3. h \in Activation /\ h.proc = "Wait"
  BY <1>1, <1>2, TopFacts, Fixed, ServiceFrames, BuiltFrames
<1>4. Frames(Callers) = {}
  <2>1. CASE ~Bottom(Top)
    <3>1. /\ stack[2].proc = "Dispatch" /\ LevelOK(stack[2], Top.level)
          /\ stack[2] \in Activation
      BY <1>1, <2>1, CallerFacts DEF CalledBy
    <3>2. Top.level \in NotifyTpls
      BY <3>1, LevelsAreNumbers DEF LevelOK, FrameOK
    <3>3. tpl >= Top.level
      BY TopFacts DEF LevelOK
    <3> QED
      BY <1>1, <3>2, <3>3, TplNumbers
  <2> QED
    BY <2>1, BottomAlone
<1>5. \A g \in Frames(stack) : PairOK(h, g)
  BY <1>1, <1>3, <1>4, SafeTop, PairFree
<1>6. FrameSafe(h) /\ ~InHand(h)
  BY <1>1, <1>3 DEF FrameSafe, InHand, Reads
<1> QED
  BY <1>2, <1>3, <1>5, <1>6, InvokeSafe DEF CallWait, IsAt

LEMMA CallRaiseTplSafe ==
  ASSUME IndInv, SafeInv, NEW t \in RaiseTargets, CallRaiseTpl(t)
  PROVE  SafeInv'
<1>1. /\ Top.proc = "Task" /\ Passes(Top) /\ At("Task", "run") /\ t > tpl
      /\ UNCHANGED <<event, queue, signalList, timerList>>
  BY DEF CallRaiseTpl, MayCall, At, Passes, IsAt
<1>2. PICK f : f = [Top EXCEPT !.arg = t]
  OBVIOUS
<1>3. t \in Tpls /\ t \in Nat /\ t # NoTpl /\ t >= Top.level
  <2>1. t \in Tpls /\ t \in Nat /\ t # NoTpl
    BY ConstantsAssumption, TplNumbers
  <2>2. tpl >= Top.level /\ tpl \in Nat /\ Top.level \in Nat
    BY TopFacts DEF LevelOK
  <2> QED
    BY <1>1, <2>1, <2>2
<1>4. f \in Activation
  BY <1>1, <1>2, <1>3, TaskEdit
<1>5. f.proc = Top.proc /\ f.ev = Top.ev /\ f.mode = Top.mode
  BY <1>2, TopFacts DEF FrameRecord
<1>6. \A g \in Frames(Callers) : PairOK(f, g)
  BY <1>5, SafeTop, PairLike
<1>7. Turns({f}, Frames(Callers))
  BY <1>2, <1>4, <1>6, GoesOnTurns DEF CallRaiseTpl
<1>8. Plain(f)
  BY <1>1, <1>5 DEF Plain, Reads
<1> QED
  BY <1>1, <1>5, <1>7, <1>8, PlainSafe, ControlStep DEF IsAt

LEMMA CallRestoreTplSafe ==
  ASSUME IndInv, SafeInv, CallRestoreTpl
  PROVE  SafeInv'
<1>1. /\ Top.proc = "Task" /\ Passes(Top) /\ At("Task", "run")
      /\ UNCHANGED <<event, queue, signalList, timerList>>
  BY DEF CallRestoreTpl, At, Passes, IsAt
<1>2. PICK f : f = [Top EXCEPT !.arg = NoTpl]
  OBVIOUS
<1>3. PICK r : r = RestoreTo(Top.level)
  OBVIOUS
<1>4. f \in Activation
  <2>1. Top.level \in Nat /\ Top.level >= Top.level /\ NoTpl \in Tpls \cup {NoTpl}
    BY TopFacts
  <2> QED
    BY <1>1, <1>2, <2>1, TaskEdit
<1>5. f.proc = Top.proc /\ f.ev = Top.ev /\ f.mode = Top.mode
  BY <1>2, TopFacts DEF FrameRecord
<1>6. \A g \in Frames(Callers) : PairOK(f, g)
  BY <1>5, SafeTop, PairLike
<1>7. r \in Activation /\ r.proc = "RestoreTpl" /\ r.ev = NoEvent
  BY <1>3, TopFacts DEF RestoreTo, Frame, Activation, FrameRecord, FrameOK, Procs, Pcs
<1>8. \A g \in Frames(Callers) : PairOK(r, g)
  BY <1>7, SafeTop, PairNeutral, Fixed
<1>9. Turns({r, f}, Frames(Callers))
  BY <1>1, <1>2, <1>3, <1>4, <1>5, <1>6, <1>7, <1>8, PairFree, CallTurns
     DEF CallRestoreTpl
<1>10. Plain(f) /\ Plain(r)
  BY <1>1, <1>5, <1>7 DEF Plain, Reads
<1> QED
  BY <1>1, <1>5, <1>7, <1>9, <1>10, PlainSafe, ControlStep DEF IsAt

-----------------------------------------------------------------------------
(***************************************************************************)
(* Steps that signal, notify and check events.                             *)
(***************************************************************************)
\* A list keeps its other entries.
LEMMA UnlinkKeeps ==
  ASSUME NEW S, NEW s \in Seq(S), NEW e, NEW x, x # e, Linked(s, x)
  PROVE  Linked(Unlink(s, e), x)
<1>1. CASE ~Linked(s, e)
  BY <1>1 DEF Unlink
<1>2. CASE Linked(s, e)
  <2> DEFINE k == PositionOf(s, e)
             r == RemoveEntryList(s, e)
  <2>1. k \in 1..Len(s) /\ s[k] = e
    BY <1>2, Position
  <2> HIDE DEF k
  <2>2. r = [i \in 1..(Len(s) - 1) |-> IF i < k THEN s[i] ELSE s[i + 1]]
    BY DEF RemoveEntryList, k
  <2>3. Len(r) = Len(s) - 1 /\ Len(s) \in Nat
    BY <2>1, <2>2
  <2>4. PICK j \in 1..Len(s) : s[j] = x
    BY DEF Linked
  <2>5. CASE j < k
    <3>1. j \in 1..Len(r) /\ r[j] = x
      BY <2>1, <2>2, <2>3, <2>4, <2>5
    <3> QED
      BY <1>2, <3>1 DEF Unlink, Linked
  <2>6. CASE j > k
    <3>1. j - 1 \in 1..Len(r) /\ r[j - 1] = x
      BY <2>1, <2>2, <2>3, <2>4, <2>6
    <3> QED
      BY <1>2, <3>1 DEF Unlink, Linked
  <2> QED
    BY <2>1, <2>4, <2>5, <2>6
<1> QED
  BY <1>1, <1>2

LEMMA AppendKeeps ==
  ASSUME NEW S, NEW s \in Seq(S), NEW e \in S
  PROVE  /\ Linked(InsertTailList(s, e), e)
         /\ \A x : Linked(s, x) => Linked(InsertTailList(s, e), x)
<1> DEFINE r == InsertTailList(s, e)
<1>1. /\ Len(r) = Len(s) + 1 /\ Len(s) \in Nat /\ r[Len(s) + 1] = e
      /\ \A i \in 1..Len(s) : i \in 1..Len(r) /\ r[i] = s[i]
  BY DEF InsertTailList
<1>2. Len(s) + 1 \in 1..Len(r)
  BY <1>1
<1> QED
  BY <1>1, <1>2 DEF Linked

LEMMA TailKeeps ==
  ASSUME NEW S, NEW s \in Seq(S), s # <<>>, NEW x, x # Head(s), Linked(s, x)
  PROVE  Linked(Tail(s), x)
<1>1. PICK j \in 1..Len(s) : s[j] = x
  BY DEF Linked
<1>2. j # 1 /\ Len(s) \in Nat
  BY <1>1
<1>3. j - 1 \in 1..Len(Tail(s)) /\ Tail(s)[j - 1] = x
  BY <1>1, <1>2
<1> QED
  BY <1>3 DEF Linked

\* CoreNotifyEvent queues e, and everything else stays queued.
LEMMA Notified ==
  ASSUME IndInv, NEW e \in Event, NotifyEvent(e)
  PROVE  /\ Linked(queue'[event[e].ntpl], e)
         /\ \A x \in Event, t \in QueueLevels :
              /\ Linked(queue[t], x) => Linked(queue'[t], x)
              /\ Linked(queue'[t], x) =>
                   Linked(queue[t], x) \/ (x \in {e} /\ t = event[e].ntpl)
<1> DEFINE u == event[e].ntpl
           r == Unlink(queue[u], e)
           q == InsertTailList(r, e)
<1>1. /\ event \in [Event -> EventRecord] /\ queue \in [QueueLevels -> Seq(Event)]
      /\ QueueConsistent
  BY DEF IndInv, DataOK
<1>2. u \in QueueLevels
  BY <1>1 DEF EventRecord, QueueLevels
<1>3. queue[u] \in Seq(Event) /\ NoDuplicates(queue[u])
  BY <1>1, <1>2 DEF QueueConsistent
<1>4. queue' = [queue EXCEPT ![u] = q]
  BY DEF NotifyEvent
<1> HIDE DEF u
<1>5. /\ r \in Seq(Event) /\ NoDuplicates(r) /\ ~Linked(r, e)
      /\ \A x : Linked(r, x) => Linked(queue[u], x)
  BY <1>3, UnlinkList
<1>6. \A x : x # e /\ Linked(queue[u], x) => Linked(r, x)
  BY <1>3, UnlinkKeeps
<1> HIDE DEF r
<1>7. \A x : Linked(q, x) => x = e \/ Linked(r, x)
  BY <1>5, AppendList
<1>8. Linked(q, e) /\ \A x : Linked(r, x) => Linked(q, x)
  BY <1>5, AppendKeeps
<1> HIDE DEF q
<1>9. queue'[u] = q /\ \A t \in QueueLevels : t # u => queue'[t] = queue[t]
  BY <1>1, <1>2, <1>4
<1>10. ASSUME NEW x \in Event, NEW t \in QueueLevels
       PROVE  /\ Linked(queue[t], x) => Linked(queue'[t], x)
              /\ Linked(queue'[t], x) => Linked(queue[t], x) \/ (x \in {e} /\ t = u)
  <2>1. CASE t # u
    BY <1>9, <2>1
  <2>2. CASE t = u
    BY <1>5, <1>6, <1>7, <1>8, <1>9, <2>2
  <2> QED
    BY <2>1, <2>2
<1> QED
  BY <1>8, <1>9, <1>10 DEF u

\* A step that queues the events Q and starts no timer and no close.
LEMMA QueueChange ==
  ASSUME IndInv, SafeInv, NEW N, NEW K, Turns(N, K), NEW Q, Adds(Q, {}),
         timerList' = timerList, \A e \in Event : event'[e].trigger = event[e].trigger,
         \A e \in Q : event[e].alive,
         \A f \in N : FrameSafe(f)' /\ ~InHand(f) /\ ~IsAt(f, "Close", "unlink"),
         \A f \in K : IsAt(f, "Close", "free") => f.ev \notin Q,
         Top \in K \/ (~IsAt(Top, "SetTimer", "remove") /\ ~IsAt(Top, "Close", "free")),
         Latched'
  PROVE  SafeInv'
<1> DEFINE T == {}
<1>1. TimerListSorted'
  <2>1. \A i \in 1..Len(timerList) : timerList[i] \in Event
    BY DEF IndInv, DataOK
  <2>2. TimerListSorted
    BY DEF SafeInv, ListsOK
  <2> QED
    BY <2>1, <2>2 DEF TimerListSorted
<1>2. Adds(Q, T) /\ \A e \in T : event[e].alive /\ Is(e, "TIMER")
  OBVIOUS
<1>3. \A f \in K : /\ IsAt(f, "Close", "free") => f.ev \notin Q \cup T
                   /\ InHand(f) => f.ev \notin T
  OBVIOUS
<1>4. KindsKept /\ signalList' = signalList
  BY DEF Adds
<1> HIDE DEF T
<1>5. ListsOK'
  BY <1>1, <1>2, KeepLists
<1>6. FramesSafe'
  BY <1>2, <1>3, KeepFrames
<1>7. CancelsOK'
  <2>1. \A e \in Event : Linked(timerList', e) => Timing(e)
    BY DEF Timing
  <2> QED
    BY <2>1, KeepCancels
<1>8. SignalsKnown'
  BY <1>4, KeepSignals
<1> QED
  BY <1>5, <1>6, <1>7, <1>8 DEF SafeInv, Turns, Stacked

\* The activations after a section that returns, and after one that goes on.
LEMMA SectionReturns ==
  ASSUME IndInv, SafeInv, EventLockSection(Callers), NEW r, r = RestoreTo(tpl)
  PROVE  Turns({r}, Frames(Callers)) /\ Plain(r)
<1>1. Stacked(stack', {r} \cup Frames(Callers)) /\ Plain(r)
  BY SafeTop, OnRestore, TopFacts DEF EventLockSection
<1> QED
  BY <1>1, SafeTop DEF Turns

LEMMA SectionGoesOn ==
  ASSUME IndInv, SafeInv, NEW f \in Activation, EventLockSection(<<f>> \o Callers),
         NEW r, r = RestoreTo(tpl),
         f.proc # "NotifyList", f.proc = "Close" => f.ev \in Handle,
         \A g \in Frames(Callers) : PairOK(f, g)
  PROVE  Turns({r, f}, Frames(Callers)) /\ Plain(r)
<1> DEFINE G == {f} \cup Frames(Callers)
           s == <<f>> \o Callers
<1>1. Stacked(s, G)
  BY SafeTop, PushStacked
<1>2. Lower(G)
  BY SafeTop DEF Lower
<1>3. stack' = <<r>> \o s
  BY DEF EventLockSection
<1> HIDE DEF G, s
<1>4. Stacked(<<r>> \o s, {r} \cup G) /\ Plain(r)
  BY <1>1, <1>2, OnRestore, TopFacts
<1>5. {r} \cup G = {r, f} \cup Frames(Callers)
  BY DEF G
<1> QED
  BY <1>3, <1>4, <1>5, SafeTop DEF Turns

LEMMA SignalEventSafe ==
  ASSUME IndInv, SafeInv, SignalEvent
  PROVE  SafeInv'
<1> DEFINE C == Frames(Callers)
<1>1. /\ Top.proc = "Signal" /\ Top.pc = "start"
      /\ UNCHANGED <<signalList, timerList>>
  BY DEF SignalEvent, At
<1>2. PICK e : e = Top.ev
  OBVIOUS
<1>3. e \in Event /\ event[e].alive
  BY <1>1, <1>2, TopFacts, SafeTop DEF FrameOK, FrameSafe, Reads
<1>4. PICK r : r = RestoreTo(tpl)
  OBVIOUS
<1>5. CASE event[e].count # 0
  <2>1. EventLockSection(Callers) /\ UNCHANGED <<event, queue>>
    BY <1>2, <1>5 DEF SignalEvent
  <2> QED
    BY <1>1, <2>1, ReleaseSafe DEF Passes, IsAt
<1>6. CASE event[e].count = 0
  <2>1. event' = [event EXCEPT ![e].count = 1]
    BY <1>2, <1>6 DEF SignalEvent
  <2>2. /\ KindsKept /\ \A x \in Event : event'[x].trigger = event[x].trigger
        /\ \A x \in Event : x # e => event'[x].count = event[x].count
    BY <1>3, <2>1 DEF KindsKept, IndInv, DataOK, EventRecord
  <2>3. \A g \in C : IsAt(g, "Close", "free") => g.ev \notin {e}
    <3> SUFFICES ASSUME NEW g \in C, IsAt(g, "Close", "free"), g.ev = e
                 PROVE  FALSE
      OBVIOUS
    <3>1. PairOK(Top, g)
      BY SafeTop
    <3> QED
      BY <1>2, <3>1 DEF PairOK, IsAt
  <2>4. \A x \in Event : ~Carries(Top, x)
    BY <1>1 DEF Carries, IsAt
  <2>5. ~IsAt(Top, "SetTimer", "remove") /\ ~IsAt(Top, "Close", "free")
    BY <1>1 DEF IsAt
  <2>6. CASE Is(e, "SIGNAL") /\ ~ExFlag(e)
    <3>1. NotifyEvent(e) /\ EventLockSection(Callers)
      BY <1>2, <1>6, <2>6 DEF SignalEvent
    <3> DEFINE N == {r}
               Q == {e}
    <3>2. Turns(N, C) /\ \A f \in N : Plain(f)
      BY <1>4, <3>1, SectionReturns
    <3>3. /\ Linked(queue'[event[e].ntpl], e)
          /\ \A x \in Event, t \in QueueLevels :
               /\ Linked(queue[t], x) => Linked(queue'[t], x)
               /\ Linked(queue'[t], x) =>
                    Linked(queue[t], x) \/ (x \in Q /\ t = event[e].ntpl)
      BY <1>3, <3>1, Notified
    <3>4. Adds(Q, {}) /\ \A x \in Q : event[x].alive
      BY <1>1, <1>3, <2>2, <3>3 DEF Adds
    <3>5. \A f \in N : FrameSafe(f)' /\ ~InHand(f) /\ ~IsAt(f, "Close", "unlink")
      BY <3>2, PlainSafe DEF IsAt
    <3>6. \A x \in Event : event[x].alive /\ Is(x, "SIGNAL") /\ event'[x].count = 1 => Kept(N, x)
      <4> SUFFICES ASSUME NEW x \in Event, event'[x].count = 1 PROVE Kept(N, x)
        OBVIOUS
      <4>1. event[x].ntpl \in QueueLevels
        BY DEF IndInv, DataOK, EventRecord, QueueLevels
      <4> QED
        BY <2>2, <3>3, <4>1 DEF Kept
    <3> HIDE DEF N, Q
    <3>7. Latched'
      BY <1>1, <2>2, <2>4, <3>2, <3>6, KeepLatched
    <3>8. \A g \in C : IsAt(g, "Close", "free") => g.ev \notin Q
      BY <2>3 DEF Q
    <3> QED
      BY <1>1, <2>2, <2>5, <3>2, <3>4, <3>5, <3>7, <3>8, QueueChange
  <2>7. CASE Is(e, "SIGNAL") /\ ExFlag(e)
    <3>1. UNCHANGED queue /\ EventLockSection(Continue("group"))
      BY <1>2, <1>6, <2>7 DEF SignalEvent
    <3>2. PICK f : f = [Top EXCEPT !.pc = "group"]
      OBVIOUS
    <3>3. /\ f \in Activation /\ f.proc = "Signal" /\ f.pc = "group" /\ f.ev = e
          /\ \A g \in C : PairOK(f, g)
      BY <1>1, <1>2, <3>2, Further DEF Pcs
    <3> DEFINE N == {r, f}
               Q == {}
    <3>4. Turns(N, C) /\ Plain(r)
      BY <1>4, <3>1, <3>2, <3>3, SectionGoesOn DEF Continue
    <3>5. Adds(Q, {}) /\ \A x \in Q : event[x].alive
      BY <1>1, <2>2, <3>1 DEF Adds
    <3>6. \A h \in N : FrameSafe(h)' /\ ~InHand(h) /\ ~IsAt(h, "Close", "unlink")
      <4>1. event'[e].alive
        BY <1>3, <2>2 DEF KindsKept
      <4>2. FrameSafe(f)' /\ ~InHand(f) /\ f.proc # "Close"
        BY <3>3, <4>1 DEF FrameSafe, InHand
      <4> QED
        BY <3>4, <4>2, PlainSafe DEF IsAt
    <3>7. \A x \in Event : event[x].alive /\ Is(x, "SIGNAL") /\ event'[x].count = 1 => Kept(N, x)
      <4> SUFFICES ASSUME NEW x \in Event, event'[x].count = 1 PROVE Kept(N, x)
        OBVIOUS
      <4>1. x = e => Carries(f, x)
        BY <3>3 DEF Carries, IsAt
      <4> QED
        BY <2>2, <3>1, <4>1 DEF Kept
    <3> HIDE DEF N, Q
    <3>8. Latched'
      BY <1>1, <2>2, <2>4, <3>4, <3>7, KeepLatched
    <3>9. \A g \in C : IsAt(g, "Close", "free") => g.ev \notin Q
      BY DEF Q
    <3> QED
      BY <1>1, <2>2, <2>5, <3>4, <3>5, <3>6, <3>8, <3>9, QueueChange
  <2>8. CASE ~Is(e, "SIGNAL")
    <3>1. UNCHANGED queue /\ EventLockSection(Callers)
      BY <1>2, <1>6, <2>8 DEF SignalEvent
    <3> DEFINE N == {r}
               Q == {}
    <3>2. Turns(N, C) /\ \A f \in N : Plain(f)
      BY <1>4, <3>1, SectionReturns
    <3>3. Adds(Q, {}) /\ \A x \in Q : event[x].alive
      BY <1>1, <2>2, <3>1 DEF Adds
    <3>4. \A f \in N : FrameSafe(f)' /\ ~InHand(f) /\ ~IsAt(f, "Close", "unlink")
      BY <3>2, PlainSafe DEF IsAt
    <3>5. \A x \in Event : event[x].alive /\ Is(x, "SIGNAL") /\ event'[x].count = 1 => Kept(N, x)
      BY <2>2, <2>8, <3>1 DEF Kept
    <3> HIDE DEF N, Q
    <3>6. Latched'
      BY <1>1, <2>2, <2>4, <3>2, <3>5, KeepLatched
    <3>7. \A g \in C : IsAt(g, "Close", "free") => g.ev \notin Q
      BY DEF Q
    <3> QED
      BY <1>1, <2>2, <2>5, <3>2, <3>3, <3>4, <3>6, <3>7, QueueChange
  <2> QED
    BY <2>6, <2>7, <2>8
<1> QED
  BY <1>5, <1>6

LEMMA NotifyListEntrySafe ==
  ASSUME IndInv, SafeInv, NotifyListEntry
  PROVE  SafeInv'
<1> DEFINE C == Frames(Callers)
<1>1. /\ Top.proc = "NotifyList" /\ Top.arg <= Len(signalList) /\ Top.ev \in Event
      /\ Top.arg \in Nat /\ Top.arg > 0 /\ Top.pc = "walk"
      /\ UNCHANGED <<signalList, timerList, event>>
  BY TopFacts DEF NotifyListEntry, At, FrameOK, FrameRecord
<1>2. PICK e : e = signalList[Top.arg]
  OBVIOUS
<1>3. signalList \in Seq(Event) /\ Len(signalList) \in Nat
  BY DEF IndInv, DataOK
<1>4. e \in Event /\ Linked(signalList, e) /\ event[e].alive
  <2>1. Top.arg \in 1..Len(signalList)
    BY <1>1, <1>3
  <2>2. e \in Event /\ Linked(signalList, e)
    BY <1>2, <1>3, <2>1 DEF Linked
  <2> QED
    BY <2>2 DEF SafeInv, ListsOK
<1>5. PICK f : f = [Top EXCEPT !.arg = @ + 1]
  OBVIOUS
<1>6. /\ f \in FrameRecord /\ f.proc = "NotifyList" /\ f.ev = Top.ev /\ f.mode = Top.mode
      /\ f.arg = Top.arg + 1
  <2>1. Top \in FrameRecord /\ Top.arg + 1 \in Nat
    BY <1>1, TopFacts, LevelsAreNumbers
  <2> QED
    BY <1>1, <1>5, <2>1 DEF FrameRecord
<1>7. f \in Activation /\ \A g \in C : PairOK(f, g)
  <2>1. f.arg > 0
    BY <1>1, <1>6
  <2> QED
    BY <1>1, <1>6, <2>1, SafeTop, PairLike DEF Activation, FrameOK
<1> DEFINE N == {f}
<1>8. Turns(N, C)
  BY <1>5, <1>7, GoesOnTurns DEF NotifyListEntry
<1>9. KindsKept /\ \A x \in Event : event'[x].trigger = event[x].trigger
  BY <1>1 DEF KindsKept
<1>10. \A h \in N : FrameSafe(h)' /\ ~InHand(h) /\ ~IsAt(h, "Close", "unlink")
  <2>1. event[Top.ev].alive
    BY <1>1, SafeTop DEF FrameSafe, Reads
  <2> QED
    BY <1>1, <1>6, <2>1 DEF FrameSafe, InHand, IsAt
<1>11. \A g \in C : IsAt(g, "Close", "free") => g.ev # e
  BY <1>4, SafeTop DEF FrameSafe, IsAt
<1>12. ASSUME NEW x \in Event, event[x].alive, Is(x, "SIGNAL"), Carries(Top, x),
              x = e => Linked(queue'[event[x].ntpl], x)
       PROVE  Linked(queue'[event[x].ntpl], x) \/ \E g \in N \cup C : Carries(g, x)
  <2>1. x = Top.ev /\ Top.arg <= PositionOf(signalList, x)
    BY <1>1, <1>12 DEF Carries, IsAt
  <2>2. CASE ~Linked(signalList, x)
    BY <1>1, <1>12, <2>2, UnknownSignal DEF IsAt
  <2>3. CASE Linked(signalList, x)
    <3>1. PositionOf(signalList, x) \in 1..Len(signalList)
          /\ signalList[PositionOf(signalList, x)] = x
      BY <2>3, Position
    <3>2. CASE PositionOf(signalList, x) = Top.arg
      BY <1>2, <1>12, <3>1, <3>2
    <3>3. CASE PositionOf(signalList, x) # Top.arg
      <4>1. Top.arg + 1 <= PositionOf(signalList, x)
        BY <1>1, <1>3, <2>1, <3>1, <3>3
      <4> QED
        BY <1>6, <2>1, <4>1 DEF Carries
    <3> QED
      BY <3>2, <3>3
  <2> QED
    BY <2>2, <2>3
<1>13. ~IsAt(Top, "SetTimer", "remove") /\ ~IsAt(Top, "Close", "free")
  BY <1>1 DEF IsAt
<1>14. CASE event[e].group = event[Top.ev].group
  <2> DEFINE Q == {e}
  <2>1. NotifyEvent(e)
    BY <1>2, <1>14 DEF NotifyListEntry
  <2>2. /\ Linked(queue'[event[e].ntpl], e)
        /\ \A x \in Event, t \in QueueLevels :
             /\ Linked(queue[t], x) => Linked(queue'[t], x)
             /\ Linked(queue'[t], x) =>
                  Linked(queue[t], x) \/ (x \in Q /\ t = event[e].ntpl)
    BY <1>4, <2>1, Notified
  <2>3. Adds(Q, {}) /\ \A x \in Q : event[x].alive
    BY <1>1, <1>4, <1>9, <2>2 DEF Adds
  <2>4. \A x \in Event : event[x].alive /\ Is(x, "SIGNAL") /\ event'[x].count = 1 => Kept(N, x)
    <3> SUFFICES ASSUME NEW x \in Event, event'[x].count = 1 PROVE Kept(N, x)
      OBVIOUS
    <3>1. event[x].ntpl \in QueueLevels
      BY DEF IndInv, DataOK, EventRecord, QueueLevels
    <3> QED
      BY <1>1, <2>2, <3>1 DEF Kept
  <2>5. \A x \in Event : event[x].alive /\ Is(x, "SIGNAL") /\ Carries(Top, x) =>
          Linked(queue'[event[x].ntpl], x) \/ \E g \in N \cup C : Carries(g, x)
    BY <1>12, <2>2
  <2>6. \A g \in C : IsAt(g, "Close", "free") => g.ev \notin Q
    BY <1>11
  <2> HIDE DEF N, Q, C
  <2>7. Latched'
    BY <1>1, <1>8, <1>9, <2>4, <2>5, KeepLatched
  <2> QED
    BY <1>1, <1>8, <1>9, <1>10, <1>13, <2>3, <2>6, <2>7, QueueChange
<1>15. CASE event[e].group # event[Top.ev].group
  <2>1. UNCHANGED queue
    BY <1>2, <1>15 DEF NotifyListEntry
  <2>2. \A x \in Event : event[x].alive /\ Is(x, "SIGNAL") /\ Carries(Top, x) =>
          Linked(queue[event[x].ntpl], x) \/ \E g \in N \cup C : Carries(g, x)
    <3> SUFFICES ASSUME NEW x \in Event, event[x].alive, Is(x, "SIGNAL"), Carries(Top, x)
                 PROVE  Linked(queue[event[x].ntpl], x) \/ \E g \in N \cup C : Carries(g, x)
      OBVIOUS
    <3>1. x # e
      BY <1>15 DEF Carries
    <3> QED
      BY <1>12, <2>1, <3>1
  <2>3. \A h \in N : FrameSafe(h)
    <3>1. event[Top.ev].alive
      BY <1>1, SafeTop DEF FrameSafe, Reads
    <3> QED
      BY <1>1, <1>6, <3>1 DEF FrameSafe, InHand
  <2> HIDE DEF N, C
  <2> QED
    BY <1>1, <1>8, <1>10, <1>13, <2>1, <2>2, <2>3, ListsUntouched
<1> QED
  BY <1>14, <1>15

-----------------------------------------------------------------------------
(***************************************************************************)
(* CoreCheckEvent.                                                         *)
(***************************************************************************)
\* It answers to its caller, which may be a CoreWaitForEvent that goes on.
Answers(pc, N, K) ==
  /\ Stacked(Answer(pc), N \cup K) /\ Lower(N \cup K)
  /\ K \subseteq Frames(Callers)
  /\ \A f \in Frames(Callers) : f \in K \/ f.proc = "Wait"
  /\ \A f \in N : f.proc = "Wait" /\ FrameSafe(f)

LEMMA AnswerStacked ==
  ASSUME IndInv, SafeInv, NEW pc \in {"return", "next"}
  PROVE  \E N, K : Answers(pc, N, K)
<1>1. Callers \in Seq(Activation) /\ PairsOK(Callers) /\ Stacked(Callers, Frames(Callers))
  BY SafeTop DEF Stacked
<1>2. CASE Callers # <<>> /\ Head(Callers).proc = "Wait"
  <2> DEFINE K == Frames(Tail(Callers))
  <2>1. PICK w : w = Head(Callers)
    OBVIOUS
  <2>2. PICK f : f = [w EXCEPT !.pc = pc]
    OBVIOUS
  <2>3. Answer(pc) = <<f>> \o Tail(Callers)
    BY <1>2, <2>1, <2>2 DEF Answer
  <2>4. /\ Stacked(Tail(Callers), K) /\ Frames(Callers) = {w} \cup K
        /\ \A g \in K : PairOK(w, g)
    BY <1>1, <1>2, <2>1, PopStacked, PopSeq
  <2>5. w \in Activation /\ w.proc = "Wait" /\ FrameSafe(w)
    BY <1>1, <1>2, <2>1, <2>4, PopSeq, SafeTop
  <2>6. /\ f \in FrameRecord /\ f.proc = "Wait" /\ f.ev = w.ev /\ f.mode = w.mode
        /\ f.arg = w.arg
    BY <2>2, <2>5, LevelsAreNumbers DEF FrameRecord, Pcs
  <2>7. f \in Activation
    BY <2>5, <2>6, LevelsAreNumbers DEF Activation, FrameOK
  <2>8. FrameSafe(f)
    BY <2>5, <2>6 DEF FrameSafe, Reads, InHand
  <2>9. \A g \in K : PairOK(f, g)
    BY <2>4, <2>5, <2>6, PairLike
  <2>10. Stacked(Answer(pc), {f} \cup K)
    BY <2>3, <2>4, <2>7, <2>9, PushStacked
  <2>11. Lower({f} \cup K)
    BY <2>4, <2>6, SafeTop DEF Lower
  <2> DEFINE N == {f}
  <2>12. Answers(pc, N, K)
    <3>1. K \subseteq Frames(Callers) /\ \A g \in Frames(Callers) : g \in K \/ g.proc = "Wait"
      BY <2>4, <2>5
    <3>2. \A g \in N : g.proc = "Wait" /\ FrameSafe(g)
      BY <2>6, <2>8
    <3>3. Stacked(Answer(pc), N \cup K) /\ Lower(N \cup K)
      BY <2>10, <2>11
    <3> HIDE DEF N, K
    <3> QED
      BY <3>1, <3>2, <3>3 DEF Answers
  <2> HIDE DEF N, K
  <2> QED
    BY <2>12
<1>3. CASE ~(Callers # <<>> /\ Head(Callers).proc = "Wait")
  <2>1. Answer(pc) = Callers
    BY <1>3 DEF Answer
  <2> DEFINE N == {}
             K == Frames(Callers)
  <2>2. N \cup K = K
    OBVIOUS
  <2>3. Answers(pc, N, K)
    <3>1. \A g \in N : g.proc = "Wait" /\ FrameSafe(g)
      OBVIOUS
    <3>2. Stacked(Answer(pc), N \cup K) /\ Lower(N \cup K)
      BY <1>1, <2>1, <2>2, SafeTop
    <3> HIDE DEF N
    <3> QED
      BY <3>1, <3>2 DEF Answers
  <2> HIDE DEF N, K
  <2> QED
    BY <2>3
<1> QED
  BY <1>2, <1>3

\* It answers without having done anything.
LEMMA AnswerSafe ==
  ASSUME IndInv, SafeInv, NEW pc \in {"return", "next"}, Top.proc = "CheckEvent",
         stack' = Answer(pc), UNCHANGED <<event, queue, signalList, timerList>>
  PROVE  SafeInv'
<1>1. PICK N, K : Answers(pc, N, K)
  BY AnswerStacked
<1>2. Turns(N, K)
  BY <1>1, SafeTop DEF Turns, Answers
<1>3. \A f \in N : FrameSafe(f) /\ ~InHand(f) /\ ~IsAt(f, "Close", "unlink")
  BY <1>1 DEF InHand, IsAt, Answers
<1> QED
  BY <1>2, <1>3, ControlStep DEF Passes, IsAt

LEMMA CheckEventQueueSafe ==
  ASSUME IndInv, SafeInv, CheckEventQueue
  PROVE  SafeInv'
<1> DEFINE C == Frames(Callers)
<1>1. /\ Top.proc = "CheckEvent" /\ Passes(Top) /\ Top.ev \in Event
      /\ UNCHANGED <<signalList, timerList, event>>
  BY TopFacts DEF CheckEventQueue, At, Passes, IsAt, FrameOK
<1>2. PICK e : e = Top.ev
  OBVIOUS
<1>3. event[e].alive /\ e \in Event
  BY <1>1, <1>2, SafeTop DEF FrameSafe, Reads
<1>4. PICK f : f = [Top EXCEPT !.pc = "test"]
  OBVIOUS
<1>5. /\ f \in Activation /\ f.proc = "CheckEvent" /\ f.ev = e
      /\ \A g \in C : PairOK(f, g)
  BY <1>1, <1>2, <1>4, Further DEF Pcs
<1>6. FrameSafe(f) /\ ~InHand(f)
  BY <1>3, <1>5 DEF FrameSafe, InHand
<1>7. CASE Is(e, "SIGNAL")
  BY <1>1, <1>2, <1>7, AnswerSafe DEF CheckEventQueue
<1>8. CASE ~Is(e, "SIGNAL") /\ event[e].count = 0 /\ Is(e, "WAIT")
  <2> DEFINE Q == {e}
  <2>1. NotifyEvent(e) /\ EventLockSection(<<f>> \o Callers)
    BY <1>2, <1>4, <1>8 DEF CheckEventQueue, Continue
  <2>2. PICK r : r = RestoreTo(tpl)
    OBVIOUS
  <2> DEFINE N == {r, f}
  <2>3. Turns(N, C) /\ Plain(r)
    BY <1>5, <2>1, <2>2, SectionGoesOn
  <2>4. /\ Linked(queue'[event[e].ntpl], e)
        /\ \A x \in Event, t \in QueueLevels :
             /\ Linked(queue[t], x) => Linked(queue'[t], x)
             /\ Linked(queue'[t], x) =>
                  Linked(queue[t], x) \/ (x \in Q /\ t = event[e].ntpl)
    BY <1>3, <2>1, Notified
  <2>5. KindsKept /\ \A x \in Event : event'[x].trigger = event[x].trigger
    BY <1>1 DEF KindsKept
  <2>6. Adds(Q, {}) /\ \A x \in Q : event[x].alive
    BY <1>1, <1>3, <2>4, <2>5 DEF Adds
  <2>7. \A h \in N : FrameSafe(h)' /\ ~InHand(h) /\ ~IsAt(h, "Close", "unlink")
    <3>1. FrameSafe(f)'
      BY <1>1, <1>3, <1>5 DEF FrameSafe, InHand
    <3> QED
      BY <1>5, <1>6, <2>3, <3>1, PlainSafe DEF IsAt
  <2>8. \A x \in Event : event[x].alive /\ Is(x, "SIGNAL") /\ event'[x].count = 1 => Kept(N, x)
    <3> SUFFICES ASSUME NEW x \in Event, event'[x].count = 1 PROVE Kept(N, x)
      OBVIOUS
    <3>1. event[x].ntpl \in QueueLevels
      BY DEF IndInv, DataOK, EventRecord, QueueLevels
    <3> QED
      BY <1>1, <2>4, <3>1 DEF Kept
  <2>9. \A x \in Event : ~Carries(Top, x)
    BY <1>1 DEF Carries, Passes
  <2>10. \A g \in C : IsAt(g, "Close", "free") => g.ev \notin Q
    BY <1>1, <1>2, SafeTop DEF PairOK, IsAt
  <2> HIDE DEF N, Q, C
  <2>11. Latched'
    BY <1>1, <2>3, <2>5, <2>8, <2>9, KeepLatched
  <2> QED
    BY <1>1, <2>3, <2>5, <2>6, <2>7, <2>10, <2>11, QueueChange DEF Passes
<1>9. CASE ~Is(e, "SIGNAL") /\ ~(event[e].count = 0 /\ Is(e, "WAIT"))
  <2>1. stack' = <<f>> \o Callers /\ UNCHANGED queue
    BY <1>2, <1>4, <1>9 DEF CheckEventQueue, Continue
  <2>2. Turns({f}, C)
    BY <1>5, <2>1, GoesOnTurns
  <2>3. \A h \in {f} : FrameSafe(h) /\ ~InHand(h) /\ ~IsAt(h, "Close", "unlink")
    BY <1>5, <1>6 DEF IsAt
  <2> QED
    BY <1>1, <2>1, <2>2, <2>3, ControlStep
<1> QED
  BY <1>7, <1>8, <1>9

LEMMA CheckEventClearSafe ==
  ASSUME IndInv, SafeInv, CheckEventClear
  PROVE  SafeInv'
<1>1. /\ Top.proc = "CheckEvent" /\ Passes(Top) /\ Top.ev \in Event
      /\ UNCHANGED <<signalList, timerList, queue>>
  BY TopFacts DEF CheckEventClear, At, Passes, IsAt, FrameOK
<1>2. PICK e : e = Top.ev
  OBVIOUS
<1>3. CASE event[e].count = 0
  <2>1. stack' = Answer("next") /\ UNCHANGED event
    BY <1>2, <1>3 DEF CheckEventClear
  <2> QED
    BY <1>1, <2>1, AnswerSafe
<1>4. CASE event[e].count # 0
  <2>1. event' = [event EXCEPT ![e].count = 0] /\ EventLockSection(Answer("return"))
    BY <1>2, <1>4 DEF CheckEventClear
  <2>2. /\ KindsKept /\ \A x \in Event : event'[x].trigger = event[x].trigger
        /\ \A x \in Event : x # e => event'[x].count = event[x].count
        /\ event'[e].count = 0
    BY <1>1, <1>2, <2>1 DEF KindsKept, IndInv, DataOK, EventRecord
  <2>14. PICK M, K : Answers("return", M, K)
    BY AnswerStacked
  <2>3. /\ Stacked(Answer("return"), M \cup K) /\ Lower(M \cup K)
        /\ K \subseteq Frames(Callers)
        /\ \A f \in Frames(Callers) : f \in K \/ f.proc = "Wait"
        /\ \A f \in M : f.proc = "Wait" /\ FrameSafe(f)
    BY <2>14 DEF Answers
  <2>4. PICK r : r = RestoreTo(tpl)
    OBVIOUS
  <2> DEFINE N == {r} \cup M
             Q == {}
  <2>5. Stacked(stack', {r} \cup (M \cup K)) /\ Plain(r)
    <3> DEFINE s == Answer("return")
               G == M \cup K
    <3>1. Stacked(s, G) /\ Lower(G) /\ stack' = <<r>> \o s
      BY <2>1, <2>3, <2>4 DEF EventLockSection
    <3> HIDE DEF s, G
    <3>2. Stacked(<<r>> \o s, {r} \cup G) /\ Plain(r)
      BY <2>4, <3>1, OnRestore, TopFacts
    <3> QED
      BY <3>1, <3>2 DEF G
  <2>6. Turns(N, K)
    <3>1. {r} \cup (M \cup K) = N \cup K
      OBVIOUS
    <3> QED
      BY <2>3, <2>5, <3>1, SafeTop DEF Turns
  <2>7. Adds(Q, {}) /\ \A x \in Q : event[x].alive
    BY <1>1, <2>2 DEF Adds
  <2>8. \A f \in N : FrameSafe(f)' /\ ~InHand(f) /\ ~IsAt(f, "Close", "unlink")
    <3>1. ASSUME NEW f \in M
          PROVE  FrameSafe(f)' /\ ~InHand(f) /\ ~IsAt(f, "Close", "unlink")
      <4>1. \A i \in 1..Len(WaitList) : event[WaitList[i]].alive
        BY <2>3, <3>1 DEF FrameSafe
      <4>2. \A i \in 1..Len(WaitList) : event'[WaitList[i]].alive
        BY <2>2, <4>1, WaitListEvents DEF KindsKept
      <4> QED
        BY <2>3, <3>1, <4>2 DEF FrameSafe, InHand, IsAt, Reads
    <3> QED
      BY <2>5, <3>1, PlainSafe DEF IsAt
  <2>9. \A x \in Event : event[x].alive /\ Is(x, "SIGNAL") /\ event'[x].count = 1 => Kept(N, x)
    BY <1>1, <2>2 DEF Kept
  <2>10. \A x \in Event : ~Carries(Top, x)
    BY <1>1 DEF Carries, Passes
  <2>11. \A g \in K : IsAt(g, "Close", "free") => g.ev \notin Q
    OBVIOUS
  <2> HIDE DEF N, Q
  <2>12. Latched'
    BY <1>1, <2>2, <2>6, <2>9, <2>10, KeepLatched
  <2> QED
    BY <1>1, <2>2, <2>6, <2>7, <2>8, <2>11, <2>12, QueueChange DEF Passes
<1> QED
  BY <1>3, <1>4

-----------------------------------------------------------------------------
(***************************************************************************)
(* The timer interrupt.                                                    *)
(***************************************************************************)
LEMMA TimerTickSafe ==
  ASSUME IndInv, SafeInv, TimerTick
  PROVE  SafeInv'
<1>1. interrupts /\ stack' = <<RestoreTo(tpl), Isr>> \o stack
      /\ UNCHANGED <<signalList, timerList>>
  BY DEF TimerTick
<1>2. PICK r : r = RestoreTo(tpl)
  OBVIOUS
<1>3. PICK h : h = Isr
  OBVIOUS
<1>4. PICK e : e = CheckTimerEvent
  OBVIOUS
<1>5. tpl < TPL_HIGH_LEVEL
  BY <1>1 DEF IndInv, HighLevelMasksInterrupts
<1>6. Top.proc # "NotifyList"
  BY <1>5, TopFacts, HighLevelFacts DEF LevelOK
<1>7. Lower(Frames(stack)) /\ Stacked(stack, Frames(stack)) /\ Top \in Frames(stack)
  BY <1>6, SafeTop
<1>8. h \in Activation /\ h.proc = "Isr" /\ h.ev = NoEvent
  BY <1>3, TopFacts, ServiceFrames, BuiltFrames, Fixed
<1> DEFINE N == {r, h}
           K == Frames(stack)
           s == <<h>> \o stack
           G == {h} \cup K
<1>9. Stacked(s, G)
  <2>1. \A g \in K : PairOK(h, g)
    BY <1>7, <1>8, PairNeutral, Fixed
  <2> QED
    BY <1>7, <1>8, <2>1, PushStacked
<1>10. Lower(G)
  BY <1>7, <1>8 DEF Lower
<1>11. stack' = <<r>> \o s
  <2>1. r \in Activation
    BY <1>2, <1>7, OnRestore, TopFacts
  <2> QED
    BY <1>1, <1>2, <1>3, <1>8, <2>1, TwoSeq, TopFacts
<1>12. {r} \cup G = N \cup K
  OBVIOUS
<1> HIDE DEF s, G
<1>13. Stacked(<<r>> \o s, {r} \cup G) /\ Plain(r)
  BY <1>2, <1>9, <1>10, OnRestore, TopFacts
<1>14. Turns(N, K)
  BY <1>11, <1>12, <1>13 DEF Turns
<1>15. Plain(h)
  BY <1>8 DEF Plain, Reads
<1>16. \A f \in N : /\ FrameSafe(f) /\ FrameSafe(f)' /\ ~InHand(f)
                    /\ ~IsAt(f, "Close", "unlink")
  BY <1>13, <1>15, PlainSafe DEF IsAt
<1>17. Top \in K
  BY <1>7
<1>18. e \in Event /\ event[e].alive /\ e \notin Handle
  BY <1>4, Fixed DEF SafeInv, ListsOK
<1>19. CASE UNCHANGED <<event, queue>>
  <2> HIDE DEF N, K
  <2> QED
    BY <1>1, <1>14, <1>16, <1>17, <1>19, ControlStep
<1>20. CASE event' = [event EXCEPT ![e].count = 1] /\ NotifyEvent(e)
  <2> DEFINE Q == {e}
  <2>1. /\ KindsKept /\ \A x \in Event : event'[x].trigger = event[x].trigger
        /\ \A x \in Event : x # e => event'[x].count = event[x].count
    BY <1>18, <1>20 DEF KindsKept, IndInv, DataOK, EventRecord
  <2>2. /\ Linked(queue'[event[e].ntpl], e)
        /\ \A x \in Event, t \in QueueLevels :
             /\ Linked(queue[t], x) => Linked(queue'[t], x)
             /\ Linked(queue'[t], x) =>
                  Linked(queue[t], x) \/ (x \in Q /\ t = event[e].ntpl)
    BY <1>18, <1>20, Notified
  <2>3. Adds(Q, {}) /\ \A x \in Q : event[x].alive
    BY <1>1, <1>18, <2>1, <2>2 DEF Adds
  <2>4. \A x \in Event : event[x].alive /\ Is(x, "SIGNAL") /\ event'[x].count = 1 => Kept(N, x)
    <3> SUFFICES ASSUME NEW x \in Event, event'[x].count = 1 PROVE Kept(N, x)
      OBVIOUS
    <3>1. event[x].ntpl \in QueueLevels
      BY DEF IndInv, DataOK, EventRecord, QueueLevels
    <3> QED
      BY <2>1, <2>2, <3>1 DEF Kept
  <2>5. \A g \in K : IsAt(g, "Close", "free") => g.ev \notin Q
    BY <1>7, <1>18 DEF Lower, IsAt
  <2> HIDE DEF N, K, Q
  <2>6. Latched'
    BY <1>1, <1>14, <1>17, <2>1, <2>4, KeepLatched
  <2> QED
    BY <1>1, <1>14, <1>16, <1>17, <2>1, <2>3, <2>5, <2>6, QueueChange
<1> QED
  BY <1>4, <1>19, <1>20 DEF TimerTick

\* The event that is dispatched is not one an activation below is closing:
\* that one runs at the level of its notification or above.
LEMMA TakenNotClosing ==
  ASSUME IndInv, SafeInv, Top.proc = "Dispatch", NEW e \in Event,
         event[e].ntpl = Top.level, NEW g \in Frames(Callers), g.proc = "Close"
  PROVE  g.ev # e
<1>1. /\ Len(stack) > 1 /\ stack[2].level < Top.level /\ stack[2].proc = "RestoreTpl"
  BY CallerFacts DEF Bottom, CalledBy
<1>2. PICK i \in 1..Len(Callers) : g = Callers[i]
  BY DEF Frames
<1>3. i + 1 \in 1..Len(stack) /\ g = stack[i + 1]
  <2>1. stack \in Seq(Activation) /\ stack # <<>> /\ Callers = Tail(stack)
    BY TopFacts
  <2>2. /\ Len(Callers) = Len(stack) - 1
        /\ \A k \in 1..(Len(stack) - 1) : Callers[k] = stack[k + 1]
    BY <2>1, PopSeq
  <2>3. Len(stack) \in Nat
    BY <2>1
  <2> QED
    BY <1>2, <2>2, <2>3
<1>4. i + 1 > 2
  BY <1>1, <1>3
<1>5. \A a, b \in 1..Len(stack) : a < b => stack[a].level >= stack[b].level
  BY TopFacts DEF StackOK
<1>6. stack[2].level >= g.level
  BY <1>1, <1>3, <1>4, <1>5
<1>7. g.level >= event[g.ev].ntpl
  BY SafeTop DEF FrameSafe
<1>8. /\ g.level \in Nat /\ Top.level \in Nat /\ stack[2].level \in Nat
  BY <1>1, <1>3, TopFacts, LevelsAreNumbers
<1>9. g.ev = e => event[e].ntpl <= stack[2].level
  <2>1. event[e].ntpl \in Nat
    BY <1>8
  <2> QED
    BY <1>6, <1>7, <1>8, <2>1
<1> QED
  BY <1>1, <1>8, <1>9

LEMMA DispatchTakeSafe ==
  ASSUME IndInv, SafeInv, DispatchTake
  PROVE  SafeInv'
<1> DEFINE C == Frames(Callers)
<1>1. /\ Top.proc = "Dispatch" /\ Top.pc = "lock" /\ queue[Top.level] # <<>>
      /\ UNCHANGED <<signalList, timerList>>
  BY DEF DispatchTake, At
<1>2. PICK p : p = Top.level
  OBVIOUS
<1>3. PICK e : e = Head(queue[p])
  OBVIOUS
<1>4. /\ queue' = [queue EXCEPT ![p] = Tail(@)]
      /\ event' = [event EXCEPT ![e].count = IF Is(e, "SIGNAL") THEN 0 ELSE @]
  BY <1>2, <1>3 DEF DispatchTake
<1>5. p \in QueueLevels /\ queue[p] \in Seq(Event) /\ NoDuplicates(queue[p])
      /\ queue \in [QueueLevels -> Seq(Event)]
  BY <1>1, <1>2, TopFacts DEF FrameOK, QueueLevels, IndInv, DataOK, QueueConsistent
<1>6. /\ e \in Event /\ Linked(queue[p], e)
      /\ \A x : Linked(Tail(queue[p]), x) => Linked(queue[p], x)
      /\ \A x : x # e /\ Linked(queue[p], x) => Linked(Tail(queue[p]), x)
  BY <1>1, <1>2, <1>3, <1>5, TailList, TailKeeps
<1>7. event[e].alive /\ event[e].ntpl = p
  BY <1>5, <1>6 DEF SafeInv, ListsOK
<1>8. PICK f : f = [Top EXCEPT !.pc = "notify", !.ev = e]
  OBVIOUS
<1>9. EventLockSection(<<f>> \o Callers)
  BY <1>2, <1>3, <1>8 DEF DispatchTake
<1>10. /\ f \in FrameRecord /\ f.proc = "Dispatch" /\ f.pc = "notify" /\ f.ev = e
       /\ f.level = Top.level
  BY <1>1, <1>6, <1>8, TopFacts DEF FrameRecord, Pcs
<1>11. f \in Activation
  BY <1>6, <1>10, <1>1, TopFacts DEF Activation, FrameOK
<1>12. \A g \in C : g.proc = "Close" => g.ev # e
  BY <1>1, <1>2, <1>6, <1>7, TakenNotClosing
<1>13. \A g \in C : PairOK(f, g)
  BY <1>10, <1>12, SafeTop DEF PairOK, Lower
<1>14. PICK r : r = RestoreTo(tpl)
  OBVIOUS
<1> DEFINE N == {r, f}
           Q == {}
<1>15. Turns(N, C) /\ Plain(r)
  BY <1>9, <1>10, <1>11, <1>13, <1>14, SectionGoesOn
<1>16. /\ KindsKept /\ \A x \in Event : event'[x].trigger = event[x].trigger
       /\ \A x \in Event : x # e => event'[x].count = event[x].count
       /\ Is(e, "SIGNAL") => event'[e].count = 0
  BY <1>4, <1>6 DEF KindsKept, IndInv, DataOK, EventRecord
<1>17. /\ queue'[p] = Tail(queue[p])
       /\ \A t \in QueueLevels : t # p => queue'[t] = queue[t]
  BY <1>4, <1>5
<1>18. Adds(Q, {}) /\ \A x \in Q : event[x].alive
  <2>1. \A x \in Event, t \in QueueLevels : Linked(queue'[t], x) => Linked(queue[t], x)
    BY <1>6, <1>17
  <2> QED
    BY <1>1, <1>16, <2>1 DEF Adds
<1>19. \A h \in N : FrameSafe(h)' /\ ~InHand(h) /\ ~IsAt(h, "Close", "unlink")
  <2>1. event'[e].alive
    BY <1>6, <1>7, <1>16 DEF KindsKept
  <2>2. FrameSafe(f)' /\ ~InHand(f) /\ ~IsAt(f, "Close", "unlink")
    BY <1>10, <2>1 DEF FrameSafe, InHand, IsAt
  <2> QED
    BY <1>15, <2>2, PlainSafe DEF IsAt
<1>20. \A x \in Event : event[x].alive /\ Is(x, "SIGNAL") /\ event'[x].count = 1 => Kept(N, x)
  <2> SUFFICES ASSUME NEW x \in Event, Is(x, "SIGNAL"), event'[x].count = 1 PROVE Kept(N, x)
    OBVIOUS
  <2>1. x # e
    BY <1>16
  <2>2. event[x].ntpl \in QueueLevels
    BY DEF IndInv, DataOK, EventRecord, QueueLevels
  <2>3. Linked(queue[event[x].ntpl], x) => Linked(queue'[event[x].ntpl], x)
    BY <1>6, <1>17, <2>1, <2>2
  <2> QED
    BY <1>16, <2>1, <2>3 DEF Kept
<1>21. \A x \in Event : ~Carries(Top, x)
  BY <1>1 DEF Carries, IsAt
<1>22. ~IsAt(Top, "SetTimer", "remove") /\ ~IsAt(Top, "Close", "free")
  BY <1>1 DEF IsAt
<1>23. \A g \in C : IsAt(g, "Close", "free") => g.ev \notin Q
  OBVIOUS
<1> HIDE DEF N, Q, C
<1>24. Latched'
  BY <1>1, <1>15, <1>16, <1>20, <1>21, KeepLatched
<1> QED
  BY <1>1, <1>15, <1>16, <1>18, <1>19, <1>22, <1>23, <1>24, QueueChange

-----------------------------------------------------------------------------
(***************************************************************************)
(* CoreCloseEvent.                                                         *)
(***************************************************************************)
\* An activation that stays while entries leave the lists and an event that
\* it does not use is freed.
LEMMA FrameShrinks ==
  ASSUME NEW f \in Activation, FrameSafe(f),
         \A x \in Event :
           /\ Uses(f, x) /\ event[x].alive => event'[x].alive
           /\ event'[x].type = event[x].type /\ event'[x].ntpl = event[x].ntpl
           /\ Linked(timerList', x) => Linked(timerList, x)
           /\ Linked(signalList', x) => Linked(signalList, x)
           /\ \A t \in QueueLevels : Linked(queue'[t], x) => Linked(queue[t], x)
  PROVE  FrameSafe(f)'
<1>1. Reads(f) => event'[f.ev].alive
  BY ReadsEvent DEF FrameSafe, Uses
<1>2. f.proc = "Wait" => \A i \in 1..Len(WaitList) : event'[WaitList[i]].alive
  BY WaitListEvents DEF FrameSafe, Uses, Linked
<1>3. InHand(f) =>
        "TIMER" \in event'[f.ev].type /\ ~Linked(timerList', f.ev)
  BY ReadsEvent DEF FrameSafe, Is
<1>4. f.proc = "Close" =>
        /\ f.ev \in Handle /\ "Close" \in Ops
        /\ f.level >= event'[f.ev].ntpl
        /\ f.pc = "free" =>
             /\ ~Linked(timerList', f.ev)
             /\ ~Linked(signalList', f.ev)
             /\ \A t \in QueueLevels : ~Linked(queue'[t], f.ev)
  BY ReadsEvent DEF FrameSafe
<1> QED
  BY <1>1, <1>2, <1>3, <1>4 DEF FrameSafe, Is

\* The timer of the event is cancelled when it is unlinked.
LEMMA CancelledAtUnlink ==
  ASSUME IndInv, SafeInv, IsAt(Top, "Close", "unlink")
  PROVE  ~Timing(Top.ev)
<1> SUFFICES ASSUME NEW h \in Frames(stack), IsAt(h, "SetTimer", "remove"), h.ev = Top.ev
             PROVE  FALSE
  <2>1. Top \in Frames(stack)
    BY SafeTop
  <2> QED
    BY <2>1 DEF SafeInv, CancelsOK
<1>1. h \in Frames(Callers)
  BY SafeTop DEF IsAt
<1>2. PairOK(Top, h)
  BY <1>1, SafeTop
<1> QED
  BY <1>2 DEF PairOK, Uses, Reads, IsAt

LEMMA CloseEventUnlinkSafe ==
  ASSUME IndInv, SafeInv, CloseEventUnlink
  PROVE  SafeInv'
<1> DEFINE C == Frames(Callers)
<1>1. /\ Top.proc = "Close" /\ Top.pc = "unlink" /\ IsAt(Top, "Close", "unlink")
      /\ UNCHANGED <<timerList, event>>
  BY DEF CloseEventUnlink, At, IsAt
<1>2. PICK e : e = Top.ev
  OBVIOUS
<1>3. /\ e \in Event /\ e \in Handle /\ event[e].alive /\ "Close" \in Ops
      /\ Top.level >= event[e].ntpl
  BY <1>1, <1>2, SafeTop, Fixed DEF FrameSafe, Reads
<1>4. ~Timing(e)
  BY <1>1, <1>2, CancelledAtUnlink
<1>5. PICK f : f = [Top EXCEPT !.pc = "free"]
  OBVIOUS
<1>6. /\ f \in Activation /\ f.proc = "Close" /\ f.pc = "free" /\ f.ev = e
      /\ f.level = Top.level /\ \A g \in C : PairOK(f, g)
  <2>1. "free" \in Pcs \ {"notify", "dispatch"}
    BY DEF Pcs
  <2>2. /\ f \in Activation /\ f.pc = "free" /\ f.proc = Top.proc /\ f.level = Top.level
        /\ f.ev = Top.ev /\ \A g \in C : PairOK(f, g)
    BY <1>5, <2>1, Further
  <2> QED
    BY <1>1, <1>2, <2>2
<1>7. EventLockSection(<<f>> \o Callers)
  BY <1>5 DEF CloseEventUnlink, Continue
<1>8. PICK r : r = RestoreTo(tpl)
  OBVIOUS
<1> DEFINE N == {r, f}
<1>9. Turns(N, C) /\ Plain(r)
  BY <1>3, <1>6, <1>7, <1>8, SectionGoesOn
<1>10. /\ NoDuplicates(signalList') /\ ~Linked(signalList', e)
       /\ \A x : Linked(signalList', x) => Linked(signalList, x)
       /\ \A x : x # e /\ Linked(signalList, x) => Linked(signalList', x)
  <2>1. signalList' = Unlink(signalList, e)
    BY <1>2 DEF CloseEventUnlink
  <2>2. signalList \in Seq(Event) /\ NoDuplicates(signalList)
    BY DEF IndInv, DataOK, SafeInv, ListsOK
  <2> QED
    BY <1>3, <2>1, <2>2, UnlinkList, UnlinkKeeps
<1>11. ASSUME NEW t \in QueueLevels
       PROVE  /\ ~Linked(queue'[t], e)
              /\ \A x : Linked(queue'[t], x) => Linked(queue[t], x)
              /\ \A x : x # e /\ Linked(queue[t], x) => Linked(queue'[t], x)
  <2>1. queue'[t] = Unlink(queue[t], e)
    BY <1>2 DEF CloseEventUnlink
  <2>2. queue[t] \in Seq(Event) /\ NoDuplicates(queue[t])
    BY DEF IndInv, DataOK, QueueConsistent
  <2> QED
    BY <1>3, <2>1, <2>2, UnlinkList, UnlinkKeeps
<1>12. ListsOK'
  <2>1. ListsOK
    BY DEF SafeInv
  <2>2. TimerListSorted'
    BY <1>1, <2>1 DEF ListsOK, TimerListSorted
  <2> QED
    BY <1>1, <1>10, <1>11, <2>1, <2>2 DEF ListsOK, Is
<1>13. FrameSafe(f)'
  <2>1. ~Linked(timerList', e)
    BY <1>1, <1>4 DEF Timing
  <2> QED
    BY <1>1, <1>3, <1>6, <1>10, <1>11, <2>1 DEF FrameSafe, InHand
<1>14. FramesSafe'
  <2>1. ASSUME NEW g \in C PROVE FrameSafe(g)'
    <3>1. FrameSafe(g) /\ g \in Activation
      BY SafeTop DEF Frames, Stacked
    <3> QED
      BY <1>1, <1>10, <1>11, <3>1, FrameShrinks
  <2>2. FrameSafe(r)'
    BY <1>9, PlainSafe
  <2>3. \A g \in N \cup C : FrameSafe(g)'
    BY <1>13, <2>1, <2>2
  <2>4. Frames(stack') = N \cup C
    BY <1>9 DEF Turns, Stacked
  <2> HIDE DEF N, C
  <2> QED
    BY <2>3, <2>4 DEF FramesSafe
<1>15. \A h \in N : ~InHand(h) /\ ~IsAt(h, "Close", "unlink")
  BY <1>6, <1>9, PlainSafe DEF IsAt, InHand
<1>16. ~IsAt(Top, "SetTimer", "remove") /\ ~IsAt(Top, "Close", "free")
  BY <1>1 DEF IsAt
<1>17. f \in N
  OBVIOUS
<1> HIDE DEF N, C
<1>18. /\ Frames(stack') = N \cup C
       /\ \A h \in Frames(stack) : h = Top \/ h \in C
       /\ \A h \in C : h.proc # "NotifyList"
  BY <1>9, SafeTop DEF Turns, Stacked, C, Lower
<1>19. CancelsOK'
  <2>1. \A x \in Event : Linked(timerList', x) => Timing(x)
    BY <1>1 DEF Timing
  <2> QED
    BY <1>9, <1>15, <1>16, <2>1, KeepCancels
<1>20. ASSUME NEW x \in Event, event[x].alive, Is(x, "SIGNAL")
       PROVE  Linked(signalList', x) \/ \E h \in N \cup C : IsAt(h, "Close", "free") /\ h.ev = x
  <2>1. CASE x = e
    BY <1>6, <1>17, <2>1 DEF IsAt
  <2>2. CASE x # e
    <3>1. Linked(signalList, x) \/ \E h \in Frames(stack) : IsAt(h, "Close", "free") /\ h.ev = x
      BY <1>20 DEF SafeInv, SignalsKnown
    <3>2. CASE Linked(signalList, x)
      BY <1>10, <2>2, <3>2
    <3>3. CASE \E h \in Frames(stack) : IsAt(h, "Close", "free") /\ h.ev = x
      BY <1>16, <1>18, <3>3
    <3> QED
      BY <3>1, <3>2, <3>3
  <2> QED
    BY <2>1, <2>2
<1>21. SignalsKnown'
  BY <1>1, <1>18, <1>20 DEF SignalsKnown, Is
<1>22. ASSUME NEW x \in Event, event[x].alive, Is(x, "SIGNAL"), event[x].count = 1
       PROVE  \/ Linked(queue'[event[x].ntpl], x)
              \/ \E h \in N \cup C : Carries(h, x)'
  <2>1. CASE x = e
    BY <1>6, <1>17, <2>1 DEF Carries, IsAt
  <2>2. CASE x # e /\ Linked(queue[event[x].ntpl], x)
    <3>1. event[x].ntpl \in QueueLevels
      BY DEF IndInv, DataOK, EventRecord, QueueLevels
    <3> QED
      BY <1>11, <2>2, <3>1
  <2>3. CASE x # e /\ ~Linked(queue[event[x].ntpl], x)
    <3>1. PICK h \in Frames(stack) : Carries(h, x)
      BY <1>22, <2>3 DEF SafeInv, Latched
    <3>2. h \in C
      BY <1>2, <1>18, <2>3, <3>1 DEF Carries
    <3>3. Carries(h, x)'
      BY <1>18, <3>1, <3>2 DEF Carries
    <3> QED
      BY <3>2, <3>3
  <2> QED
    BY <2>1, <2>2, <2>3
<1>23. Latched'
  BY <1>1, <1>18, <1>22 DEF Latched, Is
<1>24. PairsOK(stack')
  BY <1>9 DEF Turns, Stacked
<1> QED
  BY <1>12, <1>14, <1>19, <1>21, <1>23, <1>24 DEF SafeInv

LEMMA CloseEventFreeSafe ==
  ASSUME IndInv, SafeInv, CloseEventFree
  PROVE  SafeInv'
<1>1. /\ Top.proc = "Close" /\ Top.pc = "free" /\ stack' = Callers
      /\ UNCHANGED <<timerList, signalList, queue>>
  BY DEF CloseEventFree, At
<1>2. PICK e : e = Top.ev
  OBVIOUS
<1>3. PICK C : C = Frames(Callers)
  OBVIOUS
<1>4. /\ e \in Event /\ e \in Handle
      /\ ~Linked(timerList, e) /\ ~Linked(signalList, e)
      /\ \A t \in QueueLevels : ~Linked(queue[t], e)
  BY <1>1, <1>2, SafeTop, Fixed DEF FrameSafe
<1>5. /\ \A x \in Event : x # e => event'[x] = event[x]
      /\ event'[e] = [event[e] EXCEPT !.alive = FALSE]
  BY <1>2, <1>4 DEF CloseEventFree, IndInv, DataOK
<1>6. /\ \A x \in Event :
           /\ event'[x].type = event[x].type /\ event'[x].ntpl = event[x].ntpl
           /\ event'[x].count = event[x].count /\ event'[x].trigger = event[x].trigger
      /\ ~event'[e].alive
  BY <1>4, <1>5 DEF IndInv, DataOK, EventRecord
<1>7. /\ Frames(stack') = C /\ \A h \in Frames(stack) : h = Top \/ h \in C
      /\ \A h \in C : FrameSafe(h) /\ h \in Activation /\ ~Uses(h, e) /\ h.proc # "NotifyList"
  <2>1. \A h \in C : PairOK(Top, h) /\ FrameSafe(h)
    BY <1>3, SafeTop
  <2>2. \A h \in C : h \in Activation
    BY <1>3, SafeTop DEF Frames, Stacked
  <2> QED
    BY <1>1, <1>2, <1>3, <2>1, <2>2, SafeTop DEF PairOK
<1>8. ListsOK'
  <2>1. ListsOK
    BY DEF SafeInv
  <2>2. TimerListSorted'
    <3>1. \A i \in 1..Len(timerList) : timerList[i] \in Event
      BY DEF IndInv, DataOK
    <3> QED
      BY <1>1, <1>6, <2>1, <3>1 DEF ListsOK, TimerListSorted
  <2>3. CheckTimerEvent # e /\ IdleLoopEvent # e
    BY <1>4, Fixed
  <2> QED
    BY <1>1, <1>4, <1>5, <2>1, <2>2, <2>3, Fixed DEF ListsOK, Is
<1>9. FramesSafe'
  <2>1. ASSUME NEW g \in C PROVE FrameSafe(g)'
    BY <1>1, <1>5, <1>6, <1>7, FrameShrinks
  <2> QED
    BY <1>7, <2>1 DEF FramesSafe
<1>10. PairsOK(stack')
  BY <1>1, SafeTop DEF Stacked
<1>11. CancelsOK'
  <2> DEFINE N == {}
  <2>1. Turns(N, C)
    BY <1>1, <1>3, ReturnTurns
  <2>2. \A x \in Event : Linked(timerList', x) => Timing(x)
    BY <1>1 DEF Timing
  <2>3. ~IsAt(Top, "SetTimer", "remove")
    BY <1>1 DEF IsAt
  <2>4. \A f \in N : ~InHand(f) /\ ~IsAt(f, "Close", "unlink")
    OBVIOUS
  <2> HIDE DEF N
  <2> QED
    BY <2>1, <2>2, <2>3, <2>4, KeepCancels
<1>12. SignalsKnown'
  <2> SUFFICES ASSUME NEW x \in Event, event'[x].alive, "SIGNAL" \in event'[x].type
               PROVE  \/ Linked(signalList, x)
                      \/ \E h \in C : IsAt(h, "Close", "free") /\ h.ev = x
    BY <1>1, <1>7 DEF SignalsKnown, Is
  <2>1. x # e /\ event[x].alive /\ Is(x, "SIGNAL")
    BY <1>5, <1>6 DEF Is
  <2>2. Linked(signalList, x) \/ \E h \in Frames(stack) : IsAt(h, "Close", "free") /\ h.ev = x
    BY <2>1 DEF SafeInv, SignalsKnown
  <2> QED
    BY <1>2, <1>7, <2>1, <2>2
<1>13. Latched'
  <2> SUFFICES ASSUME NEW x \in Event, event'[x].alive, "SIGNAL" \in event'[x].type,
                      event'[x].count = 1
               PROVE  Linked(queue[event[x].ntpl], x) \/ \E h \in C : Carries(h, x)'
    BY <1>1, <1>6, <1>7 DEF Latched, Is
  <2>1. x # e /\ event[x].alive /\ Is(x, "SIGNAL") /\ event[x].count = 1
    BY <1>5, <1>6 DEF Is
  <2>2. Linked(queue[event[x].ntpl], x) \/ \E h \in Frames(stack) : Carries(h, x)
    BY <2>1 DEF SafeInv, Latched
  <2>3. ASSUME NEW h \in Frames(stack), Carries(h, x)
        PROVE  h \in C /\ Carries(h, x)'
    BY <1>1, <1>2, <1>7, <2>1, <2>3 DEF Carries
  <2> QED
    BY <2>2, <2>3
<1> QED
  BY <1>8, <1>9, <1>10, <1>11, <1>12, <1>13 DEF SafeInv

-----------------------------------------------------------------------------
(***************************************************************************)
(* CoreSetTimer and CoreCheckTimers.                                       *)
(***************************************************************************)
\* TimerListSorted, of a list and the trigger times in ev.
Sorted(list, ev) ==
  /\ NoDuplicates(list)
  /\ \A i, j \in 1..Len(list) : i < j => ev[list[i]].trigger <= ev[list[j]].trigger

\* The trigger time changes of an event that is not linked.
LEMMA SortedElsewhere ==
  ASSUME NEW list \in Seq(Event), NEW ev, NEW ew, Sorted(list, ev), NEW e, ~Linked(list, e),
         \A x \in Event : x # e => ew[x].trigger = ev[x].trigger
  PROVE  Sorted(list, ew)
<1>1. \A i \in 1..Len(list) : list[i] \in Event /\ list[i] # e
  BY DEF Linked
<1> QED
  BY <1>1 DEF Sorted

LEMMA UnlinkSorted ==
  ASSUME NEW list \in Seq(Event), NEW ev \in [Event -> EventRecord], Sorted(list, ev),
         NEW e \in Event
  PROVE  Sorted(Unlink(list, e), ev)
<1>1. CASE ~Linked(list, e)
  BY <1>1 DEF Unlink
<1>2. CASE Linked(list, e)
  <2> DEFINE k == PositionOf(list, e)
             r == RemoveEntryList(list, e)
  <2>1. k \in 1..Len(list)
    BY <1>2, Position
  <2> HIDE DEF k
  <2>2. r = [i \in 1..(Len(list) - 1) |-> IF i < k THEN list[i] ELSE list[i + 1]]
    BY DEF RemoveEntryList, k
  <2>3. Len(r) = Len(list) - 1 /\ Len(list) \in Nat
    BY <2>1, <2>2
  <2>4. \A i \in 1..Len(r) : r[i] = IF i < k THEN list[i] ELSE list[i + 1]
    BY <2>2, <2>3
  <2> HIDE DEF r
  <2>5. Unlink(list, e) = r /\ NoDuplicates(r)
    <3>1. NoDuplicates(list)
      BY DEF Sorted
    <3> QED
      BY <1>2, <3>1, UnlinkList DEF Unlink, r
  <2>6. ASSUME NEW i \in 1..Len(r), NEW j \in 1..Len(r), i < j
        PROVE  ev[r[i]].trigger <= ev[r[j]].trigger
    <3> DEFINE a == IF i < k THEN i ELSE i + 1
               b == IF j < k THEN j ELSE j + 1
    <3>1. a \in 1..Len(list) /\ b \in 1..Len(list) /\ a < b
      BY <2>1, <2>3, <2>6
    <3>2. r[i] = list[a] /\ r[j] = list[b]
      BY <2>4
    <3> HIDE DEF a, b
    <3> QED
      BY <3>1, <3>2 DEF Sorted
  <2> QED
    BY <2>5, <2>6 DEF Sorted
<1> QED
  BY <1>1, <1>2

LEMMA TailSorted ==
  ASSUME NEW list \in Seq(Event), NEW ev, Sorted(list, ev), list # <<>>
  PROVE  Sorted(Tail(list), ev) /\ ~Linked(Tail(list), Head(list))
<1>1. /\ Len(Tail(list)) = Len(list) - 1 /\ Len(list) \in Nat /\ Head(list) = list[1]
      /\ \A i \in 1..Len(Tail(list)) : Tail(list)[i] = list[i + 1] /\ i + 1 \in 1..Len(list)
  BY PopSeq
<1>2. NoDuplicates(Tail(list))
  BY <1>1 DEF NoDuplicates, Sorted
<1>3. ASSUME NEW i \in 1..Len(Tail(list)), NEW j \in 1..Len(Tail(list)), i < j
      PROVE  ev[Tail(list)[i]].trigger <= ev[Tail(list)[j]].trigger
  <2>1. i + 1 < j + 1
    BY <1>3
  <2> QED
    BY <1>1, <2>1 DEF Sorted
<1>4. ~Linked(Tail(list), Head(list))
  <2> SUFFICES ASSUME NEW i \in 1..Len(Tail(list)), Tail(list)[i] = Head(list) PROVE FALSE
    BY DEF Linked
  <2>1. 1 \in 1..Len(list) /\ i + 1 # 1 /\ list[i + 1] = list[1]
    BY <1>1
  <2> QED
    BY <1>1, <2>1 DEF Sorted, NoDuplicates
<1> QED
  BY <1>2, <1>3, <1>4 DEF Sorted

\* CoreInsertEventTimer finds the place.
LEMMA InsertSorted ==
  ASSUME IndInv, NEW list \in Seq(Event), NEW e \in Event, Sorted(list, event),
         ~Linked(list, e)
  PROVE  /\ Sorted(InsertEventTimer(list, e), event)
         /\ \A x : Linked(InsertEventTimer(list, e), x) => x = e \/ Linked(list, x)
<1> DEFINE later == {i \in 1..Len(list) : event[list[i]].trigger > event[e].trigger}
           at == IF later = {} THEN Len(list) + 1
                 ELSE CHOOSE i \in later : \A j \in later : i <= j
           r == InsertEventTimer(list, e)
           key(x) == event[x].trigger
<1>1. \A x \in Event : key(x) \in Nat
  BY DEF IndInv, DataOK, EventRecord
<1>2. Len(list) \in Nat /\ \A i \in 1..Len(list) : list[i] \in Event /\ list[i] # e
  BY DEF Linked
<1>3. later \subseteq 1..Len(list) /\ later \in SUBSET Nat
  OBVIOUS
<1>4. \A i \in 1..Len(list) : i \in later <=> key(list[i]) > key(e)
  OBVIOUS
<1>5. /\ NoDuplicates(list)
      /\ \A i, j \in 1..Len(list) : i < j => key(list[i]) <= key(list[j])
  BY DEF Sorted
<1>6. r = InsertBefore(list, at, e)
  BY DEF InsertEventTimer
<1> HIDE DEF later
<1>7. /\ at \in 1..(Len(list) + 1)
      /\ \A j \in later : at <= j
      /\ at <= Len(list) => at \in later
  <2>1. CASE later = {}
    BY <1>2, <2>1
  <2>2. CASE later # {}
    <3>1. \E i \in later : \A j \in later : i <= j
      BY <1>3, <2>2, SmallestNat
    <3>2. at \in later /\ \A j \in later : at <= j
      BY <2>2, <3>1
    <3> HIDE DEF at
    <3> QED
      BY <1>2, <1>3, <3>2
  <2> QED
    BY <2>1, <2>2
<1> HIDE DEF at, key, r
<1>8. \A i \in 1..Len(list) : i < at => key(list[i]) <= key(e)
  <2> SUFFICES ASSUME NEW i \in 1..Len(list), i < at PROVE key(list[i]) <= key(e)
    OBVIOUS
  <2>1. i \notin later
    BY <1>7
  <2> QED
    BY <1>1, <1>2, <1>4, <2>1
<1>9. \A i \in 1..Len(list) : i >= at => key(e) <= key(list[i])
  <2> SUFFICES ASSUME NEW i \in 1..Len(list), i >= at PROVE key(e) <= key(list[i])
    OBVIOUS
  <2>1. at \in later /\ at \in 1..Len(list)
    BY <1>2, <1>7
  <2>2. key(list[at]) > key(e) /\ key(list[at]) <= key(list[i])
    BY <1>1, <1>2, <1>4, <1>5, <2>1
  <2> QED
    BY <1>1, <1>2, <2>1, <2>2
<1>10. /\ Len(r) = Len(list) + 1
       /\ \A i \in 1..Len(r) : r[i] = IF i < at THEN list[i] ELSE IF i = at THEN e ELSE list[i - 1]
  <2>1. r = [i \in 1..(Len(list) + 1) |-> IF i < at THEN list[i] ELSE IF i = at THEN e ELSE list[i - 1]]
    BY <1>6 DEF InsertBefore
  <2> QED
    BY <1>2, <2>1
<1>11. ASSUME NEW i \in 1..Len(r)
       PROVE  \/ i < at /\ i \in 1..Len(list) /\ r[i] = list[i]
              \/ i = at /\ r[i] = e
              \/ i > at /\ i - 1 \in 1..Len(list) /\ i - 1 >= at /\ r[i] = list[i - 1]
  BY <1>2, <1>7, <1>10
<1>12. \A x : Linked(r, x) => x = e \/ Linked(list, x)
  BY <1>11 DEF Linked
<1>13. NoDuplicates(r)
  <2> SUFFICES ASSUME NEW i \in 1..Len(r), NEW j \in 1..Len(r), r[i] = r[j]
               PROVE  i = j
    BY DEF NoDuplicates
  <2>1. CASE i = at \/ j = at
    BY <1>2, <1>11, <2>1
  <2>2. CASE i # at /\ j # at
    BY <1>2, <1>5, <1>7, <1>11, <2>2 DEF NoDuplicates
  <2> QED
    BY <2>1, <2>2
<1>14. ASSUME NEW i \in 1..Len(r), NEW j \in 1..Len(r), i < j
       PROVE  key(r[i]) <= key(r[j])
  <2>1. CASE i = at
    BY <1>2, <1>7, <1>9, <1>11, <1>14, <2>1
  <2>2. CASE j = at
    BY <1>2, <1>7, <1>8, <1>11, <1>14, <2>2
  <2>3. CASE i # at /\ j # at
    <3> DEFINE a == IF i < at THEN i ELSE i - 1
               b == IF j < at THEN j ELSE j - 1
    <3>1. a \in 1..Len(list) /\ b \in 1..Len(list) /\ a < b
      BY <1>2, <1>7, <1>11, <1>14, <2>3
    <3>2. r[i] = list[a] /\ r[j] = list[b]
      BY <1>7, <1>11, <2>3
    <3> HIDE DEF a, b
    <3> QED
      BY <1>5, <3>1, <3>2
  <2> QED
    BY <2>1, <2>2, <2>3
<1> QED
  BY <1>12, <1>13, <1>14 DEF Sorted, key, r

\* The holder of mEfiTimerLock is the only one.
LEMMA HandsEmpty ==
  ASSUME IndInv, SafeInv, Holds(Top) \/ IsAt(Top, "SetTimer", "remove")
  PROVE  \A g \in Frames(Callers) : ~InHand(g)
<1> SUFFICES ASSUME NEW g \in Frames(Callers), InHand(g) PROVE FALSE
  OBVIOUS
<1>1. PICK i \in 1..Len(Callers) : g = Callers[i]
  BY DEF Frames
<1>2. 1 \in 1..Len(stack) /\ i + 1 \in 1..Len(stack) /\ g = stack[i + 1] /\ i + 1 # 1
  BY <1>1, TopFacts, PopSeq
<1>3. Holds(g)
  BY DEF InHand, Holds
<1>4. CASE Holds(Top)
  BY <1>2, <1>3, <1>4, TopFacts DEF LockOK
<1>5. CASE IsAt(Top, "SetTimer", "remove")
  <2>1. At("SetTimer", "remove")
    BY <1>5, TopFacts DEF At, IsAt
  <2> QED
    BY <1>2, <1>3, <2>1, LockIsFree
<1> QED
  BY <1>4, <1>5

\* A step of the timer services: the timers T are linked, and only times
\* change in the structures.
OnlyTimes ==
  /\ KindsKept
  /\ \A e \in Event : event'[e].count = event[e].count

LEMMA TimerChange ==
  ASSUME IndInv, SafeInv, NEW N, NEW K, Turns(N, K), OnlyTimes,
         UNCHANGED <<queue, signalList>>, Sorted(timerList', event'),
         NEW T,
         \A e \in Event : Linked(timerList', e) => Linked(timerList, e) \/ e \in T,
         \A e \in T : event[e].alive /\ Is(e, "TIMER") /\ Timing(e),
         \A f \in N : FrameSafe(f)' /\ ~IsAt(f, "Close", "unlink"),
         \A f \in K : (IsAt(f, "Close", "free") \/ InHand(f)) => f.ev \notin T,
         \/ ~IsAt(Top, "SetTimer", "remove")
         \/ \A e \in Event : e = Top.ev => ~(Timing(e)')
         \/ \A g \in K : g.proc = "Close" => g.ev # Top.ev,
         \A f \in N : InHand(f) =>
           Timing(f.ev) \/ \A g \in K : g.proc = "Close" => g.ev # f.ev,
         Top.proc \in {"SetTimer", "CheckTimers"}
  PROVE  SafeInv'
<1> DEFINE Q == {}
<1>1. TimerListSorted'
  BY DEF Sorted, TimerListSorted
<1>2. Adds(Q, T) /\ KindsKept
  BY DEF Adds, OnlyTimes
<1>3. \A e \in Q : event[e].alive
  OBVIOUS
<1>4. \A f \in K : /\ IsAt(f, "Close", "free") => f.ev \notin Q \cup T
                   /\ InHand(f) => f.ev \notin T
  OBVIOUS
<1> HIDE DEF Q
<1>5. ListsOK'
  BY <1>1, <1>2, <1>3, KeepLists
<1>6. FramesSafe'
  BY <1>2, <1>4, KeepFrames
<1>7. \A e \in Event : Linked(timerList', e) => Timing(e)
  BY DEF Timing
<1>8. CancelsOK'
  BY <1>7, KeepCancels
<1>9. ~IsAt(Top, "Close", "free") /\ \A e \in Event : ~Carries(Top, e)
  BY DEF IsAt, Carries
<1>10. SignalsKnown'
  BY <1>2, <1>9, KeepSignals
<1>11. \A e \in Event :
         event[e].alive /\ Is(e, "SIGNAL") /\ event'[e].count = 1 => Kept(N, e)
  BY DEF OnlyTimes, Kept
<1>12. Latched'
  BY <1>2, <1>9, <1>11, KeepLatched
<1> QED
  BY <1>5, <1>6, <1>8, <1>10, <1>12 DEF SafeInv, Turns, Stacked

\* The times of e change.
LEMMA TimesEdit ==
  ASSUME IndInv, NEW e \in Event, NEW t, NEW p,
         \/ event' = [event EXCEPT ![e].trigger = t, ![e].period = p]
         \/ event' = [event EXCEPT ![e].trigger = t]
         \/ event' = event
  PROVE  OnlyTimes /\ \A x \in Event : x # e => event'[x].trigger = event[x].trigger
<1>1. event \in [Event -> EventRecord]
  BY DEF IndInv, DataOK
<1>2. \A x \in Event : x # e => event'[x] = event[x]
  BY <1>1
<1>3. /\ event'[e].alive = event[e].alive /\ event'[e].type = event[e].type
      /\ event'[e].ntpl = event[e].ntpl /\ event'[e].group = event[e].group
      /\ event'[e].count = event[e].count
  <2>1. event[e] \in EventRecord
    BY <1>1
  <2>2. CASE event' = [event EXCEPT ![e].trigger = t, ![e].period = p]
    <3>1. event'[e] = [event[e] EXCEPT !.trigger = t, !.period = p]
      BY <1>1, <2>2
    <3> QED
      BY <2>1, <3>1 DEF EventRecord
  <2>3. CASE event' = [event EXCEPT ![e].trigger = t]
    <3>1. event'[e] = [event[e] EXCEPT !.trigger = t]
      BY <1>1, <2>3
    <3> QED
      BY <2>1, <3>1 DEF EventRecord
  <2> QED
    BY <2>2, <2>3
<1> QED
  BY <1>2, <1>3 DEF OnlyTimes, KindsKept

LEMMA TimersNow ==
  ASSUME IndInv, SafeInv
  PROVE  /\ Sorted(timerList, event) /\ timerList \in Seq(Event)
         /\ event \in [Event -> EventRecord]
BY DEF SafeInv, ListsOK, TimerListSorted, Sorted, IndInv, DataOK

LEMMA SetTimerRemoveSafe ==
  ASSUME IndInv, SafeInv, SetTimerRemove
  PROVE  SafeInv'
<1> DEFINE C == Frames(Callers)
<1>1. /\ Top.proc = "SetTimer" /\ Top.pc = "remove" /\ Top.ev \in Event
      /\ IsAt(Top, "SetTimer", "remove") /\ UNCHANGED <<queue, signalList>>
  BY TopFacts DEF SetTimerRemove, At, IsAt, FrameOK
<1>2. PICK e : e = Top.ev
  OBVIOUS
<1>3. e \in Event /\ event[e].alive
  BY <1>1, <1>2, SafeTop DEF FrameSafe, Reads
<1>4. CASE ~Is(e, "TIMER")
  <2> DEFINE N == {}
  <2>1. stack' = Callers /\ UNCHANGED <<timerList, event>>
    BY <1>2, <1>4 DEF SetTimerRemove
  <2>2. Turns(N, C)
    BY <2>1, ReturnTurns
  <2>3. ~Timing(Top.ev)
    BY <1>1, <1>2, <1>4, TimingTimer
  <2>4. /\ ~IsAt(Top, "Close", "free") /\ \A x \in Event : ~Carries(Top, x)
    BY <1>1 DEF IsAt, Carries
  <2>5. \A f \in N : /\ FrameSafe(f) /\ ~InHand(f) /\ ~IsAt(f, "Close", "unlink")
    OBVIOUS
  <2> HIDE DEF N, C
  <2> QED
    BY <1>1, <2>1, <2>2, <2>3, <2>4, <2>5, ListsUntouched
<1>5. CASE Is(e, "TIMER")
  <2> DEFINE pc == IF Top.mode = "cancel" THEN "release" ELSE "time"
  <2>1. PICK f : f = [Top EXCEPT !.pc = pc]
    OBVIOUS
  <2>2. /\ timerList' = Unlink(timerList, e) /\ stack' = <<f>> \o Callers
        /\ event' = [event EXCEPT ![e].trigger = 0, ![e].period = 0]
    BY <1>2, <1>5, <2>1 DEF SetTimerRemove, Continue
  <2>3. /\ f \in Activation /\ f.proc = "SetTimer" /\ f.pc = pc /\ f.ev = e
        /\ \A g \in C : PairOK(f, g)
    <3>1. pc \in Pcs \ {"notify", "dispatch"}
      BY DEF Pcs
    <3> HIDE DEF pc
    <3> QED
      BY <1>1, <1>2, <2>1, <3>1, Further
  <2> DEFINE N == {f}
             T == {}
  <2>4. Turns(N, C)
    BY <2>2, <2>3, GoesOnTurns
  <2>5. OnlyTimes /\ \A x \in Event : x # e => event'[x].trigger = event[x].trigger
    BY <1>3, <2>2, TimesEdit
  <2>6. /\ ~Linked(timerList', e) /\ timerList' \in Seq(Event)
        /\ Sorted(timerList', event)
        /\ \A x : Linked(timerList', x) => Linked(timerList, x)
    <3>1. NoDuplicates(timerList)
      BY TimersNow DEF Sorted
    <3> QED
      BY <1>3, <2>2, <3>1, TimersNow, UnlinkSorted, UnlinkList
  <2>7. Sorted(timerList', event')
    BY <2>5, <2>6, SortedElsewhere
  <2>8. \A h \in N : FrameSafe(h)' /\ ~IsAt(h, "Close", "unlink")
    <3>1. event'[e].alive /\ "TIMER" \in event'[e].type
      BY <1>3, <1>5, <2>5 DEF OnlyTimes, KindsKept, Is
    <3> QED
      BY <2>3, <2>6, <3>1 DEF FrameSafe, InHand, IsAt, Is
  <2>9. \A g \in C : ~InHand(g) /\ PairOK(Top, g)
    BY <1>1, HandsEmpty, SafeTop
  <2>10. \/ \A x \in Event : x = Top.ev => ~(Timing(x)')
         \/ \A g \in C : g.proc = "Close" => g.ev # Top.ev
    <3>1. CASE Top.mode = "cancel"
      <4>1. \A h \in N \cup C : ~InHand(h)
        BY <2>3, <2>9, <3>1 DEF InHand
      <4>2. Frames(stack') = N \cup C
        BY <2>4 DEF Turns, Stacked
      <4> HIDE DEF N, C
      <4> QED
        BY <1>2, <2>6, <4>1, <4>2 DEF Timing
    <3>2. CASE Top.mode # "cancel"
      BY <1>1, <2>9, <3>2 DEF PairOK
    <3> QED
      BY <3>1, <3>2
  <2>11. \A h \in N : InHand(h) => \A g \in C : g.proc = "Close" => g.ev # h.ev
    BY <1>1, <1>2, <2>3, <2>9 DEF PairOK, InHand
  <2>12. \A g \in C : (IsAt(g, "Close", "free") \/ InHand(g)) => g.ev \notin T
    OBVIOUS
  <2>13. /\ \A x \in Event : Linked(timerList', x) => Linked(timerList, x) \/ x \in T
         /\ \A x \in T : event[x].alive /\ Is(x, "TIMER") /\ Timing(x)
    BY <2>6
  <2> HIDE DEF N, C, T
  <2> QED
    BY <1>1, <2>4, <2>5, <2>7, <2>8, <2>10, <2>11, <2>12, <2>13, TimerChange
<1> QED
  BY <1>4, <1>5

\* The running activation changes the times of the timer it has in hand.
LEMMA TimesChange ==
  ASSUME IndInv, SafeInv, InHand(Top), NEW N, Turns(N, Frames(Callers)),
         NEW t, NEW p,
         \/ event' = [event EXCEPT ![Top.ev].trigger = t, ![Top.ev].period = p]
         \/ event' = [event EXCEPT ![Top.ev].trigger = t],
         UNCHANGED <<queue, signalList, timerList>>,
         \A f \in N : (f.proc = Top.proc /\ f.ev = Top.ev) \/ f = Signal(CheckTimerEvent),
         Top.proc \in {"SetTimer", "CheckTimers"}
  PROVE  SafeInv'
<1>1. PICK e : e = Top.ev
  OBVIOUS
<1>2. /\ e \in Event /\ event[e].alive /\ Is(e, "TIMER") /\ ~Linked(timerList, e) /\ Timing(e)
  <2>1. e \in Event /\ Reads(Top)
    BY <1>1, TopFacts, ReadsEvent
  <2>2. Top \in Frames(stack) /\ FrameSafe(Top)
    BY SafeTop
  <2> QED
    BY <1>1, <2>1, <2>2 DEF FrameSafe, Timing
<1>3. OnlyTimes /\ \A x \in Event : x # e => event'[x].trigger = event[x].trigger
  BY <1>1, <1>2, TimesEdit
<1>4. Sorted(timerList', event')
  BY <1>2, <1>3, TimersNow, SortedElsewhere
<1>5. event'[e].alive /\ "TIMER" \in event'[e].type /\ event'[CheckTimerEvent].alive
  BY <1>2, <1>3, Fixed DEF OnlyTimes, KindsKept, Is, SafeInv, ListsOK
<1>6. ASSUME NEW f \in N
      PROVE  FrameSafe(f)' /\ ~IsAt(f, "Close", "unlink") /\ (InHand(f) => Timing(f.ev))
  <2>1. CASE f.proc = Top.proc /\ f.ev = Top.ev
    BY <1>1, <1>2, <1>5, <2>1 DEF FrameSafe, InHand, IsAt, Is
  <2>2. CASE f = Signal(CheckTimerEvent)
    <3>1. f.proc = "Signal" /\ f.ev = CheckTimerEvent
      BY <2>2, BuiltFrames
    <3> QED
      BY <1>5, <3>1 DEF FrameSafe, InHand, IsAt
  <2> QED
    BY <2>1, <2>2
<1>7. ~IsAt(Top, "SetTimer", "remove")
  BY DEF InHand, IsAt
<1> DEFINE T == {}
<1>8. /\ \A x \in Event : Linked(timerList', x) => Linked(timerList, x) \/ x \in T
      /\ \A x \in T : event[x].alive /\ Is(x, "TIMER") /\ Timing(x)
      /\ \A f \in Frames(Callers) : (IsAt(f, "Close", "free") \/ InHand(f)) => f.ev \notin T
  OBVIOUS
<1> HIDE DEF T
<1> QED
  BY <1>3, <1>4, <1>6, <1>7, <1>8, TimerChange

\* It links the timer it has in hand.
LEMMA TimerLinked ==
  ASSUME IndInv, SafeInv, InHand(Top), NEW N, Turns(N, Frames(Callers)),
         timerList' = InsertEventTimer(timerList, Top.ev),
         UNCHANGED <<queue, signalList, event>>,
         \A f \in N : Plain(f) \/ f = Signal(CheckTimerEvent),
         Top.proc \in {"SetTimer", "CheckTimers"}
  PROVE  SafeInv'
<1>1. PICK e : e = Top.ev
  OBVIOUS
<1>2. /\ e \in Event /\ event[e].alive /\ Is(e, "TIMER") /\ ~Linked(timerList, e) /\ Timing(e)
  <2>1. e \in Event /\ Reads(Top)
    BY <1>1, TopFacts, ReadsEvent
  <2>2. Top \in Frames(stack) /\ FrameSafe(Top)
    BY SafeTop
  <2> QED
    BY <1>1, <2>1, <2>2 DEF FrameSafe, Timing
<1>3. OnlyTimes
  BY DEF OnlyTimes, KindsKept
<1>4. Sorted(timerList', event') /\ \A x : Linked(timerList', x) => x = e \/ Linked(timerList, x)
  BY <1>1, <1>2, TimersNow, InsertSorted
<1>5. ASSUME NEW f \in N
      PROVE  FrameSafe(f)' /\ ~IsAt(f, "Close", "unlink") /\ ~InHand(f)
  <2>1. CASE Plain(f)
    BY <2>1, PlainSafe DEF IsAt
  <2>2. CASE f = Signal(CheckTimerEvent)
    <3>1. f.proc = "Signal" /\ f.ev = CheckTimerEvent
      BY <2>2, BuiltFrames
    <3>2. event'[CheckTimerEvent].alive
      BY DEF SafeInv, ListsOK
    <3> QED
      BY <3>1, <3>2 DEF FrameSafe, InHand, IsAt
  <2> QED
    BY <2>1, <2>2
<1>6. ~IsAt(Top, "SetTimer", "remove")
  BY DEF InHand, IsAt
<1> DEFINE T == {e}
<1>7. /\ \A x \in Event : Linked(timerList', x) => Linked(timerList, x) \/ x \in T
      /\ \A x \in T : event[x].alive /\ Is(x, "TIMER") /\ Timing(x)
  BY <1>2, <1>4
<1>8. \A f \in Frames(Callers) : (IsAt(f, "Close", "free") \/ InHand(f)) => f.ev \notin T
  <2>1. \A f \in Frames(Callers) : PairOK(Top, f)
    BY SafeTop
  <2>2. \A f \in Frames(Callers) : ~InHand(f)
    BY HandsEmpty DEF Holds, InHand
  <2> QED
    BY <1>1, <2>1, <2>2 DEF PairOK, IsAt
<1> HIDE DEF T
<1> QED
  BY <1>3, <1>4, <1>5, <1>6, <1>7, <1>8, TimerChange

LEMMA SetTimerTimeSafe ==
  ASSUME IndInv, SafeInv, SetTimerTime
  PROVE  SafeInv'
<1>1. /\ Top.proc = "SetTimer" /\ Top.pc = "time" /\ InHand(Top)
      /\ UNCHANGED <<queue, signalList, timerList>>
  BY DEF SetTimerTime, At, InHand
<1> DEFINE periodic == Top.mode = "periodic"
           d == IF periodic /\ Top.arg = 0 THEN TimerPeriod ELSE Top.arg
           t == now + d
           p == IF periodic THEN d ELSE 0
<1>2. event' = [event EXCEPT ![Top.ev].trigger = t, ![Top.ev].period = p]
  BY DEF SetTimerTime
<1>3. PICK f : f = [Top EXCEPT !.pc = "insert", !.arg = d]
  OBVIOUS
<1>4. d \in Nat
  <2>1. Top.arg \in Nat
    BY TopFacts DEF FrameRecord
  <2> QED
    BY <2>1, ConstantsAssumption
<1>5. stack' = <<f>> \o Callers
  BY <1>3 DEF SetTimerTime
<1> HIDE DEF t, p, d
<1>6. /\ f \in FrameRecord /\ f.proc = "SetTimer" /\ f.ev = Top.ev /\ f.mode = Top.mode
      /\ f.level = Top.level
  BY <1>1, <1>3, <1>4, TopFacts DEF FrameRecord, Pcs
<1>7. f \in Activation /\ \A g \in Frames(Callers) : PairOK(f, g)
  BY <1>1, <1>6, TopFacts, SafeTop, PairLike DEF Activation, FrameOK
<1> DEFINE N == {f}
<1>8. Turns(N, Frames(Callers))
  BY <1>5, <1>7, GoesOnTurns
<1>9. \A h \in N : (h.proc = Top.proc /\ h.ev = Top.ev) \/ h = Signal(CheckTimerEvent)
  BY <1>1, <1>6
<1> HIDE DEF N
<1> QED
  BY <1>1, <1>2, <1>8, <1>9, TimesChange

\* The timer services signal mEfiCheckTimerEvent and go on.
LEMMA SignalsTimers ==
  ASSUME IndInv, SafeInv, Top.proc \in {"SetTimer", "CheckTimers"},
         NEW pc \in Pcs \ {"notify", "dispatch"}, NEW f, f = [Top EXCEPT !.pc = pc],
         stack' = Call(Signal(CheckTimerEvent), pc)
  PROVE  /\ Turns({Signal(CheckTimerEvent), f}, Frames(Callers))
         /\ f.proc = Top.proc /\ f.pc = pc /\ f.ev = Top.ev
<1>1. PICK h : h = Signal(CheckTimerEvent)
  OBVIOUS
<1>2. /\ f \in Activation /\ f.pc = pc /\ f.proc = Top.proc /\ f.ev = Top.ev
      /\ \A g \in Frames(Callers) : PairOK(f, g)
  BY Further
<1>3. h \in Activation /\ h.proc = "Signal" /\ h.ev = CheckTimerEvent
  BY <1>1, ServiceFrames, Fixed, TopFacts, BuiltFrames
<1>4. PairOK(h, f)
  BY <1>2, <1>3, PairFree
<1>5. \A g \in Frames(Callers) : PairOK(h, g)
  BY <1>3, Fixed, SafeTop, PairNeutral
<1>6. stack' = <<h, f>> \o Callers
  BY <1>1 DEF Call
<1> QED
  BY <1>1, <1>2, <1>3, <1>4, <1>5, <1>6, CallTurns

LEMMA SetTimerInsertSafe ==
  ASSUME IndInv, SafeInv, SetTimerInsert
  PROVE  SafeInv'
<1>1. /\ Top.proc = "SetTimer" /\ Top.pc = "insert" /\ InHand(Top)
      /\ timerList' = InsertEventTimer(timerList, Top.ev)
      /\ UNCHANGED <<queue, signalList, event>>
  BY DEF SetTimerInsert, At, InHand
<1>2. "release" \in Pcs \ {"notify", "dispatch"}
  BY DEF Pcs
<1>3. PICK f : f = [Top EXCEPT !.pc = "release"]
  OBVIOUS
<1>4. f \in Activation /\ Plain(f) /\ \A g \in Frames(Callers) : PairOK(f, g)
  BY <1>1, <1>2, <1>3, Further DEF Plain, Reads
<1>5. CASE Top.arg = 0
  <2>1. stack' = Call(Signal(CheckTimerEvent), "release")
    BY <1>5 DEF SetTimerInsert
  <2> DEFINE N == {Signal(CheckTimerEvent), f}
  <2>2. Turns(N, Frames(Callers))
    BY <1>1, <1>2, <1>3, <2>1, SignalsTimers
  <2>3. \A h \in N : Plain(h) \/ h = Signal(CheckTimerEvent)
    BY <1>4
  <2> HIDE DEF N
  <2> QED
    BY <1>1, <2>2, <2>3, TimerLinked
<1>6. CASE Top.arg # 0
  <2>1. stack' = <<f>> \o Callers
    BY <1>3, <1>6 DEF SetTimerInsert, Continue
  <2> DEFINE N == {f}
  <2>2. Turns(N, Frames(Callers))
    BY <1>4, <2>1, GoesOnTurns
  <2>3. \A h \in N : Plain(h) \/ h = Signal(CheckTimerEvent)
    BY <1>4
  <2> HIDE DEF N
  <2> QED
    BY <1>1, <2>2, <2>3, TimerLinked
<1> QED
  BY <1>5, <1>6

LEMMA CheckTimersExpireSafe ==
  ASSUME IndInv, SafeInv, CheckTimersExpire
  PROVE  SafeInv'
<1> DEFINE C == Frames(Callers)
<1>1. /\ Top.proc = "CheckTimers" /\ Top.pc = "loop" /\ timerList # <<>>
      /\ timerList' = Tail(timerList) /\ UNCHANGED <<queue, signalList, event>>
  BY DEF CheckTimersExpire, At, Expired
<1>2. PICK e : e = Head(timerList)
  OBVIOUS
<1>3. /\ Sorted(timerList', event') /\ ~Linked(timerList', e)
      /\ e \in Event /\ Linked(timerList, e)
      /\ \A x : Linked(timerList', x) => Linked(timerList, x)
  <2>1. NoDuplicates(timerList)
    BY TimersNow DEF Sorted
  <2> QED
    BY <1>1, <1>2, <2>1, TimersNow, TailSorted, TailList
<1>4. event[e].alive /\ Is(e, "TIMER") /\ Timing(e)
  BY <1>3 DEF SafeInv, ListsOK, Timing
<1>5. PICK f : f = [Top EXCEPT !.pc = "period", !.ev = e]
  OBVIOUS
<1>6. PICK h : h = Signal(e)
  OBVIOUS
<1>7. /\ f \in FrameRecord /\ f.proc = "CheckTimers" /\ f.pc = "period" /\ f.ev = e
  BY <1>1, <1>3, <1>5, TopFacts DEF FrameRecord, Pcs
<1>8. f \in Activation
  BY <1>3, <1>7 DEF Activation, FrameOK
<1>9. h \in Activation /\ h.proc = "Signal" /\ h.pc = "start" /\ h.ev = e
  BY <1>3, <1>6, ServiceFrames, TopFacts, BuiltFrames
<1>10. \A g \in C : PairOK(f, g) /\ PairOK(h, g)
  <2> SUFFICES ASSUME NEW g \in C PROVE PairOK(f, g) /\ PairOK(h, g)
    OBVIOUS
  <2>1. g.proc # "NotifyList" /\ FrameSafe(g)
    BY SafeTop DEF Lower
  <2>2. g.proc = "Close" /\ g.ev = e => g.pc # "free"
    BY <1>3, <2>1 DEF FrameSafe
  <2> QED
    BY <1>7, <1>9, <2>1, <2>2 DEF PairOK
<1>11. PairOK(h, f)
  BY <1>7, <1>9, PairFree
<1> DEFINE N == {h, f}
           T == {}
<1>12. Turns(N, C)
  <2>1. stack' = <<h, f>> \o Callers
    BY <1>2, <1>5, <1>6 DEF CheckTimersExpire
  <2> QED
    BY <1>8, <1>9, <1>10, <1>11, <2>1, CallTurns
<1>13. OnlyTimes
  BY <1>1 DEF OnlyTimes, KindsKept
<1>14. \A g \in N : FrameSafe(g)' /\ ~IsAt(g, "Close", "unlink")
  <2>1. event'[e].alive /\ "TIMER" \in event'[e].type
    BY <1>1, <1>4 DEF Is
  <2> QED
    BY <1>3, <1>7, <1>9, <2>1 DEF FrameSafe, InHand, IsAt, Is
<1>15. \A g \in N : InHand(g) => Timing(g.ev)
  BY <1>4, <1>7, <1>9
<1>16. /\ \A x \in Event : Linked(timerList', x) => Linked(timerList, x) \/ x \in T
       /\ \A x \in T : event[x].alive /\ Is(x, "TIMER") /\ Timing(x)
       /\ \A g \in C : (IsAt(g, "Close", "free") \/ InHand(g)) => g.ev \notin T
  BY <1>3
<1>17. ~IsAt(Top, "SetTimer", "remove")
  BY <1>1 DEF IsAt
<1> HIDE DEF N, T, C
<1> QED
  BY <1>1, <1>3, <1>12, <1>13, <1>14, <1>15, <1>16, <1>17, TimerChange

LEMMA CheckTimersPeriodSafe ==
  ASSUME IndInv, SafeInv, CheckTimersPeriod
  PROVE  SafeInv'
<1> DEFINE C == Frames(Callers)
<1>1. /\ Top.proc = "CheckTimers" /\ Top.pc = "period" /\ InHand(Top) /\ Passes(Top)
      /\ UNCHANGED <<queue, signalList, timerList>>
  BY DEF CheckTimersPeriod, At, InHand, Passes, IsAt
<1> DEFINE next == event[Top.ev].trigger + event[Top.ev].period
<1>2. CASE event[Top.ev].period = 0
  <2>1. stack' = Continue("loop") /\ UNCHANGED event
    BY <1>2 DEF CheckTimersPeriod
  <2>2. PICK f : f = [Top EXCEPT !.pc = "loop"]
    OBVIOUS
  <2>3. "loop" \in Pcs \ {"notify", "dispatch"}
    BY DEF Pcs
  <2>4. /\ f \in Activation /\ f.proc = "CheckTimers" /\ f.pc = "loop"
        /\ \A g \in C : PairOK(f, g)
    BY <1>1, <2>2, <2>3, Further
  <2> DEFINE N == {f}
  <2>5. Turns(N, C)
    BY <2>1, <2>2, <2>4, GoesOnTurns DEF Continue
  <2>6. \A h \in N : FrameSafe(h) /\ ~InHand(h) /\ ~IsAt(h, "Close", "unlink")
    BY <2>4 DEF FrameSafe, InHand, IsAt, Reads
  <2> HIDE DEF N, C
  <2> QED
    BY <1>1, <2>1, <2>5, <2>6, ControlStep
<1>3. CASE event[Top.ev].period # 0
  <2>1. PICK f : f = [Top EXCEPT !.pc = "insert"]
    OBVIOUS
  <2>2. "insert" \in Pcs \ {"notify", "dispatch"}
    BY DEF Pcs
  <2>3. /\ f \in Activation /\ f.proc = "CheckTimers" /\ f.ev = Top.ev
        /\ \A g \in C : PairOK(f, g)
    BY <1>1, <2>1, <2>2, Further
  <2>4. CASE next <= Top.arg
    <3> DEFINE N == {Signal(CheckTimerEvent), f}
               t == Top.arg
    <3>1. /\ event' = [event EXCEPT ![Top.ev].trigger = t]
          /\ stack' = Call(Signal(CheckTimerEvent), "insert")
      BY <1>3, <2>4 DEF CheckTimersPeriod
    <3>2. Turns(N, C)
      BY <1>1, <2>1, <2>2, <3>1, SignalsTimers
    <3>3. \A h \in N : (h.proc = Top.proc /\ h.ev = Top.ev) \/ h = Signal(CheckTimerEvent)
      BY <1>1, <2>3
    <3> HIDE DEF N, t
    <3> QED
      BY <1>1, <3>1, <3>2, <3>3, TimesChange
  <2>5. CASE ~(next <= Top.arg)
    <3> DEFINE N == {f}
    <3>1. /\ event' = [event EXCEPT ![Top.ev].trigger = next]
          /\ stack' = <<f>> \o Callers
      BY <1>3, <2>1, <2>5 DEF CheckTimersPeriod, Continue
    <3>2. Turns(N, C)
      BY <2>3, <3>1, GoesOnTurns
    <3>3. \A h \in N : (h.proc = Top.proc /\ h.ev = Top.ev) \/ h = Signal(CheckTimerEvent)
      BY <1>1, <2>3
    <3> HIDE DEF N, next
    <3> QED
      BY <1>1, <3>1, <3>2, <3>3, TimesChange
  <2> QED
    BY <2>4, <2>5
<1> QED
  BY <1>2, <1>3

LEMMA CheckTimersInsertSafe ==
  ASSUME IndInv, SafeInv, CheckTimersInsert
  PROVE  SafeInv'
<1>1. /\ Top.proc = "CheckTimers" /\ Top.pc = "insert" /\ InHand(Top)
      /\ timerList' = InsertEventTimer(timerList, Top.ev)
      /\ stack' = Continue("loop") /\ UNCHANGED <<queue, signalList, event>>
  BY DEF CheckTimersInsert, At, InHand
<1>2. "loop" \in Pcs \ {"notify", "dispatch"}
  BY DEF Pcs
<1>3. PICK f : f = [Top EXCEPT !.pc = "loop"]
  OBVIOUS
<1>4. f \in Activation /\ Plain(f) /\ \A g \in Frames(Callers) : PairOK(f, g)
  BY <1>1, <1>2, <1>3, Further DEF Plain, Reads
<1> DEFINE N == {f}
<1>5. Turns(N, Frames(Callers))
  BY <1>1, <1>3, <1>4, GoesOnTurns DEF Continue
<1>6. \A h \in N : Plain(h) \/ h = Signal(CheckTimerEvent)
  BY <1>4
<1> HIDE DEF N
<1> QED
  BY <1>1, <1>5, <1>6, TimerLinked

-----------------------------------------------------------------------------
(***************************************************************************)
(* CoreCreateEventEx.                                                      *)
(***************************************************************************)
\* An entry goes to the head of a list.
LEMMA HeadList ==
  ASSUME NEW S, NEW s \in Seq(S), NEW e \in S, NoDuplicates(s), ~Linked(s, e)
  PROVE  /\ NoDuplicates(InsertHeadList(s, e))
         /\ Linked(InsertHeadList(s, e), e)
         /\ \A x : Linked(InsertHeadList(s, e), x) => x = e \/ Linked(s, x)
         /\ \A x : Linked(s, x) => Linked(InsertHeadList(s, e), x)
<1> DEFINE r == <<e>> \o s
<1>1. /\ Len(r) = Len(s) + 1 /\ Len(s) \in Nat
      /\ \A i \in 1..Len(r) : r[i] = IF i = 1 THEN e ELSE s[i - 1]
  BY PushSeq
<1>2. r = InsertHeadList(s, e)
  BY DEF InsertHeadList
<1> HIDE DEF r
<1>3. \A i \in 1..Len(r) : (i = 1 /\ r[i] = e) \/ (i - 1 \in 1..Len(s) /\ r[i] = s[i - 1])
  BY <1>1
<1>4. \A i \in 1..Len(s) : i + 1 \in 1..Len(r) /\ r[i + 1] = s[i] /\ s[i] # e
  BY <1>1 DEF Linked
<1>5. 1 \in 1..Len(r) /\ r[1] = e
  BY <1>1
<1>6. NoDuplicates(r)
  <2> SUFFICES ASSUME NEW i \in 1..Len(r), NEW j \in 1..Len(r), r[i] = r[j] PROVE i = j
    BY DEF NoDuplicates
  <2>1. \A k \in 1..Len(s) : s[k] # e
    BY <1>4
  <2>2. CASE i = 1 \/ j = 1
    BY <1>3, <2>1, <2>2
  <2>3. CASE i # 1 /\ j # 1
    <3>1. i - 1 \in 1..Len(s) /\ j - 1 \in 1..Len(s) /\ s[i - 1] = s[j - 1]
      BY <1>3, <2>3
    <3>2. i - 1 = j - 1
      BY <3>1 DEF NoDuplicates
    <3> QED
      BY <3>2
  <2> QED
    BY <2>2, <2>3
<1>7. Linked(r, e)
  BY <1>5 DEF Linked
<1>8. \A x : Linked(r, x) => x = e \/ Linked(s, x)
  BY <1>3 DEF Linked
<1>9. \A x : Linked(s, x) => Linked(r, x)
  BY <1>4 DEF Linked
<1> QED
  BY <1>2, <1>6, <1>7, <1>8, <1>9

LEMMA CallCreateSafe ==
  ASSUME IndInv, SafeInv, NEW e \in Handle, NEW r \in CreateRequests, CallCreate(e, r)
  PROVE  SafeInv'
<1> DEFINE type == CreatedType(r)
           ntpl == IF Notifies(type) THEN r.tpl ELSE NoTpl
           new == NewEvent(type, ntpl, CreatedGroup(r))
<1>1. /\ ~event[e].alive /\ event' = [event EXCEPT ![e] = new]
      /\ signalList' = IF "SIGNAL" \in type THEN InsertHeadList(signalList, e) ELSE signalList
      /\ EventLockSection(stack) /\ UNCHANGED <<queue, timerList>> /\ Top.proc = "Task"
  BY DEF CallCreate, MayCall, At
<1>2. new.alive = TRUE /\ new.type = type /\ new.count = 0
  BY DEF NewEvent
<1> HIDE DEF new, ntpl, type
<1>3. /\ e \in Event /\ e # CheckTimerEvent /\ e # IdleLoopEvent
      /\ event \in [Event -> EventRecord] /\ signalList \in Seq(Event)
  BY Fixed DEF IndInv, DataOK
<1>4. event'[e] = new /\ \A x \in Event : x # e => event'[x] = event[x]
  BY <1>1, <1>3
<1>5. PICK K : K = Frames(stack)
  OBVIOUS
<1>6. PICK h : h = RestoreTo(tpl)
  OBVIOUS
<1>7. Lower(K) /\ Stacked(stack, K) /\ Top \in K
  BY <1>1, <1>5, SafeTop
<1> DEFINE N == {h}
<1>8. Turns(N, K) /\ Plain(h)
  <2>1. Stacked(<<h>> \o stack, N \cup K) /\ Plain(h)
    BY <1>6, <1>7, OnRestore, TopFacts
  <2>2. stack' = <<h>> \o stack
    BY <1>1, <1>6 DEF EventLockSection
  <2> QED
    BY <1>5, <2>1, <2>2 DEF Turns
<1>9. \A f \in N : /\ FrameSafe(f)' /\ ~InHand(f) /\ ~IsAt(f, "Close", "unlink")
  BY <1>8, PlainSafe DEF IsAt
<1> HIDE DEF N
<1>10. Frames(stack') = N \cup K /\ PairsOK(stack')
  BY <1>8 DEF Turns, Stacked
<1>11. /\ ~Linked(signalList, e) /\ ~Linked(timerList, e)
       /\ \A t \in QueueLevels : ~Linked(queue[t], e)
       /\ ListsOK
  BY <1>1, <1>3 DEF SafeInv, ListsOK
<1>12. \A f \in K : /\ f \in Activation /\ FrameSafe(f)
                    /\ Reads(f) => f.ev \in Event /\ f.ev # e
                    /\ f.proc # "NotifyList"
  <2>1. \A f \in K : f \in Activation /\ FrameSafe(f)
    BY <1>5, <1>7 DEF Stacked, Frames, SafeInv, FramesSafe
  <2> QED
    BY <1>1, <1>7, <2>1, ReadsEvent DEF FrameSafe, Lower
<1>13. /\ NoDuplicates(signalList')
       /\ Linked(signalList', e) => "SIGNAL" \in type
       /\ "SIGNAL" \in type => Linked(signalList', e)
       /\ \A x : x # e => (Linked(signalList', x) <=> Linked(signalList, x))
  <2>1. NoDuplicates(signalList)
    BY <1>11 DEF ListsOK
  <2> QED
    BY <1>1, <1>3, <1>11, <2>1, HeadList
<1>14. ListsOK'
  <2>1. TimerListSorted'
    <3>1. \A x \in Event : x # e => event'[x].trigger = event[x].trigger
      BY <1>4
    <3>2. Sorted(timerList, event')
      BY <1>3, <1>11, <3>1, TimersNow, SortedElsewhere
    <3> QED
      BY <1>1, <3>2 DEF Sorted, TimerListSorted
  <2> QED
    BY <1>1, <1>2, <1>3, <1>4, <1>11, <1>13, <2>1, Fixed DEF ListsOK, Is
<1>15. FramesSafe'
  <2>1. ASSUME NEW f \in K PROVE FrameSafe(f)'
    <3>1. Reads(f) => event'[f.ev].alive
      BY <1>4, <1>12 DEF FrameSafe
    <3>2. f.proc = "Wait" => \A i \in 1..Len(WaitList) : event'[WaitList[i]].alive
      BY <1>2, <1>4, <1>12, WaitListEvents DEF FrameSafe
    <3>3. InHand(f) => "TIMER" \in event'[f.ev].type /\ ~Linked(timerList', f.ev)
      BY <1>1, <1>4, <1>12, ReadsEvent DEF FrameSafe, Is
    <3>4. f.proc = "Close" =>
            /\ f.ev \in Handle /\ "Close" \in Ops
            /\ f.level >= event'[f.ev].ntpl
            /\ f.pc = "free" =>
                 /\ ~Linked(timerList', f.ev)
                 /\ ~Linked(signalList', f.ev)
                 /\ \A t \in QueueLevels : ~Linked(queue'[t], f.ev)
      <4>1. f.proc = "Close" => f.ev \in Event /\ f.ev # e
        BY <1>12, ReadsEvent
      <4> QED
        BY <1>1, <1>4, <1>12, <1>13, <4>1 DEF FrameSafe
    <3> QED
      BY <3>1, <3>2, <3>3, <3>4 DEF FrameSafe, Is
  <2> QED
    BY <1>9, <1>10, <2>1 DEF FramesSafe
<1>16. CancelsOK'
  <2>1. \A x \in Event : Linked(timerList', x) => Timing(x)
    BY <1>1 DEF Timing
  <2> QED
    BY <1>7, <1>8, <1>9, <2>1, KeepCancels
<1>17. SignalsKnown'
  <2> SUFFICES ASSUME NEW x \in Event, event'[x].alive, "SIGNAL" \in event'[x].type
               PROVE  \/ Linked(signalList', x)
                      \/ \E f \in K : IsAt(f, "Close", "free") /\ f.ev = x
    BY <1>10 DEF SignalsKnown, Is
  <2>1. CASE x = e
    BY <1>2, <1>4, <1>13, <2>1
  <2>2. CASE x # e
    BY <1>4, <1>5, <1>13, <2>2 DEF SafeInv, SignalsKnown, Is
  <2> QED
    BY <2>1, <2>2
<1>18. Latched'
  <2> SUFFICES ASSUME NEW x \in Event, event'[x].alive, "SIGNAL" \in event'[x].type,
                      event'[x].count = 1
               PROVE  \/ Linked(queue'[event'[x].ntpl], x)
                      \/ \E f \in K : Carries(f, x)'
    BY <1>10 DEF Latched, Is
  <2>1. x # e /\ event'[x] = event[x]
    BY <1>2, <1>4
  <2>2. Linked(queue[event[x].ntpl], x) \/ \E f \in K : Carries(f, x)
    BY <1>5, <2>1 DEF SafeInv, Latched, Is
  <2>3. \A f \in K : Carries(f, x) => Carries(f, x)'
    BY <1>12 DEF Carries
  <2> QED
    BY <1>1, <2>1, <2>2, <2>3
<1> QED
  BY <1>10, <1>14, <1>15, <1>16, <1>17, <1>18 DEF SafeInv

-----------------------------------------------------------------------------
(***************************************************************************)
(* The invariant.                                                          *)
(***************************************************************************)
LEMMA InitSafe == Init => SafeInv
<1> SUFFICES ASSUME Init PROVE SafeInv
  OBVIOUS
<1>1. PICK f : f = Frame("Task", "run", NoEvent, TPL_APPLICATION)
  OBVIOUS
<1>2. /\ queue = [t \in QueueLevels |-> <<>>] /\ stack = <<f>> /\ timerList = <<>>
      /\ signalList = <<IdleLoopEvent, CheckTimerEvent>>
  BY <1>1 DEF Init
<1>3. /\ event[CheckTimerEvent].alive /\ "SIGNAL" \in event[CheckTimerEvent].type
      /\ event[IdleLoopEvent].alive /\ "SIGNAL" \in event[IdleLoopEvent].type
      /\ \A e \in Event : event[e].alive => e \in {CheckTimerEvent, IdleLoopEvent}
      /\ \A e \in Event : event[e].count = 0
  <2>1. event[CheckTimerEvent] = NewEvent({"SIGNAL"}, TPL_TIMER, NoGroup)
    BY Fixed DEF Init
  <2>2. event[IdleLoopEvent] = NewEvent({"SIGNAL"}, TPL_NOTIFY, IdleLoopGroup)
    BY Fixed, ConstantsAssumption DEF Init
  <2>3. \A e \in Event : e \notin {CheckTimerEvent, IdleLoopEvent} => event[e] = FreeBlock
    BY DEF Init
  <2>4. FreeBlock.alive = FALSE /\ FreeBlock.count = 0
    BY DEF FreeBlock, NewEvent
  <2>5. \A type, t, group : /\ NewEvent(type, t, group).alive = TRUE
                            /\ NewEvent(type, t, group).type = type
                            /\ NewEvent(type, t, group).count = 0
    BY DEF NewEvent
  <2> QED
    BY <2>1, <2>2, <2>3, <2>4, <2>5
<1>4. f.proc = "Task"
  BY <1>1 DEF Frame
<1>5. Frames(stack) = {f} /\ Len(stack) = 1
  BY <1>2 DEF Frames
<1>6. ListsOK
  <2>1. NoDuplicates(signalList) /\ \A e \in Event :
          Linked(signalList, e) <=> e \in {CheckTimerEvent, IdleLoopEvent}
    BY <1>2, ConstantsAssumption DEF NoDuplicates, Linked
  <2>2. TimerListSorted /\ \A e \in Event : ~Linked(timerList, e)
    BY <1>2 DEF TimerListSorted, NoDuplicates, Linked
  <2>3. \A e \in Event, t \in QueueLevels : ~Linked(queue[t], e)
    BY <1>2 DEF Linked
  <2> QED
    BY <1>3, <2>1, <2>2, <2>3 DEF ListsOK, Is
<1>7. FramesSafe /\ CancelsOK
  BY <1>4, <1>5 DEF FramesSafe, CancelsOK, FrameSafe, Reads, InHand, IsAt
<1>8. PairsOK(stack)
  BY <1>5 DEF PairsOK
<1>9. SignalsKnown
  BY <1>2, <1>3 DEF SignalsKnown, Linked
<1>10. Latched
  BY <1>3 DEF Latched
<1> QED
  BY <1>6, <1>7, <1>8, <1>9, <1>10 DEF SafeInv

LEMMA StutterSafe ==
  ASSUME SafeInv, UNCHANGED vars
  PROVE  SafeInv'
BY DEF vars, SafeInv, ListsOK, TimerListSorted, FramesSafe, FrameSafe, InHand, Reads,
       CancelsOK, Timing, SignalsKnown, Latched, Carries, Is

LEMMA NextSafe == Careful /\ IndInv /\ SafeInv /\ [Next]_vars => SafeInv'
<1> SUFFICES ASSUME Careful, IndInv, SafeInv, [Next]_vars PROVE SafeInv'
  OBVIOUS
<1>1. ASSUME RestoreTplStep PROVE SafeInv'
  BY <1>1, RestoreTplTestSafe, RestoreTplDispatchSafe, RestoreTplLoopEndSafe, RestoreTplSetSafe
     DEF RestoreTplStep
<1>2. ASSUME DispatchStep PROVE SafeInv'
  BY <1>2, DispatchTakeSafe, DispatchNotifySafe, DispatchDoneSafe DEF DispatchStep
<1>3. ASSUME SignalStep PROVE SafeInv'
  BY <1>3, SignalEventSafe, SignalGroupSafe, NotifyListEntrySafe, NotifyListEndSafe,
     SignalEndSafe DEF SignalStep
<1>4. ASSUME CheckStep \/ WaitStep PROVE SafeInv'
  BY <1>4, CheckEventQueueSafe, CheckEventClearSafe, WaitForEventCheckSafe,
     WaitForEventNextSafe, WaitForEventReturnSafe DEF CheckStep, WaitStep
<1>5. ASSUME CloseStep PROVE SafeInv'
  BY <1>5, CloseEventCancelSafe, CloseEventUnlinkSafe, CloseEventFreeSafe DEF CloseStep
<1>6. ASSUME SetTimerStep PROVE SafeInv'
  BY <1>6, SetTimerRemoveSafe, SetTimerTimeSafe, SetTimerInsertSafe, SetTimerReleaseSafe
     DEF SetTimerStep
<1>7. ASSUME CheckTimersStep PROVE SafeInv'
  BY <1>7, CheckTimersLockSafe, CheckTimersExpireSafe, CheckTimersPeriodSafe,
     CheckTimersInsertSafe, CheckTimersDoneSafe DEF CheckTimersStep
<1>8. ASSUME ServiceStep PROVE SafeInv'
  BY <1>1, <1>2, <1>3, <1>4, <1>5, <1>6, <1>7, <1>8, IsrReturnSafe DEF ServiceStep
<1>9. ASSUME TaskStep PROVE SafeInv'
  <2>1. Delays \subseteq Nat /\ 0 \in Nat
    BY ConstantsAssumption
  <2>2. ASSUME NEW e \in Handle,
               \/ CallSignal(e) \/ CallCheck(e) \/ CallClose(e)
               \/ CallSetTimer(e, "cancel", 0)
               \/ \E mode \in {"periodic", "relative"}, d \in Delays :
                    CallSetTimer(e, mode, d)
               \/ \E r \in CreateRequests : CallCreate(e, r)
        PROVE  SafeInv'
    <3>1. ASSUME NEW mode \in {"periodic", "relative"}, NEW d \in Delays,
                 CallSetTimer(e, mode, d)
          PROVE  SafeInv'
      BY <2>1, <3>1, CallSetTimerSafe
    <3>2. ASSUME CallSetTimer(e, "cancel", 0) PROVE SafeInv'
      BY <2>1, <3>2, CallSetTimerSafe
    <3> QED
      BY <2>2, <3>1, <3>2, CallSignalSafe, CallCheckSafe, CallCloseSafe, CallCreateSafe
  <2> QED
    BY <1>9, <2>2, CallWaitSafe, CallRaiseTplSafe, CallRestoreTplSafe, TaskReturnSafe
       DEF TaskStep
<1> QED
  BY <1>8, <1>9, TimerTickSafe, StutterSafe DEF Next

LEMMA SafeInductive ==
  ASSUME Careful
  PROVE  Spec /\ ReadsOnce => []SafeInv
<1>1. IndInv /\ SafeInv /\ [Next]_vars => SafeInv'
  BY NextSafe
<1> QED
  BY <1>1, Inductive, InitSafe, PTL DEF Spec

-----------------------------------------------------------------------------
(***************************************************************************)
(* The properties the invariant establishes.                               *)
(***************************************************************************)
\* With careful callers CoreCloseEvent frees no event that is on a list or
\* that an interrupted activation goes on to read.
THEOREM FreedIsUnused ==
  ASSUME Careful
  PROVE  Spec /\ ReadsOnce => []NoUseAfterFree
<1>1. SafeInv => NoUseAfterFree
  <2> SUFFICES ASSUME SafeInv PROVE NoUseAfterFree
    OBVIOUS
  <2>1. \A i \in 1..Len(stack) : Reads(stack[i]) => event[stack[i].ev].alive
    BY DEF SafeInv, FramesSafe, FrameSafe, Frames
  <2> QED
    BY <2>1, Fixed DEF SafeInv, ListsOK, NoUseAfterFree
<1> QED
  BY <1>1, SafeInductive, PTL

\* With careful callers mEfiTimerList is in the order of the trigger times.
THEOREM TimersSorted ==
  ASSUME Careful
  PROVE  Spec /\ ReadsOnce => []TimerListSorted
<1>1. SafeInv => TimerListSorted
  BY DEF SafeInv, ListsOK
<1> QED
  BY <1>1, SafeInductive, PTL

\* With careful callers no signal is lost: a signalled NOTIFY_SIGNAL event is
\* queued, or an activation will queue it, or it is about to be freed.
THEOREM SignalsLatched ==
  ASSUME Careful
  PROVE  Spec /\ ReadsOnce => []SignalLatched
<1>1. SafeInv => SignalLatched
  <2> SUFFICES ASSUME SafeInv, NEW e \in Event, event[e].alive, Is(e, "SIGNAL"),
                      event[e].count = 1, NEW f \in Frames(stack), Carries(f, e)
               PROVE  \E i \in 1..Len(stack) :
                        /\ stack[i].ev = e
                        /\ \/ stack[i].proc = "Signal" /\ stack[i].pc = "group"
                           \/ /\ stack[i].proc = "NotifyList"
                              /\ stack[i].arg <= PositionOf(signalList, e)
                           \/ stack[i].proc = "Close" /\ stack[i].pc = "free"
    BY DEF SafeInv, Latched, SignalLatched
  <2>1. PICK i \in 1..Len(stack) : f = stack[i]
    BY DEF Frames
  <2> QED
    BY <2>1 DEF Carries, IsAt
<1> QED
  BY <1>1, SafeInductive, PTL

\* With careful callers the timer of an event that is closed is not pending
\* any more when the event is unlinked and freed.
THEOREM ClosedTimersCancelled ==
  ASSUME Careful
  PROVE  Spec /\ ReadsOnce => []ClosedTimerNotPending
<1>1. IndInv /\ SafeInv => ClosedTimerNotPending
  <2> SUFFICES ASSUME IndInv, SafeInv, At("Close", "unlink") \/ At("Close", "free")
               PROVE  ~Linked(timerList, Top.ev)
    BY DEF ClosedTimerNotPending
  <2>1. CASE At("Close", "unlink")
    BY <2>1, CancelledAtUnlink DEF At, IsAt, Timing
  <2>2. CASE At("Close", "free")
    BY <2>2, SafeTop DEF At, FrameSafe
  <2> QED
    BY <2>1, <2>2
<1> QED
  BY <1>1, Inductive, SafeInductive, PTL
-----------------------------------------------------------------------------
(***************************************************************************)
(* The event services implement EventDispatch: each step queues the        *)
(* notification of an event, withdraws a closed event, enters, runs or     *)
(* leaves a level, or is none of the abstract specification's business.    *)
(***************************************************************************)
\* The levels the activations of a stack dispatch, and one of them.
Own(f) == IF f.proc = "Dispatch" THEN {f.level} ELSE {}

Levels(s) == {s[i].level : i \in {j \in 1..Len(s) : s[j].proc = "Dispatch"}}

LEMMA LevelsNow == DispatchLevels = Levels(stack) /\ DispatchLevels' = Levels(stack')
BY DEF DispatchLevels, Levels

LEMMA LevelsPush ==
  ASSUME NEW s \in Seq(Activation), NEW f
  PROVE  Levels(<<f>> \o s) = Own(f) \cup Levels(s)
<1> DEFINE A == Activation \cup {f}
           p == <<f>> \o s
<1>1. s \in Seq(A) /\ f \in A
  BY SeqMonotonic
<1>2. /\ Len(p) = Len(s) + 1 /\ Len(s) \in Nat
      /\ \A i \in 1..Len(p) : p[i] = IF i = 1 THEN f ELSE s[i - 1]
  BY <1>1, PushSeq
<1> HIDE DEF p, A
<1>3. \A i \in 1..Len(p) : (i = 1 /\ p[i] = f) \/ (i - 1 \in 1..Len(s) /\ p[i] = s[i - 1])
  BY <1>2
<1>4. \A i \in 1..Len(s) : i + 1 \in 1..Len(p) /\ p[i + 1] = s[i]
  BY <1>2
<1>5. 1 \in 1..Len(p) /\ p[1] = f
  BY <1>2
<1>6. Levels(p) \subseteq Own(f) \cup Levels(s)
  BY <1>3 DEF Levels, Own
<1>7. Own(f) \subseteq Levels(p)
  BY <1>5 DEF Levels, Own
<1>8. Levels(s) \subseteq Levels(p)
  BY <1>4 DEF Levels
<1> QED
  BY <1>6, <1>7, <1>8 DEF p

LEMMA LevelsPop ==
  ASSUME NEW s \in Seq(Activation), s # <<>>
  PROVE  Levels(s) = Own(s[1]) \cup Levels(Tail(s))
<1> DEFINE r == Tail(s)
<1>1. /\ r \in Seq(Activation) /\ Len(r) = Len(s) - 1 /\ Len(s) \in Nat /\ Len(s) > 0
      /\ \A i \in 1..Len(r) : i + 1 \in 1..Len(s) /\ r[i] = s[i + 1]
  BY PopSeq
<1> HIDE DEF r
<1>2. \A i \in 1..Len(s) : i = 1 \/ (i - 1 \in 1..Len(r) /\ s[i] = r[i - 1])
  BY <1>1
<1>3. 1 \in 1..Len(s)
  BY <1>1
<1>4. Levels(s) \subseteq Own(s[1]) \cup Levels(r)
  BY <1>2 DEF Levels, Own
<1>5. Own(s[1]) \subseteq Levels(s)
  BY <1>3 DEF Levels, Own
<1>6. Levels(r) \subseteq Levels(s)
  BY <1>1 DEF Levels
<1> QED
  BY <1>4, <1>5, <1>6 DEF r

\* The levels of the running activation and of those below.
LEMMA LevelsTop ==
  ASSUME IndInv
  PROVE  Levels(stack) = Own(Top) \cup Levels(Callers)
BY TopFacts, LevelsPop

-----------------------------------------------------------------------------
(***************************************************************************)
(* Steps that leave the levels alone.                                      *)
(***************************************************************************)
SameLevels == Levels(stack') = Levels(stack)

\* The running activation, which dispatches nothing, returns.
LEMMA LevelsReturn ==
  ASSUME IndInv, Top.proc # "Dispatch", stack' = Callers
  PROVE  SameLevels
BY LevelsTop DEF SameLevels, Own

\* It goes on as f.
LEMMA LevelsGoOn ==
  ASSUME IndInv, NEW f, f.proc = Top.proc, f.level = Top.level, stack' = <<f>> \o Callers
  PROVE  SameLevels
BY LevelsTop, TopFacts, LevelsPush DEF SameLevels, Own

\* It is left, as f, for a call that dispatches nothing.
LEMMA LevelsCall ==
  ASSUME IndInv, NEW f \in Activation, f.proc = Top.proc, f.level = Top.level,
         NEW g, g.proc # "Dispatch", stack' = <<g, f>> \o Callers
  PROVE  SameLevels
<1>1. Callers \in Seq(Activation)
  BY TopFacts
<1> DEFINE A == Activation \cup {g}
<1>2. Callers \in Seq(A) /\ f \in A /\ g \in A
  BY <1>1, SeqMonotonic
<1>3. <<g, f>> \o Callers = <<g>> \o (<<f>> \o Callers)
  BY <1>2
<1>4. <<f>> \o Callers \in Seq(Activation)
  BY <1>1, PushSeq
<1> QED
  BY <1>1, <1>3, <1>4, LevelsTop, LevelsPush DEF SameLevels, Own

\* It is interrupted, or calls something as it is.
LEMMA LevelsOnTop ==
  ASSUME IndInv, NEW g, g.proc # "Dispatch", stack' = <<g>> \o stack
  PROVE  SameLevels
BY TopFacts, LevelsPush DEF SameLevels, Own

\* A section under gEventQueueLock that goes on with s.
LEMMA LevelsSection ==
  ASSUME IndInv, NEW s \in Seq(Activation), EventLockSection(s)
  PROVE  Levels(stack') = Levels(s)
<1>1. RestoreTo(tpl).proc # "Dispatch"
  BY DEF RestoreTo, Frame
<1> QED
  BY <1>1, LevelsPush DEF EventLockSection, Own

LEMMA LevelsSectionReturns ==
  ASSUME IndInv, Top.proc # "Dispatch", EventLockSection(Callers)
  PROVE  SameLevels
BY TopFacts, LevelsTop, LevelsSection DEF SameLevels, Own

LEMMA LevelsSectionGoesOn ==
  ASSUME IndInv, NEW f \in Activation, f.proc = Top.proc, f.level = Top.level,
         EventLockSection(<<f>> \o Callers)
  PROVE  SameLevels
<1>1. Callers \in Seq(Activation) /\ <<f>> \o Callers \in Seq(Activation)
  BY TopFacts, PushSeq
<1> QED
  BY <1>1, LevelsTop, LevelsPush, LevelsSection DEF SameLevels, Own

\* The status CoreCheckEvent answers with changes a CoreWaitForEvent at most.
LEMMA LevelsAnswer ==
  ASSUME IndInv, NEW pc \in {"return", "next"}
  PROVE  Levels(Answer(pc)) = Levels(Callers)
<1>1. Callers \in Seq(Activation)
  BY TopFacts
<1>2. CASE Callers # <<>> /\ Head(Callers).proc = "Wait"
  <2>1. PICK f : f = [Head(Callers) EXCEPT !.pc = pc]
    OBVIOUS
  <2>2. Answer(pc) = <<f>> \o Tail(Callers)
    BY <1>2, <2>1 DEF Answer
  <2>3. Head(Callers) = Callers[1] /\ Head(Callers) \in Activation
        /\ Tail(Callers) \in Seq(Activation)
    BY <1>1, <1>2, PopSeq
  <2>4. f.proc = "Wait"
    BY <1>2, <2>1, <2>3, LevelsAreNumbers DEF FrameRecord
  <2>5. Levels(Answer(pc)) = Levels(Tail(Callers))
    BY <2>2, <2>3, <2>4, LevelsPush DEF Own
  <2>6. Levels(Callers) = Levels(Tail(Callers))
    BY <1>1, <1>2, <2>3, LevelsPop DEF Own
  <2> QED
    BY <2>5, <2>6
<1>3. CASE ~(Callers # <<>> /\ Head(Callers).proc = "Wait")
  BY <1>3 DEF Answer
<1> QED
  BY <1>2, <1>3

\* The running activation, at another pc.
LEMMA LevelsContinue ==
  ASSUME IndInv, NEW pc \in Pcs \ {"notify", "dispatch"}, stack' = Continue(pc)
  PROVE  SameLevels
BY ContinueFrame, LevelsGoOn DEF Continue

LEMMA LevelsCallAt ==
  ASSUME IndInv, NEW pc \in Pcs \ {"notify", "dispatch"}, NEW g, g.proc # "Dispatch", stack' = Call(g, pc)
  PROVE  SameLevels
BY ContinueFrame, LevelsCall DEF Call

LEMMA LevelsSectionContinue ==
  ASSUME IndInv, NEW pc \in Pcs \ {"notify", "dispatch"}, EventLockSection(Continue(pc))
  PROVE  SameLevels
BY ContinueFrame, LevelsSectionGoesOn DEF Continue

\* What is not on the level's queues or dispatched is left alone.
Quiet == UNCHANGED queue /\ SameLevels

LEMMA RestoreTplQuiet ==
  ASSUME IndInv, RestoreTplTest \/ RestoreTplLoopEnd \/ RestoreTplSet
  PROVE  Quiet
<1>1. "set" \in Pcs \ {"notify", "dispatch"}
  BY DEF Pcs
<1>2. CASE RestoreTplLoopEnd
  BY <1>1, <1>2, LevelsContinue DEF RestoreTplLoopEnd, Quiet
<1>3. CASE RestoreTplSet
  BY <1>3, LevelsReturn DEF RestoreTplSet, At, Quiet
<1>4. CASE RestoreTplTest
  <2>1. PICK f : f = [Top EXCEPT !.pc = "dispatch", !.arg = HighBitSet64(pending)]
    OBVIOUS
  <2>2. /\ stack' = <<f>> \o Callers /\ UNCHANGED queue
        /\ f.proc = Top.proc /\ f.level = Top.level
    BY <1>4, <2>1, TopFacts DEF RestoreTplTest, FrameRecord
  <2> QED
    BY <2>2, LevelsGoOn DEF Quiet
<1> QED
  BY <1>2, <1>3, <1>4

LEMMA DispatchNotifyQuiet ==
  ASSUME IndInv, DispatchNotify
  PROVE  Quiet
<1>1. PICK f : f = [Top EXCEPT !.pc = "lock", !.ev = NoEvent]
  OBVIOUS
<1>2. PICK g : g = IF Top.ev = CheckTimerEvent THEN CheckTimers ELSE Task(Top.ev)
  OBVIOUS
<1>3. Top.proc = "Dispatch" /\ stack' = <<g, f>> \o Callers /\ UNCHANGED queue
  BY <1>1, <1>2 DEF DispatchNotify, At
<1>4. /\ f \in FrameRecord /\ f.proc = "Dispatch" /\ f.pc = "lock" /\ f.level = Top.level
  BY <1>1, <1>3, TopFacts DEF FrameRecord, Pcs
<1>5. f \in Activation
  BY <1>3, <1>4, TopFacts DEF Activation, FrameOK
<1>6. g.proc # "Dispatch"
  BY <1>2, BuiltFrames
<1> QED
  BY <1>3, <1>4, <1>5, <1>6, LevelsCall DEF Quiet

LEMMA SignalQuiet ==
  ASSUME IndInv, SignalGroup \/ NotifyListEnd \/ SignalEnd
  PROVE  Quiet
<1>1. CASE SignalGroup
  <2>1. PICK f : f = [Top EXCEPT !.pc = "end"]
    OBVIOUS
  <2>2. PICK g : g = NotifyList(Top.ev)
    OBVIOUS
  <2>3. PICK h : h = RestoreTo(tpl)
    OBVIOUS
  <2>4. /\ stack' = <<g, h>> \o (<<f>> \o Callers) /\ UNCHANGED queue
        /\ Top.proc = "Signal" /\ Top.ev \in Event
    BY <1>1, <2>1, <2>2, <2>3, TopFacts DEF SignalGroup, Continue, At, FrameOK
  <2>5. "end" \in Pcs \ {"notify", "dispatch"}
    BY DEF Pcs
  <2>6. f \in Activation /\ f.proc = "Signal"
    BY <2>1, <2>4, <2>5, ContinueFrame
  <2>7. g \in Activation /\ h \in Activation /\ g.proc # "Dispatch" /\ h.proc # "Dispatch"
    <3>1. g \in Activation /\ g.proc = "NotifyList"
      BY <2>2, <2>4, TopFacts, ServiceFrames, BuiltFrames
    <3>2. h \in Activation /\ h.proc = "RestoreTpl"
      BY <2>3, TopFacts, ConstantsAssumption
         DEF RestoreTo, Frame, Activation, FrameRecord, FrameOK, Procs, Pcs
    <3> QED
      BY <3>1, <3>2
  <2>8. /\ Callers \in Seq(Activation) /\ <<f>> \o Callers \in Seq(Activation)
        /\ <<h>> \o (<<f>> \o Callers) \in Seq(Activation)
    BY <2>6, <2>7, TopFacts, PushSeq
  <2>9. stack' = <<g>> \o (<<h>> \o (<<f>> \o Callers))
    BY <2>4, <2>7, <2>8, TwoSeq
  <2> QED
    BY <2>4, <2>6, <2>7, <2>8, <2>9, LevelsTop, LevelsPush DEF Quiet, SameLevels, Own
<1>2. CASE NotifyListEnd
  BY <1>2, LevelsReturn DEF NotifyListEnd, At, Quiet
<1>3. CASE SignalEnd
  BY <1>3, LevelsSectionReturns DEF SignalEnd, At, Quiet
<1> QED
  BY <1>1, <1>2, <1>3

LEMMA CheckEventClearQuiet ==
  ASSUME IndInv, CheckEventClear
  PROVE  Quiet
<1>1. Top.proc = "CheckEvent" /\ UNCHANGED queue
      /\ (EventLockSection(Answer("return")) \/ stack' = Answer("next"))
  BY DEF CheckEventClear, At
<1>2. CASE EventLockSection(Answer("return"))
  <2>1. Answer("return") \in Seq(Activation)
    BY <1>1, AnswerKeeps DEF StackOK
  <2> QED
    BY <1>1, <1>2, <2>1, LevelsSection, LevelsAnswer, LevelsTop DEF Quiet, SameLevels, Own
<1>3. CASE stack' = Answer("next")
  BY <1>1, <1>3, LevelsAnswer, LevelsTop DEF Quiet, SameLevels, Own
<1> QED
  BY <1>1, <1>2, <1>3

LEMMA WaitQuiet ==
  ASSUME IndInv, WaitStep
  PROVE  Quiet
<1>1. "check" \in Pcs \ {"notify", "dispatch"}
  BY DEF Pcs
<1>2. CASE WaitForEventCheck
  BY <1>1, <1>2, LevelsCallAt, BuiltFrames DEF WaitForEventCheck, Quiet
<1>3. CASE WaitForEventNext
  <2>1. Top.proc = "Wait" /\ UNCHANGED queue
    BY <1>3 DEF WaitForEventNext, At
  <2>2. CASE Top.arg < Len(WaitList)
    <3>1. PICK f : f = [Top EXCEPT !.pc = "check", !.arg = @ + 1]
      OBVIOUS
    <3>2. stack' = <<f>> \o Callers
      BY <1>3, <2>2, <3>1 DEF WaitForEventNext
    <3>3. f.proc = Top.proc /\ f.level = Top.level
      BY <3>1, TopFacts DEF FrameRecord
    <3> QED
      BY <2>1, <3>2, <3>3, LevelsGoOn DEF Quiet
  <2>3. CASE ~(Top.arg < Len(WaitList))
    <3>1. PICK f : f = [Top EXCEPT !.pc = "check", !.arg = 1]
      OBVIOUS
    <3>2. stack' = <<Signal(IdleLoopEvent), f>> \o Callers
      BY <1>3, <2>3, <3>1 DEF WaitForEventNext
    <3>3. /\ f \in FrameRecord /\ f.proc = "Wait" /\ f.level = Top.level /\ f.arg = 1
      BY <2>1, <3>1, TopFacts DEF FrameRecord, Pcs
    <3>4. f \in Activation
      <4>1. 1 \in 1..Len(WaitList)
        BY <2>1, TopFacts DEF FrameOK
      <4> QED
        BY <3>3, <4>1 DEF Activation, FrameOK
    <3> QED
      BY <2>1, <3>2, <3>3, <3>4, LevelsCall, BuiltFrames DEF Quiet
  <2> QED
    BY <2>2, <2>3
<1>4. CASE WaitForEventReturn
  BY <1>4, LevelsReturn DEF WaitForEventReturn, At, Quiet
<1> QED
  BY <1>2, <1>3, <1>4 DEF WaitStep

LEMMA CloseQuiet ==
  ASSUME IndInv, CloseEventCancel \/ CloseEventFree
  PROVE  Quiet
<1>1. "unlink" \in Pcs \ {"notify", "dispatch"}
  BY DEF Pcs
<1>2. CASE CloseEventCancel
  <2>1. UNCHANGED queue
        /\ (stack' = Call(SetTimer(Top.ev, "cancel", 0), "unlink") \/ stack' = Continue("unlink"))
    BY <1>2 DEF CloseEventCancel
  <2> QED
    BY <1>1, <2>1, LevelsCallAt, LevelsContinue, BuiltFrames DEF Quiet
<1>3. CASE CloseEventFree
  BY <1>3, LevelsReturn DEF CloseEventFree, At, Quiet
<1> QED
  BY <1>2, <1>3

LEMMA SetTimerQuiet ==
  ASSUME IndInv, SetTimerStep
  PROVE  Quiet
<1>1. {"release", "time", "insert"} \subseteq Pcs \ {"notify", "dispatch"}
  BY DEF Pcs
<1>2. RestoreTo(timerOwner).proc # "Dispatch"
  BY DEF RestoreTo, Frame
<1>3. CASE SetTimerRemove
  <2>1. /\ Top.proc = "SetTimer" /\ UNCHANGED queue
        /\ \/ stack' = Callers
           \/ stack' = Continue("release")
           \/ stack' = Continue("time")
    BY <1>3 DEF SetTimerRemove, At
  <2> QED
    BY <1>1, <2>1, LevelsReturn, LevelsContinue DEF Quiet
<1>4. CASE SetTimerTime
  <2>1. PICK d : d = IF Top.mode = "periodic" /\ Top.arg = 0 THEN TimerPeriod ELSE Top.arg
    OBVIOUS
  <2>2. PICK f : f = [Top EXCEPT !.pc = "insert", !.arg = d]
    OBVIOUS
  <2>3. stack' = <<f>> \o Callers /\ UNCHANGED queue
    BY <1>4, <2>1, <2>2 DEF SetTimerTime
  <2>4. f.proc = Top.proc /\ f.level = Top.level
    BY <2>2, TopFacts DEF FrameRecord
  <2> QED
    BY <2>3, <2>4, LevelsGoOn DEF Quiet
<1>5. CASE SetTimerInsert
  <2>1. /\ UNCHANGED queue
        /\ stack' = Call(Signal(CheckTimerEvent), "release") \/ stack' = Continue("release")
    BY <1>5 DEF SetTimerInsert
  <2> QED
    BY <1>1, <2>1, LevelsCallAt, LevelsContinue, BuiltFrames DEF Quiet
<1>6. CASE SetTimerRelease
  <2>1. UNCHANGED queue /\ Top.proc = "SetTimer" /\ stack' = <<RestoreTo(timerOwner)>> \o Callers
    BY <1>6 DEF SetTimerRelease, At
  <2> QED
    BY <1>2, <2>1, TopFacts, LevelsPush, LevelsTop DEF Quiet, SameLevels, Own
<1> QED
  BY <1>3, <1>4, <1>5, <1>6 DEF SetTimerStep

LEMMA CheckTimersQuiet ==
  ASSUME IndInv, CheckTimersStep
  PROVE  Quiet
<1>1. {"loop", "period", "insert"} \subseteq Pcs \ {"notify", "dispatch"}
  BY DEF Pcs
<1>2. RestoreTo(timerOwner).proc # "Dispatch"
  BY DEF RestoreTo, Frame
<1>3. CASE CheckTimersLock
  <2>1. PICK f : f = [Top EXCEPT !.pc = "loop", !.arg = now]
    OBVIOUS
  <2>2. stack' = <<f>> \o Callers /\ UNCHANGED queue
    BY <1>3, <2>1 DEF CheckTimersLock
  <2>3. f.proc = Top.proc /\ f.level = Top.level
    BY <2>1, TopFacts DEF FrameRecord
  <2> QED
    BY <2>2, <2>3, LevelsGoOn DEF Quiet
<1>4. CASE CheckTimersExpire
  <2>1. PICK e : e = Head(timerList)
    OBVIOUS
  <2>2. PICK f : f = [Top EXCEPT !.pc = "period", !.ev = e]
    OBVIOUS
  <2>3. /\ stack' = <<Signal(e), f>> \o Callers /\ UNCHANGED queue
        /\ Top.proc = "CheckTimers" /\ timerList # <<>>
    BY <1>4, <2>1, <2>2 DEF CheckTimersExpire, At, Expired
  <2>4. e \in Event
    BY <2>1, <2>3 DEF IndInv, DataOK
  <2>5. /\ f \in FrameRecord /\ f.proc = Top.proc /\ f.level = Top.level
        /\ f.ev \in Event /\ f.proc = "CheckTimers"
    BY <2>2, <2>3, <2>4, TopFacts DEF FrameRecord, Pcs
  <2>6. f \in Activation
    BY <2>5 DEF Activation, FrameOK
  <2>7. Signal(e).proc # "Dispatch"
    BY BuiltFrames
  <2>8. SameLevels
    BY <2>3, <2>5, <2>6, <2>7, LevelsCall
  <2> QED
    BY <2>3, <2>8 DEF Quiet
<1>5. CASE CheckTimersPeriod
  <2>1. /\ UNCHANGED queue
        /\ \/ stack' = Continue("loop")
           \/ stack' = Continue("insert")
           \/ stack' = Call(Signal(CheckTimerEvent), "insert")
    BY <1>5 DEF CheckTimersPeriod
  <2> QED
    BY <1>1, <2>1, LevelsCallAt, LevelsContinue, BuiltFrames DEF Quiet
<1>6. CASE CheckTimersInsert
  BY <1>1, <1>6, LevelsContinue DEF CheckTimersInsert, Quiet
<1>7. CASE CheckTimersDone
  <2>1. /\ UNCHANGED queue /\ Top.proc = "CheckTimers"
        /\ stack' = <<RestoreTo(timerOwner)>> \o Callers
    BY <1>7 DEF CheckTimersDone, At
  <2> QED
    BY <1>2, <2>1, TopFacts, LevelsPush, LevelsTop DEF Quiet, SameLevels, Own
<1> QED
  BY <1>3, <1>4, <1>5, <1>6, <1>7 DEF CheckTimersStep

LEMMA ReturnQuiet ==
  ASSUME IndInv, IsrReturn \/ TaskReturn
  PROVE  Quiet
<1>1. Top.proc # "Dispatch" /\ stack' = Callers /\ UNCHANGED queue
  BY DEF IsrReturn, TaskReturn, At
<1> QED
  BY <1>1, LevelsReturn DEF Quiet

LEMMA InvokeQuiet ==
  ASSUME IndInv, NEW h, h.proc # "Dispatch", Invoke(h)
  PROVE  Quiet
BY LevelsOnTop DEF Invoke, CoreState, Quiet

LEMMA TaskQuiet ==
  ASSUME IndInv, TaskStep
  PROVE  Quiet
<1>1. ASSUME NEW e, CallSignal(e) \/ CallCheck(e) \/ CallClose(e) \/ CallWait
      PROVE  Quiet
  BY <1>1, BuiltFrames, InvokeQuiet DEF CallSignal, CallCheck, CallClose, CallWait
<1>2. ASSUME NEW e, NEW mode, NEW d, CallSetTimer(e, mode, d) PROVE Quiet
  BY <1>2, BuiltFrames, InvokeQuiet DEF CallSetTimer
<1>3. ASSUME NEW e, NEW r, CallCreate(e, r) PROVE Quiet
  <2>1. EventLockSection(stack) /\ UNCHANGED queue
    BY <1>3 DEF CallCreate
  <2> QED
    BY <2>1, TopFacts, LevelsSection DEF Quiet, SameLevels
<1>4. ASSUME NEW t, CallRaiseTpl(t) PROVE Quiet
  <2>1. PICK f : f = [Top EXCEPT !.arg = t]
    OBVIOUS
  <2>2. stack' = <<f>> \o Callers /\ UNCHANGED queue
    BY <1>4, <2>1 DEF CallRaiseTpl
  <2>3. f.proc = Top.proc /\ f.level = Top.level
    BY <2>1, TopFacts DEF FrameRecord
  <2> QED
    BY <2>2, <2>3, LevelsGoOn DEF Quiet
<1>5. CASE CallRestoreTpl
  <2>1. PICK f : f = [Top EXCEPT !.arg = NoTpl]
    OBVIOUS
  <2>2. PICK g : g = RestoreTo(Top.level)
    OBVIOUS
  <2>3. /\ stack' = <<g, f>> \o Callers /\ UNCHANGED queue /\ Top.proc = "Task"
        /\ g.proc # "Dispatch"
    BY <1>5, <2>1, <2>2 DEF CallRestoreTpl, At, RestoreTo, Frame
  <2>4. /\ f \in FrameRecord /\ f.proc = "Task" /\ f.level = Top.level /\ f.arg = NoTpl
    BY <2>1, <2>3, TopFacts, TplNumbers DEF FrameRecord
  <2>5. f \in Activation
    BY <2>4 DEF Activation, FrameOK
  <2> QED
    BY <2>3, <2>4, <2>5, LevelsCall DEF Quiet
<1>6. CASE TaskReturn
  BY <1>6, ReturnQuiet
<1> QED
  BY <1>1, <1>2, <1>3, <1>4, <1>5, <1>6 DEF TaskStep

-----------------------------------------------------------------------------
(***************************************************************************)
(* Steps of the queues.                                                    *)
(***************************************************************************)
\* Both specifications use the same lists.
LEMMA SameLists ==
  ASSUME NEW list, NEW e
  PROVE  /\ Abstract!Linked(list, e) <=> Linked(list, e)
         /\ Abstract!Unlink(list, e) = Unlink(list, e)
         /\ Abstract!InsertTailList(list, e) = InsertTailList(list, e)
<1>1. Abstract!Linked(list, e) <=> Linked(list, e)
  BY DEF Abstract!Linked, Linked
<1>2. Abstract!RemoveEntryList(list, e) = RemoveEntryList(list, e)
  BY DEF Abstract!RemoveEntryList, RemoveEntryList, Abstract!PositionOf, PositionOf
<1>3. Abstract!InsertTailList(list, e) = InsertTailList(list, e)
  BY DEF Abstract!InsertTailList, InsertTailList
<1> QED
  BY <1>1, <1>2, <1>3 DEF Abstract!Unlink, Unlink

\* An event is queued on the level of its notification only.
LEMMA NotifyEnqueues ==
  ASSUME IndInv, SafeInv, NEW e \in Event, NotifyEvent(e), SameLevels
  PROVE  Abstract!Enqueue(e, event[e].ntpl) /\ event[e].ntpl \in QueueLevels
<1>1. \A u \in QueueLevels \ {event[e].ntpl} : ~Linked(queue[u], e)
  BY DEF SafeInv, ListsOK
<1>2. event[e].ntpl \in QueueLevels
  BY DEF IndInv, DataOK, EventRecord, QueueLevels
<1>3. /\ queue' = [queue EXCEPT ![event[e].ntpl] = InsertTailList(Unlink(@, e), e)]
      /\ UNCHANGED DispatchLevels
  BY LevelsNow DEF NotifyEvent, SameLevels
<1> QED
  BY <1>1, <1>2, <1>3, SameLists DEF Abstract!Enqueue

\* What a step that notifies at most one event is to the abstract queues.
Enqueues ==
  \/ Quiet
  \/ \E e \in Event, t \in QueueLevels : Abstract!Enqueue(e, t)

LEMMA SignalEventEnqueues ==
  ASSUME IndInv, SafeInv, SignalEvent
  PROVE  Enqueues
<1>1. Top.proc = "Signal" /\ Top.ev \in Event
  BY TopFacts DEF SignalEvent, At, FrameOK
<1>2. /\ UNCHANGED queue \/ NotifyEvent(Top.ev)
      /\ EventLockSection(Callers) \/ EventLockSection(Continue("group"))
  BY DEF SignalEvent
<1>3. "group" \in Pcs \ {"notify", "dispatch"}
  BY DEF Pcs
<1>4. SameLevels
  BY <1>1, <1>2, <1>3, LevelsSectionReturns, LevelsSectionContinue
<1> QED
  BY <1>1, <1>2, <1>4, NotifyEnqueues DEF Enqueues, Quiet

LEMMA NotifyListEntryEnqueues ==
  ASSUME IndInv, SafeInv, NotifyListEntry
  PROVE  Enqueues
<1>1. PICK e : e = signalList[Top.arg]
  OBVIOUS
<1>2. PICK f : f = [Top EXCEPT !.arg = @ + 1]
  OBVIOUS
<1>3. /\ UNCHANGED queue \/ NotifyEvent(e)
      /\ stack' = <<f>> \o Callers /\ Top.arg <= Len(signalList) /\ Top.proc = "NotifyList"
  BY <1>1, <1>2 DEF NotifyListEntry, At
<1>4. Top.arg \in 1..Len(signalList)
  BY <1>3, TopFacts DEF FrameOK, FrameRecord, IndInv, DataOK
<1>5. e \in Event
  BY <1>1, <1>4 DEF IndInv, DataOK
<1>6. f.proc = Top.proc /\ f.level = Top.level
  BY <1>2, TopFacts DEF FrameRecord
<1>7. SameLevels
  BY <1>3, <1>6, LevelsGoOn
<1> QED
  BY <1>3, <1>5, <1>7, NotifyEnqueues DEF Enqueues, Quiet

LEMMA CheckEventQueueEnqueues ==
  ASSUME IndInv, SafeInv, CheckEventQueue
  PROVE  Enqueues
<1>1. Top.proc = "CheckEvent" /\ Top.ev \in Event
  BY TopFacts DEF CheckEventQueue, At, FrameOK
<1>2. /\ UNCHANGED queue \/ NotifyEvent(Top.ev)
      /\ \/ stack' = Answer("return") \/ stack' = Continue("test")
         \/ EventLockSection(Continue("test"))
  BY DEF CheckEventQueue
<1>3. "test" \in Pcs \ {"notify", "dispatch"}
  BY DEF Pcs
<1>4. stack' = Answer("return") => SameLevels
  BY <1>1, LevelsAnswer, LevelsTop DEF SameLevels, Own
<1>5. SameLevels
  BY <1>2, <1>3, <1>4, LevelsContinue, LevelsSectionContinue
<1> QED
  BY <1>1, <1>2, <1>5, NotifyEnqueues DEF Enqueues, Quiet

LEMMA TimerTickEnqueues ==
  ASSUME IndInv, SafeInv, TimerTick
  PROVE  Enqueues
<1>1. PICK h : h = RestoreTo(tpl)
  OBVIOUS
<1>2. /\ UNCHANGED queue \/ NotifyEvent(CheckTimerEvent)
      /\ stack' = <<h, Isr>> \o stack
  BY <1>1 DEF TimerTick
<1>3. /\ h \in Activation /\ h.proc = "RestoreTpl" /\ Isr \in Activation /\ Isr.proc = "Isr"
      /\ CheckTimerEvent \in Event
  <2>1. h \in Activation /\ h.proc = "RestoreTpl"
    BY <1>1, TopFacts, ConstantsAssumption
       DEF RestoreTo, Frame, Activation, FrameRecord, FrameOK, Procs, Pcs
  <2>2. CheckTimerEvent \in Event
    BY DEF Event
  <2> QED
    BY <2>1, <2>2, TopFacts, ServiceFrames, BuiltFrames
<1>4. /\ <<Isr>> \o stack \in Seq(Activation)
      /\ stack' = <<h>> \o (<<Isr>> \o stack)
  <2>1. PICK g : g = Isr
    OBVIOUS
  <2>2. g \in Activation /\ stack' = <<h, g>> \o stack /\ stack \in Seq(Activation)
    BY <1>2, <1>3, <2>1, TopFacts
  <2> QED
    BY <1>3, <2>1, <2>2, PushSeq, TwoSeq
<1>5. SameLevels
  BY <1>3, <1>4, TopFacts, LevelsPush DEF SameLevels, Own
<1> QED
  BY <1>2, <1>3, <1>5, NotifyEnqueues DEF Enqueues, Quiet

LEMMA CloseEventUnlinkWithdraws ==
  ASSUME IndInv, CloseEventUnlink
  PROVE  Top.ev \in Event /\ Abstract!Withdraw(Top.ev)
<1>1. /\ queue' = [t \in QueueLevels |-> Unlink(queue[t], Top.ev)]
      /\ EventLockSection(Continue("free"))
      /\ Top.proc = "Close"
  BY DEF CloseEventUnlink, At
<1>2. "free" \in Pcs \ {"notify", "dispatch"}
  BY DEF Pcs
<1>3. SameLevels /\ Top.ev \in Event
  BY <1>1, <1>2, LevelsSectionContinue, TopFacts DEF FrameOK
<1> QED
  BY <1>1, <1>3, LevelsNow, SameLists DEF Abstract!Withdraw, SameLevels

-----------------------------------------------------------------------------
(***************************************************************************)
(* Steps of the levels.                                                    *)
(***************************************************************************)
\* No dispatch on the stack is of a level above that of the running activation.
LEMMA LevelsBelowTop ==
  ASSUME IndInv
  PROVE  /\ Levels(stack) \subseteq Tpls
         /\ \A u \in Levels(stack) : u <= Top.level
<1>1. ASSUME NEW u \in Levels(stack) PROVE u \in Tpls /\ u <= Top.level
  <2>1. PICK i \in 1..Len(stack) : u = stack[i].level
    BY DEF Levels
  <2>2. stack \in Seq(Activation) /\ Len(stack) \in Nat /\ Top = stack[1]
    BY TopFacts
  <2>3. \A a, b \in 1..Len(stack) : a < b => stack[a].level >= stack[b].level
    BY TopFacts DEF StackOK
  <2>4. stack[i] \in Activation
    BY <2>2
  <2>5. u \in Tpls /\ u \in Nat
    BY <2>1, <2>4, LevelsAreNumbers
  <2>6. CASE i = 1
    BY <2>1, <2>2, <2>5, <2>6
  <2>7. CASE i # 1
    <3>1. 1 \in 1..Len(stack) /\ 1 < i
      BY <2>2, <2>7
    <3> QED
      BY <2>1, <2>2, <2>5, <2>3, <3>1, TopFacts
  <2> QED
    BY <2>5, <2>6, <2>7
<1> QED
  BY <1>1

LEMMA RestoreTplDispatchEnters ==
  ASSUME IndInv, RestoreTplDispatch
  PROVE  \E p \in QueueLevels : Abstract!Enter(p)
<1>1. PICK p : p = Top.arg
  OBVIOUS
<1>2. PICK g : g = DispatchAt(p)
  OBVIOUS
<1>3. PICK f : f = [Top EXCEPT !.pc = "while", !.arg = 0]
  OBVIOUS
<1>4. /\ stack' = <<g, f>> \o Callers /\ UNCHANGED queue /\ Top.proc = "RestoreTpl"
  BY <1>1, <1>2, <1>3 DEF RestoreTplDispatch, At, IndInv
<1>5. p \in NotifyTpls /\ p > Top.level
  BY <1>1, TopFacts DEF RestoreTplDispatch, At, FrameOK, LevelOK
<1>6. p \in QueueLevels /\ p \in Nat /\ g.proc = "Dispatch" /\ g.level = p
  BY <1>2, <1>5, TplNumbers DEF DispatchAt, Frame
<1>8. f \in Activation /\ f.proc = "RestoreTpl"
  BY <1>3, <1>4, LoopFrame
<1>9. g \in Activation
  BY <1>2, <1>5, TplNumbers, ConstantsAssumption
     DEF DispatchAt, Frame, Activation, FrameRecord, FrameOK, Procs, Pcs
<1>10. /\ stack' = <<g>> \o (<<f>> \o Callers)
       /\ <<f>> \o Callers \in Seq(Activation)
  <2>1. Callers \in Seq(Activation)
    BY TopFacts
  <2>2. <<f>> \o Callers \in Seq(Activation)
    BY <1>8, <2>1, PushSeq
  <2>3. <<g, f>> \o Callers = <<g>> \o (<<f>> \o Callers)
    BY <1>8, <1>9, <2>1, TwoSeq
  <2> QED
    BY <1>4, <2>2, <2>3
<1>11. Levels(stack') = {p} \cup Levels(stack)
  <2>1. Levels(stack') = {p} \cup Levels(<<f>> \o Callers)
    BY <1>6, <1>10, LevelsPush DEF Own
  <2>2. Levels(<<f>> \o Callers) = Levels(Callers)
    BY <1>8, TopFacts, LevelsPush DEF Own
  <2>3. Levels(stack) = Levels(Callers)
    BY <1>4, LevelsTop DEF Own
  <2> QED
    BY <2>1, <2>2, <2>3
<1>12. \A u \in Levels(stack) : u < p
  <2>1. Tpls \subseteq Nat /\ Top.level \in Nat /\ p > Top.level /\ p \in Nat
    BY <1>5, <1>6, TopFacts, LevelsAreNumbers
  <2>2. ASSUME NEW u \in Levels(stack) PROVE u < p
    <3>1. u \in Nat /\ u <= Top.level
      BY <2>1, LevelsBelowTop
    <3> QED
      BY <2>1, <3>1
  <2> QED
    BY <2>2
<1> QED
  BY <1>4, <1>6, <1>11, <1>12, LevelsNow DEF Abstract!Enter

\* The running dispatch is the innermost one.
LEMMA TopInnermost ==
  ASSUME IndInv, Top.proc = "Dispatch"
  PROVE  Top.level \in QueueLevels /\ Abstract!Innermost(Top.level)
<1>1. Top.level \in QueueLevels
  BY TopFacts DEF FrameOK, QueueLevels
<1>2. Top.level \in Levels(stack)
  BY LevelsTop DEF Own
<1> QED
  BY <1>1, <1>2, LevelsBelowTop, LevelsNow DEF Abstract!Innermost

LEMMA DispatchTakeNotifies ==
  ASSUME IndInv, DispatchTake
  PROVE  Top.level \in QueueLevels /\ Abstract!Notify(Top.level)
<1>1. PICK f : f = [Top EXCEPT !.pc = "notify", !.ev = Head(queue[Top.level])]
  OBVIOUS
<1>2. /\ Top.proc = "Dispatch" /\ queue[Top.level] # <<>>
      /\ queue' = [queue EXCEPT ![Top.level] = Tail(@)]
      /\ EventLockSection(<<f>> \o Callers)
  BY <1>1 DEF DispatchTake, At
<1>3. Top.level \in QueueLevels /\ Abstract!Innermost(Top.level)
  BY <1>2, TopInnermost
<1>4. Head(queue[Top.level]) \in Event
  BY <1>2, <1>3 DEF IndInv, DataOK
<1>5. /\ f \in FrameRecord /\ f.proc = "Dispatch" /\ f.level = Top.level /\ f.ev \in Event
  BY <1>1, <1>2, <1>4, TopFacts DEF FrameRecord, Pcs
<1>6. f \in Activation
  BY <1>2, <1>5, TopFacts DEF Activation, FrameOK
<1>7. SameLevels
  BY <1>2, <1>5, <1>6, LevelsSectionGoesOn
<1> QED
  BY <1>2, <1>3, <1>7, LevelsNow DEF Abstract!Notify, SameLevels

LEMMA DispatchDoneLeaves ==
  ASSUME IndInv, DispatchDone
  PROVE  Top.level \in QueueLevels /\ Abstract!Leave(Top.level)
<1>1. /\ Top.proc = "Dispatch" /\ queue[Top.level] = <<>> /\ UNCHANGED queue
      /\ EventLockSection(Callers)
  BY DEF DispatchDone, At
<1>2. Top.level \in QueueLevels /\ Abstract!Innermost(Top.level)
  BY <1>1, TopInnermost
<1>3. Levels(stack') = Levels(Callers)
  BY <1>1, TopFacts, LevelsSection
<1>4. Levels(stack) = {Top.level} \cup Levels(Callers)
  BY <1>1, LevelsTop DEF Own
<1>5. Top.level \notin Levels(Callers)
  <2>1. ~Bottom(Top)
    BY <1>1 DEF Bottom
  <2>2. stack[2].level < Top.level /\ stack[2] \in Activation /\ Len(stack) > 1
    BY <1>1, <2>1, CallerFacts DEF CalledBy
  <2>3. ASSUME NEW i \in 1..Len(Callers) PROVE Callers[i].level < Top.level
    <3>1. stack \in Seq(Activation) /\ Len(stack) \in Nat /\ Callers = Tail(stack)
          /\ \A a, b \in 1..Len(stack) : a < b => stack[a].level >= stack[b].level
      BY TopFacts DEF StackOK
    <3>2. i + 1 \in 1..Len(stack) /\ Callers[i] = stack[i + 1] /\ i \in Nat /\ i > 0
      BY <2>2, <3>1
    <3>3. stack[i + 1] \in Activation
      BY <3>1, <3>2
    <3>4. stack[i + 1].level \in Nat /\ stack[2].level \in Nat /\ Top.level \in Nat
      BY <2>2, <3>3, LevelsAreNumbers, TopFacts
    <3>5. i = 1 \/ stack[2].level >= stack[i + 1].level
      <4>1. i # 1 => 2 < i + 1 /\ 2 \in 1..Len(stack)
        BY <2>2, <3>1, <3>2
      <4> QED
        BY <3>1, <3>2, <4>1
    <3> QED
      BY <2>2, <3>2, <3>4, <3>5
  <2> QED
    BY <2>3, TopFacts DEF Levels
<1> QED
  BY <1>1, <1>2, <1>3, <1>4, <1>5, LevelsNow DEF Abstract!Leave

-----------------------------------------------------------------------------
LEMMA QuietStutters == Quiet => UNCHANGED <<queue, DispatchLevels>>
BY LevelsNow DEF Quiet, SameLevels

LEMMA InitMaps == Init => Abstract!Init
<1> SUFFICES ASSUME Init PROVE Abstract!Init
  OBVIOUS
<1>1. PICK f : f = Frame("Task", "run", NoEvent, TPL_APPLICATION)
  OBVIOUS
<1>2. stack = <<f>> /\ f.proc = "Task" /\ queue = [t \in QueueLevels |-> <<>>]
  BY <1>1 DEF Init, Frame
<1>3. Len(stack) = 1 /\ stack[1] = f
  BY <1>2
<1>4. DispatchLevels = {}
  BY <1>2, <1>3 DEF DispatchLevels
<1> QED
  BY <1>2, <1>4 DEF Abstract!Init

LEMMA NextMaps ==
  IndInv /\ SafeInv /\ [Next]_vars => [Abstract!Next]_<<queue, DispatchLevels>>
<1> SUFFICES ASSUME IndInv, SafeInv, [Next]_vars
             PROVE  [Abstract!Next]_<<queue, DispatchLevels>>
  OBVIOUS
<1> DEFINE Maps == [Abstract!Next]_<<queue, DispatchLevels>>
<1>1. Quiet => Maps
  BY QuietStutters
<1>2. Enqueues => Maps
  BY <1>1 DEF Enqueues, Abstract!Next
<1>3. CASE UNCHANGED vars
  BY <1>3 DEF vars, DispatchLevels
<1>4. CASE RestoreTplStep
  <2>1. RestoreTplDispatch => Maps
    BY RestoreTplDispatchEnters DEF Abstract!Next
  <2> QED
    BY <1>1, <1>4, <2>1, RestoreTplQuiet DEF RestoreTplStep
<1>5. CASE DispatchStep
  <2>1. DispatchTake \/ DispatchDone => Maps
    BY DispatchTakeNotifies, DispatchDoneLeaves DEF Abstract!Next
  <2> QED
    BY <1>1, <1>5, <2>1, DispatchNotifyQuiet DEF DispatchStep
<1>6. CASE SignalStep
  BY <1>1, <1>2, <1>6, SignalQuiet, SignalEventEnqueues, NotifyListEntryEnqueues DEF SignalStep
<1>7. CASE CheckStep
  BY <1>1, <1>2, <1>7, CheckEventQueueEnqueues, CheckEventClearQuiet DEF CheckStep
<1>8. CASE CloseStep
  <2>1. CloseEventUnlink => Maps
    BY CloseEventUnlinkWithdraws DEF Abstract!Next
  <2> QED
    BY <1>1, <1>8, <2>1, CloseQuiet DEF CloseStep
<1>9. CASE WaitStep \/ SetTimerStep \/ CheckTimersStep \/ IsrReturn \/ TaskStep
  BY <1>1, <1>9, WaitQuiet, SetTimerQuiet, CheckTimersQuiet, ReturnQuiet, TaskQuiet
<1>10. CASE TimerTick
  BY <1>2, <1>10, TimerTickEnqueues
<1> QED
  BY <1>3, <1>4, <1>5, <1>6, <1>7, <1>8, <1>9, <1>10 DEF Next, ServiceStep

\* The event services implement priority dispatching (EventDispatch): an event
\* waits on one level, behind those that wait there already, whatever asks for
\* its notification; only a level above all that are being dispatched starts,
\* only the innermost one notifies, the oldest first, and it ends when nothing
\* waits on it any more.  It needs careful callers: an event created anew in
\* the block of one that is still queued would wait on two levels; and a build
\* that reads gEventPending once, or DispatchNests fails.
THEOREM ImplementsDispatch ==
  ASSUME Careful
  PROVE  Spec /\ ReadsOnce => ImplementsEventDispatch
<1>1. Spec /\ ReadsOnce => [](IndInv /\ SafeInv)
  BY Inductive, SafeInductive, PTL
<1>2. Init => Abstract!Init
  BY InitMaps
<1>3. IndInv /\ SafeInv /\ [Next]_vars => [Abstract!Next]_<<queue, DispatchLevels>>
  BY NextMaps
<1> QED
  BY <1>1, <1>2, <1>3, PTL DEF Spec, ImplementsEventDispatch, Abstract!Spec
=============================================================================
