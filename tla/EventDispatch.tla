--------------------------- MODULE EventDispatch ---------------------------
(***************************************************************************)
(* What the event services promise: notifications wait in one first-in,    *)
(* first-out queue per task priority level, each at most once; a level is  *)
(* dispatched only on top of lower levels; and the dispatch of a level     *)
(* ends only when its queue is empty.                                      *)
(***************************************************************************)
EXTENDS LinkedLists

CONSTANTS Event, Level

VARIABLES
  waiting,  \* the notifications waiting at each level, the oldest first
  levels    \* the levels being dispatched, each on top of the lower ones

Init ==
  /\ waiting = [t \in Level |-> <<>>]
  /\ levels = {}

\* The event's notification is asked for (again): it waits behind the others.
Enqueue(e, t) ==
  /\ \A u \in Level \ {t} : ~Linked(waiting[u], e)
  /\ waiting' = [waiting EXCEPT ![t] = InsertTailList(Unlink(@, e), e)]
  /\ UNCHANGED levels

\* The event is closed.
Withdraw(e) ==
  /\ waiting' = [t \in Level |-> Unlink(waiting[t], e)]
  /\ UNCHANGED levels

\* A waiting level interrupts lower ones.
Enter(t) ==
  /\ \A u \in levels : u < t
  /\ levels' = levels \cup {t}
  /\ UNCHANGED waiting

Innermost(t) == t \in levels /\ \A u \in levels : u <= t

\* The innermost level notifies the event that has waited longest.
Notify(t) ==
  /\ Innermost(t)
  /\ waiting[t] # <<>>
  /\ waiting' = [waiting EXCEPT ![t] = Tail(@)]
  /\ UNCHANGED levels

Leave(t) ==
  /\ Innermost(t)
  /\ waiting[t] = <<>>
  /\ levels' = levels \ {t}
  /\ UNCHANGED waiting

Next ==
  \/ \E e \in Event : Withdraw(e) \/ \E t \in Level : Enqueue(e, t)
  \/ \E t \in Level : Enter(t) \/ Notify(t) \/ Leave(t)

Spec == Init /\ [][Next]_<<waiting, levels>>
=============================================================================
