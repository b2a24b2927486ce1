---------------------------- MODULE LinkedLists ----------------------------
(***************************************************************************)
(* The doubly linked lists of BaseLib (LIST_ENTRY), as the DXE core uses   *)
(* them.  A list is the sequence of the structures linked on it, the       *)
(* ForwardLink of the head first.  An entry is linked at most once on a    *)
(* given list (its LIST_ENTRY is part of the structure), so an entry is    *)
(* named by the structure it belongs to.                                   *)
(***************************************************************************)
EXTENDS Integers, Sequences

Linked(list, e) == \E i \in 1..Len(list) : list[i] = e

PositionOf(list, e) == CHOOSE i \in 1..Len(list) : list[i] = e

\* RemoveEntryList: the entry's neighbours are linked to each other.
RemoveEntryList(list, e) ==
  LET k == PositionOf(list, e)
  IN  [i \in 1..(Len(list) - 1) |-> IF i < k THEN list[i] ELSE list[i + 1]]

\* The idiom "if (Link.ForwardLink != NULL) RemoveEntryList (&Link)".
Unlink(list, e) == IF Linked(list, e) THEN RemoveEntryList(list, e) ELSE list

InsertTailList(list, e) == Append(list, e)

InsertHeadList(list, e) == <<e>> \o list

\* InsertTailList (Link, Entry) with Link the k-th entry of a list (or its
\* head when k is one past the last entry): the entry goes in front of Link.
InsertBefore(list, k, e) ==
  [i \in 1..(Len(list) + 1) |->
     IF i < k THEN list[i] ELSE IF i = k THEN e ELSE list[i - 1]]

NoDuplicates(list) ==
  \A i, j \in 1..Len(list) : list[i] = list[j] => i = j
=============================================================================
