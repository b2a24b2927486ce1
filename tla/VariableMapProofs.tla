------------------------- MODULE VariableMapProofs -------------------------
(***************************************************************************)
(* Proofs that VariableStore implements VariableMap.                       *)
(***************************************************************************)
EXTENDS VariableStoreProofs

-----------------------------------------------------------------------------
(***************************************************************************)
(* One variable for each name.  An update leaves the record it replaces in *)
(* transition until the new one is added; a call that is cut off behind    *)
(* that leaves two records, the old one before the new one.  The theorems  *)
(* are about behaviours in which a call that finds two gets past the first *)
(* (Completes); any number of calls may be cut off or fail anywhere else.  *)
(***************************************************************************)
DoublesComplete == [][Completes]_vars

VisibleOf(s, n) == {i \in 1..Len(s) : s[i].name = n /\ Visible(s[i])}

AtMostOne(s, n) == \A i, j \in VisibleOf(s, n) : i = j

\* At most one in transition, and behind it at most one that is added.
OldAndNew(s, n) ==
  \A i, j \in VisibleOf(s, n) :
    /\ s[i].state = s[j].state => i = j
    /\ s[i].state = "transition" /\ s[j].state = "added" => i < j

AllNames == Names \cup {Garbled}

Finding == Deleting \cup {"mark"}

Settled(n) == job = Idle \/ job.request.name # n \/ job.pc \in Finding

NamesOK ==
  \A n \in AllNames : Settled(n) => OldAndNew(cache, n)

\* The records of the name the call in progress is about.
Updating(j, s) ==
  LET V == VisibleOf(s, j.request.name)
  IN  /\ j.pc \in Finding => j.curr \in V
      /\ V \subseteq {j.curr, j.inDel} \cup (IF j.pc \in Dropping THEN {Len(s)} ELSE {})
      /\ j.pc \in {"delete", "drop"} => j.inDel \notin V
      /\ j.inDel < j.curr \/ j.inDel = 0
      /\ j.inDel # 0 /\ j.pc \in {"delete transition", "mark"} => s[j.curr].state = "added"
      /\ j.pc \notin Finding =>
           \A i \in V : s[i].state = "transition" \/ (i = Len(s) /\ j.pc \in Dropping)
      /\ j.pc \in Dropping => s[Len(s)] = Added(j.request)
      /\ j.pc \in Writing \cup {"place"} /\ j.curr # 0 => j.curr \in V

CallOK ==
  job # Idle =>
    /\ Updating(job, cache)
    /\ VisibleOf(memory, job.request.name) = {}
    /\ EndOfDxe => job.request.name \notin LockedNames
    /\ job.pc \in Deleting <=> IsDeletion(job.request)
    /\ job.pc \in Deleting => job.request.value = NoData \/ job.request.attr = {}

Lives(q) == q.attr \cap {"BS", "RT"} # {}

MemoryOK ==
  /\ \A i \in 1..Len(memory) : "NV" \notin memory[i].attr /\ Lives(memory[i]) /\ memory[i].whole
  /\ \A i \in 1..Len(cache) : Lives(cache[i])
  /\ \A n \in AllNames : AtMostOne(memory, n)
  /\ \A n \in AllNames : VisibleOf(memory, n) = {} \/ VisibleOf(cache, n) = {}

MapInv == NamesOK /\ CallOK /\ MemoryOK

-----------------------------------------------------------------------------
(***************************************************************************)
(* What a search finds.                                                    *)
(***************************************************************************)
LEMMA GreatestIn ==
  ASSUME NEW n \in Nat, NEW T \in SUBSET (1..n), T # {}
  PROVE  GreatestOr0(T) \in T /\ \A i \in T : i <= GreatestOr0(T)
<1>1. GreatestOr0(T) = Greatest(T)
  BY DEF GreatestOr0
<1> QED
  BY <1>1, GreatestExists

LEMMA VisibleIs ==
  ASSUME NEW s \in Seq(Record), NEW n
  PROVE  /\ VisibleOf(s, n) \in SUBSET (1..Len(s))
         /\ Named(s, n) \in SUBSET (1..Len(s))
         /\ \A i \in VisibleOf(s, n) : i \in Nat /\ i # 0
         /\ VisibleOf(s, n) = {i \in Named(s, n) : s[i].state = "added"}
                                \cup {i \in Named(s, n) : s[i].state = "transition"}
BY EntryIn DEF VisibleOf, Named, Visible

\* Record c is the one to find: the others are in transition, and lie before it
\* unless it is added.
Best(s, n, c) ==
  /\ c \in VisibleOf(s, n)
  /\ \A i \in VisibleOf(s, n) :
       i = c \/ (s[i].state = "transition" /\ (s[c].state = "added" \/ i < c))

LEMMA FoundBest ==
  ASSUME NEW s \in Seq(Record), NEW n, NEW c, Best(s, n, c)
  PROVE  FindVariableEx(s, n).curr = c
<1> DEFINE added      == {i \in Named(s, n) : s[i].state = "added"}
           transition == {i \in Named(s, n) : s[i].state = "transition"}
<1>1. /\ added \in SUBSET (1..Len(s)) /\ transition \in SUBSET (1..Len(s)) /\ Len(s) \in Nat
      /\ VisibleOf(s, n) = added \cup transition
      /\ \A i \in VisibleOf(s, n) : i \in Nat /\ i # 0
  BY VisibleIs, EntryIn
<1>2. \A i \in added : s[i].state = "added"
  OBVIOUS
<1>3. \A i \in transition : s[i].state = "transition"
  OBVIOUS
<1>4. FindVariableEx(s, n) =
        IF added # {}
        THEN [curr  |-> Least(added),
              inDel |-> GreatestOr0({i \in transition : i < Least(added)})]
        ELSE [curr |-> GreatestOr0(transition), inDel |-> 0]
  BY DEF FindVariableEx, FindAmong
<1> HIDE DEF added, transition
<1>5. CASE added # {}
  <2>1. Least(added) \in added
    BY <1>1, <1>5, LeastExists
  <2>2. Least(added) = c
    BY <1>1, <1>2, <2>1 DEF Best
  <2> QED
    BY <1>4, <1>5, <2>2
<1>6. CASE added = {}
  <2>1. transition # {} /\ c \in transition /\ s[c].state = "transition"
    BY <1>1, <1>3, <1>6 DEF Best
  <2>2. GreatestOr0(transition) \in transition /\ \A i \in transition : i <= GreatestOr0(transition)
    BY <1>1, <2>1, GreatestIn
  <2>3. GreatestOr0(transition) = c
    <3> DEFINE g == GreatestOr0(transition)
    <3>1. g \in Nat /\ c \in Nat /\ c <= g /\ g \in VisibleOf(s, n)
      BY <1>1, <2>1, <2>2
    <3> HIDE DEF g
    <3>2. g = c \/ g < c
      BY <2>1, <3>1 DEF Best
    <3> QED
      BY <3>1, <3>2 DEF g
  <2> QED
    BY <1>4, <1>6, <2>3
<1> QED
  BY <1>5, <1>6

LEMMA FoundNone ==
  ASSUME NEW s \in Seq(Record), NEW n
  PROVE  FindVariableEx(s, n).curr = 0 <=> VisibleOf(s, n) = {}
<1> DEFINE added      == {i \in Named(s, n) : s[i].state = "added"}
           transition == {i \in Named(s, n) : s[i].state = "transition"}
<1>1. /\ added \in SUBSET (1..Len(s)) /\ transition \in SUBSET (1..Len(s)) /\ Len(s) \in Nat
      /\ VisibleOf(s, n) = added \cup transition
      /\ \A i \in VisibleOf(s, n) : i \in Nat /\ i # 0
  BY VisibleIs, EntryIn
<1>2. FindVariableEx(s, n) =
        IF added # {}
        THEN [curr  |-> Least(added),
              inDel |-> GreatestOr0({i \in transition : i < Least(added)})]
        ELSE [curr |-> GreatestOr0(transition), inDel |-> 0]
  BY DEF FindVariableEx, FindAmong
<1> HIDE DEF added, transition
<1>3. CASE added # {}
  <2>1. Least(added) \in added /\ Least(added) # 0
    BY <1>1, <1>3, LeastExists
  <2> QED
    BY <1>1, <1>2, <1>3, <2>1
<1>4. CASE added = {}
  <2>1. FindVariableEx(s, n).curr = GreatestOr0(transition)
    BY <1>2, <1>4
  <2>2. GreatestOr0(transition) = 0 <=> transition = {}
    BY <1>1, GreatestOr0Is
  <2> QED
    BY <1>1, <1>4, <2>1, <2>2
<1> QED
  BY <1>3, <1>4

\* What a search finds when there are at most the old and the new record.
LEMMA FoundTwo ==
  ASSUME NEW s \in Seq(Record), NEW n, OldAndNew(s, n), VisibleOf(s, n) # {}
  PROVE  LET f == FindVariableEx(s, n)
         IN  /\ Best(s, n, f.curr)
             /\ f.inDel # 0 => /\ f.inDel \in VisibleOf(s, n) /\ f.inDel < f.curr
                               /\ s[f.curr].state = "added"
             /\ VisibleOf(s, n) \subseteq {f.curr, f.inDel}
<1> DEFINE added      == {i \in Named(s, n) : s[i].state = "added"}
           transition == {i \in Named(s, n) : s[i].state = "transition"}
           V == VisibleOf(s, n)
           f == FindVariableEx(s, n)
<1>1. /\ added \in SUBSET (1..Len(s)) /\ transition \in SUBSET (1..Len(s)) /\ Len(s) \in Nat
      /\ V = added \cup transition
  BY VisibleIs, EntryIn
<1>2. \A i \in added : s[i].state = "added"
  OBVIOUS
<1>3. \A i \in transition : s[i].state = "transition"
  OBVIOUS
<1>4. f = IF added # {}
          THEN [curr  |-> Least(added),
                inDel |-> GreatestOr0({i \in transition : i < Least(added)})]
          ELSE [curr |-> GreatestOr0(transition), inDel |-> 0]
  BY DEF FindVariableEx, FindAmong
<1>5. /\ \A i, j \in added : i = j
      /\ \A i, j \in transition : i = j
      /\ \A i \in transition, j \in added : i < j
  BY <1>1, <1>2, <1>3 DEF OldAndNew
<1> HIDE DEF added, transition, f
<1>6. CASE added # {}
  <2> DEFINE a == Least(added)
             before == {i \in transition : i < a}
  <2>1. a \in added
    BY <1>1, <1>6, LeastExists
  <2>2. f.curr = a /\ f.inDel = GreatestOr0(before)
    BY <1>4, <1>6
  <2>3. before = transition
    BY <1>5, <2>1
  <2>4. GreatestOr0(transition) \in transition \cup {0} /\ (GreatestOr0(transition) = 0 <=> transition = {})
    BY <1>1, GreatestOr0Is
  <2> HIDE DEF a, before
  <2>5. f.inDel \in transition \cup {0} /\ (f.inDel = 0 <=> transition = {})
    BY <2>2, <2>3, <2>4
  <2>6. V \subseteq {f.curr, f.inDel}
    BY <1>1, <1>5, <2>1, <2>2, <2>5
  <2>7. Best(s, n, f.curr)
    BY <1>1, <1>2, <1>3, <1>5, <2>1, <2>2 DEF Best
  <2>8. f.inDel # 0 => f.inDel \in V /\ f.inDel < f.curr /\ s[f.curr].state = "added"
    BY <1>1, <1>2, <1>5, <2>1, <2>2, <2>5
  <2> QED
    BY <2>6, <2>7, <2>8 DEF f
<1>7. CASE added = {}
  <2>1. transition # {} /\ f.curr = GreatestOr0(transition) /\ f.inDel = 0
    BY <1>1, <1>4, <1>7
  <2>2. f.curr \in transition
    BY <1>1, <2>1, GreatestIn
  <2>3. V \subseteq {f.curr, f.inDel}
    BY <1>1, <1>5, <1>7, <2>2
  <2>4. Best(s, n, f.curr)
    BY <1>1, <1>5, <1>7, <2>2 DEF Best
  <2> QED
    BY <2>1, <2>3, <2>4 DEF f
<1> QED
  BY <1>6, <1>7

-----------------------------------------------------------------------------
(***************************************************************************)
(* The contents of a variable, and what the parts of a step make of the    *)
(* records that can be found.                                              *)
(***************************************************************************)
ContentOf(q) == [value |-> IF q.whole THEN q.value ELSE NoData, attr |-> q.attr]

InStore(s, n) ==
  IF FindVariableEx(s, n).curr # 0 THEN ContentOf(s[FindVariableEx(s, n).curr]) ELSE Idle

Clear(s, n) == VisibleOf(s, n) = {} \/ \E c : Best(s, n, c)

Same(p, q) ==
  p.name = q.name /\ p.attr = q.attr /\ p.value = q.value /\ p.whole = q.whole /\ p.state = q.state

\* What can be found in t could be found in s.
Less(s, t, n) ==
  /\ VisibleOf(t, n) \subseteq VisibleOf(s, n)
  /\ \A i \in VisibleOf(t, n) : Same(t[i], s[i])

LEMMA InStoreBest ==
  ASSUME NEW s \in Seq(Record), NEW n, NEW c, Best(s, n, c)
  PROVE  InStore(s, n) = ContentOf(s[c])
<1>1. c \in VisibleOf(s, n) /\ c # 0
  BY VisibleIs DEF Best
<1> QED
  BY <1>1, FoundBest DEF InStore

LEMMA InStoreNone ==
  ASSUME NEW s \in Seq(Record), NEW n, VisibleOf(s, n) = {}
  PROVE  InStore(s, n) = Idle
BY FoundNone DEF InStore

LEMMA LessIs ==
  ASSUME NEW s \in Seq(Record), NEW t \in Seq(Record), NEW n, Less(s, t, n)
  PROVE  /\ OldAndNew(s, n) => OldAndNew(t, n)
         /\ AtMostOne(s, n) => AtMostOne(t, n)
         /\ \A c \in VisibleOf(t, n) :
              Best(s, n, c) => Best(t, n, c) /\ InStore(t, n) = InStore(s, n)
<1>1. OldAndNew(s, n) => OldAndNew(t, n)
  BY DEF OldAndNew, Less, Same
<1>2. AtMostOne(s, n) => AtMostOne(t, n)
  BY DEF AtMostOne, Less
<1>3. ASSUME NEW c \in VisibleOf(t, n), Best(s, n, c)
      PROVE  Best(t, n, c) /\ InStore(t, n) = InStore(s, n)
  <2>1. Best(t, n, c)
    BY <1>3 DEF Best, Less, Same
  <2>2. ContentOf(t[c]) = ContentOf(s[c])
    BY DEF ContentOf, Less, Same
  <2>3. InStore(t, n) = ContentOf(t[c]) /\ InStore(s, n) = ContentOf(s[c])
    BY <1>3, <2>1, InStoreBest
  <2> QED
    BY <2>1, <2>2, <2>3
<1> QED
  BY <1>1, <1>2, <1>3

LEMMA SameStore ==
  ASSUME NEW s \in Seq(Record), NEW t \in Seq(Record), NEW n, Less(s, t, n),
         VisibleOf(t, n) = VisibleOf(s, n), Clear(s, n)
  PROVE  InStore(t, n) = InStore(s, n) /\ Clear(t, n)
<1>1. CASE VisibleOf(s, n) = {}
  BY <1>1, InStoreNone DEF Clear
<1>2. CASE \E c : Best(s, n, c)
  <2>1. PICK c : Best(s, n, c)
    BY <1>2
  <2>2. c \in VisibleOf(t, n)
    BY <2>1 DEF Best
  <2> QED
    BY <2>1, <2>2, LessIs DEF Clear
<1> QED
  BY <1>1, <1>2 DEF Clear

LEMMA OneIsClear ==
  ASSUME NEW s \in Seq(Record), NEW n, AtMostOne(s, n)
  PROVE  /\ Clear(s, n) /\ OldAndNew(s, n)
         /\ \A c \in VisibleOf(s, n) : Best(s, n, c) /\ InStore(s, n) = ContentOf(s[c])
<1>1. \A c \in VisibleOf(s, n) : Best(s, n, c)
  BY DEF AtMostOne, Best
<1>2. OldAndNew(s, n)
  <2> SUFFICES ASSUME NEW i \in VisibleOf(s, n), NEW j \in VisibleOf(s, n)
               PROVE  /\ s[i].state = s[j].state => i = j
                      /\ s[i].state = "transition" /\ s[j].state = "added" => i < j
    BY DEF OldAndNew
  <2>1. i = j
    BY DEF AtMostOne
  <2> QED
    BY <2>1
<1> QED
  BY <1>1, <1>2, InStoreBest DEF Clear

LEMMA TwoIsClear ==
  ASSUME NEW s \in Seq(Record), NEW n, OldAndNew(s, n)
  PROVE  Clear(s, n)
BY FoundTwo DEF Clear

\* A record that is deleted, or marked as in transition.
LEMMA DeletedIs ==
  ASSUME NEW s \in Seq(Record), NEW i \in 1..Len(s), NEW n
  PROVE  LET t == WithState(s, i, "deleted")
         IN  t \in Seq(Record) /\ VisibleOf(t, n) = VisibleOf(s, n) \ {i} /\ Less(s, t, n)
<1> DEFINE t == WithState(s, i, "deleted")
<1>1. /\ t \in Seq(Record) /\ Len(t) = Len(s)
      /\ \A k \in 1..Len(s) :
           /\ t[k].name = s[k].name /\ t[k].attr = s[k].attr /\ t[k].value = s[k].value
           /\ t[k].whole = s[k].whole
           /\ t[k].state = IF k = i THEN "deleted" ELSE s[k].state
  <2>1. "deleted" \in States
    BY DEF States
  <2> QED
    BY <2>1, WithStateIs
<1> HIDE DEF t
<1>2. VisibleOf(t, n) = VisibleOf(s, n) \ {i}
  BY <1>1 DEF VisibleOf, Visible
<1>3. \A k \in VisibleOf(t, n) : k \in 1..Len(s) /\ k # i
  BY <1>1, <1>2 DEF VisibleOf
<1>4. Less(s, t, n)
  BY <1>1, <1>2, <1>3 DEF Less, Same
<1> QED
  BY <1>1, <1>2, <1>4 DEF t

LEMMA TransitionIs ==
  ASSUME NEW s \in Seq(Record), NEW i \in 1..Len(s), Visible(s[i]), NEW n
  PROVE  LET t == WithState(s, i, "transition")
         IN  /\ t \in Seq(Record) /\ Len(t) = Len(s) /\ VisibleOf(t, n) = VisibleOf(s, n)
             /\ i \notin VisibleOf(s, n) => Less(s, t, n)
             /\ t[i].state = "transition"
             /\ \A k \in 1..Len(s) : ContentOf(t[k]) = ContentOf(s[k]) /\ t[k].attr = s[k].attr
                                     /\ (k # i => t[k].state = s[k].state)
<1> DEFINE t == WithState(s, i, "transition")
<1>1. /\ t \in Seq(Record) /\ Len(t) = Len(s)
      /\ \A k \in 1..Len(s) :
           /\ t[k].name = s[k].name /\ t[k].attr = s[k].attr /\ t[k].value = s[k].value
           /\ t[k].whole = s[k].whole
           /\ t[k].state = IF k = i THEN "transition" ELSE s[k].state
  <2>1. "transition" \in States
    BY DEF States
  <2> QED
    BY <2>1, WithStateIs
<1> HIDE DEF t
<1>2. VisibleOf(t, n) = VisibleOf(s, n)
  BY <1>1 DEF VisibleOf, Visible
<1>3. i \notin VisibleOf(s, n) => \A k \in VisibleOf(t, n) : k \in 1..Len(s) /\ k # i
  BY <1>1, <1>2 DEF VisibleOf
<1>4. i \notin VisibleOf(s, n) => Less(s, t, n)
  BY <1>1, <1>2, <1>3 DEF Less, Same
<1>5. \A k \in 1..Len(s) : ContentOf(t[k]) = ContentOf(s[k]) /\ t[k].attr = s[k].attr
                                     /\ (k # i => t[k].state = s[k].state)
  BY <1>1 DEF ContentOf
<1> QED
  BY <1>1, <1>2, <1>4, <1>5 DEF t

\* The one record there is of a name is marked: it is still the one to find.
LEMMA MarkedKept ==
  ASSUME NEW s \in Seq(Record), NEW i \in 1..Len(s), Visible(s[i]), NEW n, AtMostOne(s, n)
  PROVE  LET t == WithState(s, i, "transition")
         IN  AtMostOne(t, n) /\ InStore(t, n) = InStore(s, n)
<1> DEFINE t == WithState(s, i, "transition")
<1>1. /\ t \in Seq(Record) /\ VisibleOf(t, n) = VisibleOf(s, n)
      /\ \A k \in 1..Len(s) : ContentOf(t[k]) = ContentOf(s[k])
  BY TransitionIs
<1> HIDE DEF t
<1>2. AtMostOne(t, n)
  BY <1>1 DEF AtMostOne
<1>3. CASE VisibleOf(s, n) = {}
  BY <1>1, <1>2, <1>3, InStoreNone DEF t
<1>4. CASE VisibleOf(s, n) # {}
  <2>1. PICK c : c \in VisibleOf(s, n)
    BY <1>4
  <2>2. InStore(t, n) = ContentOf(t[c]) /\ InStore(s, n) = ContentOf(s[c])
    BY <1>1, <1>2, <2>1, OneIsClear
  <2>3. c \in 1..Len(s)
    BY <2>1 DEF VisibleOf
  <2> QED
    BY <1>1, <1>2, <2>2, <2>3 DEF t
<1> QED
  BY <1>3, <1>4

\* A record is added at the end.
LEMMA AppendedIs ==
  ASSUME NEW s \in Seq(Record), NEW x \in Record, NEW n
  PROVE  LET t == Append(s, x)
         IN  /\ t \in Seq(Record) /\ Len(t) = Len(s) + 1 /\ t[Len(t)] = x
             /\ x.name # n \/ ~Visible(x) => VisibleOf(t, n) = VisibleOf(s, n) /\ Less(s, t, n)
             /\ x.name = n /\ Visible(x) => VisibleOf(t, n) = VisibleOf(s, n) \cup {Len(t)}
             /\ \A i \in 1..Len(s) : t[i] = s[i]
             /\ Len(s) \in Nat /\ Len(t) \notin VisibleOf(s, n)
<1> DEFINE t == Append(s, x)
<1>1. /\ t \in Seq(Record) /\ Len(t) = Len(s) + 1 /\ Len(s) \in Nat
      /\ t[Len(s) + 1] = x /\ \A i \in 1..Len(s) : t[i] = s[i]
  BY AppendIs
<1> HIDE DEF t
<1>2. 1..Len(t) = 1..Len(s) \cup {Len(t)} /\ Len(t) \notin 1..Len(s)
  BY <1>1
<1>3. /\ x.name # n \/ ~Visible(x) => VisibleOf(t, n) = VisibleOf(s, n)
      /\ x.name = n /\ Visible(x) => VisibleOf(t, n) = VisibleOf(s, n) \cup {Len(t)}
  BY <1>1, <1>2 DEF VisibleOf
<1>4. VisibleOf(t, n) = VisibleOf(s, n) => Less(s, t, n)
  BY <1>1 DEF Less, Same, VisibleOf
<1>5. Len(t) \notin VisibleOf(s, n)
  BY <1>2 DEF VisibleOf
<1> QED
  BY <1>1, <1>3, <1>4, <1>5 DEF t

\* What a reclaim leaves of a name.
LEMMA CopiedFrom ==
  ASSUME NEW s \in Seq(Record), NEW curr, NEW inDel, NEW order \in CopyOrders(s, curr, inDel),
         NEW n
  PROVE  LET t == Copied(s, order)
         IN  /\ t \in Seq(Record) /\ Len(t) = Len(order)
             /\ \A k \in 1..Len(t) : Visible(t[k]) /\ t[k].state = "added"
             /\ \A k \in VisibleOf(t, n) :
                  /\ order[k] \in VisibleOf(s, n) /\ ContentOf(t[k]) = ContentOf(s[order[k]])
                  /\ order[k] \in Kept(s, curr) \cup Promoted(s, curr, inDel)
             /\ \A k \in 1..Len(t) : order[k] \in VisibleOf(s, n) => k \in VisibleOf(t, n)
<1> DEFINE t == Copied(s, order)
<1>1. /\ t \in Seq(Record) /\ Len(t) = Len(order)
      /\ \A k \in 1..Len(t) :
           /\ order[k] \in 1..Len(s) /\ Visible(s[order[k]])
           /\ t[k].name = s[order[k]].name /\ t[k].attr = s[order[k]].attr
           /\ t[k].value = s[order[k]].value /\ t[k].whole = s[order[k]].whole
           /\ t[k].state = "added"
  BY CopiedIs
<1>2. \A k \in 1..Len(order) : order[k] \in Kept(s, curr) \cup Promoted(s, curr, inDel)
  BY OrderIs
<1> HIDE DEF t
<1>3. \A k \in 1..Len(t) : Visible(t[k]) /\ t[k].state = "added"
  BY <1>1 DEF Visible
<1>4. \A k \in VisibleOf(t, n) : k \in 1..Len(t) /\ t[k].name = n
  BY DEF VisibleOf
<1>5. \A k \in VisibleOf(t, n) : order[k] \in VisibleOf(s, n)
  BY <1>1, <1>4 DEF VisibleOf
<1>6. \A k \in 1..Len(t) : ContentOf(t[k]) = ContentOf(s[order[k]])
  BY <1>1 DEF ContentOf
<1>7. \A k \in 1..Len(t) : order[k] \in VisibleOf(s, n) => k \in VisibleOf(t, n)
  BY <1>1, <1>3 DEF VisibleOf
<1>8. \A k \in VisibleOf(t, n) : order[k] \in Kept(s, curr) \cup Promoted(s, curr, inDel)
  BY <1>1, <1>2, <1>4
<1> QED
  BY <1>1, <1>3, <1>4, <1>5, <1>6, <1>7, <1>8 DEF t

\* The records of the update are left out.
LEMMA ReclaimDrops ==
  ASSUME NEW s \in Seq(Record), NEW curr, NEW inDel, NEW order \in CopyOrders(s, curr, inDel),
         NEW n, VisibleOf(s, n) \subseteq {curr, inDel},
         \A i \in VisibleOf(s, n) : i = curr \/ s[i].state = "transition"
  PROVE  VisibleOf(Copied(s, order), n) = {}
<1> SUFFICES ASSUME NEW k \in VisibleOf(Copied(s, order), n)
             PROVE  FALSE
  OBVIOUS
<1>1. order[k] \in VisibleOf(s, n) /\ order[k] \in Kept(s, curr) \cup Promoted(s, curr, inDel)
  BY CopiedFrom
<1>2. \A i \in Kept(s, curr) : s[i].state = "added" /\ i # curr
  BY DEF Kept
<1>3. \A i \in Promoted(s, curr, inDel) : i # curr /\ i # inDel
  BY DEF Promoted, InTransition
<1> QED
  BY <1>1, <1>2, <1>3

\* Of any other name one record is kept, the one a search finds.
LEMMA ReclaimKeepsOne ==
  ASSUME NEW s \in Seq(Record), NEW curr, NEW inDel, NEW order \in CopyOrders(s, curr, inDel),
         NEW n, OldAndNew(s, n), curr \notin VisibleOf(s, n), inDel \notin VisibleOf(s, n)
  PROVE  LET t == Copied(s, order)
         IN  AtMostOne(t, n) /\ InStore(t, n) = InStore(s, n)
             /\ (VisibleOf(t, n) = {} <=> VisibleOf(s, n) = {})
<1> DEFINE t == Copied(s, order)
           K == Kept(s, curr)
           P == Promoted(s, curr, inDel)
           V == VisibleOf(s, n)
<1>1. /\ t \in Seq(Record)
      /\ \A k \in VisibleOf(t, n) :
           order[k] \in V /\ ContentOf(t[k]) = ContentOf(s[order[k]]) /\ order[k] \in K \cup P
      /\ \A k \in 1..Len(t) : order[k] \in V => k \in VisibleOf(t, n)
      /\ Len(t) = Len(order)
  BY CopiedFrom
<1>2. /\ Injective(order, Len(s))
      /\ \A i \in K \cup P : \E k \in 1..Len(order) : order[k] = i
  BY OrderIs
<1>3. DOMAIN s = 1..Len(s) /\ V \subseteq 1..Len(s) /\ Len(s) \in Nat
      /\ \A i \in V : s[i].name = n /\ s[i].state \in {"added", "transition"}
  BY EntryIn DEF VisibleOf, Visible
<1>4. \A i \in K : s[i].state = "added"
  BY DEF Kept
<1>5. \A i \in P : s[i].state = "transition" /\ \A j \in K : s[j].name # s[i].name
  BY DEF Promoted, InTransition
<1>6. \A i \in V : s[i].state = "added" => i \in K
  BY <1>3 DEF Kept
<1>7. \A i, j \in V : s[i].state = s[j].state => i = j
  BY DEF OldAndNew
<1>8. ASSUME NEW i \in V, s[i].state = "transition", \A j \in V : s[j].state # "added"
      PROVE  i \in P
  <2>1. \A j \in K : s[j].name # s[i].name
    BY <1>3, <1>8 DEF Kept, VisibleOf, Visible
  <2>2. i \in InTransition(s, curr, inDel)
    BY <1>3, <1>8 DEF InTransition
  <2>3. \A j \in InTransition(s, curr, inDel) : j < i => s[j].name # s[i].name
    <3> SUFFICES ASSUME NEW j \in InTransition(s, curr, inDel), j < i, s[j].name = s[i].name
                 PROVE  FALSE
      OBVIOUS
    <3>1. j \in V /\ s[j].state = "transition" /\ i \in Nat /\ j \in Nat
      BY <1>3 DEF InTransition, VisibleOf, Visible
    <3>2. j = i
      BY <1>7, <1>8, <3>1
    <3> QED
      BY <3>1, <3>2
  <2> QED
    BY <2>1, <2>2, <2>3 DEF Promoted
<1> HIDE DEF t, K, P
<1>9. \A k, l \in VisibleOf(t, n) : k \in 1..Len(order) /\ l \in 1..Len(order)
  BY <1>1 DEF VisibleOf
<1>10. AtMostOne(t, n)
  <2> SUFFICES ASSUME NEW k \in VisibleOf(t, n), NEW l \in VisibleOf(t, n)
               PROVE  k = l
    BY DEF AtMostOne
  <2>1. s[order[k]].state = s[order[l]].state
    BY <1>1, <1>3, <1>4, <1>5
  <2>2. order[k] = order[l]
    BY <1>1, <1>7, <2>1
  <2> QED
    BY <1>2, <1>9, <2>2 DEF Injective
<1>11. CASE V = {}
  <2>1. VisibleOf(t, n) = {}
    BY <1>1, <1>11
  <2> QED
    BY <1>1, <1>10, <1>11, <2>1, InStoreNone DEF t
<1>12. CASE V # {}
  <2>1. PICK c : Best(s, n, c)
    BY <1>12, TwoIsClear DEF Clear
  <2>2. c \in V
    BY <2>1 DEF Best
  <2>3. c \in K \cup P
    <3>1. CASE s[c].state = "added"
      BY <1>6, <2>2, <3>1
    <3>2. CASE s[c].state # "added"
      <4>1. s[c].state = "transition" /\ \A j \in V : s[j].state # "added"
        BY <1>3, <2>1, <2>2, <3>2 DEF Best
      <4> QED
        BY <1>8, <2>2, <4>1
    <3> QED
      BY <3>1, <3>2
  <2>4. PICK k \in 1..Len(order) : order[k] = c
    BY <1>2, <2>3
  <2>5. k \in VisibleOf(t, n) /\ ContentOf(t[k]) = ContentOf(s[c])
    BY <1>1, <2>2, <2>4
  <2>6. InStore(t, n) = ContentOf(t[k])
    BY <1>1, <1>10, <2>5, OneIsClear
  <2>7. InStore(s, n) = ContentOf(s[c])
    BY <2>1, InStoreBest
  <2> QED
    BY <1>10, <1>12, <2>5, <2>6, <2>7 DEF t
<1> QED
  BY <1>11, <1>12

-----------------------------------------------------------------------------
(***************************************************************************)
(* What is stored, as a function of the two stores; and that the search    *)
(* for a variable always has one answer.                                   *)
(***************************************************************************)
Value(m, s, n) == IF VisibleOf(m, n) # {} THEN InStore(m, n) ELSE InStore(s, n)

LEMMA Busy ==
  ASSUME IndInv, job # Idle
  PROVE  /\ job.pc \in Pcs /\ job \in Jobs /\ phase # "early" /\ Progress(job, cache)
         /\ job.request \in Requests /\ job.request.name \in Names
         /\ job.curr \in 0..Len(cache) /\ job.inDel \in 0..Len(cache)
         /\ Len(cache) \in Nat /\ cache \in Seq(Record)
<1>1. job \in [pc : Pcs, request : client.requests, curr : Nat, inDel : Nat]
  BY DEF IndInv, JobOK
<1>2. job.pc \in Pcs
  BY <1>1
<1>3. cache \in Seq(Record)
  BY DEF IndInv, StoreOK, GoodStore
<1>4. /\ job \in Jobs /\ phase # "early" /\ Progress(job, cache) /\ job.request \in Requests
  BY <1>2, InProgress
<1> QED
  BY <1>2, <1>3, <1>4, RequestIs, EntryIn DEF Progress

LEMMA CallPlaces ==
  ASSUME IndInv, job # Idle
  PROVE  /\ job.inDel # 0 => /\ job.inDel \in 1..Len(cache) /\ cache[job.inDel].name = job.request.name
                             /\ job.curr # 0 /\ job.inDel # job.curr
         /\ job.curr # 0 => job.curr \in 1..Len(cache) /\ cache[job.curr].name = job.request.name
         /\ job.pc \in Dropping =>
              job.curr < Len(cache) /\ job.inDel < Len(cache) /\ Len(cache) \in 1..Len(cache)
         /\ job.pc \in Deleting \cup {"mark"} \cup Dropping => job.curr # 0
         /\ job.pc \in {"delete transition", "drop transition"} => job.inDel # 0
<1>1. /\ job.curr \in 0..Len(cache) /\ job.inDel \in 0..Len(cache) /\ Len(cache) \in Nat
      /\ Progress(job, cache)
  BY Busy
<1>2. /\ job.inDel # 0 => /\ cache[job.inDel].name = job.request.name
                          /\ job.curr # 0 /\ job.inDel # job.curr
      /\ job.curr # 0 => cache[job.curr].name = job.request.name
      /\ job.pc \in Dropping => job.curr < Len(cache) /\ job.inDel < Len(cache)
      /\ job.pc \in Deleting \cup {"mark"} \cup Dropping => job.curr # 0
      /\ job.pc \in {"delete transition", "drop transition"} => job.inDel # 0
  BY <1>1 DEF Progress
<1>3. /\ job.inDel # 0 => job.inDel \in 1..Len(cache)
      /\ job.curr # 0 => job.curr \in 1..Len(cache)
      /\ job.curr < Len(cache) => Len(cache) \in 1..Len(cache)
  BY <1>1
<1> QED
  BY <1>2, <1>3

LEMMA CacheIs ==
  ASSUME IndInv
  PROVE  /\ cache \in Seq(Record) /\ flash \in Seq(Record) /\ memory \in Seq(Record)
         /\ Len(cache) \in Nat /\ GoodStore(cache)
         /\ ~Appending => flash = cache
         /\ job = Idle => flash = cache
         /\ Names \subseteq AllNames
<1>1. GoodStore(cache) /\ GoodStore(flash) /\ memory \in Seq(Record)
  BY FlashGood DEF IndInv, StoreOK, RestOK
<1>2. ~Appending => flash = cache
  BY NotAppending DEF IndInv
<1> QED
  BY <1>1, <1>2, EntryIn DEF GoodStore, Appending, AllNames

\* The record of the variable that is being updated.
LEMMA UpdatingBest ==
  ASSUME IndInv, MapInv, job # Idle
  PROVE  LET n == job.request.name
         IN  /\ job.pc \in Dropping => Best(cache, n, Len(cache)) /\ cache[Len(cache)] = Added(job.request)
             /\ job.pc \notin Dropping /\ job.curr # 0 => Best(cache, n, job.curr)
             /\ job.curr = 0 => VisibleOf(cache, n) = {} /\ job.pc \in Writing \cup {"place"}
<1> DEFINE n == job.request.name
           V == VisibleOf(cache, n)
           Last == Len(cache)
<1>1. /\ job.pc \in Pcs /\ n \in AllNames /\ job.curr \in Nat /\ job.inDel \in Nat
      /\ cache \in Seq(Record) /\ Last \in Nat /\ Progress(job, cache)
  BY Busy DEF AllNames
<1>2. Updating(job, cache)
  BY DEF MapInv, CallOK
<1>3. /\ \A i \in V : i \in Nat /\ i # 0 /\ i \in 1..Last
      /\ \A i \in V : cache[i].state \in {"added", "transition"}
  BY <1>1, VisibleIs DEF VisibleOf, Visible
<1>4. CASE job.pc \in Dropping
  <2>1. /\ job.pc \notin Finding
        /\ \A i \in V : cache[i].state = "transition" \/ i = Last
        /\ cache[Last] = Added(job.request)
    BY <1>2, <1>4 DEF Updating, Dropping, Finding, Deleting
  <2>2. job.curr # 0 /\ job.curr < Last /\ cache[Last].name = n /\ Visible(cache[Last])
    BY <1>1, <1>4 DEF Progress
  <2>3. Last \in V
    BY <1>1, <2>2 DEF VisibleOf
  <2>4. job.request.value \in Data
    BY <1>1, <1>4 DEF Progress, Dropping, Deleting
  <2>5. cache[Last].state = "added"
    BY <2>1, <2>4, NewIs, Busy
  <2>6. Best(cache, n, Last)
    BY <2>1, <2>3, <2>5 DEF Best
  <2> QED
    BY <1>4, <2>1, <2>2, <2>6
<1>5. CASE job.pc \in Finding
  <2>1. job.curr \in V /\ V \subseteq {job.curr, job.inDel} /\ job.pc \notin Dropping
    BY <1>2, <1>5 DEF Updating, Finding, Deleting, Dropping
  <2>2. OldAndNew(cache, n)
    BY <1>1, <1>5 DEF MapInv, NamesOK, Settled
  <2>3. ASSUME NEW i \in V, i # job.curr
        PROVE  cache[i].state = "transition" /\ cache[job.curr].state = "added"
    <3>1. i = job.inDel /\ job.inDel # 0
      BY <1>3, <2>1, <2>3
    <3>2. job.pc # "delete"
      BY <1>2, <3>1 DEF Updating
    <3>3. cache[job.curr].state = "added"
      BY <1>2, <1>5, <3>1, <3>2 DEF Updating, Finding, Deleting
    <3>4. cache[i].state # "added"
      BY <2>1, <2>2, <2>3, <3>3 DEF OldAndNew
    <3> QED
      BY <1>3, <3>3, <3>4
  <2>4. Best(cache, n, job.curr)
    BY <2>1, <2>3 DEF Best
  <2> QED
    BY <1>3, <2>1, <2>4
<1>6. CASE job.pc \in Writing \cup {"place"}
  <2>1. job.pc \notin Finding /\ job.pc \notin Dropping
    BY <1>6 DEF Writing, Finding, Deleting, Dropping
  <2>2. /\ V \subseteq {job.curr, job.inDel} /\ \A i \in V : cache[i].state = "transition"
        /\ job.inDel < job.curr \/ job.inDel = 0
        /\ job.curr # 0 => job.curr \in V
    BY <1>2, <1>6, <2>1 DEF Updating
  <2>3. job.curr = 0 => V = {}
    BY <1>1, <1>3, <2>2
  <2>4. job.curr # 0 => Best(cache, n, job.curr)
    BY <1>3, <2>2 DEF Best
  <2> QED
    BY <1>6, <2>1, <2>3, <2>4
<1> QED
  BY <1>1, <1>4, <1>5, <1>6 DEF Pcs, Finding

LEMMA CacheClear ==
  ASSUME IndInv, MapInv, NEW n \in AllNames
  PROVE  Clear(cache, n)
<1>1. cache \in Seq(Record)
  BY CacheIs
<1>2. CASE Settled(n)
  BY <1>1, <1>2, TwoIsClear DEF MapInv, NamesOK
<1>3. CASE ~Settled(n)
  BY <1>3, UpdatingBest DEF Settled, Clear
<1> QED
  BY <1>2, <1>3

\* The record that is being written cannot be found.
LEMMA FlashSame ==
  ASSUME IndInv, NEW n
  PROVE  VisibleOf(flash, n) = VisibleOf(cache, n) /\ Less(cache, flash, n)
<1>1. CASE ~Appending
  BY <1>1, CacheIs DEF Less, Same
<1>2. CASE Appending
  <2>1. job.pc \in Writing /\ job # Idle
    BY <1>2 DEF Appending
  <2>2. /\ flash = Append(cache, Pending(job.request, job.pc)) /\ job.request \in Requests
        /\ job.request.value \in Data
    BY <2>1, AppenderIs, WriterHasRoom
  <2>3. Pending(job.request, job.pc) \in Record /\ ~Visible(Pending(job.request, job.pc))
    BY <2>1, <2>2, NewIs
  <2> QED
    BY <2>2, <2>3, CacheIs, AppendedIs
<1> QED
  BY <1>1, <1>2

LEMMA StoredIs ==
  ASSUME IndInv, MapInv, NEW n \in AllNames
  PROVE  Stored(n) = Value(memory, cache, n)
<1>1. InStore(flash, n) = InStore(cache, n)
  BY CacheIs, CacheClear, FlashSame, SameStore
<1>2. FindVariableEx(memory, n).curr = 0 <=> VisibleOf(memory, n) = {}
  BY CacheIs, FoundNone
<1>3. Stored(n) = IF FindVariableEx(memory, n).curr # 0 THEN InStore(memory, n) ELSE InStore(flash, n)
  <2>1. NextBoot = flash /\ ftw.state # "restarts"
    BY NextBootIs DEF IndInv, StoreOK, Ready
  <2> QED
    BY <2>1 DEF Stored, InStore, ContentOf
<1> QED
  BY <1>1, <1>2, <1>3 DEF Value

LEMMA UniqueAdded == IndInv /\ MapInv => AddedUnique
<1> SUFFICES ASSUME IndInv, MapInv, NEW i \in DOMAIN flash, NEW j \in DOMAIN flash,
                    flash[i].state = "added", flash[j].state = "added",
                    flash[i].name = flash[j].name
             PROVE  i = j
  BY DEF AddedUnique
<1> DEFINE n == flash[i].name
<1>1. flash \in Seq(Record) /\ cache \in Seq(Record)
  BY CacheIs
<1>2. i \in 1..Len(flash) /\ j \in 1..Len(flash) /\ n \in AllNames
  BY <1>1, EntryIn, RecordFields DEF AllNames
<1>3. i \in VisibleOf(flash, n) /\ j \in VisibleOf(flash, n)
  BY <1>2 DEF VisibleOf, Visible
<1>4. /\ i \in VisibleOf(cache, n) /\ j \in VisibleOf(cache, n)
      /\ cache[i].state = "added" /\ cache[j].state = "added"
  BY <1>3, FlashSame DEF Less, Same
<1>5. Clear(cache, n)
  BY <1>2, CacheClear
<1>6. PICK c : Best(cache, n, c)
  BY <1>4, <1>5 DEF Clear
<1> QED
  BY <1>4, <1>6 DEF Best

-----------------------------------------------------------------------------
(***************************************************************************)
(* The steps of an update.  The variable of the call changes at one step;  *)
(* the others never do.                                                    *)
(***************************************************************************)
Outcome(r) == IF r.value = NoData \/ r.attr = {} THEN Idle
              ELSE [value |-> r.value, attr |-> r.attr]

Unmoved   == \A n \in Names : Value(memory', cache', n) = Value(memory, cache, n)
ByCall(r) == \A n \in Names : Value(memory', cache', n) =
               IF n = r.name THEN Outcome(r) ELSE Value(memory, cache, n)

\* Nothing happens to the variables other than the one of request r.
OthersOK(r) ==
  \A n \in AllNames : n # r.name =>
     OldAndNew(cache', n) /\ Value(memory', cache', n) = Value(memory, cache, n)

LEMMA NamesIs ==
  ASSUME NamesOK, NEW n \in AllNames, Settled(n)
  PROVE  OldAndNew(cache, n)
BY DEF NamesOK

LEMMA OneIsEnough ==
  ASSUME NEW s \in Seq(Record), NEW n, AtMostOne(s, n)
  PROVE  OldAndNew(s, n)
BY OneIsClear

LEMMA ContentAdded ==
  ASSUME NEW r \in Requests, r.value \in Data, r.attr # {}
  PROVE  ContentOf(Added(r)) = Outcome(r)
<1>1. Added(r).whole = TRUE /\ Added(r).value = r.value /\ Added(r).attr = r.attr
  BY NewIs
<1>2. r.value # NoData
  BY StoreAssumption
<1> QED
  BY <1>1, <1>2 DEF ContentOf, Outcome

LEMMA WithStateOther ==
  ASSUME NEW s \in Seq(Record), NEW i \in 1..Len(s), NEW x, NEW k \in 1..Len(s), k # i
  PROVE  WithState(s, i, x)[k] = s[k]
<1>1. i # 0 /\ DOMAIN s = 1..Len(s)
  BY EntryIn
<1> QED
  BY <1>1 DEF WithState

\* The call returns, or goes on.
LEMMA Concluded ==
  ASSUME NEW r \in Requests, OthersOK(r), MemoryOK', OldAndNew(cache', r.name), job' = Idle
  PROVE  MapInv'
<1>1. NamesOK'
  <2> SUFFICES ASSUME NEW n \in AllNames
               PROVE  OldAndNew(cache', n)
    BY DEF NamesOK
  <2> QED
    BY DEF OthersOK
<1> QED
  BY <1>1 DEF MapInv, CallOK

LEMMA Continued ==
  ASSUME MapInv, job # Idle, OthersOK(job.request), MemoryOK', job'.request = job.request,
         job'.inDel = job.inDel, memory' = memory, phase' = phase,
         Updating(job', cache'), job'.pc \in Deleting <=> job.pc \in Deleting,
         job'.pc \in Finding => OldAndNew(cache', job.request.name),
         job' # Idle
  PROVE  MapInv'
<1>1. NamesOK'
  <2> SUFFICES ASSUME NEW n \in AllNames, Settled(n)'
               PROVE  OldAndNew(cache', n)
    BY DEF NamesOK
  <2>1. CASE n # job.request.name
    BY <2>1 DEF OthersOK
  <2>2. CASE n = job.request.name
    BY <2>2 DEF Settled
  <2> QED
    BY <2>1, <2>2
<1>2. CallOK'
  BY DEF MapInv, CallOK, EndOfDxe
<1> QED
  BY <1>1, <1>2 DEF MapInv

\* What becomes of the variable of the call.
LEMMA CallValue ==
  ASSUME MapInv, job # Idle, memory' = memory
  PROVE  /\ Value(memory, cache, job.request.name) = InStore(cache, job.request.name)
         /\ Value(memory', cache', job.request.name) = InStore(cache', job.request.name)
BY DEF MapInv, CallOK, Value

LEMMA CallKeeps ==
  ASSUME IndInv, MapInv, job # Idle, memory' = memory, OthersOK(job.request),
         InStore(cache', job.request.name) = InStore(cache, job.request.name)
  PROVE  Unmoved
<1> SUFFICES ASSUME NEW n \in Names
             PROVE  Value(memory', cache', n) = Value(memory, cache, n)
  BY DEF Unmoved
<1>1. n \in AllNames
  BY DEF AllNames
<1>2. CASE n # job.request.name
  BY <1>1, <1>2 DEF OthersOK
<1>3. CASE n = job.request.name
  BY <1>3, CallValue
<1> QED
  BY <1>2, <1>3

LEMMA CallSets ==
  ASSUME IndInv, MapInv, job # Idle, memory' = memory, OthersOK(job.request),
         InStore(cache', job.request.name) = Outcome(job.request)
  PROVE  ByCall(job.request)
<1> SUFFICES ASSUME NEW n \in Names
             PROVE  Value(memory', cache', n) =
                      IF n = job.request.name THEN Outcome(job.request) ELSE Value(memory, cache, n)
  BY DEF ByCall
<1>1. n \in AllNames
  BY DEF AllNames
<1>2. CASE n # job.request.name
  BY <1>1, <1>2 DEF OthersOK
<1>3. CASE n = job.request.name
  BY <1>3, CallValue
<1> QED
  BY <1>2, <1>3

\* A step that leaves the records of other names alone.
LEMMA OthersKept ==
  ASSUME IndInv, MapInv, job # Idle, memory' = memory, cache' \in Seq(Record),
         \A n \in AllNames : n # job.request.name =>
            Less(cache, cache', n) /\ VisibleOf(cache', n) = VisibleOf(cache, n)
  PROVE  OthersOK(job.request)
<1> SUFFICES ASSUME NEW n \in AllNames, n # job.request.name
             PROVE  OldAndNew(cache', n) /\ Value(memory', cache', n) = Value(memory, cache, n)
  BY DEF OthersOK
<1>1. OldAndNew(cache, n)
  BY NamesIs DEF MapInv, Settled
<1>2. cache \in Seq(Record) /\ Less(cache, cache', n) /\ Clear(cache, n)
      /\ VisibleOf(cache', n) = VisibleOf(cache, n)
  BY CacheIs, CacheClear
<1>3. OldAndNew(cache', n)
  BY <1>1, <1>2, LessIs
<1>4. InStore(cache', n) = InStore(cache, n)
  BY <1>2, SameStore
<1> QED
  BY <1>3, <1>4 DEF Value

LEMMA MemoryKept ==
  ASSUME IndInv, MapInv, job # Idle, memory' = memory,
         \A k \in 1..Len(cache') : Lives(cache'[k]),
         \A n \in AllNames : n # job.request.name =>
            VisibleOf(cache', n) = {} \/ VisibleOf(cache, n) # {}
  PROVE  MemoryOK'
<1>1. \A n \in AllNames : VisibleOf(memory, n) = {} \/ VisibleOf(cache', n) = {}
  BY DEF MapInv, MemoryOK, CallOK
<1> QED
  BY <1>1 DEF MapInv, MemoryOK

\* A step that changes the state of one record.
LEMMA StateStep ==
  ASSUME IndInv, MapInv, job # Idle, Steps, NEW i \in 1..Len(cache),
         cache[i].name = job.request.name, NEW state \in {"deleted", "transition"},
         state = "transition" => Visible(cache[i]), cache' = WithState(cache, i, state)
  PROVE  /\ OthersOK(job.request) /\ MemoryOK'
         /\ cache' \in Seq(Record) /\ Len(cache') = Len(cache)
         /\ state = "deleted" =>
              /\ VisibleOf(cache', job.request.name) = VisibleOf(cache, job.request.name) \ {i}
              /\ Less(cache, cache', job.request.name)
         /\ state = "transition" => VisibleOf(cache', job.request.name) = VisibleOf(cache, job.request.name)
         /\ \A k \in 1..Len(cache) :
              /\ ContentOf(cache'[k]) = ContentOf(cache[k])
              /\ cache'[k].state = IF k = i THEN state ELSE cache[k].state
<1> DEFINE m == job.request.name
<1>1. cache \in Seq(Record) /\ memory' = memory
  BY CacheIs DEF Steps
<1>3. state \in States
  BY DEF States
<1>4. /\ cache' \in Seq(Record) /\ Len(cache') = Len(cache)
      /\ \A k \in 1..Len(cache) :
           /\ cache'[k].name = cache[k].name /\ cache'[k].attr = cache[k].attr
           /\ cache'[k].value = cache[k].value /\ cache'[k].whole = cache[k].whole
           /\ cache'[k].state = IF k = i THEN state ELSE cache[k].state
  BY <1>1, <1>3, WithStateIs
<1>5. \A k \in 1..Len(cache) : ContentOf(cache'[k]) = ContentOf(cache[k]) /\ (Lives(cache[k]) <=> Lives(cache'[k]))
  BY <1>4 DEF ContentOf, Lives
<1>6. \A n \in AllNames : state = "deleted" =>
        VisibleOf(cache', n) = VisibleOf(cache, n) \ {i} /\ Less(cache, cache', n)
  BY <1>1, DeletedIs
<1>7. \A n \in AllNames : n # m => i \notin VisibleOf(cache, n)
  BY DEF VisibleOf
<1>8. \A n \in AllNames : state = "transition" =>
        /\ VisibleOf(cache', n) = VisibleOf(cache, n)
        /\ n # m => Less(cache, cache', n)
  BY <1>1, <1>7, TransitionIs
<1>9. \A n \in AllNames : n # m =>
        Less(cache, cache', n) /\ VisibleOf(cache', n) = VisibleOf(cache, n)
  BY <1>6, <1>7, <1>8
<1>10. OthersOK(job.request)
  BY <1>1, <1>4, <1>9, OthersKept
<1>11. MemoryOK'
  <2>1. \A k \in 1..Len(cache') : Lives(cache'[k])
    BY <1>4, <1>5 DEF MapInv, MemoryOK
  <2> QED
    BY <1>1, <1>9, <2>1, MemoryKept
<1>12. m \in AllNames
  BY Busy DEF AllNames
<1> QED
  BY <1>4, <1>5, <1>6, <1>8, <1>10, <1>11, <1>12

LEMMA DeleteTransitionMap ==
  ASSUME IndInv, MapInv, DeleteTransition
  PROVE  MapInv' /\ Unmoved
<1> DEFINE m == job.request.name
<1>1. /\ job.pc = "delete transition" /\ cache' = WithState(cache, job.inDel, "deleted")
      /\ Goto("delete") /\ Steps
  BY DEF DeleteTransition, SetState
<1>2. job # Idle
  BY <1>1, InProgress DEF Pcs, Deleting
<1>3. /\ job \in Jobs /\ Progress(job, cache) /\ cache \in Seq(Record)
      /\ job.inDel \in 0..Len(cache) /\ Len(cache) \in Nat /\ m \in AllNames
  BY <1>2, Busy DEF AllNames
<1>4. /\ job.inDel # 0 /\ job.curr # 0 /\ job.inDel # job.curr
      /\ job.inDel \in 1..Len(cache) /\ cache[job.inDel].name = m
  <2>1. job.pc \in {"delete transition", "drop transition"}
    BY <1>1
  <2> QED
    BY <1>2, <2>1, CallPlaces
<1>5. /\ OthersOK(job.request) /\ MemoryOK' /\ cache' \in Seq(Record)
      /\ VisibleOf(cache', m) = VisibleOf(cache, m) \ {job.inDel} /\ Less(cache, cache', m)
  BY <1>1, <1>2, <1>4, StateStep
<1>6. /\ job' # Idle /\ job'.pc = "delete" /\ job'.request = job.request
      /\ job'.curr = job.curr /\ job'.inDel = job.inDel
  BY <1>1, <1>3, Moved DEF Pcs, Deleting
<1>7. Best(cache, m, job.curr) /\ job.curr \in VisibleOf(cache', m)
  BY <1>1, <1>2, <1>4, <1>5, UpdatingBest DEF Dropping, Best
<1>8. InStore(cache', m) = InStore(cache, m)
  BY <1>3, <1>5, <1>7, LessIs
<1>9. OldAndNew(cache', m)
  <2>1. OldAndNew(cache, m)
    BY <1>1, <1>3, NamesIs DEF MapInv, Settled, Finding, Deleting
  <2> QED
    BY <1>3, <1>5, <2>1, LessIs
<1>10. Updating(job', cache')
  <2>1. Updating(job, cache)
    BY <1>2 DEF MapInv, CallOK
  <2>2. VisibleOf(cache, m) \subseteq {job.curr, job.inDel}
        /\ (job.inDel < job.curr \/ job.inDel = 0)
    BY <1>1, <2>1 DEF Updating, Dropping
  <2> QED
    BY <1>5, <1>6, <1>7, <2>2 DEF Updating, Dropping, Finding, Deleting, Writing
<1>11. MapInv'
  <2>1. job'.pc \in Deleting <=> job.pc \in Deleting
    BY <1>1, <1>6 DEF Deleting
  <2>2. memory' = memory /\ phase' = phase
    BY <1>1 DEF Steps
  <2> QED
    BY <1>2, <1>5, <1>6, <1>9, <1>10, <2>1, <2>2, Continued
<1>12. Unmoved
  BY <1>1, <1>2, <1>5, <1>8, CallKeeps DEF Steps
<1> QED
  BY <1>11, <1>12

LEMMA DeleteCurrentMap ==
  ASSUME IndInv, MapInv, DeleteCurrent
  PROVE  MapInv' /\ ByCall(job.request)
<1> DEFINE m == job.request.name
<1>1. /\ job.pc = "delete" /\ cache' = WithState(cache, job.curr, "deleted")
      /\ job' = Idle /\ Steps
  BY DEF DeleteCurrent, SetState, Return
<1>2. job # Idle
  BY <1>1, InProgress DEF Pcs, Deleting
<1>3. /\ job \in Jobs /\ Progress(job, cache) /\ cache \in Seq(Record)
      /\ job.curr \in 0..Len(cache) /\ Len(cache) \in Nat /\ m \in AllNames
      /\ job.request \in Requests
  BY <1>2, Busy DEF AllNames
<1>4. job.curr # 0 /\ job.curr \in 1..Len(cache) /\ cache[job.curr].name = m
  BY <1>1, <1>3 DEF Progress, Deleting
<1>5. /\ OthersOK(job.request) /\ MemoryOK' /\ cache' \in Seq(Record)
      /\ VisibleOf(cache', m) = VisibleOf(cache, m) \ {job.curr}
  BY <1>1, <1>2, <1>4, StateStep
<1>6. VisibleOf(cache', m) = {}
  <2>1. Updating(job, cache)
    BY <1>2 DEF MapInv, CallOK
  <2>2. VisibleOf(cache, m) \subseteq {job.curr, job.inDel} /\ job.inDel \notin VisibleOf(cache, m)
    BY <1>1, <2>1 DEF Updating, Dropping
  <2> QED
    BY <1>5, <2>2
<1>7. OldAndNew(cache', m)
  BY <1>5, <1>6, OneIsEnough DEF AtMostOne
<1>8. MapInv'
  BY <1>1, <1>3, <1>5, <1>7, Concluded
<1>9. Outcome(job.request) = Idle
  BY <1>1, <1>2 DEF MapInv, CallOK, Outcome, Deleting
<1>10. InStore(cache', m) = Idle
  BY <1>5, <1>6, InStoreNone
<1>11. ByCall(job.request)
  BY <1>1, <1>2, <1>5, <1>9, <1>10, CallSets DEF Steps
<1> QED
  BY <1>8, <1>11

LEMMA MarkCurrentMap ==
  ASSUME IndInv, MapInv, MarkCurrent
  PROVE  MapInv' /\ Unmoved
<1> DEFINE m == job.request.name
           V == VisibleOf(cache, m)
<1>1. /\ job.pc = "mark" /\ cache' = WithState(cache, job.curr, "transition")
      /\ Goto("place") /\ Steps
  BY DEF MarkCurrent, SetState
<1>2. job # Idle
  BY <1>1, InProgress DEF Pcs
<1>3. /\ job \in Jobs /\ Progress(job, cache) /\ cache \in Seq(Record)
      /\ job.curr \in 0..Len(cache) /\ Len(cache) \in Nat /\ m \in AllNames
  BY <1>2, Busy DEF AllNames
<1>4. /\ job.curr # 0 /\ job.curr \in 1..Len(cache) /\ cache[job.curr].name = m
      /\ Visible(cache[job.curr])
  BY <1>1, <1>3 DEF Progress, Deleting
<1>5. /\ OthersOK(job.request) /\ MemoryOK' /\ cache' \in Seq(Record)
      /\ VisibleOf(cache', m) = V
      /\ \A k \in 1..Len(cache) :
           /\ ContentOf(cache'[k]) = ContentOf(cache[k])
           /\ cache'[k].state = IF k = job.curr THEN "transition" ELSE cache[k].state
  BY <1>1, <1>2, <1>4, StateStep
<1>6. /\ job' # Idle /\ job'.pc = "place" /\ job'.request = job.request
      /\ job'.curr = job.curr /\ job'.inDel = job.inDel
  BY <1>1, <1>3, Moved DEF Pcs
<1>7. Best(cache, m, job.curr) /\ job.curr \in V
  BY <1>1, <1>2, <1>4, UpdatingBest DEF Dropping, Best
<1>8. Updating(job, cache)
  BY <1>2 DEF MapInv, CallOK
<1>9. /\ V \subseteq {job.curr, job.inDel} /\ (job.inDel < job.curr \/ job.inDel = 0)
      /\ \A i \in V : i \in 1..Len(cache) /\ i # 0
  BY <1>1, <1>3, <1>8, VisibleIs DEF Updating, Dropping
<1>10. \A i \in V : cache'[i].state = "transition"
  <2> SUFFICES ASSUME NEW i \in V
               PROVE  cache'[i].state = "transition"
    OBVIOUS
  <2>1. CASE i = job.curr
    BY <1>4, <1>5, <2>1
  <2>2. CASE i # job.curr
    <3>1. cache[i].state = "transition"
      BY <1>7, <2>2 DEF Best
    <3> QED
      BY <1>5, <1>9, <2>2, <3>1
  <2> QED
    BY <2>1, <2>2
<1>11. Best(cache', m, job.curr)
  <2> SUFFICES ASSUME NEW i \in V, i # job.curr
               PROVE  i < job.curr
    BY <1>5, <1>7, <1>10 DEF Best
  <2> QED
    BY <1>9
<1>12. InStore(cache', m) = InStore(cache, m)
  BY <1>3, <1>4, <1>5, <1>7, <1>11, InStoreBest
<1>13. Updating(job', cache')
  BY <1>5, <1>6, <1>7, <1>9, <1>10 DEF Updating, Dropping, Finding, Deleting, Writing
<1>14. MapInv'
  <2>1. (job'.pc \in Deleting <=> job.pc \in Deleting) /\ job'.pc \notin Finding
    BY <1>1, <1>6 DEF Deleting, Finding
  <2>2. memory' = memory /\ phase' = phase
    BY <1>1 DEF Steps
  <2> QED
    BY <1>2, <1>5, <1>6, <1>13, <2>1, <2>2, Continued
<1>15. Unmoved
  BY <1>1, <1>2, <1>5, <1>12, CallKeeps DEF Steps
<1> QED
  BY <1>14, <1>15

LEMMA DropTransitionMap ==
  ASSUME IndInv, MapInv, DropTransition
  PROVE  MapInv' /\ Unmoved
<1> DEFINE m == job.request.name
           V == VisibleOf(cache, m)
           Last == Len(cache)
<1>1. /\ job.pc = "drop transition" /\ cache' = WithState(cache, job.inDel, "deleted")
      /\ Goto("drop") /\ Steps
  BY DEF DropTransition, SetState
<1>2. job # Idle /\ job.pc \in Dropping
  BY <1>1, InProgress DEF Pcs, Dropping
<1>3. /\ job \in Jobs /\ Progress(job, cache) /\ cache \in Seq(Record)
      /\ job.inDel \in 0..Last /\ job.curr \in 0..Last /\ Last \in Nat /\ m \in AllNames
  BY <1>2, Busy DEF AllNames
<1>4. /\ job.inDel # 0 /\ job.inDel < Last
      /\ job.inDel \in 1..Last /\ cache[job.inDel].name = m
  <2>1. job.pc \in {"delete transition", "drop transition"}
    BY <1>1
  <2> QED
    BY <1>2, <2>1, CallPlaces
<1>5. /\ OthersOK(job.request) /\ MemoryOK' /\ cache' \in Seq(Record)
      /\ VisibleOf(cache', m) = V \ {job.inDel} /\ Less(cache, cache', m) /\ Len(cache') = Last
      /\ \A k \in 1..Last :
           cache'[k].state = IF k = job.inDel THEN "deleted" ELSE cache[k].state
  BY <1>1, <1>2, <1>4, StateStep
<1>6. /\ job' # Idle /\ job'.pc = "drop" /\ job'.request = job.request
      /\ job'.curr = job.curr /\ job'.inDel = job.inDel
  BY <1>1, <1>3, Moved DEF Pcs, Dropping
<1>7. Best(cache, m, Last) /\ Last \in VisibleOf(cache', m) /\ cache[Last] = Added(job.request)
  BY <1>2, <1>3, <1>4, <1>5, UpdatingBest DEF Best
<1>8. InStore(cache', m) = InStore(cache, m)
  BY <1>3, <1>5, <1>7, LessIs
<1>9. cache'[Last] = Added(job.request)
  <2>1. cache' = WithState(cache, job.inDel, "deleted")
    BY <1>1
  <2>2. Last \in 1..Last /\ Last # job.inDel
    BY <1>3, <1>4
  <2>3. cache'[Last] = cache[Last]
    BY <1>3, <1>4, <2>1, <2>2, WithStateOther
  <2> QED
    BY <1>7, <2>3
<1>10. Updating(job', cache')
  <2>1. Updating(job, cache) /\ job.pc \notin Finding
    BY <1>2 DEF MapInv, CallOK, Dropping, Finding, Deleting
  <2>2. /\ V \subseteq {job.curr, job.inDel, Last} /\ (job.inDel < job.curr \/ job.inDel = 0)
        /\ \A i \in V : i \in 1..Last /\ (cache[i].state = "transition" \/ i = Last)
    BY <1>2, <1>3, <2>1, VisibleIs DEF Updating
  <2> QED
    BY <1>3, <1>5, <1>6, <1>7, <1>9, <2>2 DEF Updating, Dropping, Finding, Deleting, Writing
<1>11. MapInv'
  <2>1. (job'.pc \in Deleting <=> job.pc \in Deleting) /\ job'.pc \notin Finding
    BY <1>2, <1>6 DEF Deleting, Finding, Dropping
  <2>2. memory' = memory /\ phase' = phase
    BY <1>1 DEF Steps
  <2> QED
    BY <1>2, <1>5, <1>6, <1>10, <2>1, <2>2, Continued
<1>12. Unmoved
  BY <1>1, <1>2, <1>5, <1>8, CallKeeps DEF Steps
<1> QED
  BY <1>11, <1>12

\* The requests of the calls that write a record.
LEMMA WriterIs ==
  ASSUME IndInv, MapInv, job # Idle, job.pc \notin Deleting
  PROVE  /\ job.request \in Requests /\ job.request.value \in Data
         /\ Added(job.request) \in Record /\ Visible(Added(job.request))
         /\ Added(job.request).name = job.request.name /\ Lives(Added(job.request))
         /\ Added(job.request).state = "added"
         /\ ContentOf(Added(job.request)) = Outcome(job.request)
<1>1. job.request \in Requests /\ job.request.value \in Data
  BY Busy DEF Progress
<1>2. ~IsDeletion(job.request)
  BY DEF MapInv, CallOK
<1>3. job.request.attr \cap {"BS", "RT"} # {}
  BY <1>2 DEF IsDeletion
<1> QED
  BY <1>1, <1>3, NewIs, ContentAdded DEF Lives, Visible

LEMMA DropCurrentMap ==
  ASSUME IndInv, MapInv, DropCurrent
  PROVE  MapInv' /\ ByCall(job.request)
<1> DEFINE m == job.request.name
           V == VisibleOf(cache, m)
           Last == Len(cache)
<1>1. /\ job.pc = "drop" /\ cache' = WithState(cache, job.curr, "deleted")
      /\ job' = Idle /\ Steps
  BY DEF DropCurrent, SetState, Return
<1>2. job # Idle /\ job.pc \in Dropping /\ job.pc \notin Deleting
  BY <1>1, InProgress DEF Pcs, Dropping, Deleting
<1>3. /\ job \in Jobs /\ Progress(job, cache) /\ cache \in Seq(Record)
      /\ job.inDel \in 0..Last /\ job.curr \in 0..Last /\ Last \in Nat /\ m \in AllNames
      /\ job.request \in Requests
  BY <1>2, Busy DEF AllNames
<1>4. /\ job.curr # 0 /\ job.curr < Last
      /\ job.curr \in 1..Last /\ cache[job.curr].name = m
  BY <1>2, CallPlaces
<1>5. /\ OthersOK(job.request) /\ MemoryOK' /\ cache' \in Seq(Record)
      /\ VisibleOf(cache', m) = V \ {job.curr} /\ Less(cache, cache', m)
  BY <1>1, <1>2, <1>4, StateStep
<1>6. Best(cache, m, Last) /\ Last \in VisibleOf(cache', m) /\ cache[Last] = Added(job.request)
  BY <1>2, <1>3, <1>4, <1>5, UpdatingBest DEF Best
<1>7. InStore(cache', m) = Outcome(job.request)
  BY <1>2, <1>3, <1>5, <1>6, LessIs, InStoreBest, WriterIs
<1>8. OldAndNew(cache', m)
  <2>1. Updating(job, cache)
    BY <1>2 DEF MapInv, CallOK
  <2>2. V \subseteq {job.curr, job.inDel, Last} /\ job.inDel \notin V
    BY <1>1, <1>2, <2>1 DEF Updating
  <2>3. AtMostOne(cache', m)
    BY <1>5, <2>2 DEF AtMostOne
  <2> QED
    BY <1>5, <2>3, OneIsEnough
<1>9. MapInv'
  BY <1>1, <1>3, <1>5, <1>8, Concluded
<1>10. ByCall(job.request)
  BY <1>1, <1>2, <1>5, <1>7, CallSets DEF Steps
<1> QED
  BY <1>9, <1>10

\* The steps that write a record which cannot be found yet.
LEMMA WriteMap ==
  ASSUME IndInv, MapInv, WriteHeader \/ WriteHeaderState \/ WriteData
  PROVE  MapInv' /\ Unmoved /\ job # Idle /\ job' # Idle /\ job'.request = job.request
         /\ status' = status
<1>1. Steps /\ job.pc \in Writing \cup {"place"} /\ job.pc \in Pcs
  BY DEF WriteHeader, WriteHeaderState, WriteData, Writing, Pcs
<1>2. job # Idle /\ job \in Jobs /\ cache \in Seq(Record)
  BY <1>1, InProgress, CacheIs
<1>3. HasRoom(job.request)
  BY <1>1, WriterHasRoom DEF WriteHeader, WriteHeaderState, WriteData, Request
<1>4. ~Outside(VarSize(job.request)) /\ ~Outside(HeaderSize)
  BY <1>1, <1>3, AppenderIs
<1>5. cache' = cache /\ \E pc \in Writing : Goto(pc)
  BY <1>4 DEF WriteHeader, WriteHeaderState, WriteData, Writing, Request
<1>6. PICK pc \in Writing : Goto(pc)
  BY <1>5
<1>7. pc \in Pcs
  BY DEF Pcs
<1>8. /\ job' # Idle /\ job'.pc = pc /\ job'.request = job.request
      /\ job'.curr = job.curr /\ job'.inDel = job.inDel
  BY <1>2, <1>6, <1>7, Moved
<1>9. memory' = memory /\ phase' = phase
  BY <1>1 DEF Steps
<1>11. OthersOK(job.request)
  <2>1. \A n \in AllNames : Less(cache, cache', n) /\ VisibleOf(cache', n) = VisibleOf(cache, n)
    BY <1>5 DEF Less, Same
  <2> QED
    BY <1>2, <1>5, <1>9, <2>1, OthersKept
<1>12. MemoryOK'
  BY <1>5, <1>9 DEF MapInv, MemoryOK
<1>13. Updating(job', cache')
  <2>1. Updating(job, cache)
    BY <1>2 DEF MapInv, CallOK
  <2>2. job.pc \notin Finding /\ job.pc \notin Dropping /\ pc \notin Finding /\ pc \notin Dropping
        /\ pc \notin {"delete", "drop"} /\ pc \notin {"delete transition", "mark"}
    BY <1>1 DEF Finding, Deleting, Dropping, Writing
  <2>3. /\ VisibleOf(cache, job.request.name) \subseteq {job.curr, job.inDel}
        /\ (job.inDel < job.curr \/ job.inDel = 0)
        /\ \A i \in VisibleOf(cache, job.request.name) : cache[i].state = "transition"
        /\ job.curr # 0 => job.curr \in VisibleOf(cache, job.request.name)
    BY <1>1, <2>1, <2>2 DEF Updating
  <2> QED
    BY <1>5, <1>8, <2>2, <2>3 DEF Updating
<1>14. MapInv'
  <2>1. (job'.pc \in Deleting <=> job.pc \in Deleting) /\ job'.pc \notin Finding
    BY <1>1, <1>8 DEF Deleting, Finding, Writing
  <2> QED
    BY <1>2, <1>8, <1>9, <1>11, <1>12, <1>13, <2>1, Continued
<1>15. Unmoved
  BY <1>5, <1>9 DEF Unmoved
<1> QED
  BY <1>2, <1>6, <1>8, <1>14, <1>15 DEF Goto

LEMMA WriteAddedMap ==
  ASSUME IndInv, MapInv, WriteAdded
  PROVE  MapInv' /\ ByCall(job.request)
<1> DEFINE m == job.request.name
           V == VisibleOf(cache, m)
           New == Len(cache')
<1>1. job.pc = "added" /\ Steps
  BY DEF WriteAdded
<1>2. job # Idle /\ job.pc \in Writing /\ job.pc \in Pcs /\ job \in Jobs
      /\ job.pc \notin Deleting /\ job.pc \notin Finding /\ job.pc \notin Dropping
  BY <1>1, InProgress DEF Pcs, Writing, Deleting, Finding, Dropping
<1>3. /\ Progress(job, cache) /\ cache \in Seq(Record) /\ m \in AllNames
      /\ job.inDel \in 0..Len(cache) /\ job.curr \in 0..Len(cache) /\ Len(cache) \in Nat
      /\ job.request \in Requests
  BY <1>2, Busy DEF AllNames
<1>4. /\ cache' = Append(cache, Added(job.request)) /\ cache' \in Seq(Record)
      /\ New = Len(cache) + 1
      /\ \A i \in 1..Len(cache) : cache'[i] = cache[i]
      /\ cache'[New] = Added(job.request)
  BY WriteAddedIs
<1>5. /\ Added(job.request) \in Record /\ Visible(Added(job.request))
      /\ Added(job.request).name = m /\ Lives(Added(job.request))
      /\ Added(job.request).state = "added"
      /\ ContentOf(Added(job.request)) = Outcome(job.request)
  BY <1>2, WriterIs
<1>6. VisibleOf(cache', m) = V \cup {New} /\ New \notin V
      /\ \A n \in AllNames : n # m =>
           Less(cache, cache', n) /\ VisibleOf(cache', n) = VisibleOf(cache, n)
  BY <1>3, <1>4, <1>5, AppendedIs
<1>7. memory' = memory /\ phase' = phase
  BY <1>1 DEF Steps
<1>9. OthersOK(job.request)
  BY <1>2, <1>4, <1>6, <1>7, OthersKept
<1>10. MemoryOK'
  <2>1. \A k \in 1..Len(cache') : Lives(cache'[k])
    <3>1. 1..Len(cache') = 1..Len(cache) \cup {New}
      BY <1>3, <1>4
    <3> QED
      BY <1>4, <1>5, <3>1 DEF MapInv, MemoryOK
  <2> QED
    BY <1>2, <1>6, <1>7, <2>1, MemoryKept
<1>11. /\ V \subseteq {job.curr, job.inDel} /\ (job.inDel < job.curr \/ job.inDel = 0)
       /\ \A i \in V : cache[i].state = "transition" /\ i \in 1..Len(cache) /\ i # 0
  <2>1. Updating(job, cache)
    BY <1>2 DEF MapInv, CallOK
  <2> QED
    BY <1>2, <1>3, <2>1, VisibleIs DEF Updating
<1>12. cache'[New].state = "added"
  BY <1>4, <1>5
<1>13. Best(cache', m, New)
  BY <1>4, <1>6, <1>11, <1>12 DEF Best
<1>14. InStore(cache', m) = Outcome(job.request)
  <2>1. InStore(cache', m) = ContentOf(cache'[New])
    BY <1>4, <1>13, InStoreBest
  <2> QED
    BY <1>4, <1>5, <2>1
<1>15. ByCall(job.request)
  BY <1>2, <1>7, <1>9, <1>14, CallSets
<1>16. CASE job.curr = 0
  <2>1. job' = Idle
    BY <1>16 DEF WriteAdded, Return
  <2>2. V = {}
    BY <1>2, <1>16, UpdatingBest
  <2>3. AtMostOne(cache', m)
    BY <1>6, <2>2 DEF AtMostOne
  <2>4. OldAndNew(cache', m)
    BY <1>4, <2>3, OneIsEnough
  <2> QED
    BY <1>3, <1>9, <1>10, <1>15, <2>1, <2>4, Concluded
<1>17. CASE job.curr # 0
  <2>1. Goto(IF job.inDel # 0 THEN "drop transition" ELSE "drop")
    BY <1>17 DEF WriteAdded
  <2> DEFINE pc == IF job.inDel # 0 THEN "drop transition" ELSE "drop"
  <2>2. pc \in Dropping /\ pc \in Pcs /\ pc \notin Deleting /\ pc \notin Finding
        /\ pc \notin Writing \cup {"place"} /\ pc \notin {"delete transition", "mark"}
        /\ (pc \in {"delete", "drop"} => job.inDel = 0)
    BY DEF Dropping, Pcs, Deleting, Finding, Writing
  <2> HIDE DEF pc
  <2>3. /\ job' # Idle /\ job'.pc = pc /\ job'.request = job.request
        /\ job'.curr = job.curr /\ job'.inDel = job.inDel
    BY <1>2, <2>1, <2>2, Moved DEF pc
  <2>4. Updating(job', cache')
    <3>1. \A i \in VisibleOf(cache', m) : cache'[i].state = "transition" \/ i = New
      BY <1>4, <1>6, <1>11
    <3>2. VisibleOf(cache', m) \subseteq {job.curr, job.inDel} \cup {New}
          /\ (job.inDel = 0 => job.inDel \notin VisibleOf(cache', m))
      BY <1>3, <1>4, <1>6, <1>11
    <3> QED
      BY <1>4, <1>11, <2>2, <2>3, <3>1, <3>2 DEF Updating
  <2>5. MapInv'
    BY <1>2, <1>7, <1>9, <1>10, <2>2, <2>3, <2>4, Continued
  <2> QED
    BY <1>15, <2>5
<1> QED
  BY <1>16, <1>17

-----------------------------------------------------------------------------
(***************************************************************************)
(* The ways a call can end without having changed its variable, and what   *)
(* a restart and a reclaim leave.                                          *)
(***************************************************************************)
\* A call that is cut off leaves the old record and at most the new one, unless
\* it had found two.
LEMMA CutOff ==
  ASSUME IndInv, MapInv, job # Idle, ~Doubled
  PROVE  OldAndNew(cache, job.request.name)
<1> DEFINE m == job.request.name
           V == VisibleOf(cache, m)
           Last == Len(cache)
<1>1. /\ cache \in Seq(Record) /\ job.curr \in Nat /\ Last \in Nat /\ m \in AllNames
      /\ job.pc \in Pcs /\ \A i \in V : i \in Nat /\ i # 0
  BY Busy, VisibleIs DEF AllNames, Jobs
<1>2. Updating(job, cache)
  BY DEF MapInv, CallOK
<1>3. CASE job.pc \in Finding
  BY <1>1, <1>3, NamesIs DEF MapInv, Settled
<1>4. CASE job.pc \in {"place"} \cup Writing
  <2>1. job.inDel = 0 /\ job.pc \notin Dropping
    BY <1>4 DEF Doubled, Writing, Dropping
  <2>2. V \subseteq {job.curr}
    BY <1>1, <1>2, <2>1 DEF Updating
  <2>3. AtMostOne(cache, m)
    BY <2>2 DEF AtMostOne
  <2> QED
    BY <1>1, <2>3, OneIsEnough
<1>5. CASE job.pc \in Dropping
  <2>1. V \subseteq {job.curr, Last}
    <3>1. V \subseteq {job.curr, job.inDel, Last}
      BY <1>2, <1>5 DEF Updating
    <3>2. job.inDel \notin V
      <4>1. CASE job.pc = "drop"
        BY <1>2, <4>1 DEF Updating
      <4>2. CASE job.pc = "drop transition"
        BY <1>1, <4>2 DEF Doubled
      <4> QED
        BY <1>5, <4>1, <4>2 DEF Dropping
    <3> QED
      BY <3>1, <3>2
  <2>2. Best(cache, m, Last) /\ cache[Last] = Added(job.request) /\ job.pc \notin Deleting
    BY <1>5, UpdatingBest DEF Dropping, Deleting
  <2>3. cache[Last].state = "added"
    BY <2>2, WriterIs
  <2>4. \A i \in V : i = Last \/ (i = job.curr /\ cache[i].state = "transition")
    BY <2>1, <2>2 DEF Best
  <2>5. job.curr < Last
    BY <1>5, CallPlaces
  <2> SUFFICES ASSUME NEW i \in V, NEW j \in V
               PROVE  /\ cache[i].state = cache[j].state => i = j
                      /\ cache[i].state = "transition" /\ cache[j].state = "added" => i < j
    BY DEF OldAndNew
  <2> QED
    BY <2>3, <2>4, <2>5
<1> QED
  BY <1>1, <1>3, <1>4, <1>5 DEF Pcs, Finding

LEMMA Ends ==
  ASSUME IndInv, MapInv, job # Idle, ~Doubled, job' = Idle, cache' = cache, memory' = memory
  PROVE  MapInv' /\ Unmoved
<1>1. cache \in Seq(Record) /\ job.request \in Requests
  BY CacheIs, Busy
<1>2. \A n \in AllNames : Less(cache, cache', n) /\ VisibleOf(cache', n) = VisibleOf(cache, n)
  BY DEF Less, Same
<1>3. OthersOK(job.request)
  BY <1>1, <1>2, OthersKept
<1>4. MemoryOK'
  BY DEF MapInv, MemoryOK
<1>5. OldAndNew(cache', job.request.name)
  BY CutOff
<1>6. MapInv'
  BY <1>1, <1>3, <1>4, <1>5, Concluded
<1> QED
  BY <1>6 DEF Unmoved

LEMMA NoRoomMap ==
  ASSUME IndInv, MapInv, Completes, job.pc = "place", job' = Idle, status' = "no room",
         cache' = cache, memory' = memory
  PROVE  MapInv' /\ Unmoved
<1>1. job # Idle
  BY InProgress DEF Pcs
<1>2. ~Doubled
  BY DEF Completes
<1> QED
  BY <1>1, <1>2, Ends

LEMMA DeviceErrorMap ==
  ASSUME IndInv, MapInv, Completes, DeviceError
  PROVE  MapInv' /\ Unmoved
<1>1. job # Idle /\ job' = Idle /\ cache' = cache /\ memory' = memory /\ status' = "error"
  BY DEF DeviceError, Return, store
<1>2. ~Doubled
  BY <1>1 DEF Completes
<1> QED
  BY <1>1, <1>2, Ends

\* What a restart does to the variables.
Lost ==
  \A n \in Names :
    Value(memory', cache', n) =
      IF Value(memory, cache, n) = Idle THEN Idle
      ELSE IF "NV" \in Value(memory, cache, n).attr THEN Value(memory, cache, n) ELSE Idle

LEMMA ContentIs ==
  ASSUME NEW q
  PROVE  ContentOf(q) # Idle /\ ContentOf(q).attr = q.attr
BY DEF ContentOf, Idle

LEMMA FlashLives ==
  ASSUME IndInv, MapInv, NEW k \in 1..Len(flash)
  PROVE  Lives(flash[k])
<1>1. \A i \in 1..Len(cache) : Lives(cache[i])
  BY DEF MapInv, MemoryOK
<1>2. CASE ~Appending
  BY <1>1, <1>2, CacheIs
<1>3. CASE Appending
  <2>1. job.pc \in Writing /\ job # Idle /\ job.pc \notin Deleting
    BY <1>3 DEF Appending, Writing, Deleting
  <2>2. /\ flash = Append(cache, Pending(job.request, job.pc))
        /\ Pending(job.request, job.pc) \in Record
        /\ Pending(job.request, job.pc).attr = job.request.attr
    BY <2>1, AppenderIs, WriterHasRoom, NewIs
  <2>3. Lives(Pending(job.request, job.pc))
    <3>1. job.request.attr \cap {"BS", "RT"} # {}
      BY <2>1 DEF MapInv, CallOK, IsDeletion
    <3> QED
      BY <2>2, <3>1 DEF Lives
  <2>4. /\ Len(flash) = Len(cache) + 1 /\ flash[Len(flash)] = Pending(job.request, job.pc)
        /\ \A i \in 1..Len(cache) : flash[i] = cache[i]
    BY <2>2, CacheIs, AppendedIs
  <2>5. k \in 1..Len(cache) \/ k = Len(flash)
    BY <2>4, CacheIs
  <2> QED
    BY <1>1, <2>3, <2>4, <2>5
<1> QED
  BY <1>2, <1>3

LEMMA RestartMap ==
  ASSUME IndInv, MapInv, Completes, Reboot \/ PowerLoss
  PROVE  MapInv' /\ Lost /\ phase' = "early" /\ job' = Idle /\ status' = "none"
<1>1. /\ flash' = flash /\ cache' = flash /\ memory' = <<>> /\ phase' = "early"
      /\ job' = Idle /\ status' = "none" /\ client' = client
  BY NextBootIs DEF Reboot, PowerLoss, Initialized
<1>2. cache \in Seq(Record) /\ flash \in Seq(Record) /\ memory \in Seq(Record) /\ GoodStore(cache)
  BY CacheIs
<1>3. \A n \in AllNames : VisibleOf(cache', n) = VisibleOf(cache, n) /\ Less(cache, cache', n)
  BY <1>1, FlashSame
<1>4. ~Doubled
  BY <1>1 DEF Completes
<1>5. NamesOK'
  <2> SUFFICES ASSUME NEW n \in AllNames
               PROVE  OldAndNew(cache', n)
    BY DEF NamesOK
  <2>1. OldAndNew(cache, n)
    <3>1. CASE Settled(n)
      BY <3>1 DEF MapInv, NamesOK
    <3>2. CASE ~Settled(n)
      <4>1. job # Idle /\ job.request.name = n
        BY <3>2 DEF Settled
      <4> QED
        BY <1>4, <4>1, CutOff
    <3> QED
      BY <3>1, <3>2
  <2>2. cache' \in Seq(Record)
    BY <1>1, <1>2
  <2> QED
    BY <1>2, <1>3, <2>1, <2>2, LessIs
<1>6. \A n : VisibleOf(memory', n) = {}
  BY <1>1 DEF VisibleOf
<1>7. MemoryOK'
  <2>1. \A k \in 1..Len(cache') : Lives(cache'[k])
    BY <1>1, FlashLives
  <2>2. Len(memory') = 0
    BY <1>1
  <2> QED
    BY <1>6, <2>1, <2>2 DEF MemoryOK, AtMostOne
<1>8. MapInv'
  BY <1>1, <1>5, <1>7 DEF MapInv, CallOK
<1>9. Lost
  <2> SUFFICES ASSUME NEW n \in Names
               PROVE  Value(memory', cache', n) =
                        IF Value(memory, cache, n) = Idle THEN Idle
                        ELSE IF "NV" \in Value(memory, cache, n).attr
                             THEN Value(memory, cache, n) ELSE Idle
    BY DEF Lost
  <2>1. n \in AllNames /\ Clear(cache, n)
    BY CacheClear DEF AllNames
  <2>2. Value(memory', cache', n) = InStore(cache, n)
    BY <1>1, <1>2, <1>3, <1>6, <2>1, SameStore DEF Value
  <2>3. CASE VisibleOf(memory, n) # {}
    <3>1. PICK c : c \in VisibleOf(memory, n)
      BY <2>3
    <3>2. Value(memory, cache, n) = ContentOf(memory[c])
      BY <1>2, <2>1, <3>1, OneIsClear DEF MapInv, MemoryOK, Value
    <3>3. "NV" \notin memory[c].attr
      BY <3>1 DEF MapInv, MemoryOK, VisibleOf
    <3>4. InStore(cache, n) = Idle
      BY <1>2, <2>1, <2>3, InStoreNone DEF MapInv, MemoryOK
    <3> QED
      BY <2>2, <3>2, <3>3, <3>4, ContentIs
  <2>4. CASE VisibleOf(memory, n) = {}
    <3>1. Value(memory, cache, n) = InStore(cache, n)
      BY <2>4 DEF Value
    <3>2. InStore(cache, n) = Idle \/ "NV" \in InStore(cache, n).attr
      <4>1. CASE VisibleOf(cache, n) = {}
        BY <1>2, <4>1, InStoreNone
      <4>2. CASE VisibleOf(cache, n) # {}
        <5>1. PICK c : Best(cache, n, c)
          BY <2>1, <4>2 DEF Clear
        <5>2. c \in 1..Len(cache)
          BY <5>1 DEF Best, VisibleOf
        <5>3. InStore(cache, n) = ContentOf(cache[c]) /\ "NV" \in cache[c].attr
          BY <1>2, <5>1, <5>2, InStoreBest DEF GoodStore
        <5> QED
          BY <5>3, ContentIs
      <4> QED
        BY <4>1, <4>2
    <3> QED
      BY <2>2, <3>1, <3>2
  <2> QED
    BY <2>3, <2>4
<1> QED
  BY <1>1, <1>8, <1>9

\* A reclaim without a new record keeps what a search finds, and nothing else.
LEMMA ReclaimAllMap ==
  ASSUME IndInv, MapInv, job = Idle, job' = Idle, memory' = memory,
         ReclaimAll \/ UNCHANGED <<store, errors>>
  PROVE  MapInv' /\ Unmoved
<1>1. cache \in Seq(Record) /\ flash = cache
  BY CacheIs
<1>2. \A n \in AllNames : OldAndNew(cache, n)
  BY NamesIs DEF MapInv, Settled
<1>3. CASE UNCHANGED <<store, errors>>
  <2>1. cache' = cache
    BY <1>3 DEF store
  <2>2. NamesOK' /\ MemoryOK' /\ CallOK'
    BY <1>2, <2>1 DEF NamesOK, MapInv, MemoryOK, CallOK
  <2> QED
    BY <2>1, <2>2 DEF MapInv, Unmoved
<1>4. CASE ReclaimAll
  <2>1. PICK order \in CopyOrders(flash, 0, 0) :
          \/ Reclaimed(Copied(flash, order)) /\ UNCHANGED errors
          \/ FtwFails(Copied(flash, order))
    BY <1>4 DEF ReclaimAll
  <2>2. ~FtwFails(Copied(flash, order))
    BY DEF FtwFails, IndInv, StoreOK, CleanAppends
  <2> DEFINE t == Copied(cache, order)
  <2>3. cache' = t /\ order \in CopyOrders(cache, 0, 0)
    BY <1>1, <2>1, <2>2 DEF Reclaimed
  <2>4. /\ t \in Seq(Record) /\ Len(t) = Len(order)
        /\ \A k \in 1..Len(t) : order[k] \in 1..Len(cache) /\ t[k].attr = cache[order[k]].attr
    BY <1>1, <2>3, CopiedIs
  <2>5. ASSUME NEW n \in AllNames
        PROVE  /\ AtMostOne(t, n) /\ InStore(t, n) = InStore(cache, n)
               /\ VisibleOf(t, n) = {} <=> VisibleOf(cache, n) = {}
               /\ OldAndNew(t, n)
    <3>1. 0 \notin VisibleOf(cache, n) /\ OldAndNew(cache, n)
      BY <1>1, <1>2, VisibleIs
    <3>2. /\ AtMostOne(t, n) /\ InStore(t, n) = InStore(cache, n)
          /\ VisibleOf(t, n) = {} <=> VisibleOf(cache, n) = {}
      BY <1>1, <2>3, <3>1, ReclaimKeepsOne
    <3> QED
      BY <2>4, <3>2, OneIsEnough
  <2> HIDE DEF t
  <2>6. NamesOK'
    BY <2>3, <2>5 DEF NamesOK
  <2>7. MemoryOK'
    <3>1. \A k \in 1..Len(t) : Lives(t[k])
      BY <2>4 DEF MapInv, MemoryOK, Lives
    <3> QED
      BY <2>3, <2>5, <3>1 DEF MapInv, MemoryOK
  <2>8. MapInv'
    BY <2>6, <2>7 DEF MapInv, CallOK
  <2>9. Unmoved
    BY <2>3, <2>5 DEF Unmoved, Value, AllNames
  <2> QED
    BY <2>8, <2>9
<1> QED
  BY <1>3, <1>4

LEMMA BootMap ==
  ASSUME IndInv, MapInv, Boot
  PROVE  MapInv' /\ Unmoved /\ UNCHANGED <<job, status>> /\ job = Idle
<1>1. job = Idle
  BY DEF Boot, VariableWriteServiceInitialize, OnEndOfDxe, OnReadyToBoot, ExitBootServices,
         IndInv, JobOK
<1>2. UNCHANGED <<memory, job, status, client, losses>>
  BY DEF Boot, VariableWriteServiceInitialize, OnEndOfDxe, OnReadyToBoot, ExitBootServices, counters
<1>3. ReclaimAll \/ UNCHANGED <<store, errors>>
  BY DEF Boot, VariableWriteServiceInitialize, OnEndOfDxe, OnReadyToBoot, ExitBootServices, counters,
         ReclaimForOS
<1> QED
  BY <1>1, <1>2, <1>3, ReclaimAllMap

\* The reclaim that takes in the new record.
LEMMA ReclaimInMap ==
  ASSUME IndInv, MapInv, job.pc = "place", job' = Idle,
         NEW order \in CopyOrders(cache, job.curr, job.inDel),
         cache' = Append(Copied(cache, order), Added(job.request)), memory' = memory
  PROVE  MapInv' /\ ByCall(job.request)
<1> DEFINE m == job.request.name
           V == VisibleOf(cache, m)
           t == Copied(cache, order)
           New == Len(cache')
<1>1. /\ job # Idle /\ job.pc \notin Dropping /\ job.pc \notin Finding /\ job.pc \notin Deleting
      /\ job.pc \in Writing \cup {"place"}
  BY InProgress DEF Pcs, Dropping, Finding, Deleting
<1>2. /\ cache \in Seq(Record) /\ m \in AllNames /\ job.request \in Requests
  BY <1>1, Busy DEF AllNames
<1>3. /\ t \in Seq(Record) /\ Len(t) = Len(order)
      /\ \A k \in 1..Len(t) : order[k] \in 1..Len(cache) /\ t[k].attr = cache[order[k]].attr
  BY <1>2, CopiedIs
<1>4. /\ Added(job.request) \in Record /\ Visible(Added(job.request))
      /\ Added(job.request).name = m /\ Lives(Added(job.request))
      /\ ContentOf(Added(job.request)) = Outcome(job.request)
  BY <1>1, WriterIs
<1>5. VisibleOf(t, m) = {}
  <2>1. Updating(job, cache)
    BY <1>1 DEF MapInv, CallOK
  <2>2. V \subseteq {job.curr, job.inDel} /\ \A i \in V : cache[i].state = "transition"
    BY <1>1, <2>1 DEF Updating
  <2> QED
    BY <1>2, <2>2, ReclaimDrops
<1>6. ASSUME NEW n \in AllNames, n # m
      PROVE  /\ AtMostOne(t, n) /\ InStore(t, n) = InStore(cache, n)
             /\ VisibleOf(t, n) = {} <=> VisibleOf(cache, n) = {}
  <2>1. OldAndNew(cache, n)
    BY <1>6, NamesIs DEF MapInv, Settled
  <2>2. 0 \notin VisibleOf(cache, n) /\ \A i \in VisibleOf(cache, n) : cache[i].name = n
    BY <1>2, VisibleIs DEF VisibleOf
  <2>3. job.curr \notin VisibleOf(cache, n) /\ job.inDel \notin VisibleOf(cache, n)
    BY <1>1, <1>6, <2>2, CallPlaces
  <2> QED
    BY <1>2, <2>1, <2>3, ReclaimKeepsOne
<1> HIDE DEF t
<1>7. /\ cache' \in Seq(Record) /\ New = Len(t) + 1 /\ cache'[New] = Added(job.request)
      /\ VisibleOf(cache', m) = {New}
      /\ \A n \in AllNames : n # m => VisibleOf(cache', n) = VisibleOf(t, n) /\ Less(t, cache', n)
      /\ \A i \in 1..Len(t) : cache'[i] = t[i]
      /\ Len(t) \in Nat
  <2>1. cache' = Append(t, Added(job.request)) /\ t \in Seq(Record)
    BY <1>3 DEF t
  <2>2. /\ cache' \in Seq(Record) /\ New = Len(t) + 1 /\ cache'[New] = Added(job.request)
        /\ \A i \in 1..Len(t) : cache'[i] = t[i]
        /\ Len(t) \in Nat
    BY <1>4, <2>1, AppendedIs
  <2>3. VisibleOf(cache', m) = VisibleOf(t, m) \cup {New}
    BY <1>4, <2>1, AppendedIs
  <2>4. \A n \in AllNames : n # m => VisibleOf(cache', n) = VisibleOf(t, n) /\ Less(t, cache', n)
    BY <1>4, <2>1, AppendedIs
  <2> QED
    BY <1>5, <2>2, <2>3, <2>4 DEF t
<1>8. OthersOK(job.request)
  <2> SUFFICES ASSUME NEW n \in AllNames, n # m
               PROVE  OldAndNew(cache', n) /\ Value(memory', cache', n) = Value(memory, cache, n)
    BY DEF OthersOK
  <2>1. t \in Seq(Record) /\ cache' \in Seq(Record) /\ Less(t, cache', n)
        /\ VisibleOf(cache', n) = VisibleOf(t, n)
    BY <1>3, <1>7
  <2>2. AtMostOne(t, n) /\ InStore(t, n) = InStore(cache, n)
    BY <1>6
  <2>3. Clear(t, n)
    BY <2>1, <2>2, OneIsClear
  <2>4. AtMostOne(cache', n)
    BY <2>1, <2>2, LessIs
  <2>5. InStore(cache', n) = InStore(cache, n)
    BY <2>1, <2>2, <2>3, SameStore
  <2> QED
    BY <2>1, <2>4, <2>5, OneIsEnough DEF Value
<1>9. MemoryOK'
  <2>1. \A k \in 1..Len(cache') : Lives(cache'[k])
    <3>1. 1..Len(cache') = 1..Len(t) \cup {New}
      BY <1>7
    <3>2. \A k \in 1..Len(t) : Lives(t[k])
      BY <1>3 DEF MapInv, MemoryOK, Lives
    <3> QED
      BY <1>4, <1>7, <3>1, <3>2
  <2>2. \A n \in AllNames : n # m => VisibleOf(cache', n) = {} \/ VisibleOf(cache, n) # {}
    BY <1>6, <1>7
  <2> QED
    BY <1>1, <2>1, <2>2, MemoryKept
<1>10. AtMostOne(cache', m)
  BY <1>7 DEF AtMostOne
<1>11. InStore(cache', m) = Outcome(job.request)
  <2>1. InStore(cache', m) = ContentOf(cache'[New])
    BY <1>7, <1>10, OneIsClear
  <2> QED
    BY <1>4, <1>7, <2>1
<1>12. MapInv'
  BY <1>2, <1>7, <1>8, <1>9, <1>10, OneIsEnough, Concluded
<1>13. ByCall(job.request)
  BY <1>1, <1>8, <1>11, CallSets
<1> QED
  BY <1>12, <1>13

LEMMA ReclaimNewMap ==
  ASSUME IndInv, MapInv, Completes, ReclaimNew
  PROVE  /\ MapInv' /\ job' = Idle /\ job # Idle
         /\ \/ Unmoved /\ status' = "no room"
            \/ ByCall(job.request) /\ status' = "success"
<1>1. /\ job.pc = "place" /\ memory' = memory /\ job' = Idle
  BY DEF ReclaimNew, Return
<1>2. job # Idle /\ ~Appending
  BY <1>1, InProgress DEF Pcs, Writing
<1>3. flash = cache
  BY <1>2, CacheIs
<1>4. PICK order \in CopyOrders(flash, job.curr, job.inDel) :
        LET new == Append(Copied(flash, order), Added(Request))
        IN  \/ Return("no room") /\ cache' = flash /\ UNCHANGED errors
            \/ Return("success") /\ Reclaimed(new) /\ UNCHANGED errors
            \/ FtwFails(new)
  BY DEF ReclaimNew
<1> DEFINE new == Append(Copied(flash, order), Added(Request))
<1>5. ~FtwFails(new)
  BY DEF FtwFails, IndInv, StoreOK, CleanAppends
<1>6. \/ Return("no room") /\ cache' = flash /\ UNCHANGED errors
      \/ Return("success") /\ Reclaimed(new) /\ UNCHANGED errors
  BY <1>4, <1>5
<1>7. CASE Return("no room") /\ cache' = flash /\ UNCHANGED errors
  BY <1>1, <1>2, <1>3, <1>7, NoRoomMap DEF Return
<1>8. CASE Return("success") /\ Reclaimed(new) /\ UNCHANGED errors
  <2>1. cache' = Append(Copied(cache, order), Added(job.request))
        /\ order \in CopyOrders(cache, job.curr, job.inDel)
    BY <1>3, <1>8 DEF Reclaimed, Request
  <2>2. MapInv' /\ ByCall(job.request)
    BY <1>1, <1>8, <2>1, ReclaimInMap
  <2> QED
    BY <1>1, <1>2, <1>8, <2>2 DEF Return
<1> QED
  BY <1>6, <1>7, <1>8

-----------------------------------------------------------------------------
(***************************************************************************)
(* The beginning of a call, and the variables in memory.                   *)
(***************************************************************************)
\* What a call finds.
LEMMA CallFinds ==
  ASSUME IndInv, MapInv, job = Idle, NEW r \in Requests
  PROVE  LET t == FindVariable(r.name)
         IN  /\ t.volatile <=> VisibleOf(memory, r.name) # {}
             /\ t.found = FindVariableEx(IF t.volatile THEN memory ELSE cache, r.name)
             /\ t.found.curr = 0 =>
                  /\ t.found.inDel = 0 /\ ~t.volatile
                  /\ VisibleOf(memory, r.name) = {} /\ VisibleOf(cache, r.name) = {}
             /\ t.found.curr # 0 =>
                  /\ t.found.curr \in VisibleOf(IF t.volatile THEN memory ELSE cache, r.name)
                  /\ Lives(CurrPtr(t)) /\ CurrPtr(t).whole
                  /\ ContentOf(CurrPtr(t)) = Value(memory, cache, r.name)
             /\ t.volatile =>
                  t.found.curr # 0 /\ t.found.inDel = 0 /\ "NV" \notin CurrPtr(t).attr
<1> DEFINE n == r.name
           t == FindVariable(n)
           fm == FindVariableEx(memory, n)
           fc == FindVariableEx(cache, n)
<1>1. /\ cache \in Seq(Record) /\ memory \in Seq(Record) /\ n \in AllNames
      /\ OldAndNew(cache, n) /\ AtMostOne(memory, n) /\ OldAndNew(memory, n)
      /\ VisibleOf(memory, n) = {} \/ VisibleOf(cache, n) = {}
      /\ GoodStore(cache)
  <2>1. n \in AllNames
    BY RequestIs DEF AllNames
  <2>2. AtMostOne(memory, n) /\ (VisibleOf(memory, n) = {} \/ VisibleOf(cache, n) = {})
    BY <2>1 DEF MapInv, MemoryOK
  <2>3. OldAndNew(cache, n)
    BY <2>1 DEF MapInv, NamesOK, Settled
  <2> QED
    BY <2>1, <2>2, <2>3, CacheIs, OneIsClear
<1>2. /\ fm.curr = 0 <=> VisibleOf(memory, n) = {}
      /\ fc.curr = 0 <=> VisibleOf(cache, n) = {}
      /\ fc.inDel # 0 => fc.curr # 0
  BY <1>1, FoundNone, FindIs
<1>3. t = IF fm.curr # 0 THEN [found |-> fm, volatile |-> TRUE]
          ELSE [found |-> fc, volatile |-> FALSE]
  BY DEF FindVariable
<1>4. CurrPtr(t) = IF t.volatile THEN memory[t.found.curr] ELSE cache[t.found.curr]
  BY DEF CurrPtr
<1>5. CASE fm.curr # 0
  <2>1. t.found = fm /\ t.volatile = TRUE
    BY <1>3, <1>5
  <2>2. Best(memory, n, fm.curr) /\ (fm.inDel # 0 => fm.inDel \in VisibleOf(memory, n) /\ fm.inDel < fm.curr)
    BY <1>1, <1>2, <1>5, FoundTwo
  <2>3. fm.curr \in VisibleOf(memory, n) /\ fm.curr \in 1..Len(memory)
    BY <2>2 DEF Best, VisibleOf
  <2>4. fm.inDel = 0
    <3>1. fm.curr \in Nat
      BY <2>3
    <3> QED
      BY <1>1, <2>2, <2>3, <3>1 DEF AtMostOne
  <2>5. /\ Lives(memory[fm.curr]) /\ memory[fm.curr].whole /\ "NV" \notin memory[fm.curr].attr
    BY <2>3 DEF MapInv, MemoryOK
  <2>6. ContentOf(memory[fm.curr]) = Value(memory, cache, n)
    BY <1>1, <2>2, <2>3, InStoreBest DEF Value
  <2> QED
    BY <1>2, <1>4, <1>5, <2>1, <2>3, <2>4, <2>5, <2>6
<1>6. CASE fm.curr = 0
  <2>1. t.found = fc /\ t.volatile = FALSE
    BY <1>3, <1>6
  <2>2. ASSUME fc.curr # 0
        PROVE  /\ fc.curr \in VisibleOf(cache, n) /\ Lives(cache[fc.curr]) /\ cache[fc.curr].whole
               /\ ContentOf(cache[fc.curr]) = Value(memory, cache, n)
    <3>1. Best(cache, n, fc.curr)
      BY <1>1, <1>2, <2>2, FoundTwo
    <3>2. fc.curr \in VisibleOf(cache, n) /\ fc.curr \in 1..Len(cache) /\ Visible(cache[fc.curr])
      BY <3>1 DEF Best, VisibleOf
    <3>3. Lives(cache[fc.curr]) /\ cache[fc.curr].whole
      BY <1>1, <3>2 DEF MapInv, MemoryOK, GoodStore
    <3>4. ContentOf(cache[fc.curr]) = Value(memory, cache, n)
      BY <1>1, <1>2, <1>6, <3>1, InStoreBest DEF Value
    <3> QED
      BY <3>2, <3>3, <3>4
  <2> QED
    BY <1>2, <1>4, <1>6, <2>1, <2>2
<1> QED
  BY <1>5, <1>6

\* A call that is let through.
LEMMA CallGoes ==
  ASSUME IndInv, MapInv, job = Idle, NEW r \in Requests, ~Refused(r, FindVariable(r.name))
  PROVE  LET t == FindVariable(r.name)
         IN  /\ IsDeletion(r) => t.found.curr # 0 /\ Outcome(r) = Idle
                                 /\ (r.value = NoData \/ r.attr = {})
             /\ ~IsDeletion(r) =>
                  /\ r.value \in Data /\ Added(r) \in Record /\ Visible(Added(r)) /\ Lives(Added(r))
                  /\ Added(r).name = r.name /\ Added(r).whole = TRUE /\ Added(r).attr = r.attr
                  /\ ContentOf(Added(r)) = Outcome(r)
                  /\ t.found.curr # 0 => r.attr = CurrPtr(t).attr
             /\ EndOfDxe => r.name \notin LockedNames
<1> DEFINE t == FindVariable(r.name)
<1>1. /\ t.found.curr # 0 => r.attr \in {{}, CurrPtr(t).attr}
      /\ IsDeletion(r) => t.found.curr # 0
      /\ EndOfDxe => r.name \notin LockedNames
  BY DEF Refused
<1>2. t.found.curr # 0 => Lives(CurrPtr(t))
  BY CallFinds
<1>3. IsDeletion(r) => r.value = NoData \/ r.attr = {}
  BY <1>1, <1>2 DEF IsDeletion, Lives
<1>4. ASSUME ~IsDeletion(r)
      PROVE  r.value \in Data /\ r.attr \cap {"BS", "RT"} # {} /\ r.attr # {}
  BY <1>4, RequestIs DEF IsDeletion
<1>5. ASSUME ~IsDeletion(r)
      PROVE  /\ Added(r) \in Record /\ Visible(Added(r)) /\ Lives(Added(r))
             /\ Added(r).name = r.name /\ Added(r).whole = TRUE /\ Added(r).attr = r.attr
             /\ ContentOf(Added(r)) = Outcome(r)
  BY <1>4, <1>5, NewIs, ContentAdded DEF Visible, Lives
<1> HIDE DEF t
<1>6. IsDeletion(r) => Outcome(r) = Idle
  BY <1>3 DEF Outcome
<1> QED
  BY <1>1, <1>3, <1>4, <1>5, <1>6 DEF t

LEMMA QuietMap ==
  ASSUME IndInv, MapInv, NEW r \in Requests, RefuseSet(r) \/ RepeatSet(r)
  PROVE  /\ MapInv' /\ Unmoved /\ job = Idle /\ job' = Idle
         /\ \/ status' = "refused"
            \/ status' = "success" /\ Value(memory, cache, r.name) = Outcome(r)
<1>1. /\ job = Idle /\ job' = Idle /\ cache' = cache /\ memory' = memory
  BY DEF RefuseSet, RepeatSet, Calls, store
<1>3. MapInv'
  BY <1>1 DEF MapInv, NamesOK, CallOK, MemoryOK, Settled
<1>4. Unmoved
  BY <1>1 DEF Unmoved
<1>5. CASE RefuseSet(r)
  BY <1>1, <1>3, <1>4, <1>5 DEF RefuseSet
<1>6. CASE RepeatSet(r)
  <2> DEFINE t == FindVariable(r.name)
  <2>1. ~Refused(r, t) /\ Repeated(r, t) /\ status' = "success"
    BY <1>6 DEF RepeatSet
  <2>2. t.found.curr # 0 /\ ~IsDeletion(r) /\ CurrPtr(t).value = r.value
    BY <2>1 DEF Repeated
  <2>3. r.attr = CurrPtr(t).attr /\ r.value \in Data /\ Added(r).whole = TRUE
    BY <1>1, <2>1, <2>2, CallGoes
  <2>4. CurrPtr(t).whole /\ ContentOf(CurrPtr(t)) = Value(memory, cache, r.name)
    BY <1>1, <2>2, CallFinds
  <2> HIDE DEF t
  <2>5. ContentOf(CurrPtr(t)) = [value |-> r.value, attr |-> r.attr]
    BY <2>2, <2>3, <2>4 DEF ContentOf
  <2>6. r.value # NoData /\ r.attr # {}
    BY <2>2 DEF IsDeletion
  <2> QED
    BY <1>1, <1>3, <1>4, <2>1, <2>4, <2>5, <2>6 DEF Outcome
<1> QED
  BY <1>5, <1>6

LEMMA StartSetMap ==
  ASSUME IndInv, MapInv, NEW r \in Requests, StartSet(r)
  PROVE  MapInv' /\ Unmoved /\ job = Idle /\ job' # Idle /\ job'.request = r /\ status' = "none"
<1> DEFINE n == r.name
           t == FindVariable(n)
           c == t.found.curr
           d == t.found.inDel
           V == VisibleOf(cache, n)
<1>1. /\ job = Idle /\ cache' = cache /\ memory' = memory /\ phase' = phase /\ status' = "none"
      /\ ~Refused(r, t) /\ ~Repeated(r, t) /\ ~Volatile(r, t)
  BY DEF StartSet, Calls, store
<1>2. job' = [pc |-> StartPoint(r, t.found), request |-> r, curr |-> c, inDel |-> d]
  BY DEF StartSet
<1>3. /\ cache \in Seq(Record) /\ n \in AllNames /\ OldAndNew(cache, n)
  BY <1>1, CacheIs, RequestIs DEF AllNames, MapInv, NamesOK, Settled
<1>4. /\ ~t.volatile
      /\ c = 0 => d = 0 /\ V = {}
      /\ c # 0 => c \in V
      /\ t.found = FindVariableEx(cache, n)
      /\ VisibleOf(memory, n) = {}
  <2>1. ~t.volatile
    BY <1>1, CallFinds DEF Volatile
  <2> QED
    BY <1>1, <2>1, CallFinds
<1>5. /\ c # 0 => /\ d # 0 => d \in V /\ d < c /\ cache[c].state = "added"
                  /\ V \subseteq {c, d}
  BY <1>3, <1>4, FoundTwo
<1>6. \A i \in V : i \in Nat /\ i # 0
  BY <1>3, VisibleIs
<1>7. /\ IsDeletion(r) => c # 0 /\ (r.value = NoData \/ r.attr = {})
      /\ EndOfDxe => n \notin LockedNames
  BY <1>1, CallGoes
<1> HIDE DEF t, V
<1> DEFINE pc == StartPoint(r, t.found)
<1>9. /\ job'.pc = pc /\ job'.request = r /\ job'.curr = c /\ job'.inDel = d
  BY <1>2
<1>10. /\ pc \in Deleting => IsDeletion(r)
       /\ IsDeletion(r) => pc \in Deleting
       /\ pc = "delete" => d = 0
       /\ pc = "place" => c = 0
       /\ c = 0 => pc \notin Finding
       /\ pc \in Finding \cup {"place"}
  BY <1>7 DEF StartPoint, Deleting, Finding
<1> HIDE DEF pc
<1>11. job' # Idle
  <2>1. pc \in Pcs
    BY <1>10 DEF Pcs, Finding
  <2> QED
    BY <1>9, <2>1, IdlePc
<1>12. Updating(job', cache')
  <2>1. pc \notin Dropping /\ pc \notin Writing /\ pc # "drop" /\ (pc \notin Finding => pc = "place")
    BY <1>10 DEF Finding, Deleting, Dropping, Writing
  <2>2. pc \in Finding => c \in V
    BY <1>4, <1>10
  <2>3. V \subseteq {c, d}
    BY <1>4, <1>5
  <2>4. d = 0 => d \notin V
    BY <1>6
  <2>5. d < c \/ d = 0
    BY <1>4, <1>5
  <2>6. d # 0 => cache[c].state = "added"
    BY <1>4, <1>5
  <2>7. pc \notin Finding => V = {} /\ c = 0
    BY <1>4, <1>10, <2>1
  <2> QED
    BY <1>1, <1>9, <1>10, <2>1, <2>2, <2>3, <2>4, <2>5, <2>6, <2>7 DEF Updating, V
<1>14. NamesOK' /\ MemoryOK'
  BY <1>1 DEF MapInv, NamesOK, MemoryOK, Settled
<1>15. CallOK'
  BY <1>1, <1>4, <1>7, <1>9, <1>10, <1>12 DEF CallOK, EndOfDxe
<1>16. Unmoved
  BY <1>1 DEF Unmoved
<1> QED
  BY <1>1, <1>9, <1>11, <1>14, <1>15, <1>16 DEF MapInv

\* What the steps in memory make of the other names.
OthersIn(s, t, r) ==
  \A n \in AllNames : n # r.name =>
    AtMostOne(t, n) /\ InStore(t, n) = InStore(s, n) /\ (VisibleOf(t, n) = {} <=> VisibleOf(s, n) = {})

OneOfOthers(s, r) == \A n \in AllNames : n # r.name => AtMostOne(s, n)

OnlyVolatile(s) == \A i \in 1..Len(s) : "NV" \notin s[i].attr /\ Lives(s[i]) /\ s[i].whole

LEMMA OthersLess ==
  ASSUME NEW s \in Seq(Record), NEW t \in Seq(Record), NEW r, OneOfOthers(s, r),
         \A n \in AllNames : n # r.name => Less(s, t, n) /\ VisibleOf(t, n) = VisibleOf(s, n)
  PROVE  OthersIn(s, t, r)
<1> SUFFICES ASSUME NEW n \in AllNames, n # r.name
             PROVE  AtMostOne(t, n) /\ InStore(t, n) = InStore(s, n)
                    /\ (VisibleOf(t, n) = {} <=> VisibleOf(s, n) = {})
  BY DEF OthersIn
<1>1. AtMostOne(s, n) /\ Less(s, t, n) /\ VisibleOf(t, n) = VisibleOf(s, n)
  BY DEF OneOfOthers
<1> QED
  BY <1>1, OneIsClear, LessIs, SameStore

LEMMA MemoryDeletes ==
  ASSUME NEW s \in Seq(Record), NEW i \in 1..Len(s), NEW r, s[i].name = r.name, OneOfOthers(s, r)
  PROVE  LET t == WithState(s, i, "deleted")
         IN  /\ t \in Seq(Record) /\ OthersIn(s, t, r)
             /\ VisibleOf(t, r.name) = VisibleOf(s, r.name) \ {i} /\ Less(s, t, r.name)
             /\ OnlyVolatile(s) => OnlyVolatile(t)
<1> DEFINE t == WithState(s, i, "deleted")
<1>1. /\ t \in Seq(Record)
      /\ \A n : VisibleOf(t, n) = VisibleOf(s, n) \ {i} /\ Less(s, t, n)
  BY DeletedIs
<1>2. \A n : n # r.name => i \notin VisibleOf(s, n)
  BY DEF VisibleOf
<1>3. OnlyVolatile(s) => OnlyVolatile(t)
  <2>1. "deleted" \in States
    BY DEF States
  <2>2. /\ Len(t) = Len(s)
        /\ \A k \in 1..Len(s) : t[k].attr = s[k].attr /\ t[k].whole = s[k].whole
    BY <2>1, WithStateIs
  <2> HIDE DEF t
  <2> QED
    BY <2>2 DEF OnlyVolatile, Lives
<1> HIDE DEF t
<1>4. OthersIn(s, t, r)
  BY <1>1, <1>2, OthersLess
<1> QED
  BY <1>1, <1>3, <1>4 DEF t

LEMMA MemoryMarks ==
  ASSUME NEW s \in Seq(Record), NEW i \in 0..Len(s), NEW r, OneOfOthers(s, r), AtMostOne(s, r.name),
         i # 0 => s[i].name = r.name /\ Visible(s[i])
  PROVE  LET t == WithState(s, i, "transition")
         IN  /\ t \in Seq(Record) /\ Len(t) = Len(s) /\ OthersIn(s, t, r) /\ AtMostOne(t, r.name)
             /\ VisibleOf(t, r.name) = VisibleOf(s, r.name) /\ InStore(t, r.name) = InStore(s, r.name)
             /\ OnlyVolatile(s) => OnlyVolatile(t)
             /\ i # 0 => t[i].name = s[i].name
<1> DEFINE t == WithState(s, i, "transition")
<1>1. CASE i = 0
  <2>1. t = s
    BY <1>1 DEF WithState
  <2>2. OthersIn(s, s, r)
    BY DEF OthersIn, OneOfOthers
  <2> QED
    BY <1>1, <2>1, <2>2
<1>2. CASE i # 0
  <2>1. i \in 1..Len(s) /\ Visible(s[i])
    BY <1>2, EntryIn
  <2>2. /\ t \in Seq(Record) /\ Len(t) = Len(s)
        /\ \A n : VisibleOf(t, n) = VisibleOf(s, n) /\ (i \notin VisibleOf(s, n) => Less(s, t, n))
    BY <2>1, TransitionIs
  <2>3. \A n : n # r.name => i \notin VisibleOf(s, n)
    BY <1>2 DEF VisibleOf
  <2>4. AtMostOne(t, r.name) /\ InStore(t, r.name) = InStore(s, r.name)
    BY <2>1, MarkedKept
  <2>5. \A k \in 1..Len(s) : t[k].name = s[k].name /\ t[k].attr = s[k].attr /\ t[k].whole = s[k].whole
    <3>1. "transition" \in States
      BY DEF States
    <3> QED
      BY <2>1, <3>1, WithStateIs
  <2> HIDE DEF t
  <2>6. OnlyVolatile(s) => OnlyVolatile(t)
    BY <2>2, <2>5 DEF OnlyVolatile, Lives
  <2>7. OthersIn(s, t, r)
    BY <2>2, <2>3, OthersLess
  <2> QED
    BY <2>1, <2>2, <2>4, <2>5, <2>6, <2>7 DEF t
<1> QED
  BY <1>1, <1>2

LEMMA MemoryAdds ==
  ASSUME NEW s \in Seq(Record), NEW r, NEW x \in Record, x.name = r.name, Visible(x), OneOfOthers(s, r)
  PROVE  LET t == Append(s, x)
         IN  /\ t \in Seq(Record) /\ OthersIn(s, t, r) /\ OneOfOthers(t, r)
             /\ VisibleOf(t, r.name) = VisibleOf(s, r.name) \cup {Len(t)}
             /\ Len(t) = Len(s) + 1 /\ t[Len(t)] = x /\ Len(t) \notin VisibleOf(s, r.name)
             /\ \A i \in 1..Len(s) : t[i] = s[i]
             /\ OnlyVolatile(s) /\ "NV" \notin x.attr /\ Lives(x) /\ x.whole => OnlyVolatile(t)
<1> DEFINE t == Append(s, x)
<1>1. /\ t \in Seq(Record) /\ Len(t) = Len(s) + 1 /\ t[Len(t)] = x
      /\ VisibleOf(t, r.name) = VisibleOf(s, r.name) \cup {Len(t)}
      /\ \A i \in 1..Len(s) : t[i] = s[i]
      /\ Len(s) \in Nat /\ Len(t) \notin VisibleOf(s, r.name)
      /\ \A n : n # r.name => VisibleOf(t, n) = VisibleOf(s, n) /\ Less(s, t, n)
  BY AppendedIs
<1> HIDE DEF t
<1>2. 1..Len(t) = 1..Len(s) \cup {Len(t)}
  BY <1>1
<1>3. OnlyVolatile(s) /\ "NV" \notin x.attr /\ Lives(x) /\ x.whole => OnlyVolatile(t)
  BY <1>1, <1>2 DEF OnlyVolatile
<1>4. OthersIn(s, t, r)
  BY <1>1, OthersLess
<1>5. OneOfOthers(t, r)
  BY <1>4 DEF OthersIn, OneOfOthers
<1> QED
  BY <1>1, <1>3, <1>4, <1>5 DEF t

LEMMA MemoryCopies ==
  ASSUME NEW s \in Seq(Record), NEW r, OneOfOthers(s, r), NEW curr \in 0..Len(s),
         VisibleOf(s, r.name) \subseteq {curr}, curr # 0 => s[curr].name = r.name,
         NEW order \in CopyOrders(s, curr, 0)
  PROVE  LET t == Copied(s, order)
         IN  /\ t \in Seq(Record) /\ OthersIn(s, t, r) /\ VisibleOf(t, r.name) = {}
             /\ OnlyVolatile(s) => OnlyVolatile(t)
<1> DEFINE t == Copied(s, order)
<1>1. /\ t \in Seq(Record)
      /\ \A k \in 1..Len(t) :
           /\ order[k] \in 1..Len(s) /\ t[k].attr = s[order[k]].attr /\ t[k].whole = s[order[k]].whole
  BY CopiedIs
<1>2. VisibleOf(t, r.name) = {}
  BY ReclaimDrops
<1>3. OthersIn(s, t, r)
  <2> SUFFICES ASSUME NEW n \in AllNames, n # r.name
               PROVE  AtMostOne(t, n) /\ InStore(t, n) = InStore(s, n)
                      /\ (VisibleOf(t, n) = {} <=> VisibleOf(s, n) = {})
    BY DEF OthersIn
  <2>1. OldAndNew(s, n)
    BY OneIsClear DEF OneOfOthers
  <2>2. curr \notin VisibleOf(s, n) /\ 0 \notin VisibleOf(s, n)
    BY VisibleIs DEF VisibleOf
  <2> QED
    BY <2>1, <2>2, ReclaimKeepsOne
<1>4. OnlyVolatile(s) => OnlyVolatile(t)
  <2> HIDE DEF t
  <2> QED
    BY <1>1 DEF OnlyVolatile, Lives
<1> QED
  BY <1>1, <1>2, <1>3, <1>4

LEMMA OthersChain ==
  ASSUME NEW s, NEW t, NEW u, NEW r, OthersIn(s, t, r)
  PROVE  OneOfOthers(t, r) /\ (OthersIn(t, u, r) => OthersIn(s, u, r))
BY DEF OthersIn, OneOfOthers

\* What a call about a variable in memory may leave.
LEMMA MemoryStep ==
  ASSUME IndInv, MapInv, job = Idle, job' = Idle, cache' = cache, memory' \in Seq(Record),
         NEW r \in Requests, VisibleOf(cache, r.name) = {},
         OthersIn(memory, memory', r), AtMostOne(memory', r.name), OnlyVolatile(memory')
  PROVE  /\ MapInv'
         /\ \A n \in Names : n # r.name => Value(memory', cache', n) = Value(memory, cache, n)
         /\ InStore(memory', r.name) = InStore(memory, r.name) /\ memory \in Seq(Record) => Unmoved
         /\ InStore(memory', r.name) = Outcome(r) => ByCall(r)
<1>2. MemoryOK'
  <2>1. ASSUME NEW n \in AllNames
        PROVE  AtMostOne(memory', n) /\ (VisibleOf(memory', n) = {} \/ VisibleOf(cache, n) = {})
    <3>1. CASE n = r.name
      BY <3>1
    <3>2. CASE n # r.name
      BY <3>2 DEF MapInv, MemoryOK, OthersIn
    <3> QED
      BY <3>1, <3>2
  <2> QED
    BY <2>1 DEF MapInv, MemoryOK, OnlyVolatile
<1>3. MapInv'
  BY <1>2 DEF MapInv, NamesOK, CallOK, Settled
<1>4. \A n \in Names : n # r.name => Value(memory', cache', n) = Value(memory, cache, n)
  BY DEF OthersIn, Value, AllNames
<1>5. InStore(cache, r.name) = Idle /\ memory \in Seq(Record)
  BY CacheIs, InStoreNone
<1>6. \A m \in Seq(Record) : Value(m, cache, r.name) = InStore(m, r.name)
  BY <1>5, InStoreNone DEF Value
<1> QED
  BY <1>3, <1>4, <1>5, <1>6 DEF Unmoved, ByCall

LEMMA SetVolatileMap ==
  ASSUME IndInv, MapInv, NEW r \in Requests, SetVolatile(r)
  PROVE  /\ MapInv' /\ job = Idle /\ job' = Idle /\ (EndOfDxe => r.name \notin LockedNames)
         /\ phase' = phase
         /\ \/ Unmoved /\ status' \in {"error", "no room"}
            \/ ByCall(r) /\ status' = "success"
<1> DEFINE n == r.name
           t == FindVariable(n)
           c == t.found.curr
           V == VisibleOf(memory, n)
<1>1. /\ job = Idle /\ job' = Idle /\ cache' = cache /\ phase' = phase
      /\ ~Refused(r, t) /\ Volatile(r, t)
  BY DEF SetVolatile, Calls, store
<1>2. IF IsDeletion(r) THEN DeleteVolatile(t.found)
      ELSE AppendVolatile(r, t.found) \/ ReclaimVolatile(r, t.found)
  BY DEF SetVolatile
<1>3. /\ memory \in Seq(Record) /\ n \in AllNames /\ Len(memory) \in Nat
      /\ \A i \in AllNames : AtMostOne(memory, i)
      /\ OnlyVolatile(memory)
      /\ V = {} \/ VisibleOf(cache, n) = {}
  BY CacheIs, RequestIs, EntryIn DEF AllNames, MapInv, MemoryOK, OnlyVolatile
<1>4. /\ t.found.inDel = 0
      /\ c # 0 => c \in V /\ t.volatile /\ "NV" \notin CurrPtr(t).attr
      /\ c = 0 => V = {} /\ "NV" \notin r.attr
      /\ VisibleOf(cache, n) = {}
  <2>1. c # 0 => t.volatile
    BY <1>1 DEF Volatile
  <2>2. c = 0 => "NV" \notin r.attr
    BY <1>1 DEF Volatile
  <2>3. CASE c = 0
    BY <1>1, <2>2, <2>3, CallFinds
  <2>4. CASE c # 0
    BY <1>1, <1>3, <2>1, <2>4, CallFinds
  <2> QED
    BY <2>3, <2>4
<1>5. /\ IsDeletion(r) => c # 0 /\ Outcome(r) = Idle
      /\ ~IsDeletion(r) =>
           /\ Added(r) \in Record /\ Visible(Added(r)) /\ Lives(Added(r)) /\ Added(r).name = n
           /\ Added(r).whole /\ ContentOf(Added(r)) = Outcome(r)
           /\ Added(r).attr = r.attr /\ "NV" \notin r.attr
      /\ EndOfDxe => n \notin LockedNames
  <2>1. c # 0 /\ ~IsDeletion(r) => r.attr = CurrPtr(t).attr
    BY <1>1, CallGoes
  <2>2. ~IsDeletion(r) => "NV" \notin r.attr
    BY <1>4, <2>1
  <2> QED
    BY <1>1, <2>2, CallGoes
<1> HIDE DEF t
<1>6. /\ c = 0 \/ (c \in 1..Len(memory) /\ memory[c].name = n /\ Visible(memory[c]))
      /\ V \subseteq {c} /\ c \in 0..Len(memory)
      /\ OneOfOthers(memory, r) /\ AtMostOne(memory, n)
  BY <1>3, <1>4 DEF VisibleOf, AtMostOne, OneOfOthers
<1>7. CASE IsDeletion(r)
  <2>1. memory' = WithState(memory, c, "deleted") /\ status' = "success"
    BY <1>2, <1>4, <1>7 DEF DeleteVolatile, WithState
  <2>2. c # 0
    BY <1>5, <1>7
  <2>3. /\ memory' \in Seq(Record) /\ OthersIn(memory, memory', r) /\ OnlyVolatile(memory')
        /\ VisibleOf(memory', n) = V \ {c}
    BY <1>3, <1>6, <2>1, <2>2, MemoryDeletes
  <2>4. VisibleOf(memory', n) = {}
    BY <1>6, <2>3
  <2>5. AtMostOne(memory', n) /\ InStore(memory', n) = Outcome(r)
    BY <1>5, <1>7, <2>3, <2>4, InStoreNone DEF AtMostOne
  <2> QED
    BY <1>1, <1>4, <1>5, <2>1, <2>3, <2>5, MemoryStep
<1> DEFINE marked == WithState(memory, c, "transition")
<1>8. MarkedMemory(t.found) = marked
  BY DEF MarkedMemory
<1>9. /\ marked \in Seq(Record) /\ Len(marked) = Len(memory) /\ OthersIn(memory, marked, r)
      /\ AtMostOne(marked, n) /\ OnlyVolatile(marked)
      /\ VisibleOf(marked, n) = V /\ InStore(marked, n) = InStore(memory, n)
      /\ c # 0 => marked[c].name = n
  BY <1>3, <1>6, MemoryMarks
<1> HIDE DEF marked
<1>10. CASE memory' = marked /\ status' \in {"error", "no room"}
  BY <1>1, <1>3, <1>4, <1>5, <1>9, <1>10, MemoryStep
<1>11. CASE ~IsDeletion(r) /\ AppendVolatile(r, t.found) /\ status' = "success"
  <2>0. PICK a : a = Append(memory, Added(r))
    OBVIOUS
  <2> DEFINE x == Added(r)
             New == Len(a)
  <2>1. memory' = WithState(a, c, "deleted")
    BY <1>4, <1>11, <2>0 DEF AppendVolatile, WithState
  <2>2. /\ a \in Seq(Record) /\ OthersIn(memory, a, r) /\ OneOfOthers(a, r) /\ OnlyVolatile(a)
        /\ VisibleOf(a, n) = V \cup {New} /\ New = Len(memory) + 1 /\ a[New] = Added(r)
        /\ New \notin V /\ \A i \in 1..Len(memory) : a[i] = memory[i]
    <3>1. /\ x \in Record /\ x.name = n /\ Visible(x)
          /\ "NV" \notin x.attr /\ Lives(x) /\ x.whole
      BY <1>5, <1>11
    <3>0. a = Append(memory, x)
      BY <2>0
    <3> HIDE DEF x
    <3>2. a \in Seq(Record) /\ OthersIn(memory, a, r) /\ OneOfOthers(a, r)
      BY <1>3, <1>6, <3>0, <3>1, MemoryAdds
    <3>3. OnlyVolatile(a)
      BY <1>3, <1>6, <3>0, <3>1, MemoryAdds
    <3>4. VisibleOf(a, n) = VisibleOf(memory, n) \cup {Len(a)} /\ Len(a) \notin VisibleOf(memory, n)
      <4>1. memory \in Seq(Record)
        BY <1>3
      <4>2. PICK m : m = n
        OBVIOUS
      <4>3. VisibleOf(a, m) = VisibleOf(memory, m) \cup {Len(a)}
        BY <3>0, <3>1, <4>1, <4>2, AppendedIs
      <4>4. Len(a) \notin VisibleOf(memory, m)
        BY <3>0, <3>1, <4>1, <4>2, AppendedIs
      <4> QED
        BY <4>2, <4>3, <4>4
    <3>5. New = Len(memory) + 1 /\ a[New] = x /\ \A i \in 1..Len(memory) : a[i] = memory[i]
      BY <1>3, <3>0, <3>1, AppendedIs
    <3> QED
      BY <3>2, <3>3, <3>4, <3>5 DEF x
  <2>3. /\ memory' \in Seq(Record) /\ OthersIn(memory, memory', r) /\ OnlyVolatile(memory')
        /\ VisibleOf(memory', n) = {New} /\ Less(a, memory', n)
    <3>1. CASE c = 0
      <4>1. memory' = a
        BY <2>1, <3>1 DEF WithState
      <4> QED
        BY <1>4, <2>2, <3>1, <4>1 DEF Less, Same
    <3>2. CASE c # 0
      <4>1. c \in 1..Len(a) /\ a[c].name = n /\ c # New
        BY <1>3, <1>6, <2>2, <3>2
      <4>2. /\ memory' \in Seq(Record) /\ OthersIn(a, memory', r) /\ OnlyVolatile(memory')
            /\ VisibleOf(memory', n) = VisibleOf(a, n) \ {c} /\ Less(a, memory', n)
        BY <2>1, <2>2, <4>1, MemoryDeletes
      <4>3. VisibleOf(memory', n) = {New}
        BY <1>6, <2>2, <4>1, <4>2
      <4>4. OthersIn(memory, memory', r)
        BY <2>2, <4>2, OthersChain
      <4> QED
        BY <4>2, <4>3, <4>4
    <3> QED
      BY <3>1, <3>2
  <2>4. AtMostOne(memory', n)
    BY <2>3 DEF AtMostOne
  <2>5. InStore(memory', n) = Outcome(r)
    <3>1. InStore(memory', n) = ContentOf(memory'[New])
      BY <2>3, <2>4, OneIsClear
    <3>2. ContentOf(memory'[New]) = ContentOf(a[New])
      BY <2>3 DEF Less, Same, ContentOf
    <3> QED
      BY <1>5, <1>11, <2>2, <3>1, <3>2
  <2> QED
    BY <1>1, <1>4, <1>5, <1>11, <2>3, <2>4, <2>5, MemoryStep
<1>12. CASE ~IsDeletion(r) /\ ReclaimVolatile(r, t.found) /\ status' = "success"
  <2>1. PICK order \in CopyOrders(marked, c, 0) :
          memory' = Append(Copied(marked, order), Added(r))
    <3>1. PICK order \in CopyOrders(marked, c, 0) :
            LET new == Append(Copied(marked, order), Added(r))
            IN  IF Used(new) <= VolatileCapacity
                THEN memory' = new /\ status' = "success"
                ELSE memory' = marked /\ status' = "no room"
      BY <1>4, <1>8, <1>12 DEF ReclaimVolatile
    <3> QED
      BY <1>12, <3>1
  <2> DEFINE u == Copied(marked, order)
             New == Len(memory')
  <2>2. OneOfOthers(marked, r)
    BY <1>9, OthersChain
  <2>3. /\ u \in Seq(Record) /\ OthersIn(marked, u, r) /\ VisibleOf(u, n) = {} /\ OnlyVolatile(u)
    BY <1>6, <1>9, <2>2, MemoryCopies
  <2> HIDE DEF u
  <2>4. OneOfOthers(u, r)
    BY <2>3, OthersChain
  <2>5. /\ memory' \in Seq(Record) /\ OthersIn(u, memory', r) /\ OnlyVolatile(memory')
        /\ VisibleOf(memory', n) = VisibleOf(u, n) \cup {New} /\ memory'[New] = Added(r)
    <3> DEFINE x == Added(r)
    <3>1. /\ x \in Record /\ x.name = n /\ Visible(x)
          /\ "NV" \notin x.attr /\ Lives(x) /\ x.whole
      BY <1>5, <1>12
    <3>2. memory' = Append(u, x)
      BY <2>1 DEF u
    <3> HIDE DEF x
    <3>3. memory' \in Seq(Record) /\ OthersIn(u, memory', r)
      BY <2>3, <2>4, <3>1, <3>2, MemoryAdds
    <3>4. OnlyVolatile(memory')
      BY <2>3, <2>4, <3>1, <3>2, MemoryAdds
    <3>5. VisibleOf(memory', n) = VisibleOf(u, n) \cup {New} /\ memory'[New] = x
      BY <2>3, <3>1, <3>2, AppendedIs
    <3> QED
      BY <3>3, <3>4, <3>5 DEF x
  <2>6. VisibleOf(memory', n) = {New}
    BY <2>3, <2>5
  <2>7. OthersIn(memory, memory', r)
    BY <1>9, <2>3, <2>5, OthersChain
  <2>8. AtMostOne(memory', n)
    BY <2>6 DEF AtMostOne
  <2>9. InStore(memory', n) = Outcome(r)
    <3>1. InStore(memory', n) = ContentOf(memory'[New])
      BY <2>5, <2>6, <2>8, OneIsClear
    <3> QED
      BY <1>5, <1>12, <2>5, <3>1
  <2> QED
    BY <1>1, <1>4, <1>5, <1>12, <2>5, <2>7, <2>8, <2>9, MemoryStep
<1>13. ASSUME ~IsDeletion(r)
       PROVE  \/ memory' = marked /\ status' \in {"error", "no room"}
              \/ AppendVolatile(r, t.found) /\ status' = "success"
              \/ ReclaimVolatile(r, t.found) /\ status' = "success"
  BY <1>2, <1>8, <1>13 DEF AppendVolatile, ReclaimVolatile
<1> QED
  BY <1>7, <1>10, <1>11, <1>12, <1>13

-----------------------------------------------------------------------------
(***************************************************************************)
(* What every step makes of the variables.                                 *)
(***************************************************************************)
InCall == IF job = Idle THEN Idle ELSE job.request

\* Nothing that a caller or a reader can tell.
Hidden == Unmoved /\ InCall' = InCall /\ status' = status

Begun(r) == job = Idle /\ InCall' = r /\ status' = "none" /\ Unmoved

Replacing == job # Idle /\ ByCall(job.request) /\ InCall' = InCall /\ status' = status

Ended ==
  /\ job # Idle /\ InCall' = Idle
  /\ \/ Unmoved /\ status' \in {"no room", "error"}
     \/ ByCall(job.request) /\ status' = "success"

AtOnce(r) ==
  /\ job = Idle /\ InCall' = Idle
  /\ \/ Unmoved /\ status' \in {"refused", "no room", "error"}
     \/ Unmoved /\ status' = "success" /\ Value(memory, cache, r.name) = Outcome(r)
     \/ ByCall(r) /\ status' = "success" /\ (EndOfDxe => r.name \notin LockedNames)

Restarted == Lost /\ InCall' = Idle /\ status' = "none" /\ phase' = "early"

Effect ==
  \/ Hidden \/ Replacing \/ Ended \/ Restarted
  \/ \E r \in Requests : Begun(r) \/ AtOnce(r)

LEMMA InitMap ==
  ASSUME Init
  PROVE  MapInv
<1>1. memory = <<>> /\ cache = <<>> /\ job = Idle
  BY DEF Init
<1>2. Len(memory) = 0 /\ Len(cache) = 0
  BY <1>1
<1>3. \A n : VisibleOf(memory, n) = {} /\ VisibleOf(cache, n) = {}
  BY <1>2 DEF VisibleOf
<1> QED
  BY <1>1, <1>2, <1>3 DEF MapInv, NamesOK, CallOK, MemoryOK, OldAndNew, AtMostOne

LEMMA UpdateEffect ==
  ASSUME IndInv, MapInv, Completes, UpdateStep
  PROVE  MapInv' /\ Effect
<1>1. CASE DeleteTransition
  <2>1. MapInv' /\ Unmoved
    BY <1>1, DeleteTransitionMap
  <2>2. Goto("delete") /\ "delete" \in Pcs /\ job.pc \in Pcs
    BY <1>1 DEF DeleteTransition, Pcs, Deleting
  <2>3. job # Idle /\ job \in Jobs
    BY <2>2, InProgress
  <2>4. job' # Idle /\ job'.request = job.request /\ status' = status
    BY <2>2, <2>3, Moved DEF Goto
  <2> QED
    BY <2>1, <2>3, <2>4 DEF Effect, Hidden, InCall
<1>2. CASE DeleteCurrent
  <2>1. MapInv' /\ ByCall(job.request)
    BY <1>2, DeleteCurrentMap
  <2>2. job' = Idle /\ status' = "success" /\ job.pc \in Pcs
    BY <1>2 DEF DeleteCurrent, Return, Pcs, Deleting
  <2>3. job # Idle
    BY <2>2, InProgress
  <2> QED
    BY <2>1, <2>2, <2>3 DEF Effect, Ended, InCall
<1>3. CASE MarkCurrent
  <2>1. MapInv' /\ Unmoved
    BY <1>3, MarkCurrentMap
  <2>2. Goto("place") /\ "place" \in Pcs /\ job.pc \in Pcs
    BY <1>3 DEF MarkCurrent, Pcs
  <2>3. job # Idle /\ job \in Jobs
    BY <2>2, InProgress
  <2>4. job' # Idle /\ job'.request = job.request /\ status' = status
    BY <2>2, <2>3, Moved DEF Goto
  <2> QED
    BY <2>1, <2>3, <2>4 DEF Effect, Hidden, InCall
<1>4. CASE NoRoomAtRuntime
  <2>1. /\ job.pc = "place" /\ job' = Idle /\ status' = "no room" /\ cache' = cache
        /\ memory' = memory
    BY <1>4 DEF NoRoomAtRuntime, Return, Steps, store
  <2>2. MapInv' /\ Unmoved
    BY <2>1, NoRoomMap
  <2>3. job # Idle
    BY <2>1, InProgress DEF Pcs
  <2> QED
    BY <2>1, <2>2, <2>3 DEF Effect, Ended, InCall
<1>5. CASE ReclaimNew
  BY <1>5, ReclaimNewMap DEF Effect, Ended, InCall
<1>6. CASE WriteHeader \/ WriteHeaderState \/ WriteData
  BY <1>6, WriteMap DEF Effect, Hidden, InCall
<1>7. CASE WriteAdded
  <2>1. MapInv' /\ ByCall(job.request)
    BY <1>7, WriteAddedMap
  <2>2. job.pc \in Pcs
    BY <1>7 DEF WriteAdded, Pcs, Writing
  <2>3. job # Idle /\ job \in Jobs
    BY <2>2, InProgress
  <2>4. CASE job.curr = 0
    <3>1. job' = Idle /\ status' = "success"
      BY <1>7, <2>4 DEF WriteAdded, Return
    <3> QED
      BY <2>1, <2>3, <3>1 DEF Effect, Ended, InCall
  <2>5. CASE job.curr # 0
    <3>1. PICK pc \in Pcs : Goto(pc)
      BY <1>7, <2>5 DEF WriteAdded, Pcs, Dropping
    <3>2. job' # Idle /\ job'.request = job.request /\ status' = status
      BY <2>3, <3>1, Moved DEF Goto
    <3> QED
      BY <2>1, <2>3, <3>2 DEF Effect, Replacing, InCall
  <2> QED
    BY <2>4, <2>5
<1>8. CASE DropTransition
  <2>1. MapInv' /\ Unmoved
    BY <1>8, DropTransitionMap
  <2>2. Goto("drop") /\ "drop" \in Pcs /\ job.pc \in Pcs
    BY <1>8 DEF DropTransition, Pcs, Dropping
  <2>3. job # Idle /\ job \in Jobs
    BY <2>2, InProgress
  <2>4. job' # Idle /\ job'.request = job.request /\ status' = status
    BY <2>2, <2>3, Moved DEF Goto
  <2> QED
    BY <2>1, <2>3, <2>4 DEF Effect, Hidden, InCall
<1>9. CASE DropCurrent
  <2>1. MapInv' /\ ByCall(job.request)
    BY <1>9, DropCurrentMap
  <2>2. job' = Idle /\ status' = "success" /\ job.pc \in Pcs
    BY <1>9 DEF DropCurrent, Return, Pcs, Dropping
  <2>3. job # Idle
    BY <2>2, InProgress
  <2> QED
    BY <2>1, <2>2, <2>3 DEF Effect, Ended, InCall
<1> QED
  BY <1>1, <1>2, <1>3, <1>4, <1>5, <1>6, <1>7, <1>8, <1>9 DEF UpdateStep

LEMMA NextEffect ==
  ASSUME IndInv, MapInv, [Completes]_vars, [Next]_vars
  PROVE  MapInv' /\ Effect
<1>0. Completes
  BY DEF Completes, Doubled, vars
<1>1. CASE UNCHANGED vars
  <2>1. /\ UNCHANGED <<job, status, memory, phase>> /\ UNCHANGED store
    BY <1>1 DEF vars
  <2>2. cache' = cache
    BY <2>1 DEF store
  <2>4. MapInv'
    BY <2>1, <2>2 DEF MapInv, NamesOK, CallOK, MemoryOK, Settled, EndOfDxe
  <2>5. Effect
    BY <2>1, <2>2 DEF Effect, Hidden, Unmoved, InCall
  <2> QED
    BY <2>4, <2>5
<1>2. ASSUME NEW r \in Requests, RefuseSet(r) \/ RepeatSet(r)
      PROVE  MapInv' /\ Effect
  <2>1. AtOnce(r) /\ MapInv'
    BY <1>2, QuietMap DEF AtOnce, InCall
  <2> QED
    BY <2>1 DEF Effect
<1>3. ASSUME NEW r \in Requests, SetVolatile(r)
      PROVE  MapInv' /\ Effect
  <2>1. AtOnce(r) /\ MapInv'
    BY <1>3, SetVolatileMap DEF AtOnce, InCall
  <2> QED
    BY <2>1 DEF Effect
<1>4. ASSUME NEW r \in Requests, StartSet(r)
      PROVE  MapInv' /\ Effect
  <2>1. Begun(r) /\ MapInv'
    BY <1>4, StartSetMap DEF Begun, InCall
  <2> QED
    BY <2>1 DEF Effect
<1>5. CASE UpdateStep
  BY <1>0, <1>5, UpdateEffect
<1>6. CASE Boot
  BY <1>6, BootMap DEF Effect, Hidden, InCall
<1>7. CASE DeviceError
  <2>1. job # Idle /\ job' = Idle /\ status' = "error"
    BY <1>7 DEF DeviceError, Return
  <2> QED
    BY <1>0, <1>7, <2>1, DeviceErrorMap DEF Effect, Ended, InCall
<1>8. CASE PowerLoss \/ Reboot
  BY <1>0, <1>8, RestartMap DEF Effect, Restarted, InCall
<1> QED
  BY <1>1, <1>2, <1>3, <1>4, <1>5, <1>6, <1>7, <1>8 DEF Next, SetVariable

\* The records in flash keep one variable for each name.
LEMMA MapInvariant == Spec /\ CleanAppends /\ DoublesComplete => [](IndInv /\ MapInv)
<1>1. Init /\ CleanAppends => IndInv /\ MapInv
  BY InitStep, InitMap
<1>2. IndInv /\ MapInv /\ [Completes]_vars /\ [Next]_vars => (IndInv /\ MapInv)'
  <2> SUFFICES ASSUME IndInv, MapInv, [Completes]_vars, [Next]_vars
               PROVE  (IndInv /\ MapInv)'
    OBVIOUS
  <2>1. IndInv'
    <3>1. CASE Next
      BY <3>1, NextStep
    <3>2. CASE UNCHANGED vars
      BY <3>2 DEF vars, store, counters, IndInv, StoreOK, JobOK, RestOK, CleanAppends, GoodStore,
                  Progress, HasRoom, Appending, Request
    <3> QED
      BY <3>1, <3>2
  <2> QED
    BY <2>1, NextEffect
<1> QED
  BY <1>1, <1>2, PTL DEF Spec, DoublesComplete

\* No name has two records that are added: the second would never be found
\* (VisibleIsWhole is about their contents).
THEOREM OneAdded == Spec /\ CleanAppends /\ DoublesComplete => []AddedUnique
BY MapInvariant, UniqueAdded, PTL

StoredRight == \A n \in AllNames : Stored(n) = Value(memory, cache, n)

LEMMA StoredRightIs == IndInv /\ MapInv => StoredRight
BY StoredIs DEF StoredRight

\* What the invariant says of a step.
MapStep == Effect /\ StoredRight /\ StoredRight' /\ CallOK /\ IndInv /\ ftw' = Ready

LEMMA Steppings == Spec /\ CleanAppends /\ DoublesComplete => [][MapStep]_vars
<1>1. IndInv /\ MapInv /\ IndInv' /\ MapInv' /\ [Completes]_vars /\ [Next]_vars => [MapStep]_vars
  <2> SUFFICES ASSUME IndInv, MapInv, IndInv', MapInv', [Completes]_vars, [Next]_vars
               PROVE  MapStep
    OBVIOUS
  <2>1. StoredRight /\ StoredRight'
    BY StoredRightIs, PTL
  <2>2. Effect
    BY NextEffect
  <2> QED
    BY <2>1, <2>2 DEF MapStep, MapInv, IndInv, StoreOK
<1> QED
  BY <1>1, MapInvariant, PTL DEF Spec, DoublesComplete

\* Locked variables do not change between the end of DXE and the next boot.
THEOREM LockedStay == Spec /\ CleanAppends /\ DoublesComplete => LockedUnchanged
<1>1. ASSUME MapStep, EndOfDxe, EndOfDxe', NEW n \in LockedNames
      PROVE  Stored(n)' = Stored(n)
  <2>1. n \in Names /\ n \in AllNames
    BY StoreAssumption DEF AllNames
  <2>2. Stored(n) = Value(memory, cache, n) /\ Stored(n)' = Value(memory', cache', n)
    BY <1>1, <2>1 DEF MapStep, StoredRight
  <2>3. ASSUME NEW r, ByCall(r), r.name \notin LockedNames
        PROVE  Stored(n)' = Stored(n)
    BY <2>1, <2>2, <2>3 DEF ByCall
  <2>4. ASSUME Unmoved
        PROVE  Stored(n)' = Stored(n)
    BY <2>1, <2>2, <2>4 DEF Unmoved
  <2>5. job # Idle => job.request.name \notin LockedNames
    BY <1>1 DEF MapStep, CallOK
  <2>6. ~Restarted
    BY <1>1 DEF Restarted, EndOfDxe
  <2> QED
    BY <1>1, <2>3, <2>4, <2>5, <2>6 DEF MapStep, Effect, Hidden, Replacing, Ended, Begun, AtOnce
<1>2. MapStep => (EndOfDxe /\ EndOfDxe' => \A n \in LockedNames : Stored(n)' = Stored(n))
  BY <1>1
<1> QED
  BY <1>2, Steppings, PTL DEF LockedUnchanged

-----------------------------------------------------------------------------
(***************************************************************************)
(* The driver implements VariableMap.                                      *)
(***************************************************************************)
Contents == [n \in Names |-> Stored(n)]

Substituted(r) == [Contents EXCEPT ![r.name] = Outcome(r)]

LEMMA ContentsMove ==
  ASSUME StoredRight, StoredRight'
  PROVE  /\ Unmoved => Contents' = Contents
         /\ \A r : ByCall(r) => Contents' = Substituted(r)
         /\ \A r : Unmoved /\ Value(memory, cache, r.name) = Outcome(r) => Contents' = Substituted(r)
         /\ Lost => Contents' = [n \in Names |->
                      IF Contents[n] = Idle THEN Idle
                      ELSE IF "NV" \in Contents[n].attr THEN Contents[n] ELSE Idle]
<1>1. \A n \in Names : Contents[n] = Value(memory, cache, n) /\ Contents'[n] = Value(memory', cache', n)
  BY DEF Contents, StoredRight, AllNames
<1>2. Contents = [n \in Names |-> Contents[n]] /\ Contents' = [n \in Names |-> Contents'[n]]
  BY DEF Contents
<1>3. ASSUME NEW r
      PROVE  Substituted(r) = [n \in Names |-> IF n = r.name THEN Outcome(r) ELSE Contents[n]]
  BY DEF Substituted, Contents
<1> HIDE DEF Contents
<1>4. Unmoved => Contents' = Contents
  BY <1>1, <1>2 DEF Unmoved
<1>5. \A r : ByCall(r) => Contents' = Substituted(r)
  BY <1>1, <1>2, <1>3 DEF ByCall
<1>6. \A r : Unmoved /\ Value(memory, cache, r.name) = Outcome(r) => Contents' = Substituted(r)
  BY <1>1, <1>2, <1>3 DEF Unmoved
<1>7. Lost => Contents' = [n \in Names |->
                 IF Contents[n] = Idle THEN Idle
                 ELSE IF "NV" \in Contents[n].attr THEN Contents[n] ELSE Idle]
  BY <1>1, <1>2 DEF Lost
<1> QED
  BY <1>4, <1>5, <1>6, <1>7

LEMMA RequestNotIdle ==
  ASSUME NEW r \in Requests
  PROVE  r # Idle
<1>1. DOMAIN r = {"name", "attr", "value"} /\ DOMAIN Idle = {"pc"}
  BY StoreAssumption DEF Idle
<1> QED
  BY <1>1

\* The driver is a map whose variables change at one moment.
THEOREM IsMap == Spec /\ CleanAppends /\ DoublesComplete => ImplementsVariableMap
<1> DEFINE lasting == ftw.state # "restarts"
<1>1. Init /\ CleanAppends => Map!Init
  <2> SUFFICES ASSUME Init, CleanAppends
               PROVE  Map!Init
    OBVIOUS
  <2>1. IndInv /\ MapInv /\ StoredRight
    BY InitStep, InitMap, StoredRightIs
  <2>2. memory = <<>> /\ cache = <<>> /\ job = Idle /\ status = "none"
        /\ ftw.state # "restarts"
    BY DEF Init, Ready
  <2>3. memory \in Seq(Record) /\ cache \in Seq(Record) /\ Len(memory) = 0 /\ Len(cache) = 0
    BY <2>1, <2>2, CacheIs
  <2>4. \A n : VisibleOf(memory, n) = {} /\ VisibleOf(cache, n) = {}
    BY <2>3 DEF VisibleOf
  <2>5. \A n \in Names : Stored(n) = Idle
    BY <2>1, <2>3, <2>4, InStoreNone DEF StoredRight, Value, AllNames
  <2> QED
    BY <2>2, <2>5 DEF Map!Init
<1>2. MapStep => [Map!Next]_(Map!vars)
  <2> SUFFICES ASSUME MapStep
               PROVE  [Map!Next]_(Map!vars)
    OBVIOUS
  <2>1. StoredRight /\ StoredRight' /\ Effect /\ lasting /\ lasting'
    BY DEF MapStep, IndInv, StoreOK, Ready
  <2>2. job # Idle => job.request \in Requests /\ job.request # Idle
    BY Busy, RequestNotIdle DEF MapStep
  <2>3. InCall = IF job = Idle THEN Idle ELSE job.request
    BY DEF InCall
  <2>4. CASE Hidden
    <3>1. Contents' = Contents /\ InCall' = InCall /\ status' = status
      BY <2>1, <2>4, ContentsMove DEF Hidden
    <3> QED
      BY <2>1, <3>1 DEF Map!vars, Contents, InCall
  <2>5. CASE Replacing
    <3>1. Contents' = Substituted(job.request) /\ InCall' = InCall /\ status' = status /\ InCall # Idle
          /\ InCall = job.request
      BY <2>1, <2>2, <2>3, <2>5, ContentsMove DEF Replacing
    <3>2. Map!Replace
      BY <2>1, <3>1 DEF Map!Replace, Map!Replaced, Map!Outcome, Contents, Substituted, Outcome, InCall
    <3> QED
      BY <3>2 DEF Map!Next
  <2>6. CASE Ended
    <3>1. InCall # Idle /\ InCall = job.request /\ InCall' = Idle
      BY <2>2, <2>3, <2>6 DEF Ended
    <3>2. \/ Contents' = Contents /\ status' \in {"no room", "error"}
          \/ Contents' = Substituted(InCall) /\ status' = "success"
      BY <2>1, <2>6, <3>1, ContentsMove DEF Ended
    <3>3. Map!End
      BY <2>1, <3>1, <3>2 DEF Map!End, Map!Replaced, Map!Outcome, Contents, Substituted, Outcome, InCall
    <3> QED
      BY <3>3 DEF Map!Next
  <2>7. CASE Restarted
    <3>1. /\ InCall' = Idle /\ status' = "none"
          /\ Contents' = [n \in Names |->
               IF Contents[n] = Idle THEN Idle
               ELSE IF "NV" \in Contents[n].attr THEN Contents[n] ELSE Idle]
      BY <2>1, <2>7, ContentsMove DEF Restarted
    <3>2. Map!PowerLoss
      BY <2>1, <3>1 DEF Map!PowerLoss, Contents, InCall
    <3> QED
      BY <3>2 DEF Map!Next
  <2>8. ASSUME NEW r \in Requests, Begun(r)
        PROVE  Map!Begin
    <3>1. Contents' = Contents /\ InCall = Idle /\ InCall' = r /\ status' = "none"
      BY <2>1, <2>3, <2>8, ContentsMove DEF Begun
    <3> QED
      BY <2>1, <3>1 DEF Map!Begin, Contents, InCall
  <2>9. ASSUME NEW r \in Requests, AtOnce(r)
        PROVE  Map!Immediate
    <3>1. InCall = Idle /\ InCall' = Idle
      BY <2>3, <2>9 DEF AtOnce
    <3>2. \/ Contents' = Contents /\ status' \in {"refused", "no room", "error"}
          \/ Contents' = Substituted(r) /\ status' = "success"
      BY <2>1, <2>9, ContentsMove DEF AtOnce
    <3> QED
      BY <2>1, <3>1, <3>2 DEF Map!Immediate, Map!Replaced, Map!Outcome, Contents, Substituted, Outcome, InCall
  <2> QED
    BY <2>1, <2>4, <2>5, <2>6, <2>7, <2>8, <2>9 DEF Effect, Map!Next
<1>3. UNCHANGED vars => UNCHANGED Map!vars
  BY DEF vars, store, Map!vars, Stored, FindVariableEx, NextBoot
<1> QED
  BY <1>1, <1>2, <1>3, Steppings, PTL DEF ImplementsVariableMap, Map!Spec, Spec
=============================================================================
