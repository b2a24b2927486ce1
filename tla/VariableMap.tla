---------------------------- MODULE VariableMap ----------------------------
(***************************************************************************)
(* What the variable services promise (SetVariable, Variable.c): the       *)
(* variables are a map, and a call replaces or removes one variable at one *)
(* moment between the call and its end, or not at all.  A call that        *)
(* returns success has done so, except where an error left a write of the  *)
(* whole store for the next boot to do again: until then, what calls do    *)
(* need not last, and the map is what that boot finds.  When the power     *)
(* goes, only the variables that are not non-volatile disappear.           *)
(***************************************************************************)
CONSTANTS
  Names,      \* names of variables
  Requests,   \* what callers ask for: [name, attr, value]
  NoRequest,  \* no call is going on
  NoData,     \* requested value of a deletion
  Absent      \* the variable does not exist

VARIABLES
  map,        \* the variables
  request,    \* the call in progress, or NoRequest
  status,     \* what the last call returned
  lasting     \* what calls do is there after the next boot

vars == <<map, request, status, lasting>>

\* What a successful call makes of its variable.
Outcome(r) == IF r.value = NoData \/ r.attr = {} THEN Absent
              ELSE [value |-> r.value, attr |-> r.attr]

Init ==
  /\ map = [n \in Names |-> Absent]
  /\ request = NoRequest /\ status = "none" /\ lasting = TRUE

Begin ==
  /\ request = NoRequest
  /\ request' \in Requests
  /\ status' = "none"
  /\ UNCHANGED <<map, lasting>>

Replaced(r) == [map EXCEPT ![r.name] = Outcome(r)]

Replace ==
  /\ request # NoRequest
  /\ map' = Replaced(request)
  /\ UNCHANGED <<request, status, lasting>>

\* The call returns; a success means that the map holds what was asked for.  An
\* error may leave a write for the next boot.
End ==
  /\ request # NoRequest
  /\ request' = NoRequest
  /\ status' \in {"success", "no room", "error"}
  /\ map' \in {map, Replaced(request)}
  /\ status' = "success" /\ lasting => map' = Replaced(request)
  /\ \/ UNCHANGED lasting
     \/ status' = "error" /\ lasting' = FALSE

\* A call that has nothing to do in flash: refused, repeated, or about a
\* variable in memory.
Immediate ==
  /\ request = NoRequest
  /\ UNCHANGED <<request, lasting>>
  /\ \E r \in Requests :
       \/ status' \in {"refused", "no room", "error"} /\ UNCHANGED map
       \/ /\ status' = "success"
          /\ map' \in {map, Replaced(r)}
          /\ lasting => map' = Replaced(r)

\* An error outside of calls.
Interrupted ==
  /\ lasting' = FALSE
  /\ UNCHANGED <<map, request, status>>

PowerLoss ==
  /\ request' = NoRequest
  /\ status' = "none" /\ lasting' = TRUE
  /\ map' = [n \in Names |->
               IF map[n] = Absent THEN Absent
               ELSE IF "NV" \in map[n].attr THEN map[n] ELSE Absent]

Next == Begin \/ Replace \/ End \/ Immediate \/ Interrupted \/ PowerLoss

Spec == Init /\ [][Next]_vars
=============================================================================
