-------------------------- MODULE MCVariableStore --------------------------
(***************************************************************************)
(* Instances of VariableStore for TLC.                                     *)
(***************************************************************************)
EXTENDS VariableStore

Set(n, attr, v) == [name |-> n, attr |-> attr, value |-> v]

NV == {"NV", "BS"}
RT == {"NV", "BS", "RT"}
HW == {"NV", "BS", "HW"}

MCData   == {"short", "other", "long"}
MCLength == [short |-> 1, other |-> 1, long |-> 3]

\* Two variables with records of one length; "a" is locked.
EqualRequests ==
  {Set(n, NV, v) : n \in {"a", "b"}, v \in {"short", "other"}} \cup
  {Set("a", {}, NoData), Set("b", NV, NoData)}

\* A variable for the operating system.
RuntimeRequests == {Set("r", RT, "short"), Set("r", RT, "other"), Set("r", RT, NoData)}

\* Records of two lengths, a hardware error record, and "v", volatile or not.
MixedRequests ==
  {Set("r", RT, v) : v \in {"short", "long"}} \cup
  {Set("v", NV, v) : v \in {"short", "long"}} \cup
  {Set("v", {"BS"}, v) : v \in {"short", "long"}} \cup
  {Set("v", {}, NoData), Set("r", RT, NoData), Set("h", HW, "short")}

MCRequests == EqualRequests \cup RuntimeRequests \cup MixedRequests

Client(requests, n, l, e, faulty) ==
  [requests |-> requests, calls |-> n, losses |-> l, errors |-> e, faulty |-> faulty]

\* Every access may fail but those that leave half a record.
LateErrors == Points \ {"state", "data", "added"}

\* One loss of power or one error; two losses, or a loss and an error, in calls
\* about one variable; more calls with records of several lengths and neither.
Faults ==
  {Client(EqualRequests, 4, 1, 0, {}), Client(EqualRequests, 4, 0, 1, LateErrors),
   Client(RuntimeRequests, 4, 2, 0, {}), Client(RuntimeRequests, 3, 1, 1, LateErrors \ {"reclaim"}),
   Client(MixedRequests, 3, 1, 0, {}), Client(MixedRequests, 3, 0, 1, LateErrors),
   Client(MixedRequests, 4, 0, 0, {})}

NoFault   == {Client(MixedRequests, 4, 0, 0, {})}
\* Two losses of power in calls about the same variable.
TwoLosses == {Client(RuntimeRequests, 4, 2, 0, {})}
=============================================================================
