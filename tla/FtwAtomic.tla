----------------------------- MODULE FtwAtomic -----------------------------
(***************************************************************************)
(* What the fault tolerant write protocol promises its callers             *)
(* (FaultTolerantWrite.c, FtwWrite): "ensuring at all times that either    *)
(* the original contents or the modified contents are available".  A write *)
(* replaces the contents of its block at one moment between the call and   *)
(* its end, or not at all; the end is a return or a loss of power.  What   *)
(* is returned as a success has been replaced.                             *)
(***************************************************************************)
CONSTANTS
  Writable,   \* blocks callers may write
  Values,     \* contents of a block
  NoWrite     \* no write is going on

VARIABLES
  available,  \* the contents of each block
  writing,    \* the write in progress, or NoWrite
  status      \* what the last call returned

vars == <<available, writing, status>>

Writes == [target : Writable, value : Values]

Init ==
  /\ available \in [Writable -> Values]
  /\ writing = NoWrite
  /\ status = "none"

Begin ==
  /\ writing = NoWrite
  /\ writing' \in Writes
  /\ status' = "none"
  /\ UNCHANGED available

Replace ==
  /\ writing # NoWrite
  /\ available' = [available EXCEPT ![writing.target] = writing.value]
  /\ UNCHANGED <<writing, status>>

\* A call that returns success has written; the power may go at any time.
End ==
  /\ writing' = NoWrite
  /\ writing # NoWrite /\ status' = "success" =>
       available[writing.target] = writing.value
  /\ UNCHANGED available

Next == Begin \/ Replace \/ End

Spec == Init /\ [][Next]_vars
=============================================================================
