------------------------ MODULE MCFaultTolerantWrite ------------------------
(***************************************************************************)
(* Instances of FaultTolerantWrite for TLC: a target beside the working    *)
(* block, and contents that are interchangeable.                           *)
(***************************************************************************)
EXTENDS FaultTolerantWrite, TLC

CONSTANTS a, b

Symmetry == Permutations(Values)

AllOps == {"allocate", "write", "restart", "abort", "lastwrite"}

\* One write at a time, of any kind; the power goes twice.
Single ==
  [queue |-> 4, writable |-> {"nv"}, ops |-> AllOps, requests |-> {1},
   private |-> {TRUE, FALSE}, calls |-> 3, crashes |-> 2, faults |-> 0]

\* The working block is written, too.
Working ==
  [Single EXCEPT !.queue = 6, !.writable = {"nv", "work"}, !.private = {FALSE}, !.calls = 2]

\* Two writes are allocated together, and an error comes in.
Batch ==
  [Single EXCEPT !.queue = 6, !.requests = {2}, !.private = {TRUE},
                 !.ops = {"allocate", "write", "restart"}, !.calls = 4, !.crashes = 1, !.faults = 1]

AllPlatforms == {Single, Working, Batch}

\* The working block is written when the queue is full.
FullQueue ==
  {[Single EXCEPT !.queue = 2, !.writable = {"work"}, !.private = {FALSE}, !.crashes = 1]}
=============================================================================
