---------------------------- MODULE MCAtaBlockIo ----------------------------
(***************************************************************************)
(* Two devices of one controller.  On the first, a request of two commands *)
(* and two of one, so that two may wait for the other; on the second, a    *)
(* request and a blocking one, whose commands share the list with theirs.  *)
(***************************************************************************)
EXTENDS AtaBlockIo

CONSTANTS d1, d2, long, short, third, other, block

MCRequests == {long, short, third, other, block}
MCDevice   == [r \in MCRequests |-> IF r \in {other, block} THEN d2 ELSE d1]
MCParts    == [r \in MCRequests |-> IF r = long THEN 2 ELSE 1]
=============================================================================
