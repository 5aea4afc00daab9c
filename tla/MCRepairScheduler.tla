-------------------------- MODULE MCRepairScheduler --------------------------
(***************************************************************************)
(* Four nodes, a code that tolerates two failures, one stripe on all nodes *)
(* and one on three of them, and all traces of up to three events.         *)
(***************************************************************************)
EXTENDS RepairScheduler

MCNodes == 1 .. 4
MCPlacement == [wide |-> 1 .. 4, narrow |-> 1 .. 3]
MCTraces == UNION {[1 .. n -> SUBSET MCNodes] : n \in 0 .. 3}
=============================================================================
