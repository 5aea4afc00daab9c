------------------------ MODULE MCRepairSchedulerNew ------------------------
(***************************************************************************)
(* Five nodes, a code that tolerates two failures, three stripes that      *)
(* share some of their nodes, and all traces of up to three events, each   *)
(* of at most two nodes or of three nodes of a stripe.                     *)
(***************************************************************************)
EXTENDS RepairSchedulerNew

MCNodes == 0 .. 4
MCPlacement == [a |-> {0, 1, 2, 3}, b |-> {1, 2, 3, 4}, c |-> {0, 2, 4}]
MCPredictors == {[misses |-> m, alarms |-> TRUE] : m \in BOOLEAN}
Events ==
  {SetToSortSeq(S, <) :
     S \in {T \in SUBSET MCNodes : Cardinality(T) <= 2} \cup {{0, 2, 4}, {1, 2, 3}}}
MCTraces == UNION {[1 .. n -> Events] : n \in 0 .. 3}
=============================================================================
