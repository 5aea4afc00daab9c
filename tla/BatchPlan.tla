------------------------------ MODULE BatchPlan ------------------------------
(***************************************************************************)
(* What the generators of repair batches promise to Coordinator::repair:   *)
(* one nonempty set of at most BatchSize stripes after the other, no       *)
(* stripe twice, until every stripe that lost a block is planned.          *)
(***************************************************************************)
EXTENDS Integers, Sequences, FiniteSets

CONSTANTS
  Stripes,   \* _stripe_list
  BatchSize  \* _batch_size

VARIABLES
  unplanned, \* stripes to repair that are in no batch yet
  plan       \* the sets of stripes of the batches, in order

vars == <<unplanned, plan>>

Init ==
  /\ unplanned \in SUBSET Stripes
  /\ plan = <<>>

Emit ==
  \E S \in SUBSET unplanned :
    /\ Cardinality(S) \in 1 .. BatchSize
    /\ plan' = Append(plan, S)
    /\ unplanned' = unplanned \ S

\* Its safety part.
SafeSpec == Init /\ [][Emit]_vars

Spec == SafeSpec /\ WF_vars(Emit)
=============================================================================
