---------------------------- MODULE BatchBarrier ----------------------------
(***************************************************************************)
(* What RepairBatch::genRepairTasks promises its caller: the batches are   *)
(* repaired one after the other, and the next one starts only when every   *)
(* node with work in the current one has finished it.                      *)
(***************************************************************************)
EXTENDS Integers

CONSTANTS
  Last,        \* number of batches
  InvolvedIn   \* InvolvedIn[b]: the nodes with work in batch b

VARIABLES
  current,     \* the batch being repaired; Last + 1 when all are
  finishedBy   \* nodes that have finished it

vars == <<current, finishedBy>>

Init ==
  /\ current = 1
  /\ finishedBy = {}

Finish(n) ==
  /\ current \in 1 .. Last
  /\ n \in InvolvedIn[current] \ finishedBy
  /\ finishedBy' = finishedBy \cup {n}
  /\ UNCHANGED current

Advance ==
  /\ current \in 1 .. Last
  /\ finishedBy = InvolvedIn[current]
  /\ current' = current + 1
  /\ finishedBy' = {}

Next == Advance \/ \E n \in UNION {InvolvedIn[b] : b \in 1 .. Last} : Finish(n)

SafeSpec == Init /\ [][Next]_vars

Spec == SafeSpec /\ WF_vars(Next)
=============================================================================
