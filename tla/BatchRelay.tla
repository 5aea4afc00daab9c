----------------------------- MODULE BatchRelay -----------------------------
(***************************************************************************)
(* What the hand-over of repair batches promises, without flags, locks or  *)
(* threads: one party makes the batches 0, 1, 2, ... and another receives  *)
(* them one at a time, in that order, each exactly once.  When mayLose is  *)
(* TRUE a batch may be dropped, but only while nothing is in transit and   *)
(* nothing has been received: the received batches are then a suffix of    *)
(* the made ones.                                                          *)
(***************************************************************************)
EXTENDS Integers, Sequences

CONSTANT N   \* number of batches to relay

VARIABLES
  mayLose,    \* may a batch be dropped before the first delivery?
  made,       \* how many batches have been made so far
  pending,    \* batches made and not received yet, oldest first
  delivered   \* batches received, oldest first

vars == <<mayLose, made, pending, delivered>>

Init ==
  /\ mayLose \in BOOLEAN
  /\ made = 0
  /\ pending = <<>>
  /\ delivered = <<>>

Produce ==
  /\ made < N
  /\ pending' = Append(pending, made)
  /\ made' = made + 1
  /\ UNCHANGED <<mayLose, delivered>>

Drop ==
  /\ mayLose
  /\ made < N
  /\ pending = <<>>
  /\ delivered = <<>>
  /\ made' = made + 1
  /\ UNCHANGED <<mayLose, pending, delivered>>

Deliver ==
  /\ pending # <<>>
  /\ delivered' = Append(delivered, Head(pending))
  /\ pending' = Tail(pending)
  /\ UNCHANGED <<mayLose, made>>

Next == Produce \/ Drop \/ Deliver

SafeSpec == Init /\ [][Next]_vars

Spec == SafeSpec /\ WF_vars(Produce \/ Drop) /\ WF_vars(Deliver)
=============================================================================
