------------------------ MODULE RepairScheduler_proofs ------------------------
(***************************************************************************)
(* For every cluster, placement, tolerance and trace: waiting stays within *)
(* the tolerance, and neither the immediate nor the trace-driven strategy  *)
(* loses data at an event that would not destroy a stripe by itself.       *)
(***************************************************************************)
EXTENDS RepairScheduler, FiniteSetTheorems, TLAPS

\* The part of TypeOK that the other invariants need.
RunOK ==
  /\ strategy \in Strategies
  /\ trace \in Seq(SUBSET Nodes)
  /\ idx \in 1 .. Len(trace) + 1
  /\ failed \in SUBSET Nodes
  /\ losses \in SUBSET (1 .. idx - 1)

IInv == RunOK /\ WaitingIsTolerated /\ LossIsUnavoidable

USE NodesAssumption, PlacementAssumption, ToleranceAssumption, TracesAssumption

----------------------------------------------------------------------------
\* Sets of nodes are finite and have natural cardinalities.
LEMMA NodeSets ==
  ASSUME NEW A \in SUBSET Nodes
  PROVE  IsFiniteSet(A) /\ Cardinality(A) \in Nat
BY FS_Subset, FS_CardinalityType

\* The union of two sets of nodes is no larger than both together.
LEMMA UnionBound ==
  ASSUME NEW A \in SUBSET Nodes, NEW B \in SUBSET Nodes
  PROVE  Cardinality(A \cup B) <= Cardinality(A) + Cardinality(B)
<1>1. /\ IsFiniteSet(A) /\ IsFiniteSet(B) /\ IsFiniteSet(A \cap B)
      /\ Cardinality(A) \in Nat /\ Cardinality(B) \in Nat
      /\ Cardinality(A \cap B) \in Nat
  BY NodeSets
<1>2. Cardinality(A \cup B)
        = Cardinality(A) + Cardinality(B) - Cardinality(A \cap B)
  BY <1>1, FS_Union
<1> QED BY <1>1, <1>2

\* More failures never undo a loss.
LEMMA LossMonotone ==
  ASSUME NEW A \in SUBSET Nodes, NEW B \in SUBSET Nodes, A \subseteq B, IsLoss(A)
  PROVE  IsLoss(B)
<1>1. PICK s \in Stripes : Cardinality(Placement[s] \cap A) > Tolerance
  BY DEF IsLoss, FailedIn
<1>2. /\ Placement[s] \cap A \in SUBSET (Placement[s] \cap B)
      /\ Placement[s] \cap B \in SUBSET Nodes
      /\ Placement[s] \cap A \in SUBSET Nodes
  OBVIOUS
<1>3. Cardinality(Placement[s] \cap A) <= Cardinality(Placement[s] \cap B)
  BY <1>2, NodeSets, FS_Subset
<1>4. Cardinality(Placement[s] \cap B) > Tolerance
  BY <1>1, <1>2, <1>3, NodeSets
<1> QED BY <1>4 DEF IsLoss, FailedIn

\* Data is lost only when more nodes are down than the code tolerates.
LEMMA LossNeedsFailures ==
  ASSUME NEW A \in SUBSET Nodes, IsLoss(A)
  PROVE  Cardinality(A) > Tolerance
<1>1. PICK s \in Stripes : Cardinality(Placement[s] \cap A) > Tolerance
  BY DEF IsLoss, FailedIn
<1>2. Placement[s] \cap A \in SUBSET A /\ Placement[s] \cap A \in SUBSET Nodes
  OBVIOUS
<1>3. Cardinality(Placement[s] \cap A) <= Cardinality(A)
  BY <1>2, NodeSets, FS_Subset
<1> QED BY <1>1, <1>2, <1>3, NodeSets

----------------------------------------------------------------------------
LEMMA InitIInv == Init => IInv
<1> SUFFICES ASSUME Init
             PROVE  IInv
  OBVIOUS
<1>1. trace \in Seq(SUBSET Nodes)
  BY DEF Init
<1>2. Len(trace) \in Nat
  BY <1>1
<1> QED BY <1>1, <1>2 DEF Init, IInv, RunOK, WaitingIsTolerated, LossIsUnavoidable

\* What holds when the loop takes an event: its nodes and the failed ones are
\* nodes, and the event's index is still counted by nobody.
LEMMA EventFacts ==
  ASSUME IInv, HasCurrentEvent
  PROVE  /\ idx \in Nat /\ idx >= 1 /\ idx <= Len(trace) /\ Len(trace) \in Nat
         /\ trace[idx] \in SUBSET Nodes
         /\ Added \in SUBSET Nodes
         /\ idx + 1 \in 1 .. Len(trace) + 1
         /\ 1 .. (idx + 1) - 1 = (1 .. idx - 1) \cup {idx}
         /\ idx \notin 1 .. idx - 1
<1>1. Len(trace) \in Nat /\ idx \in Nat /\ idx >= 1 /\ idx <= Len(trace)
  BY DEF IInv, RunOK, HasCurrentEvent
<1>2. trace[idx] \in SUBSET Nodes
  BY <1>1 DEF IInv, RunOK
<1>3. Added \in SUBSET Nodes
  BY <1>2 DEF IInv, RunOK, Added
<1> QED BY <1>1, <1>2, <1>3

\* An event after which nothing is lost is no loss by itself; one that loses
\* data with what was waiting does, unless the strategy is lazy.
LEMMA LossAtEvent ==
  ASSUME IInv, HasCurrentEvent, strategy # "lazy"
  PROVE  IsLoss(Added) <=> IsLoss(trace[idx])
<1>1. trace[idx] \in SUBSET Nodes /\ Added \in SUBSET Nodes
  BY EventFacts
<1>2. trace[idx] \subseteq Added
  BY DEF Added
<1>3. ASSUME IsLoss(Added), failed # {}
      PROVE  FALSE
  <2>1. strategy = "traceDriven"
    BY <1>3 DEF IInv, RunOK, WaitingIsTolerated, Strategies
  <2>2. Cardinality(failed) + Cardinality(trace[idx]) <= Tolerance
    BY <2>1, <1>3 DEF IInv, WaitingIsTolerated
  <2>3. Cardinality(Added) <= Cardinality(failed) + Cardinality(trace[idx])
    BY <1>1, UnionBound DEF Added, IInv, RunOK
  <2>4. Cardinality(Added) > Tolerance
    BY <1>1, <1>3, LossNeedsFailures
  <2>5. /\ Cardinality(Added) \in Nat
        /\ Cardinality(failed) \in Nat
        /\ Cardinality(trace[idx]) \in Nat
    BY <1>1, NodeSets DEF IInv, RunOK
  <2> QED BY <2>2, <2>3, <2>4, <2>5
<1>4. CASE failed = {}
  <2>1. Added = trace[idx]
    BY <1>4 DEF Added
  <2> QED BY <2>1
<1>5. CASE failed # {}
  BY <1>1, <1>2, <1>3, <1>5, LossMonotone
<1> QED BY <1>4, <1>5

----------------------------------------------------------------------------
\* An event with a loss.
LEMMA EventWithLossIInv == IInv /\ EventWithLoss => IInv'
<1> SUFFICES ASSUME IInv, EventWithLoss
             PROVE  IInv'
  OBVIOUS
<1> HasCurrentEvent /\ IsLoss(Added)
  BY DEF EventWithLoss
<1> USE EventFacts
<1>1. /\ idx' = idx + 1 /\ trace' = trace /\ strategy' = strategy
      /\ failed' = {} /\ losses' = losses \cup {idx}
  BY DEF EventWithLoss, ExecuteRepair
<1>2. RunOK'
  BY <1>1 DEF IInv, RunOK
<1>3. WaitingIsTolerated'
  BY <1>1 DEF WaitingIsTolerated
<1>4. LossIsUnavoidable'
  <2> SUFFICES ASSUME strategy # "lazy"
               PROVE  losses \cup {idx}
                        = {i \in 1 .. (idx + 1) - 1 : IsLoss(trace[i])}
    BY <1>1 DEF LossIsUnavoidable, IsLoss, FailedIn
  <2>1. IsLoss(trace[idx])
    BY LossAtEvent
  <2>2. losses = {i \in 1 .. idx - 1 : IsLoss(trace[i])}
    BY DEF IInv, LossIsUnavoidable
  <2> QED BY <2>1, <2>2
<1> QED BY <1>2, <1>3, <1>4 DEF IInv

\* An event without a loss, whatever is decided, records none.
LEMMA NoLossStep ==
  ASSUME IInv, HasCurrentEvent, ~ IsLoss(Added),
         idx' = idx + 1, UNCHANGED <<trace, strategy, losses>>,
         failed' \in SUBSET Nodes
  PROVE  RunOK' /\ LossIsUnavoidable'
<1> USE EventFacts
<1>1. RunOK'
  BY DEF IInv, RunOK
<1>2. LossIsUnavoidable'
  <2> SUFFICES ASSUME strategy # "lazy"
               PROVE  losses = {i \in 1 .. (idx + 1) - 1 : IsLoss(trace[i])}
    BY DEF LossIsUnavoidable, IsLoss, FailedIn
  <2>1. ~ IsLoss(trace[idx])
    BY LossAtEvent
  <2>2. losses = {i \in 1 .. idx - 1 : IsLoss(trace[i])}
    BY DEF IInv, LossIsUnavoidable
  <2> QED BY <2>1, <2>2
<1> QED BY <1>1, <1>2

LEMMA EventRepairedIInv == IInv /\ EventRepaired => IInv'
<1> SUFFICES ASSUME IInv, EventRepaired
             PROVE  IInv'
  OBVIOUS
<1>1. /\ HasCurrentEvent /\ ~ IsLoss(Added)
      /\ idx' = idx + 1 /\ failed' = {}
      /\ UNCHANGED <<trace, strategy, losses>>
  BY DEF EventRepaired, ExecuteRepair
<1>2. WaitingIsTolerated'
  BY <1>1 DEF WaitingIsTolerated
<1> QED BY <1>1, <1>2, NoLossStep DEF IInv

\* Waiting keeps what the strategies promise.
LEMMA EventDeferredIInv == IInv /\ EventDeferred => IInv'
<1> SUFFICES ASSUME IInv, EventDeferred
             PROVE  IInv'
  OBVIOUS
<1>1. /\ HasCurrentEvent /\ ~ IsLoss(Added) /\ ~ Decide(Added, idx)
      /\ idx' = idx + 1 /\ failed' = Added
      /\ UNCHANGED <<trace, strategy, losses>>
  BY DEF EventDeferred
<1> USE <1>1, EventFacts
<1>2. WaitingIsTolerated'
  <2> SUFFICES ASSUME Added # {}
               PROVE  WaitingIsTolerated'
    BY DEF WaitingIsTolerated
  <2>1. Cardinality(Added) \in Nat /\ Cardinality(Added) > 0
    <3>1. IsFiniteSet(Added) /\ Cardinality(Added) \in Nat
      BY NodeSets
    <3>2. Cardinality(Added) # 0
      BY <3>1, FS_EmptySet
    <3> QED BY <3>1, <3>2
  <2>2. strategy # "immediate"
    BY <2>1 DEF Decide, DecideImmediate
  <2>3. strategy = "lazy" => Cardinality(Added) < Tolerance
    BY <2>1 DEF Decide, DecideLazy
  <2>4. ASSUME strategy = "traceDriven"
        PROVE  /\ idx + 1 <= Len(trace)
               /\ Cardinality(Added) + Cardinality(trace[idx + 1]) <= Tolerance
    <3>1. ~ DecideTraceDriven(Added, idx)
      BY <2>4 DEF Decide
    <3>2. idx < Len(trace)
      BY <3>1, <2>1 DEF DecideTraceDriven
    <3>3. trace[idx + 1] \in SUBSET Nodes
      BY <3>2 DEF IInv, RunOK
    <3>4. Cardinality(trace[idx + 1]) \in Nat
      BY <3>3, NodeSets
    <3>5. ~ (Cardinality(trace[idx + 1]) > Tolerance - Cardinality(Added))
      BY <3>1, <3>2 DEF DecideTraceDriven, Remaining
    <3> QED BY <2>1, <3>2, <3>4, <3>5
  <2> QED BY <2>2, <2>3, <2>4 DEF WaitingIsTolerated, HasCurrentEvent
<1>3. RunOK' /\ LossIsUnavoidable'
  BY NoLossStep
<1> QED BY <1>2, <1>3 DEF IInv

\* The final repair empties the set of failed nodes and moves nothing else.
LEMMA FinalRepairIInv == IInv /\ FinalRepair => IInv'
<1> SUFFICES ASSUME IInv, FinalRepair
             PROVE  IInv'
  OBVIOUS
<1>1. failed' = {} /\ UNCHANGED <<trace, strategy, losses, idx>>
  BY DEF FinalRepair, ExecuteRepair
<1> QED BY <1>1 DEF IInv, RunOK, WaitingIsTolerated, LossIsUnavoidable, IsLoss,
                    FailedIn

\* The invariant is inductive.
LEMMA NextIInv == IInv /\ [Next]_vars => IInv'
<1> SUFFICES ASSUME IInv, [Next]_vars
             PROVE  IInv'
  OBVIOUS
<1>1. CASE EventWithLoss
  BY <1>1, EventWithLossIInv
<1>2. CASE EventRepaired
  BY <1>2, EventRepairedIInv
<1>3. CASE EventDeferred
  BY <1>3, EventDeferredIInv
<1>4. CASE FinalRepair
  BY <1>4, FinalRepairIInv
<1>5. CASE UNCHANGED vars
  BY <1>5 DEF vars, IInv, RunOK, WaitingIsTolerated, LossIsUnavoidable, IsLoss,
              FailedIn, HasCurrentEvent
<1> QED BY <1>1, <1>2, <1>3, <1>4, <1>5 DEF Next

\* decideLazy and decideTraceDriven leave failures to wait only within the
\* tolerance of the code.
THEOREM WaitingTolerated == Spec => []WaitingIsTolerated
<1>1. IInv => WaitingIsTolerated
  BY DEF IInv
<1> QED BY <1>1, InitIInv, NextIInv, PTL DEF Spec

\* decideImmediate and decideTraceDriven lose data only at an event that fails
\* more blocks of one stripe than the code can repair.
THEOREM NoAvoidableLoss == Spec => []LossIsUnavoidable
<1>1. IInv => LossIsUnavoidable
  BY DEF IInv
<1> QED BY <1>1, InitIInv, NextIInv, PTL DEF Spec

----------------------------------------------------------------------------
(* Types, and that no failure is forgotten *)

\* The rest of TypeOK.
RoundsOK ==
  /\ trace \in Traces
  /\ rounds \in Seq([after : Nat, nodes : SUBSET Nodes])
  /\ finished \in BOOLEAN

\* After the last event nothing is added any more.
OverAtEnd == finished => ~ HasCurrentEvent

RInv == IInv /\ RoundsOK /\ OverAtEnd /\ EveryFailureIsRepaired

\* A node that failed at event i is failed still, or in a round not before it.
Accounted(i, n, nodes, rs) ==
  \/ n \in nodes
  \/ \E r \in 1 .. Len(rs) : rs[r].after >= i /\ n \in rs[r].nodes

\* A round that takes all failed nodes, and those that fail now, keeps the account.
LEMMA RoundAccounts ==
  ASSUME RInv, NEW nodes \in SUBSET Nodes, ExecuteRepair(nodes), failed \subseteq nodes
  PROVE  /\ rounds' \in Seq([after : Nat, nodes : SUBSET Nodes])
         /\ \A i \in 1 .. idx - 1 : \A n \in trace[i] : Accounted(i, n, failed', rounds')
         /\ \A n \in nodes : Accounted(idx, n, failed', rounds')
<1> DEFINE new == [after |-> idx, nodes |-> nodes]
<1>1. /\ rounds \in Seq([after : Nat, nodes : SUBSET Nodes])
      /\ idx \in Nat /\ Len(trace) \in Nat
      /\ new \in [after : Nat, nodes : SUBSET Nodes]
  BY DEF RInv, RoundsOK, IInv, RunOK
<1>2. rounds' = Append(rounds, new)
  BY DEF ExecuteRepair
<1>3. /\ rounds' \in Seq([after : Nat, nodes : SUBSET Nodes])
      /\ Len(rounds) \in Nat /\ Len(rounds') = Len(rounds) + 1
      /\ \A r \in 1 .. Len(rounds) : rounds'[r] = rounds[r]
      /\ rounds'[Len(rounds) + 1] = new
  BY <1>1, <1>2
<1>4. /\ Len(rounds) + 1 \in 1 .. Len(rounds')
      /\ rounds'[Len(rounds) + 1].after = idx
      /\ rounds'[Len(rounds) + 1].nodes = nodes
  BY <1>3
<1>5. ASSUME NEW i \in 1 .. idx, NEW n \in nodes
      PROVE  Accounted(i, n, failed', rounds')
  <2>1. idx >= i
    BY <1>1
  <2>2. \E r \in 1 .. Len(rounds') : rounds'[r].after >= i /\ n \in rounds'[r].nodes
    BY <1>4, <2>1
  <2> QED BY <2>2 DEF Accounted
<1>6. ASSUME NEW i \in 1 .. idx - 1, NEW n \in trace[i]
      PROVE  Accounted(i, n, failed', rounds')
  <2>1. CASE n \in failed
    BY <2>1, <1>1, <1>5
  <2>2. CASE n \notin failed
    <3>1. PICK r \in 1 .. Len(rounds) : rounds[r].after >= i /\ n \in rounds[r].nodes
      BY <2>2 DEF RInv, EveryFailureIsRepaired
    <3>2. r \in 1 .. Len(rounds') /\ rounds'[r] = rounds[r]
      BY <1>3
    <3> QED BY <3>1, <3>2 DEF Accounted
  <2> QED BY <2>1, <2>2
<1>7. idx \in 1 .. idx
  BY DEF RInv, IInv, RunOK
<1> QED BY <1>3, <1>5, <1>6, <1>7

\* A repair after an event.
LEMMA EventRepairAccounts ==
  ASSUME RInv, HasCurrentEvent, ExecuteRepair(Added), idx' = idx + 1,
         UNCHANGED <<trace, finished>>, IInv'
  PROVE  RInv'
<1>1. /\ idx \in Nat /\ Added \in SUBSET Nodes
      /\ 1 .. (idx + 1) - 1 = (1 .. idx - 1) \cup {idx}
  BY EventFacts DEF RInv
<1>2. failed \subseteq Added /\ trace[idx] \subseteq Added
  BY DEF Added
<1>3. /\ rounds' \in Seq([after : Nat, nodes : SUBSET Nodes])
      /\ \A i \in 1 .. idx - 1 : \A n \in trace[i] : Accounted(i, n, failed', rounds')
      /\ \A n \in Added : Accounted(idx, n, failed', rounds')
  BY <1>1, <1>2, RoundAccounts
<1>4. ~ finished /\ finished \in BOOLEAN
  BY DEF RInv, OverAtEnd, RoundsOK
<1>5. \A i \in 1 .. (idx + 1) - 1 : \A n \in trace[i] : Accounted(i, n, failed', rounds')
  BY <1>1, <1>2, <1>3
<1>6. EveryFailureIsRepaired' /\ OverAtEnd'
  BY <1>4, <1>5 DEF EveryFailureIsRepaired, Accounted, OverAtEnd
<1> QED BY <1>3, <1>6 DEF RInv, RoundsOK

LEMMA InitRInv == Init => RInv
<1> SUFFICES ASSUME Init
             PROVE  RInv
  OBVIOUS
<1>1. IInv
  BY InitIInv
<1>2. RoundsOK
  <2>1. trace \in Traces /\ rounds = <<>> /\ finished = FALSE
    BY DEF Init
  <2>2. rounds \in Seq([after : Nat, nodes : SUBSET Nodes])
    BY <2>1
  <2> QED BY <2>1, <2>2 DEF RoundsOK
<1>3. 1 .. idx - 1 = {} /\ ~ finished
  BY DEF Init
<1>4. OverAtEnd /\ EveryFailureIsRepaired
  BY <1>3 DEF OverAtEnd, EveryFailureIsRepaired
<1> QED BY <1>1, <1>2, <1>4 DEF RInv

\* Nodes that wait are failed, those of the event among them.
LEMMA EventDeferredRInv == RInv /\ EventDeferred => RInv'
<1> SUFFICES ASSUME RInv, EventDeferred
             PROVE  RInv'
  OBVIOUS
<1>1. IInv' /\ HasCurrentEvent
  BY EventDeferredIInv DEF RInv, EventDeferred
<1>2. /\ failed' = failed \cup trace[idx] /\ idx' = idx + 1
      /\ UNCHANGED <<trace, rounds, finished>>
  BY DEF EventDeferred, Added
<1>3. 1 .. (idx + 1) - 1 = (1 .. idx - 1) \cup {idx}
  BY <1>1, EventFacts DEF RInv
<1>4. \A i \in 1 .. idx - 1 : \A n \in trace[i] : Accounted(i, n, failed', rounds')
  BY <1>2 DEF RInv, EveryFailureIsRepaired, Accounted
<1>5. \A n \in trace[idx] : Accounted(idx, n, failed', rounds')
  BY <1>2 DEF Accounted
<1>6. ~ finished
  BY <1>1 DEF RInv, OverAtEnd
<1>7. EveryFailureIsRepaired' /\ OverAtEnd'
  BY <1>2, <1>3, <1>4, <1>5, <1>6 DEF EveryFailureIsRepaired, Accounted, OverAtEnd
<1> QED BY <1>1, <1>2, <1>7 DEF RInv, RoundsOK

\* The last round takes what is left.
LEMMA FinalRepairRInv == RInv /\ FinalRepair => RInv'
<1> SUFFICES ASSUME RInv, FinalRepair
             PROVE  RInv'
  OBVIOUS
<1>1. /\ IInv' /\ ~ HasCurrentEvent /\ finished' = TRUE /\ failed' = {}
      /\ UNCHANGED <<trace, idx>>
  BY FinalRepairIInv DEF RInv, FinalRepair, ExecuteRepair
<1>2. /\ rounds' \in Seq([after : Nat, nodes : SUBSET Nodes])
      /\ \A i \in 1 .. idx - 1 : \A n \in trace[i] : Accounted(i, n, failed', rounds')
  <2>1. CASE failed # {}
    <3>1. ExecuteRepair(failed) /\ failed \in SUBSET Nodes
      BY <2>1 DEF FinalRepair, RInv, IInv, RunOK
    <3> QED BY <3>1, RoundAccounts
  <2>2. CASE failed = {}
    BY <2>2 DEF FinalRepair, RInv, RoundsOK, EveryFailureIsRepaired, Accounted
  <2> QED BY <2>1, <2>2
<1>3. EveryFailureIsRepaired' /\ OverAtEnd'
  BY <1>1, <1>2 DEF EveryFailureIsRepaired, Accounted, OverAtEnd, HasCurrentEvent
<1> QED BY <1>1, <1>2, <1>3 DEF RInv, RoundsOK

LEMMA NextRInv == RInv /\ [Next]_vars => RInv'
<1> SUFFICES ASSUME RInv, [Next]_vars
             PROVE  RInv'
  OBVIOUS
<1>0. IInv'
  BY NextIInv DEF RInv
<1>1. CASE EventWithLoss
  BY <1>0, <1>1, EventRepairAccounts DEF EventWithLoss
<1>2. CASE EventRepaired
  BY <1>0, <1>2, EventRepairAccounts DEF EventRepaired
<1>3. CASE EventDeferred
  BY <1>3, EventDeferredRInv
<1>4. CASE FinalRepair
  BY <1>4, FinalRepairRInv
<1>5. CASE UNCHANGED vars
  BY <1>0, <1>5 DEF vars, RInv, RoundsOK, OverAtEnd, EveryFailureIsRepaired,
                    HasCurrentEvent
<1> QED BY <1>1, <1>2, <1>3, <1>4, <1>5 DEF Next

\* The state of the scheduler and the simulator is well formed.
THEOREM TypeCorrect == Spec => []TypeOK
<1>1. RInv => TypeOK
  BY DEF RInv, RoundsOK, IInv, RunOK, TypeOK
<1> QED BY <1>1, InitRInv, NextRInv, PTL DEF Spec

\* addFailures, executeRepair and the final repair together account for every node
\* that failed: it is repaired in a round after its event, or still marked.
THEOREM NothingForgotten == Spec => []EveryFailureIsRepaired
<1>1. RInv => EveryFailureIsRepaired
  BY DEF RInv
<1> QED BY <1>1, InitRInv, NextRInv, PTL DEF Spec
=============================================================================
