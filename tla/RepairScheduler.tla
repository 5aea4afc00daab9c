---------------------------- MODULE RepairScheduler ----------------------------
(***************************************************************************)
(* When to repair: RepairScheduler and the loop of RepairSimulator that    *)
(* drives it with the events of a TraceReader.  Each event fails some      *)
(* nodes; the strategy then repairs all failed nodes now, or waits.        *)
(*                                                                         *)
(* The loads that a repair costs are left out.                             *)
(***************************************************************************)
EXTENDS Integers, Sequences, FiniteSets

CONSTANTS
  Nodes,
  Stripes,
  Placement,   \* Placement[s]: the nodes that hold the blocks of stripe s
  Tolerance,   \* RepairScheduler::_fault_tolerance, ecn - eck
  Traces       \* the traces to choose from: sequences of sets of nodes

ASSUME NodesAssumption == IsFiniteSet(Nodes)
ASSUME PlacementAssumption == Placement \in [Stripes -> SUBSET Nodes]
ASSUME ToleranceAssumption == Tolerance \in Nat
ASSUME TracesAssumption == Traces \subseteq Seq(SUBSET Nodes)

Strategies == {"immediate", "lazy", "traceDriven"}

VARIABLES
  strategy,
  trace,        \* TraceReader::_events
  idx,          \* TraceReader::_current_idx, from 1
  failed,       \* RepairScheduler::_current_failed_nodes
  rounds,       \* what executeRepair returned, with the event it came after
  losses,       \* the events at which recordDataLoss was called
  finished      \* the loop and the final repair are over

vars == <<strategy, trace, idx, failed, rounds, losses, finished>>

----------------------------------------------------------------------------
FailedIn(s, nodes) == Placement[s] \cap nodes

\* More blocks of a stripe are gone than the code can repair.
IsLoss(nodes) == \E s \in Stripes : Cardinality(FailedIn(s, nodes)) > Tolerance

Remaining(nodes) == Tolerance - Cardinality(nodes)

DecideImmediate(nodes) == Cardinality(nodes) > 0
DecideLazy(nodes) == Cardinality(nodes) >= Tolerance

\* Slip: the failures that are there already are not counted.
DecideTraceDriven_forgets(nodes, i) ==
  \/ Remaining(nodes) <= 0
  \/ i = Len(trace) /\ Cardinality(nodes) > 0
  \/ i < Len(trace) /\ Cardinality(trace[i + 1]) > Tolerance

\* Slip: off by one.
DecideTraceDriven_late(nodes, i) ==
  \/ Remaining(nodes) <= 0
  \/ i = Len(trace) /\ Cardinality(nodes) > 0
  \/ i < Len(trace) /\ Cardinality(trace[i + 1]) > Remaining(nodes) + 1

\* Event i is the current one; the next is peeked at.
DecideTraceDriven(nodes, i) ==
  \/ Remaining(nodes) <= 0
  \/ i = Len(trace) /\ Cardinality(nodes) > 0
  \/ i < Len(trace) /\ Cardinality(trace[i + 1]) > Remaining(nodes)

\* The decision is to repair immediately.
Decide(nodes, i) ==
  \/ strategy = "immediate" /\ DecideImmediate(nodes)
  \/ strategy = "lazy" /\ DecideLazy(nodes)
  \/ strategy = "traceDriven" /\ DecideTraceDriven(nodes, i)

ExecuteRepair(nodes) ==
  /\ rounds' = Append(rounds, [after |-> idx, nodes |-> nodes])
  /\ failed' = {}

----------------------------------------------------------------------------
Init ==
  /\ strategy \in Strategies
  /\ trace \in Traces
  /\ idx = 1
  /\ failed = {}
  /\ rounds = <<>>
  /\ losses = {}
  /\ finished = FALSE

\* The nodes that are failed once addFailures has taken the current event.
Added == failed \cup trace[idx]

HasCurrentEvent == idx <= Len(trace)

\* Data is lost: the event is recorded, and everything is repaired.
EventWithLoss ==
  /\ HasCurrentEvent
  /\ IsLoss(Added)
  /\ losses' = losses \cup {idx}
  /\ ExecuteRepair(Added)
  /\ idx' = idx + 1
  /\ UNCHANGED <<strategy, trace, finished>>

EventRepaired ==
  /\ HasCurrentEvent
  /\ ~ IsLoss(Added)
  /\ Decide(Added, idx)
  /\ ExecuteRepair(Added)
  /\ idx' = idx + 1
  /\ UNCHANGED <<strategy, trace, losses, finished>>

EventDeferred ==
  /\ HasCurrentEvent
  /\ ~ IsLoss(Added)
  /\ ~ Decide(Added, idx)
  /\ failed' = Added
  /\ idx' = idx + 1
  /\ UNCHANGED <<strategy, trace, rounds, losses, finished>>

\* Slip: what is still failed at the end of the trace is forgotten.
FinalRepair_skipped ==
  /\ ~ HasCurrentEvent
  /\ ~ finished
  /\ finished' = TRUE
  /\ failed' = {}
  /\ UNCHANGED <<strategy, trace, idx, rounds, losses>>

\* Slip: the reader is advanced once more.
FinalRepair_advances ==
  /\ ~ HasCurrentEvent
  /\ ~ finished
  /\ finished' = TRUE
  /\ IF failed # {} THEN ExecuteRepair(failed) ELSE UNCHANGED <<failed, rounds>>
  /\ idx' = idx + 1
  /\ UNCHANGED <<strategy, trace, losses>>

\* After the loop the nodes that are still failed are repaired.
FinalRepair ==
  /\ ~ HasCurrentEvent
  /\ ~ finished
  /\ finished' = TRUE
  /\ IF failed # {} THEN ExecuteRepair(failed) ELSE UNCHANGED <<failed, rounds>>
  /\ UNCHANGED <<strategy, trace, idx, losses>>

Next == EventWithLoss \/ EventRepaired \/ EventDeferred \/ FinalRepair

Spec == Init /\ [][Next]_vars

----------------------------------------------------------------------------
(* Properties *)

TypeOK ==
  /\ strategy \in Strategies
  /\ trace \in Traces
  /\ idx \in 1 .. Len(trace) + 1
  /\ failed \in SUBSET Nodes
  /\ rounds \in Seq([after : Nat, nodes : SUBSET Nodes])
  /\ losses \in SUBSET (1 .. idx - 1)
  /\ finished \in BOOLEAN

\* Failures are left to wait only while the code still tolerates them, and with
\* the trace-driven strategy only if the next event is tolerated on top of them.
WaitingIsTolerated ==
  failed # {} =>
    /\ strategy # "immediate"
    /\ strategy = "lazy" => Cardinality(failed) < Tolerance
    /\ strategy = "traceDriven" =>
         HasCurrentEvent /\ Cardinality(failed) + Cardinality(trace[idx]) <= Tolerance

\* Waiting with an eye on the next event costs no data: the immediate and the
\* trace-driven strategy lose data exactly at the events that alone destroy a
\* stripe, which no strategy survives.
LossIsUnavoidable ==
  strategy # "lazy" => losses = {i \in 1 .. idx - 1 : IsLoss(trace[i])}

\* No node that failed is forgotten: a repair round after its event has it, or
\* it is still marked as failed, which it is not at the end.
EveryFailureIsRepaired ==
  /\ \A i \in 1 .. idx - 1 : \A n \in trace[i] :
       \/ n \in failed
       \/ \E r \in 1 .. Len(rounds) : rounds[r].after >= i /\ n \in rounds[r].nodes
  /\ finished => failed = {}
=============================================================================
