-------------------------- MODULE RepairSchedulerNew --------------------------
(***************************************************************************)
(* When to repair, and which nodes: RepairSchedulerNew with the loops of   *)
(* RepairSimulator_new.cc that drive it with the events of a TraceReader,  *)
(* and the noisy MLPredictor.  Unlike RepairScheduler it decides stripe by *)
(* stripe, may repair some of the failed nodes only, and leaves the nodes  *)
(* of a lost stripe to the ordinary decision.                              *)
(*                                                                         *)
(* Risks are fractions of integers; the floating-point rounding of the     *)
(* code is left out, and so are the amounts of load.                       *)
(***************************************************************************)
EXTENDS Integers, Sequences, FiniteSets, FiniteSetsExt, SequencesExt

CONSTANTS
  Nodes,
  Stripes,
  Placement,   \* Placement[s]: the nodes that hold the blocks of stripe s
  Tolerance,   \* ecn - eck
  Traces,      \* the traces to choose from: sequences of sequences of nodes
  Predictors   \* of MLPredictor: [misses: fnr > 0, alarms: fpr > 0]

ASSUME NodesAssumption == IsFiniteSet(Nodes)
ASSUME PlacementAssumption == Placement \in [Stripes -> SUBSET Nodes]
ASSUME ToleranceAssumption == Tolerance \in Nat \ {0}
ASSUME TracesAssumption == Traces \subseteq Seq(Seq(Nodes))
ASSUME PredictorsAssumption == Predictors \subseteq [misses : BOOLEAN, alarms : BOOLEAN]

Strategies == {"immediate", "lazy", "traceDriven", "riskAware",
               "differentiated", "combined", "ml"}

VARIABLES
  strategy,
  predictor,  \* the rates of MLPredictor
  trace,      \* TraceReader::_events
  idx,        \* TraceReader::_current_idx, from 1
  failed,     \* _current_failed
  rounds,     \* the repairs: after which event, which nodes, by which call,
              \* and the stripes whose load was recorded
  losses,     \* per event, the stripes that checkStripeDataLoss counts
  skips,      \* the events counted by skipped_repair_count
  finished

vars == <<strategy, predictor, trace, idx, failed, rounds, losses, skips, finished>>

----------------------------------------------------------------------------
(* Stripes *)

FailsIn(s, nodes) == Cardinality(Placement[s] \cap nodes)

\* checkStripeDataLoss
Lost(nodes) == {s \in Stripes : FailsIn(s, nodes) > Tolerance}

\* The events after the current one, as sets, at most k of them; none after the
\* last.
Windows(k) ==
  LET n == Min({k, Len(trace) - idx})
  IN  [i \in 1 .. n |-> ToSet(trace[idx + i])]

NextFails == IF idx < Len(trace) THEN ToSet(trace[idx + 1]) ELSE {}

NodesOf(stripes, nodes) == UNION {Placement[s] \cap nodes : s \in stripes}

\* decideLazy
LazyNodes(nodes) == NodesOf({s \in Stripes : FailsIn(s, nodes) >= Tolerance}, nodes)

\* Slip: off by one.
Dangerous_late(nodes, coming) ==
  {s \in Stripes : /\ FailsIn(s, nodes) > 0
                   /\ FailsIn(s, nodes) + FailsIn(s, coming) > Tolerance + 1}

\* decideTraceDrivenStripe
Dangerous(nodes, coming) ==
  {s \in Stripes : /\ FailsIn(s, nodes) > 0
                   /\ FailsIn(s, nodes) + FailsIn(s, coming) > Tolerance}

\* What MLPredictor::predictNextFailures may return: nodes that have failed
\* already are not predicted.
Predictions(nodes) ==
  {P \in SUBSET (Nodes \ nodes) :
     /\ predictor.misses \/ NextFails \ nodes \subseteq P
     /\ predictor.alarms \/ P \subseteq NextFails}

----------------------------------------------------------------------------
(* Risk: a fraction is a pair of a natural and a positive number *)

AtLeast(f, g) == f[1] * g[2] >= g[1] * f[2]
Sum2(f, g) == <<(f[1] * g[2]) + (g[1] * f[2]), f[2] * g[2]>>
MinOf(f, g) == IF AtLeast(f, g) THEN g ELSE f

\* adaptiveLookahead
Lookahead(cur) ==
  CASE 4 * cur >= 3 * Tolerance -> 5
    [] 4 * cur >= 2 * Tolerance /\ 4 * cur < 3 * Tolerance -> 3
    [] 4 * cur >= Tolerance /\ 4 * cur < 2 * Tolerance -> 2
    [] OTHER -> 1

\* computeFailureTrend: the mean of the last three events.
Trend ==
  LET n == Min({3, idx})
  IN  <<MapThenSumSet(LAMBDA i : Len(trace[i]), idx - n + 1 .. idx), n>>

\* 0.7 to the power of i - 1, times 10000.
Discount == <<10000, 7000, 4900, 3430, 2401>>

\* computeGlobalRisk
GlobalRisk(nodes) ==
  LET cur == Cardinality(nodes)
      ahead == Lookahead(cur)
      windows == Windows(ahead)
      cumulative(i) ==
        cur + MapThenSumSet(LAMBDA j : Len(trace[idx + j]), 1 .. i)
      risk == <<MapThenSumSet(LAMBDA i : Discount[i] * Min({cumulative(i), Tolerance}),
                              DOMAIN windows),
                Tolerance * MapThenSumSet(LAMBDA i : Discount[i], 1 .. ahead)>>
      trend == MinOf(<<2 * Trend[1], Trend[2] * (IF Tolerance > 2 THEN Tolerance ELSE 2)>>,
                     <<3, 10>>)
  IN  MinOf(Sum2(risk, trend), <<1, 1>>)

\* risk_threshold_partial, risk_threshold_full, stripe_risk_threshold.
Partial == <<1, 2>>
Full == <<4, 5>>
HighRisk(s, nodes) == 4 * FailsIn(s, nodes) >= 3 * Tolerance

----------------------------------------------------------------------------
(* Choosing nodes *)

\* The orders that computeNodePriorities may return: std::sort leaves nodes of
\* equal priority in any order.
Priorities(nodes, critical, high) ==
  LET score(n) == 10 * Cardinality({s \in critical : n \in Placement[s]})
                    + Cardinality({s \in high : n \in Placement[s]})
  IN  {q \in SetToSeqs(nodes) :
         \A i, j \in DOMAIN q : i < j => score(q[i]) >= score(q[j])}

\* How many nodes greedySelectNodes repairs for a critical stripe.
Need(s, nodes) == Max({FailsIn(s, nodes) - Tolerance + 1, 1})

\* A node is selected if it belongs to a stripe for which not enough nodes were
\* selected before it.
GreedySelect(order, nodes, critical) ==
  {order[i] : i \in {j \in DOMAIN order :
     \E s \in critical :
       /\ order[j] \in Placement[s]
       /\ Cardinality({k \in 1 .. j - 1 : order[k] \in Placement[s]}) < Need(s, nodes)}}

Selections(nodes, critical, high) ==
  {GreedySelect(q, nodes, critical) : q \in Priorities(nodes, critical, high)}

\* How often a node of s fails in the coming events.
Hits(s, windows) ==
  MapThenSumSet(LAMBDA i : FailsIn(s, windows[i]), DOMAIN windows)

\* Stripes that hold lost data, or will if the coming failures are not met.
Critical(nodes, windows, candidates) ==
  Lost(nodes) \cup {s \in candidates : FailsIn(s, nodes) + Hits(s, windows) > Tolerance}

----------------------------------------------------------------------------
(* Repairs *)

\* Slip: the load of a stripe counts whatever it has lost.
Charged_any(nodes) == {s \in Stripes : FailsIn(s, nodes) > 0}

\* The stripes whose repair load applyRepairCost records.
Charged(nodes) == {s \in Stripes : FailsIn(s, nodes) \in 1 .. Tolerance}

Round(nodes, partial) ==
  [after |-> idx, nodes |-> nodes, partial |-> partial, stripes |-> Charged(nodes)]

\* executeFullRepair and applyRepairCost.
ExecuteFull(nodes) ==
  /\ rounds' = Append(rounds, Round(nodes, FALSE))
  /\ failed' = <<>>

\* Slip: all failed nodes are forgotten, also those that are not repaired.
ExecutePartial_clears(all, nodes) ==
  /\ rounds' = IF nodes = {} THEN rounds ELSE Append(rounds, Round(nodes, TRUE))
  /\ failed' = <<>>

\* The failed nodes all but those in nodes, in their order.
Without(all, nodes) ==
  LET left[i \in 0 .. Len(all)] ==
        IF i = 0 THEN <<>>
        ELSE IF all[i] \in nodes THEN left[i - 1]
        ELSE Append(left[i - 1], all[i])
  IN  left[Len(all)]

\* executePartialRepair of some of the nodes all; counted only if it repairs any.
ExecutePartial(all, nodes) ==
  /\ rounds' = IF nodes = {} THEN rounds ELSE Append(rounds, Round(nodes, TRUE))
  /\ failed' = Without(all, nodes)

Wait(all) == failed' = all /\ UNCHANGED rounds

\* REPAIR_LAZY that is counted, and that is not.
Skip(all) == Wait(all) /\ skips' = skips \cup {idx}
Quiet(all) == Wait(all) /\ UNCHANGED skips

Immediate(all) ==
  IF all = <<>> THEN Quiet(all) ELSE ExecuteFull(ToSet(all)) /\ UNCHANGED skips

Lazy(all) == ExecutePartial(all, LazyNodes(ToSet(all))) /\ UNCHANGED skips

StripeDriven(all, coming) ==
  /\ ExecutePartial(all, NodesOf(Dangerous(ToSet(all), coming), ToSet(all)))
  /\ UNCHANGED skips

\* Of a partial repair the nodes that failed first are the half that is repaired.
RiskAware(all) ==
  LET risk == GlobalRisk(ToSet(all))
  IN  CASE all = <<>> -> Quiet(all)
        [] all # <<>> /\ AtLeast(risk, Full) ->
             ExecuteFull(ToSet(all)) /\ UNCHANGED skips
        [] all # <<>> /\ AtLeast(risk, Partial) /\ ~ AtLeast(risk, Full) ->
             /\ ExecutePartial(all, ToSet(SubSeq(all, 1, Max({1, Len(all) \div 2}))))
             /\ UNCHANGED skips
        [] OTHER -> Skip(all)

\* decideStripeDifferentiated: without a critical stripe no node is selected.
Differentiated(all) ==
  LET nodes == ToSet(all)
      high == {s \in Stripes : HighRisk(s, nodes)}
      critical == Critical(nodes, Windows(1), high)
  IN  IF all = <<>> THEN Quiet(all)
      ELSE IF critical = {} THEN Skip(all)
      ELSE \E select \in Selections(nodes, critical, high \ critical) :
             /\ IF select = nodes THEN ExecuteFull(nodes) ELSE ExecutePartial(all, select)
             /\ UNCHANGED skips

\* What decideCombined may choose to repair, {} for nothing: nothing while the
\* global risk is below half of the first threshold, whatever the stripes have lost;
\* all nodes if there is no critical stripe but much risk, or none is selected.
CombinedChoices(nodes) ==
  LET risk == GlobalRisk(nodes)
      windows == Windows(Lookahead(Cardinality(nodes)))
      hit == {s \in Stripes : FailsIn(s, nodes) > 0}
      must == Critical(nodes, windows, hit)
      high == {s \in hit : HighRisk(s, nodes)}
  IN  IF ~ AtLeast(risk, <<1, 4>>) THEN {{}}
      ELSE IF must = {} THEN {IF AtLeast(risk, Full) THEN nodes ELSE {}}
      ELSE {IF select = {} THEN nodes ELSE select : select \in Selections(nodes, must, high)}

Combined(all) ==
  LET nodes == ToSet(all)
  IN  IF all = <<>> THEN Quiet(all)
      ELSE \E select \in CombinedChoices(nodes) :
             IF select = {} THEN Skip(all)
             ELSE /\ IF select = nodes THEN ExecuteFull(nodes) ELSE ExecutePartial(all, select)
                  /\ UNCHANGED skips

----------------------------------------------------------------------------
Init ==
  /\ strategy \in Strategies
  /\ predictor \in IF strategy = "ml" THEN Predictors
                   ELSE {[misses |-> FALSE, alarms |-> FALSE]}
  /\ trace \in Traces
  /\ idx = 1
  /\ failed = <<>>
  /\ rounds = <<>>
  /\ losses = <<>>
  /\ skips = {}
  /\ finished = FALSE

HasCurrentEvent == idx <= Len(trace)

\* _current_failed after addFailures of the current event.
Added ==
  LET event == trace[idx]
      added[i \in 0 .. Len(event)] ==
        IF i = 0 THEN failed
        ELSE IF event[i] \in ToSet(added[i - 1]) THEN added[i - 1]
        ELSE Append(added[i - 1], event[i])
  IN  added[Len(event)]

\* An event: its failures are added, lost stripes recorded, and the strategy
\* decides.
Day ==
  /\ HasCurrentEvent
  /\ losses' = Append(losses, Lost(ToSet(Added)))
  /\ \/ strategy = "immediate" /\ Immediate(Added)
     \/ strategy = "lazy" /\ Lazy(Added)
     \/ strategy = "traceDriven" /\ StripeDriven(Added, NextFails)
     \/ strategy = "riskAware" /\ RiskAware(Added)
     \/ strategy = "differentiated" /\ Differentiated(Added)
     \/ strategy = "combined" /\ Combined(Added)
     \/ /\ strategy = "ml"
        /\ \E coming \in Predictions(ToSet(Added)) : StripeDriven(Added, coming)
  /\ idx' = idx + 1
  /\ UNCHANGED <<strategy, predictor, trace, finished>>

\* After the loop the nodes that are still failed are repaired.
FinalRepair ==
  /\ ~ HasCurrentEvent
  /\ ~ finished
  /\ finished' = TRUE
  /\ IF failed # <<>> THEN ExecuteFull(ToSet(failed)) ELSE Quiet(failed)
  /\ UNCHANGED <<strategy, predictor, trace, idx, losses, skips>>

Next == Day \/ FinalRepair

Spec == Init /\ [][Next]_vars

----------------------------------------------------------------------------
(* Properties *)

\* The types of the state; no node is in _current_failed twice.
TypeOK ==
  /\ strategy \in Strategies
  /\ predictor \in [misses : BOOLEAN, alarms : BOOLEAN]
  /\ trace \in Traces
  /\ idx \in 1 .. Len(trace) + 1
  /\ failed \in Seq(Nodes)
  /\ \A i, j \in DOMAIN failed : failed[i] = failed[j] => i = j
  /\ rounds \in Seq([after : Nat, nodes : SUBSET Nodes, partial : BOOLEAN,
                     stripes : SUBSET Stripes])
  /\ losses \in Seq(SUBSET Stripes)
  /\ Len(losses) = idx - 1
  /\ skips \in SUBSET (1 .. idx - 1)
  /\ finished \in BOOLEAN

\* After every event the stripes that wait are within what the strategy accepts:
\* below the tolerance, within it, or within it also after the next event.
WaitingIsTolerated ==
  idx > 1 =>
    \A s \in Stripes :
      LET fails == FailsIn(s, ToSet(failed))
      IN  /\ strategy = "immediate" => fails = 0
          /\ strategy = "lazy" => fails < Tolerance
          /\ strategy = "differentiated" => fails <= Tolerance
          /\ strategy = "traceDriven" /\ HasCurrentEvent =>
               fails = 0 \/ fails + FailsIn(s, ToSet(trace[idx])) <= Tolerance

\* A strategy that knows the next event, by the trace or by a predictor that
\* misses nothing, loses a stripe only where that event alone destroys it, though
\* it repairs only some of the failed nodes and keeps those of lost stripes.
LossIsUnavoidable ==
  strategy \in {"immediate", "traceDriven"} \/ (strategy = "ml" /\ ~ predictor.misses) =>
    losses = [i \in 1 .. idx - 1 |-> Lost(ToSet(trace[i]))]

\* Each failure ends in one round: after its event a round has repaired the node,
\* unless it still waits; it does not wait at the end; and a node is in two rounds
\* only if it failed again between them.
EveryFailureIsRepaired ==
  /\ \A i \in 1 .. idx - 1 : \A n \in ToSet(trace[i]) :
       \/ n \in ToSet(failed)
       \/ \E r \in DOMAIN rounds : rounds[r].after >= i /\ n \in rounds[r].nodes
  /\ finished => failed = <<>>
  /\ \A q, r \in DOMAIN rounds : \A n \in rounds[q].nodes \cap rounds[r].nodes :
       q < r => \E i \in rounds[q].after + 1 .. rounds[r].after :
                  i <= Len(trace) /\ n \in ToSet(trace[i])

\* executeFullRepair counts a round unconditionally; no caller runs it in vain.
NoEmptyRound == \A r \in DOMAIN rounds : rounds[r].nodes # {}

\* The strategies under which applyRepairCost can meet a lost stripe with some of
\* its failed nodes repaired and others not.
SplitStripes == {"riskAware", "differentiated", "combined"}

\* applyRepairCost judges a stripe by the nodes of the round alone.  So a stripe
\* that is lost at the event of the round is charged under these three strategies,
\* but only in a partial repair and while other failed nodes of it still wait; it is
\* charged in no full repair, and never under the four other strategies.  (The final
\* repair is outside: it comes after the events, and counts no loss.)
LostIsChargedInPart ==
  \A r \in DOMAIN rounds :
    rounds[r].after <= Len(trace) =>
      \A s \in rounds[r].stripes \cap losses[rounds[r].after] :
        /\ strategy \in SplitStripes
        /\ rounds[r].partial
        /\ rounds[r].after = idx - 1 /\ ~ finished => FailsIn(s, ToSet(failed)) > 0

\* The rounds that are counted have nodes to repair, charge for a lost stripe only as
\* LostIsChargedInPart says, and what waits for a later one is within what the
\* strategy accepts.
RoundsAreSound == TypeOK /\ NoEmptyRound /\ LostIsChargedInPart /\ WaitingIsTolerated
=============================================================================
