---------------------------- MODULE ColoringLoad ----------------------------
(***************************************************************************)
(* How ParallelSolution colors the stripes of a batch: for every vertex of *)
(* a repair DAG, from the leaves up, it chooses the node that will compute *)
(* it, by the load that each choice would lead to.  The loads of a stripe  *)
(* are kept up to date by Stripe::changeColor, change by change.           *)
(*                                                                         *)
(* A load table counts for every node the sub-packets it sends and         *)
(* receives: table[<<"out", n>>] and table[<<"in", n>>].  A flow <<v, a, b>>*)
(* is the sub-packet of vertex v sent from node a to node b.               *)
(***************************************************************************)
EXTENDS RepairCodes

CONSTANTS
  Batches,       \* the sequences of stripes that may make up a batch
  LonelyBatches, \* sequences of stripes that a program colors each on its own
  RawStripes,    \* those of Multiple_Coloring, which does not refresh the DAG
  DagOf,         \* the refreshed repair DAG of a stripe
  ParentOrderOf, \* its vertices with children, in the order they were joined
  EcnOf,         \* blocks per stripe
  EcwOf,         \* sub-packets per block
  PlacementOf,   \* the node of each block
  FailedNodes,   \* fail_node_ids
  NumAgents,     \* _agents_num: the standby nodes follow
  ClusterSize,   \* _cluster_size, the standby nodes included
  Methods,       \* 0: the hyper coloring; 1: the better of it and the other one;
                 \* 2: what the programs do with one stripe
  Scenarios      \* "standby", "scatter"

Nodes == 0 .. ClusterSize - 1
Dirs == {"out", "in"}

ASSUME NodesAssumption ==
  /\ NumAgents \in Nat /\ ClusterSize \in Nat \ {0} /\ NumAgents <= ClusterSize
  /\ FailedNodes \subseteq 0 .. NumAgents - 1
ASSUME ChoiceAssumption ==
  /\ Methods \subseteq 0 .. 2
  /\ Scenarios \subseteq {"standby", "scatter"}

StripesOf == UNION {ToSet(b) : b \in Batches \cup LonelyBatches}
ASSUME BatchesAssumption == Batches \cup LonelyBatches \subseteq Seq(StripesOf)

\* What Join and Concact make: a DAG's childs are vertices, and no vertex is its own
\* child.  Every vertex that has children has been joined.
ASSUME DagsAssumption ==
  \A s \in StripesOf :
    /\ IsFiniteSet(DagOf[s].nodes)
    /\ DagOf[s].concats \subseteq DagOf[s].nodes \cap Int
    /\ DagOf[s].childs \in [DagOf[s].nodes -> Seq(DagOf[s].nodes)]
    /\ ParentOrderOf[s] \in Seq(DagOf[s].nodes)
    /\ \A v \in DagOf[s].nodes :
         /\ v \notin ChildsOf(DagOf[s], v)
         /\ IsLeaf(DagOf[s], v) \/ v \in ToSet(ParentOrderOf[s])

\* The nodes of the blocks that are read.
ReadNodes(s) ==
  {PlacementOf[s][v \div EcwOf[s]] :
     v \in {w \in DagOf[s].nodes : IsLeaf(DagOf[s], w) /\ w \div EcwOf[s] < EcnOf[s]}}

\* The nodes that have a block of the stripe.
HostsOf(s) == {PlacementOf[s][b] : b \in 0 .. EcnOf[s] - 1}

\* Blocks are on agents, and no block of a failed node is read.  Multiple_Coloring
\* also has stripes of which Decode reads a failed block.
ASSUME PlacementAssumption ==
  \A s \in StripesOf :
    /\ HostsOf(s) \cup ReadNodes(s) \subseteq 0 .. NumAgents - 1
    /\ s \in RawStripes \/ ReadNodes(s) \cap FailedNodes = {}

VARIABLES
  batch,     \* the stripes of the batch
  method,
  scenario,
  pos,       \* the stripe that is being colored
  round,     \* how: "hyper", "multi" (with method 1 the second time) or "local"
  pc,        \* "prepare" or "color"
  todo,      \* the vertices that the loop has not visited
  group,     \* the set of vertices that are about to get color chosen
  chosen,
  coloring,  \* Stripe::_coloring
  load,      \* Stripe::_in and _out
  table,     \* loadtable
  hyper,     \* coloring and load of the first coloring
  kept       \* coloring and load of the stripes before pos

vars == <<batch, method, scenario, pos, round, pc, todo, group, chosen,
          coloring, load, table, hyper, kept>>

----------------------------------------------------------------------------
(* Loads *)

\* The parents and children of each vertex of a stripe.
Parents ==
  [s \in StripesOf |-> [v \in DagOf[s].nodes |-> ParentsOf(DagOf[s], v)]]
Childs ==
  [s \in StripesOf |-> [v \in DagOf[s].nodes |-> ChildsOf(DagOf[s], v)]]

Zero == [k \in Dirs \X Nodes |-> 0]
Plus(t, u) == [k \in Dirs \X Nodes |-> t[k] + u[k]]

\* How many of the flows a node sends, or receives.
Count(flows, k) ==
  Cardinality({f \in flows : k[2] = IF k[1] = "out" THEN f[2] ELSE f[3]})
LoadOf(flows) == [k \in Dirs \X Nodes |-> Count(flows, k)]

\* The table t after some flows are counted no more, and others are.
Changed(t, gone, new) ==
  [k \in Dirs \X Nodes |-> t[k] - Count(gone, k) + Count(new, k)]

Reversed(flows) == {<<f[1], f[3], f[2]>> : f \in flows}

ColorsOf(col, vs) == {col[v] : v \in vs} \ {-1}

\* A vertex of color c is sent once to every other node that has a parent of it.
ParentFlows(s, col, v, c) ==
  IF c = -1 THEN {}
  ELSE {<<v, c, p>> : p \in ColorsOf(col, Parents[s][v]) \ {c}}

\* All flows of a coloring.
Traffic(s, col) == UNION {ParentFlows(s, col, v, col[v]) : v \in DagOf[s].nodes}

\* What node c receives of the children of v of which n parents have color c.
ChildFlows(s, col, v, c, n) ==
  {<<w, col[w], c>> :
     w \in {x \in Childs[s][v] :
              /\ col[x] \notin {-1, c}
              /\ Cardinality({p \in Parents[s][x] : col[p] = c}) = n}}

\* Slip: what the old color brought is added, what the new one brings removed.
ChangeColor_swapped(s, col, l, v, c) ==
  LET old == col[v]
      gone == IF old = -1 THEN {}
              ELSE ParentFlows(s, col, v, old) \cup ChildFlows(s, col, v, old, 1)
      new == ParentFlows(s, col, v, c) \cup ChildFlows(s, col, v, c, 0)
  IN  Changed(l, new, gone)

\* The loads l after Stripe::changeColor of v to c; evaluateChange computes the
\* same without changing the stripe.
ChangeColor(s, col, l, v, c) ==
  LET old == col[v]
      gone == IF old = -1 THEN {}
              ELSE ParentFlows(s, col, v, old) \cup ChildFlows(s, col, v, old, 1)
      new == ParentFlows(s, col, v, c) \cup ChildFlows(s, col, v, c, 0)
  IN  Changed(l, gone, new)

\* The first vertex of a group, in the order in which the parents of a vertex
\* were joined to it.
First(s, vs) ==
  LET order == ParentOrderOf[s]
  IN  order[CHOOSE i \in DOMAIN order :
              order[i] \in vs /\ \A j \in 1 .. i - 1 : order[j] \notin vs]

\* evaluateChange2 for a group of vertices: of the children only those of the
\* first one count, and with in and out exchanged if it has a color already.
EvaluateChange2(s, col, l, vs, c) ==
  LET first == First(s, vs)
      old == col[first]
      way(flows) == IF old = -1 THEN flows ELSE Reversed(flows)
      left == IF old = -1 THEN {} ELSE ChildFlows(s, col, first, old, 1)
  IN  Changed(l,
        UNION {ParentFlows(s, col, v, col[v]) : v \in vs} \cup way(left),
        UNION {ParentFlows(s, col, v, c) : v \in vs}
          \cup way(ChildFlows(s, col, first, c, 0)))

----------------------------------------------------------------------------
(* Choices *)

MaxLoad(t) == Max({t[k] : k \in Dirs \X Nodes})
Bandwidth(t) == MapThenSumSet(LAMBDA n : t[<<"in", n>>], Nodes)

\* evalTable1 and isBetter2.
State(t) == [load |-> MaxLoad(t), bdwt |-> Bandwidth(t)]
IsBetter(s, u) ==
  \/ s.load < u.load
  \/ s.load = u.load /\ s.bdwt < u.bdwt

\* The first of the candidates that none of the others is better than, or -1;
\* candidate i leads to states[i].
ChooseColor(candidates, states) ==
  IF candidates = <<>> THEN -1
  ELSE candidates[CHOOSE i \in DOMAIN candidates :
         \A j \in DOMAIN candidates :
           IF j < i THEN IsBetter(states[i], states[j])
           ELSE ~ IsBetter(states[j], states[i])]

\* isBetter3 for color c, which leads to the loads l, against color d, which
\* leads to m.  With equal loads the one that sends less is better, whatever the
\* bandwidth, seen with the loads of c.
IsBetter3(c, l, d, m) ==
  \/ IsBetter(State(l), State(m))
  \/ MaxLoad(l) = MaxLoad(m) /\ l[<<"out", c>>] < l[<<"out", d>>]

\* chooseColor1: the comparison is not transitive, so the order counts.
ChooseLocal(candidates, loads) ==
  LET best[i \in 0 .. Len(candidates)] ==
        IF i = 0 THEN -1
        ELSE LET c == candidates[i]
                 b == best[i - 1]
             IN  IF b = -1 \/ IsBetter3(c, loads[c], b, loads[b]) THEN c ELSE b
  IN  best[Len(candidates)]

----------------------------------------------------------------------------
(* One stripe *)

Stripe == batch[pos]
Dag == DagOf[Stripe]
Placement == PlacementOf[Stripe]

\* The pairs of vertices of which the first is on an earlier level.
Earlier ==
  [s \in StripesOf |->
     LET levels == Levels(DagOf[s])
     IN  UNION {levels[p[1]] \X levels[p[2]] :
                  p \in {q \in (DOMAIN levels) \X (DOMAIN levels) : q[1] < q[2]}}]

\* The concat vertices, in the order of Concact: by block.
Concats ==
  [i \in 1 .. Cardinality(Dag.concats) |->
     CHOOSE c \in Dag.concats : Cardinality({d \in Dag.concats : d >= c}) = i]

\* Slip: a node that was chosen for one block may be chosen for another.
RepairNodeChoices_again ==
  LET free == Nodes \ (FailedNodes \cup HostsOf(Stripe))
  IN  IF scenario = "standby"
      THEN {[i \in DOMAIN Concats |-> NumAgents + i - 1]}
      ELSE [DOMAIN Concats -> free]

\* Where the failed blocks go: the standby nodes in order, or any nodes that
\* have no block of the stripe and are not chosen yet.
RepairNodeChoices ==
  LET free == Nodes \ (FailedNodes \cup HostsOf(Stripe))
  IN  IF scenario = "standby"
      THEN {[i \in DOMAIN Concats |-> NumAgents + i - 1]}
      ELSE {f \in [DOMAIN Concats -> free] :
              \A i, j \in DOMAIN Concats : f[i] = f[j] => i = j}

\* genColoringForSingleFailure: the failed block goes to its node again, or to any
\* agent that is not read, even the failed one.
OneRepairNode ==
  IF scenario = "standby" THEN FailedNodes \cap HostsOf(Stripe)
  ELSE (0 .. NumAgents - 1) \ ReadNodes(Stripe)

\* Several blocks go to standby nodes as above, or to agents that have not failed
\* and are not read.
LocalRepairNodeChoices ==
  LET free == (0 .. NumAgents - 1) \ (FailedNodes \cup ReadNodes(Stripe))
  IN  IF Len(Concats) = 1 /\ Stripe \notin RawStripes
      THEN {<<n>> : n \in OneRepairNode}
      ELSE IF scenario = "standby"
      THEN {[i \in DOMAIN Concats |-> NumAgents + i - 1]}
      ELSE {f \in [DOMAIN Concats -> free] :
              \A i, j \in DOMAIN Concats : f[i] = f[j] => i = j}

\* The surviving nodes, then the repair nodes.
SurvivorsAndRepairNodes ==
  SelectSeq([i \in 1 .. EcnOf[Stripe] |-> Placement[i - 1]],
            LAMBDA n : n \notin FailedNodes)
    \o [i \in DOMAIN Concats |-> coloring[Concats[i]]]

\* getChildColors: each color once, in the order of the children.
ChildColors(v) ==
  LET cs == SelectSeq([i \in DOMAIN Dag.childs[v] |-> coloring[Dag.childs[v][i]]],
                      LAMBDA c : c # -1)
  IN  FoldLeft(LAMBDA seq, c : IF c \in ToSet(seq) THEN seq ELSE Append(seq, c),
               <<>>, cs)

\* The vertices that are colored with v: all parents of its first child.
Group(v) == Parents[Stripe][Dag.childs[v][1]]

----------------------------------------------------------------------------
(* Programs *)

\* How Multiple_Failure colors a stripe: locally if one block has failed, else with
\* an empty table.
RoundsAlone(s) ==
  IF Cardinality(DagOf[s].concats) = 1 THEN {"local"} ELSE {"hyper", "multi"}

\* Multiple_Coloring colors any failed blocks locally, and in scatter mode.
RoundsOf(s) == IF s \in RawStripes THEN {"local"} ELSE RoundsAlone(s)

\* How the stripe at position i is colored first.
Starts(i) == IF method = 2 /\ i <= Len(batch) THEN RoundsOf(batch[i]) ELSE {"hyper"}

----------------------------------------------------------------------------
Init ==
  /\ method \in Methods
  /\ batch \in IF method = 2 THEN LonelyBatches ELSE Batches
  /\ scenario \in IF ToSet(batch) \cap RawStripes = {} THEN Scenarios ELSE {"scatter"}
  /\ pos = 1
  /\ round \in Starts(1)
  /\ pc = "prepare"
  /\ todo = {}
  /\ group = {}
  /\ chosen = -1
  /\ coloring = <<>>
  /\ load = Zero
  /\ table = Zero
  /\ hyper = <<>>
  /\ kept = <<>>

\* prepare, genColoringForSingleFailure and genColoringForMultipleFailure: leaves and
\* concat vertices get their colors, the others none.
Prepare ==
  /\ pc = "prepare"
  /\ pos <= Len(batch)
  /\ \E nodes \in IF round = "local" THEN LocalRepairNodeChoices ELSE RepairNodeChoices :
       coloring' = ColoringFrom(Dag, EcnOf[Stripe], EcwOf[Stripe], Placement, nodes,
                                [v \in Inner(Dag) |-> -1])
  /\ load' = LoadOf(Traffic(Stripe, coloring'))
  /\ todo' = Inner(Dag)
  /\ pc' = "color"
  /\ UNCHANGED <<batch, method, scenario, pos, round, group, chosen, table, hyper,
                 kept>>

\* genTopoIdxs takes the vertices level by level; the order within a level is
\* that of an unordered_map.
Visit(v) ==
  /\ pc = "color"
  /\ group = {}
  /\ \A w \in todo : <<w, v>> \notin Earlier[Stripe]
  /\ todo' = todo \ {v}
  /\ UNCHANGED <<batch, method, scenario, pos, round, pc, coloring, load, table,
                 hyper, kept>>

\* The vertices vs get the candidate that leads to the best table; loads[c] are
\* the loads of the stripe with color c.
ChooseFor(vs, candidates, loads) ==
  \E states \in {[i \in DOMAIN candidates |->
                    State(Plus(table, loads[candidates[i]]))]} :
    LET c == ChooseColor(candidates, states)
    IN  IF c = -1 THEN UNCHANGED <<group, chosen>>
        ELSE group' = vs /\ chosen' = c

\* GloballyMLP_yh and chooseColor_fullnode: a vertex gets a color of a child.
ColorHyper(v) ==
  /\ round = "hyper"
  /\ Visit(v)
  /\ ChooseFor({v}, ChildColors(v),
            [c \in ToSet(ChildColors(v)) |-> ChangeColor(Stripe, coloring, load, v, c)])

\* GloballyMLPLevel and chooseColor2New: all parents of a vertex get one color.
MultiCandidates(v) ==
  IF \A w \in Childs[Stripe][v] : IsLeaf(Dag, w)
  THEN ChildColors(v) ELSE SurvivorsAndRepairNodes

ColorMulti(v) ==
  /\ round = "multi"
  /\ Visit(v)
  /\ IF coloring[v] # -1
     THEN UNCHANGED <<group, chosen>>
     ELSE ChooseFor(Group(v), MultiCandidates(v),
                 [c \in ToSet(MultiCandidates(v)) |->
                    EvaluateChange2(Stripe, coloring, load, Group(v), c)])

\* SingleMLP: a vertex gets a color of a child by the loads of the stripe.
ColorLocal(v) ==
  /\ round = "local"
  /\ Visit(v)
  /\ LET c == ChooseLocal(ChildColors(v),
                          [d \in ToSet(ChildColors(v)) |->
                             ChangeColor(Stripe, coloring, load, v, d)])
     IN  IF c = -1 THEN UNCHANGED <<group, chosen>>
         ELSE group' = {v} /\ chosen' = c

\* changeColor of one vertex of the group after the other.
Recolor ==
  /\ pc = "color"
  /\ group # {}
  /\ LET v == First(Stripe, group)
     IN  /\ load' = ChangeColor(Stripe, coloring, load, v, chosen)
         /\ coloring' = [coloring EXCEPT ![v] = chosen]
         /\ group' = group \ {v}
  /\ UNCHANGED <<batch, method, scenario, pos, round, pc, todo, chosen, table,
                 hyper, kept>>

Colored == [coloring |-> coloring, load |-> LoadOf(Traffic(Stripe, coloring))]

Keep(c) ==
  /\ kept' = Append(kept, c)
  /\ pos' = pos + 1
  /\ round' \in Starts(pos + 1)

\* A stripe alone: its loads are what the program reports, and no table is kept.
FinishAlone ==
  /\ pc = "color" /\ todo = {} /\ group = {} /\ method = 2
  /\ load' = Colored.load
  /\ Keep(Colored)
  /\ pc' = "prepare"
  /\ UNCHANGED <<batch, method, scenario, todo, group, chosen, coloring, table, hyper>>

\* Slip: the loads of a stripe are not added to the table.
FinishHyper_notAdded ==
  /\ pc = "color" /\ todo = {} /\ group = {} /\ round = "hyper" /\ method # 2
  /\ load' = Colored.load
  /\ pc' = "prepare"
  /\ IF method = 1
     THEN /\ hyper' = Colored
          /\ table' = Zero
          /\ round' = "multi"
          /\ UNCHANGED <<pos, kept>>
     ELSE /\ table' = table
          /\ Keep(Colored)
          /\ UNCHANGED hyper
  /\ UNCHANGED <<batch, method, scenario, todo, group, chosen, coloring>>

\* With method 1 the stripe is colored a second time, with an empty table.
FinishHyper ==
  /\ pc = "color" /\ todo = {} /\ group = {} /\ round = "hyper" /\ method # 2
  /\ load' = Colored.load
  /\ pc' = "prepare"
  /\ IF method = 1
     THEN /\ hyper' = Colored
          /\ table' = Zero
          /\ round' = "multi"
          /\ UNCHANGED <<pos, kept>>
     ELSE /\ table' = Plus(table, Colored.load)
          /\ Keep(Colored)
          /\ UNCHANGED hyper
  /\ UNCHANGED <<batch, method, scenario, todo, group, chosen, coloring>>

\* Slip: the loads of the second coloring are not evaluated again.
FinishMulti_trusted ==
  LET second == [coloring |-> coloring, load |-> load]
      better == IF MaxLoad(load) > MaxLoad(hyper.load) THEN hyper ELSE second
  IN  /\ pc = "color" /\ todo = {} /\ group = {} /\ round = "multi" /\ method = 1
      /\ table' = Plus(table, load)
      /\ Keep(better)
      /\ coloring' = better.coloring
      /\ load' = better.load
      /\ pc' = "prepare"
      /\ UNCHANGED <<batch, method, scenario, todo, group, chosen, hyper>>

\* genRepairBatchesForMultipleFailureNew: of the two colorings the second is
\* kept unless its load is higher.
FinishMulti ==
  LET better == IF MaxLoad(Colored.load) > MaxLoad(hyper.load) THEN hyper ELSE Colored
  IN  /\ pc = "color" /\ todo = {} /\ group = {} /\ round = "multi" /\ method = 1
      /\ table' = Plus(table, Colored.load)
      /\ Keep(better)
      /\ coloring' = better.coloring
      /\ load' = better.load
      /\ pc' = "prepare"
      /\ UNCHANGED <<batch, method, scenario, todo, group, chosen, hyper>>

Next ==
  \/ Prepare
  \/ \E v \in todo : ColorHyper(v) \/ ColorMulti(v) \/ ColorLocal(v)
  \/ Recolor
  \/ FinishHyper
  \/ FinishMulti
  \/ FinishAlone

Spec == Init /\ [][Next]_vars

----------------------------------------------------------------------------
(* Properties *)

\* The types of the state.  Loads are natural numbers, which changeColor
\* asserts.
TypeOK ==
  /\ pos \in 1 .. Len(batch) + 1
  /\ round \in {"hyper", "multi", "local"}
  /\ pc \in {"prepare", "color"}
  /\ load \in [Dirs \X Nodes -> Nat]
  /\ table \in [Dirs \X Nodes -> Nat]
  /\ pc = "color" => coloring \in [Dag.nodes -> Nodes \cup {-1}]
  /\ Len(kept) = pos - 1

\* The groups of siblings of a stripe.
GroupsOf(s) == {Parents[s][DagOf[s].childs[v][1]] : v \in Inner(DagOf[s])}

\* The concat vertices that belong to a group, and so get its color.
ConcatSiblings(s) == DagOf[s].concats \cap UNION GroupsOf(s)

\* Whether no vertex that has its color from the start belongs to a group, and no
\* vertex to two groups.
SiblingsApart ==
  [s \in StripesOf |->
     /\ ConcatSiblings(s) = {}
     /\ \A g, h \in GroupsOf(s) : g = h \/ g \cap h = {}]

\* After any number of changeColor the loads of a stripe are what
\* evaluateColoring would count from scratch, so every choice sees right loads:
\* always where each vertex is colored once, in groups where no vertex is
\* colored before or belongs to two groups.
LoadsAreExact ==
  pc = "color" /\ (round # "multi" \/ SiblingsApart[Stripe]) =>
    load = LoadOf(Traffic(Stripe, coloring))

\* The nodes that may not repair a block of the stripe.
Taken(s) ==
  IF method = 2 /\ RoundsOf(s) = {"local"} THEN ReadNodes(s)
  ELSE FailedNodes \cup HostsOf(s)

\* The concat vertices that keep their first color: all, but where chooseColor2New
\* colors groups those that belong to none.
StayingConcats(s) ==
  IF method = 0 \/ (method = 2 /\ RoundsOf(s) = {"local"})
  THEN DagOf[s].concats ELSE DagOf[s].concats \ ConcatSiblings(s)

EndsApart(s, col) ==
  /\ \A c, d \in StayingConcats(s) : col[c] = col[d] => c = d
  /\ \A c \in StayingConcats(s) : col[c] \notin Taken(s)

\* The failed blocks of a stripe are repaired on different nodes, which hold
\* no other block of it and have not failed.  Where a stripe is colored locally,
\* they only hold no block that is read for it.  The exception are the concat
\* vertices that chooseColor2New colors again with their siblings: nothing keeps
\* them from a node that has, or gets, another block of the stripe.
RepairedApart == \A i \in DOMAIN kept : EndsApart(batch[i], kept[i].coloring)

\* Of the two colorings of a stripe the one with the lower load is used, with
\* its own loads.
KeptIsLighter ==
  [][round = "multi" /\ method = 1 /\ kept' # kept =>
       LET k == Last(kept')
       IN  /\ k.load = LoadOf(Traffic(Stripe, k.coloring))
           /\ MaxLoad(k.load) <= MaxLoad(hyper.load)
           /\ MaxLoad(k.load) <= MaxLoad(LoadOf(Traffic(Stripe, coloring)))]_vars

\* The sum of the loads of the first n colorings.
TotalLoad(stripes, colorings, n) ==
  LET total[i \in 0 .. n] ==
        IF i = 0 THEN Zero
        ELSE Plus(total[i - 1], LoadOf(Traffic(stripes[i], colorings[i].coloring)))
  IN  total[n]

\* With method 0, whenever a stripe is colored the load table is the sum of the
\* loads of the stripes of the batch that were colored before.
TableIsGlobal ==
  method = 0 /\ pc = "color" => table = TotalLoad(batch, kept, pos - 1)

\* The loads that coloring is guided by are those of the colorings.
TablesAreExact == LoadsAreExact /\ TableIsGlobal
=============================================================================
