---------------------------- MODULE TradeoffCurve ----------------------------
(***************************************************************************)
(* The programs that search the colorings of one repair DAG for those with *)
(* the best tradeoff of load and bandwidth: genMLP and NewgenMLP.  A       *)
(* solution gives every intermediate vertex a node.  From a random one     *)
(* they walk over recolorings of one vertex, and keep the solutions that   *)
(* no other one dominates on the tradeoff curve, a list by increasing      *)
(* load.                                                                   *)
(*                                                                         *)
(* genMLP never evaluates a solution twice and has two maps for a quick    *)
(* test; NewgenMLP has neither, but drops what is no better than the       *)
(* curve.  Each list is a sequence here; an assignment of a next pointer   *)
(* cuts out whatever was between.                                          *)
(***************************************************************************)
EXTENDS ECDag

CONSTANTS
  Groups,       \* the code and failed blocks given as arguments
  DagOf,        \* the DAG of genRepairECDAG, not refreshed
  EcnOf, EckOf, EcwOf,
  FailedOf,     \* failnodeids, in the order of the arguments
  StartsOf,     \* the solutions that may be drawn at random
  ProgramsOf,   \* which of "genMLP" and "NewgenMLP" are run
  MaxAttempts   \* bound: searches of one run of genMLP

VARIABLES
  group, program,
  pc,         \* "search", "expand", "select", "restart", "done"
  curve,      \* the points between head and tail
  expanded,   \* the solutions with _expanded, or _searched
  visited,    \* genMLP: the solutions that were evaluated
  load2bdwt, bdwt2load,
  pool,       \* NewgenMLP: unsearched
  origin,     \* the solution that is being expanded
  todo,       \* the recolorings <<i, c>> of it that are left
  fresh,      \* NewgenMLP: those that were not dropped
  attempts,   \* i of genSol
  answer      \* the point that genSol has chosen, if any

vars == <<group, program, pc, curve, expanded, visited, load2bdwt, bdwt2load,
          pool, origin, todo, fresh, attempts, answer>>

----------------------------------------------------------------------------
(* Solutions *)

\* No header is left without a color: the first ones get the failed nodes.
ASSUME HeadersAssumption ==
  \A g \in Groups : /\ DagOf[g].headers = DagOf[g].concats
                    /\ Cardinality(DagOf[g].concats) = Len(FailedOf[g])

\* What Join and Concact make: sub-packets are numbered, and a header, which has been
\* joined, is nobody's child.  The blocks that have failed are blocks of the code.
ASSUME DagsAssumption ==
  \A g \in Groups :
    /\ IsFiniteSet(DagOf[g].nodes) /\ DagOf[g].nodes \subseteq Nat
    /\ DagOf[g].headers \subseteq DagOf[g].nodes
    /\ DagOf[g].childs \in [DagOf[g].nodes -> Seq(DagOf[g].nodes)]
    /\ \A h \in DagOf[g].headers :
         /\ DagOf[g].childs[h] # <<>>
         /\ \A v \in DagOf[g].nodes : h \notin ChildsOf(DagOf[g], v)
    /\ EcnOf[g] \in Nat \ {0} /\ EcwOf[g] \in Nat \ {0}
    /\ FailedOf[g] \in Seq(0 .. EcnOf[g] - 1) /\ FailedOf[g] # <<>>
    /\ \A i, j \in DOMAIN FailedOf[g] : FailedOf[g][i] = FailedOf[g][j] => i = j

\* A function itself; TLC compares it everywhere, and so it computes each value once.
Tabulated(f) == CHOOSE g \in {f} : g = f

Headers == Tabulated([g \in Groups |-> Reverse(Ascending(DagOf[g].concats))])
Leaves ==
  Tabulated([g \in Groups |-> {v \in DagOf[g].nodes : DagOf[g].childs[v] = <<>>}])
Itm == Tabulated(
  [g \in Groups |-> Ascending(DagOf[g].nodes \ (DagOf[g].headers \cup Leaves[g]))])
RealLeaves == Tabulated(
  [g \in Groups |-> Cardinality({v \in Leaves[g] : v \div EcwOf[g] < EcnOf[g]})])
Parents == Tabulated(
  [g \in Groups |-> Tabulated([v \in DagOf[g].nodes |-> ParentsOf(DagOf[g], v)])])
Colors(g) == 0 .. EcnOf[g] - 1
Solutions(g) == [DOMAIN Itm[g] -> Colors(g)]

\* Random solutions are solutions; genSol searches at least once.
ASSUME SearchAssumption ==
  /\ \A g \in Groups : /\ StartsOf[g] \subseteq Solutions(g)
                       /\ ProgramsOf[g] \subseteq {"genMLP", "NewgenMLP"}
  /\ MaxAttempts \in Nat \ {0}

\* Block b is on node b, and virtual leaves on none.
Coloring(g, sol) ==
  LET at(seq, v) == CHOOSE i \in DOMAIN seq : seq[i] = v
  IN  [v \in DagOf[g].nodes |->
         IF v \in DagOf[g].headers THEN FailedOf[g][at(Headers[g], v)]
         ELSE IF v \notin Leaves[g] THEN sol[at(Itm[g], v)]
         ELSE IF v \div EcwOf[g] < EcnOf[g] THEN v \div EcwOf[g] ELSE -1]

\* The sub-packet of vertex v is sent once to every other node with a parent of v.
Flows(g, col) ==
  UNION {{<<v, col[v], c>> : c \in {col[p] : p \in Parents[g][v]} \ {col[v], -1}} :
           v \in {x \in DagOf[g].nodes : col[x] # -1}}

\* A solution with its load, the most that a node sends or receives, and its
\* bandwidth.
Evaluated(g, sol) ==
  LET flows == Flows(g, Tabulated(Coloring(g, sol)))
      counts == {Cardinality({f \in flows : f[side] = c}) :
                   c \in Colors(g), side \in {2, 3}}
  IN  [sol |-> sol, load |-> Max(counts), bdwt |-> Cardinality(flows)]

Points == Tabulated(
  [g \in Groups |-> Tabulated([sol \in Solutions(g) |-> Evaluated(g, sol)])])
Point(g, sol) == Points[g][sol]

Recolored(sol, i, c) == [sol EXCEPT ![i] = c]
Neighbors(g, sol) ==
  {Recolored(sol, i, c) : i \in DOMAIN sol, c \in Colors(g)} \ {sol}

Dominates(a, b) ==
  /\ a.load <= b.load /\ a.bdwt <= b.bdwt
  /\ a.load < b.load \/ a.bdwt < b.bdwt

NoWorse(a, b) == a.load <= b.load /\ a.bdwt <= b.bdwt

----------------------------------------------------------------------------
(* The list *)

\* A point is in the list once.
PlaceOf(list, p) == CHOOSE i \in DOMAIN list : list[i] = p
Before(list, p) == SubSeq(list, 1, PlaceOf(list, p) - 1)
Behind(list, p) == SubSeq(list, PlaceOf(list, p) + 1, Len(list))

\* The new point p in the place of q; if it has a place already, it only gets the
\* successor of q.
Replaced(list, p, q) ==
  IF p \in ToSet(list) THEN Before(list, p) \o <<p>> \o Behind(list, q)
  ELSE Before(list, q) \o <<p>> \o Behind(list, q)

InsertedBefore(list, p, q) ==
  IF p \in ToSet(list) THEN list
  ELSE Before(list, q) \o <<p>> \o SubSeq(list, PlaceOf(list, q), Len(list))

\* One turn of the walk of a new point p over the curve, at its point q.  The walk
\* ends once p is dropped.  NewgenMLP drops a point of the same load, genMLP only
\* the same solution.
Turn(walk, p, q) ==
  LET dropped == [walk EXCEPT !.end = TRUE]
      same == IF program = "genMLP" THEN q.sol = p.sol ELSE q.load = p.load
  IN  CASE walk.end -> walk
        [] ~ walk.end /\ Dominates(q, p) -> dropped
        [] ~ walk.end /\ Dominates(p, q) ->
             [list |-> Replaced(walk.list, p, q), gone |-> walk.gone \cup {q},
              end |-> FALSE]
        [] ~ walk.end /\ ~ Dominates(q, p) /\ ~ Dominates(p, q) ->
             IF same THEN dropped
             ELSE IF p.load < q.load
                  THEN [walk EXCEPT !.list = InsertedBefore(@, p, q)]
             ELSE IF Behind(walk.list, q) = <<>>
                  THEN [walk EXCEPT !.list = Append(@, p)]
             ELSE walk

\* updateTradeoffCurve, and the loop of genPareto over the curve.
Walk(p) ==
  LET walk[i \in 0 .. Len(curve)] ==
        IF i = 0 THEN [list |-> curve, gone |-> {}, end |-> FALSE]
        ELSE Turn(walk[i - 1], p, curve[i])
  IN  walk[Len(curve)]

\* Slip: the entries of points that are gone stay.
Mapped_kept(map, erased, key, value) ==
  [k \in DOMAIN map \cup {key} |-> IF k \in DOMAIN map THEN map[k] ELSE value]

\* A map after some entries are erased and one is inserted, if its key is free.
Mapped(map, erased, key, value) ==
  LET left == DOMAIN map \ erased
  IN  [k \in left \cup {key} |-> IF k \in left THEN map[k] ELSE value]

----------------------------------------------------------------------------
(* The searches *)

\* A search starts with a random solution.
StartAt(sol) ==
  LET p == Point(group', sol)
  IN  /\ curve' = <<p>>
      /\ expanded' = {} /\ visited' = {sol} /\ pool' = {sol}
      /\ load2bdwt' = [l \in {p.load} |-> p.bdwt]
      /\ bdwt2load' = [b \in {p.bdwt} |-> p.load]
      /\ origin' = sol /\ todo' = {} /\ fresh' = {}
      /\ pc' = "search"

Init ==
  /\ group \in Groups
  /\ program \in ProgramsOf[group]
  /\ \E sol \in StartsOf[group] :
       LET p == Point(group, sol)
       IN  /\ curve = <<p>>
           /\ expanded = {} /\ visited = {sol} /\ pool = {sol}
           /\ load2bdwt = [l \in {p.load} |-> p.bdwt]
           /\ bdwt2load = [b \in {p.bdwt} |-> p.load]
           /\ origin = sol /\ todo = {} /\ fresh = {}
  /\ pc = "search"
  /\ attempts = 0
  /\ answer = {}

\* Where the curve has a point that was not expanded.
Open == {i \in DOMAIN curve : curve[i].sol \notin expanded}

\* The solution to expand: the first one of the curve that was not expanded;
\* NewgenMLP would go on with any other one in the pool.
ToExpand ==
  IF Open # {} THEN {curve[Min(Open)].sol}
  ELSE IF program = "NewgenMLP" THEN pool ELSE {}

\* The recolorings of one vertex.
Recolorings(sol) == {x \in (DOMAIN sol) \X Colors(group) : x[2] # sol[x[1]]}

\* Slip: the solution is not marked.
Expand_unmarked ==
  /\ pc = "search"
  /\ program = "NewgenMLP" => pool # {}
  /\ \E sol \in ToExpand :
       /\ origin' = sol
       /\ pool' = pool \ {sol}
       /\ todo' = Recolorings(sol)
  /\ fresh' = {}
  /\ pc' = "expand"
  /\ UNCHANGED <<group, program, curve, expanded, visited, load2bdwt, bdwt2load,
                 attempts, answer>>

\* A solution is expanded once.
Expand ==
  /\ pc = "search"
  /\ program = "NewgenMLP" => pool # {}
  /\ \E sol \in ToExpand :
       /\ origin' = sol
       /\ expanded' = expanded \cup {sol}
       /\ pool' = pool \ {sol}
       /\ todo' = Recolorings(sol)
  /\ fresh' = {}
  /\ pc' = "expand"
  /\ UNCHANGED <<group, program, curve, visited, load2bdwt, bdwt2load,
                 attempts, answer>>

\* Slip: the comparisons are the wrong way round.
KnownWorse_reversed(p) ==
  IF p.load \in DOMAIN load2bdwt THEN load2bdwt[p.load] >= p.bdwt
  ELSE p.bdwt \in DOMAIN bdwt2load /\ bdwt2load[p.bdwt] >= p.load

\* The quick test with the two maps.
KnownWorse(p) ==
  IF p.load \in DOMAIN load2bdwt THEN load2bdwt[p.load] <= p.bdwt
  ELSE p.bdwt \in DOMAIN bdwt2load /\ bdwt2load[p.bdwt] <= p.load

\* genMLP compares the recolorings in order, those that are new.
ExpandNext ==
  /\ pc = "expand" /\ program = "genMLP"
  /\ \E x \in todo :
       /\ \A y \in todo : x[1] < y[1] \/ (x[1] = y[1] /\ x[2] <= y[2])
       /\ todo' = todo \ {x}
       /\ LET sol == Recolored(origin, x[1], x[2])
              p == Point(group, sol)
              walk == Walk(p)
          IN  IF sol \in visited
              THEN UNCHANGED <<visited, curve, load2bdwt, bdwt2load>>
              ELSE /\ visited' = visited \cup {sol}
                   /\ IF KnownWorse(p) \/ p \notin ToSet(walk.list)
                      THEN UNCHANGED <<curve, load2bdwt, bdwt2load>>
                      ELSE /\ curve' = walk.list
                           /\ load2bdwt' = Mapped(load2bdwt, {q.load : q \in walk.gone},
                                                  p.load, p.bdwt)
                           /\ bdwt2load' = Mapped(bdwt2load, {q.bdwt : q \in walk.gone},
                                                  p.bdwt, p.load)
  /\ UNCHANGED <<group, program, pc, expanded, pool, origin, fresh, attempts, answer>>

\* NewgenMLP compares them in the order of a hash table.
PruneNext ==
  /\ pc = "expand" /\ program = "NewgenMLP"
  /\ \E x \in todo :
       LET sol == Recolored(origin, x[1], x[2])
           walk == Walk(Point(group, sol))
           gone == {q.sol : q \in walk.gone}
       IN  /\ todo' = todo \ {x}
           /\ curve' = walk.list
           /\ pool' = pool \ gone
           /\ fresh' = (fresh \cup (IF walk.end THEN {} ELSE {sol})) \ gone
  /\ UNCHANGED <<group, program, pc, expanded, visited, load2bdwt, bdwt2load, origin,
                 attempts, answer>>

\* All recolorings were compared: NewgenMLP adds the rest to the pool.
EndExpand ==
  /\ pc = "expand" /\ todo = {}
  /\ pool' = IF program = "NewgenMLP" THEN pool \cup fresh ELSE pool
  /\ fresh' = {}
  /\ pc' = "search"
  /\ UNCHANGED <<group, program, curve, expanded, visited, load2bdwt, bdwt2load,
                 origin, todo, attempts, answer>>

EndSearch ==
  /\ pc = "search"
  /\ \/ program = "genMLP" /\ Open = {} /\ pc' = "select"
     \/ program = "NewgenMLP" /\ pool = {} /\ pc' = "done"
  /\ UNCHANGED <<group, program, curve, expanded, visited, load2bdwt, bdwt2load,
                 pool, origin, todo, fresh, attempts, answer>>

\* What genSol looks for: no more load than reading every leaf once, no less
\* bandwidth than that, and no more than that of an MDS code.
IsGood(p) ==
  LET conv == RealLeaves[group]
  IN  /\ p.load \in EcwOf[group] .. conv
      /\ p.bdwt \in conv .. Len(FailedOf[group]) * EckOf[group] * EcwOf[group]

\* The first good point, if it has less load than the one chosen before.
Chosen(good) ==
  IF good = {} THEN answer
  ELSE LET first == curve[Min(good)]
       IN  IF \E a \in answer : a.load <= first.load THEN answer ELSE {first}

\* genSol after a search: it stops after the second one, or a later one, that has
\* found a good point.
Select ==
  /\ pc = "select"
  /\ LET good == {i \in DOMAIN curve : IsGood(curve[i])}
     IN  /\ answer' = Chosen(good)
         /\ attempts' = attempts + 1
         /\ pc' = IF good # {} /\ attempts' > 1 THEN "done" ELSE "restart"
  /\ UNCHANGED <<group, program, curve, expanded, visited, load2bdwt, bdwt2load,
                 pool, origin, todo, fresh>>

Restart ==
  /\ pc = "restart" /\ attempts < MaxAttempts
  /\ UNCHANGED <<group, program, attempts, answer>>
  /\ \E sol \in StartsOf[group] : StartAt(sol)

Next == \/ Expand \/ ExpandNext \/ PruneNext \/ EndExpand \/ EndSearch
        \/ Select \/ Restart

Spec == Init /\ [][Next]_vars /\ WF_vars(Next)

----------------------------------------------------------------------------
(* Properties *)

Searching == pc \in {"search", "expand"}
Searched == pc \in {"select", "restart", "done"}

\* Solutions give the intermediate vertices nodes, and the points on the curve
\* have been evaluated (Solution, PRSolution).
TypeOK ==
  /\ group \in Groups /\ program \in ProgramsOf[group]
  /\ pc \in {"search", "expand", "select", "restart", "done"}
  /\ \A p \in ToSet(curve) : p = Point(group, p.sol)
  /\ \A S \in {expanded, visited, pool, fresh, {origin}} :
       \A sol \in S : sol \in Solutions(group)
  /\ \A x \in todo : x[1] \in DOMAIN origin /\ x[2] \in Colors(group)
  /\ \A map \in {load2bdwt, bdwt2load} : \A k \in DOMAIN map : map[k] \in Nat
  /\ attempts \in 0 .. MaxAttempts /\ Cardinality(answer) <= 1

\* The curve goes up in load and down in bandwidth without equal points: the walks
\* of updateTradeoffCurve and genPareto, which look at neighbors in the list only,
\* rely on it, and their cuts lose no point.
CurveIsSorted ==
  \A i, j \in DOMAIN curve :
    i < j => curve[i].load < curve[j].load /\ curve[i].bdwt > curve[j].bdwt

\* Whatever genMLP has evaluated is on the curve or no better than a point on it:
\* neither the quick test nor the visited map loses a better solution.
NothingBetterLost ==
  program = "genMLP" =>
    \A sol \in visited : \E q \in ToSet(curve) : NoWorse(q, Point(group, sol))

\* genMLP's two maps are the curve: entries of points that were removed are gone,
\* so that the quick test never refuses for a point that is no longer there.
MapsAreTheCurve ==
  program = "genMLP" =>
    /\ load2bdwt = [l \in {p.load : p \in ToSet(curve)} |->
                      (CHOOSE p \in ToSet(curve) : p.load = l).bdwt]
    /\ bdwt2load = [b \in {p.bdwt : p \in ToSet(curve)} |->
                      (CHOOSE p \in ToSet(curve) : p.bdwt = b).load]

\* NewgenMLP's pool has the points of the curve that were not searched, and no
\* other solution: what leaves the curve is not searched any more.
PoolIsOnCurve ==
  program = "NewgenMLP" /\ pc = "search" => pool = {curve[i].sol : i \in Open}

\* A finished search is a local optimum: no recoloring of one vertex of a solution
\* on the curve is better than the curve.
LocallyOptimal ==
  Searched =>
    \A p \in ToSet(curve) : \A sol \in Neighbors(group, p.sol) :
      \E q \in ToSet(curve) : NoWorse(q, Point(group, sol))

\* genSol keeps a good point with the least load of all good points on the curves
\* of its searches so far, though it takes only the first one of each.
AnswerIsLightest ==
  /\ \A a \in answer : IsGood(a)
  /\ program = "genMLP" /\ pc \in {"restart", "done"} =>
       \A p \in ToSet(curve) : IsGood(p) => \E a \in answer : a.load <= p.load

\* During a search the curve only gets better: a point leaves it for a better one,
\* so NewgenMLP, which has no visited map, does not go round in circles.
CurveOnlyImproves ==
  [][Searching => \A p \in ToSet(curve) :
                    p \in ToSet(curve') \/ \E q \in ToSet(curve') : Dominates(q, p)]_vars

\* Every search ends.
SearchEnds == Searching ~> Searched

\* The curve, and what each program keeps besides it, fit together.
CurveIsRight == TypeOK /\ CurveIsSorted /\ MapsAreTheCurve /\ PoolIsOnCurve

\* A search misses no solution that one step leads to.
NothingIsMissed == NothingBetterLost /\ LocallyOptimal

\* A search is never undone, and it ends.
SearchProgresses == CurveOnlyImproves /\ SearchEnds
=============================================================================
