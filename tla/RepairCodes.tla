----------------------------- MODULE RepairCodes -----------------------------
(***************************************************************************)
(* What the solutions give to Stripe::genRepairTasks: the colorings that   *)
(* CentSolution and ParallelSolution may choose.                           *)
(***************************************************************************)
EXTENDS ECDag

IsLeaf(dag, v) == dag.childs[v] = <<>>
Inner(dag) == {v \in dag.nodes \ dag.concats : ~ IsLeaf(dag, v)}

\* Leaves stay where their block is; virtual ones have no node.
LeafColor(v, ecn, ecw, placement) ==
  IF v \div ecw < ecn THEN placement[v \div ecw] ELSE -1

\* The repair node of a concat vertex: the i-th failed block gets the i-th.
ConcatColor(dag, v, repairNodes) ==
  repairNodes[Cardinality({c \in dag.concats : c >= v})]

ColoringFrom(dag, ecn, ecw, placement, repairNodes, inner) ==
  [v \in dag.nodes |->
     CASE v \in dag.concats -> ConcatColor(dag, v, repairNodes)
       [] v \in Inner(dag) -> inner[v]
       [] OTHER -> LeafColor(v, ecn, ecw, placement)]

\* CentSolution: the first repair node computes everything.
CentColoring(dag, ecn, ecw, placement, repairNodes) ==
  ColoringFrom(dag, ecn, ecw, placement, repairNodes,
               [v \in Inner(dag) |-> repairNodes[1]])

\* ParallelSolution gives all parents of a vertex's first child one color.
Siblings(dag, v) == ParentsOf(dag, dag.childs[v][1]) \cap Inner(dag)

\* It chooses among the surviving and the repair nodes, and for vertices that
\* have only leaves as children among the colors of those.
Candidates(dag, v, ecn, ecw, placement, repairNodes, failed) ==
  IF \A c \in ChildsOf(dag, v) : IsLeaf(dag, c)
  THEN {LeafColor(c, ecn, ecw, placement) : c \in ChildsOf(dag, v)} \ {-1}
  ELSE {placement[b] : b \in (0 .. ecn - 1) \ failed} \cup ToSet(repairNodes)

\* All colorings it may choose, for DAGs whose groups of siblings are disjoint.
ParallelColorings(dag, ecn, ecw, placement, repairNodes, failed) ==
  LET groups == {Siblings(dag, v) : v \in Inner(dag)}
      of(v) == CHOOSE g \in groups : v \in g
      all == {placement[b] : b \in (0 .. ecn - 1) \ failed} \cup ToSet(repairNodes)
      choices == {f \in [groups -> all] :
                    \A g \in groups :
                      f[g] \in Candidates(dag, CHOOSE v \in g : TRUE, ecn, ecw,
                                          placement, repairNodes, failed)}
  IN  {ColoringFrom(dag, ecn, ecw, placement, repairNodes,
                    [v \in Inner(dag) |-> f[of(v)]]) : f \in choices}

\* The other coloring gives every vertex the color of one of its children, in
\* topological order; a vertex of which all are virtual has none.
HyperColorings(dag, ecn, ecw, placement, repairNodes) ==
  LET none == ColoringFrom(dag, ecn, ecw, placement, repairNodes,
                           [v \in Inner(dag) |-> -1])
      colors(col, v) == {col[c] : c \in ChildsOf(dag, v)} \ {-1}
      choices(col, v) == IF colors(col, v) = {} THEN {-1} ELSE colors(col, v)
      colored(cols, v) == UNION {{[col EXCEPT ![v] = c] : c \in choices(col, v)} :
                                   col \in cols}
      levels == Levels(dag)
  IN  FoldLeft(LAMBDA cols, l : FoldSet(LAMBDA v, cs : colored(cs, v), cols,
                                        levels[l] \cap Inner(dag)),
               {none}, [i \in 1 .. Cardinality(DOMAIN levels) |-> i - 1])
=============================================================================
