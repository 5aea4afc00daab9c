-------------------------------- MODULE ECDag --------------------------------
(***************************************************************************)
(* The repair DAG of a stripe, as a code's Decode builds it with           *)
(* ECDAG::Join and Stripe::genRepairECDAG completes it with                *)
(* ECDAG::Concact, and its levels.                                         *)
(*                                                                         *)
(* A vertex is a sub-packet: vertex v with v \div ecw < ecn is sub-packet  *)
(* v % ecw of block v \div ecw; larger numbers are virtual or intermediate *)
(* sub-packets; Requestor - b collects the repaired sub-packets of block b.*)
(***************************************************************************)
EXTENDS Integers, Sequences, FiniteSets, SequencesExt, TLC

Requestor == 32767

\* A call of Join: the value of parent is the sum of its childs' values, each
\* times its coefficient.
JoinOf(parent, childs, coefs) ==
  [parent |-> parent, childs |-> childs, coefs |-> coefs]

\* The DAG of a sequence of Joins: its vertices (_ecNodeMap), the childs and
\* coefficients of each, and the vertices that are nobody's child (_ecHeaders).
\* Children that are new become leaves, and no child is a header any more.  Only
\* a parent that is new, and no child of its own, gets its childs recorded.
JoinAll(joins) ==
  LET vertices(i) == {joins[i].parent} \cup ToSet(joins[i].childs)
      recorded == {i \in DOMAIN joins :
                     /\ joins[i].parent \notin ToSet(joins[i].childs)
                     /\ \A j \in 1 .. i - 1 : joins[i].parent \notin vertices(j)}
      parents == {joins[i].parent : i \in recorded}
      nodes == UNION {vertices(i) : i \in DOMAIN joins}
      joinOf == [v \in nodes |->
                   IF v \in parents
                   THEN joins[CHOOSE i \in recorded : joins[i].parent = v]
                   ELSE JoinOf(v, <<>>, <<>>)]
  IN  [nodes |-> nodes,
       childs |-> [v \in nodes |-> joinOf[v].childs],
       coefs |-> [v \in nodes |-> joinOf[v].coefs],
       headers |-> {v \in parents : \A i \in DOMAIN joins : v \notin ToSet(joins[i].childs)},
       concats |-> {}]

\* A finite set of integers as an increasing sequence.
Ascending(S) ==
  [i \in 1 .. Cardinality(S) |->
     CHOOSE x \in S : Cardinality({y \in S : y < x}) = i - 1]

\* A finite set as a sequence, in an order that does not matter.
Listed(S) ==
  LET list[i \in 0 .. Cardinality(S)] ==
        IF i = 0 THEN <<>>
        ELSE LET before == list[i - 1]
             IN  Append(before, CHOOSE x \in S \ ToSet(before) : TRUE)
  IN  list[Cardinality(S)]

\* The sub-packets of block b.
SubPackets(b, ecw) == [o \in 1 .. ecw |-> b * ecw + o - 1]

\* One concat vertex per failed block, in block order; each gets a coefficient for
\* every lost sub-packet of the stripe, not only for its own.
ConcatJoins(failed, ecw) ==
  LET coefs == [i \in 1 .. Cardinality(failed) * ecw |-> -1]
  IN  [i \in 1 .. Cardinality(failed) |->
         LET b == Ascending(failed)[i] IN JoinOf(Requestor - b, SubPackets(b, ecw), coefs)]
Concact(joins, failed, ecw) ==
  [JoinAll(joins \o ConcatJoins(failed, ecw)) EXCEPT
     !.concats = {Requestor - b : b \in failed}]

\* Stripe::refreshECDAG: headers that are no concat vertex are removed.
Refresh(dag) ==
  LET live == dag.nodes \ (dag.headers \ dag.concats)
  IN  [nodes |-> live,
       childs |-> [v \in live |-> dag.childs[v]],
       coefs |-> [v \in live |-> dag.coefs[v]],
       headers |-> dag.headers \cap dag.concats,
       concats |-> dag.concats]

ChildsOf(dag, v) == ToSet(dag.childs[v])
ParentsOf(dag, v) == {p \in dag.nodes : v \in ChildsOf(dag, p)}

\* A round of genLeveledTopologicalSorting takes the vertices whose children are
\* all gone, and leaves those with a child among them.
Left(dag, vs) == {v \in vs : \E c \in ChildsOf(dag, v) : c \in vs}

\* The vertices left after l rounds.
Remaining(dag) ==
  LET left[l \in 0 .. Cardinality(dag.nodes)] ==
        IF l = 0 THEN dag.nodes ELSE Left(dag, left[l - 1])
  IN  left

NumLevels(dag) ==
  CHOOSE l \in 0 .. Cardinality(dag.nodes) :
    /\ Remaining(dag)[l] = {}
    /\ \A m \in 0 .. l - 1 : Remaining(dag)[m] # {}

Levels(dag) ==
  LET left == Remaining(dag)
  IN  [l \in 0 .. NumLevels(dag) - 1 |-> left[l] \ left[l + 1]]
=============================================================================
