------------------------ MODULE ColoringLoad_proofs ------------------------
(***************************************************************************)
(* Proofs about ColoringLoad, for any stripes, DAGs, placements and        *)
(* cluster: whatever order the vertices are colored in, the loads that     *)
(* changeColor counts up and down are those of the coloring, the table of  *)
(* a batch is the sum of its colorings, and the repaired blocks of a       *)
(* stripe end on different nodes that may take them.                       *)
(***************************************************************************)
EXTENDS ColoringLoad, FiniteSetTheorems, WellFoundedInduction, TLAPS

----------------------------------------------------------------------------
(* Induction over sets of naturals *)

\* A set of naturals that has 0, and k + 1 whenever it has k, has them all.
LEMMA SetInduction ==
  ASSUME NEW T \in SUBSET Nat, 0 \in T, \A k \in T : k + 1 \in T
  PROVE  T = Nat
<1> SUFFICES ASSUME T # Nat PROVE FALSE
  OBVIOUS
<1> DEFINE D == Nat \ T
           R == OpToRel(<, Nat)
<1>1. IsWellFoundedOn(R, Nat)
  BY NatLessThanWellFounded
<1>2. D \subseteq Nat /\ D # {}
  OBVIOUS
<1>3. PICK x \in D : \A y \in D : ~ (<<y, x>> \in R)
  <2> HIDE DEF D, R
  <2> QED BY <1>1, <1>2, WFMin
<1>4. <<x - 1, x>> \in R
  BY DEF OpToRel
<1>5. x - 1 \in T
  <2>1. x \in Nat /\ x # 0
    OBVIOUS
  <2>2. x - 1 \in Nat
    BY <2>1
  <2> HIDE DEF R
  <2>3. x - 1 \notin D
    BY <1>3, <1>4
  <2> QED BY <2>2, <2>3
<1> QED BY <1>5

\* A set of naturals that is not empty has a least element.
LEMMA LeastElement ==
  ASSUME NEW D, D \subseteq Nat, D # {}
  PROVE  \E x \in D : \A y \in D : x <= y
<1> DEFINE R == OpToRel(<, Nat)
<1>1. IsWellFoundedOn(R, Nat)
  BY NatLessThanWellFounded
<1>2. PICK x \in D : \A y \in D : ~ (<<y, x>> \in R)
  <2> HIDE DEF R
  <2> QED BY <1>1, WFMin
<1>3. ASSUME NEW y \in D PROVE x <= y
  <2>1. x \in Nat /\ y \in Nat
    OBVIOUS
  <2>2. y < x => <<y, x>> \in R
    BY <2>1 DEF OpToRel
  <2> HIDE DEF R
  <2> QED BY <1>2, <2>1, <2>2
<1> QED BY <1>3

\* Natural numbers that are bounded have a greatest.
LEMMA GreatestElement ==
  ASSUME NEW S, S \subseteq Nat, NEW x \in S, NEW bound \in Nat,
         \A y \in S : y <= bound
  PROVE  \E g \in S : \A y \in S : g >= y
<1> DEFINE D == {d \in Nat : \E y \in S : y = bound - d}
<1>1. bound - x \in D
  OBVIOUS
<1>2. PICK d \in D : \A c \in D : d <= c
  <2>1. D \subseteq Nat /\ D # {}
    BY <1>1
  <2> HIDE DEF D
  <2> QED BY <2>1, LeastElement
<1>3. PICK g \in S : g = bound - d
  OBVIOUS
<1>4. ASSUME NEW y \in S PROVE g >= y
  <2>1. bound - y \in D
    OBVIOUS
  <2>2. d <= bound - y
    BY <2>1, <1>2
  <2>3. d \in Nat /\ y \in Nat /\ g \in Nat
    OBVIOUS
  <2> HIDE DEF D
  <2> QED BY <2>2, <2>3, <1>3
<1> QED BY <1>4

----------------------------------------------------------------------------
USE NodesAssumption, ChoiceAssumption

Kinds == Dirs \X Nodes
NodesOf(s) == DagOf[s].nodes

----------------------------------------------------------------------------
(* DAGs *)

\* What a finite set is mapped to is finite.
LEMMA ImageIsFinite ==
  ASSUME NEW S, IsFiniteSet(S), NEW f
  PROVE  IsFiniteSet({f[x] : x \in S})
<1> DEFINE T == {f[x] : x \in S}
           g == [x \in S |-> f[x]]
<1>1. g \in Surjection(S, T)
  BY DEF Surjection
<1> HIDE DEF T, g
<1>2. IsFiniteSet(T)
  BY <1>1, FS_Surjection
<1> QED BY <1>2 DEF T

\* The childs and parents of a vertex are vertices, and never the vertex itself.
LEMMA Relatives ==
  ASSUME NEW s \in StripesOf, NEW v \in NodesOf(s)
  PROVE  /\ Childs[s][v] \subseteq NodesOf(s) \ {v}
         /\ Parents[s][v] \subseteq NodesOf(s) \ {v}
         /\ Parents[s][v] = {p \in NodesOf(s) : v \in Childs[s][p]}
         /\ IsFiniteSet(Parents[s][v])
<1>1. /\ Childs[s] = [x \in NodesOf(s) |-> ChildsOf(DagOf[s], x)]
      /\ Parents[s] = [x \in NodesOf(s) |-> ParentsOf(DagOf[s], x)]
  BY DEF Childs, Parents, NodesOf
<1>2. \A x \in NodesOf(s) : Childs[s][x] = ChildsOf(DagOf[s], x)
  BY <1>1
<1>3. Parents[s][v] = {p \in NodesOf(s) : v \in ChildsOf(DagOf[s], p)}
  BY <1>1 DEF ParentsOf, NodesOf
<1>4. /\ IsFiniteSet(NodesOf(s))
      /\ \A x \in NodesOf(s) : DagOf[s].childs[x] \in Seq(NodesOf(s))
      /\ \A x \in NodesOf(s) : x \notin ChildsOf(DagOf[s], x)
  BY DagsAssumption DEF NodesOf
<1>5. \A x \in NodesOf(s) : ChildsOf(DagOf[s], x) \subseteq NodesOf(s)
  BY <1>4 DEF ChildsOf, ToSet
<1>6. Parents[s][v] \in SUBSET NodesOf(s)
  BY <1>3
<1>7. IsFiniteSet(Parents[s][v])
  BY <1>4, <1>6, FS_Subset
<1> QED BY <1>2, <1>3, <1>4, <1>5, <1>7

----------------------------------------------------------------------------
(* Counting flows *)

\* A flow of a coloring, from a vertex to a parent of another color.
IsFlow(s, col, f, x, p) ==
  /\ x \in NodesOf(s) /\ p \in Parents[s][x]
  /\ col[x] # -1 /\ col[p] # -1 /\ col[p] # col[x]
  /\ f = <<x, col[x], col[p]>>

LEMMA ParentFlowsAre ==
  ASSUME NEW s, NEW col, NEW v, NEW c, NEW f
  PROVE  f \in ParentFlows(s, col, v, c) <=>
           /\ c # -1
           /\ \E p \in Parents[s][v] : /\ col[p] # -1 /\ col[p] # c
                                       /\ f = <<v, c, col[p]>>
<1>1. \A p : p \in ColorsOf(col, Parents[s][v]) \ {c} <=>
               \E q \in Parents[s][v] : p = col[q] /\ p # -1 /\ p # c
  BY DEF ColorsOf
<1>2. c # -1 => (f \in ParentFlows(s, col, v, c) <=>
                   \E p \in ColorsOf(col, Parents[s][v]) \ {c} : f = <<v, c, p>>)
  BY DEF ParentFlows
<1>3. c = -1 => ParentFlows(s, col, v, c) = {}
  BY DEF ParentFlows
<1> HIDE DEF ParentFlows
<1> QED BY <1>1, <1>2, <1>3

LEMMA TrafficIs ==
  ASSUME NEW s, NEW col, NEW f
  PROVE  f \in Traffic(s, col) <=> \E x, p : IsFlow(s, col, f, x, p)
<1>1. f \in Traffic(s, col) <=> \E x \in NodesOf(s) : f \in ParentFlows(s, col, x, col[x])
  BY DEF Traffic, NodesOf
<1>2. \A x : f \in ParentFlows(s, col, x, col[x]) <=>
               /\ col[x] # -1
               /\ \E p \in Parents[s][x] : /\ col[p] # -1 /\ col[p] # col[x]
                                           /\ f = <<x, col[x], col[p]>>
  BY ParentFlowsAre
<1> QED BY <1>1, <1>2 DEF IsFlow

LEMMA TrafficIsFinite ==
  ASSUME NEW s \in StripesOf, NEW col
  PROVE  IsFiniteSet(Traffic(s, col))
<1> DEFINE pairs == NodesOf(s) \X NodesOf(s)
           flow == [q \in pairs |-> <<q[1], col[q[1]], col[q[2]]>>]
           all == {flow[q] : q \in pairs}
<1>1. IsFiniteSet(pairs)
  <2>1. IsFiniteSet(NodesOf(s))
    BY DagsAssumption DEF NodesOf
  <2> QED BY <2>1, FS_Product
<1>2. IsFiniteSet(all)
  <2> HIDE DEF pairs, flow
  <2> QED BY <1>1, ImageIsFinite
<1>3. ASSUME NEW f \in Traffic(s, col) PROVE f \in all
  <2>1. PICK x, p : IsFlow(s, col, f, x, p)
    BY TrafficIs
  <2>2. <<x, p>> \in pairs
    BY <2>1, Relatives DEF IsFlow
  <2>3. f = flow[<<x, p>>]
    BY <2>1, <2>2 DEF IsFlow
  <2> QED BY <2>2, <2>3
<1>4. Traffic(s, col) \in SUBSET all
  BY <1>3
<1> QED
  <2> HIDE DEF all
  <2> QED BY <1>2, <1>4, FS_Subset

\* The flows that count for a kind of load.
Counted(flows, k) == {f \in flows : k[2] = IF k[1] = "out" THEN f[2] ELSE f[3]}

LEMMA CountType ==
  ASSUME NEW flows, IsFiniteSet(flows), NEW k
  PROVE  /\ Count(flows, k) \in Nat
         /\ Count(flows, k) <= Cardinality(flows)
         /\ IsFiniteSet(Counted(flows, k))
<1>1. Counted(flows, k) \in SUBSET flows
  BY DEF Counted
<1>2. /\ IsFiniteSet(Counted(flows, k))
      /\ Cardinality(Counted(flows, k)) <= Cardinality(flows)
  BY <1>1, FS_Subset
<1>3. Count(flows, k) = Cardinality(Counted(flows, k))
  BY DEF Count, Counted
<1> QED BY <1>2, <1>3, FS_CardinalityType

\* Replacing the flows gone, which were there, by the flows new, which were not.
LEMMA CountChanged ==
  ASSUME NEW old, IsFiniteSet(old), NEW gone, gone \subseteq old,
         NEW new, IsFiniteSet(new), new \cap old = {}, NEW k
  PROVE  Count((old \ gone) \cup new, k) = Count(old, k) - Count(gone, k) + Count(new, k)
<1> DEFINE O == Counted(old, k)
           G == Counted(gone, k)
           N == Counted(new, k)
           left == O \ G
<1>1. /\ IsFiniteSet(gone)
      /\ IsFiniteSet(O) /\ IsFiniteSet(G) /\ IsFiniteSet(N)
  <2>1. IsFiniteSet(gone)
    BY FS_Subset
  <2> QED BY <2>1, CountType
<1>2. Counted((old \ gone) \cup new, k) = left \cup N /\ left \cap N = {} /\ O \cap G = G
  BY DEF Counted
<1>3. /\ Count(old, k) = Cardinality(O) /\ Count(gone, k) = Cardinality(G)
      /\ Count(new, k) = Cardinality(N)
      /\ Count((old \ gone) \cup new, k) = Cardinality(left \cup N)
  BY <1>2 DEF Count, Counted
<1> HIDE DEF O, G, N
<1>4. IsFiniteSet(left) /\ Cardinality(left) = Cardinality(O) - Cardinality(G)
  BY <1>1, <1>2, FS_Difference
<1> HIDE DEF left
<1>5. Cardinality(left \cup N) = Cardinality(left) + Cardinality(N) - Cardinality(left \cap N)
  BY <1>1, <1>4, FS_Union
<1>6. Cardinality(left \cap N) = 0
  BY <1>2, FS_EmptySet
<1>7. /\ Cardinality(left) \in Nat /\ Cardinality(N) \in Nat
      /\ Cardinality(O) \in Nat /\ Cardinality(G) \in Nat
  BY <1>1, <1>4, FS_CardinalityType
<1> QED BY <1>3, <1>4, <1>5, <1>6, <1>7

----------------------------------------------------------------------------
(* Stripe::changeColor *)

\* What changeColor takes away and what it adds.
GoneBy(s, col, v) ==
  IF col[v] = -1 THEN {}
  ELSE ParentFlows(s, col, v, col[v]) \cup ChildFlows(s, col, v, col[v], 1)
NewBy(s, col, v, c) == ParentFlows(s, col, v, c) \cup ChildFlows(s, col, v, c, 0)

ParentsOfColor(s, col, w, c) == {p \in Parents[s][w] : col[p] = c}

LEMMA ChildFlowsAre ==
  ASSUME NEW s, NEW col, NEW v, NEW c, NEW n, NEW f
  PROVE  f \in ChildFlows(s, col, v, c, n) <=>
           \E w \in Childs[s][v] :
             /\ col[w] # -1 /\ col[w] # c /\ f = <<w, col[w], c>>
             /\ Cardinality(ParentsOfColor(s, col, w, c)) = n
BY DEF ChildFlows, ParentsOfColor

\* A child of v receives something new for c if no parent of it has color c, and
\* the color of v is lost for it if v is the only parent of that color.
LEMMA ParentsCounted ==
  ASSUME NEW s \in StripesOf, NEW col, NEW v \in NodesOf(s), NEW w \in Childs[s][v], NEW c
  PROVE  /\ w \in NodesOf(s) /\ v \in Parents[s][w]
         /\ Cardinality(ParentsOfColor(s, col, w, c)) = 0
              <=> \A p \in Parents[s][w] : col[p] # c
         /\ col[v] = c =>
              (Cardinality(ParentsOfColor(s, col, w, c)) = 1
                 <=> \A p \in Parents[s][w] : col[p] = c => p = v)
<1>1. w \in NodesOf(s) /\ v \in Parents[s][w] /\ IsFiniteSet(Parents[s][w])
  BY Relatives
<1> DEFINE P == {p \in Parents[s][w] : col[p] = c}
<1>2. IsFiniteSet(P)
  <2>1. P \in SUBSET Parents[s][w]
    OBVIOUS
  <2> HIDE DEF P
  <2> QED BY <1>1, <2>1, FS_Subset
<1>3. P = {} <=> \A p \in Parents[s][w] : col[p] # c
  OBVIOUS
<1>4. ASSUME col[v] = c
      PROVE  (\E x : P = {x}) <=> \A p \in Parents[s][w] : col[p] = c => p = v
  <2>1. v \in P
    BY <1>1, <1>4
  <2>2. ASSUME NEW x, P = {x} PROVE \A p \in Parents[s][w] : col[p] = c => p = v
    BY <2>1, <2>2
  <2>3. ASSUME \A p \in Parents[s][w] : col[p] = c => p = v PROVE P = {v}
    BY <2>1, <2>3
  <2> QED BY <2>2, <2>3
<1> HIDE DEF P
<1>5. Cardinality(P) = 0 <=> P = {}
  BY <1>2, FS_EmptySet
<1>6. Cardinality(P) = 1 <=> \E x : P = {x}
  BY <1>2, FS_Singleton
<1> QED BY <1>1, <1>3, <1>4, <1>5, <1>6 DEF P, ParentsOfColor

\* A change to another color takes away flows of the coloring, adds flows that it
\* had not, and what results are the flows of the new coloring.
LEMMA TrafficAfter ==
  ASSUME NEW s \in StripesOf, NEW col, col = [x \in NodesOf(s) |-> col[x]],
         NEW v \in NodesOf(s), NEW c, c # -1, c # col[v]
  PROVE  /\ GoneBy(s, col, v) \subseteq Traffic(s, col)
         /\ NewBy(s, col, v, c) \cap Traffic(s, col) = {}
         /\ Traffic(s, [col EXCEPT ![v] = c])
              = (Traffic(s, col) \ GoneBy(s, col, v)) \cup NewBy(s, col, v, c)
<1> DEFINE after == [col EXCEPT ![v] = c]
<1>1. after[v] = c /\ \A x \in NodesOf(s) : x # v => after[x] = col[x]
  OBVIOUS
<1> HIDE DEF after
<1>2. \A x \in NodesOf(s) : /\ Parents[s][x] \subseteq NodesOf(s)
                            /\ x \notin Parents[s][x]
                            /\ v \in Parents[s][x] => x \in Childs[s][v]
  BY Relatives
<1>3. \A w \in Childs[s][v] : w \in NodesOf(s) /\ w # v /\ v \in Parents[s][w]
  BY ParentsCounted, Relatives
<1>4. \A w \in Childs[s][v] :
        Cardinality(ParentsOfColor(s, col, w, c)) = 0
          <=> \A p \in Parents[s][w] : col[p] # c
  BY ParentsCounted
<1>5. \A w \in Childs[s][v] :
        Cardinality(ParentsOfColor(s, col, w, col[v])) = 1
          <=> \A p \in Parents[s][w] : col[p] = col[v] => p = v
  <2> TAKE w \in Childs[s][v]
  <2> DEFINE d == col[v]
  <2>1. col[v] = d
    OBVIOUS
  <2> HIDE DEF d
  <2>2. Cardinality(ParentsOfColor(s, col, w, d)) = 1
          <=> \A p \in Parents[s][w] : col[p] = d => p = v
    BY <2>1, ParentsCounted
  <2> QED BY <2>2 DEF d
<1>6. \A f : f \in GoneBy(s, col, v) <=>
        \/ \E p : p \in Parents[s][v] /\ IsFlow(s, col, f, v, p)
        \/ \E w \in Childs[s][v] :
             /\ IsFlow(s, col, f, w, v)
             /\ \A p \in Parents[s][w] : col[p] = col[v] => p = v
  <2> TAKE f
  <2>1. f \in GoneBy(s, col, v) <=>
          /\ col[v] # -1
          /\ \/ f \in ParentFlows(s, col, v, col[v])
             \/ f \in ChildFlows(s, col, v, col[v], 1)
    BY DEF GoneBy
  <2>2. col[v] # -1 => (f \in ParentFlows(s, col, v, col[v]) <=>
          \E p : p \in Parents[s][v] /\ IsFlow(s, col, f, v, p))
    BY ParentFlowsAre DEF IsFlow
  <2>3. col[v] # -1 => (f \in ChildFlows(s, col, v, col[v], 1) <=>
          \E w \in Childs[s][v] :
             /\ IsFlow(s, col, f, w, v)
             /\ \A p \in Parents[s][w] : col[p] = col[v] => p = v)
    <3>1. f \in ChildFlows(s, col, v, col[v], 1) <=>
           \E w \in Childs[s][v] :
             /\ col[w] # -1 /\ col[w] # col[v] /\ f = <<w, col[w], col[v]>>
             /\ Cardinality(ParentsOfColor(s, col, w, col[v])) = 1
      BY ChildFlowsAre
    <3>2. \A w \in Childs[s][v] : col[v] # -1 =>
            (IsFlow(s, col, f, w, v) <=>
               col[w] # -1 /\ col[w] # col[v] /\ f = <<w, col[w], col[v]>>)
      BY <1>3 DEF IsFlow
    <3> QED BY <1>5, <3>1, <3>2
  <2>4. \A x, p : IsFlow(s, col, f, x, p) => col[x] # -1 /\ col[p] # -1
    BY DEF IsFlow
  <2> QED BY <2>1, <2>2, <2>3, <2>4
<1>7. \A f : f \in NewBy(s, col, v, c) <=>
        \/ \E p : p \in Parents[s][v] /\ IsFlow(s, after, f, v, p)
        \/ \E w \in Childs[s][v] :
             /\ IsFlow(s, after, f, w, v)
             /\ \A p \in Parents[s][w] : col[p] # c
  <2> TAKE f
  <2>1. f \in NewBy(s, col, v, c) <=>
          \/ f \in ParentFlows(s, col, v, c)
          \/ f \in ChildFlows(s, col, v, c, 0)
    BY DEF NewBy
  <2>2. f \in ParentFlows(s, col, v, c) <=>
          \E p : p \in Parents[s][v] /\ IsFlow(s, after, f, v, p)
    <3>1. \A p \in Parents[s][v] : after[p] = col[p]
      BY <1>1, <1>2
    <3>2. f \in ParentFlows(s, col, v, c) <=>
            \E p \in Parents[s][v] : col[p] # -1 /\ col[p] # c /\ f = <<v, c, col[p]>>
      BY ParentFlowsAre
    <3>3. \A p \in Parents[s][v] : IsFlow(s, after, f, v, p) <=>
            col[p] # -1 /\ col[p] # c /\ f = <<v, c, col[p]>>
      BY <1>1, <3>1 DEF IsFlow
    <3> QED BY <3>2, <3>3
  <2>3. f \in ChildFlows(s, col, v, c, 0) <=>
          \E w \in Childs[s][v] :
             /\ IsFlow(s, after, f, w, v)
             /\ \A p \in Parents[s][w] : col[p] # c
    <3>1. \A w \in Childs[s][v] : after[w] = col[w]
      BY <1>1, <1>3
    <3>2. f \in ChildFlows(s, col, v, c, 0) <=>
           \E w \in Childs[s][v] :
             /\ col[w] # -1 /\ col[w] # c /\ f = <<w, col[w], c>>
             /\ Cardinality(ParentsOfColor(s, col, w, c)) = 0
      BY ChildFlowsAre
    <3>3. \A w \in Childs[s][v] : IsFlow(s, after, f, w, v) <=>
            col[w] # -1 /\ col[w] # c /\ f = <<w, col[w], c>>
      BY <1>1, <1>3, <3>1 DEF IsFlow
    <3> QED BY <1>4, <3>2, <3>3
  <2> QED BY <2>1, <2>2, <2>3
<1>8. GoneBy(s, col, v) \subseteq Traffic(s, col)
  BY <1>6, TrafficIs
<1>9. ASSUME NEW f \in NewBy(s, col, v, c), f \in Traffic(s, col) PROVE FALSE
  <2>1. PICK x, p : IsFlow(s, col, f, x, p)
    BY <1>9, TrafficIs
  <2>2. CASE \E q : q \in Parents[s][v] /\ IsFlow(s, after, f, v, q)
    BY <1>1, <2>1, <2>2 DEF IsFlow
  <2>3. CASE \E w \in Childs[s][v] :
               /\ IsFlow(s, after, f, w, v)
               /\ \A q \in Parents[s][w] : col[q] # c
    BY <1>1, <2>1, <2>3 DEF IsFlow
  <2> QED BY <1>7, <2>2, <2>3
<1>10. ASSUME NEW f \in Traffic(s, after)
      PROVE  f \in (Traffic(s, col) \ GoneBy(s, col, v)) \cup NewBy(s, col, v, c)
  <2>1. PICK x, p : IsFlow(s, after, f, x, p)
    BY TrafficIs
  <2>2. x \in NodesOf(s) /\ p \in NodesOf(s) /\ p \in Parents[s][x] /\ p # x
    BY <1>2, <2>1 DEF IsFlow
  <2>3. CASE x = v
    BY <1>7, <2>1, <2>2, <2>3
  <2>4. CASE x # v /\ p # v
    <3>1. IsFlow(s, col, f, x, p)
      BY <1>1, <2>1, <2>2, <2>4 DEF IsFlow
    <3>2. f \notin GoneBy(s, col, v)
      <4> SUFFICES ASSUME f \in GoneBy(s, col, v) PROVE FALSE
        OBVIOUS
      <4>1. ~ \E q : q \in Parents[s][v] /\ IsFlow(s, col, f, v, q)
        BY <2>4, <3>1 DEF IsFlow
      <4>2. PICK w \in Childs[s][v] :
              /\ IsFlow(s, col, f, w, v)
              /\ \A q \in Parents[s][w] : col[q] = col[v] => q = v
        BY <1>6, <4>1
      <4>3. w = x /\ col[p] = col[v]
        BY <3>1, <4>2 DEF IsFlow
      <4> QED BY <2>2, <2>4, <4>2, <4>3
    <3> QED BY <3>1, <3>2, TrafficIs
  <2>5. CASE x # v /\ p = v
    <3>1. x \in Childs[s][v] /\ after[x] = col[x]
      BY <1>1, <1>2, <2>2, <2>5
    <3>2. CASE \A q \in Parents[s][x] : col[q] # c
      BY <1>7, <2>1, <2>5, <3>1, <3>2
    <3>3. CASE \E q \in Parents[s][x] : col[q] = c
      <4>1. PICK q \in Parents[s][x] : col[q] = c
        BY <3>3
      <4>2. IsFlow(s, col, f, x, q)
        BY <1>1, <2>1, <2>2, <2>5, <3>1, <4>1 DEF IsFlow
      <4>3. f \notin GoneBy(s, col, v)
        BY <1>6, <2>5, <4>1, <4>2 DEF IsFlow
      <4> QED BY <4>2, <4>3, TrafficIs
    <3> QED BY <3>2, <3>3
  <2> QED BY <2>3, <2>4, <2>5
<1>11. ASSUME NEW f \in Traffic(s, col), f \notin GoneBy(s, col, v)
      PROVE  f \in Traffic(s, after)
  <2>1. PICK x, p : IsFlow(s, col, f, x, p)
    BY TrafficIs
  <2>2. x \in NodesOf(s) /\ p \in NodesOf(s) /\ p \in Parents[s][x] /\ p # x
    BY <1>2, <2>1 DEF IsFlow
  <2>3. x # v
    BY <1>6, <1>11, <2>1, <2>2
  <2>4. CASE p # v
    <3>1. IsFlow(s, after, f, x, p)
      BY <1>1, <2>1, <2>2, <2>3, <2>4 DEF IsFlow
    <3> QED BY <3>1, TrafficIs
  <2>5. CASE p = v
    <3>1. x \in Childs[s][v]
      BY <1>2, <2>2, <2>5
    <3>2. PICK q \in Parents[s][x] : col[q] = col[v] /\ q # v
      BY <1>6, <1>11, <2>1, <2>5, <3>1
    <3>3. IsFlow(s, after, f, x, q)
      BY <1>1, <1>2, <2>1, <2>2, <2>3, <2>5, <3>2 DEF IsFlow
    <3> QED BY <3>3, TrafficIs
  <2> QED BY <2>4, <2>5
<1>12. NewBy(s, col, v, c) \subseteq Traffic(s, after)
  BY <1>7, TrafficIs
<1>13. Traffic(s, after)
         = (Traffic(s, col) \ GoneBy(s, col, v)) \cup NewBy(s, col, v, c)
  BY <1>10, <1>11, <1>12
<1> QED BY <1>8, <1>9, <1>13 DEF after

\* Stripe::changeColor keeps exact loads exact whenever a vertex changes to a
\* color that it does not have.
THEOREM ChangeIsExact ==
  ASSUME NEW s \in StripesOf, NEW col, col = [x \in NodesOf(s) |-> col[x]],
         NEW v \in NodesOf(s), NEW c, c # -1, c # col[v]
  PROVE  ChangeColor(s, col, LoadOf(Traffic(s, col)), v, c)
           = LoadOf(Traffic(s, [col EXCEPT ![v] = c]))
<1> DEFINE old == Traffic(s, col)
           gone == GoneBy(s, col, v)
           new == NewBy(s, col, v, c)
           after == Traffic(s, [col EXCEPT ![v] = c])
<1>1. ChangeColor(s, col, LoadOf(old), v, c) = Changed(LoadOf(old), gone, new)
  BY DEF ChangeColor, GoneBy, NewBy
<1>2. gone \subseteq old /\ new \cap old = {} /\ after = (old \ gone) \cup new
  BY TrafficAfter
<1>3. IsFiniteSet(old) /\ IsFiniteSet(after)
  BY TrafficIsFinite
<1> HIDE DEF old, gone, new, after
<1>4. IsFiniteSet(new)
  <2>1. new \in SUBSET after
    BY <1>2
  <2> QED BY <1>3, <2>1, FS_Subset
<1>5. \A k \in Kinds : Count(after, k) = Count(old, k) - Count(gone, k) + Count(new, k)
  BY <1>2, <1>3, <1>4, CountChanged
<1>6. LoadOf(after) = [k \in Kinds |-> Count(after, k)]
  BY DEF LoadOf, Kinds
<1>7. Changed(LoadOf(old), gone, new)
        = [k \in Kinds |-> Count(old, k) - Count(gone, k) + Count(new, k)]
  BY DEF Changed, LoadOf, Kinds
<1> QED BY <1>1, <1>5, <1>6, <1>7 DEF old, after

----------------------------------------------------------------------------
(* Sums of loads *)

\* sum has the loads of the first colorings, up to each of them.
IsTotal(sum, stripes, colorings, n) ==
  sum = [i \in 0 .. n |->
           IF i = 0 THEN Zero
           ELSE Plus(sum[i - 1], LoadOf(Traffic(stripes[i], colorings[i].coloring)))]

LEMMA TotalExists ==
  ASSUME NEW stripes, NEW colorings, NEW n \in Nat
  PROVE  \E sum : IsTotal(sum, stripes, colorings, n)
<1> DEFINE T == {i \in Nat : \E sum : IsTotal(sum, stripes, colorings, i)}
           loadOf(i) == LoadOf(Traffic(stripes[i], colorings[i].coloring))
<1>1. 0 \in T
  <2>1. IsTotal([i \in 0 .. 0 |-> Zero], stripes, colorings, 0)
    BY DEF IsTotal
  <2> QED BY <2>1
<1>2. ASSUME NEW i \in T PROVE i + 1 \in T
  <2>1. PICK sum : IsTotal(sum, stripes, colorings, i)
    OBVIOUS
  <2> DEFINE last == Plus(sum[i], loadOf(i + 1))
             longer == [j \in 0 .. i + 1 |-> IF j = i + 1 THEN last ELSE sum[j]]
  <2>2. IsTotal(longer, stripes, colorings, i + 1)
    BY <2>1 DEF IsTotal
  <2> QED BY <2>2
<1>3. T = Nat
  <2> HIDE DEF T
  <2>1. T \in SUBSET Nat
    BY DEF T
  <2> QED BY <1>1, <1>2, <2>1, SetInduction
<1> QED BY <1>3

LEMMA TotalLoadIs ==
  ASSUME NEW stripes, NEW colorings, NEW n \in Nat
  PROVE  \E sum : IsTotal(sum, stripes, colorings, n)
                    /\ TotalLoad(stripes, colorings, n) = sum[n]
<1>1. \E sum : IsTotal(sum, stripes, colorings, n)
  BY TotalExists
<1> QED BY <1>1 DEF IsTotal, TotalLoad

LEMMA TotalOfNone ==
  ASSUME NEW stripes, NEW colorings
  PROVE  TotalLoad(stripes, colorings, 0) = Zero
<1>1. PICK sum : IsTotal(sum, stripes, colorings, 0)
                   /\ TotalLoad(stripes, colorings, 0) = sum[0]
  BY TotalLoadIs
<1> QED BY <1>1 DEF IsTotal

\* One more coloring adds its loads.
LEMMA TotalOfMore ==
  ASSUME NEW stripes, NEW colorings, NEW n \in Nat,
         NEW more, \A i \in 1 .. n : more[i] = colorings[i]
  PROVE  TotalLoad(stripes, more, n + 1)
           = Plus(TotalLoad(stripes, colorings, n),
                  LoadOf(Traffic(stripes[n + 1], more[n + 1].coloring)))
<1>1. PICK f : IsTotal(f, stripes, colorings, n) /\ TotalLoad(stripes, colorings, n) = f[n]
  BY TotalLoadIs
<1>2. PICK g : IsTotal(g, stripes, more, n + 1) /\ TotalLoad(stripes, more, n + 1) = g[n + 1]
  BY TotalLoadIs
<1> DEFINE T == {i \in Nat : i <= n => f[i] = g[i]}
<1>3. 0 \in T
  BY <1>1, <1>2 DEF IsTotal
<1>4. ASSUME NEW i \in T PROVE i + 1 \in T
  <2> SUFFICES ASSUME i + 1 <= n PROVE f[i + 1] = g[i + 1]
    OBVIOUS
  <2>1. f[i + 1] = Plus(f[i], LoadOf(Traffic(stripes[i + 1], colorings[i + 1].coloring)))
    BY <1>1 DEF IsTotal
  <2>2. g[i + 1] = Plus(g[i], LoadOf(Traffic(stripes[i + 1], more[i + 1].coloring)))
    BY <1>2 DEF IsTotal
  <2>3. i + 1 \in 1 .. n /\ f[i] = g[i]
    OBVIOUS
  <2> HIDE DEF T
  <2> QED BY <2>1, <2>2, <2>3
<1>5. T = Nat
  <2> HIDE DEF T
  <2>1. T \in SUBSET Nat
    BY DEF T
  <2> QED BY <1>3, <1>4, <2>1, SetInduction
<1>6. f[n] = g[n]
  BY <1>5
<1>7. g[n + 1] = Plus(g[n], LoadOf(Traffic(stripes[n + 1], more[n + 1].coloring)))
  BY <1>2 DEF IsTotal
<1> QED BY <1>1, <1>2, <1>6, <1>7

----------------------------------------------------------------------------
(* Groups *)

\* A vertex that is colored with its siblings is one of them, and siblings have
\* a child.
LEMMA GroupIs ==
  ASSUME NEW s \in StripesOf, NEW v \in Inner(DagOf[s])
  PROVE  /\ v \in Parents[s][DagOf[s].childs[v][1]]
         /\ Parents[s][DagOf[s].childs[v][1]] \in GroupsOf(s)
         /\ \A p \in Parents[s][DagOf[s].childs[v][1]] :
              p \in NodesOf(s) /\ ~ IsLeaf(DagOf[s], p)
<1>1. v \in NodesOf(s) /\ ~ IsLeaf(DagOf[s], v)
  BY DEF Inner, NodesOf
<1> DEFINE cs == DagOf[s].childs
           w == cs[v][1]
<1>2. \A x \in NodesOf(s) : cs[x] \in Seq(NodesOf(s))
  BY DagsAssumption DEF NodesOf
<1>3. cs[v] # <<>>
  BY <1>1 DEF IsLeaf
<1>4. w \in NodesOf(s) /\ 1 \in DOMAIN cs[v]
  BY <1>1, <1>2, <1>3
<1>5. \A x \in NodesOf(s) : Childs[s][x] = ToSet(cs[x])
  BY DEF Childs, ChildsOf, NodesOf
<1>6. v \in Parents[s][w]
  BY <1>1, <1>4, <1>5, Relatives DEF ToSet
<1>7. ASSUME NEW p \in Parents[s][w] PROVE p \in NodesOf(s) /\ ~ IsLeaf(DagOf[s], p)
  <2>1. p \in NodesOf(s) /\ w \in ToSet(cs[p])
    BY <1>4, <1>5, Relatives
  <2>2. cs[p] # <<>>
    BY <2>1 DEF ToSet
  <2> QED BY <2>1, <2>2 DEF IsLeaf
<1>8. Parents[s][w] \in GroupsOf(s)
  BY DEF GroupsOf
<1> QED BY <1>6, <1>7, <1>8

\* The first of some vertices that have children is one of them.
LEMMA FirstIs ==
  ASSUME NEW s \in StripesOf, NEW vs, vs # {},
         \A v \in vs : v \in NodesOf(s) /\ ~ IsLeaf(DagOf[s], v)
  PROVE  First(s, vs) \in vs
<1> DEFINE order == ParentOrderOf[s]
           D == {i \in DOMAIN order : order[i] \in vs}
<1>1. order \in Seq(NodesOf(s)) /\ \A v \in vs : v \in ToSet(order)
  BY DagsAssumption DEF NodesOf
<1>2. DOMAIN order \subseteq Nat
  BY <1>1
<1>3. D \subseteq Nat /\ D # {}
  BY <1>1, <1>2 DEF ToSet
<1>4. PICK i \in D : \A j \in D : i <= j
  <2> HIDE DEF D
  <2> QED BY <1>3, LeastElement
<1>5. \A j \in 1 .. i - 1 : order[j] \notin vs
  <2> TAKE j \in 1 .. i - 1
  <2>1. i \in Nat /\ i \in 1 .. Len(order) /\ Len(order) \in Nat
    BY <1>1
  <2>2. j \in DOMAIN order /\ j < i
    BY <1>1, <2>1
  <2> QED BY <1>4, <2>1, <2>2
<1> QED BY <1>4, <1>5 DEF First

----------------------------------------------------------------------------
(* Sequences of colorings *)

LEMMA AppendIs ==
  ASSUME NEW n \in Nat, NEW seq, seq = [i \in 1 .. n |-> seq[i]], NEW e,
         NEW more, more = Append(seq, e)
  PROVE  /\ more = [i \in 1 .. n + 1 |-> more[i]]
         /\ \A i \in 1 .. n : more[i] = seq[i]
         /\ more[n + 1] = e
         /\ DOMAIN more = 1 .. n + 1
<1> DEFINE V == {seq[i] : i \in 1 .. n} \cup {e}
<1>1. e \in V /\ \A i \in 1 .. n : seq[i] \in V
  OBVIOUS
<1> HIDE DEF V
<1>2. seq \in Seq(V) /\ Len(seq) = n
  <2>1. [i \in 1 .. n |-> seq[i]] \in Seq(V) /\ Len([i \in 1 .. n |-> seq[i]]) = n
    BY <1>1
  <2> QED BY <2>1
<1>3. /\ more \in Seq(V) /\ Len(more) = n + 1 /\ more[n + 1] = e
      /\ \A i \in 1 .. n : more[i] = seq[i]
  BY <1>1, <1>2
<1>4. DOMAIN more = 1 .. n + 1
  BY <1>3
<1>5. more = [i \in 1 .. n + 1 |-> more[i]]
  BY <1>3, <1>4
<1> QED BY <1>3, <1>4, <1>5

IsIndexed(seq, n) == seq = [i \in 1 .. n |-> seq[i]]

LEMMA LastIs ==
  ASSUME NEW n \in Nat, NEW seq, IsIndexed(seq, n), NEW e
  PROVE  Last(Append(seq, e)) = e
<1> DEFINE more == Append(seq, e)
<1>1. seq = [i \in 1 .. n |-> seq[i]] /\ more = Append(seq, e)
  BY DEF IsIndexed
<1> HIDE DEF more
<1>2. more[n + 1] = e /\ DOMAIN more = 1 .. n + 1 /\ more = [i \in 1 .. n + 1 |-> more[i]]
  BY <1>1, AppendIs
<1>3. Len(more) = n + 1
  BY <1>2
<1> QED BY <1>2, <1>3 DEF more, Last

----------------------------------------------------------------------------
(* The invariant *)

\* Where the programs are in their loops.
Progress ==
  /\ batch \in Batches \cup LonelyBatches
  /\ method \in 0 .. 2
  /\ pos \in 1 .. Len(batch) + 1
  /\ pc \in {"prepare", "color"}
  /\ pc = "color" => pos <= Len(batch)
  /\ pc = "prepare" => group = {}
  /\ kept = [i \in 1 .. pos - 1 |-> kept[i]]

\* How the stripes are colored by each program.
Ways ==
  /\ round \in {"hyper", "multi", "local"}
  /\ method = 0 => round = "hyper"
  /\ method = 1 => round # "local"
  /\ method = 2 /\ pos <= Len(batch) => round \in RoundsOf(batch[pos])

\* Only vertices that are neither leaves nor, unless they have siblings among
\* those, repair blocks are colored.
Vertices ==
  pc = "color" =>
    /\ coloring = [v \in Dag.nodes |-> coloring[v]]
    /\ todo \subseteq Inner(Dag)
    /\ \A v \in group : v \in Dag.nodes /\ ~ IsLeaf(Dag, v)
    /\ round # "multi" => group \subseteq Inner(Dag)
    /\ round = "multi" => group \subseteq UNION GroupsOf(Stripe)
    /\ group # {} => chosen # -1

\* A vertex gets its color once: in groups where no vertex belongs to two groups,
\* a group has no color, or all that are not about to get one have theirs.
ColoredOnce ==
  pc = "color" =>
    /\ round # "multi" =>
         /\ \A v \in todo \cup group : coloring[v] = -1
         /\ \A v, w \in group : v = w
         /\ todo \cap group = {}
    /\ round = "multi" /\ SiblingsApart[Stripe] =>
         /\ \A v \in group : coloring[v] = -1
         /\ \A g \in GroupsOf(Stripe) :
              \/ g \cap group = {} /\ \A v \in g : coloring[v] = -1
              \/ \A v \in g : coloring[v] = -1 <=> v \in group

\* Also between two stripes the table is the sum of the batch's colorings.
TableIsTotal == method = 0 => table = TotalLoad(batch, kept, pos - 1)

\* The first coloring is remembered with its loads.
HyperIsExact ==
  method = 1 /\ round = "multi" =>
    /\ pos <= Len(batch)
    /\ hyper.load = LoadOf(Traffic(batch[pos], hyper.coloring))

IInv ==
  /\ Progress
  /\ Ways
  /\ Vertices
  /\ ColoredOnce
  /\ LoadsAreExact
  /\ TableIsTotal
  /\ HyperIsExact

\* The stripe that is colored is one of those given.
LEMMA StripeIs ==
  ASSUME Progress, pos <= Len(batch)
  PROVE  /\ batch[pos] \in StripesOf
         /\ Stripe = batch[pos]
         /\ Dag = DagOf[batch[pos]]
         /\ Dag.nodes = NodesOf(batch[pos])
<1>1. batch \in Seq(StripesOf) /\ pos \in 1 .. Len(batch)
  BY BatchesAssumption DEF Progress
<1> QED BY <1>1 DEF Stripe, Dag, NodesOf

LEMMA Start == Init => IInv
<1> SUFFICES ASSUME Init PROVE IInv
  OBVIOUS
<1>1. batch \in Seq(StripesOf)
  BY BatchesAssumption DEF Init
<1>2. Progress
  <2>1. kept = [i \in 1 .. 0 |-> kept[i]]
    BY DEF Init
  <2> QED BY <1>1, <2>1 DEF Init, Progress
<1>3. Ways
  <2>1. \A s : RoundsOf(s) \subseteq {"hyper", "multi", "local"}
    BY DEF RoundsOf, RoundsAlone
  <2> QED BY <1>1, <2>1 DEF Init, Ways, Starts
<1>4. Vertices /\ ColoredOnce /\ LoadsAreExact
  BY DEF Init, Vertices, ColoredOnce, LoadsAreExact
<1>5. TableIsTotal
  BY TotalOfNone DEF Init, TableIsTotal
<1>6. HyperIsExact
  BY <1>3 DEF Init, HyperIsExact, Ways, Starts
<1> QED BY <1>2, <1>3, <1>4, <1>5, <1>6 DEF IInv

LEMMA PrepareStep == ASSUME IInv, Prepare PROVE IInv'
<1>1. /\ Progress /\ Ways /\ TableIsTotal /\ HyperIsExact
      /\ pc = "prepare" /\ pos <= Len(batch) /\ group = {}
  BY DEF IInv, Prepare, Progress
<1>2. /\ todo' = Inner(Dag) /\ pc' = "color"
      /\ load' = LoadOf(Traffic(Stripe, coloring'))
      /\ UNCHANGED <<batch, method, scenario, pos, round, group, chosen, table, hyper,
                     kept>>
  BY DEF Prepare
<1> DEFINE s == batch[pos]
<1>3. s \in StripesOf /\ Stripe = s /\ Dag = DagOf[s] /\ Dag.nodes = NodesOf(s)
  BY <1>1, StripeIs
<1>4. Stripe' = s /\ Dag' = DagOf[s]
  BY <1>2 DEF Stripe, Dag
<1>5. PICK nodes : coloring' = ColoringFrom(Dag, EcnOf[Stripe], EcwOf[Stripe], Placement,
                                            nodes, [v \in Inner(Dag) |-> -1])
  BY DEF Prepare
<1>6. /\ coloring' = [v \in Dag.nodes |-> coloring'[v]]
      /\ \A v \in Inner(Dag) : coloring'[v] = -1
  BY <1>5 DEF ColoringFrom, Inner
<1>7. Progress' /\ Ways' /\ TableIsTotal' /\ HyperIsExact'
  BY <1>1, <1>2 DEF Progress, Ways, TableIsTotal, HyperIsExact
<1>8. Vertices'
  BY <1>1, <1>2, <1>3, <1>4, <1>6 DEF Vertices
<1>9. ColoredOnce'
  <2>1. ASSUME SiblingsApart[s], NEW g \in GroupsOf(s), NEW v \in g
        PROVE  coloring'[v] = -1
    <3>1. PICK w \in Inner(DagOf[s]) : g = Parents[s][DagOf[s].childs[w][1]]
      BY DEF GroupsOf
    <3>2. v \in NodesOf(s) /\ ~ IsLeaf(DagOf[s], v)
      BY <1>3, <2>1, <3>1, GroupIs
    <3>3. v \notin DagOf[s].concats
      BY <1>3, <2>1 DEF SiblingsApart, ConcatSiblings
    <3>4. v \in Inner(DagOf[s])
      BY <3>2, <3>3 DEF Inner, NodesOf
    <3> QED BY <1>3, <1>6, <3>4
  <2> HIDE DEF s
  <2> QED BY <1>1, <1>2, <1>3, <1>4, <1>6, <2>1 DEF ColoredOnce
<1>10. LoadsAreExact'
  BY <1>2, <1>3, <1>4 DEF LoadsAreExact
<1> QED BY <1>7, <1>8, <1>9, <1>10 DEF IInv

\* What the loop reads of a stripe does not change while it is colored.
LEMMA SameStripe ==
  ASSUME UNCHANGED <<batch, pos>>
  PROVE  Stripe' = Stripe /\ Dag' = Dag
BY DEF Stripe, Dag

\* A visit leaves the colors alone, and may choose a color for some vertices.
LEMMA VisitStep ==
  ASSUME IInv, NEW v \in todo, Visit(v),
         \/ UNCHANGED <<group, chosen>>
         \/ /\ chosen' # -1
            /\ round # "multi" /\ group' = {v}
         \/ /\ chosen' # -1
            /\ round = "multi" /\ coloring[v] = -1 /\ group' = Group(v)
  PROVE  IInv'
<1>1. /\ Progress /\ Ways /\ Vertices /\ ColoredOnce /\ LoadsAreExact
      /\ TableIsTotal /\ HyperIsExact
      /\ pc = "color" /\ group = {} /\ todo' = todo \ {v}
      /\ UNCHANGED <<batch, method, scenario, pos, round, pc, coloring, load, table,
                     hyper, kept>>
  BY DEF IInv, Visit
<1>2. Stripe' = Stripe /\ Dag' = Dag
  BY <1>1, SameStripe
<1> DEFINE s == batch[pos]
<1>3. s \in StripesOf /\ Stripe = s /\ Dag = DagOf[s] /\ Dag.nodes = NodesOf(s)
  BY <1>1, StripeIs DEF Progress
<1> HIDE DEF s
<1>4. v \in Inner(DagOf[s])
  BY <1>1, <1>3 DEF Vertices
<1>5. /\ v \in Group(v) /\ Group(v) \in GroupsOf(s)
      /\ \A p \in Group(v) : p \in NodesOf(s) /\ ~ IsLeaf(DagOf[s], p)
  BY <1>3, <1>4, GroupIs DEF Group
<1>6. Progress' /\ Ways' /\ TableIsTotal' /\ HyperIsExact' /\ LoadsAreExact'
  BY <1>1, <1>2 DEF Progress, Ways, TableIsTotal, HyperIsExact, LoadsAreExact
<1>7. Vertices'
  <2>1. todo' \subseteq Inner(DagOf[s]) /\ coloring' = [x \in NodesOf(s) |-> coloring'[x]]
    BY <1>1, <1>3 DEF Vertices
  <2>2. \A p \in group' : p \in NodesOf(s) /\ ~ IsLeaf(DagOf[s], p)
    BY <1>1, <1>4, <1>5 DEF Inner, NodesOf
  <2>3. round # "multi" => group' \subseteq Inner(DagOf[s])
    BY <1>1, <1>4
  <2>5. round = "multi" => group' \subseteq UNION GroupsOf(s)
    BY <1>1, <1>5
  <2>4. group' # {} => chosen' # -1
    BY <1>1
  <2> QED BY <1>1, <1>2, <1>3, <2>1, <2>2, <2>3, <2>4, <2>5 DEF Vertices
<1>8. ColoredOnce'
  <2>1. ASSUME round # "multi"
        PROVE  /\ \A x \in todo' \cup group' : coloring[x] = -1
               /\ \A x, w \in group' : x = w
               /\ todo' \cap group' = {}
    <3>1. \A x \in todo : coloring[x] = -1
      BY <1>1, <2>1 DEF ColoredOnce
    <3>2. group' = {} \/ group' = {v}
      BY <1>1, <2>1
    <3> QED BY <1>1, <3>1, <3>2
  <2>2. ASSUME round = "multi", SiblingsApart[s]
        PROVE  /\ \A x \in group' : coloring[x] = -1
               /\ \A g \in GroupsOf(s) :
                    \/ g \cap group' = {} /\ \A x \in g : coloring[x] = -1
                    \/ \A x \in g : coloring[x] = -1 <=> x \in group'
    <3>1. \A g \in GroupsOf(s) :
            (\A x \in g : coloring[x] = -1) \/ (\A x \in g : coloring[x] # -1)
      BY <1>1, <1>3, <2>2 DEF ColoredOnce
    <3>2. CASE group' = {}
      BY <3>1, <3>2
    <3>3. CASE coloring[v] = -1 /\ group' = Group(v)
      <4>1. \A x \in Group(v) : coloring[x] = -1
        BY <1>5, <3>1, <3>3
      <4>2. \A g \in GroupsOf(s) : g = Group(v) \/ g \cap Group(v) = {}
        BY <1>3, <1>5, <2>2 DEF SiblingsApart
      <4> QED BY <3>1, <3>3, <4>1, <4>2
    <3> QED BY <1>1, <2>2, <3>2, <3>3
  <2> QED BY <1>1, <1>2, <1>3, <2>1, <2>2 DEF ColoredOnce
<1> QED BY <1>6, <1>7, <1>8 DEF IInv

LEMMA ColorSteps ==
  ASSUME IInv, NEW v \in todo, ColorHyper(v) \/ ColorMulti(v) \/ ColorLocal(v)
  PROVE  IInv'
<1>1. ASSUME NEW vs, NEW candidates, NEW loads, ChooseFor(vs, candidates, loads)
      PROVE  UNCHANGED <<group, chosen>> \/ (group' = vs /\ chosen' # -1)
  <2>1. PICK states : LET c == ChooseColor(candidates, states)
                      IN  IF c = -1 THEN UNCHANGED <<group, chosen>>
                          ELSE group' = vs /\ chosen' = c
    BY <1>1, Zenon DEF ChooseFor
  <2> DEFINE c == ChooseColor(candidates, states)
  <2>2. \/ UNCHANGED <<group, chosen>>
        \/ c # -1 /\ group' = vs /\ chosen' = c
    BY <2>1, Zenon
  <2> HIDE DEF c
  <2> QED BY <2>2
<1>2. CASE ColorHyper(v)
  <2>1. Visit(v) /\ round = "hyper"
    BY <1>2 DEF ColorHyper
  <2>2. UNCHANGED <<group, chosen>> \/ (group' = {v} /\ chosen' # -1)
    BY <1>1, <1>2 DEF ColorHyper
  <2> QED BY <2>1, <2>2, VisitStep
<1>3. CASE ColorMulti(v)
  <2>1. Visit(v) /\ round = "multi"
    BY <1>3 DEF ColorMulti
  <2>2. \/ UNCHANGED <<group, chosen>>
        \/ coloring[v] = -1 /\ group' = Group(v) /\ chosen' # -1
    BY <1>1, <1>3 DEF ColorMulti
  <2> QED BY <2>1, <2>2, VisitStep
<1>4. CASE ColorLocal(v)
  <2>1. Visit(v) /\ round = "local"
    BY <1>4 DEF ColorLocal
  <2>2. UNCHANGED <<group, chosen>> \/ (group' = {v} /\ chosen' # -1)
    <3> DEFINE c == ChooseLocal(ChildColors(v),
                                [d \in ToSet(ChildColors(v)) |->
                                   ChangeColor(Stripe, coloring, load, v, d)])
    <3>1. \/ UNCHANGED <<group, chosen>>
          \/ c # -1 /\ group' = {v} /\ chosen' = c
      BY <1>4, Zenon DEF ColorLocal
    <3> HIDE DEF c
    <3> QED BY <3>1
  <2> QED BY <2>1, <2>2, VisitStep
<1> QED BY <1>2, <1>3, <1>4

LEMMA RecolorStep == ASSUME IInv, Recolor PROVE IInv'
<1> DEFINE s == batch[pos]
           v == First(s, group)
<1>1. /\ Progress /\ Ways /\ Vertices /\ ColoredOnce /\ LoadsAreExact
      /\ TableIsTotal /\ HyperIsExact
      /\ pc = "color" /\ group # {}
      /\ UNCHANGED <<batch, method, scenario, pos, round, pc, todo, chosen, table,
                     hyper, kept>>
  BY DEF IInv, Recolor
<1>2. Stripe' = Stripe /\ Dag' = Dag
  BY <1>1, SameStripe
<1>3. s \in StripesOf /\ Stripe = s /\ Dag = DagOf[s] /\ Dag.nodes = NodesOf(s)
  BY <1>1, StripeIs DEF Progress
<1>4. /\ load' = ChangeColor(s, coloring, load, v, chosen)
      /\ coloring' = [coloring EXCEPT ![v] = chosen]
      /\ group' = group \ {v}
  BY <1>3 DEF Recolor
<1> HIDE DEF s
<1>5. /\ coloring = [x \in NodesOf(s) |-> coloring[x]]
      /\ \A x \in group : x \in NodesOf(s) /\ ~ IsLeaf(DagOf[s], x)
      /\ chosen # -1
  BY <1>1, <1>3 DEF Vertices
<1>6. v \in group /\ v \in NodesOf(s)
  BY <1>1, <1>3, <1>5, FirstIs
<1> HIDE DEF v
<1>7. /\ coloring' = [x \in NodesOf(s) |-> coloring'[x]]
      /\ coloring'[v] = chosen
      /\ \A x \in NodesOf(s) : x # v => coloring'[x] = coloring[x]
  BY <1>4, <1>5, <1>6
<1>8. Progress' /\ Ways' /\ TableIsTotal' /\ HyperIsExact'
  BY <1>1, <1>2 DEF Progress, Ways, TableIsTotal, HyperIsExact
<1>9. Vertices'
  BY <1>1, <1>2, <1>3, <1>4, <1>5, <1>7 DEF Vertices
<1>10. ColoredOnce'
  <2>1. ASSUME round # "multi"
        PROVE  /\ \A x \in todo' \cup group' : coloring'[x] = -1
               /\ \A x, w \in group' : x = w
               /\ todo' \cap group' = {}
    <3>1. /\ \A x \in todo : coloring[x] = -1
          /\ \A x, w \in group : x = w
          /\ todo \cap group = {}
      BY <1>1, <2>1 DEF ColoredOnce
    <3>2. group' = {}
      BY <1>4, <1>6, <3>1
    <3>3. \A x \in todo : x \in NodesOf(s) /\ x # v
      BY <1>1, <1>3, <1>6, <3>1 DEF Vertices, Inner, NodesOf
    <3> QED BY <1>1, <1>7, <3>1, <3>2, <3>3
  <2>2. ASSUME round = "multi", SiblingsApart[s]
        PROVE  /\ \A x \in group' : coloring'[x] = -1
               /\ \A g \in GroupsOf(s) :
                    \/ g \cap group' = {} /\ \A x \in g : coloring'[x] = -1
                    \/ \A x \in g : coloring'[x] = -1 <=> x \in group'
    <3>1. /\ \A x \in group : coloring[x] = -1
          /\ \A g \in GroupsOf(s) :
               \/ g \cap group = {} /\ \A x \in g : coloring[x] = -1
               \/ \A x \in g : coloring[x] = -1 <=> x \in group
      BY <1>1, <1>3, <2>2 DEF ColoredOnce
    <3>2. \A g \in GroupsOf(s) : \A x \in g : x \in NodesOf(s)
      <4>1. \A w \in Inner(DagOf[s]) : \A x \in Parents[s][DagOf[s].childs[w][1]] : x \in NodesOf(s)
        BY <1>3, GroupIs
      <4> QED BY <4>1 DEF GroupsOf
    <3>3. \A x \in group' : coloring'[x] = -1
      BY <1>4, <1>5, <1>7, <3>1
    <3>4. ASSUME NEW g \in GroupsOf(s)
          PROVE  \/ g \cap group' = {} /\ \A x \in g : coloring'[x] = -1
                 \/ \A x \in g : coloring'[x] = -1 <=> x \in group'
      <4>1. CASE g \cap group = {} /\ \A x \in g : coloring[x] = -1
        BY <1>4, <1>6, <1>7, <3>2, <4>1
      <4>2. CASE \A x \in g : coloring[x] = -1 <=> x \in group
        BY <1>4, <1>5, <1>6, <1>7, <3>2, <4>2
      <4> QED BY <3>1, <4>1, <4>2
    <3> QED BY <3>3, <3>4
  <2> QED BY <1>1, <1>2, <1>3, <2>1, <2>2 DEF ColoredOnce
<1>11. LoadsAreExact'
  <2> SUFFICES ASSUME round # "multi" \/ SiblingsApart[s]
               PROVE  load' = LoadOf(Traffic(s, coloring'))
    BY <1>1, <1>2, <1>3 DEF LoadsAreExact
  <2>1. load = LoadOf(Traffic(s, coloring))
    BY <1>1, <1>3 DEF LoadsAreExact
  <2>2. coloring[v] = -1
    BY <1>1, <1>3, <1>6 DEF ColoredOnce
  <2>3. chosen # coloring[v]
    BY <1>5, <2>2
  <2> QED BY <1>3, <1>4, <1>5, <1>6, <2>1, <2>3, ChangeIsExact
<1> QED BY <1>8, <1>9, <1>10, <1>11 DEF IInv

\* After a stripe has been kept the next one is prepared.
LEMMA KeepStep ==
  ASSUME IInv, pc = "color", group = {}, NEW c, Keep(c),
         pc' = "prepare", UNCHANGED <<batch, method, group>>,
         method = 0 => /\ table' = Plus(table, LoadOf(Traffic(Stripe, coloring)))
                       /\ c.coloring = coloring
  PROVE  IInv'
<1>1. /\ Progress /\ Ways /\ TableIsTotal /\ pos <= Len(batch)
      /\ kept' = Append(kept, c) /\ pos' = pos + 1 /\ round' \in Starts(pos + 1)
  BY DEF IInv, Keep, Progress
<1>2. Stripe = batch[pos] /\ batch \in Seq(StripesOf)
  BY <1>1, BatchesAssumption DEF Stripe, Progress
<1>3. pos \in Nat /\ pos - 1 \in Nat /\ (pos - 1) + 1 = pos /\ Len(batch) \in Nat
  BY <1>1, <1>2 DEF Progress
<1>4. /\ kept' = [i \in 1 .. pos |-> kept'[i]]
      /\ \A i \in 1 .. pos - 1 : kept'[i] = kept[i]
      /\ kept'[pos] = c
  BY <1>1, <1>3, AppendIs DEF Progress
<1>5. Progress'
  BY <1>1, <1>2, <1>3, <1>4 DEF Progress
<1>6. Ways'
  <2>1. \A r : RoundsOf(r) \subseteq {"hyper", "multi", "local"}
    BY DEF RoundsOf, RoundsAlone
  <2> QED BY <1>1, <2>1 DEF Ways, Starts, Progress
<1>7. Vertices' /\ ColoredOnce' /\ LoadsAreExact'
  BY DEF Vertices, ColoredOnce, LoadsAreExact
<1>8. TableIsTotal'
  <2> SUFFICES ASSUME method = 0 PROVE table' = TotalLoad(batch, kept', pos)
    BY <1>1, <1>3 DEF TableIsTotal
  <2>1. table = TotalLoad(batch, kept, pos - 1)
    BY <1>1 DEF TableIsTotal
  <2>2. TotalLoad(batch, kept', (pos - 1) + 1)
          = Plus(TotalLoad(batch, kept, pos - 1),
                 LoadOf(Traffic(batch[(pos - 1) + 1], kept'[(pos - 1) + 1].coloring)))
    BY <1>3, <1>4, TotalOfMore
  <2> QED BY <1>2, <1>3, <1>4, <2>1, <2>2
<1>9. HyperIsExact'
  BY <1>1 DEF HyperIsExact, Starts
<1> QED BY <1>5, <1>6, <1>7, <1>8, <1>9 DEF IInv

LEMMA FinishSteps == ASSUME IInv, FinishHyper \/ FinishMulti \/ FinishAlone PROVE IInv'
<1>1. CASE FinishAlone
  BY <1>1, KeepStep DEF FinishAlone
<1>2. CASE FinishMulti
  BY <1>2, KeepStep DEF FinishMulti
<1>3. CASE FinishHyper /\ method # 1
  <2>1. table' = Plus(table, LoadOf(Traffic(Stripe, coloring))) /\ Keep(Colored)
    BY <1>3 DEF FinishHyper, Colored
  <2>2. Colored.coloring = coloring
    BY DEF Colored
  <2> QED BY <1>3, <2>1, <2>2, KeepStep DEF FinishHyper
<1>4. CASE FinishHyper /\ method = 1
  <2>1. /\ Progress /\ Ways /\ pc = "color" /\ group = {} /\ pc' = "prepare"
        /\ hyper' = Colored /\ round' = "multi"
        /\ UNCHANGED <<batch, method, group, pos, kept>>
    BY <1>4 DEF FinishHyper, IInv
  <2>2. Progress' /\ Ways'
    BY <1>4, <2>1 DEF Progress, Ways
  <2>3. Vertices' /\ ColoredOnce' /\ LoadsAreExact' /\ TableIsTotal'
    BY <1>4, <2>1 DEF Vertices, ColoredOnce, LoadsAreExact, TableIsTotal
  <2>4. HyperIsExact'
    BY <2>1 DEF HyperIsExact, Colored, Stripe, Progress
  <2> QED BY <2>2, <2>3, <2>4 DEF IInv
<1> QED BY <1>1, <1>2, <1>3, <1>4

LEMMA StutterStep == ASSUME IInv, UNCHANGED vars PROVE IInv'
<1>1. Stripe' = Stripe /\ Dag' = Dag
  BY SameStripe DEF vars
<1>2. Progress' /\ Ways' /\ TableIsTotal' /\ HyperIsExact'
  BY DEF vars, IInv, Progress, Ways, TableIsTotal, HyperIsExact
<1>3. Vertices' /\ LoadsAreExact'
  BY <1>1 DEF vars, IInv, Vertices, LoadsAreExact
<1>4. ColoredOnce'
  BY <1>1 DEF vars, IInv, ColoredOnce
<1> QED BY <1>2, <1>3, <1>4 DEF IInv

\* The invariant holds of every run of ParallelSolution's colorings.
THEOREM Invariance == Spec => []IInv
<1>1. Init => IInv
  BY Start
<1>2. IInv /\ [Next]_vars => IInv'
  <2> SUFFICES ASSUME IInv, [Next]_vars PROVE IInv'
    OBVIOUS
  <2>1. CASE Prepare
    BY <2>1, PrepareStep
  <2>2. CASE \E v \in todo : ColorHyper(v) \/ ColorMulti(v) \/ ColorLocal(v)
    BY <2>2, ColorSteps
  <2>3. CASE Recolor
    BY <2>3, RecolorStep
  <2>4. CASE FinishHyper \/ FinishMulti \/ FinishAlone
    BY <2>4, FinishSteps
  <2>5. CASE UNCHANGED vars
    BY <2>5, StutterStep
  <2> QED BY <2>1, <2>2, <2>3, <2>4, <2>5 DEF Next
<1> QED BY <1>1, <1>2, PTL DEF Spec

\* Whatever order the vertices of a stripe are colored in, the loads that
\* Stripe::changeColor keeps are those of its coloring, and with method 0 the load
\* table is the sum of the colorings of the batch.
THEOREM LoadsStayExact == Spec => []TablesAreExact
<1>1. IInv => TablesAreExact
  BY DEF IInv, TablesAreExact, TableIsTotal, TableIsGlobal
<1> QED BY <1>1, Invariance, PTL

----------------------------------------------------------------------------
(* Repair nodes *)

Rank(S, c) == Cardinality({d \in S : d >= c})

\* Different members of a set of integers have different ranks.
LEMMA RankIs ==
  ASSUME NEW S \in SUBSET Int, IsFiniteSet(S), NEW c \in S
  PROVE  /\ Rank(S, c) \in 1 .. Cardinality(S)
         /\ \A d \in S : Rank(S, c) = Rank(S, d) => c = d
<1> DEFINE From(x) == {d \in S : d >= x}
<1>1. ASSUME NEW x \in S PROVE /\ IsFiniteSet(From(x))
                               /\ Rank(S, x) = Cardinality(From(x))
                               /\ Rank(S, x) \in 1 .. Cardinality(S)
  <2> DEFINE F == From(x)
  <2>1. F \in SUBSET S /\ x \in F
    OBVIOUS
  <2>2. Rank(S, x) = Cardinality(F)
    BY DEF Rank
  <2> HIDE DEF F
  <2>3. IsFiniteSet(F) /\ Cardinality(F) <= Cardinality(S)
    BY <2>1, FS_Subset
  <2>4. Cardinality(F) \in Nat /\ Cardinality(S) \in Nat /\ Cardinality(F) # 0
    BY <2>1, <2>3, FS_CardinalityType, FS_EmptySet
  <2> QED BY <2>2, <2>3, <2>4 DEF F
<1>2. ASSUME NEW x \in S, NEW y \in S, x < y PROVE Rank(S, y) < Rank(S, x)
  <2> DEFINE F == From(x)
             G == From(y)
             R == F \ {x}
  <2>1. G \in SUBSET R /\ x \in F
    <3>1. x \in Int /\ y \in Int /\ \A d \in S : d \in Int
      OBVIOUS
    <3>2. \A d \in G : d \in S /\ d >= x /\ d # x
      BY <1>2, <3>1
    <3>3. F = {d \in S : d >= x}
      OBVIOUS
    <3> HIDE DEF F, G
    <3>4. G \subseteq F /\ x \in F
      BY <3>1, <3>2, <3>3
    <3> QED BY <3>2, <3>4
  <2>2. /\ IsFiniteSet(F) /\ Rank(S, x) = Cardinality(F)
        /\ Rank(S, y) = Cardinality(G)
    BY <1>1
  <2> HIDE DEF F, G
  <2>3. IsFiniteSet(R) /\ Cardinality(R) = Cardinality(F) - 1
    BY <2>1, <2>2, FS_RemoveElement
  <2> HIDE DEF R
  <2>4. IsFiniteSet(G) /\ Cardinality(G) <= Cardinality(R)
    BY <2>1, <2>3, FS_Subset
  <2>5. Cardinality(F) \in Nat /\ Cardinality(G) \in Nat
    BY <2>2, <2>4, FS_CardinalityType
  <2> QED BY <2>2, <2>3, <2>4, <2>5
<1>3. ASSUME NEW d \in S, Rank(S, c) = Rank(S, d), c # d PROVE FALSE
  <2>1. c < d \/ d < c
    BY <1>3
  <2>2. \A x \in S : Rank(S, x) \in 1 .. Cardinality(S)
    BY <1>1
  <2> QED BY <1>2, <1>3, <2>1, <2>2
<1> QED BY <1>1, <1>3

\* The concat vertices are numbered from 1.
LEMMA ConcatsAre ==
  ASSUME NEW s \in StripesOf, Dag = DagOf[s]
  PROVE  /\ IsFiniteSet(Dag.concats) /\ Dag.concats \in SUBSET Int
         /\ Cardinality(Dag.concats) \in Nat
         /\ DOMAIN Concats = 1 .. Cardinality(Dag.concats)
         /\ Len(Concats) = Cardinality(Dag.concats)
<1>1. /\ IsFiniteSet(DagOf[s].nodes) /\ DagOf[s].concats \in SUBSET DagOf[s].nodes
      /\ DagOf[s].concats \in SUBSET Int
  BY DagsAssumption
<1>2. IsFiniteSet(Dag.concats)
  BY <1>1, FS_Subset
<1> DEFINE n == Cardinality(Dag.concats)
<1>3. n \in Nat
  BY <1>2, FS_CardinalityType
<1> HIDE DEF n
<1>4. Concats = [i \in 1 .. n |->
                   CHOOSE c \in Dag.concats : Cardinality({d \in Dag.concats : d >= c}) = i]
  BY DEF n, Concats
<1>5. DOMAIN Concats = 1 .. n
  BY <1>4
<1>6. Len(Concats) = n
  BY <1>3, <1>5
<1> QED BY <1>1, <1>2, <1>3, <1>5, <1>6 DEF n

\* The repair nodes of a stripe are different ones that may take its blocks.
LEMMA ChoicesAre ==
  ASSUME Progress, Ways, pos <= Len(batch),
         NEW nodes \in IF round = "local" THEN LocalRepairNodeChoices ELSE RepairNodeChoices
  PROVE  /\ \A i, j \in DOMAIN Concats : nodes[i] = nodes[j] => i = j
         /\ \A i \in DOMAIN Concats : nodes[i] \notin Taken(Stripe)
<1> DEFINE s == batch[pos]
           n == Cardinality(Dag.concats)
<1>1. s \in StripesOf /\ Stripe = s /\ Dag = DagOf[s]
  BY StripeIs
<1> HIDE DEF s
<1>2. n \in Nat /\ DOMAIN Concats = 1 .. n /\ Len(Concats) = n
  BY <1>1, ConcatsAre
<1>3. /\ HostsOf(s) \subseteq 0 .. NumAgents - 1 /\ ReadNodes(s) \subseteq 0 .. NumAgents - 1
      /\ s \in RawStripes \/ ReadNodes(s) \cap FailedNodes = {}
  BY <1>1, PlacementAssumption
<1>4. RoundsOf(s) = {"local"} \/ RoundsOf(s) = {"hyper", "multi"}
  BY DEF RoundsOf, RoundsAlone
<1>5. round = "local" => Taken(s) = ReadNodes(s)
  <2> SUFFICES ASSUME round = "local" PROVE method = 2 /\ RoundsOf(s) = {"local"}
    BY DEF Taken
  <2>1. method = 2
    BY DEF Ways, Progress
  <2> QED BY <1>1, <1>4, <2>1 DEF Ways, s
<1>6. round # "local" => Taken(s) = FailedNodes \cup HostsOf(s)
  <2> SUFFICES ASSUME round # "local" PROVE ~ (method = 2 /\ RoundsOf(s) = {"local"})
    BY DEF Taken
  <2> QED BY DEF Ways, s
<1>7. Taken(s) \subseteq 0 .. NumAgents - 1
  BY <1>3, <1>5, <1>6
<1>8. CASE nodes = [i \in DOMAIN Concats |-> NumAgents + i - 1]
  <2>1. \A i \in DOMAIN Concats : i \in Nat /\ i >= 1 /\ nodes[i] = NumAgents + i - 1
    BY <1>2, <1>8
  <2> QED BY <1>1, <1>7, <2>1
<1>9. CASE round = "local"
  <2> DEFINE free == (0 .. NumAgents - 1) \ (FailedNodes \cup ReadNodes(s))
  <2>1. nodes \in LocalRepairNodeChoices
    BY <1>9
  <2>2. CASE Len(Concats) = 1 /\ s \notin RawStripes
    <3>1. PICK r \in OneRepairNode : nodes = <<r>>
      BY <1>1, <2>1, <2>2 DEF LocalRepairNodeChoices
    <3>2. r \in FailedNodes \/ r \notin ReadNodes(s)
      BY <1>1, <3>1 DEF OneRepairNode
    <3>3. r \notin Taken(s)
      BY <1>3, <1>5, <1>9, <2>2, <3>2
    <3>4. \A i \in DOMAIN Concats : i = 1
      BY <1>2, <2>2
    <3> QED BY <1>1, <3>1, <3>3, <3>4
  <2>3. CASE ~ (Len(Concats) = 1 /\ s \notin RawStripes)
    <3>1. \/ nodes = [i \in DOMAIN Concats |-> NumAgents + i - 1]
          \/ /\ nodes \in [DOMAIN Concats -> free]
             /\ \A i, j \in DOMAIN Concats : nodes[i] = nodes[j] => i = j
      BY <1>1, <2>1, <2>3 DEF LocalRepairNodeChoices
    <3>2. free \cap Taken(s) = {}
      BY <1>5, <1>9
    <3> HIDE DEF free
    <3> QED BY <1>1, <1>8, <3>1, <3>2
  <2> QED BY <2>2, <2>3
<1>10. CASE round # "local"
  <2> DEFINE free == Nodes \ (FailedNodes \cup HostsOf(s))
  <2>1. nodes \in RepairNodeChoices
    BY <1>10
  <2>2. \/ nodes = [i \in DOMAIN Concats |-> NumAgents + i - 1]
        \/ /\ nodes \in [DOMAIN Concats -> free]
           /\ \A i, j \in DOMAIN Concats : nodes[i] = nodes[j] => i = j
    BY <1>1, <2>1 DEF RepairNodeChoices
  <2>3. free \cap Taken(s) = {}
    BY <1>6, <1>10
  <2> HIDE DEF free
  <2> QED BY <1>1, <1>8, <2>2, <2>3
<1> QED BY <1>9, <1>10

----------------------------------------------------------------------------
(* Where the failed blocks are repaired *)

\* The colorings that are used, and those that may be.
Places ==
  /\ pc = "color" => EndsApart(Stripe, coloring)
  /\ method = 1 /\ round = "multi" => EndsApart(batch[pos], hyper.coloring)
  /\ RepairedApart

\* col has the vertices C on different nodes, none of them in T.
Apart(C, T, col) ==
  /\ \A c, d \in C : col[c] = col[d] => c = d
  /\ \A c \in C : col[c] \notin T

LEMMA PlacesAre ==
  /\ Places <=>
       /\ pc = "color" => Apart(StayingConcats(Stripe), Taken(Stripe), coloring)
       /\ method = 1 /\ round = "multi" =>
            Apart(StayingConcats(batch[pos]), Taken(batch[pos]), hyper.coloring)
       /\ \A i \in DOMAIN kept :
            Apart(StayingConcats(batch[i]), Taken(batch[i]), kept[i].coloring)
BY DEF Places, RepairedApart, EndsApart, Apart

LEMMA PlacesAfter ==
  ASSUME UNCHANGED <<batch, method>>,
         pc' = "color" =>
           Apart(StayingConcats(batch[pos']), Taken(batch[pos']), coloring'),
         method = 1 /\ round' = "multi" =>
           Apart(StayingConcats(batch[pos']), Taken(batch[pos']), hyper'.coloring),
         \A i \in DOMAIN kept' :
           Apart(StayingConcats(batch[i]), Taken(batch[i]), kept'[i].coloring)
  PROVE  Places'
<1>1. \A s : StayingConcats(s)' = StayingConcats(s)
  BY DEF StayingConcats
<1>2. \A s : Taken(s)' = Taken(s)
  BY DEF Taken
<1> QED BY <1>1, <1>2 DEF Places, RepairedApart, EndsApart, Apart, Stripe

LEMMA PreparePlaces == ASSUME IInv, Places, Prepare PROVE Places'
<1>1. /\ Progress /\ Ways /\ pos <= Len(batch) /\ pc' = "color"
      /\ UNCHANGED <<batch, method, pos, round, hyper, kept>>
  BY DEF IInv, Prepare
<1> DEFINE s == batch[pos]
<1>2. s \in StripesOf /\ Stripe = s /\ Dag = DagOf[s] /\ Stripe' = Stripe
  BY <1>1, StripeIs DEF Stripe
<1> HIDE DEF s
<1>3. PICK nodes \in IF round = "local" THEN LocalRepairNodeChoices ELSE RepairNodeChoices :
        coloring' = ColoringFrom(Dag, EcnOf[Stripe], EcwOf[Stripe], Placement,
                                 nodes, [v \in Inner(Dag) |-> -1])
  BY DEF Prepare
<1>4. /\ \A i, j \in DOMAIN Concats : nodes[i] = nodes[j] => i = j
      /\ \A i \in DOMAIN Concats : nodes[i] \notin Taken(s)
  BY <1>1, <1>2, ChoicesAre
<1> DEFINE C == Dag.concats
<1>5. /\ IsFiniteSet(C) /\ C \in SUBSET Int /\ DOMAIN Concats = 1 .. Cardinality(C)
  BY <1>2, ConcatsAre
<1>6. C \subseteq Dag.nodes
  BY <1>2, DagsAssumption
<1>7. \A c \in C : coloring'[c] = nodes[Rank(C, c)]
  <2> TAKE c \in C
  <2>1. coloring'[c] = ConcatColor(Dag, c, nodes)
    BY <1>3, <1>6 DEF ColoringFrom, Inner
  <2>2. ConcatColor(Dag, c, nodes) = nodes[Rank(C, c)]
    BY Zenon DEF ConcatColor, Rank
  <2> QED BY <2>1, <2>2
<1> HIDE DEF C
<1>8. \A c \in C : /\ Rank(C, c) \in DOMAIN Concats
                   /\ \A d \in C : Rank(C, c) = Rank(C, d) => c = d
  BY <1>5, RankIs
<1>9. /\ \A c, d \in C : coloring'[c] = coloring'[d] => c = d
      /\ \A c \in C : coloring'[c] \notin Taken(s)
  BY <1>4, <1>7, <1>8
<1>10. Apart(StayingConcats(s), Taken(s), coloring')
  BY <1>2, <1>9 DEF Apart, StayingConcats, C
<1> QED BY <1>1, <1>2, <1>10, PlacesAre, PlacesAfter DEF s

\* Of the repair blocks only those with siblings are recolored, and those only where
\* siblings are colored together.
LEMMA StaysOut ==
  ASSUME Progress, Ways, Vertices, pc = "color", NEW v \in group
  PROVE  v \notin StayingConcats(Stripe)
<1>1. /\ pos <= Len(batch) /\ round \in {"hyper", "multi", "local"}
      /\ Stripe = batch[pos] /\ Dag = DagOf[Stripe]
  BY DEF Progress, Ways, Stripe, Dag
<1>2. StayingConcats(Stripe) \subseteq DagOf[Stripe].concats
  BY DEF StayingConcats
<1>3. CASE round # "multi"
  <2>1. v \in Inner(DagOf[Stripe])
    BY <1>1, <1>3 DEF Vertices
  <2> QED BY <1>2, <2>1 DEF Inner
<1>4. CASE round = "multi"
  <2>1. v \in UNION GroupsOf(Stripe)
    BY <1>4 DEF Vertices
  <2>2. method # 0 /\ ~ (method = 2 /\ RoundsOf(Stripe) = {"local"})
    BY <1>1, <1>4 DEF Ways
  <2>3. StayingConcats(Stripe) = DagOf[Stripe].concats \ ConcatSiblings(Stripe)
    BY <2>2 DEF StayingConcats
  <2> QED BY <1>2, <2>1, <2>3 DEF ConcatSiblings
<1> QED BY <1>3, <1>4

LEMMA RecolorPlaces == ASSUME IInv, Places, Recolor PROVE Places'
<1> DEFINE s == batch[pos]
           v == First(s, group)
<1>1. /\ Progress /\ Ways /\ Vertices /\ pc = "color" /\ group # {} /\ pos <= Len(batch)
      /\ UNCHANGED <<batch, method, pos, round, pc, hyper, kept>>
  BY DEF IInv, Recolor, Progress
<1>2. s \in StripesOf /\ Stripe = s /\ Dag = DagOf[s] /\ Stripe' = s /\ Dag.nodes = NodesOf(s)
  BY <1>1, StripeIs DEF Stripe
<1>3. coloring' = [coloring EXCEPT ![v] = chosen]
  BY <1>2 DEF Recolor
<1> HIDE DEF s
<1>4. /\ coloring = [x \in NodesOf(s) |-> coloring[x]]
      /\ \A x \in group : x \in NodesOf(s) /\ ~ IsLeaf(DagOf[s], x)
  BY <1>1, <1>2 DEF Vertices
<1>5. v \in group
  BY <1>1, <1>2, <1>4, FirstIs
<1>6. v \notin StayingConcats(s)
  BY <1>1, <1>2, <1>5, StaysOut
<1> HIDE DEF v
<1>7. \A c \in StayingConcats(s) : coloring'[c] = coloring[c]
  <2>1. StayingConcats(s) \subseteq NodesOf(s)
    BY <1>2, DagsAssumption DEF NodesOf, StayingConcats
  <2> QED BY <1>3, <1>4, <1>6, <2>1
<1>8. Apart(StayingConcats(s), Taken(s), coloring)
  BY <1>1, <1>2, PlacesAre
<1>9. Apart(StayingConcats(s), Taken(s), coloring')
  BY <1>7, <1>8 DEF Apart
<1> QED BY <1>1, <1>2, <1>9, PlacesAre, PlacesAfter DEF s

\* The coloring that is kept is the one at hand or the remembered one.
LEMMA KeepPlaces ==
  ASSUME IInv, Places, pc = "color", NEW c, Keep(c), pc' = "prepare",
         UNCHANGED <<batch, method, hyper>>,
         \/ c.coloring = coloring
         \/ method = 1 /\ round = "multi" /\ c.coloring = hyper.coloring
  PROVE  Places'
<1>1. /\ Progress /\ kept' = Append(kept, c) /\ pos' = pos + 1
      /\ round' \in Starts(pos + 1)
  BY DEF IInv, Keep
<1>2. pos \in Nat /\ pos - 1 \in Nat /\ (pos - 1) + 1 = pos
  <2>1. Len(batch) \in Nat
    BY <1>1, BatchesAssumption DEF Progress
  <2> QED BY <1>1, <2>1 DEF Progress
<1>3. /\ \A i \in 1 .. pos - 1 : kept'[i] = kept[i]
      /\ kept'[pos] = c /\ DOMAIN kept' = 1 .. pos /\ DOMAIN kept = 1 .. pos - 1
  BY <1>1, <1>2, AppendIs DEF Progress
<1>4. Apart(StayingConcats(batch[pos]), Taken(batch[pos]), c.coloring)
  BY PlacesAre DEF Stripe
<1>5. \A i \in 1 .. pos - 1 :
        Apart(StayingConcats(batch[i]), Taken(batch[i]), kept[i].coloring)
  BY <1>3, PlacesAre
<1>6. \A i \in 1 .. pos : i = pos \/ i \in 1 .. pos - 1
  BY <1>2
<1>7. \A i \in DOMAIN kept' :
        Apart(StayingConcats(batch[i]), Taken(batch[i]), kept'[i].coloring)
  BY <1>3, <1>4, <1>5, <1>6
<1>8. method = 1 => round' = "hyper"
  BY <1>1 DEF Starts
<1> QED BY <1>7, <1>8, PlacesAfter

LEMMA FinishPlaces ==
  ASSUME IInv, Places, FinishHyper \/ FinishMulti \/ FinishAlone PROVE Places'
<1>1. CASE FinishAlone
  <2>1. Colored.coloring = coloring
    BY DEF Colored
  <2> QED BY <1>1, <2>1, KeepPlaces DEF FinishAlone
<1>2. CASE FinishMulti
  <2> DEFINE better == IF MaxLoad(Colored.load) > MaxLoad(hyper.load) THEN hyper ELSE Colored
  <2>1. /\ method = 1 /\ round = "multi" /\ pc = "color" /\ pc' = "prepare"
        /\ Keep(better) /\ UNCHANGED <<batch, method, hyper>>
    BY <1>2 DEF FinishMulti
  <2>2. better.coloring = coloring \/ better.coloring = hyper.coloring
    BY DEF Colored
  <2> HIDE DEF better
  <2> QED BY <2>1, <2>2, KeepPlaces
<1>3. CASE FinishHyper /\ method # 1
  <2>1. /\ Keep(Colored) /\ pc = "color" /\ pc' = "prepare"
        /\ UNCHANGED <<batch, method, hyper>>
    BY <1>3 DEF FinishHyper
  <2>2. Colored.coloring = coloring
    BY DEF Colored
  <2> QED BY <2>1, <2>2, KeepPlaces
<1>4. CASE FinishHyper /\ method = 1
  <2>1. /\ pc = "color" /\ pc' = "prepare" /\ hyper' = Colored
        /\ UNCHANGED <<batch, method, pos, kept>>
    BY <1>4 DEF FinishHyper
  <2>2. hyper'.coloring = coloring
    BY <2>1 DEF Colored
  <2> QED BY <2>1, <2>2, PlacesAre, PlacesAfter DEF Stripe
<1> QED BY <1>1, <1>2, <1>3, <1>4

\* The failed blocks of a stripe end on different nodes that have not failed and
\* hold no other block of it, for any repair DAGs, except the blocks that
\* chooseColor2New colors again together with their siblings.
THEOREM RepairsEndApart == Spec => []RepairedApart
<1>1. Init => Places
  <2> SUFFICES ASSUME Init PROVE Places
    OBVIOUS
  <2>1. DOMAIN kept = {} /\ pc = "prepare" /\ (method = 1 => round = "hyper")
    BY DEF Init, Starts
  <2> QED BY <2>1, PlacesAre
<1>2. IInv /\ Places /\ [Next]_vars => Places'
  <2> SUFFICES ASSUME IInv, Places, [Next]_vars PROVE Places'
    OBVIOUS
  <2>1. CASE Prepare
    BY <2>1, PreparePlaces
  <2>2. CASE \E v \in todo : ColorHyper(v) \/ ColorMulti(v) \/ ColorLocal(v)
    <3>1. UNCHANGED <<batch, method, pos, round, pc, coloring, hyper, kept>>
      BY <2>2 DEF ColorHyper, ColorMulti, ColorLocal, Visit
    <3> QED BY <3>1, PlacesAre, PlacesAfter DEF Stripe
  <2>3. CASE Recolor
    BY <2>3, RecolorPlaces
  <2>4. CASE FinishHyper \/ FinishMulti \/ FinishAlone
    BY <2>4, FinishPlaces
  <2>5. CASE UNCHANGED vars
    BY <2>5, PlacesAre, PlacesAfter DEF vars, Stripe
  <2> QED BY <2>1, <2>2, <2>3, <2>4, <2>5 DEF Next
<1>3. Places => RepairedApart
  BY DEF Places
<1> QED BY <1>1, <1>2, <1>3, Invariance, PTL DEF Spec

----------------------------------------------------------------------------
(* Which of two colorings is kept *)

\* The highest load of a coloring is a natural number.
LEMMA MaxLoadType ==
  ASSUME NEW flows, IsFiniteSet(flows)
  PROVE  MaxLoad(LoadOf(flows)) \in Nat
<1> DEFINE t == LoadOf(flows)
           loads == {t[k] : k \in Kinds}
           bound == Cardinality(flows)
<1>1. \A k \in Kinds : t[k] = Count(flows, k)
  BY DEF LoadOf, Kinds
<1>2. \A k : Count(flows, k) \in Nat /\ Count(flows, k) <= bound
  BY CountType
<1>3. bound \in Nat
  BY FS_CardinalityType
<1>4. <<"in", 0>> \in Kinds
  BY DEF Kinds, Dirs, Nodes
<1>5. MaxLoad(t) = CHOOSE x \in loads : \A y \in loads : x >= y
  BY DEF MaxLoad, Max, Kinds
<1> HIDE DEF t, bound
<1>6. loads \subseteq Nat /\ t[<<"in", 0>>] \in loads /\ \A y \in loads : y <= bound
  BY <1>1, <1>2, <1>4
<1>7. \E g \in loads : \A y \in loads : g >= y
  <2> HIDE DEF loads
  <2> QED BY <1>3, <1>6, GreatestElement
<1>8. MaxLoad(t) \in loads
  BY <1>5, <1>7
<1> QED BY <1>6, <1>8 DEF t

\* Of the two colorings of a stripe ParallelSolution keeps one whose load, counted
\* from scratch, is not higher than the other's.
THEOREM LighterIsKept == Spec => KeptIsLighter
<1> DEFINE Lighter ==
      round = "multi" /\ method = 1 /\ kept' # kept =>
        LET k == Last(kept')
        IN  /\ k.load = LoadOf(Traffic(Stripe, k.coloring))
            /\ MaxLoad(k.load) <= MaxLoad(hyper.load)
            /\ MaxLoad(k.load) <= MaxLoad(LoadOf(Traffic(Stripe, coloring)))
<1>1. IInv /\ [Next]_vars => [Lighter]_vars
  <2> SUFFICES ASSUME IInv, Next, round = "multi", method = 1, kept' # kept
               PROVE  Lighter
    BY DEF vars
  <2>1. FinishMulti
    <3>1. ~ Prepare /\ ~ Recolor
      BY DEF Prepare, Recolor
    <3>2. ~ \E v \in todo : ColorHyper(v) \/ ColorMulti(v) \/ ColorLocal(v)
      BY DEF ColorHyper, ColorMulti, ColorLocal, Visit
    <3>3. ~ FinishHyper /\ ~ FinishAlone
      BY DEF FinishHyper, FinishAlone
    <3> QED BY <3>1, <3>2, <3>3 DEF Next
  <2> DEFINE better == IF MaxLoad(Colored.load) > MaxLoad(hyper.load) THEN hyper ELSE Colored
             mine == LoadOf(Traffic(Stripe, coloring))
             other == LoadOf(Traffic(Stripe, hyper.coloring))
  <2>2. kept' = Append(kept, better) /\ Progress /\ pos <= Len(batch)
    BY <2>1 DEF FinishMulti, Keep, IInv, Progress
  <2>3. Stripe = batch[pos] /\ batch[pos] \in StripesOf
    BY <2>2, StripeIs
  <2>4. Last(kept') = better
    <3>1. pos - 1 \in Nat /\ IsIndexed(kept, pos - 1)
      <4>1. Len(batch) \in Nat
        BY <2>2, BatchesAssumption DEF Progress
      <4> QED BY <2>2, <4>1 DEF Progress, IsIndexed
    <3> HIDE DEF better
    <3> QED BY <2>2, <3>1, LastIs
  <2>5. hyper.load = other
    BY <2>3 DEF IInv, HyperIsExact
  <2>6. Colored.load = mine /\ Colored.coloring = coloring
    BY DEF Colored
  <2>7. MaxLoad(mine) \in Nat /\ MaxLoad(other) \in Nat
    <3>1. IsFiniteSet(Traffic(Stripe, coloring)) /\ IsFiniteSet(Traffic(Stripe, hyper.coloring))
      BY <2>3, TrafficIsFinite
    <3> QED BY <3>1, MaxLoadType
  <2> HIDE DEF mine, other
  <2>8. CASE MaxLoad(mine) > MaxLoad(other)
    <3>1. better = hyper
      BY <2>5, <2>6, <2>8
    <3> HIDE DEF better
    <3> QED BY <2>4, <2>5, <2>7, <2>8, <3>1 DEF mine, other
  <2>9. CASE ~ (MaxLoad(mine) > MaxLoad(other))
    <3>1. better = Colored
      BY <2>5, <2>6, <2>9
    <3> HIDE DEF better
    <3>2. MaxLoad(mine) <= MaxLoad(other)
      BY <2>7, <2>9
    <3> QED BY <2>4, <2>5, <2>6, <2>7, <3>1, <3>2 DEF mine, other
  <2> QED BY <2>8, <2>9
<1> QED BY <1>1, Invariance, PTL DEF Spec, KeptIsLighter

----------------------------------------------------------------------------
(* The loads that changeColor asserts *)

\* The loads of a coloring, counted from scratch, are natural numbers.
LEMMA CountedLoads ==
  ASSUME NEW s \in StripesOf, NEW col
  PROVE  LoadOf(Traffic(s, col)) \in [Kinds -> Nat]
<1> DEFINE flows == Traffic(s, col)
<1>1. IsFiniteSet(flows)
  BY TrafficIsFinite
<1> HIDE DEF flows
<1>2. \A k \in Kinds : Count(flows, k) \in Nat
  BY <1>1, CountType
<1>3. LoadOf(flows) = [k \in Kinds |-> Count(flows, k)]
  BY DEF LoadOf, Kinds
<1>4. LoadOf(flows) \in [Kinds -> Nat]
  BY <1>2, <1>3
<1> QED BY <1>4 DEF flows

\* The table, and the loads whenever they are those of the coloring.
LoadsAreNatural ==
  /\ table \in [Kinds -> Nat]
  /\ load \in [Kinds -> Nat] \/ (pc = "color" /\ round = "multi" /\ ~ SiblingsApart[Stripe])

LEMMA PlusType ==
  ASSUME NEW t \in [Kinds -> Nat], NEW u \in [Kinds -> Nat]
  PROVE  Plus(t, u) \in [Kinds -> Nat]
BY DEF Plus, Kinds

LEMMA ColoringLoads ==
  ASSUME IInv, pc = "color", table \in [Kinds -> Nat]
  PROVE  LoadsAreNatural
<1>1. pos <= Len(batch) /\ Progress
  BY DEF IInv, Progress
<1>2. Stripe \in StripesOf
  BY <1>1, StripeIs
<1>3. LoadOf(Traffic(Stripe, coloring)) \in [Kinds -> Nat]
  BY <1>2, CountedLoads
<1> QED BY <1>3 DEF LoadsAreNatural, IInv, LoadsAreExact

LEMMA NaturalStep ==
  ASSUME IInv, IInv', LoadsAreNatural, [Next]_vars
  PROVE  LoadsAreNatural'
<1>1. CASE UNCHANGED vars
  BY <1>1 DEF vars, LoadsAreNatural, Stripe
<1>2. CASE Prepare \/ Recolor \/ \E v \in todo : ColorHyper(v) \/ ColorMulti(v) \/ ColorLocal(v)
  <2>1. pc' = "color" /\ table' = table
    BY <1>2 DEF Prepare, Recolor, ColorHyper, ColorMulti, ColorLocal, Visit
  <2>2. (pc = "color" /\ table \in [Kinds -> Nat])'
    BY <2>1 DEF LoadsAreNatural
  <2>3. (IInv /\ pc = "color" /\ table \in [Kinds -> Nat] => LoadsAreNatural)'
    BY ColoringLoads, PTL
  <2> QED BY <2>2, <2>3
<1>3. CASE FinishHyper \/ FinishMulti \/ FinishAlone
  <2> DEFINE mine == LoadOf(Traffic(Stripe, coloring))
             other == LoadOf(Traffic(Stripe, hyper.coloring))
  <2>1. pc = "color" /\ pos <= Len(batch) /\ Progress /\ pc' = "prepare"
    BY <1>3 DEF FinishHyper, FinishMulti, FinishAlone, IInv, Progress
  <2>2. Stripe \in StripesOf /\ Stripe = batch[pos]
    BY <2>1, StripeIs
  <2>3. mine \in [Kinds -> Nat] /\ other \in [Kinds -> Nat]
    BY <2>2, CountedLoads
  <2>4. Colored.load = mine
    BY DEF Colored
  <2>5. method = 1 /\ round = "multi" => hyper.load = other
    BY <2>2 DEF IInv, HyperIsExact
  <2>6. load' = mine \/ load' = other
    BY <1>3, <2>4, <2>5 DEF FinishHyper, FinishMulti, FinishAlone
  <2>7. table' = table \/ table' = Zero \/ table' = Plus(table, mine)
    BY <1>3, <2>4 DEF FinishHyper, FinishMulti, FinishAlone
  <2> HIDE DEF mine, other
  <2>8. Zero \in [Kinds -> Nat]
    BY DEF Zero, Kinds
  <2>9. table' \in [Kinds -> Nat]
    BY <2>3, <2>7, <2>8, PlusType DEF LoadsAreNatural
  <2> QED BY <2>1, <2>3, <2>6, <2>9 DEF LoadsAreNatural
<1> QED BY <1>1, <1>2, <1>3 DEF Next

\* changeColor asserts that no load falls below zero: none does, of the stripe or in the
\* load table, but for a second coloring in which a vertex belongs to two groups of siblings.
THEOREM LoadsStayNatural == Spec => []LoadsAreNatural
<1>1. Init => LoadsAreNatural
  <2> SUFFICES ASSUME Init PROVE LoadsAreNatural
    OBVIOUS
  <2>1. Zero \in [Kinds -> Nat]
    BY DEF Zero, Kinds
  <2> QED BY <2>1 DEF Init, LoadsAreNatural
<1>2. IInv /\ IInv' /\ LoadsAreNatural /\ [Next]_vars => LoadsAreNatural'
  BY NaturalStep
<1> QED BY <1>1, <1>2, Invariance, PTL DEF Spec
=============================================================================
