------------------------ MODULE OfflineColoring_proofs ------------------------
(***************************************************************************)
(* The search of genMLP and NewgenMLP keeps a curve that is sorted and     *)
(* misses no recoloring (IInv), and what OfflineSolution makes of its      *)
(* answer has the load and the bandwidth that the search has measured      *)
(* (OInv).  The parts: the list, the walk of a new point over it, the      *)
(* maps, the steps of a search; then solutions as texts, colorings that    *)
(* differ in the names of the nodes, the coloring of one stripe, and the   *)
(* sums over a batch.                                                      *)
(***************************************************************************)
EXTENDS OfflineColoring, FiniteSetTheorems, WellFoundedInduction, TLAPS

----------------------------------------------------------------------------
(* Induction over sets of naturals, and sums *)

\* A set of naturals that has 0, and k + 1 whenever it has k, has them all.
LEMMA SetInduction ==
  ASSUME NEW T \in SUBSET Nat, 0 \in T, \A k \in T : k + 1 \in T
  PROVE  T = Nat
<1> SUFFICES ASSUME T # Nat PROVE FALSE
  OBVIOUS
<1> DEFINE D == Nat \ T
           R == OpToRel(<, Nat)
<1>1. IsWellFoundedOn(R, Nat)
  BY NatLessThanWellFounded
<1>2. D \subseteq Nat /\ D # {}
  OBVIOUS
<1>3. PICK x \in D : \A y \in D : ~ (<<y, x>> \in R)
  <2> HIDE DEF D, R
  <2> QED BY <1>1, <1>2, WFMin
<1>4. <<x - 1, x>> \in R
  BY DEF OpToRel
<1>5. x - 1 \in T
  <2>1. x \in Nat /\ x # 0
    OBVIOUS
  <2>2. x - 1 \in Nat
    BY <2>1
  <2> HIDE DEF R
  <2>3. x - 1 \notin D
    BY <1>3, <1>4
  <2> QED BY <2>2, <2>3
<1> QED BY <1>5

\* A set of naturals that is not empty has a least element.
LEMMA LeastElement ==
  ASSUME NEW D, D \subseteq Nat, D # {}
  PROVE  \E x \in D : \A y \in D : x <= y
<1> DEFINE R == OpToRel(<, Nat)
<1>1. IsWellFoundedOn(R, Nat)
  BY NatLessThanWellFounded
<1>2. PICK x \in D : \A y \in D : ~ (<<y, x>> \in R)
  <2> HIDE DEF R
  <2> QED BY <1>1, WFMin
<1>3. ASSUME NEW y \in D PROVE x <= y
  <2>1. x \in Nat /\ y \in Nat
    OBVIOUS
  <2>2. y < x => <<y, x>> \in R
    BY <2>1 DEF OpToRel
  <2> HIDE DEF R
  <2> QED BY <1>2, <2>1, <2>2
<1> QED BY <1>3

\* Natural numbers that are bounded have a greatest.
LEMMA GreatestElement ==
  ASSUME NEW S, S \subseteq Nat, NEW x \in S, NEW bound \in Nat,
         \A y \in S : y <= bound
  PROVE  \E g \in S : \A y \in S : g >= y
<1> DEFINE D == {d \in Nat : \E y \in S : y = bound - d}
<1>1. bound - x \in D
  OBVIOUS
<1>2. PICK d \in D : \A c \in D : d <= c
  <2>1. D \subseteq Nat /\ D # {}
    BY <1>1
  <2> HIDE DEF D
  <2> QED BY <2>1, LeastElement
<1>3. PICK g \in S : g = bound - d
  OBVIOUS
<1>4. ASSUME NEW y \in S PROVE g >= y
  <2>1. bound - y \in D
    OBVIOUS
  <2>2. d <= bound - y
    BY <2>1, <1>2
  <2>3. d \in Nat /\ y \in Nat /\ g \in Nat
    OBVIOUS
  <2> HIDE DEF D
  <2> QED BY <2>2, <2>3, <1>3
<1> QED BY <1>4

\* before is the sum of the first weights, up to each of them.
IsSum(before, weight, k) ==
  before = [i \in 0 .. k |-> IF i = 0 THEN 0 ELSE before[i - 1] + weight[i]]

\* The sums exist for every sequence of weights.
LEMMA SumExists ==
  ASSUME NEW weight, NEW k \in Nat
  PROVE  \E before : IsSum(before, weight, k)
<1> DEFINE T == {m \in Nat : \E before : IsSum(before, weight, m)}
<1>1. 0 \in T
  <2>1. IsSum([i \in 0 .. 0 |-> 0], weight, 0)
    BY DEF IsSum
  <2> QED BY <2>1
<1>2. ASSUME NEW m \in T PROVE m + 1 \in T
  <2>1. PICK before : IsSum(before, weight, m)
    OBVIOUS
  <2> DEFINE next == [i \in 0 .. m + 1 |->
                        IF i = m + 1 THEN before[m] + weight[m + 1] ELSE before[i]]
  <2>2. IsSum(next, weight, m + 1)
    BY <2>1 DEF IsSum
  <2> QED BY <2>2
<1>3. T = Nat
  <2> HIDE DEF T
  <2>1. T \in SUBSET Nat
    BY DEF T
  <2> QED BY <1>1, <1>2, <2>1, SetInduction
<1> QED BY <1>3

\* A longer sum continues a shorter one.
LEMMA SumContinues ==
  ASSUME NEW weight, NEW k \in Nat, NEW m \in Nat, k <= m,
         NEW f, IsSum(f, weight, k), NEW g, IsSum(g, weight, m)
  PROVE  \A i \in 0 .. k : f[i] = g[i]
<1> DEFINE T == {i \in Nat : i <= k => f[i] = g[i]}
<1>1. 0 \in T
  BY DEF IsSum
<1>2. ASSUME NEW i \in T PROVE i + 1 \in T
  <2> SUFFICES ASSUME i + 1 <= k PROVE f[i + 1] = g[i + 1]
    OBVIOUS
  <2>1. f[i + 1] = f[i] + weight[i + 1]
    BY DEF IsSum
  <2>2. g[i + 1] = g[i] + weight[i + 1]
    BY DEF IsSum
  <2> QED BY <2>1, <2>2
<1>3. T = Nat
  <2> HIDE DEF T
  <2>1. T \in SUBSET Nat
    BY DEF T
  <2> QED BY <1>1, <1>2, <2>1, SetInduction
<1> QED BY <1>3

\* Sums of natural numbers are natural numbers and grow.
LEMMA SumGrows ==
  ASSUME NEW k \in Nat, NEW weight, \A i \in 1 .. k : weight[i] \in Nat,
         NEW f, IsSum(f, weight, k)
  PROVE  /\ \A i \in 0 .. k : f[i] \in Nat
         /\ \A i, j \in 0 .. k : i <= j => f[i] <= f[j]
<1>1. \A i \in 0 .. k : f[i] \in Nat
  <2> DEFINE T == {i \in Nat : i <= k => f[i] \in Nat}
  <2>1. 0 \in T
    BY DEF IsSum
  <2>2. ASSUME NEW i \in T PROVE i + 1 \in T
    <3> SUFFICES ASSUME i + 1 <= k PROVE f[i + 1] \in Nat
      OBVIOUS
    <3>1. f[i + 1] = f[i] + weight[i + 1]
      BY DEF IsSum
    <3> QED BY <3>1
  <2>3. T = Nat
    <3> HIDE DEF T
    <3>1. T \in SUBSET Nat
      BY DEF T
    <3> QED BY <2>1, <2>2, <3>1, SetInduction
  <2> QED BY <2>3
<1>2. ASSUME NEW i \in 0 .. k, NEW j \in 0 .. k, i <= j PROVE f[i] <= f[j]
  <2> DEFINE T == {d \in Nat : i + d <= k => f[i] <= f[i + d]}
  <2>1. 0 \in T
    BY <1>1
  <2>2. ASSUME NEW d \in T PROVE d + 1 \in T
    <3> SUFFICES ASSUME i + d + 1 <= k PROVE f[i] <= f[i + d + 1]
      OBVIOUS
    <3>1. f[i + d + 1] = f[i + d] + weight[i + d + 1]
      BY DEF IsSum
    <3>2. f[i + d + 1] \in Nat /\ f[i + d] \in Nat /\ f[i] \in Nat
      BY <1>1
    <3> QED BY <3>1, <3>2
  <2>3. T = Nat
    <3> HIDE DEF T
    <3>1. T \in SUBSET Nat
      BY DEF T
    <3> QED BY <2>1, <2>2, <3>1, SetInduction
  <2>4. j - i \in Nat
    BY <1>2
  <2>5. i + (j - i) <= k => f[i] <= f[i + (j - i)]
    BY <2>3, <2>4
  <2>6. i + (j - i) = j
    OBVIOUS
  <2> QED BY <2>5, <2>6
<1> QED BY <1>1, <1>2

----------------------------------------------------------------------------
(* Solutions and points *)

\* TLC keeps the values of a tabulated function; it is the same function.
LEMMA TabulatedIs == ASSUME NEW f PROVE Tabulated(f) = f
BY DEF Tabulated

LEMMA ImageIsFinite ==
  ASSUME NEW S, IsFiniteSet(S), NEW f
  PROVE  IsFiniteSet({f[x] : x \in S})
<1> DEFINE T == {f[x] : x \in S}
           g == [x \in S |-> f[x]]
<1>1. g \in Surjection(S, T)
  BY DEF Surjection
<1> HIDE DEF T, g
<1>2. IsFiniteSet(T)
  BY <1>1, FS_Surjection
<1> QED BY <1>2 DEF T

\* Sets of numbers that are bounded have their maximum.
LEMMA MaxIs ==
  ASSUME NEW S, S \subseteq Nat, S # {}, NEW bound \in Nat, \A x \in S : x <= bound
  PROVE  /\ Max(S) \in S
         /\ \A x \in S : x <= Max(S)
<1>1. PICK g \in S : \A y \in S : g >= y
  <2>1. PICK x \in S : TRUE
    OBVIOUS
  <2> QED BY <2>1, GreatestElement
<1>2. /\ Max(S) \in S
      /\ \A y \in S : Max(S) >= y
  BY <1>1 DEF Max
<1>3. Max(S) \in Nat
  BY <1>2
<1> QED BY <1>2, <1>3

NodesOf(g) == DagOf[g].nodes

\* The parents of a vertex, and headers have none.
LEMMA ParentsAre ==
  ASSUME NEW g \in Groups, NEW v \in NodesOf(g)
  PROVE  /\ Parents[g][v] = {p \in NodesOf(g) : v \in ChildsOf(DagOf[g], p)}
         /\ v \in DagOf[g].headers => Parents[g][v] = {}
<1>1. Parents = [h \in Groups |-> Tabulated([x \in DagOf[h].nodes |-> ParentsOf(DagOf[h], x)])]
  BY TabulatedIs DEF Parents
<1>2. Parents[g] = [x \in DagOf[g].nodes |-> ParentsOf(DagOf[g], x)]
  BY <1>1, TabulatedIs
<1>5. Parents[g][v] = ParentsOf(DagOf[g], v)
  BY <1>2 DEF NodesOf
<1>6. v \in DagOf[g].headers => \A p \in NodesOf(g) : v \notin ChildsOf(DagOf[g], p)
  BY DagsAssumption DEF NodesOf
<1> QED BY <1>5, <1>6 DEF ParentsOf, NodesOf

\* A flow of a coloring, from a vertex to a parent of another color.
LEMMA FlowsAre ==
  ASSUME NEW g \in Groups, NEW col, NEW f
  PROVE  f \in Flows(g, col) <=>
           \E v \in NodesOf(g) : \E p \in Parents[g][v] :
             /\ col[v] # -1 /\ col[p] # -1 /\ col[p] # col[v]
             /\ f = <<v, col[v], col[p]>>
<1> DEFINE colored == {x \in DagOf[g].nodes : col[x] # -1}
           from(v) == {<<v, col[v], c>> : c \in {col[p] : p \in Parents[g][v]} \ {col[v], -1}}
<1>1. Flows(g, col) = UNION {from(v) : v \in colored}
  BY DEF Flows
<1>2. \A v : f \in from(v) <=>
               \E p \in Parents[g][v] : /\ col[p] # -1 /\ col[p] # col[v]
                                        /\ f = <<v, col[v], col[p]>>
  OBVIOUS
<1>3. f \in UNION {from(v) : v \in colored} <=> \E v \in colored : f \in from(v)
  OBVIOUS
<1> HIDE DEF from
<1> QED BY <1>1, <1>2, <1>3 DEF NodesOf

\* A coloring has finitely many flows.
LEMMA FlowsAreFinite ==
  ASSUME NEW g \in Groups, NEW col
  PROVE  /\ IsFiniteSet(Flows(g, col))
         /\ Cardinality(Flows(g, col)) \in Nat
<1> DEFINE pairs == NodesOf(g) \X NodesOf(g)
           flow == [q \in pairs |-> <<q[1], col[q[1]], col[q[2]]>>]
           all == {flow[q] : q \in pairs}
<1>1. IsFiniteSet(pairs)
  <2>1. IsFiniteSet(NodesOf(g))
    BY DagsAssumption DEF NodesOf
  <2> QED BY <2>1, FS_Product
<1>2. IsFiniteSet(all)
  <2> HIDE DEF pairs, flow
  <2> QED BY <1>1, ImageIsFinite
<1>3. ASSUME NEW f \in Flows(g, col) PROVE f \in all
  <2>1. PICK v \in NodesOf(g) : \E p \in Parents[g][v] : f = <<v, col[v], col[p]>>
    BY FlowsAre
  <2>2. PICK p \in Parents[g][v] : f = <<v, col[v], col[p]>>
    BY <2>1
  <2>3. <<v, p>> \in pairs
    BY <2>2, ParentsAre
  <2>4. f = flow[<<v, p>>]
    BY <2>2, <2>3
  <2> QED BY <2>3, <2>4
<1>4. Flows(g, col) \in SUBSET all
  BY <1>3
<1>5. IsFiniteSet(Flows(g, col))
  <2> HIDE DEF all
  <2> QED BY <1>2, <1>4, FS_Subset
<1> QED BY <1>5, FS_CardinalityType

\* How many flows leave, or reach, a node.
CountOf(flows, side, c) == Cardinality({f \in flows : f[side] = c})

LEMMA CountType ==
  ASSUME NEW flows, IsFiniteSet(flows), NEW side, NEW c
  PROVE  /\ IsFiniteSet({f \in flows : f[side] = c})
         /\ CountOf(flows, side, c) \in Nat
         /\ CountOf(flows, side, c) <= Cardinality(flows)
<1>1. {f \in flows : f[side] = c} \in SUBSET flows
  OBVIOUS
<1>2. /\ IsFiniteSet({f \in flows : f[side] = c})
      /\ Cardinality({f \in flows : f[side] = c}) <= Cardinality(flows)
  BY <1>1, FS_Subset
<1> QED BY <1>2, FS_CardinalityType DEF CountOf

CountsOf(g, flows) == {CountOf(flows, side, c) : c \in Colors(g), side \in {2, 3}}

\* What Point measures: the most that a node sends or receives, and all flows.
LEMMA PointIs ==
  ASSUME NEW g \in Groups, NEW sol \in Solutions(g)
  PROVE  LET flows == Flows(g, Coloring(g, sol))
         IN  /\ Point(g, sol) = [sol |-> sol, load |-> Max(CountsOf(g, flows)),
                                 bdwt |-> Cardinality(flows)]
             /\ Max(CountsOf(g, flows)) \in Nat
             /\ Cardinality(flows) \in Nat
<1> DEFINE col == Coloring(g, sol)
           flows == Flows(g, col)
<1>1. Points = [h \in Groups |-> Tabulated([s \in Solutions(h) |-> Evaluated(h, s)])]
  BY TabulatedIs DEF Points
<1>2. Points[g] = [s \in Solutions(g) |-> Evaluated(g, s)]
  BY <1>1, TabulatedIs
<1>5. Point(g, sol) = Evaluated(g, sol)
  BY <1>2 DEF Point
<1>6. Tabulated(col) = col
  BY TabulatedIs
<1>7. Evaluated(g, sol) = [sol |-> sol, load |-> Max(CountsOf(g, flows)),
                           bdwt |-> Cardinality(flows)]
  <2> HIDE DEF col
  <2>1. Flows(g, Tabulated(Coloring(g, sol))) = flows
    BY <1>6 DEF col
  <2>2. CountsOf(g, flows) = {Cardinality({f \in flows : f[side] = c}) :
                                c \in Colors(g), side \in {2, 3}}
    BY DEF CountsOf, CountOf
  <2> HIDE DEF flows
  <2> QED BY <2>1, <2>2 DEF Evaluated
<1>8. IsFiniteSet(flows) /\ Cardinality(flows) \in Nat
  BY FlowsAreFinite
<1>9. Max(CountsOf(g, flows)) \in Nat
  <2> HIDE DEF flows
  <2>1. ASSUME NEW x \in CountsOf(g, flows) PROVE x \in Nat /\ x <= Cardinality(flows)
    <3>1. PICK c \in Colors(g), side \in {2, 3} : x = CountOf(flows, side, c)
      BY DEF CountsOf
    <3> QED BY <1>8, <3>1, CountType
  <2>2. 0 \in Colors(g)
    BY DagsAssumption DEF Colors
  <2>3. CountsOf(g, flows) # {}
    BY <2>2 DEF CountsOf
  <2> QED BY <1>8, <2>1, <2>3, MaxIs
<1> QED BY <1>5, <1>7, <1>8, <1>9

\* The points of a group: what the proofs about the curve need to know of them.
PointsOf(g) == {Point(g, s) : s \in Solutions(g)}

\* A point is that of its solution, with a natural load and bandwidth.
LEMMA PointsAre ==
  ASSUME NEW g \in Groups, NEW p \in PointsOf(g)
  PROVE  /\ p.sol \in Solutions(g) /\ p = Point(g, p.sol)
         /\ p.load \in Nat /\ p.bdwt \in Nat
<1>1. PICK s \in Solutions(g) : p = Point(g, s)
  BY DEF PointsOf
<1>2. p.sol = s /\ p.load \in Nat /\ p.bdwt \in Nat
  BY <1>1, PointIs
<1> QED BY <1>1, <1>2

LEMMA SolIs ==
  ASSUME NEW g \in Groups, NEW s \in Solutions(g)
  PROVE  Point(g, s) \in PointsOf(g) /\ Point(g, s).sol = s
BY PointIs DEF PointsOf

\* A solution with one vertex recolored is a solution.
LEMMA RecoloredIs ==
  ASSUME NEW g \in Groups, NEW s \in Solutions(g), NEW i \in DOMAIN s, NEW c \in Colors(g)
  PROVE  Recolored(s, i, c) \in Solutions(g)
BY DEF Recolored, Solutions

----------------------------------------------------------------------------
(* The list *)

\* Sequences with the same elements are the same.
LEMMA SameSeq ==
  ASSUME NEW S, NEW s \in Seq(S), NEW t \in Seq(S), Len(s) = Len(t),
         \A i \in 1 .. Len(s) : s[i] = t[i]
  PROVE  s = t
OBVIOUS

LEMMA ConcatIs ==
  ASSUME NEW S, NEW s \in Seq(S), NEW t \in Seq(S)
  PROVE  /\ s \o t \in Seq(S) /\ Len(s \o t) = Len(s) + Len(t)
         /\ \A j \in 1 .. Len(s) : (s \o t)[j] = s[j]
         /\ \A j \in Len(s) + 1 .. Len(s) + Len(t) : (s \o t)[j] = t[j - Len(s)]
OBVIOUS

LEMMA OneIs ==
  ASSUME NEW S, NEW p \in S
  PROVE  <<p>> \in Seq(S) /\ Len(<<p>>) = 1 /\ <<p>>[1] = p
OBVIOUS

\* The list with p in the place of what is behind a, up to m.
Splice(list, a, m, p) ==
  [j \in 1 .. a + 1 + (Len(list) - m) |->
     IF j <= a THEN list[j] ELSE IF j = a + 1 THEN p ELSE list[j - (a + 1) + m]]

\* A part of the list, which may be empty.
LEMMA SubSeqIs ==
  ASSUME NEW S, NEW list \in Seq(S), NEW a \in 1 .. Len(list) + 1, NEW b \in 0 .. Len(list),
         a <= b + 1
  PROVE  /\ SubSeq(list, a, b) \in Seq(S)
         /\ Len(SubSeq(list, a, b)) = b - a + 1
         /\ \A j \in 1 .. b - a + 1 : SubSeq(list, a, b)[j] = list[a + j - 1]
<1>1. SubSeq(list, a, b) = [i \in 1 .. b - a + 1 |-> list[a + i - 1]]
  OBVIOUS
<1>2. \A i \in 1 .. b - a + 1 : a + i - 1 \in 1 .. Len(list)
  OBVIOUS
<1>3. \A i \in 1 .. b - a + 1 : list[a + i - 1] \in S
  BY <1>2
<1>4. [i \in 1 .. b - a + 1 |-> list[a + i - 1]] \in Seq(S)
  BY <1>3
<1> QED BY <1>1, <1>4

LEMMA SpliceIs ==
  ASSUME NEW S, NEW list \in Seq(S), NEW p \in S, NEW a \in 0 .. Len(list),
         NEW m \in a .. Len(list)
  PROVE  /\ Splice(list, a, m, p) \in Seq(S)
         /\ Len(Splice(list, a, m, p)) = a + 1 + (Len(list) - m)
<1> DEFINE n == a + 1 + (Len(list) - m)
<1>1. n \in Nat
  OBVIOUS
<1>2. ASSUME NEW j \in 1 .. n
      PROVE  (IF j <= a THEN list[j] ELSE IF j = a + 1 THEN p ELSE list[j - (a + 1) + m]) \in S
  <2>1. CASE j <= a
    BY <2>1
  <2>2. CASE j = a + 1
    BY <2>2
  <2>3. CASE j > a + 1
    <3>1. j - (a + 1) + m \in 1 .. Len(list)
      BY <2>3
    <3> QED BY <2>3, <3>1
  <2> QED BY <2>1, <2>2, <2>3
<1> QED BY <1>1, <1>2 DEF Splice

\* The first a points of the list, and those behind the first m.
Starts(S, list, a, s) ==
  s \in Seq(S) /\ Len(s) = a /\ \A j \in 1 .. a : s[j] = list[j]
Ends(S, list, m, t) ==
  t \in Seq(S) /\ Len(t) = Len(list) - m /\ \A j \in 1 .. Len(list) - m : t[j] = list[m + j]

\* Whatever is put together like that is the splice.
LEMMA JoinedIs ==
  ASSUME NEW S, NEW list \in Seq(S), NEW p \in S, NEW a \in 0 .. Len(list),
         NEW m \in a .. Len(list),
         NEW s, Starts(S, list, a, s), NEW t, Ends(S, list, m, t)
  PROVE  s \o <<p>> \o t = Splice(list, a, m, p)
<1> DEFINE one == <<p>>
           h == s \o one
           u == h \o t
           v == Splice(list, a, m, p)
           n == a + 1 + (Len(list) - m)
<1>0. /\ s \in Seq(S) /\ Len(s) = a /\ \A j \in 1 .. a : s[j] = list[j]
      /\ t \in Seq(S) /\ Len(t) = Len(list) - m
      /\ \A j \in 1 .. Len(list) - m : t[j] = list[m + j]
  BY DEF Starts, Ends
<1>1. one \in Seq(S) /\ Len(one) = 1 /\ one[1] = p
  BY OneIs
<1>2. v \in Seq(S) /\ Len(v) = n
  BY SpliceIs
<1>3. \A j \in 1 .. n :
        v[j] = IF j <= a THEN list[j] ELSE IF j = a + 1 THEN p ELSE list[j - (a + 1) + m]
  BY DEF Splice
<1> HIDE DEF one, v
<1>4. /\ h \in Seq(S) /\ Len(h) = a + 1
      /\ \A j \in 1 .. a : h[j] = s[j]
      /\ h[a + 1] = p
  <2>1. /\ h \in Seq(S) /\ Len(h) = a + 1
        /\ \A j \in 1 .. a : h[j] = s[j]
        /\ \A j \in a + 1 .. a + 1 : h[j] = one[j - a]
    <3>1. /\ h \in Seq(S) /\ Len(h) = Len(s) + Len(one)
          /\ \A j \in 1 .. Len(s) : h[j] = s[j]
          /\ \A j \in Len(s) + 1 .. Len(s) + Len(one) : h[j] = one[j - Len(s)]
      BY <1>0, <1>1, ConcatIs
    <3> HIDE DEF h
    <3> QED BY <1>0, <1>1, <3>1
  <2>2. a + 1 \in a + 1 .. a + 1 /\ a + 1 - a = 1
    OBVIOUS
  <2> HIDE DEF h
  <2>3. h[a + 1] = one[a + 1 - a]
    BY <2>1, <2>2
  <2> QED BY <1>1, <2>1, <2>2, <2>3
<1> HIDE DEF h
<1>5. /\ u \in Seq(S) /\ Len(u) = n
      /\ \A j \in 1 .. a + 1 : u[j] = h[j]
      /\ \A j \in a + 2 .. n : u[j] = t[j - (a + 1)]
  <2>1. /\ u \in Seq(S) /\ Len(u) = a + 1 + Len(t)
        /\ \A j \in 1 .. a + 1 : u[j] = h[j]
        /\ \A j \in a + 1 + 1 .. a + 1 + Len(t) : u[j] = t[j - (a + 1)]
    <3>1. /\ u \in Seq(S) /\ Len(u) = Len(h) + Len(t)
          /\ \A j \in 1 .. Len(h) : u[j] = h[j]
          /\ \A j \in Len(h) + 1 .. Len(h) + Len(t) : u[j] = t[j - Len(h)]
      <4>1. h \in Seq(S) /\ t \in Seq(S)
        BY <1>0, <1>4
      <4> QED BY <4>1, ConcatIs
    <3> HIDE DEF u
    <3> QED BY <1>4, <3>1
  <2>2. a + 1 + Len(t) = n /\ a + 1 + 1 = a + 2
    BY <1>0
  <2> HIDE DEF u
  <2> QED BY <2>1, <2>2
<1> HIDE DEF u
<1>6. n \in Nat
  OBVIOUS
<1>7. ASSUME NEW j \in 1 .. n PROVE u[j] = v[j]
  <2>1. CASE j <= a
    <3>1. j \in 1 .. a /\ j \in 1 .. a + 1
      BY <2>1
    <3>2. u[j] = list[j]
      BY <1>0, <1>4, <1>5, <3>1
    <3> QED BY <1>3, <2>1, <3>2
  <2>2. CASE j = a + 1
    <3>1. a + 1 \in 1 .. a + 1 /\ ~ (a + 1 <= a)
      OBVIOUS
    <3>2. u[j] = p
      BY <1>4, <1>5, <2>2, <3>1
    <3> QED BY <1>3, <2>2, <3>1, <3>2
  <2>3. CASE j > a + 1
    <3>1. j - (a + 1) \in 1 .. Len(list) - m /\ j \in a + 2 .. n
      BY <2>3
    <3>2. u[j] = list[m + (j - (a + 1))]
      BY <1>0, <1>5, <3>1
    <3>3. v[j] = list[j - (a + 1) + m]
      <4>1. j \in 1 .. n /\ ~ (j <= a) /\ j # a + 1
        BY <2>3
      <4> QED BY <1>3, <4>1
    <3>4. m + (j - (a + 1)) = j - (a + 1) + m
      BY <3>1
    <3> QED BY <3>2, <3>3, <3>4
  <2> QED BY <2>1, <2>2, <2>3
<1>8. u = v
  BY <1>2, <1>5, <1>7, SameSeq
<1> QED BY <1>8 DEF u, h, v, one

\* A point that is in the list once.
LEMMA PlaceIs ==
  ASSUME NEW S, NEW list \in Seq(S), NEW i \in 1 .. Len(list),
         \A j \in 1 .. Len(list) : list[j] = list[i] => j = i
  PROVE  /\ PlaceOf(list, list[i]) = i
         /\ Starts(S, list, i - 1, Before(list, list[i]))
         /\ Ends(S, list, i, Behind(list, list[i]))
<1>1. PlaceOf(list, list[i]) = i
  BY DEF PlaceOf
<1>2. Before(list, list[i]) = SubSeq(list, 1, i - 1)
  BY <1>1 DEF Before
<1>3. Behind(list, list[i]) = SubSeq(list, i + 1, Len(list))
  BY <1>1 DEF Behind
<1>4. /\ SubSeq(list, 1, i - 1) \in Seq(S)
      /\ Len(SubSeq(list, 1, i - 1)) = i - 1 - 1 + 1
      /\ \A j \in 1 .. i - 1 - 1 + 1 : SubSeq(list, 1, i - 1)[j] = list[1 + j - 1]
  <2>1. 1 \in 1 .. Len(list) + 1 /\ i - 1 \in 0 .. Len(list) /\ 1 <= i - 1 + 1
    OBVIOUS
  <2> QED BY <2>1, SubSeqIs
<1>5. /\ SubSeq(list, i + 1, Len(list)) \in Seq(S)
      /\ Len(SubSeq(list, i + 1, Len(list))) = Len(list) - (i + 1) + 1
      /\ \A j \in 1 .. Len(list) - (i + 1) + 1 :
           SubSeq(list, i + 1, Len(list))[j] = list[i + 1 + j - 1]
  <2>1. i + 1 \in 1 .. Len(list) + 1 /\ Len(list) \in 0 .. Len(list) /\ i + 1 <= Len(list) + 1
    OBVIOUS
  <2> QED BY <2>1, SubSeqIs
<1>6. \A j \in 1 .. i - 1 : SubSeq(list, 1, i - 1)[j] = list[j]
  <2> SUFFICES ASSUME NEW j \in 1 .. i - 1 PROVE SubSeq(list, 1, i - 1)[j] = list[j]
    OBVIOUS
  <2>1. j \in 1 .. i - 1 - 1 + 1 /\ 1 + j - 1 = j
    OBVIOUS
  <2> QED BY <1>4, <2>1
<1>7. \A j \in 1 .. Len(list) - i : SubSeq(list, i + 1, Len(list))[j] = list[i + j]
  <2> SUFFICES ASSUME NEW j \in 1 .. Len(list) - i
               PROVE  SubSeq(list, i + 1, Len(list))[j] = list[i + j]
    OBVIOUS
  <2>1. j \in 1 .. Len(list) - (i + 1) + 1 /\ i + 1 + j - 1 = i + j
    OBVIOUS
  <2> QED BY <1>5, <2>1
<1>8. i - 1 - 1 + 1 = i - 1 /\ Len(list) - (i + 1) + 1 = Len(list) - i
  OBVIOUS
<1> QED BY <1>1, <1>2, <1>3, <1>4, <1>5, <1>6, <1>7, <1>8 DEF Starts, Ends

InSeq(list) == {list[i] : i \in 1 .. Len(list)}

LEMMA ToSetIs == ASSUME NEW S, NEW list \in Seq(S) PROVE ToSet(list) = InSeq(list)
BY DEF ToSet, InSeq

\* The new point takes the place of the first point that it beats, ...
LEMMA ReplacedFirst ==
  ASSUME NEW S, NEW list \in Seq(S), NEW p \in S, p \notin InSeq(list),
         \A j, k \in 1 .. Len(list) : list[j] = list[k] => j = k,
         NEW i \in 1 .. Len(list)
  PROVE  Replaced(list, p, list[i]) = Splice(list, i - 1, i, p)
<1> DEFINE s == Before(list, list[i])
           t == Behind(list, list[i])
<1>1. Replaced(list, p, list[i]) = s \o <<p>> \o t
  BY ToSetIs DEF Replaced
<1>2. Starts(S, list, i - 1, s) /\ Ends(S, list, i, t)
  BY PlaceIs
<1>3. i - 1 \in 0 .. Len(list) /\ i \in i - 1 .. Len(list)
  OBVIOUS
<1> HIDE DEF s, t
<1>4. s \o <<p>> \o t = Splice(list, i - 1, i, p)
  BY <1>2, <1>3, JoinedIs
<1> QED BY <1>1, <1>4

\* ... and cuts out those that follow.
LEMMA ReplacedMore ==
  ASSUME NEW S, NEW list \in Seq(S), NEW p \in S, p \notin InSeq(list),
         \A j, k \in 1 .. Len(list) : list[j] = list[k] => j = k,
         NEW a \in 0 .. Len(list), NEW m \in a .. Len(list), m < Len(list)
  PROVE  Replaced(Splice(list, a, m, p), p, list[m + 1]) = Splice(list, a, m + 1, p)
<1> DEFINE u == Splice(list, a, m, p)
           s == Before(u, p)
           t == Behind(u, list[m + 1])
           n == a + 1 + (Len(list) - m)
<1>1. u \in Seq(S) /\ Len(u) = n
  BY SpliceIs
<1>2. /\ \A j \in 1 .. a : u[j] = list[j]
      /\ u[a + 1] = p
      /\ \A j \in a + 2 .. n : u[j] = list[j - (a + 1) + m] /\ j - (a + 1) + m \in 1 .. Len(list)
  <2>1. \A j \in 1 .. n :
          u[j] = IF j <= a THEN list[j] ELSE IF j = a + 1 THEN p ELSE list[j - (a + 1) + m]
    BY DEF Splice
  <2>2. n \in Nat /\ a + 1 \in 1 .. n
    OBVIOUS
  <2> HIDE DEF u
  <2>3. \A j \in 1 .. a : u[j] = list[j]
    BY <2>1, <2>2
  <2>4. u[a + 1] = p
    BY <2>1, <2>2
  <2>5. ASSUME NEW j \in a + 2 .. n
        PROVE  u[j] = list[j - (a + 1) + m] /\ j - (a + 1) + m \in 1 .. Len(list)
    <3>1. j \in 1 .. n /\ ~ (j <= a) /\ j # a + 1 /\ j - (a + 1) + m \in 1 .. Len(list)
      BY <2>2
    <3> HIDE DEF n
    <3> QED BY <2>1, <3>1
  <2> QED BY <2>3, <2>4, <2>5
<1> HIDE DEF u
<1>3. \A j \in 1 .. Len(list) : list[j] # p
  BY DEF InSeq
<1>4. ASSUME NEW j \in 1 .. n, u[j] = u[a + 1] PROVE j = a + 1
  <2>1. u[j] = p
    BY <1>2, <1>4
  <2>2. ASSUME j <= a PROVE FALSE
    <3>1. j \in 1 .. a /\ j \in 1 .. Len(list)
      BY <2>2
    <3> QED BY <1>2, <1>3, <2>1, <3>1
  <2>3. ASSUME j > a + 1 PROVE FALSE
    <3>1. j \in a + 2 .. n
      BY <2>3
    <3>2. u[j] = list[j - (a + 1) + m] /\ j - (a + 1) + m \in 1 .. Len(list)
      BY <1>2, <3>1
    <3> QED BY <1>3, <2>1, <3>2
  <2> QED BY <2>2, <2>3
<1>5. a + 1 \in 1 .. Len(u) /\ a + 2 \in 1 .. Len(u)
  BY <1>1
<1>6. u[a + 2] = list[m + 1]
  <2>1. a + 2 \in a + 2 .. n /\ a + 2 - (a + 1) + m = m + 1
    OBVIOUS
  <2>2. u[a + 2] = list[a + 2 - (a + 1) + m]
    BY <1>2, <2>1
  <2> QED BY <2>1, <2>2
<1>7. m >= a /\ m + 1 \in 1 .. Len(list)
  OBVIOUS
<1>8. ASSUME NEW j \in 1 .. n, u[j] = u[a + 2] PROVE j = a + 2
  <2>1. CASE j <= a
    <3>1. u[j] = list[j] /\ j \in 1 .. Len(list) /\ j # m + 1
      BY <1>2, <1>7, <2>1
    <3> QED BY <1>6, <1>7, <1>8, <3>1
  <2>2. CASE j = a + 1
    BY <1>2, <1>3, <1>6, <1>7, <1>8, <2>2
  <2>3. CASE j >= a + 2
    <3>1. u[j] = list[j - (a + 1) + m] /\ j - (a + 1) + m \in 1 .. Len(list)
      BY <1>2, <2>3
    <3>2. j - (a + 1) + m = m + 1
      BY <1>6, <1>7, <1>8, <3>1
    <3> QED BY <3>2
  <2> QED BY <2>1, <2>2, <2>3
<1>9. Starts(S, list, a, s)
  <2>0. \A j \in 1 .. Len(u) : u[j] = u[a + 1] => j = a + 1
    BY <1>1, <1>4
  <2>1. Starts(S, u, a + 1 - 1, Before(u, u[a + 1]))
    BY <1>1, <1>5, <2>0, PlaceIs
  <2>2. a + 1 - 1 = a /\ u[a + 1] = p
    BY <1>2
  <2>3. Starts(S, u, a, s)
    BY <2>1, <2>2
  <2> HIDE DEF s
  <2> QED BY <1>2, <2>3 DEF Starts
<1>10. Ends(S, list, m + 1, t)
  <2>0. \A j \in 1 .. Len(u) : u[j] = u[a + 2] => j = a + 2
    BY <1>1, <1>8
  <2>1. Ends(S, u, a + 2, Behind(u, u[a + 2]))
    BY <1>1, <1>5, <2>0, PlaceIs
  <2>2. n - (a + 2) = Len(list) - (m + 1)
    OBVIOUS
  <2>3. ASSUME NEW j \in 1 .. Len(list) - (m + 1) PROVE u[a + 2 + j] = list[m + 1 + j]
    <3>1. a + 2 + j \in a + 2 .. n /\ a + 2 + j - (a + 1) + m = m + 1 + j
      OBVIOUS
    <3>2. u[a + 2 + j] = list[a + 2 + j - (a + 1) + m]
      BY <1>2, <3>1
    <3> QED BY <3>1, <3>2
  <2>4. Ends(S, u, a + 2, t)
    BY <1>6, <2>1
  <2> HIDE DEF t
  <2> QED BY <1>1, <2>2, <2>3, <2>4 DEF Ends
<1>11. p \in ToSet(u)
  BY <1>1, <1>2, <1>5, ToSetIs DEF InSeq
<1>12. Replaced(u, p, list[m + 1]) = s \o <<p>> \o t
  BY <1>11 DEF Replaced
<1> HIDE DEF s, t
<1>13. m + 1 \in a .. Len(list)
  OBVIOUS
<1>14. s \o <<p>> \o t = Splice(list, a, m + 1, p)
  BY <1>9, <1>10, <1>13, JoinedIs
<1> QED BY <1>12, <1>14 DEF u

\* A new point before one that it is no worse than and no better.
LEMMA InsertedFirst ==
  ASSUME NEW S, NEW list \in Seq(S), NEW p \in S, p \notin InSeq(list),
         \A j, k \in 1 .. Len(list) : list[j] = list[k] => j = k,
         NEW i \in 1 .. Len(list)
  PROVE  InsertedBefore(list, p, list[i]) = Splice(list, i - 1, i - 1, p)
<1> DEFINE s == Before(list, list[i])
           t == SubSeq(list, i, Len(list))
<1>1. /\ Starts(S, list, i - 1, s)
      /\ PlaceOf(list, list[i]) = i
  BY PlaceIs
<1>2. InsertedBefore(list, p, list[i]) = s \o <<p>> \o t
  BY <1>1, ToSetIs DEF InsertedBefore
<1>3. Ends(S, list, i - 1, t)
  <2>1. i \in 1 .. Len(list) + 1 /\ Len(list) \in 0 .. Len(list) /\ i <= Len(list) + 1
    OBVIOUS
  <2>2. /\ t \in Seq(S) /\ Len(t) = Len(list) - i + 1
        /\ \A j \in 1 .. Len(list) - i + 1 : t[j] = list[i + j - 1]
    BY <2>1, SubSeqIs
  <2> HIDE DEF t
  <2>3. Len(list) - i + 1 = Len(list) - (i - 1)
    OBVIOUS
  <2>4. ASSUME NEW j \in 1 .. Len(list) - (i - 1) PROVE t[j] = list[i - 1 + j]
    <3>1. j \in 1 .. Len(list) - i + 1 /\ i + j - 1 = i - 1 + j
      OBVIOUS
    <3>2. t[j] = list[i + j - 1]
      BY <2>2, <3>1
    <3> QED BY <3>1, <3>2
  <2> QED BY <2>2, <2>3, <2>4 DEF Ends
<1>4. i - 1 \in 0 .. Len(list) /\ i - 1 \in i - 1 .. Len(list)
  OBVIOUS
<1> HIDE DEF s, t
<1>5. s \o <<p>> \o t = Splice(list, i - 1, i - 1, p)
  <2> DEFINE a == i - 1
  <2>1. Starts(S, list, a, s) /\ Ends(S, list, a, t)
    BY <1>1, <1>3
  <2>2. a \in 0 .. Len(list) /\ a \in a .. Len(list)
    BY <1>4
  <2> HIDE DEF a
  <2>3. s \o <<p>> \o t = Splice(list, a, a, p)
    BY <2>1, <2>2, JoinedIs
  <2> QED BY <2>3 DEF a
<1> QED BY <1>2, <1>5

\* A new point behind the last one.
LEMMA AppendedIs ==
  ASSUME NEW S, NEW list \in Seq(S), NEW p \in S
  PROVE  Append(list, p) = Splice(list, Len(list), Len(list), p)
<1> DEFINE n == Len(list)
<1>1. Append(list, p) \in Seq(S) /\ Len(Append(list, p)) = n + 1
  OBVIOUS
<1>2. Splice(list, n, n, p) \in Seq(S) /\ Len(Splice(list, n, n, p)) = n + 1
  <2>1. n \in 0 .. Len(list) /\ n \in n .. Len(list)
    OBVIOUS
  <2> DEFINE v == Splice(list, n, n, p)
  <2>2. v \in Seq(S) /\ Len(v) = n + 1 + (Len(list) - n)
    <3> HIDE DEF n
    <3> QED BY <2>1, SpliceIs
  <2> HIDE DEF v
  <2>3. n + 1 + (Len(list) - n) = n + 1
    OBVIOUS
  <2> QED BY <2>2, <2>3 DEF v
<1>3. ASSUME NEW j \in 1 .. n + 1 PROVE Append(list, p)[j] = Splice(list, n, n, p)[j]
  <2>1. Splice(list, n, n, p)[j] = IF j <= n THEN list[j] ELSE p
    BY DEF Splice
  <2> QED BY <2>1
<1> QED BY <1>1, <1>2, <1>3, SameSeq

----------------------------------------------------------------------------
(* One turn of the walk *)

\* q is before p on a curve that has both.
Precedes(q, p) == q.load < p.load /\ q.bdwt > p.bdwt

State(list, gone, end) == [list |-> list, gone |-> gone, end |-> end]
Going(list, gone) == State(list, gone, FALSE)
Over(list, gone) == State(list, gone, TRUE)

IsPoint(p) == p.load \in Nat /\ p.bdwt \in Nat

LEMMA TurnEnded ==
  ASSUME NEW p, NEW q, NEW l, NEW d
  PROVE  Turn(Over(l, d), p, q) = Over(l, d)
BY DEF Turn, State, Over

\* Two points: one is no worse than the other, or they precede each other.
LEMMA Relations ==
  ASSUME NEW p, NEW q, IsPoint(p), IsPoint(q)
  PROVE  /\ NoWorse(q, p) \/ Dominates(p, q) \/ Precedes(q, p) \/ Precedes(p, q)
         /\ NoWorse(q, p) <=> Dominates(q, p) \/ (q.load = p.load /\ q.bdwt = p.bdwt)
         /\ Dominates(p, q) => ~ Dominates(q, p)
         /\ Precedes(q, p) => ~ Dominates(q, p) /\ ~ Dominates(p, q) /\ q.load # p.load /\ ~ (p.load < q.load)
         /\ Precedes(p, q) => ~ Dominates(q, p) /\ ~ Dominates(p, q) /\ q.load # p.load /\ p.load < q.load
BY DEF IsPoint, NoWorse, Dominates, Precedes

LEMMA StateList ==
  ASSUME NEW l, NEW d, NEW x
  PROVE  [State(l, d, FALSE) EXCEPT !.list = x] = State(x, d, FALSE)
<1> DEFINE e == FALSE
<1> HIDE DEF e
<1>1. [State(l, d, e) EXCEPT !.list = x] = State(x, d, e)
  BY DEF State
<1> QED BY <1>1 DEF e

LEMMA StateEnd ==
  ASSUME NEW l, NEW d, NEW e, NEW x
  PROVE  [State(l, d, e) EXCEPT !.end = x] = State(l, d, x)
BY DEF State

\* genMLP compares no point with one of the same load and bandwidth.
Meets(p, q) ==
  /\ IsPoint(p) /\ IsPoint(q) /\ program \in {"genMLP", "NewgenMLP"}
  /\ q.sol = p.sol => q = p
  /\ program = "genMLP" => ~ (q.load = p.load /\ q.bdwt = p.bdwt)

TurnOf(l, d, p, q) ==
  /\ NoWorse(q, p) => Turn(Going(l, d), p, q) = Over(l, d)
  /\ Dominates(p, q) => Turn(Going(l, d), p, q) = Going(Replaced(l, p, q), d \cup {q})
  /\ Precedes(p, q) => Turn(Going(l, d), p, q) = Going(InsertedBefore(l, p, q), d)
  /\ Precedes(q, p) =>
       Turn(Going(l, d), p, q)
         = Going(IF Behind(l, q) = <<>> THEN Append(l, p) ELSE l, d)

\* What the loop over the curve does at a point that the new one may meet.
LEMMA TurnIs ==
  ASSUME NEW p, NEW q, Meets(p, q), NEW l, NEW d
  PROVE  TurnOf(l, d, p, q)
<1> DEFINE w == State(l, d, FALSE)
           same == IF program = "genMLP" THEN q.sol = p.sol ELSE q.load = p.load
<1>0. /\ IsPoint(p) /\ IsPoint(q) /\ program \in {"genMLP", "NewgenMLP"}
      /\ q.sol = p.sol => q = p
      /\ program = "genMLP" => ~ (q.load = p.load /\ q.bdwt = p.bdwt)
  BY DEF Meets
<1>1. w.end = FALSE /\ w.list = l /\ w.gone = d
  BY DEF State
<1>2. /\ [w EXCEPT !.end = TRUE] = State(l, d, TRUE)
      /\ [list |-> Replaced(w.list, p, q), gone |-> w.gone \cup {q}, end |-> FALSE]
           = State(Replaced(l, p, q), d \cup {q}, FALSE)
      /\ [w EXCEPT !.list = InsertedBefore(@, p, q)] = State(InsertedBefore(l, p, q), d, FALSE)
      /\ [w EXCEPT !.list = Append(@, p)] = State(Append(l, p), d, FALSE)
  <2>1. [w EXCEPT !.end = TRUE] = State(l, d, TRUE)
    <3> DEFINE e == FALSE
               x == TRUE
    <3> HIDE DEF e, x
    <3>1. [State(l, d, e) EXCEPT !.end = x] = State(l, d, x)
      BY StateEnd
    <3> QED BY <3>1 DEF e, x
  <2>2. [list |-> Replaced(w.list, p, q), gone |-> w.gone \cup {q}, end |-> FALSE]
           = State(Replaced(w.list, p, q), w.gone \cup {q}, FALSE)
    BY DEF State
  <2>3. [w EXCEPT !.list = InsertedBefore(w.list, p, q)]
           = State(InsertedBefore(w.list, p, q), d, FALSE)
    BY StateList
  <2>4. [w EXCEPT !.list = Append(w.list, p)] = State(Append(w.list, p), d, FALSE)
    BY StateList
  <2> HIDE DEF w
  <2> QED BY <1>1, <2>1, <2>2, <2>3, <2>4
<1>3. /\ Dominates(q, p) => Turn(w, p, q) = [w EXCEPT !.end = TRUE]
      /\ Dominates(p, q) /\ ~ Dominates(q, p) =>
           Turn(w, p, q) = [list |-> Replaced(w.list, p, q), gone |-> w.gone \cup {q}, end |-> FALSE]
      /\ ~ Dominates(q, p) /\ ~ Dominates(p, q) =>
           Turn(w, p, q) =
             IF same THEN [w EXCEPT !.end = TRUE]
             ELSE IF p.load < q.load
                  THEN [w EXCEPT !.list = InsertedBefore(@, p, q)]
             ELSE IF Behind(w.list, q) = <<>>
                  THEN [w EXCEPT !.list = Append(@, p)]
             ELSE w
  <2> HIDE DEF w, same
  <2>1. Turn(w, p, q) =
          CASE w.end -> w
            [] ~ w.end /\ Dominates(q, p) -> [w EXCEPT !.end = TRUE]
            [] ~ w.end /\ Dominates(p, q) ->
                 [list |-> Replaced(w.list, p, q), gone |-> w.gone \cup {q}, end |-> FALSE]
            [] ~ w.end /\ ~ Dominates(q, p) /\ ~ Dominates(p, q) ->
                 IF same THEN [w EXCEPT !.end = TRUE]
                 ELSE IF p.load < q.load
                      THEN [w EXCEPT !.list = InsertedBefore(@, p, q)]
                 ELSE IF Behind(w.list, q) = <<>>
                      THEN [w EXCEPT !.list = Append(@, p)]
                 ELSE w
    BY DEF Turn, same
  <2>2. Dominates(p, q) => ~ Dominates(q, p)
    BY <1>0, Relations
  <2> QED BY <1>1, <2>1, <2>2
<1>4. /\ Precedes(p, q) \/ Precedes(q, p) => ~ same
      /\ q.load = p.load /\ q.bdwt = p.bdwt => same /\ ~ Dominates(q, p) /\ ~ Dominates(p, q)
  BY <1>0 DEF IsPoint, Precedes, Dominates
<1> HIDE DEF w, same
<1>5. NoWorse(q, p) => Turn(w, p, q) = State(l, d, TRUE)
  BY <1>2, <1>3, <1>4, <1>0, Relations
<1>6. Dominates(p, q) => Turn(w, p, q) = State(Replaced(l, p, q), d \cup {q}, FALSE)
  BY <1>2, <1>3, <1>0, Relations
<1>7. Precedes(p, q) => Turn(w, p, q) = State(InsertedBefore(l, p, q), d, FALSE)
  BY <1>2, <1>3, <1>4, <1>0, Relations
<1>8. Precedes(q, p) =>
        Turn(w, p, q) = State(IF Behind(l, q) = <<>> THEN Append(l, p) ELSE l, d, FALSE)
  <2>1. w = State(l, d, FALSE)
    BY DEF w
  <2> QED BY <1>1, <1>2, <1>3, <1>4, <1>0, <2>1, Relations
<1> QED BY <1>5, <1>6, <1>7, <1>8 DEF w, Going, Over, TurnOf

----------------------------------------------------------------------------
(* The walk *)

Sorted(list) ==
  \A i, j \in DOMAIN list :
    i < j => list[i].load < list[j].load /\ list[i].bdwt > list[j].bdwt

\* A new point splits the curve: first come the points that precede it, then those that
\* it beats, and then those that it precedes.
Splits(list, p, a, b) ==
  /\ a \in 0 .. Len(list) /\ b \in a .. Len(list)
  /\ \A i \in 1 .. a : Precedes(list[i], p)
  /\ \A i \in a + 1 .. b : Dominates(p, list[i])
  /\ \A i \in b + 1 .. Len(list) : Precedes(p, list[i])

Drops(list, p) == \E i \in 1 .. Len(list) : NoWorse(list[i], p)

ArePoints(list, p) == IsPoint(p) /\ \A i \in 1 .. Len(list) : IsPoint(list[i])

\* A sorted curve is split by a point that no point of it is as good as.
LEMMA SplitExists ==
  ASSUME NEW S, NEW list \in Seq(S), NEW p, ArePoints(list, p), Sorted(list), ~ Drops(list, p)
  PROVE  \E a, b : Splits(list, p, a, b)
<1> DEFINE n == Len(list)
           A == {i \in 0 .. n : \A j \in 1 .. i : Precedes(list[j], p)}
           B == {i \in 0 .. n : \A j \in 1 .. i : Precedes(list[j], p) \/ Dominates(p, list[j])}
<1>1. n \in Nat /\ DOMAIN list = 1 .. n
  OBVIOUS
<1>2. PICK a \in A : \A x \in A : a >= x
  <2>1. 0 \in A /\ A \subseteq Nat /\ \A y \in A : y <= n
    OBVIOUS
  <2> HIDE DEF A
  <2> QED BY <1>1, <2>1, GreatestElement
<1>3. PICK b \in B : \A x \in B : b >= x
  <2>1. 0 \in B /\ B \subseteq Nat /\ \A y \in B : y <= n
    OBVIOUS
  <2> HIDE DEF B
  <2> QED BY <1>1, <2>1, GreatestElement
<1>4. a \in B
  OBVIOUS
<1>5. a \in 0 .. n /\ b \in a .. n
  BY <1>3, <1>4
<1>6. ASSUME NEW i \in 1 .. n
      PROVE  /\ IsPoint(list[i]) /\ IsPoint(p)
             /\ Dominates(p, list[i]) \/ Precedes(list[i], p) \/ Precedes(p, list[i])
  <2>1. IsPoint(list[i]) /\ IsPoint(p) /\ ~ NoWorse(list[i], p)
    BY DEF ArePoints, Drops
  <2> QED BY <2>1, Relations
<1>7. ASSUME NEW i \in 1 .. n, NEW j \in 1 .. n, i < j
      PROVE  /\ list[i].load < list[j].load /\ list[i].bdwt > list[j].bdwt
             /\ list[i].load \in Nat /\ list[i].bdwt \in Nat
             /\ list[j].load \in Nat /\ list[j].bdwt \in Nat
             /\ p.load \in Nat /\ p.bdwt \in Nat
  BY <1>1, <1>6, <1>7 DEF Sorted, IsPoint
<1>8. a < n => ~ Precedes(list[a + 1], p)
  <2> SUFFICES ASSUME a < n, Precedes(list[a + 1], p) PROVE FALSE
    OBVIOUS
  <2>1. a + 1 \in A
    BY <1>5
  <2> QED BY <1>2, <1>5, <2>1
<1>9. b < n => ~ Precedes(list[b + 1], p) /\ ~ Dominates(p, list[b + 1])
  <2> SUFFICES ASSUME b < n, Precedes(list[b + 1], p) \/ Dominates(p, list[b + 1]) PROVE FALSE
    OBVIOUS
  <2>1. b + 1 \in B
    BY <1>5
  <2> QED BY <1>3, <1>5, <2>1
<1>10. ASSUME NEW i \in a + 1 .. b PROVE Dominates(p, list[i])
  <2>1. i \in 1 .. n /\ a + 1 \in 1 .. n /\ a < n
    BY <1>5
  <2>2. Precedes(list[i], p) \/ Dominates(p, list[i])
    BY <1>3, <1>5
  <2>3. ASSUME Precedes(list[i], p) PROVE FALSE
    <3>1. i # a + 1
      BY <1>8, <2>1, <2>3
    <3>2. a + 1 < i
      BY <1>5, <3>1
    <3>3. /\ list[a + 1].load < list[i].load /\ list[a + 1].load \in Nat
          /\ list[i].load \in Nat /\ p.load \in Nat
      BY <1>7, <2>1, <3>2
    <3>4. ~ Precedes(p, list[a + 1])
      BY <2>3, <3>3 DEF Precedes
    <3>5. Dominates(p, list[a + 1])
      BY <1>6, <1>8, <2>1, <3>4
    <3> QED BY <2>3, <3>3, <3>5 DEF Dominates, Precedes
  <2> QED BY <2>2, <2>3
<1>11. ASSUME NEW i \in b + 1 .. n PROVE Precedes(p, list[i])
  <2>1. i \in 1 .. n /\ b + 1 \in 1 .. n /\ b < n
    BY <1>5
  <2>2. Precedes(p, list[b + 1])
    BY <1>6, <1>9, <2>1
  <2>3. CASE i = b + 1
    BY <2>2, <2>3
  <2>4. CASE i > b + 1
    <3>1. /\ list[b + 1].load < list[i].load /\ list[b + 1].load \in Nat
          /\ list[b + 1].bdwt > list[i].bdwt /\ list[b + 1].bdwt \in Nat
          /\ list[i].load \in Nat /\ p.load \in Nat
          /\ list[i].bdwt \in Nat /\ p.bdwt \in Nat
      BY <1>7, <2>1, <2>4
    <3>2. p.load < list[b + 1].load /\ p.bdwt > list[b + 1].bdwt
      BY <2>2 DEF Precedes
    <3> DEFINE x == list[b + 1]
               y == list[i]
    <3>3. p.load < y.load /\ p.bdwt > y.bdwt
      <4> HIDE DEF x, y
      <4> QED BY <3>1, <3>2 DEF x, y
    <3> QED BY <3>3 DEF Precedes
  <2> QED BY <1>5, <2>3, <2>4
<1>12. \A i \in 1 .. a : Precedes(list[i], p)
  BY <1>2
<1> HIDE DEF A, B
<1>13. Splits(list, p, a, b)
  BY <1>5, <1>10, <1>11, <1>12 DEF Splits
<1> QED BY <1>13

\* Each turn of the walk.
IsWalk(w, p) ==
  w = [i \in 0 .. Len(curve) |->
         IF i = 0 THEN Going(curve, {}) ELSE Turn(w[i - 1], p, curve[i])]

\* The walk is the last of its turns.
LEMMA WalkExists ==
  ASSUME NEW S, curve \in Seq(S), NEW p
  PROVE  \E w : IsWalk(w, p) /\ Walk(p) = w[Len(curve)]
<1> DEFINE Upto(w, m) ==
             w = [i \in 0 .. m |->
                    IF i = 0 THEN Going(curve, {}) ELSE Turn(w[i - 1], p, curve[i])]
           T == {m \in Nat : \E w : Upto(w, m)}
<1>1. 0 \in T
  <2>1. Upto([i \in 0 .. 0 |-> Going(curve, {})], 0)
    OBVIOUS
  <2> QED BY <2>1
<1>2. ASSUME NEW m \in T PROVE m + 1 \in T
  <2>1. PICK w : Upto(w, m)
    OBVIOUS
  <2> DEFINE next == [i \in 0 .. m + 1 |->
                        IF i = m + 1 THEN Turn(w[m], p, curve[m + 1]) ELSE w[i]]
             next2 == [i \in 0 .. m + 1 |->
                    IF i = 0 THEN Going(curve, {}) ELSE Turn(next[i - 1], p, curve[i])]
  <2>2. ASSUME NEW i \in 0 .. m + 1 PROVE next[i] = next2[i]
    <3>1. CASE i = m + 1
      <4>1. next[i - 1] = w[m] /\ i # 0
        BY <3>1
      <4> QED BY <3>1, <4>1
    <3>2. CASE i # m + 1
      <4>1. i \in 0 .. m
        BY <3>2
      <4>2. next[i] = w[i]
        BY <4>1
      <4>3. i # 0 => next[i - 1] = w[i - 1]
        BY <4>1
      <4>4. w[i] = IF i = 0 THEN Going(curve, {}) ELSE Turn(w[i - 1], p, curve[i])
        BY <2>1, <4>1
      <4> QED BY <4>2, <4>3, <4>4
    <3> QED BY <3>1, <3>2
  <2>3. next = next2
    BY <2>2
  <2>4. Upto(next, m + 1)
    BY <2>3
  <2>5. m + 1 \in Nat
    OBVIOUS
  <2> HIDE DEF next, next2, Upto
  <2> QED BY <2>4, <2>5
<1>3. T = Nat
  <2> HIDE DEF T
  <2>1. T \in SUBSET Nat
    BY DEF T
  <2> QED BY <1>1, <1>2, <2>1, SetInduction
<1>4. \E w : IsWalk(w, p)
  <2>1. Len(curve) \in Nat
    OBVIOUS
  <2>2. Len(curve) \in T
    <3> HIDE DEF T
    <3> QED BY <1>3, <2>1
  <2> QED BY <2>2 DEF IsWalk
<1>5. Walk(p) = (CHOOSE w : IsWalk(w, p))[Len(curve)]
  BY DEF Walk, IsWalk, State, Going
<1> QED BY <1>4, <1>5

\* A point that the walk is told of, and the curve.
Fits(p) ==
  /\ curve # <<>> /\ ArePoints(curve, p) /\ Sorted(curve)
  /\ program \in {"genMLP", "NewgenMLP"}
  /\ \A i \in 1 .. Len(curve) :
       /\ curve[i].sol = p.sol => curve[i] = p
       /\ program = "genMLP" => ~ (curve[i].load = p.load /\ curve[i].bdwt = p.bdwt)

LEMMA FitsIs ==
  ASSUME NEW S, curve \in Seq(S), NEW p, Fits(p), NEW i \in 1 .. Len(curve)
  PROVE  IsPoint(p) /\ IsPoint(curve[i]) /\ Meets(p, curve[i])
BY DEF Fits, ArePoints, Meets

LEMMA SortedIs ==
  ASSUME NEW S, NEW list \in Seq(S), NEW p, ArePoints(list, p), Sorted(list)
  PROVE  /\ \A i, j \in 1 .. Len(list) :
              i < j => list[i].load < list[j].load /\ list[i].bdwt > list[j].bdwt
         /\ \A i, j \in 1 .. Len(list) : list[i] = list[j] => i = j
<1>1. \A i, j \in 1 .. Len(list) :
        i < j => list[i].load < list[j].load /\ list[i].bdwt > list[j].bdwt
  BY DEF Sorted
<1>2. ASSUME NEW i \in 1 .. Len(list), NEW j \in 1 .. Len(list), list[i] = list[j], i # j
      PROVE  FALSE
  <2>1. list[i].load \in Nat
    BY DEF ArePoints, IsPoint
  <2>2. i < j \/ j < i
    BY <1>2
  <2>3. list[i].load < list[i].load
    BY <1>1, <1>2, <2>2
  <2> QED BY <2>1, <2>3
<1> QED BY <1>1, <1>2

\* The first turn starts with the whole curve, and each goes on from the one before.
LEMMA WalkTurns ==
  ASSUME NEW S, curve \in Seq(S), NEW p, NEW w, IsWalk(w, p)
  PROVE  /\ w[0] = Going(curve, {})
         /\ \A i \in 1 .. Len(curve) : w[i] = Turn(w[i - 1], p, curve[i])
<1>1. Len(curve) \in Nat
  OBVIOUS
<1>2. \A i \in 0 .. Len(curve) :
         w[i] = IF i = 0 THEN Going(curve, {}) ELSE Turn(w[i - 1], p, curve[i])
  BY DEF IsWalk
<1>3. /\ 0 \in 0 .. Len(curve)
      /\ \A i \in 1 .. Len(curve) : i \in 0 .. Len(curve) /\ i # 0
  BY <1>1
<1> QED BY <1>2, <1>3

\* What is no better than a point of the curve is dropped.
LEMMA WalkDrops ==
  ASSUME NEW S, curve \in Seq(S), NEW p, Fits(p), Drops(curve, p)
  PROVE  Walk(p) = Over(curve, {})
<1> DEFINE n == Len(curve)
           D == {i \in 1 .. n : NoWorse(curve[i], p)}
<1>1. n \in Nat
  OBVIOUS
<1>2. PICK w : IsWalk(w, p) /\ Walk(p) = w[n]
  BY WalkExists
<1>3. /\ w[0] = Going(curve, {})
      /\ \A i \in 1 .. n : w[i] = Turn(w[i - 1], p, curve[i])
  BY <1>2, WalkTurns
<1>4. PICK m \in D : \A x \in D : m <= x
  <2>1. D # {} /\ D \subseteq Nat
    BY DEF Drops
  <2> HIDE DEF D
  <2> QED BY <2>1, LeastElement
<1>5. m \in 1 .. n /\ NoWorse(curve[m], p)
  OBVIOUS
<1>6. ASSUME NEW i \in 1 .. n, i < m PROVE Precedes(curve[i], p)
  <2>1. ~ NoWorse(curve[i], p)
    BY <1>4, <1>5, <1>6
  <2>2. curve[i].load < curve[m].load /\ curve[i].bdwt > curve[m].bdwt
    BY <1>5, <1>6, SortedIs DEF Fits
  <2>3. IsPoint(p) /\ IsPoint(curve[i]) /\ IsPoint(curve[m])
    BY <1>5, FitsIs
  <2> QED BY <1>5, <2>1, <2>2, <2>3 DEF IsPoint, NoWorse, Precedes
<1>7. ASSUME NEW i \in 1 .. n, i < m PROVE Behind(curve, curve[i]) # <<>>
  <2>1. Ends(S, curve, i, Behind(curve, curve[i]))
    <3>1. \A j \in 1 .. Len(curve) : curve[j] = curve[i] => j = i
      BY SortedIs DEF Fits
    <3> QED BY <3>1, PlaceIs
  <2>2. Len(Behind(curve, curve[i])) = n - i
    BY <2>1 DEF Ends
  <2>3. n - i # 0
    BY <1>5, <1>7
  <2> QED BY <2>2, <2>3
<1> DEFINE Holds(i) == /\ i < m => w[i] = Going(curve, {})
                       /\ i >= m => w[i] = Over(curve, {})
           T == {i \in Nat : i <= n => Holds(i)}
<1>8. 0 \in T
  BY <1>3, <1>5
<1>9. ASSUME NEW i \in T PROVE i + 1 \in T
  <2> SUFFICES ASSUME i + 1 <= n PROVE Holds(i + 1)
    OBVIOUS
  <2>1. /\ i < m => w[i] = Going(curve, {})
        /\ i >= m => w[i] = Over(curve, {})
        /\ i \in Nat /\ i + 1 \in 1 .. n
    BY <1>1
  <2>2. w[i + 1] = Turn(w[i], p, curve[i + 1])
    <3>1. i + 1 - 1 = i
      BY <2>1
    <3>2. w[i + 1] = Turn(w[i + 1 - 1], p, curve[i + 1])
      BY <1>3, <2>1
    <3> QED BY <3>1, <3>2
  <2> HIDE DEF T, D
  <2> DEFINE q == curve[i + 1]
  <2>3. Meets(p, q)
    BY <2>1, FitsIs
  <2>7. TurnOf(curve, {}, p, q)
    <3> HIDE DEF q
    <3> QED BY <2>3, TurnIs
  <2>4. CASE i + 1 < m
    <3>1. Precedes(q, p) /\ Behind(curve, q) # <<>>
      BY <1>6, <1>7, <2>1, <2>4
    <3> HIDE DEF q
    <3>2. Turn(Going(curve, {}), p, q) = Going(curve, {})
      BY <2>7, <3>1 DEF TurnOf
    <3> QED BY <1>5, <2>1, <2>2, <2>4, <3>2 DEF q
  <2>5. CASE i + 1 = m
    <3>1. NoWorse(q, p)
      BY <1>5, <2>5
    <3> HIDE DEF q
    <3>2. Turn(Going(curve, {}), p, q) = Over(curve, {})
      BY <2>7, <3>1 DEF TurnOf
    <3> QED BY <1>5, <2>1, <2>2, <2>5, <3>2 DEF q
  <2>6. CASE i + 1 > m
    <3>1. Turn(Over(curve, {}), p, q) = Over(curve, {})
      BY TurnEnded
    <3> QED BY <1>5, <2>1, <2>2, <2>6, <3>1
  <2> QED BY <1>5, <2>1, <2>4, <2>5, <2>6
<1>10. T = Nat
  <2> HIDE DEF T
  <2>1. T \in SUBSET Nat
    BY DEF T
  <2> QED BY <1>8, <1>9, <2>1, SetInduction
<1>11. Holds(n)
  BY <1>1, <1>10
<1> QED BY <1>2, <1>5, <1>11

\* Any other point gets its place, and what it beats is cut out.
LEMMA WalkInserts ==
  ASSUME NEW S, curve \in Seq(S), NEW p \in S, Fits(p), NEW a, NEW b, Splits(curve, p, a, b)
  PROVE  Walk(p) = Going(Splice(curve, a, b, p), {curve[j] : j \in a + 1 .. b})
<1> DEFINE n == Len(curve)
           Cut(i) == {curve[j] : j \in a + 1 .. i}
<1>1. n \in Nat /\ n # 0
  BY DEF Fits
<1>2. PICK w : IsWalk(w, p) /\ Walk(p) = w[n]
  BY WalkExists
<1>3. /\ w[0] = Going(curve, {})
      /\ \A i \in 1 .. n : w[i] = Turn(w[i - 1], p, curve[i])
  BY <1>2, WalkTurns
<1>4. /\ a \in 0 .. n /\ b \in a .. n
      /\ \A i \in 1 .. a : Precedes(curve[i], p)
      /\ \A i \in a + 1 .. b : Dominates(p, curve[i])
      /\ \A i \in b + 1 .. n : Precedes(p, curve[i])
  BY DEF Splits
<1>5. \A j, k \in 1 .. n : curve[j] = curve[k] => j = k
  BY SortedIs DEF Fits
<1>6. p \notin InSeq(curve)
  <2> SUFFICES ASSUME NEW i \in 1 .. n, curve[i] = p PROVE FALSE
    BY DEF InSeq
  <2>1. IsPoint(p)
    BY FitsIs
  <2>2. Precedes(p, p) \/ Dominates(p, p)
    BY <1>4
  <2> QED BY <2>1, <2>2 DEF Precedes, Dominates, IsPoint
<1>7. ASSUME NEW i \in 1 .. n PROVE Behind(curve, curve[i]) = <<>> <=> i = n
  <2>1. Ends(S, curve, i, Behind(curve, curve[i]))
    <3>1. \A j \in 1 .. Len(curve) : curve[j] = curve[i] => j = i
      BY <1>5
    <3> QED BY <3>1, PlaceIs
  <2>2. Behind(curve, curve[i]) \in Seq(S) /\ Len(Behind(curve, curve[i])) = n - i
    BY <2>1 DEF Ends
  <2> QED BY <1>1, <2>2
<1>8. ASSUME NEW m \in a .. b PROVE p \in ToSet(Splice(curve, a, m, p))
  <2>1. m \in a .. Len(curve) /\ a \in 0 .. Len(curve)
    BY <1>4
  <2>2. /\ Splice(curve, a, m, p) \in Seq(S)
        /\ Len(Splice(curve, a, m, p)) = a + 1 + (Len(curve) - m)
    BY <2>1, SpliceIs
  <2>3. a + 1 \in 1 .. a + 1 + (Len(curve) - m) /\ ~ (a + 1 <= a)
    BY <2>1
  <2>4. Splice(curve, a, m, p)[a + 1] = p
    BY <2>3 DEF Splice
  <2> HIDE DEF Cut
  <2>5. p \in InSeq(Splice(curve, a, m, p))
    BY <2>2, <2>3, <2>4 DEF InSeq
  <2> QED BY <2>2, <2>5, ToSetIs
<1> DEFINE Holds(i) ==
             /\ i <= a /\ i < n => w[i] = Going(curve, {})
             /\ i = a /\ i = n => w[i] = Going(Splice(curve, n, n, p), {})
             /\ i > a /\ i <= b => w[i] = Going(Splice(curve, a, i, p), Cut(i))
             /\ i > a /\ i > b => w[i] = Going(Splice(curve, a, b, p), Cut(b))
           T == {i \in Nat : i <= n => Holds(i)}
<1>9. 0 \in T
  BY <1>1, <1>3, <1>4
<1>10. ASSUME NEW i \in T PROVE i + 1 \in T
  <2> SUFFICES ASSUME i + 1 <= n PROVE Holds(i + 1)
    OBVIOUS
  <2>1. Holds(i) /\ i \in Nat /\ i + 1 \in 1 .. n
    BY <1>1
  <2>2. w[i + 1] = Turn(w[i], p, curve[i + 1])
    <3>1. i + 1 - 1 = i
      BY <2>1
    <3>2. w[i + 1] = Turn(w[i + 1 - 1], p, curve[i + 1])
      BY <1>3, <2>1
    <3> QED BY <3>1, <3>2
  <2> HIDE DEF T
  <2> DEFINE q == curve[i + 1]
  <2>3. Meets(p, q)
    BY <2>1, FitsIs
  <2>4. CASE i + 1 <= a
    <3>1. Precedes(q, p) /\ w[i] = Going(curve, {})
      BY <1>4, <2>1, <2>4
    <3>2. Behind(curve, q) = <<>> <=> i + 1 = n
      BY <1>7, <2>1
    <3> HIDE DEF q
    <3>3. w[i + 1] = Going(IF Behind(curve, q) = <<>> THEN Append(curve, p) ELSE curve, {})
      <4>1. TurnOf(curve, {}, p, q)
        BY <2>3, TurnIs
      <4> QED BY <2>2, <3>1, <4>1 DEF TurnOf, q
    <3>4. Append(curve, p) = Splice(curve, n, n, p)
      BY AppendedIs
    <3>5. i + 1 < n => w[i + 1] = Going(curve, {})
      BY <3>2, <3>3
    <3>6. i + 1 = n => w[i + 1] = Going(Splice(curve, n, n, p), {})
      BY <3>2, <3>3, <3>4
    <3> QED BY <1>4, <2>1, <2>4, <3>5, <3>6
  <2>5. CASE i = a /\ a < b
    <3>1. w[i] = Going(curve, {}) /\ Dominates(p, q)
      BY <1>4, <2>1, <2>5
    <3>2. Replaced(curve, p, q) = Splice(curve, i + 1 - 1, i + 1, p)
      BY <1>5, <1>6, <2>1, ReplacedFirst
    <3>3. Cut(i + 1) = {q} /\ i + 1 - 1 = a
      BY <2>1, <2>5
    <3> HIDE DEF q, Cut
    <3>4. w[i + 1] = Going(Replaced(curve, p, q), {} \cup {q})
      <4>1. TurnOf(curve, {}, p, q)
        BY <2>3, TurnIs
      <4> QED BY <2>2, <3>1, <4>1 DEF TurnOf, q
    <3>5. w[i + 1] = Going(Splice(curve, a, i + 1, p), Cut(i + 1))
      BY <3>2, <3>3, <3>4
    <3> QED BY <1>4, <2>1, <2>5, <3>5
  <2>6. CASE i = a /\ a = b
    <3>1. w[i] = Going(curve, {}) /\ Precedes(p, q)
      BY <1>4, <2>1, <2>6
    <3>2. InsertedBefore(curve, p, q) = Splice(curve, i + 1 - 1, i + 1 - 1, p)
      BY <1>5, <1>6, <2>1, InsertedFirst
    <3>3. Cut(b) = {} /\ i + 1 - 1 = a
      BY <1>4, <2>1, <2>6
    <3> HIDE DEF q, Cut
    <3>4. w[i + 1] = Going(InsertedBefore(curve, p, q), {})
      <4>1. TurnOf(curve, {}, p, q)
        BY <2>3, TurnIs
      <4> QED BY <2>2, <3>1, <4>1 DEF TurnOf, q
    <3>5. w[i + 1] = Going(Splice(curve, a, b, p), Cut(b))
      BY <2>6, <3>2, <3>3, <3>4
    <3> QED BY <1>4, <2>1, <2>6, <3>5
  <2>7. CASE i > a /\ i + 1 <= b
    <3>1. w[i] = Going(Splice(curve, a, i, p), Cut(i)) /\ Dominates(p, q)
      BY <1>4, <2>1, <2>7
    <3>2. i \in a .. Len(curve) /\ i < Len(curve) /\ a \in 0 .. Len(curve)
      BY <1>4, <2>1, <2>7
    <3>3. Replaced(Splice(curve, a, i, p), p, q) = Splice(curve, a, i + 1, p)
      BY <1>5, <1>6, <3>2, ReplacedMore
    <3>4. Cut(i + 1) = Cut(i) \cup {q}
      BY <1>4, <2>1, <2>7
    <3> HIDE DEF q, Cut
    <3>5. w[i + 1] = Going(Replaced(Splice(curve, a, i, p), p, q), Cut(i) \cup {q})
      <4>1. TurnOf(Splice(curve, a, i, p), Cut(i), p, q)
        BY <2>3, TurnIs
      <4> QED BY <2>2, <3>1, <4>1 DEF TurnOf, q
    <3>6. w[i + 1] = Going(Splice(curve, a, i + 1, p), Cut(i + 1))
      BY <3>3, <3>4, <3>5
    <3> QED BY <1>4, <2>1, <2>7, <3>6
  <2>8. CASE i > a /\ i + 1 > b
    <3>1. w[i] = Going(Splice(curve, a, b, p), Cut(b)) /\ Precedes(p, q)
      <4>1. CASE i = b
        BY <1>4, <2>1, <2>8, <4>1
      <4>2. CASE i > b
        <5>1. w[i] = Going(Splice(curve, a, b, p), Cut(b))
          BY <2>1, <2>8, <4>2
        <5>2. i + 1 \in b + 1 .. n
          BY <1>4, <2>1, <2>8
        <5> QED BY <1>4, <5>1, <5>2
      <4> QED BY <1>4, <2>1, <2>8, <4>1, <4>2
    <3>2. p \in ToSet(Splice(curve, a, b, p))
      BY <1>4, <1>8
    <3>3. InsertedBefore(Splice(curve, a, b, p), p, q) = Splice(curve, a, b, p)
      BY <3>2 DEF InsertedBefore
    <3> HIDE DEF q, Cut
    <3>4. w[i + 1] = Going(InsertedBefore(Splice(curve, a, b, p), p, q), Cut(b))
      <4>1. TurnOf(Splice(curve, a, b, p), Cut(b), p, q)
        BY <2>3, TurnIs
      <4> QED BY <2>2, <3>1, <4>1 DEF TurnOf, q
    <3>5. w[i + 1] = Going(Splice(curve, a, b, p), Cut(b))
      BY <3>3, <3>4
    <3> QED BY <1>4, <2>1, <2>8, <3>5
  <2> QED BY <1>4, <2>1, <2>4, <2>5, <2>6, <2>7, <2>8
<1>11. T = Nat
  <2> HIDE DEF T
  <2>1. T \in SUBSET Nat
    BY DEF T
  <2> QED BY <1>9, <1>10, <2>1, SetInduction
<1>12. Holds(n)
  <2>1. n \in T
    <3> HIDE DEF T
    <3> QED BY <1>1, <1>11
  <2> HIDE DEF Holds
  <2> QED BY <1>1, <2>1
<1>13. CASE a = n
  <2>1. b = n /\ Cut(b) = {}
    BY <1>1, <1>4, <1>13
  <2> QED BY <1>2, <1>12, <1>13, <2>1
<1>14. CASE a < n
  <2>1. w[n] = Going(Splice(curve, a, b, p), Cut(b))
    <3>1. CASE n = b
      <4>1. n > a /\ n <= b
        BY <1>1, <1>4, <1>14, <3>1
      <4>2. w[n] = Going(Splice(curve, a, n, p), Cut(n))
        BY <1>12, <4>1
      <4> QED BY <3>1, <4>2
    <3>2. CASE n # b
      <4>1. n > a /\ n > b
        BY <1>1, <1>4, <1>14, <3>2
      <4> QED BY <1>12, <4>1
    <3> QED BY <3>1, <3>2
  <2> QED BY <1>2, <2>1
<1> QED BY <1>4, <1>13, <1>14

\* The walk of a point that is dropped, ...
WasDropped(w, p) == w = Over(curve, {}) /\ \E q \in InSeq(curve) : NoWorse(q, p)

\* ... and of one that gets onto the curve.
WasInserted(S, w, p) ==
  /\ w = Going(w.list, w.gone)
  /\ w.list \in Seq(S) /\ w.list # <<>> /\ Sorted(w.list)
  /\ InSeq(w.list) = (InSeq(curve) \ w.gone) \cup {p}
  /\ w.gone \subseteq InSeq(curve) /\ p \notin InSeq(curve)
  /\ \A q \in w.gone : Dominates(p, q)
  /\ \A q \in InSeq(curve) : ~ NoWorse(q, p)

\* Where the points of the new curve come from.
LEMMA SpliceTells ==
  ASSUME NEW S, NEW list \in Seq(S), NEW p \in S, NEW a \in 0 .. Len(list),
         NEW b \in a .. Len(list)
  PROVE  LET new == Splice(list, a, b, p)
         IN  /\ \A i \in 1 .. a : i \in 1 .. Len(new) /\ new[i] = list[i]
             /\ a + 1 \in 1 .. Len(new) /\ new[a + 1] = p
             /\ \A i \in a + 2 .. Len(new) :
                  /\ i - (a + 1) + b \in b + 1 .. Len(list)
                  /\ new[i] = list[i - (a + 1) + b]
<1> DEFINE new == Splice(list, a, b, p)
           n == a + 1 + (Len(list) - b)
<1>1. Len(new) = n
  BY SpliceIs
<1>2. \A i \in 1 .. n :
        new[i] = IF i <= a THEN list[i] ELSE IF i = a + 1 THEN p ELSE list[i - (a + 1) + b]
  BY DEF Splice
<1> HIDE DEF new
<1>3. ASSUME NEW i \in 1 .. a PROVE i \in 1 .. Len(new) /\ new[i] = list[i]
  <2>1. i \in 1 .. n /\ i <= a
    OBVIOUS
  <2> QED BY <1>1, <1>2, <2>1
<1>4. a + 1 \in 1 .. Len(new) /\ new[a + 1] = p
  <2>1. a + 1 \in 1 .. n /\ ~ (a + 1 <= a)
    OBVIOUS
  <2> QED BY <1>1, <1>2, <2>1
<1>5. ASSUME NEW i \in a + 2 .. Len(new)
      PROVE  /\ i - (a + 1) + b \in b + 1 .. Len(list)
             /\ new[i] = list[i - (a + 1) + b]
  <2>1. /\ i \in 1 .. n /\ ~ (i <= a) /\ i # a + 1
        /\ i - (a + 1) + b \in b + 1 .. Len(list)
    BY <1>1
  <2> QED BY <1>2, <2>1
<1> QED BY <1>3, <1>4, <1>5 DEF new

\* A sorted curve stays sorted, ...
LEMMA SpliceSorted ==
  ASSUME NEW S, NEW list \in Seq(S), NEW p \in S, ArePoints(list, p), Sorted(list),
         NEW a, NEW b, Splits(list, p, a, b)
  PROVE  Sorted(Splice(list, a, b, p))
<1> DEFINE new == Splice(list, a, b, p)
           l == Len(new)
<1>1. /\ a \in 0 .. Len(list) /\ b \in a .. Len(list)
      /\ \A i \in 1 .. a : Precedes(list[i], p)
      /\ \A i \in a + 1 .. b : Dominates(p, list[i])
      /\ \A i \in b + 1 .. Len(list) : Precedes(p, list[i])
  BY DEF Splits
<1>2. new \in Seq(S) /\ l \in Nat
  BY <1>1, SpliceIs
<1>3. /\ \A i \in 1 .. a : i \in 1 .. l /\ new[i] = list[i]
      /\ a + 1 \in 1 .. l /\ new[a + 1] = p
      /\ \A i \in a + 2 .. l :
           /\ i - (a + 1) + b \in b + 1 .. Len(list)
           /\ new[i] = list[i - (a + 1) + b]
  BY <1>1, SpliceTells
<1> HIDE DEF new
<1>4. /\ \A i, j \in 1 .. Len(list) :
           i < j => list[i].load < list[j].load /\ list[i].bdwt > list[j].bdwt
      /\ \A i \in 1 .. Len(list) : IsPoint(list[i])
      /\ IsPoint(p)
  BY SortedIs DEF ArePoints
<1>5. ASSUME NEW i \in 1 .. l, NEW j \in 1 .. l, i < j
      PROVE  Precedes(new[i], new[j])
  <2>1. CASE j <= a
    <3>1. /\ i \in 1 .. a /\ j \in 1 .. a /\ i \in 1 .. Len(list) /\ j \in 1 .. Len(list)
      BY <1>1, <1>5, <2>1
    <3>2. new[i] = list[i] /\ new[j] = list[j]
      BY <1>3, <3>1
    <3> QED BY <1>4, <1>5, <3>1, <3>2 DEF Precedes
  <2>2. CASE i <= a /\ j = a + 1
    <3>1. i \in 1 .. a
      BY <1>1, <2>2
    <3> QED BY <1>1, <1>3, <2>2, <3>1
  <2>3. CASE i <= a /\ j >= a + 2
    <3>1. /\ i \in 1 .. a /\ i \in 1 .. Len(list) /\ j \in a + 2 .. l
      BY <1>1, <2>3
    <3> DEFINE k == j - (a + 1) + b
    <3>2. /\ new[i] = list[i] /\ new[j] = list[k] /\ k \in b + 1 .. Len(list)
      BY <1>3, <3>1
    <3>3. k \in 1 .. Len(list) /\ i < k
      BY <1>1, <3>1, <3>2
    <3> HIDE DEF k
    <3> QED BY <1>4, <3>1, <3>2, <3>3 DEF Precedes
  <2>4. CASE i = a + 1
    <3>1. j \in a + 2 .. l
      BY <1>1, <1>2, <1>5, <2>4
    <3> QED BY <1>1, <1>3, <2>4, <3>1
  <2>5. CASE i >= a + 2
    <3>1. i \in a + 2 .. l /\ j \in a + 2 .. l
      BY <1>1, <1>2, <1>5, <2>5
    <3> DEFINE h == i - (a + 1) + b
               k == j - (a + 1) + b
    <3>2. /\ new[i] = list[h] /\ new[j] = list[k]
          /\ h \in b + 1 .. Len(list) /\ k \in b + 1 .. Len(list)
      BY <1>3, <3>1
    <3>3. h \in 1 .. Len(list) /\ k \in 1 .. Len(list) /\ h < k
      BY <1>1, <1>5, <3>1, <3>2
    <3> HIDE DEF h, k
    <3> QED BY <1>4, <3>2, <3>3 DEF Precedes
  <2> QED BY <1>1, <1>2, <1>5, <2>1, <2>2, <2>3, <2>4, <2>5
<1>6. DOMAIN new = 1 .. l
  BY <1>2
<1> QED BY <1>5, <1>6 DEF Sorted, Precedes, new

\* ... and gets the new point in the place of those that it beats.
LEMMA SpliceSet ==
  ASSUME NEW S, NEW list \in Seq(S), NEW p \in S, ArePoints(list, p), Sorted(list),
         NEW a, NEW b, Splits(list, p, a, b)
  PROVE  InSeq(Splice(list, a, b, p))
           = (InSeq(list) \ {list[j] : j \in a + 1 .. b}) \cup {p}
<1> DEFINE new == Splice(list, a, b, p)
           l == Len(new)
           cut == {list[j] : j \in a + 1 .. b}
<1>1. a \in 0 .. Len(list) /\ b \in a .. Len(list)
  BY DEF Splits
<1>2. new \in Seq(S) /\ l = a + 1 + (Len(list) - b)
  BY <1>1, SpliceIs
<1>3. /\ \A i \in 1 .. a : i \in 1 .. l /\ new[i] = list[i]
      /\ a + 1 \in 1 .. l /\ new[a + 1] = p
      /\ \A i \in a + 2 .. l :
           /\ i - (a + 1) + b \in b + 1 .. Len(list)
           /\ new[i] = list[i - (a + 1) + b]
  BY <1>1, SpliceTells
<1> HIDE DEF new
<1>4. \A i, j \in 1 .. Len(list) : list[i] = list[j] => i = j
  BY SortedIs
<1>5. ASSUME NEW i \in 1 .. Len(list), ~ (a < i /\ i <= b) PROVE list[i] \notin cut
  <2> SUFFICES ASSUME NEW j \in a + 1 .. b, list[i] = list[j] PROVE FALSE
    OBVIOUS
  <2>1. j \in 1 .. Len(list)
    BY <1>1
  <2>2. i = j
    BY <1>4, <2>1
  <2> QED BY <1>1, <1>5, <2>2
<1>6. ASSUME NEW i \in 1 .. l PROVE new[i] \in (InSeq(list) \ cut) \cup {p}
  <2>1. CASE i <= a
    <3>1. i \in 1 .. a /\ i \in 1 .. Len(list) /\ ~ (a < i /\ i <= b)
      BY <1>1, <2>1
    <3> QED BY <1>3, <1>5, <3>1 DEF InSeq
  <2>2. CASE i = a + 1
    BY <1>3, <2>2
  <2>3. CASE i >= a + 2
    <3> DEFINE k == i - (a + 1) + b
    <3>1. i \in a + 2 .. l
      BY <1>1, <1>2, <2>3
    <3>2. new[i] = list[k] /\ k \in b + 1 .. Len(list)
      BY <1>3, <3>1
    <3>3. k \in 1 .. Len(list) /\ ~ (a < k /\ k <= b)
      BY <1>1, <3>2
    <3> HIDE DEF k, cut
    <3> QED BY <1>5, <3>2, <3>3 DEF InSeq
  <2> QED BY <1>1, <1>2, <2>1, <2>2, <2>3
<1>7. ASSUME NEW i \in 1 .. Len(list), list[i] \notin cut PROVE list[i] \in InSeq(new)
  <2>1. CASE i <= a
    <3>1. i \in 1 .. a
      BY <1>1, <2>1
    <3> QED BY <1>3, <3>1 DEF InSeq
  <2>2. CASE a < i /\ i <= b
    <3>1. i \in a + 1 .. b
      BY <1>1, <2>2
    <3> QED BY <1>7, <3>1
  <2>3. CASE i > b
    <3> DEFINE k == i - b + (a + 1)
    <3>1. k \in a + 2 .. l /\ k \in 1 .. l /\ k - (a + 1) + b = i
      BY <1>1, <1>2, <2>3
    <3> HIDE DEF k
    <3>2. new[k] = list[i]
      BY <1>3, <3>1
    <3> QED BY <3>1, <3>2 DEF InSeq
  <2> QED BY <1>1, <2>1, <2>2, <2>3
<1>8. p \in InSeq(new)
  BY <1>3 DEF InSeq
<1> HIDE DEF cut
<1>9. InSeq(new) = (InSeq(list) \ cut) \cup {p}
  BY <1>6, <1>7, <1>8 DEF InSeq
<1> QED BY <1>9 DEF new, cut

\* The walk drops the point or inserts it, whatever program it belongs to.
LEMMA WalkIs ==
  ASSUME NEW S, curve \in Seq(S), NEW p \in S, Fits(p)
  PROVE  WasDropped(Walk(p), p) \/ WasInserted(S, Walk(p), p)
<1>1. CASE Drops(curve, p)
  <2>1. Walk(p) = Over(curve, {})
    BY <1>1, WalkDrops
  <2> QED BY <1>1, <2>1 DEF WasDropped, Drops, InSeq
<1>2. CASE ~ Drops(curve, p)
  <2>1. ArePoints(curve, p) /\ Sorted(curve)
    BY DEF Fits
  <2>2. PICK a, b : Splits(curve, p, a, b)
    BY <1>2, <2>1, SplitExists
  <2> DEFINE new == Splice(curve, a, b, p)
             cut == {curve[j] : j \in a + 1 .. b}
  <2>3. Walk(p) = Going(new, cut)
    BY <2>2, WalkInserts
  <2>4. /\ a \in 0 .. Len(curve) /\ b \in a .. Len(curve)
        /\ \A i \in 1 .. a : Precedes(curve[i], p)
        /\ \A i \in a + 1 .. b : Dominates(p, curve[i])
        /\ \A i \in b + 1 .. Len(curve) : Precedes(p, curve[i])
    BY <2>2 DEF Splits
  <2>5. new \in Seq(S) /\ new # <<>>
    <3>1. new \in Seq(S) /\ Len(new) = a + 1 + (Len(curve) - b)
      BY <2>4, SpliceIs
    <3> HIDE DEF new
    <3> QED BY <2>4, <3>1
  <2>6. Sorted(new)
    BY <2>1, <2>2, SpliceSorted
  <2>7. InSeq(new) = (InSeq(curve) \ cut) \cup {p}
    BY <2>1, <2>2, SpliceSet
  <2>8. cut \subseteq InSeq(curve) /\ \A q \in cut : Dominates(p, q)
    BY <2>4 DEF InSeq
  <2>9. \A q \in InSeq(curve) : ~ NoWorse(q, p)
    BY <1>2 DEF Drops, InSeq
  <2>10. p \notin InSeq(curve)
    <3>1. NoWorse(p, p)
      BY <2>1 DEF ArePoints, IsPoint, NoWorse
    <3> QED BY <2>9, <3>1
  <2> HIDE DEF new, cut
  <2>11. Walk(p).list = new /\ Walk(p).gone = cut
    BY <2>3 DEF Going, State
  <2>12. WasInserted(S, Walk(p), p)
    BY <2>3, <2>5, <2>6, <2>7, <2>8, <2>9, <2>10, <2>11 DEF WasInserted
  <2> QED BY <2>12
<1> QED BY <1>1, <1>2

----------------------------------------------------------------------------
(* What a new point does to the points of a curve *)

CoveredBy(C, p) == \E q \in C : NoWorse(q, p)

Improves(C, D) == \A p \in C : p \in D \/ \E q \in D : Dominates(q, p)

ArePointsOf(C) == \A q \in C : IsPoint(q)

\* What is covered by a curve is covered by a better one.
LEMMA ImprovesCovers ==
  ASSUME NEW C, NEW D, ArePointsOf(C), ArePointsOf(D), Improves(C, D), NEW p, IsPoint(p),
         CoveredBy(C, p)
  PROVE  CoveredBy(D, p)
<1>1. PICK q \in C : NoWorse(q, p)
  BY DEF CoveredBy
<1>2. CASE q \in D
  BY <1>1, <1>2 DEF CoveredBy
<1>3. CASE q \notin D
  <2>1. PICK r \in D : Dominates(r, q)
    BY <1>3 DEF Improves
  <2>2. IsPoint(r) /\ IsPoint(q)
    BY DEF ArePointsOf
  <2>3. NoWorse(r, p)
    BY <1>1, <2>1, <2>2 DEF NoWorse, Dominates, IsPoint
  <2> QED BY <2>3 DEF CoveredBy
<1> QED BY <1>2, <1>3

\* A curve gets better if a point takes the place of points that it beats.
LEMMA InsertImproves ==
  ASSUME NEW C, NEW gone, gone \subseteq C, NEW p, \A q \in gone : Dominates(p, q)
  PROVE  Improves(C, (C \ gone) \cup {p})
BY DEF Improves

\* One value of the points for each other one.
MapOf(C, key, value) ==
  [k \in {p[key] : p \in C} |-> (CHOOSE p \in C : p[key] = k)[value]]

Unique(C, key) == \A p, q \in C : p[key] = q[key] => p = q

LEMMA MapOfIs ==
  ASSUME NEW C, NEW key, NEW value, Unique(C, key)
  PROVE  /\ \A k : k \in DOMAIN MapOf(C, key, value) <=> \E p \in C : k = p[key]
         /\ \A p \in C : MapOf(C, key, value)[p[key]] = p[value]
<1>1. \A k : k \in DOMAIN MapOf(C, key, value) <=> \E p \in C : k = p[key]
  BY DEF MapOf
<1>2. ASSUME NEW p \in C PROVE MapOf(C, key, value)[p[key]] = p[value]
  <2> DEFINE c == CHOOSE q \in C : q[key] = p[key]
  <2>1. c \in C /\ c[key] = p[key]
    OBVIOUS
  <2>2. c = p
    BY <2>1 DEF Unique
  <2>3. MapOf(C, key, value)[p[key]] = c[value]
    BY DEF MapOf
  <2> QED BY <2>2, <2>3
<1> QED BY <1>1, <1>2

KeysOf(S, key) == {q[key] : q \in S}

\* The entries that updateTradeoffCurve removes and adds give the map of the new curve.
LEMMA MapInsert ==
  ASSUME NEW C, NEW key, NEW value, Unique(C, key), NEW gone, gone \subseteq C, NEW p,
         p \notin C, Unique((C \ gone) \cup {p}, key)
  PROVE  Mapped(MapOf(C, key, value), KeysOf(gone, key), p[key], p[value])
           = MapOf((C \ gone) \cup {p}, key, value)
<1> DEFINE D == (C \ gone) \cup {p}
           map == MapOf(C, key, value)
           left == DOMAIN map \ {q[key] : q \in gone}
           new == MapOf(D, key, value)
           keys == {q[key] : q \in D}
<1>1. /\ \A k : k \in DOMAIN map <=> \E q \in C : k = q[key]
      /\ \A q \in C : map[q[key]] = q[value]
  BY MapOfIs
<1>2. /\ \A k : k \in DOMAIN new <=> \E q \in D : k = q[key]
      /\ \A q \in D : new[q[key]] = q[value]
  <2> HIDE DEF D
  <2>1. Unique(D, key)
    BY DEF D
  <2> QED BY <2>1, MapOfIs
<1>3. ASSUME NEW k PROVE k \in left <=> \E q \in C \ gone : k = q[key]
  <2>1. ASSUME k \in left PROVE \E q \in C \ gone : k = q[key]
    <3>1. PICK q \in C : k = q[key]
      BY <1>1, <2>1
    <3>2. q \notin gone
      BY <2>1, <3>1
    <3> QED BY <3>1, <3>2
  <2>2. ASSUME NEW q \in C \ gone, k = q[key] PROVE k \in left
    <3>1. k \in DOMAIN map
      BY <1>1, <2>2
    <3>2. ASSUME NEW r \in gone, k = r[key] PROVE FALSE
      <4>1. r = q
        BY <2>2, <3>2 DEF Unique
      <4> QED BY <4>1
    <3> QED BY <3>1, <3>2
  <2> QED BY <2>1, <2>2
<1>4. p[key] \notin left
  <2> SUFFICES ASSUME NEW q \in C \ gone, p[key] = q[key] PROVE FALSE
    BY <1>3
  <2>1. q \in D /\ p \in D
    OBVIOUS
  <2> QED BY <2>1 DEF Unique
<1>5. left \cup {p[key]} = keys
  <2>1. ASSUME NEW k PROVE k \in left \cup {p[key]} <=> k \in keys
    <3> HIDE DEF left
    <3> QED BY <1>3
  <2> HIDE DEF left, keys
  <2> QED BY <2>1
<1> HIDE DEF map, new, left
<1>6. Mapped(map, {q[key] : q \in gone}, p[key], p[value])
        = [k \in left \cup {p[key]} |-> IF k \in left THEN map[k] ELSE p[value]]
  BY DEF Mapped, left
<1>7. ASSUME NEW k \in keys
      PROVE  (IF k \in left THEN map[k] ELSE p[value]) = new[k]
  <2>1. CASE k \in left
    <3>1. PICK q \in C \ gone : k = q[key]
      BY <1>3, <2>1
    <3>2. map[k] = q[value] /\ new[k] = q[value]
      BY <1>1, <1>2, <3>1
    <3> QED BY <2>1, <3>2
  <2>2. CASE k \notin left
    <3>1. k = p[key]
      BY <1>5, <2>2
    <3>2. new[k] = p[value]
      BY <1>2, <3>1
    <3> QED BY <2>2, <3>2
  <2> QED BY <2>1, <2>2
<1>8. new = [k \in keys |-> new[k]]
  BY <1>2 DEF new, MapOf
<1> HIDE DEF keys
<1>9. [k \in keys |-> IF k \in left THEN map[k] ELSE p[value]] = [k \in keys |-> new[k]]
  BY <1>7
<1> QED BY <1>5, <1>6, <1>8, <1>9 DEF map, new, KeysOf

\* A curve that is sorted has each load and each bandwidth once.
LEMMA SortedUnique ==
  ASSUME NEW S, NEW list \in Seq(S), \A i \in 1 .. Len(list) : IsPoint(list[i]), Sorted(list)
  PROVE  Unique(InSeq(list), "load") /\ Unique(InSeq(list), "bdwt")
<1>1. \A i, j \in 1 .. Len(list) :
        i < j => list[i].load < list[j].load /\ list[i].bdwt > list[j].bdwt
  BY DEF Sorted
<1>2. ASSUME NEW i \in 1 .. Len(list), NEW j \in 1 .. Len(list), i # j
      PROVE  list[i].load # list[j].load /\ list[i].bdwt # list[j].bdwt
  <2>1. i < j \/ j < i
    BY <1>2
  <2>2. IsPoint(list[i]) /\ IsPoint(list[j])
    OBVIOUS
  <2> QED BY <1>1, <2>1, <2>2 DEF IsPoint
<1> QED BY <1>2 DEF Unique, InSeq

----------------------------------------------------------------------------
(* The inductive invariant *)

OnCurve == InSeq(curve)
PointOf(x) == Point(group, Recolored(origin, x[1], x[2]))

ITypes ==
  /\ group \in Groups /\ program \in ProgramsOf[group]
  /\ pc \in {"search", "expand", "select", "restart", "done"}
  /\ curve \in Seq(PointsOf(group)) /\ curve # <<>>
  /\ expanded \subseteq Solutions(group) /\ visited \subseteq Solutions(group)
  /\ pool \subseteq Solutions(group) /\ fresh \subseteq Solutions(group)
  /\ origin \in Solutions(group) /\ todo \subseteq Recolorings(origin)
  /\ pc # "expand" => todo = {}
  /\ \A k \in DOMAIN load2bdwt : load2bdwt[k] \in Nat
  /\ \A k \in DOMAIN bdwt2load : bdwt2load[k] \in Nat
  /\ attempts \in Nat /\ attempts <= MaxAttempts
  /\ pc \in {"search", "expand", "select"} => attempts < MaxAttempts
  /\ answer = {} \/ \E a \in PointsOf(group) : answer = {a}
  /\ pc \in {"select", "restart"} => program = "genMLP"

ICurve == Sorted(curve)

IMaps ==
  program = "genMLP" => /\ load2bdwt = MapOf(OnCurve, "load", "bdwt")
                        /\ bdwt2load = MapOf(OnCurve, "bdwt", "load")

\* What genMLP has visited, the points of the curve among them, is covered.
IVisited ==
  program = "genMLP" => /\ \A q \in OnCurve : q.sol \in visited
                        /\ \A s \in visited : CoveredBy(OnCurve, Point(group, s))

\* What was expanded was on the curve, and is still covered: it never comes back.
IExpanded == \A s \in expanded : CoveredBy(OnCurve, Point(group, s))

\* NewgenMLP's two sets have the solutions of the curve that were not expanded.
IPool ==
  program = "NewgenMLP" => /\ pool \cup fresh = {q.sol : q \in OnCurve} \ expanded
                           /\ pc # "expand" => fresh = {}

\* The recolorings of a point that was expanded are covered, unless they are still to be
\* compared.
ILocal ==
  \A q \in OnCurve : q.sol \in expanded =>
    \A x \in Recolorings(q.sol) :
      (q.sol = origin /\ x \in todo)
        \/ CoveredBy(OnCurve, Point(group, Recolored(q.sol, x[1], x[2])))

ISearched ==
  pc \in {"select", "restart", "done"} => \A q \in OnCurve : q.sol \in expanded

IInv ==
  ITypes /\ ICurve /\ IMaps /\ IVisited /\ IExpanded /\ IPool /\ ILocal /\ ISearched

LEMMA Programs == ASSUME ITypes PROVE program \in {"genMLP", "NewgenMLP"}
BY SearchAssumption DEF ITypes

LEMMA CurvePoints ==
  ASSUME NEW g \in Groups, NEW list \in Seq(PointsOf(g))
  PROVE  /\ \A q \in InSeq(list) : /\ q \in PointsOf(g) /\ IsPoint(q)
                                   /\ q.sol \in Solutions(g) /\ q = Point(g, q.sol)
         /\ \A i \in 1 .. Len(list) : IsPoint(list[i])
         /\ ArePointsOf(InSeq(list))
         /\ ToSet(list) = InSeq(list)
<1>1. ASSUME NEW i \in 1 .. Len(list)
      PROVE  /\ list[i] \in PointsOf(g) /\ IsPoint(list[i])
             /\ list[i].sol \in Solutions(g) /\ list[i] = Point(g, list[i].sol)
  <2>1. list[i] \in PointsOf(g)
    OBVIOUS
  <2> QED BY <2>1, PointsAre DEF IsPoint
<1>2. ToSet(list) = InSeq(list)
  BY ToSetIs
<1> QED BY <1>1, <1>2 DEF InSeq, ArePointsOf

\* A recoloring that is to be compared is another solution.
LEMMA RecoloringIs ==
  ASSUME ITypes, NEW s \in Solutions(group), NEW x \in Recolorings(s)
  PROVE  /\ x[1] \in DOMAIN s /\ x[2] \in Colors(group) /\ x[2] # s[x[1]]
         /\ Recolored(s, x[1], x[2]) \in Solutions(group)
         /\ Point(group, Recolored(s, x[1], x[2])) \in PointsOf(group)
         /\ Point(group, Recolored(s, x[1], x[2])).sol = Recolored(s, x[1], x[2])
         /\ IsPoint(Point(group, Recolored(s, x[1], x[2])))
<1>1. group \in Groups
  BY DEF ITypes
<1>2. x[1] \in DOMAIN s /\ x[2] \in Colors(group) /\ x[2] # s[x[1]]
  BY DEF Recolorings
<1> DEFINE r == Recolored(s, x[1], x[2])
<1>3. r \in Solutions(group)
  BY <1>1, <1>2, RecoloredIs
<1> HIDE DEF r
<1>4. Point(group, r) \in PointsOf(group) /\ Point(group, r).sol = r
  BY <1>1, <1>3, SolIs
<1>5. IsPoint(Point(group, r))
  BY <1>1, <1>4, PointsAre DEF IsPoint
<1> QED BY <1>2, <1>3, <1>4, <1>5 DEF r

\* The quick test is right: it knows of a point on the curve.
LEMMA QuickTestIs ==
  ASSUME ITypes, ICurve, IMaps, program = "genMLP", NEW p, IsPoint(p)
  PROVE  /\ KnownWorse(p) => CoveredBy(OnCurve, p)
         /\ ~ KnownWorse(p) => \A q \in OnCurve : ~ (q.load = p.load /\ q.bdwt = p.bdwt)
<1>1. Unique(OnCurve, "load") /\ Unique(OnCurve, "bdwt")
  BY CurvePoints, SortedUnique DEF ITypes, ICurve, OnCurve
<1>2. \A q \in OnCurve : IsPoint(q)
  BY CurvePoints DEF ITypes, OnCurve
<1> DEFINE C == OnCurve
<1> HIDE DEF C
<1>3. /\ \A k : k \in DOMAIN load2bdwt <=> \E q \in C : k = q["load"]
      /\ \A q \in C : load2bdwt[q["load"]] = q["bdwt"]
  <2>1. load2bdwt = MapOf(C, "load", "bdwt") /\ Unique(C, "load")
    BY <1>1 DEF IMaps, C
  <2>2. /\ \A k : k \in DOMAIN MapOf(C, "load", "bdwt") <=> \E q \in C : k = q["load"]
        /\ \A q \in C : MapOf(C, "load", "bdwt")[q["load"]] = q["bdwt"]
    BY <2>1, MapOfIs
  <2> QED BY <2>1, <2>2
<1>4. /\ \A k : k \in DOMAIN bdwt2load <=> \E q \in C : k = q["bdwt"]
      /\ \A q \in C : bdwt2load[q["bdwt"]] = q["load"]
  <2>1. bdwt2load = MapOf(C, "bdwt", "load") /\ Unique(C, "bdwt")
    BY <1>1 DEF IMaps, C
  <2>2. /\ \A k : k \in DOMAIN MapOf(C, "bdwt", "load") <=> \E q \in C : k = q["bdwt"]
        /\ \A q \in C : MapOf(C, "bdwt", "load")[q["bdwt"]] = q["load"]
    BY <2>1, MapOfIs
  <2> QED BY <2>1, <2>2
<1>5. CASE p.load \in DOMAIN load2bdwt
  <2>1. PICK q \in C : q.load = p.load
    BY <1>3, <1>5
  <2>2. KnownWorse(p) <=> q.bdwt <= p.bdwt
    BY <1>3, <1>5, <2>1 DEF KnownWorse
  <2>3. IsPoint(q)
    BY <1>2 DEF C
  <2>4. \A r \in C : r.load = p.load => r = q
    BY <1>1, <2>1 DEF Unique, C
  <2>5. KnownWorse(p) => NoWorse(q, p)
    BY <2>1, <2>2, <2>3 DEF NoWorse, IsPoint
  <2>6. ~ KnownWorse(p) => q.bdwt # p.bdwt
    BY <2>2, <2>3 DEF IsPoint
  <2> QED BY <2>4, <2>5, <2>6 DEF CoveredBy, C
<1>6. CASE p.load \notin DOMAIN load2bdwt
  <2>1. \A q \in C : q.load # p.load
    BY <1>3, <1>6
  <2>2. ASSUME KnownWorse(p) PROVE CoveredBy(C, p)
    <3>1. p.bdwt \in DOMAIN bdwt2load /\ bdwt2load[p.bdwt] <= p.load
      BY <1>6, <2>2 DEF KnownWorse
    <3>2. PICK q \in C : q.bdwt = p.bdwt
      BY <1>4, <3>1
    <3>3. q.load <= p.load /\ IsPoint(q)
      BY <1>2, <1>4, <3>1, <3>2 DEF C
    <3>4. NoWorse(q, p)
      BY <3>2, <3>3 DEF NoWorse, IsPoint
    <3> QED BY <3>4 DEF CoveredBy
  <2> QED BY <2>1, <2>2 DEF C
<1> QED BY <1>5, <1>6

\* With the quick test, or without need of it, a point may be compared.
LEMMA NewFits ==
  ASSUME ITypes, ICurve, NEW p \in PointsOf(group),
         program = "genMLP" => \A q \in OnCurve : ~ (q.load = p.load /\ q.bdwt = p.bdwt)
  PROVE  Fits(p)
<1>1. group \in Groups /\ curve \in Seq(PointsOf(group)) /\ curve # <<>>
  BY DEF ITypes
<1>2. IsPoint(p) /\ p = Point(group, p.sol)
  BY <1>1, PointsAre DEF IsPoint
<1>3. /\ \A i \in 1 .. Len(curve) : IsPoint(curve[i]) /\ curve[i] \in OnCurve
      /\ \A q \in OnCurve : q = Point(group, q.sol)
  BY <1>1, CurvePoints DEF OnCurve, InSeq
<1>4. \A i \in 1 .. Len(curve) : curve[i].sol = p.sol => curve[i] = p
  BY <1>2, <1>3
<1> QED BY <1>1, <1>2, <1>3, <1>4, Programs DEF Fits, ArePoints, ICurve

----------------------------------------------------------------------------
(* The comparison of one recoloring *)

\* The recoloring is no better than the curve, ...
Keeps(x) ==
  /\ CoveredBy(OnCurve, PointOf(x))
  /\ UNCHANGED <<curve, load2bdwt, bdwt2load, pool, fresh>>

\* ... or it gets onto it.
Inserts(x) ==
  \E w :
    /\ WasInserted(PointsOf(group), w, PointOf(x)) /\ curve' = w.list
    /\ program = "genMLP" =>
         /\ load2bdwt' = Mapped(load2bdwt, {q.load : q \in w.gone},
                                PointOf(x).load, PointOf(x).bdwt)
         /\ bdwt2load' = Mapped(bdwt2load, {q.bdwt : q \in w.gone},
                                PointOf(x).bdwt, PointOf(x).load)
         /\ UNCHANGED <<pool, fresh>>
    /\ program = "NewgenMLP" =>
         /\ UNCHANGED <<load2bdwt, bdwt2load>>
         /\ pool' = pool \ {q.sol : q \in w.gone}
         /\ fresh' = (fresh \cup {PointOf(x).sol}) \ {q.sol : q \in w.gone}

Compares(x) ==
  /\ pc = "expand" /\ x \in todo /\ todo' = todo \ {x}
  /\ UNCHANGED <<group, program, pc, expanded, origin, attempts, answer>>
  /\ visited' = IF program = "genMLP" THEN visited \cup {PointOf(x).sol} ELSE visited
  /\ Keeps(x) \/ Inserts(x)

\* What the walk of a recoloring does to the curve.
LEMMA WalkOf ==
  ASSUME ITypes, ICurve, NEW p \in PointsOf(group), Fits(p)
  PROVE  \/ Walk(p) = Over(curve, {}) /\ CoveredBy(OnCurve, p)
         \/ WasInserted(PointsOf(group), Walk(p), p)
<1>1. curve \in Seq(PointsOf(group))
  BY DEF ITypes
<1>2. WasDropped(Walk(p), p) \/ WasInserted(PointsOf(group), Walk(p), p)
  BY <1>1, WalkIs
<1> QED BY <1>2 DEF WasDropped, CoveredBy, OnCurve

\* A step of genMLP compares a recoloring, ...
LEMMA ExpandNextIs ==
  ASSUME IInv, ExpandNext
  PROVE  \E x : Compares(x)
<1>1. ITypes /\ ICurve /\ IMaps /\ IVisited /\ program = "genMLP" /\ pc = "expand"
  BY DEF IInv, ExpandNext
<1>2. PICK x \in todo :
        /\ todo' = todo \ {x}
        /\ LET sol == Recolored(origin, x[1], x[2])
               p == Point(group, sol)
               walk == Walk(p)
           IN  IF sol \in visited
               THEN UNCHANGED <<visited, curve, load2bdwt, bdwt2load>>
               ELSE /\ visited' = visited \cup {sol}
                    /\ IF KnownWorse(p) \/ p \notin ToSet(walk.list)
                       THEN UNCHANGED <<curve, load2bdwt, bdwt2load>>
                       ELSE /\ curve' = walk.list
                            /\ load2bdwt' = Mapped(load2bdwt, {q.load : q \in walk.gone},
                                                   p.load, p.bdwt)
                            /\ bdwt2load' = Mapped(bdwt2load, {q.bdwt : q \in walk.gone},
                                                   p.bdwt, p.load)
  BY DEF ExpandNext
<1>3. UNCHANGED <<group, program, pc, expanded, pool, origin, fresh, attempts, answer>>
  BY DEF ExpandNext
<1> DEFINE sol == Recolored(origin, x[1], x[2])
           p == Point(group, sol)
           walk == Walk(p)
<1>4. p \in PointsOf(group) /\ p.sol = sol /\ IsPoint(p) /\ sol \in Solutions(group)
  <2>1. x \in Recolorings(origin) /\ origin \in Solutions(group)
    BY <1>1 DEF ITypes
  <2> QED BY <1>1, <2>1, RecoloringIs
<1>5. PointOf(x) = p
  BY DEF PointOf
<1> HIDE DEF p
<1>6. CASE sol \in visited
  <2>1. CoveredBy(OnCurve, p)
    BY <1>1, <1>6 DEF IVisited, p
  <2>2. Keeps(x)
    BY <1>2, <1>3, <1>5, <1>6, <2>1 DEF Keeps
  <2>3. visited' = visited \cup {p.sol}
    BY <1>2, <1>4, <1>6
  <2> QED BY <1>1, <1>2, <1>3, <1>5, <2>2, <2>3 DEF Compares
<1>7. CASE sol \notin visited
  <2>1. visited' = visited \cup {p.sol}
    BY <1>2, <1>4, <1>7
  <2>2. CASE KnownWorse(p)
    <3>1. CoveredBy(OnCurve, p)
      BY <1>1, <1>4, <2>2, QuickTestIs
    <3>2. UNCHANGED <<curve, load2bdwt, bdwt2load>>
      BY <1>2, <1>7, <2>2 DEF p
    <3>3. Keeps(x)
      BY <1>3, <1>5, <3>1, <3>2 DEF Keeps
    <3> QED BY <1>1, <1>2, <1>3, <1>5, <2>1, <3>3 DEF Compares
  <2>3. CASE ~ KnownWorse(p)
    <3>1. Fits(p)
      BY <1>1, <1>4, <2>3, QuickTestIs, NewFits
    <3>2. \/ walk = Over(curve, {}) /\ CoveredBy(OnCurve, p)
          \/ WasInserted(PointsOf(group), walk, p)
      BY <1>1, <1>4, <3>1, WalkOf
    <3>3. IF p \notin ToSet(walk.list)
          THEN UNCHANGED <<curve, load2bdwt, bdwt2load>>
          ELSE /\ curve' = walk.list
               /\ load2bdwt' = Mapped(load2bdwt, {q.load : q \in walk.gone}, p.load, p.bdwt)
               /\ bdwt2load' = Mapped(bdwt2load, {q.bdwt : q \in walk.gone}, p.bdwt, p.load)
      BY <1>2, <1>7, <2>3 DEF p
    <3> HIDE DEF walk
    <3>4. CASE walk = Over(curve, {}) /\ CoveredBy(OnCurve, p)
      <4>1. ToSet(walk.list) = OnCurve
        <5>1. walk.list = curve
          BY <3>4 DEF Over, State
        <5>2. group \in Groups /\ curve \in Seq(PointsOf(group))
          BY <1>1 DEF ITypes
        <5> QED BY <5>1, <5>2, CurvePoints DEF OnCurve
      <4>2. p \notin OnCurve
        BY <1>1, <1>4, <1>7 DEF IVisited
      <4>3. Keeps(x)
        BY <1>3, <1>5, <3>3, <3>4, <4>1, <4>2 DEF Keeps
      <4> QED BY <1>1, <1>2, <1>3, <1>5, <2>1, <4>3 DEF Compares
    <3>5. CASE WasInserted(PointsOf(group), walk, p)
      <4>1. p \in ToSet(walk.list)
        <5>1. walk.list \in Seq(PointsOf(group)) /\ p \in InSeq(walk.list) /\ group \in Groups
          BY <1>1, <3>5 DEF WasInserted, ITypes
        <5> QED BY <5>1, CurvePoints
      <4>2. Inserts(x)
        BY <1>1, <1>3, <1>5, <3>3, <3>5, <4>1 DEF Inserts
      <4> QED BY <1>1, <1>2, <1>3, <1>5, <2>1, <4>2 DEF Compares
    <3> QED BY <3>2, <3>4, <3>5
  <2> QED BY <2>2, <2>3
<1> QED BY <1>6, <1>7

\* ... and so does one of NewgenMLP.
LEMMA PruneNextIs ==
  ASSUME IInv, PruneNext
  PROVE  \E x : Compares(x)
<1>1. ITypes /\ ICurve /\ program = "NewgenMLP" /\ pc = "expand"
  BY DEF IInv, PruneNext
<1>2. PICK x \in todo :
        LET sol == Recolored(origin, x[1], x[2])
            walk == Walk(Point(group, sol))
            gone == {q.sol : q \in walk.gone}
        IN  /\ todo' = todo \ {x}
            /\ curve' = walk.list
            /\ pool' = pool \ gone
            /\ fresh' = (fresh \cup (IF walk.end THEN {} ELSE {sol})) \ gone
  BY DEF PruneNext
<1>3. UNCHANGED <<group, program, pc, expanded, visited, load2bdwt, bdwt2load, origin,
                  attempts, answer>>
  BY DEF PruneNext
<1> DEFINE sol == Recolored(origin, x[1], x[2])
           p == Point(group, sol)
           walk == Walk(p)
<1>4. p \in PointsOf(group) /\ p.sol = sol /\ IsPoint(p) /\ sol \in Solutions(group)
  <2>1. x \in Recolorings(origin) /\ origin \in Solutions(group)
    BY <1>1 DEF ITypes
  <2> QED BY <1>1, <2>1, RecoloringIs
<1>5. PointOf(x) = p
  BY DEF PointOf
<1>6. \/ walk = Over(curve, {}) /\ CoveredBy(OnCurve, p)
      \/ WasInserted(PointsOf(group), walk, p)
  <2> HIDE DEF p
  <2>1. Fits(p)
    BY <1>1, <1>4, NewFits
  <2> QED BY <1>1, <1>4, <2>1, WalkOf
<1>7. /\ curve' = walk.list /\ todo' = todo \ {x}
      /\ pool' = pool \ {q.sol : q \in walk.gone}
      /\ walk.end => fresh' = (fresh \cup {}) \ {q.sol : q \in walk.gone}
      /\ ~ walk.end => fresh' = (fresh \cup {sol}) \ {q.sol : q \in walk.gone}
  BY <1>2
<1> HIDE DEF p, sol, walk
<1>8. CASE walk = Over(curve, {}) /\ CoveredBy(OnCurve, p)
  <2>1. walk.list = curve /\ walk.gone = {} /\ walk.end
    BY <1>8 DEF Over, State
  <2>2. {q.sol : q \in walk.gone} = {}
    BY <2>1
  <2>3. pool' = pool /\ fresh' = fresh /\ curve' = curve
    BY <1>7, <2>1, <2>2
  <2>4. Keeps(x)
    BY <1>3, <1>5, <1>8, <2>3 DEF Keeps
  <2> QED BY <1>1, <1>2, <1>3, <1>7, <2>4 DEF Compares
<1>9. CASE WasInserted(PointsOf(group), walk, p)
  <2>1. ~ walk.end
    <3>1. walk = Going(walk.list, walk.gone)
      BY <1>9 DEF WasInserted
    <3> QED BY <3>1 DEF Going, State
  <2>2. Inserts(x)
    BY <1>1, <1>3, <1>4, <1>5, <1>7, <1>9, <2>1 DEF Inserts
  <2> QED BY <1>1, <1>2, <1>3, <1>7, <2>2 DEF Compares
<1> QED BY <1>6, <1>8, <1>9

\* What every comparison does.
Compared(x) ==
  /\ pc = "expand" /\ x \in todo /\ x \in Recolorings(origin) /\ todo' = todo \ {x}
  /\ UNCHANGED <<group, program, pc, expanded, origin, attempts, answer>>
  /\ group \in Groups /\ curve \in Seq(PointsOf(group))
  /\ curve' \in Seq(PointsOf(group)) /\ curve' # <<>> /\ Sorted(curve')
  /\ PointOf(x) \in PointsOf(group) /\ IsPoint(PointOf(x))
  /\ PointOf(x).sol \in Solutions(group) /\ PointOf(x) = Point(group, PointOf(x).sol)
  /\ PointOf(x).sol = Recolored(origin, x[1], x[2])
  /\ ArePointsOf(InSeq(curve)) /\ ArePointsOf(InSeq(curve'))
  /\ Improves(InSeq(curve), InSeq(curve'))
  /\ CoveredBy(InSeq(curve'), PointOf(x))
  /\ \A q \in InSeq(curve') :
       q \in InSeq(curve) \/ (q = PointOf(x) /\ PointOf(x).sol \notin expanded)

\* A recoloring is covered once it was compared, and what was on the curve still is.
LEMMA ComparedIs ==
  ASSUME IInv, NEW x, Compares(x)
  PROVE  Compared(x)
<1> DEFINE p == PointOf(x)
           C == InSeq(curve)
           D == InSeq(curve')
<1>1. ITypes /\ ICurve /\ IExpanded
  BY DEF IInv
<1>2. /\ pc = "expand" /\ x \in todo /\ todo' = todo \ {x}
      /\ UNCHANGED <<group, program, pc, expanded, origin, attempts, answer>>
      /\ Keeps(x) \/ Inserts(x)
  BY DEF Compares
<1>3. /\ group \in Groups /\ curve \in Seq(PointsOf(group)) /\ curve # <<>> /\ Sorted(curve)
      /\ x \in Recolorings(origin) /\ origin \in Solutions(group)
  BY <1>1, <1>2 DEF ITypes, ICurve
<1>4. p \in PointsOf(group) /\ IsPoint(p) /\ p.sol = Recolored(origin, x[1], x[2])
  BY <1>1, <1>3, RecoloringIs DEF PointOf
<1>5. p.sol \in Solutions(group) /\ p = Point(group, p.sol)
  BY <1>3, <1>4, PointsAre
<1> HIDE DEF p, C, D
<1>6. ArePointsOf(C)
  BY <1>3, CurvePoints DEF C
<1>7. CASE Keeps(x)
  <2>1. CoveredBy(C, p) /\ curve' = curve
    BY <1>7 DEF Keeps, OnCurve, C, p
  <2>2. D = C
    BY <2>1 DEF C, D
  <2>3. Improves(C, D)
    BY <2>2 DEF Improves
  <2> QED BY <1>2, <1>3, <1>4, <1>5, <1>6, <2>1, <2>2, <2>3 DEF Compared, C, D, p
<1>8. CASE Inserts(x)
  <2>1. PICK w : WasInserted(PointsOf(group), w, p) /\ curve' = w.list
    BY <1>8 DEF Inserts, p
  <2>2. /\ curve' \in Seq(PointsOf(group)) /\ curve' # <<>> /\ Sorted(curve')
        /\ D = (C \ w.gone) \cup {p} /\ w.gone \subseteq C
        /\ \A q \in w.gone : Dominates(p, q)
        /\ \A q \in C : ~ NoWorse(q, p)
    BY <2>1 DEF WasInserted, C, D
  <2>3. ArePointsOf(D)
    BY <1>3, <2>2, CurvePoints DEF D
  <2>4. Improves(C, D)
    BY <2>2, InsertImproves
  <2>5. NoWorse(p, p)
    BY <1>4 DEF IsPoint, NoWorse
  <2>6. CoveredBy(D, p)
    BY <2>2, <2>5 DEF CoveredBy
  <2>7. p.sol \notin expanded
    BY <1>1, <1>5, <2>2 DEF IExpanded, CoveredBy, OnCurve, C
  <2>8. \A q \in D : q \in C \/ (q = p /\ p.sol \notin expanded)
    BY <2>2, <2>7
  <2> QED BY <1>2, <1>3, <1>4, <1>5, <1>6, <2>2, <2>3, <2>4, <2>6, <2>8 DEF Compared, C, D, p
<1> QED BY <1>2, <1>7, <1>8

\* Comparing a recoloring keeps the types and the order of the curve, ...
LEMMA CompareTypes ==
  ASSUME IInv, NEW x, Compares(x)
  PROVE  ITypes'
<1>1. ITypes /\ Compared(x)
  BY ComparedIs DEF IInv
<1> DEFINE p == PointOf(x)
<1>2. /\ UNCHANGED <<group, program, pc, expanded, origin, attempts, answer>>
      /\ pc = "expand" /\ todo' \subseteq todo
      /\ curve' \in Seq(PointsOf(group)) /\ curve' # <<>>
      /\ p.sol \in Solutions(group) /\ IsPoint(p)
  BY <1>1 DEF Compared
<1> HIDE DEF p
<1>3. visited' \subseteq Solutions(group)
  BY <1>1, <1>2 DEF Compares, ITypes, p
<1>4. /\ pool' \subseteq Solutions(group) /\ fresh' \subseteq Solutions(group)
      /\ \A k \in DOMAIN load2bdwt' : load2bdwt'[k] \in Nat
      /\ \A k \in DOMAIN bdwt2load' : bdwt2load'[k] \in Nat
  <2>1. CASE Keeps(x)
    BY <1>1, <2>1 DEF Keeps, ITypes
  <2>2. CASE Inserts(x)
    <3>1. PICK w :
            /\ program = "genMLP" =>
                 /\ load2bdwt' = Mapped(load2bdwt, {q.load : q \in w.gone}, p.load, p.bdwt)
                 /\ bdwt2load' = Mapped(bdwt2load, {q.bdwt : q \in w.gone}, p.bdwt, p.load)
                 /\ UNCHANGED <<pool, fresh>>
            /\ program = "NewgenMLP" =>
                 /\ UNCHANGED <<load2bdwt, bdwt2load>>
                 /\ pool' = pool \ {q.sol : q \in w.gone}
                 /\ fresh' = (fresh \cup {p.sol}) \ {q.sol : q \in w.gone}
      BY <2>2 DEF Inserts, p
    <3>2. CASE program = "genMLP"
      <4>1. \A k \in DOMAIN load2bdwt' : load2bdwt'[k] \in Nat
        BY <1>1, <1>2, <3>1, <3>2 DEF Mapped, ITypes, IsPoint
      <4>2. \A k \in DOMAIN bdwt2load' : bdwt2load'[k] \in Nat
        BY <1>1, <1>2, <3>1, <3>2 DEF Mapped, ITypes, IsPoint
      <4> QED BY <1>1, <3>1, <3>2, <4>1, <4>2 DEF ITypes
    <3>3. CASE program = "NewgenMLP"
      BY <1>1, <1>2, <3>1, <3>3 DEF ITypes
    <3> QED BY <1>1, <3>2, <3>3, Programs
  <2> QED BY <2>1, <2>2 DEF Compares
<1>5. todo' \subseteq Recolorings(origin)' /\ origin' \in Solutions(group')
  BY <1>1, <1>2 DEF ITypes, Recolorings
<1> QED BY <1>1, <1>2, <1>3, <1>4, <1>5 DEF ITypes

\* ... the maps, ...
LEMMA CompareMaps ==
  ASSUME IInv, NEW x, Compares(x)
  PROVE  IMaps'
<1> DEFINE p == PointOf(x)
           C == InSeq(curve)
           D == InSeq(curve')
<1>1. ITypes /\ ICurve /\ IMaps /\ Compared(x)
  BY ComparedIs DEF IInv
<1>2. program' = program /\ group \in Groups /\ curve' \in Seq(PointsOf(group)) /\ Sorted(curve')
  BY <1>1 DEF Compared
<1> SUFFICES ASSUME program = "genMLP"
             PROVE  /\ load2bdwt' = MapOf(D, "load", "bdwt")
                    /\ bdwt2load' = MapOf(D, "bdwt", "load")
  BY <1>2 DEF IMaps, OnCurve
<1>3. /\ load2bdwt = MapOf(C, "load", "bdwt") /\ bdwt2load = MapOf(C, "bdwt", "load")
      /\ Unique(C, "load") /\ Unique(C, "bdwt")
  BY <1>1, <1>2, CurvePoints, SortedUnique DEF IMaps, OnCurve, ITypes, ICurve
<1>4. Unique(D, "load") /\ Unique(D, "bdwt")
  BY <1>2, CurvePoints, SortedUnique
<1> HIDE DEF C, D, p
<1>5. CASE Keeps(x)
  <2>1. D = C
    BY <1>5 DEF Keeps, C, D
  <2> QED BY <1>3, <1>5, <2>1 DEF Keeps
<1>6. CASE Inserts(x)
  <2>1. PICK w :
          /\ WasInserted(PointsOf(group), w, p) /\ curve' = w.list
          /\ load2bdwt' = Mapped(load2bdwt, {q.load : q \in w.gone}, p.load, p.bdwt)
          /\ bdwt2load' = Mapped(bdwt2load, {q.bdwt : q \in w.gone}, p.bdwt, p.load)
    BY <1>6 DEF Inserts, p
  <2> DEFINE gone == w.gone
  <2>2. D = (C \ gone) \cup {p} /\ gone \subseteq C /\ p \notin C
    BY <2>1 DEF WasInserted, C, D
  <2> HIDE DEF gone
  <2>3. Mapped(MapOf(C, "load", "bdwt"), KeysOf(gone, "load"), p["load"], p["bdwt"])
          = MapOf(D, "load", "bdwt")
    <3>1. Unique((C \ gone) \cup {p}, "load")
      BY <1>4, <2>2
    <3>2. Mapped(MapOf(C, "load", "bdwt"), KeysOf(gone, "load"), p["load"], p["bdwt"])
            = MapOf((C \ gone) \cup {p}, "load", "bdwt")
      BY <1>3, <2>2, <3>1, MapInsert
    <3> QED BY <2>2, <3>2
  <2>4. Mapped(MapOf(C, "bdwt", "load"), KeysOf(gone, "bdwt"), p["bdwt"], p["load"])
          = MapOf(D, "bdwt", "load")
    <3>1. Unique((C \ gone) \cup {p}, "bdwt")
      BY <1>4, <2>2
    <3>2. Mapped(MapOf(C, "bdwt", "load"), KeysOf(gone, "bdwt"), p["bdwt"], p["load"])
            = MapOf((C \ gone) \cup {p}, "bdwt", "load")
      BY <1>3, <2>2, <3>1, MapInsert
    <3> QED BY <2>2, <3>2
  <2> QED BY <1>3, <2>1, <2>3, <2>4 DEF gone, KeysOf
<1> QED BY <1>5, <1>6 DEF Compares

\* A comparison leaves what was covered covered.
LEMMA ComparedCovers ==
  ASSUME NEW x, Compared(x), NEW p, IsPoint(p), CoveredBy(InSeq(curve), p)
  PROVE  CoveredBy(InSeq(curve'), p)
<1> DEFINE C == InSeq(curve)
           D == InSeq(curve')
<1>1. ArePointsOf(C) /\ ArePointsOf(D) /\ Improves(C, D) /\ CoveredBy(C, p)
  BY DEF Compared
<1> HIDE DEF C, D
<1>2. CoveredBy(D, p)
  BY <1>1, ImprovesCovers
<1> QED BY <1>2 DEF D

LEMMA SolPoint ==
  ASSUME NEW g \in Groups, NEW s \in Solutions(g)
  PROVE  IsPoint(Point(g, s))
BY PointIs, SolIs, PointsAre DEF IsPoint

\* ... what was visited and expanded covered, ...
LEMMA CompareVisited ==
  ASSUME IInv, NEW x, Compares(x)
  PROVE  IVisited' /\ IExpanded'
<1> DEFINE p == PointOf(x)
           C == InSeq(curve)
           D == InSeq(curve')
<1>1. ITypes /\ IVisited /\ IExpanded /\ Compared(x)
  BY ComparedIs DEF IInv
<1>2. /\ group' = group /\ program' = program /\ expanded' = expanded /\ group \in Groups
      /\ visited' = IF program = "genMLP" THEN visited \cup {p.sol} ELSE visited
      /\ p = Point(group, p.sol) /\ CoveredBy(D, p)
      /\ \A q \in D : q \in C \/ q = p
  BY <1>1 DEF Compared, Compares
<1>3. ASSUME NEW s \in Solutions(group), CoveredBy(C, Point(group, s))
      PROVE  CoveredBy(D, Point(group, s))
  BY <1>1, <1>2, <1>3, SolPoint, ComparedCovers
<1>4. /\ \A s \in expanded : s \in Solutions(group) /\ CoveredBy(C, Point(group, s))
      /\ program = "genMLP" => \A s \in visited : s \in Solutions(group) /\ CoveredBy(C, Point(group, s))
      /\ program = "genMLP" => \A q \in C : q.sol \in visited
  BY <1>1 DEF ITypes, IVisited, IExpanded, OnCurve
<1> HIDE DEF C, D, p
<1>5. \A s \in expanded : CoveredBy(D, Point(group, s))
  BY <1>3, <1>4
<1>6. ASSUME program = "genMLP"
      PROVE  /\ \A q \in D : q.sol \in visited'
             /\ \A s \in visited' : CoveredBy(D, Point(group, s))
  <2>1. visited' = visited \cup {p.sol}
    BY <1>2, <1>6
  <2> QED BY <1>2, <1>3, <1>4, <1>6, <2>1
<1> QED BY <1>2, <1>5, <1>6 DEF IVisited, IExpanded, OnCurve, D

\* ... NewgenMLP's two sets, ...
LEMMA ComparePool ==
  ASSUME IInv, NEW x, Compares(x)
  PROVE  IPool'
<1> DEFINE p == PointOf(x)
           C == InSeq(curve)
           D == InSeq(curve')
<1>1. ITypes /\ IPool /\ Compared(x)
  BY ComparedIs DEF IInv
<1>2. /\ program' = program /\ expanded' = expanded /\ pc = "expand" /\ pc' = pc
      /\ group \in Groups /\ curve \in Seq(PointsOf(group))
      /\ p = Point(group, p.sol)
      /\ \A q \in D : q \in C \/ (q = p /\ p.sol \notin expanded)
  BY <1>1 DEF Compared
<1> SUFFICES ASSUME program = "NewgenMLP"
             PROVE  pool' \cup fresh' = {q.sol : q \in D} \ expanded
  BY <1>2 DEF IPool, OnCurve
<1>3. pool \cup fresh = {q.sol : q \in C} \ expanded
  BY <1>1 DEF IPool, OnCurve
<1>4. \A q \in C : q = Point(group, q.sol)
  BY <1>2, CurvePoints
<1> HIDE DEF C, D, p
<1>5. CASE Keeps(x)
  <2>1. D = C /\ pool' = pool /\ fresh' = fresh
    BY <1>5 DEF Keeps, C, D
  <2> QED BY <1>3, <2>1
<1>6. CASE Inserts(x)
  <2>1. PICK w :
          /\ WasInserted(PointsOf(group), w, p) /\ curve' = w.list
          /\ pool' = pool \ {q.sol : q \in w.gone}
          /\ fresh' = (fresh \cup {p.sol}) \ {q.sol : q \in w.gone}
    BY <1>6 DEF Inserts, p
  <2> DEFINE gone == w.gone
  <2>2. D = (C \ gone) \cup {p} /\ gone \subseteq C /\ p \notin C
    BY <2>1 DEF WasInserted, C, D
  <2>3. p.sol \notin expanded
    BY <1>2, <2>2
  <2> DEFINE goneSols == {q.sol : q \in gone}
  <2>4. pool' \cup fresh' = ((pool \cup fresh) \cup {p.sol}) \ goneSols
    <3>1. p.sol \notin goneSols
      BY <1>2, <1>4, <2>2
    <3> HIDE DEF goneSols
    <3>2. pool' = pool \ goneSols /\ fresh' = (fresh \cup {p.sol}) \ goneSols
      BY <2>1 DEF goneSols
    <3> QED BY <3>1, <3>2
  <2>5. ASSUME NEW s
        PROVE  s \in (({q.sol : q \in C} \ expanded) \cup {p.sol}) \ goneSols
                 <=> s \in {q.sol : q \in D} \ expanded
    <3>1. \A q \in C : s = q.sol => (s \in goneSols <=> q \in gone)
      BY <1>4, <2>2
    <3>2. p.sol \notin goneSols
      BY <1>2, <1>4, <2>2
    <3> HIDE DEF goneSols, gone
    <3> QED BY <2>2, <2>3, <3>1, <3>2
  <2> HIDE DEF goneSols
  <2>6. (({q.sol : q \in C} \ expanded) \cup {p.sol}) \ goneSols = {q.sol : q \in D} \ expanded
    BY <2>5
  <2> QED BY <1>3, <2>4, <2>6
<1> QED BY <1>5, <1>6 DEF Compares

\* ... the recolorings that were compared covered, ...
LEMMA CompareLocal ==
  ASSUME IInv, NEW x, Compares(x)
  PROVE  ILocal'
<1> DEFINE p == PointOf(x)
           C == InSeq(curve)
           D == InSeq(curve')
<1>1. ITypes /\ ILocal /\ Compared(x)
  BY ComparedIs DEF IInv
<1>2. /\ group' = group /\ expanded' = expanded /\ origin' = origin /\ group \in Groups
      /\ todo' = todo \ {x} /\ p = Point(group, Recolored(origin, x[1], x[2]))
      /\ curve \in Seq(PointsOf(group))
      /\ CoveredBy(D, p)
      /\ \A q \in D : q \in C \/ (q = p /\ p.sol \notin expanded)
  BY <1>1 DEF Compared, PointOf
<1>3. ASSUME NEW q \in D, q.sol \in expanded, NEW y \in Recolorings(q.sol)
      PROVE  \/ q.sol = origin /\ y \in todo'
             \/ CoveredBy(D, Point(group, Recolored(q.sol, y[1], y[2])))
  <2>1. q \in C
    BY <1>2, <1>3
  <2>2. \/ q.sol = origin /\ y \in todo
        \/ CoveredBy(C, Point(group, Recolored(q.sol, y[1], y[2])))
    BY <1>1, <1>3, <2>1 DEF ILocal, OnCurve
  <2> HIDE DEF p, D
  <2>3. CASE q.sol = origin /\ y = x
    BY <1>2, <2>3
  <2>4. CASE q.sol = origin /\ y \in todo /\ y # x
    BY <1>2, <2>4
  <2>5. CASE CoveredBy(C, Point(group, Recolored(q.sol, y[1], y[2])))
    <3>1. q.sol \in Solutions(group)
      BY <1>2, <2>1, CurvePoints
    <3>2. IsPoint(Point(group, Recolored(q.sol, y[1], y[2])))
      BY <1>1, <1>3, <3>1, RecoloringIs
    <3> QED BY <1>1, <2>5, <3>2, ComparedCovers DEF D
  <2> QED BY <2>2, <2>3, <2>4, <2>5
<1>4. \A s : Recolorings(s)' = Recolorings(s)
  BY <1>2 DEF Recolorings
<1> QED BY <1>2, <1>3, <1>4 DEF ILocal, OnCurve

\* ... and so the invariant; and the curve gets better.
LEMMA CompareKeeps ==
  ASSUME IInv, NEW x, Compares(x)
  PROVE  IInv' /\ Improves(InSeq(curve), InSeq(curve'))
<1>1. Compared(x)
  BY ComparedIs
<1>2. ICurve' /\ ISearched'
  BY <1>1 DEF Compared, ICurve, ISearched
<1> QED BY <1>1, <1>2, CompareTypes, CompareMaps, CompareVisited, ComparePool, CompareLocal
        DEF IInv, Compared

----------------------------------------------------------------------------
(* The other steps of a search *)

LEMMA MinIs ==
  ASSUME NEW S, S \subseteq Nat, S # {}
  PROVE  Min(S) \in S /\ \A x \in S : Min(S) <= x
<1>1. \E x \in S : \A y \in S : x <= y
  BY LeastElement
<1> QED BY <1>1 DEF Min

\* A curve of one point, with the maps of genMLP for it.
LEMMA OneOnCurve ==
  ASSUME NEW g \in Groups, NEW s \in Solutions(g), NEW p, p = Point(g, s)
  PROVE  /\ <<p>> \in Seq(PointsOf(g)) /\ <<p>> # <<>> /\ Sorted(<<p>>)
         /\ InSeq(<<p>>) = {p} /\ IsPoint(p) /\ p.sol = s
         /\ MapOf({p}, "load", "bdwt") = [l \in {p.load} |-> p.bdwt]
         /\ MapOf({p}, "bdwt", "load") = [b \in {p.bdwt} |-> p.load]
         /\ CoveredBy({p}, p)
<1>1. p \in PointsOf(g) /\ p.sol = s /\ IsPoint(p)
  BY SolIs, SolPoint
<1>2. <<p>> \in Seq(PointsOf(g)) /\ <<p>> # <<>> /\ Len(<<p>>) = 1 /\ <<p>>[1] = p
  BY <1>1
<1>3. InSeq(<<p>>) = {p}
  BY <1>2 DEF InSeq
<1>4. Sorted(<<p>>)
  BY <1>2 DEF Sorted
<1>5. CoveredBy({p}, p)
  BY <1>1 DEF CoveredBy, NoWorse, IsPoint
<1>6. (CHOOSE q \in {p} : q["load"] = p["load"]) = p /\ (CHOOSE q \in {p} : q["bdwt"] = p["bdwt"]) = p
  OBVIOUS
<1>7. MapOf({p}, "load", "bdwt") = [l \in {p.load} |-> p.bdwt]
  <2>1. {q["load"] : q \in {p}} = {p.load}
    OBVIOUS
  <2>2. \A l \in {p.load} : (CHOOSE q \in {p} : q["load"] = l)["bdwt"] = p.bdwt
    BY <1>6
  <2> QED BY <2>1, <2>2 DEF MapOf
<1>8. MapOf({p}, "bdwt", "load") = [b \in {p.bdwt} |-> p.load]
  <2>1. {q["bdwt"] : q \in {p}} = {p.bdwt}
    OBVIOUS
  <2>2. \A b \in {p.bdwt} : (CHOOSE q \in {p} : q["bdwt"] = b)["load"] = p.load
    BY <1>6
  <2> QED BY <2>1, <2>2 DEF MapOf
<1> QED BY <1>1, <1>2, <1>3, <1>4, <1>5, <1>7, <1>8

\* The invariant holds when a search starts, ...
LEMMA InitInv == ASSUME Init PROVE IInv
<1>1. PICK sol \in StartsOf[group] :
        LET p == Point(group, sol)
        IN  /\ curve = <<p>>
            /\ expanded = {} /\ visited = {sol} /\ pool = {sol}
            /\ load2bdwt = [l \in {p.load} |-> p.bdwt]
            /\ bdwt2load = [b \in {p.bdwt} |-> p.load]
            /\ origin = sol /\ todo = {} /\ fresh = {}
  BY DEF Init
<1> DEFINE p == Point(group, sol)
<1>2. /\ group \in Groups /\ program \in ProgramsOf[group] /\ pc = "search"
      /\ attempts = 0 /\ answer = {}
  BY DEF Init
<1>3. sol \in Solutions(group) /\ MaxAttempts \in Nat \ {0}
  BY <1>2, SearchAssumption
<1>4. /\ curve = <<p>>
      /\ expanded = {} /\ visited = {sol} /\ pool = {sol}
      /\ load2bdwt = [l \in {p.load} |-> p.bdwt]
      /\ bdwt2load = [b \in {p.bdwt} |-> p.load]
      /\ origin = sol /\ todo = {} /\ fresh = {}
  BY <1>1
<1>5. /\ <<p>> \in Seq(PointsOf(group)) /\ <<p>> # <<>> /\ Sorted(<<p>>)
      /\ InSeq(<<p>>) = {p} /\ IsPoint(p) /\ p.sol = sol
      /\ MapOf({p}, "load", "bdwt") = [l \in {p.load} |-> p.bdwt]
      /\ MapOf({p}, "bdwt", "load") = [b \in {p.bdwt} |-> p.load]
      /\ CoveredBy({p}, p)
  BY <1>2, <1>3, OneOnCurve
<1>6. OnCurve = {p}
  BY <1>4, <1>5 DEF OnCurve
<1>7. IVisited
  BY <1>4, <1>5, <1>6 DEF IVisited
<1> HIDE DEF p
<1>8. ITypes
  BY <1>2, <1>3, <1>4, <1>5 DEF ITypes, IsPoint
<1>9. ICurve /\ IMaps
  BY <1>4, <1>5, <1>6 DEF ICurve, IMaps
<1>10. IExpanded /\ ILocal /\ ISearched
  BY <1>2, <1>4 DEF IExpanded, ILocal, ISearched
<1>11. IPool
  BY <1>4, <1>5, <1>6 DEF IPool
<1> QED BY <1>7, <1>8, <1>9, <1>10, <1>11 DEF IInv

\* ... when the next one does, ...
LEMMA RestartInv == ASSUME IInv, Restart PROVE IInv'
<1>1. PICK sol \in StartsOf[group] : StartAt(sol)
  BY DEF Restart
<1> DEFINE p == Point(group, sol)
<1>2. /\ group \in Groups /\ program \in ProgramsOf[group] /\ pc' = "search"
      /\ UNCHANGED <<group, program, attempts, answer>>
      /\ attempts < MaxAttempts /\ attempts \in Nat
      /\ answer = {} \/ \E a \in PointsOf(group) : answer = {a}
  BY <1>1 DEF IInv, ITypes, Restart, StartAt
<1>3. sol \in Solutions(group) /\ MaxAttempts \in Nat \ {0}
  BY <1>2, SearchAssumption
<1>4. /\ curve' = <<p>>
      /\ expanded' = {} /\ visited' = {sol} /\ pool' = {sol}
      /\ load2bdwt' = [l \in {p.load} |-> p.bdwt]
      /\ bdwt2load' = [b \in {p.bdwt} |-> p.load]
      /\ origin' = sol /\ todo' = {} /\ fresh' = {}
  BY <1>1, <1>2 DEF StartAt
<1>5. /\ <<p>> \in Seq(PointsOf(group)) /\ <<p>> # <<>> /\ Sorted(<<p>>)
      /\ InSeq(<<p>>) = {p} /\ IsPoint(p) /\ p.sol = sol
      /\ MapOf({p}, "load", "bdwt") = [l \in {p.load} |-> p.bdwt]
      /\ MapOf({p}, "bdwt", "load") = [b \in {p.bdwt} |-> p.load]
      /\ CoveredBy({p}, p)
  BY <1>2, <1>3, OneOnCurve
<1>6. OnCurve' = {p}
  BY <1>4, <1>5 DEF OnCurve
<1>7. IVisited'
  BY <1>2, <1>4, <1>5, <1>6 DEF IVisited
<1> HIDE DEF p
<1>8. ITypes'
  BY <1>2, <1>3, <1>4, <1>5 DEF ITypes, IsPoint
<1>9. ICurve' /\ IMaps'
  BY <1>4, <1>5, <1>6 DEF ICurve, IMaps
<1>10. IExpanded' /\ ILocal' /\ ISearched'
  BY <1>2, <1>4 DEF IExpanded, ILocal, ISearched
<1>11. IPool'
  BY <1>4, <1>5, <1>6 DEF IPool
<1> QED BY <1>7, <1>8, <1>9, <1>10, <1>11 DEF IInv

\* Where the curve is open.
LEMMA OpenIs ==
  ASSUME IInv
  PROVE  /\ Open \subseteq 1 .. Len(curve)
         /\ Open = {} => \A q \in OnCurve : q.sol \in expanded
         /\ \A i \in Open : curve[i] \in OnCurve /\ curve[i].sol \notin expanded
<1>1. DOMAIN curve = 1 .. Len(curve)
  BY DEF IInv, ITypes
<1> QED BY <1>1 DEF Open, OnCurve, InSeq

\* What is expanded is on the curve.
LEMMA ToExpandIs ==
  ASSUME IInv, pc = "search", NEW sol \in ToExpand
  PROVE  sol \notin expanded /\ \E q \in OnCurve : sol = q.sol
<1>1. CASE Open # {}
  <2>1. Open \subseteq Nat
    BY OpenIs
  <2>2. Min(Open) \in Open
    BY <1>1, <2>1, MinIs
  <2> QED BY <1>1, <2>2, OpenIs DEF ToExpand
<1>2. CASE Open = {}
  <2>1. program = "NewgenMLP" /\ sol \in pool
    BY <1>2 DEF ToExpand
  <2>2. sol \in {q.sol : q \in OnCurve} \ expanded
    BY <2>1 DEF IInv, IPool
  <2> QED BY <2>2
<1> QED BY <1>1, <1>2

\* ... when a point is taken from the curve or the pool to be expanded, ...
LEMMA ExpandInv == ASSUME IInv, Expand PROVE IInv'
<1>1. PICK sol \in ToExpand :
        /\ origin' = sol
        /\ expanded' = expanded \cup {sol}
        /\ pool' = pool \ {sol}
        /\ todo' = Recolorings(sol)
  BY DEF Expand
<1>2. /\ pc = "search" /\ pc' = "expand" /\ fresh' = {}
      /\ UNCHANGED <<group, program, curve, visited, load2bdwt, bdwt2load, attempts, answer>>
  BY DEF Expand
<1>3. PICK q \in OnCurve : sol = q.sol
  BY <1>2, ToExpandIs
<1>4. sol \notin expanded
  BY <1>2, ToExpandIs
<1>5. /\ ITypes /\ ICurve /\ IMaps /\ IVisited /\ IExpanded /\ IPool /\ ILocal
      /\ group \in Groups /\ curve \in Seq(PointsOf(group)) /\ todo = {}
  BY <1>2 DEF IInv, ITypes
<1>6. q.sol \in Solutions(group) /\ q = Point(group, q.sol) /\ IsPoint(q)
  BY <1>5, CurvePoints DEF OnCurve
<1>7. \A s : Recolorings(s)' = Recolorings(s)
  BY <1>2 DEF Recolorings
<1>8. OnCurve' = OnCurve
  BY <1>2 DEF OnCurve
<1>9. ITypes'
  BY <1>1, <1>2, <1>3, <1>5, <1>6, <1>7 DEF ITypes
<1>10. ICurve' /\ IMaps' /\ IVisited' /\ ISearched'
  BY <1>2, <1>5, <1>8 DEF ICurve, IMaps, IVisited, ISearched
<1>11. IExpanded'
  <2>1. NoWorse(q, q)
    BY <1>6 DEF NoWorse, IsPoint
  <2>2. CoveredBy(OnCurve, Point(group, sol))
    BY <1>3, <1>6, <2>1 DEF CoveredBy
  <2> QED BY <1>1, <1>2, <1>5, <1>8, <2>2 DEF IExpanded
<1>12. IPool'
  BY <1>1, <1>2, <1>5, <1>8 DEF IPool
<1>13. ILocal'
  <2>1. ASSUME NEW r \in OnCurve, r.sol \in expanded \cup {sol}, NEW x \in Recolorings(r.sol)
        PROVE  \/ r.sol = sol /\ x \in todo'
               \/ CoveredBy(OnCurve, Point(group, Recolored(r.sol, x[1], x[2])))
    <3>1. CASE r.sol = sol
      BY <1>1, <2>1, <3>1
    <3>2. CASE r.sol # sol
      BY <1>5, <2>1, <3>2 DEF ILocal
    <3> QED BY <3>1, <3>2
  <2> QED BY <1>1, <1>2, <1>7, <1>8, <2>1 DEF ILocal
<1> QED BY <1>9, <1>10, <1>11, <1>12, <1>13 DEF IInv

\* ... when all of its recolorings were compared, ...
LEMMA EndExpandInv == ASSUME IInv, EndExpand PROVE IInv'
<1>1. /\ pc = "expand" /\ todo = {} /\ pc' = "search" /\ fresh' = {}
      /\ pool' = IF program = "NewgenMLP" THEN pool \cup fresh ELSE pool
      /\ UNCHANGED <<group, program, curve, expanded, visited, load2bdwt, bdwt2load,
                     origin, todo, attempts, answer>>
  BY DEF EndExpand
<1>2. \A s : Recolorings(s)' = Recolorings(s)
  BY <1>1 DEF Recolorings
<1>3. OnCurve' = OnCurve
  BY <1>1 DEF OnCurve
<1>4. ITypes'
  BY <1>1, <1>2 DEF IInv, ITypes
<1>5. ICurve' /\ IMaps' /\ IVisited' /\ IExpanded' /\ ISearched'
  BY <1>1, <1>3 DEF IInv, ICurve, IMaps, IVisited, IExpanded, ISearched
<1>6. IPool'
  BY <1>1, <1>3 DEF IInv, IPool
<1>7. ILocal'
  BY <1>1, <1>2, <1>3 DEF IInv, ILocal
<1> QED BY <1>4, <1>5, <1>6, <1>7 DEF IInv

\* ... when none is left to be expanded, ...
LEMMA EndSearchInv == ASSUME IInv, EndSearch PROVE IInv'
<1>1. /\ pc = "search"
      /\ \/ program = "genMLP" /\ Open = {} /\ pc' = "select"
         \/ program = "NewgenMLP" /\ pool = {} /\ pc' = "done"
      /\ UNCHANGED <<group, program, curve, expanded, visited, load2bdwt, bdwt2load,
                     pool, origin, todo, fresh, attempts, answer>>
  BY DEF EndSearch
<1>2. \A s : Recolorings(s)' = Recolorings(s)
  BY <1>1 DEF Recolorings
<1>3. OnCurve' = OnCurve
  BY <1>1 DEF OnCurve
<1>4. ITypes'
  BY <1>1, <1>2 DEF IInv, ITypes
<1>5. ICurve' /\ IMaps' /\ IVisited' /\ IExpanded'
  BY <1>1, <1>3 DEF IInv, ICurve, IMaps, IVisited, IExpanded
<1>6. IPool'
  BY <1>1, <1>3 DEF IInv, IPool
<1>7. ILocal'
  BY <1>1, <1>2, <1>3 DEF IInv, ILocal
<1>8. ISearched'
  <2>1. CASE program = "genMLP" /\ Open = {}
    BY <1>1, <1>3, <2>1, OpenIs DEF ISearched
  <2>2. CASE program = "NewgenMLP" /\ pool = {}
    <3>1. {q.sol : q \in OnCurve} \ expanded = {}
      BY <1>1, <2>2 DEF IInv, IPool
    <3> QED BY <1>1, <1>3, <3>1 DEF ISearched
  <2> QED BY <1>1, <2>1, <2>2
<1> QED BY <1>4, <1>5, <1>6, <1>7, <1>8 DEF IInv

\* ... and when genSol looks for a good point.
LEMMA SelectInv == ASSUME IInv, Select PROVE IInv'
<1> DEFINE good == {i \in DOMAIN curve : IsGood(curve[i])}
<1>1. /\ pc = "select" /\ answer' = Chosen(good) /\ attempts' = attempts + 1
      /\ pc' \in {"done", "restart"}
      /\ UNCHANGED <<group, program, curve, expanded, visited, load2bdwt, bdwt2load,
                     pool, origin, todo, fresh>>
  BY DEF Select
<1>2. \A s : Recolorings(s)' = Recolorings(s)
  BY <1>1 DEF Recolorings
<1>3. OnCurve' = OnCurve
  BY <1>1 DEF OnCurve
<1>4. answer' = {} \/ \E a \in PointsOf(group) : answer' = {a}
  <2>1. answer = {} \/ \E a \in PointsOf(group) : answer = {a}
    BY DEF IInv, ITypes
  <2>2. good # {} => curve[Min(good)] \in PointsOf(group)
    <3>1. curve \in Seq(PointsOf(group)) /\ good \subseteq 1 .. Len(curve)
      BY DEF IInv, ITypes
    <3> SUFFICES ASSUME good # {} PROVE curve[Min(good)] \in PointsOf(group)
      OBVIOUS
    <3> HIDE DEF good
    <3>2. good \subseteq Nat
      BY <3>1
    <3>3. Min(good) \in good
      BY <3>2, MinIs
    <3>4. Min(good) \in 1 .. Len(curve)
      BY <3>1, <3>3
    <3> QED BY <3>1, <3>4
  <2> HIDE DEF good
  <2>3. answer' = answer \/ (good # {} /\ answer' = {curve[Min(good)]})
    BY <1>1 DEF Chosen
  <2> QED BY <2>1, <2>2, <2>3
<1>5. ITypes'
  <2>1. MaxAttempts \in Nat
    BY SearchAssumption
  <2> HIDE DEF good
  <2> QED BY <1>1, <1>2, <1>4, <2>1 DEF IInv, ITypes
<1> HIDE DEF good
<1>6. ICurve' /\ IMaps' /\ IVisited' /\ IExpanded' /\ ISearched'
  BY <1>1, <1>3 DEF IInv, ICurve, IMaps, IVisited, IExpanded, ISearched
<1>7. IPool'
  BY <1>1, <1>3 DEF IInv, IPool
<1>8. ILocal'
  BY <1>1, <1>2, <1>3 DEF IInv, ILocal
<1> QED BY <1>5, <1>6, <1>7, <1>8 DEF IInv

LEMMA NextInv ==
  ASSUME IInv, [Next]_vars
  PROVE  IInv'
<1>1. CASE Expand
  BY <1>1, ExpandInv
<1>2. CASE ExpandNext
  BY <1>2, ExpandNextIs, CompareKeeps
<1>3. CASE PruneNext
  BY <1>3, PruneNextIs, CompareKeeps
<1>4. CASE EndExpand
  BY <1>4, EndExpandInv
<1>5. CASE EndSearch
  BY <1>5, EndSearchInv
<1>6. CASE Select
  BY <1>6, SelectInv
<1>7. CASE Restart
  BY <1>7, RestartInv
<1>8. CASE UNCHANGED vars
  BY <1>8 DEF IInv, ITypes, ICurve, IMaps, IVisited, IExpanded, IPool, ILocal, ISearched,
              OnCurve, Recolorings, vars
<1> QED BY <1>1, <1>2, <1>3, <1>4, <1>5, <1>6, <1>7, <1>8 DEF Next

----------------------------------------------------------------------------
(* What follows from the invariant *)

LEMMA AnswerFinite == ASSUME ITypes PROVE Cardinality(answer) <= 1
<1>1. CASE answer = {}
  <2>1. Cardinality(answer) = 0
    BY <1>1, FS_EmptySet
  <2> QED BY <2>1
<1>2. CASE \E a \in PointsOf(group) : answer = {a}
  <2>1. PICK a \in PointsOf(group) : answer = {a}
    BY <1>2
  <2>2. Cardinality({a}) = 1
    BY FS_Singleton
  <2> QED BY <2>1, <2>2
<1> QED BY <1>1, <1>2 DEF ITypes

\* The named properties follow from the invariant.
LEMMA InvImplies == ASSUME IInv PROVE CurveIsRight /\ NothingIsMissed
<1>1. /\ ITypes /\ ICurve /\ IMaps /\ IVisited /\ IPool /\ ILocal /\ ISearched
      /\ group \in Groups /\ curve \in Seq(PointsOf(group))
  BY DEF IInv, ITypes
<1>2. /\ ToSet(curve) = OnCurve
      /\ \A q \in OnCurve : /\ q \in PointsOf(group) /\ IsPoint(q)
                            /\ q.sol \in Solutions(group) /\ q = Point(group, q.sol)
  BY <1>1, CurvePoints DEF OnCurve
<1>3. TypeOK
  <2>1. \A p \in ToSet(curve) : p = Point(group, p.sol)
    BY <1>2
  <2>2. \A S \in {expanded, visited, pool, fresh, {origin}} : \A s \in S : s \in Solutions(group)
    BY <1>1 DEF ITypes
  <2>3. \A x \in todo : x[1] \in DOMAIN origin /\ x[2] \in Colors(group)
    BY <1>1 DEF ITypes, Recolorings
  <2>4. \A map \in {load2bdwt, bdwt2load} : \A k \in DOMAIN map : map[k] \in Nat
    BY <1>1 DEF ITypes
  <2>5. attempts \in 0 .. MaxAttempts
    BY <1>1, SearchAssumption DEF ITypes
  <2>6. /\ group \in Groups /\ program \in ProgramsOf[group]
        /\ pc \in {"search", "expand", "select", "restart", "done"}
    BY <1>1 DEF ITypes
  <2> QED BY <1>1, <2>1, <2>2, <2>3, <2>4, <2>5, <2>6, AnswerFinite DEF TypeOK
<1>4. CurveIsSorted
  BY <1>1 DEF ICurve, Sorted, CurveIsSorted
<1>5. MapsAreTheCurve
  BY <1>1, <1>2 DEF IMaps, MapsAreTheCurve, MapOf
<1>6. PoolIsOnCurve
  <2> SUFFICES ASSUME program = "NewgenMLP", pc = "search"
               PROVE  pool = {curve[i].sol : i \in Open}
    BY DEF PoolIsOnCurve
  <2>1. pool = {q.sol : q \in OnCurve} \ expanded
    BY <1>1 DEF IPool
  <2>2. DOMAIN curve = 1 .. Len(curve)
    BY <1>1
  <2> QED BY <2>1, <2>2 DEF Open, OnCurve, InSeq
<1>7. NothingBetterLost
  BY <1>1, <1>2 DEF IVisited, NothingBetterLost, CoveredBy
<1>8. LocallyOptimal
  <2> SUFFICES ASSUME Searched, NEW p \in OnCurve, NEW s \in Neighbors(group, p.sol)
               PROVE  CoveredBy(OnCurve, Point(group, s))
    BY <1>2 DEF LocallyOptimal, CoveredBy
  <2>1. p.sol \in expanded /\ todo = {}
    BY <1>1 DEF ISearched, Searched, ITypes
  <2>2. PICK i \in DOMAIN p.sol, c \in Colors(group) : s = Recolored(p.sol, i, c) /\ s # p.sol
    BY DEF Neighbors
  <2>3. c # p.sol[i]
    <3>1. p.sol \in Solutions(group)
      BY <1>2
    <3> QED BY <2>2, <3>1 DEF Recolored, Solutions
  <2>4. <<i, c>> \in Recolorings(p.sol)
    BY <2>2, <2>3 DEF Recolorings
  <2>5. CoveredBy(OnCurve, Point(group, Recolored(p.sol, <<i, c>>[1], <<i, c>>[2])))
    BY <1>1, <2>1, <2>4 DEF ILocal
  <2> QED BY <2>2, <2>5
<1> QED BY <1>3, <1>4, <1>5, <1>6, <1>7, <1>8 DEF CurveIsRight, NothingIsMissed

\* A step that does not compare a recoloring leaves the curve alone.
LEMMA StepImproves ==
  ASSUME IInv, [Next]_vars, Searching
  PROVE  Improves(InSeq(curve), InSeq(curve'))
<1>1. CASE ExpandNext \/ PruneNext
  BY <1>1, ExpandNextIs, PruneNextIs, CompareKeeps
<1>2. CASE ~ (ExpandNext \/ PruneNext)
  <2>1. curve' = curve
    BY <1>2 DEF Next, Expand, EndExpand, EndSearch, Select, Restart, Searching, vars
  <2> QED BY <2>1 DEF Improves
<1> QED BY <1>1, <1>2

\* What CurveOnlyImproves says of a step.
CurveStep ==
  [Searching => \A p \in ToSet(curve) :
                  p \in ToSet(curve') \/ \E q \in ToSet(curve') : Dominates(q, p)]_vars

LEMMA StepKeepsCurve == ASSUME IInv, IInv', [Next]_vars PROVE CurveStep
<1> SUFFICES ASSUME Searching
             PROVE  \A p \in ToSet(curve) :
                      p \in ToSet(curve') \/ \E q \in ToSet(curve') : Dominates(q, p)
  BY DEF CurveStep
<1>1. ToSet(curve) = InSeq(curve)
  BY CurvePoints DEF IInv, ITypes
<1>2. ToSet(curve') = InSeq(curve')
  BY CurvePoints DEF IInv, ITypes
<1> QED BY <1>1, <1>2, StepImproves DEF Improves

\* Before and after each recoloring the curve of genMLP and NewgenMLP is sorted, up in load
\* and down in bandwidth, the two maps that updateTradeoffCurve keeps for genMLP's quick test
\* have what the curve has, and NewgenMLP's pool the solutions on it that it has not searched.
THEOREM CurveIsRightTheorem == Spec => []CurveIsRight
<1>1. IInv => CurveIsRight
  BY InvImplies
<1> QED BY <1>1, InitInv, NextInv, PTL DEF Spec

\* No solution that genMLP has evaluated is better than its curve, and when the loop of
\* genMLP or NewgenMLP over the curve is through, no recoloring of one vertex of a solution
\* on the curve is, although points left the curve after their recolorings were compared.
THEOREM NothingIsMissedTheorem == Spec => []NothingIsMissed
<1>1. IInv => NothingIsMissed
  BY InvImplies
<1> QED BY <1>1, InitInv, NextInv, PTL DEF Spec

\* updateTradeoffCurve and genPareto take a point off the curve only for one with no more
\* load and bandwidth, and less of one of them.
THEOREM CurveImprovesTheorem == Spec => CurveOnlyImproves
<1>1. IInv /\ IInv' /\ [Next]_vars => CurveStep
  BY StepKeepsCurve
<1> QED BY <1>1, InitInv, NextInv, PTL DEF Spec, CurveOnlyImproves, CurveStep

----------------------------------------------------------------------------
(* The answer *)

\* The first good point of a curve has the least load of all that are good.
LEMMA ChosenIs ==
  ASSUME NEW good, good \subseteq 1 .. Len(curve), IInv, AnswerIsLightest,
         good = {i \in 1 .. Len(curve) : IsGood(curve[i])}
  PROVE  /\ \A a \in Chosen(good) : IsGood(a)
         /\ \A i \in good : \E a \in Chosen(good) : a.load <= curve[i].load
<1>1. CASE good = {}
  BY <1>1 DEF Chosen, AnswerIsLightest
<1>2. CASE good # {}
  <2> DEFINE first == curve[Min(good)]
  <2>1. Min(good) \in good /\ \A i \in good : Min(good) <= i
    <3>1. good \subseteq Nat
      OBVIOUS
    <3> QED BY <1>2, <3>1, MinIs
  <2>2. IsGood(first) /\ IsPoint(first)
    <3>1. Min(good) \in 1 .. Len(curve) /\ IsGood(curve[Min(good)])
      BY <2>1
    <3> QED BY <3>1, CurvePoints DEF IInv, ITypes
  <2>3. ASSUME NEW i \in good PROVE first.load <= curve[i].load /\ IsPoint(curve[i])
    <3>1. i \in 1 .. Len(curve) /\ Min(good) \in 1 .. Len(curve) /\ Min(good) <= i
      BY <2>1
    <3>2. IsPoint(curve[i])
      BY <3>1, CurvePoints DEF IInv, ITypes
    <3>3. CASE Min(good) = i
      BY <2>2, <3>2, <3>3 DEF IsPoint
    <3>4. CASE Min(good) < i
      BY <2>2, <3>1, <3>2, <3>4 DEF IInv, ICurve, Sorted, IsPoint
    <3> HIDE DEF first
    <3> QED BY <3>1, <3>2, <3>3, <3>4
  <2> HIDE DEF first
  <2>4. CASE \E a \in answer : a.load <= first.load
    <3>1. Chosen(good) = answer
      BY <1>2, <2>4 DEF Chosen, first
    <3>2. PICK a \in answer : a.load <= first.load
      BY <2>4
    <3>3. a.load \in Nat
      BY PointsAre DEF IInv, ITypes
    <3>4. \A i \in good : a.load <= curve[i].load
      BY <2>2, <2>3, <3>2, <3>3 DEF IsPoint
    <3> QED BY <3>1, <3>4 DEF AnswerIsLightest
  <2>5. CASE ~ \E a \in answer : a.load <= first.load
    <3>1. Chosen(good) = {first}
      BY <1>2, <2>5 DEF Chosen, first
    <3> QED BY <2>2, <2>3, <3>1
  <2> QED BY <2>4, <2>5
<1> QED BY <1>1, <1>2

\* The answer is the lightest good point so far: there is none at first, ...
LEMMA LightestInit == ASSUME Init PROVE AnswerIsLightest
BY DEF Init, AnswerIsLightest

\* ... genSol keeps the lighter one, ...
LEMMA LightestSelect ==
  ASSUME IInv, AnswerIsLightest, Select PROVE AnswerIsLightest'
<1> DEFINE good == {i \in DOMAIN curve : IsGood(curve[i])}
<1>1. /\ answer' = Chosen(good)
      /\ UNCHANGED <<group, program, curve>>
  BY DEF Select
<1>2. DOMAIN curve = 1 .. Len(curve) /\ group \in Groups
  BY DEF IInv, ITypes
<1>3. good \subseteq 1 .. Len(curve) /\ good = {i \in 1 .. Len(curve) : IsGood(curve[i])}
  BY <1>2
<1>4. /\ \A a \in Chosen(good) : IsGood(a)
      /\ \A i \in good : \E a \in Chosen(good) : a.load <= curve[i].load
  <2> HIDE DEF good
  <2> QED BY <1>3, ChosenIs
<1>5. \A p : IsGood(p)' = IsGood(p)
  BY <1>1 DEF IsGood
<1>6. ASSUME NEW p \in ToSet(curve), IsGood(p) PROVE \E a \in Chosen(good) : a.load <= p.load
  <2>1. ToSet(curve) = InSeq(curve)
    BY <1>2, CurvePoints DEF IInv, ITypes
  <2>2. PICK i \in 1 .. Len(curve) : p = curve[i]
    BY <2>1 DEF InSeq
  <2> QED BY <1>2, <1>4, <1>6, <2>2
<1> HIDE DEF good
<1> QED BY <1>1, <1>4, <1>5, <1>6 DEF AnswerIsLightest

\* ... and no other step changes it.
LEMMA LightestNext ==
  ASSUME IInv, AnswerIsLightest, [Next]_vars PROVE AnswerIsLightest'
<1>1. CASE Select
  BY <1>1, LightestSelect
<1>2. CASE ~ Select
  <2>1. UNCHANGED <<group, answer>>
    BY <1>2 DEF Next, Expand, ExpandNext, PruneNext, EndExpand, EndSearch, Restart, vars
  <2>2. \A p : IsGood(p)' = IsGood(p)
    BY <2>1 DEF IsGood
  <2>3. \/ UNCHANGED <<curve, program, pc>>
        \/ ~ (program' = "genMLP" /\ pc' \in {"restart", "done"})
    BY <1>2 DEF Next, Expand, ExpandNext, PruneNext, EndExpand, EndSearch, Restart, StartAt, vars
  <2> QED BY <2>1, <2>2, <2>3 DEF AnswerIsLightest
<1> QED BY <1>1, <1>2

----------------------------------------------------------------------------
(* Recursive functions *)

\* What Power, Stoi and SumUpTo have in common.
IsLinear(f, a, r, t, n) ==
  f = [i \in 0 .. n |-> IF i = 0 THEN a ELSE r * f[i - 1] + t[i]]

\* There is such a function, ...
LEMMA LinearExists ==
  ASSUME NEW a, NEW r, NEW t, NEW n \in Nat
  PROVE  \E f : IsLinear(f, a, r, t, n)
<1> DEFINE T == {m \in Nat : \E f : IsLinear(f, a, r, t, m)}
<1>1. 0 \in T
  <2>1. IsLinear([i \in 0 .. 0 |-> a], a, r, t, 0)
    BY DEF IsLinear
  <2> QED BY <2>1
<1>2. ASSUME NEW m \in T PROVE m + 1 \in T
  <2>1. PICK f : IsLinear(f, a, r, t, m)
    OBVIOUS
  <2> DEFINE next == [i \in 0 .. m + 1 |-> IF i = m + 1 THEN r * f[m] + t[m + 1] ELSE f[i]]
  <2>2. IsLinear(next, a, r, t, m + 1)
    <3>1. \A i \in 0 .. m : f[i] = IF i = 0 THEN a ELSE r * f[i - 1] + t[i]
      BY <2>1 DEF IsLinear
    <3>2. \A i \in 0 .. m + 1 : next[i] = IF i = 0 THEN a ELSE r * next[i - 1] + t[i]
      BY <3>1
    <3>3. next = [i \in 0 .. m + 1 |-> next[i]]
      OBVIOUS
    <3> HIDE DEF next
    <3> QED BY <3>2, <3>3 DEF IsLinear
  <2> QED BY <2>2
<1>3. T = Nat
  <2> HIDE DEF T
  <2>1. T \in SUBSET Nat
    BY DEF T
  <2> QED BY <1>1, <1>2, <2>1, SetInduction
<1> QED BY <1>3

\* ... and its first values do not depend on how many follow.
LEMMA LinearSame ==
  ASSUME NEW a, NEW r, NEW t, NEW n \in Nat, NEW f, IsLinear(f, a, r, t, n),
         NEW m \in Nat, NEW g, IsLinear(g, a, r, t, m), n <= m
  PROVE  \A i \in 0 .. n : f[i] = g[i]
<1> DEFINE T == {i \in Nat : i <= n => f[i] = g[i]}
<1>1. 0 \in T
  BY DEF IsLinear
<1>2. ASSUME NEW i \in T PROVE i + 1 \in T
  <2> SUFFICES ASSUME i + 1 <= n PROVE f[i + 1] = g[i + 1]
    OBVIOUS
  <2>1. f[i + 1] = r * f[i] + t[i + 1]
    BY DEF IsLinear
  <2>2. g[i + 1] = r * g[i] + t[i + 1]
    BY DEF IsLinear
  <2> QED BY <2>1, <2>2
<1>3. T = Nat
  <2> HIDE DEF T
  <2>1. T \in SUBSET Nat
    BY DEF T
  <2> QED BY <1>1, <1>2, <2>1, SetInduction
<1> QED BY <1>3

\* The powers of the radix.
LEMMA PowerIs ==
  /\ Power[0] = 1
  /\ \A e \in Nat : Power[e] \in Nat \ {0} /\ Power[e + 1] = Radix * Power[e] /\ Power[e] > e
<1> DEFINE zero == [i \in Nat |-> 0]
           up(e) == CHOOSE f : IsLinear(f, 1, Radix, zero, e)
           P == [e \in Nat |-> up(e)[e]]
<1>1. ASSUME NEW e \in Nat PROVE IsLinear(up(e), 1, Radix, zero, e)
  <2> HIDE DEF zero
  <2> QED BY LinearExists
<1>2. P[0] = 1
  <2>1. up(0)[0] = 1
    <3> HIDE DEF up
    <3> QED BY <1>1 DEF IsLinear
  <2> HIDE DEF up
  <2> QED BY <2>1
<1>3. ASSUME NEW e \in Nat PROVE P[e + 1] = Radix * P[e] + zero[e + 1]
  <2> HIDE DEF up, zero
  <2>1. up(e + 1)[e + 1] = Radix * up(e + 1)[e] + zero[e + 1]
    <3>1. IsLinear(up(e + 1), 1, Radix, zero, e + 1)
      BY <1>1
    <3> QED BY <3>1 DEF IsLinear
  <2>2. up(e)[e] = up(e + 1)[e]
    <3>1. IsLinear(up(e + 1), 1, Radix, zero, e + 1) /\ IsLinear(up(e), 1, Radix, zero, e)
      BY <1>1
    <3> QED BY <3>1, LinearSame
  <2> QED BY <2>1, <2>2
<1>4. ASSUME NEW e \in Nat
      PROVE  P[e] \in Nat \ {0} /\ P[e + 1] = Radix * P[e] /\ P[e] > e
  <2> DEFINE T == {d \in Nat : P[d] \in Nat /\ P[d] > d}
  <2> HIDE DEF P
  <2>1. ASSUME NEW d \in Nat, P[d] \in Nat PROVE P[d + 1] = Radix * P[d]
    <3>1. P[d + 1] = Radix * P[d] + 0
      BY <1>3
    <3>2. Radix * P[d] \in Nat
      BY <2>1, OfflineAssumption
    <3> QED BY <3>1, <3>2
  <2>2. 0 \in T
    BY <1>2
  <2>3. ASSUME NEW d \in T PROVE d + 1 \in T
    <3>1. P[d + 1] = Radix * P[d] /\ P[d] \in Nat /\ P[d] > d
      BY <2>1
    <3>2. Radix \in Nat /\ Radix >= 2
      BY OfflineAssumption
    <3>3. Radix * P[d] \in Nat /\ Radix * P[d] >= 2 * P[d]
      BY <3>1, <3>2
    <3> QED BY <3>1, <3>3
  <2>4. T = Nat
    <3> HIDE DEF T
    <3>1. T \in SUBSET Nat
      BY DEF T
    <3> QED BY <2>2, <2>3, <3>1, SetInduction
  <2> QED BY <2>1, <2>4
<1>5. Power = P
  <2>1. P = [e \in Nat |-> IF e = 0 THEN 1 ELSE Radix * P[e - 1]]
    <3>1. ASSUME NEW e \in Nat PROVE P[e] = IF e = 0 THEN 1 ELSE Radix * P[e - 1]
      <4> HIDE DEF P
      <4>1. CASE e = 0
        BY <1>2, <4>1
      <4>2. CASE e # 0
        <5>1. e - 1 \in Nat /\ (e - 1) + 1 = e
          BY <4>2
        <5> QED BY <1>4, <4>2, <5>1
      <4> QED BY <4>1, <4>2
    <3>2. P = [e \in Nat |-> P[e]]
      <4> HIDE DEF up
      <4> QED OBVIOUS
    <3> HIDE DEF P
    <3> QED BY <3>1, <3>2
  <2>2. ASSUME NEW f, NEW g,
               f = [e \in Nat |-> IF e = 0 THEN 1 ELSE Radix * f[e - 1]],
               g = [e \in Nat |-> IF e = 0 THEN 1 ELSE Radix * g[e - 1]]
        PROVE  f = g
    <3> DEFINE T == {e \in Nat : f[e] = g[e]}
    <3>1. 0 \in T
      BY <2>2
    <3>2. ASSUME NEW e \in T PROVE e + 1 \in T
      <4>1. f[e + 1] = Radix * f[e]
        BY <2>2
      <4>2. g[e + 1] = Radix * g[e]
        BY <2>2
      <4> QED BY <4>1, <4>2
    <3>3. T = Nat
      <4> HIDE DEF T
      <4>1. T \in SUBSET Nat
        BY DEF T
      <4> QED BY <3>1, <3>2, <4>1, SetInduction
    <3>4. f = [e \in Nat |-> f[e]] /\ g = [e \in Nat |-> g[e]]
      <4>1. DOMAIN f = Nat /\ f = [e \in DOMAIN f |-> f[e]]
        BY <2>2
      <4>2. DOMAIN g = Nat /\ g = [e \in DOMAIN g |-> g[e]]
        BY <2>2
      <4> QED BY <4>1, <4>2
    <3>5. \A e \in Nat : f[e] = g[e]
      BY <3>3
    <3> QED BY <3>4, <3>5
  <2>3. Power = [e \in Nat |-> IF e = 0 THEN 1 ELSE Radix * Power[e - 1]]
    <3> HIDE DEF P
    <3> QED BY <2>1 DEF Power
  <2> HIDE DEF P
  <2> QED BY <2>1, <2>2, <2>3
<1> HIDE DEF P
<1> QED BY <1>2, <1>4, <1>5

----------------------------------------------------------------------------
(* Solutions as texts *)

\* ndigits is enough for every number below m, and at least one.
LEMMA DigitsAre ==
  ASSUME NEW m \in Nat \ {0}
  PROVE  NDigits(m) \in Nat \ {0} /\ m < Power[NDigits(m)]
<1> DEFINE D == {d \in Nat : m < Power[d]}
<1>1. m \in D
  BY PowerIs
<1>2. PICK d \in D : \A e \in D : d <= e
  <2>1. D \subseteq Nat /\ D # {}
    BY <1>1
  <2> HIDE DEF D
  <2> QED BY <2>1, LeastElement
<1>3. d # 0
  <2>1. Power[0] = 1
    BY PowerIs
  <2> QED BY <1>2, <2>1
<1>4. d \in 1 .. m /\ d - 1 \in Nat
  BY <1>1, <1>2, <1>3
<1>5. Power[d - 1] <= m
  <2>1. d - 1 \notin D
    BY <1>2, <1>4
  <2>2. Power[d - 1] \in Nat
    BY <1>4, PowerIs
  <2> QED BY <1>4, <2>1, <2>2
<1>6. m < Power[d]
  BY <1>2
<1>7. \E e \in 1 .. m : Power[e - 1] <= m /\ m < Power[e]
  BY <1>4, <1>5, <1>6
<1>8. NDigits(m) \in 1 .. m /\ m < Power[NDigits(m)]
  <2> HIDE DEF D
  <2> QED BY <1>7 DEF NDigits
<1> QED BY <1>8

LEMMA RestIs == ASSUME NEW a \in Nat, NEW b \in Nat \ {0} PROVE a = b * (a \div b) + (a % b)
OBVIOUS

\* Division, digit by digit.
LEMMA DigitIs ==
  ASSUME NEW c \in Nat, NEW e \in Nat
  PROVE  c \div Power[e] = Radix * (c \div Power[e + 1]) + ((c \div Power[e]) % Radix)
<1>1. Power[e] \in Nat \ {0} /\ Power[e + 1] = Radix * Power[e] /\ Radix \in Nat \ {0}
  BY PowerIs, OfflineAssumption
<1>2. ASSUME NEW p \in Nat \ {0}, NEW r \in Nat \ {0}
      PROVE  c \div p = r * (c \div (r * p)) + ((c \div p) % r)
  <2>1. c \div p \in Nat /\ c \div (r * p) = (c \div p) \div r
    OBVIOUS
  <2> DEFINE q == c \div p
  <2>2. q \in Nat
    BY <2>1
  <2>3. q = r * (q \div r) + (q % r)
    <3> HIDE DEF q
    <3> QED BY <2>2, RestIs
  <2>4. q = r * (c \div (r * p)) + (q % r)
    <3>1. c \div (r * p) = q \div r
      BY <2>1
    <3> HIDE DEF q
    <3> QED BY <2>3, <3>1
  <2> QED BY <2>4
<1> QED BY <1>1, <1>2

\* The digits of a number, read again.
LEMMA NumberIs ==
  ASSUME NEW c \in Nat, NEW d \in Nat, c < Power[d], NEW text, NEW start \in Nat,
         \A k \in 1 .. d : text[start + k] = (c \div Power[d - k]) % Radix
  PROVE  Stoi(text, start, d) = c
<1> DEFINE t == [k \in 1 .. d |-> text[start + k]]
           IsNum(num) == num = [i \in 0 .. d |-> IF i = 0 THEN 0
                                                 ELSE Radix * num[i - 1] + text[start + i]]
<1>1. PICK f : IsLinear(f, 0, Radix, t, d)
  <2> HIDE DEF t
  <2> QED BY LinearExists
<1>2. IsNum(f)
  <2>1. \A i \in 0 .. d : f[i] = IF i = 0 THEN 0 ELSE Radix * f[i - 1] + t[i]
    BY <1>1 DEF IsLinear
  <2>2. \A i \in 0 .. d : i # 0 => t[i] = text[start + i]
    OBVIOUS
  <2>3. f = [i \in 0 .. d |-> f[i]]
    BY <1>1 DEF IsLinear
  <2> HIDE DEF t
  <2> QED BY <2>1, <2>2, <2>3
<1>3. PICK num : IsNum(num) /\ Stoi(text, start, d) = num[d]
  <2>1. Stoi(text, start, d) = (CHOOSE num : IsNum(num))[d]
    BY DEF Stoi
  <2> HIDE DEF IsNum
  <2> QED BY <1>2, <2>1
<1>4. /\ num[0] = 0
      /\ \A i \in 0 .. d - 1 : num[i + 1] = Radix * num[i] + text[start + (i + 1)]
  BY <1>3
<1> HIDE DEF IsNum, t
<1> DEFINE T == {i \in Nat : i <= d => num[i] = c \div Power[d - i]}
<1>5. 0 \in T
  <2>1. ASSUME NEW p \in Nat, c < p PROVE c \div p = 0
    BY <2>1
  <2>2. c \div Power[d] = 0
    BY <2>1, PowerIs
  <2> QED BY <1>4, <2>2
<1>6. ASSUME NEW i \in T PROVE i + 1 \in T
  <2> SUFFICES ASSUME i + 1 <= d PROVE num[i + 1] = c \div Power[d - (i + 1)]
    OBVIOUS
  <2> DEFINE e == d - (i + 1)
  <2>1. e \in Nat /\ e + 1 = d - i /\ i \in 0 .. d - 1 /\ i + 1 \in 1 .. d
    OBVIOUS
  <2>2. num[i] = c \div Power[e + 1]
    BY <2>1
  <2>3. text[start + (i + 1)] = (c \div Power[e]) % Radix
    BY <2>1
  <2>4. num[i + 1] = Radix * num[i] + text[start + (i + 1)]
    BY <1>4, <2>1
  <2>5. num[i + 1] = c \div Power[e]
    <3> HIDE DEF e
    <3>1. c \div Power[e] = Radix * (c \div Power[e + 1]) + ((c \div Power[e]) % Radix)
      BY <2>1, DigitIs
    <3> DEFINE high == c \div Power[e + 1]
               digit == (c \div Power[e]) % Radix
    <3>2. /\ num[i] = high /\ text[start + (i + 1)] = digit
          /\ c \div Power[e] = Radix * high + digit
      BY <2>2, <2>3, <3>1
    <3> HIDE DEF high, digit
    <3> QED BY <2>4, <3>2
  <2> QED BY <2>5
<1>7. T = Nat
  <2> HIDE DEF T
  <2>1. T \in SUBSET Nat
    BY DEF T
  <2> QED BY <1>5, <1>6, <2>1, SetInduction
<1>8. num[d] = c \div Power[0]
  <2>1. num[d] = c \div Power[d - d]
    BY <1>7
  <2> QED BY <2>1
<1> QED BY <1>3, <1>8, PowerIs

\* Digit k of number i is found, and read, at the same place.
LEMMA PlaceOfDigit ==
  ASSUME NEW d \in Nat \ {0}, NEW i \in Nat \ {0}, NEW k \in 1 .. d
  PROVE  /\ (((i - 1) * d + k) - 1) \div d + 1 = i
         /\ ((((i - 1) * d + k) - 1) % d) + 1 = k
<1>1. ASSUME NEW q \in Nat, NEW r \in 0 .. d - 1
      PROVE  (q * d + r) \div d = q /\ (q * d + r) % d = r
  OBVIOUS
<1>2. i - 1 \in Nat /\ k - 1 \in 0 .. d - 1
  OBVIOUS
<1>3. ((i - 1) * d + (k - 1)) \div d = i - 1 /\ ((i - 1) * d + (k - 1)) % d = k - 1
  BY <1>1, <1>2
<1>4. ((i - 1) * d + k) - 1 = (i - 1) * d + (k - 1) /\ (i - 1) * d \in Nat
  BY <1>2
<1> QED BY <1>3, <1>4

LEMMA PlaceInText ==
  ASSUME NEW d \in Nat \ {0}, NEW n \in Nat, NEW i \in 1 .. n, NEW k \in 1 .. d
  PROVE  (i - 1) * d + k \in 1 .. n * d
<1>1. (i - 1) * d \in Nat
  OBVIOUS
<1>2. (i - 1) * d + d = i * d
  OBVIOUS
<1>3. i * d <= n * d
  OBVIOUS
<1>4. i * d \in Nat /\ n * d \in Nat
  OBVIOUS
<1> QED BY <1>1, <1>2, <1>3, <1>4

\* A solution survives the text.
LEMMA TextIsRead ==
  ASSUME NEW m \in Nat \ {0}, NEW n \in Nat, NEW sol \in [1 .. n -> 0 .. m - 1]
  PROVE  ColoringOf(GetString(sol, m), NDigits(m)) = sol
<1> DEFINE d == NDigits(m)
           text == GetString(sol, m)
<1>1. d \in Nat \ {0} /\ m < Power[d]
  BY DigitsAre
<1>2. Len(sol) = n
  OBVIOUS
<1>3. n * d \in Nat
  BY <1>1
<1>4. text = [i \in 1 .. n * d |-> Num2Str(sol[(i - 1) \div d + 1], d)[((i - 1) % d) + 1]]
  <2> HIDE DEF d
  <2> QED BY <1>2 DEF GetString, d
<1>5. Len(text) = n * d
  <2> HIDE DEF d, text
  <2> QED BY <1>3, <1>4
<1>6. (n * d) \div d = n
  <2>1. ASSUME NEW q \in Nat, NEW b \in Nat \ {0} PROVE (q * b) \div b = q
    OBVIOUS
  <2> HIDE DEF d
  <2> QED BY <1>1, <2>1
<1>7. ASSUME NEW i \in 1 .. n PROVE Stoi(text, (i - 1) * d, d) = sol[i]
  <2> HIDE DEF d, text
  <2>1. sol[i] \in Nat /\ sol[i] < Power[d]
    <3>1. sol[i] \in Nat /\ sol[i] < m
      OBVIOUS
    <3>2. Power[d] \in Nat
      BY <1>1, PowerIs
    <3> QED BY <1>1, <3>1, <3>2
  <2>2. (i - 1) * d \in Nat
    BY <1>1
  <2>3. ASSUME NEW k \in 1 .. d
        PROVE  text[(i - 1) * d + k] = (sol[i] \div Power[d - k]) % Radix
    <3> DEFINE j == (i - 1) * d + k
    <3>1. j \in 1 .. n * d
      BY <1>1, PlaceInText
    <3>2. /\ (((i - 1) * d + k) - 1) \div d + 1 = i
          /\ ((((i - 1) * d + k) - 1) % d) + 1 = k
      <4>1. i \in Nat \ {0}
        OBVIOUS
      <4> QED BY <1>1, <4>1, PlaceOfDigit
    <3>3. text[j] = Num2Str(sol[i], d)[k]
      <4>2. (j - 1) \div d + 1 = i /\ ((j - 1) % d) + 1 = k
        BY <3>2
      <4> HIDE DEF j
      <4>1. text[j] = Num2Str(sol[(j - 1) \div d + 1], d)[((j - 1) % d) + 1]
        BY <1>4, <3>1
      <4> QED BY <4>1, <4>2, Zenon
    <3> QED BY <3>3 DEF Num2Str
  <2> DEFINE c == sol[i]
             start == (i - 1) * d
  <2>4. \A k \in 1 .. d : text[start + k] = (c \div Power[d - k]) % Radix
    BY <2>3
  <2>5. c \in Nat /\ c < Power[d] /\ start \in Nat /\ d \in Nat
    BY <1>1, <2>1, <2>2
  <2> HIDE DEF c, start
  <2>6. Stoi(text, start, d) = c
    BY <2>4, <2>5, NumberIs
  <2> QED BY <2>6 DEF c, start
<1>8. ColoringOf(text, d) = [i \in 1 .. n |-> Stoi(text, (i - 1) * d, d)]
  <2> HIDE DEF d, text
  <2> QED BY <1>5, <1>6 DEF ColoringOf
<1>9. ColoringOf(text, d) = [i \in 1 .. n |-> sol[i]]
  <2> HIDE DEF d, text
  <2> QED BY <1>7, <1>8
<1> QED BY <1>9

----------------------------------------------------------------------------
(* Colorings that differ in the names of the nodes *)

Flow(col, v, p) == col[v] # -1 /\ col[p] # -1 /\ col[p] # col[v]

\* The same flows, from the same sender or to the same receiver in both.
Renamed(g, one, two) ==
  /\ \A v \in NodesOf(g) : \A p \in Parents[g][v] : Flow(one, v, p) <=> Flow(two, v, p)
  /\ \A v, w \in NodesOf(g) : \A p \in Parents[g][v] : \A q \in Parents[g][w] :
       Flow(one, v, p) /\ Flow(one, w, q) =>
         /\ one[v] = one[w] <=> two[v] = two[w]
         /\ one[p] = one[q] <=> two[p] = two[q]

\* Renaming goes both ways.
LEMMA RenamedBack ==
  ASSUME NEW g \in Groups, NEW one, NEW two, Renamed(g, one, two)
  PROVE  Renamed(g, two, one)
BY DEF Renamed

Twins(g, one, two, f, t) ==
  \E v \in NodesOf(g) : \E p \in Parents[g][v] :
    /\ Flow(one, v, p)
    /\ f = <<v, one[v], one[p]>> /\ t = <<v, two[v], two[p]>>

\* A flow has a twin, the flow of the same vertex between the renamed nodes.
LEMMA TwinExists ==
  ASSUME NEW g \in Groups, NEW one, NEW two, Renamed(g, one, two),
         NEW f \in Flows(g, one)
  PROVE  \E t \in Flows(g, two) : Twins(g, one, two, f, t)
<1>1. PICK v \in NodesOf(g) : \E p \in Parents[g][v] :
             /\ one[v] # -1 /\ one[p] # -1 /\ one[p] # one[v]
             /\ f = <<v, one[v], one[p]>>
  BY FlowsAre
<1>2. PICK p \in Parents[g][v] : Flow(one, v, p) /\ f = <<v, one[v], one[p]>>
  BY <1>1 DEF Flow
<1>3. Flow(two, v, p)
  BY <1>2 DEF Renamed
<1>4. <<v, two[v], two[p]>> \in Flows(g, two)
  BY <1>3, FlowsAre DEF Flow
<1> QED BY <1>2, <1>4 DEF Twins

\* Twins of flows are the same, or have the same end, where the flows do.
LEMMA TwinsAgree ==
  ASSUME NEW g \in Groups, NEW one, NEW two, Renamed(g, one, two),
         NEW f, NEW t, Twins(g, one, two, f, t), NEW e, NEW s, Twins(g, one, two, e, s)
  PROVE  /\ f[2] = e[2] <=> t[2] = s[2]
         /\ f[3] = e[3] <=> t[3] = s[3]
         /\ f = e <=> t = s
<1> DEFINE Is(h, u, v, p) ==
             Flow(one, v, p) /\ h = <<v, one[v], one[p]>> /\ u = <<v, two[v], two[p]>>
<1>1. PICK v \in NodesOf(g) : \E p \in Parents[g][v] : Is(f, t, v, p)
  BY DEF Twins
<1>2. PICK p \in Parents[g][v] : Is(f, t, v, p)
  BY <1>1
<1>3. PICK w \in NodesOf(g) : \E q \in Parents[g][w] : Is(e, s, w, q)
  BY DEF Twins
<1>4. PICK q \in Parents[g][w] : Is(e, s, w, q)
  BY <1>3
<1>5. /\ one[v] = one[w] <=> two[v] = two[w]
      /\ one[p] = one[q] <=> two[p] = two[q]
  BY <1>2, <1>4 DEF Renamed
<1> QED BY <1>2, <1>4, <1>5

\* Flows are no more than their twins, ...
LEMMA TwinsCount ==
  ASSUME NEW g \in Groups, NEW one, NEW two, Renamed(g, one, two),
         NEW A \in SUBSET Flows(g, one), NEW B \in SUBSET Flows(g, two),
         \A f \in A : \A t \in Flows(g, two) : Twins(g, one, two, f, t) => t \in B
  PROVE  Cardinality(A) <= Cardinality(B)
<1> DEFINE twin == [f \in A |-> CHOOSE t \in Flows(g, two) : Twins(g, one, two, f, t)]
<1>1. ASSUME NEW f \in A
      PROVE  twin[f] \in B /\ Twins(g, one, two, f, twin[f])
  BY TwinExists
<1>2. twin \in [A -> B]
  BY <1>1
<1>3. ASSUME NEW f \in A, NEW e \in A, twin[f] = twin[e] PROVE f = e
  <2> HIDE DEF twin
  <2> QED BY <1>1, <1>3, TwinsAgree
<1>4. twin \in Injection(A, B)
  <2> HIDE DEF twin
  <2> QED BY <1>2, <1>3 DEF Injection, IsInjective
<1>5. IsFiniteSet(A) /\ IsFiniteSet(B)
  BY FlowsAreFinite, FS_Subset
<1>6. Cardinality(A) \in Nat /\ Cardinality(B) \in Nat
  BY <1>5, FS_CardinalityType
<1> HIDE DEF twin
<1> QED BY <1>4, <1>5, <1>6, FS_Injection

\* ... and so as many.
LEMMA SameNumber ==
  ASSUME NEW g \in Groups, NEW one, NEW two, Renamed(g, one, two)
  PROVE  Cardinality(Flows(g, one)) = Cardinality(Flows(g, two))
<1>1. Renamed(g, two, one)
  BY RenamedBack
<1>2. Cardinality(Flows(g, one)) <= Cardinality(Flows(g, two))
  BY TwinsCount
<1>3. Cardinality(Flows(g, two)) <= Cardinality(Flows(g, one))
  BY <1>1, TwinsCount
<1> QED BY <1>2, <1>3, FlowsAreFinite

\* No end has more flows than its twin.
LEMMA TwinHasMore ==
  ASSUME NEW g \in Groups, NEW one, NEW two, Renamed(g, one, two), NEW side \in {2, 3},
         NEW f \in Flows(g, one)
  PROVE  \E t \in Flows(g, two) :
           CountOf(Flows(g, one), side, f[side]) <= CountOf(Flows(g, two), side, t[side])
<1>1. PICK t \in Flows(g, two) : Twins(g, one, two, f, t)
  BY TwinExists
<1> DEFINE A == {e \in Flows(g, one) : e[side] = f[side]}
           B == {s \in Flows(g, two) : s[side] = t[side]}
<1>2. ASSUME NEW e \in A, NEW s \in Flows(g, two), Twins(g, one, two, e, s)
      PROVE  s \in B
  <2>1. /\ f[2] = e[2] <=> t[2] = s[2]
        /\ f[3] = e[3] <=> t[3] = s[3]
    BY <1>1, <1>2, TwinsAgree
  <2> QED BY <2>1
<1>3. A \in SUBSET Flows(g, one) /\ B \in SUBSET Flows(g, two)
  OBVIOUS
<1>4. Cardinality(A) <= Cardinality(B)
  <2> HIDE DEF A, B
  <2> QED BY <1>2, <1>3, TwinsCount
<1> QED BY <1>4 DEF CountOf

----------------------------------------------------------------------------
(* Sets of integers as sequences *)

\* The number of elements below x.
RankIn(S, x) == Cardinality({y \in S : y < x})

\* Ascending lists every integer of a finite set once.
LEMMA RanksAreTaken ==
  ASSUME NEW S \in SUBSET Int, IsFiniteSet(S), NEW k \in 1 .. Cardinality(S)
  PROVE  \E x \in S : RankIn(S, x) = k - 1
<1> DEFINE n == Cardinality(S)
           r == [x \in S |-> RankIn(S, x)]
<1>1. n \in Nat
  BY FS_CardinalityType
<1>2. ASSUME NEW x \in S PROVE RankIn(S, x) \in 0 .. n - 1
  <2> DEFINE B == {y \in S : y < x}
  <2>1. B \in SUBSET (S \ {x})
    OBVIOUS
  <2>2. IsFiniteSet(S \ {x}) /\ Cardinality(S \ {x}) = n - 1
    BY FS_RemoveElement
  <2>3. IsFiniteSet(B) /\ Cardinality(B) <= n - 1
    BY <2>1, <2>2, FS_Subset
  <2>4. Cardinality(B) \in Nat
    BY <2>3, FS_CardinalityType
  <2>5. Cardinality(B) = RankIn(S, x)
    BY DEF RankIn
  <2> QED BY <1>1, <2>3, <2>4, <2>5
<1>3. ASSUME NEW x \in S, NEW y \in S, x < y PROVE RankIn(S, x) < RankIn(S, y)
  <2> DEFINE B == {z \in S : z < x}
             C == {z \in S : z < y}
  <2>1. IsFiniteSet(C)
    <3>1. C \in SUBSET S
      OBVIOUS
    <3> QED BY <3>1, FS_Subset
  <2>2. B \in SUBSET (C \ {x}) /\ x \in C
    <3>1. x \in Int /\ y \in Int /\ \A z \in S : z \in Int
      OBVIOUS
    <3>2. \A z \in S : z < x => z < y /\ z # x
      BY <1>3, <3>1
    <3> QED BY <1>3, <3>2
  <2>3. IsFiniteSet(C \ {x}) /\ Cardinality(C \ {x}) = Cardinality(C) - 1
    BY <2>1, <2>2, FS_RemoveElement
  <2>4. Cardinality(B) <= Cardinality(C) - 1 /\ IsFiniteSet(B)
    BY <2>2, <2>3, FS_Subset
  <2>5. Cardinality(B) \in Nat /\ Cardinality(C) \in Nat
    BY <2>1, <2>4, FS_CardinalityType
  <2>6. Cardinality(B) = RankIn(S, x) /\ Cardinality(C) = RankIn(S, y)
    BY DEF RankIn
  <2> QED BY <2>4, <2>5, <2>6
<1>4. r \in Injection(S, 0 .. n - 1)
  <2>1. r \in [S -> 0 .. n - 1]
    BY <1>2
  <2>2. ASSUME NEW x \in S, NEW y \in S, x # y PROVE r[x] # r[y]
    <3>1. x \in Int /\ y \in Int
      OBVIOUS
    <3>2. x < y \/ y < x
      BY <2>2, <3>1
    <3>3. RankIn(S, x) \in Int /\ RankIn(S, y) \in Int
      BY <1>2
    <3>4. CASE x < y
      BY <1>3, <3>3, <3>4
    <3>5. CASE y < x
      BY <1>3, <3>3, <3>5
    <3> QED BY <3>2, <3>4, <3>5
  <2> HIDE DEF r
  <2> QED BY <2>1, <2>2 DEF Injection, IsInjective
<1>5. IsFiniteSet(0 .. n - 1) /\ Cardinality(0 .. n - 1) = n
  <2>1. 0 \in Int /\ n - 1 \in Int /\ (0 > n - 1 => n = 0) /\ n - 1 - 0 + 1 = n
    BY <1>1
  <2> HIDE DEF n
  <2> QED BY <2>1, FS_Interval
<1>6. r \in Surjection(S, 0 .. n - 1)
  <2> HIDE DEF r
  <2> QED BY <1>4, <1>5, FS_Injection
<1>7. k - 1 \in 0 .. n - 1
  BY <1>1
<1> QED BY <1>6, <1>7 DEF Surjection

\* Ascending lists the elements of a finite set of integers, each once.
LEMMA AscendingIs ==
  ASSUME NEW S \in SUBSET Int, IsFiniteSet(S)
  PROVE  /\ Ascending(S) \in Seq(Int)
         /\ Len(Ascending(S)) = Cardinality(S)
         /\ \A i \in 1 .. Cardinality(S) : Ascending(S)[i] \in S
         /\ ToSet(Ascending(S)) = S
         /\ \A i, j \in 1 .. Cardinality(S) : Ascending(S)[i] = Ascending(S)[j] => i = j
<1> DEFINE n == Cardinality(S)
           a == Ascending(S)
<1>1. n \in Nat
  BY FS_CardinalityType
<1>2. ASSUME NEW i \in 1 .. n PROVE a[i] \in S /\ RankIn(S, a[i]) = i - 1
  <2>1. \E x \in S : Cardinality({y \in S : y < x}) = i - 1
    BY RanksAreTaken DEF RankIn
  <2>2. a[i] = CHOOSE x \in S : Cardinality({y \in S : y < x}) = i - 1
    BY DEF Ascending
  <2> QED BY <2>1, <2>2 DEF RankIn
<1>3. a \in [1 .. n -> Int] /\ DOMAIN a = 1 .. n
  <2>1. a = [i \in 1 .. n |-> a[i]]
    BY SMTT(30) DEF Ascending
  <2> HIDE DEF a
  <2> QED BY <1>2, <2>1
<1> HIDE DEF a
<1>4. a \in Seq(Int) /\ Len(a) = n
  BY <1>1, <1>3
<1>5. ASSUME NEW i \in 1 .. n, NEW j \in 1 .. n, a[i] = a[j] PROVE i = j
  BY <1>2, <1>5
<1>6. n = 0 \/ S # {}
  BY FS_EmptySet
<1>7. ToSet(a) = S
  <2> DEFINE T == {a[i] : i \in 1 .. n}
  <2>1. ToSet(a) = T
    BY <1>3 DEF ToSet
  <2>2. T \in SUBSET S
    BY <1>2
  <2>3. IsFiniteSet(T)
    BY <2>2, FS_Subset
  <2>4. a \in Injection(1 .. n, T)
    <3>1. a \in [1 .. n -> T]
      BY <1>3
    <3> HIDE DEF T
    <3> QED BY <1>5, <3>1 DEF Injection, IsInjective
  <2>5. IsFiniteSet(1 .. n) /\ Cardinality(1 .. n) = n
    BY <1>1, FS_Interval
  <2>6. Cardinality(T) >= n /\ Cardinality(T) \in Nat
    <3> HIDE DEF T
    <3> QED BY <2>3, <2>4, <2>5, FS_Injection, FS_CardinalityType, <1>1
  <2>7. Cardinality(T) <= n /\ (Cardinality(S) = Cardinality(T) => S = T)
    <3> HIDE DEF T
    <3> QED BY <2>2, FS_Subset
  <2>8. Cardinality(T) = n
    BY <1>1, <2>6, <2>7
  <2> QED BY <2>1, <2>7, <2>8
<1> QED BY <1>2, <1>4, <1>5, <1>7 DEF a

----------------------------------------------------------------------------
(* The vertices of a DAG *)

PlaceIn(seq, v) == CHOOSE i \in DOMAIN seq : seq[i] = v

LEMMA PlaceInIs ==
  ASSUME NEW seq, NEW i \in DOMAIN seq
  PROVE  PlaceIn(seq, seq[i]) \in DOMAIN seq /\ seq[PlaceIn(seq, seq[i])] = seq[i]
BY DEF PlaceIn

\* The headers are one for each failed block, in a list.
LEMMA HeadersAre ==
  ASSUME NEW g \in Groups
  PROVE  /\ DOMAIN Headers[g] = 1 .. Len(FailedOf[g])
         /\ Len(FailedOf[g]) \in Nat \ {0}
         /\ \A i \in DOMAIN Headers[g] : Headers[g][i] \in DagOf[g].headers
         /\ \A v \in DagOf[g].headers : /\ PlaceIn(Headers[g], v) \in DOMAIN Headers[g]
                                        /\ Headers[g][PlaceIn(Headers[g], v)] = v
<1> DEFINE S == DagOf[g].concats
           a == Ascending(S)
           H == Headers[g]
<1>1. /\ DagOf[g].headers = S /\ Cardinality(S) = Len(FailedOf[g])
      /\ S \subseteq NodesOf(g) /\ IsFiniteSet(NodesOf(g)) /\ NodesOf(g) \subseteq Nat
      /\ Len(FailedOf[g]) \in Nat \ {0}
  BY HeadersAssumption, DagsAssumption DEF NodesOf
<1>2. S \in SUBSET Int /\ IsFiniteSet(S)
  BY <1>1, FS_Subset
<1>3. /\ Len(a) = Cardinality(S)
      /\ \A i \in 1 .. Cardinality(S) : a[i] \in S
      /\ ToSet(a) = S /\ a \in Seq(Int)
  <2> HIDE DEF S
  <2> QED BY <1>2, AscendingIs
<1>4. H = [i \in 1 .. Len(a) |-> a[(Len(a) - i) + 1]]
  <2>1. Headers = [h \in Groups |-> Reverse(Ascending(DagOf[h].concats))]
    BY TabulatedIs DEF Headers
  <2>2. H = Reverse(a)
    BY <2>1
  <2> HIDE DEF a, H
  <2> QED BY <2>2 DEF Reverse
<1> HIDE DEF a, H, S
<1>5. DOMAIN H = 1 .. Len(a) /\ Len(a) \in Nat
  BY <1>1, <1>3, <1>4
<1>6. ASSUME NEW i \in DOMAIN H PROVE H[i] \in S
  <2>1. (Len(a) - i) + 1 \in 1 .. Len(a)
    BY <1>5
  <2> QED BY <1>3, <1>4, <1>5, <2>1
<1>7. ASSUME NEW v \in S PROVE \E i \in DOMAIN H : H[i] = v
  <2>1. PICK j \in 1 .. Len(a) : a[j] = v
    BY <1>3 DEF ToSet
  <2>2. (Len(a) - j) + 1 \in 1 .. Len(a) /\ (Len(a) - ((Len(a) - j) + 1)) + 1 = j
    BY <1>5
  <2>3. H[(Len(a) - j) + 1] = v
    BY <1>4, <2>1, <2>2
  <2> QED BY <1>5, <2>2, <2>3
<1>8. ASSUME NEW v \in S PROVE PlaceIn(H, v) \in DOMAIN H /\ H[PlaceIn(H, v)] = v
  BY <1>7 DEF PlaceIn
<1> QED BY <1>1, <1>3, <1>5, <1>6, <1>8 DEF H

\* An intermediate vertex has its place in the list of those that solutions color.
LEMMA ItmIs ==
  ASSUME NEW g \in Groups
  PROVE  /\ DOMAIN Itm[g] = 1 .. Len(Itm[g]) /\ Len(Itm[g]) \in Nat
         /\ \A v \in NodesOf(g) : v \notin DagOf[g].headers /\ v \notin Leaves[g] =>
              PlaceIn(Itm[g], v) \in DOMAIN Itm[g]
<1> DEFINE S == DagOf[g].nodes \ (DagOf[g].headers \cup Leaves[g])
           a == Ascending(S)
<1>1. S \in SUBSET Int /\ IsFiniteSet(S)
  <2>1. IsFiniteSet(DagOf[g].nodes) /\ DagOf[g].nodes \subseteq Nat
    BY DagsAssumption
  <2> QED BY <2>1, FS_Subset
<1>2. a \in Seq(Int) /\ ToSet(a) = S
  <2> HIDE DEF S
  <2> QED BY <1>1, AscendingIs
<1>3. Itm[g] = a
  <2>1. Itm = [h \in Groups |->
                 Ascending(DagOf[h].nodes \ (DagOf[h].headers \cup Leaves[h]))]
    BY TabulatedIs DEF Itm
  <2> QED BY <2>1
<1>4. ASSUME NEW v \in S PROVE PlaceIn(a, v) \in DOMAIN a
  <2> HIDE DEF a, S
  <2>1. \E i \in DOMAIN a : a[i] = v
    BY <1>2 DEF ToSet
  <2> QED BY <2>1 DEF PlaceIn
<1>5. DOMAIN a = 1 .. Len(a) /\ Len(a) \in Nat
  <2> HIDE DEF a
  <2> QED BY <1>2
<1> HIDE DEF a
<1> QED BY <1>3, <1>4, <1>5 DEF NodesOf

\* No flow goes to a leaf or comes from a header.
LEMMA LeavesAre ==
  ASSUME NEW g \in Groups
  PROVE  /\ \A v \in Leaves[g] : v \in NodesOf(g) /\ v \notin DagOf[g].headers
         /\ \A v \in NodesOf(g) : \A p \in Parents[g][v] : p \in NodesOf(g) /\ p \notin Leaves[g]
         /\ \A v \in DagOf[g].headers : v \in NodesOf(g) /\ Parents[g][v] = {}
<1>1. Leaves = [h \in Groups |-> {v \in DagOf[h].nodes : DagOf[h].childs[v] = <<>>}]
  BY TabulatedIs DEF Leaves
<1>2. Leaves[g] = {v \in NodesOf(g) : DagOf[g].childs[v] = <<>>}
  BY <1>1 DEF NodesOf
<1>3. \A v \in DagOf[g].headers : v \in NodesOf(g) /\ DagOf[g].childs[v] # <<>>
  BY DagsAssumption DEF NodesOf
<1>4. ASSUME NEW v \in NodesOf(g), NEW p \in Parents[g][v]
      PROVE  p \in NodesOf(g) /\ p \notin Leaves[g]
  <2>1. p \in NodesOf(g) /\ v \in ChildsOf(DagOf[g], p)
    BY ParentsAre
  <2>2. DagOf[g].childs[p] # <<>>
    BY <2>1 DEF ChildsOf, ToSet
  <2> QED BY <1>2, <2>1, <2>2
<1> QED BY <1>2, <1>3, <1>4, ParentsAre

\* The block of a leaf; a leaf of none is virtual.
BlockOf(g, v) == v \div EcwOf[g]
IsReal(g, v) == BlockOf(g, v) < EcnOf[g]

\* A leaf that is not virtual has the color of its block.
LEMMA BlockIs ==
  ASSUME NEW g \in Groups, NEW v \in NodesOf(g)
  PROVE  IsReal(g, v) => BlockOf(g, v) \in Colors(g)
<1>1. v \in Nat /\ EcwOf[g] \in Nat \ {0} /\ EcnOf[g] \in Nat \ {0}
  BY DagsAssumption DEF NodesOf
<1>2. v \div EcwOf[g] \in Nat
  BY <1>1
<1> QED BY <1>1, <1>2 DEF IsReal, BlockOf, Colors

\* The color of a vertex in the search.
LEMMA ColoringIs ==
  ASSUME NEW g \in Groups, NEW sol \in Solutions(g), NEW v \in NodesOf(g)
  PROVE  /\ v \in DagOf[g].headers =>
              Coloring(g, sol)[v] = FailedOf[g][PlaceIn(Headers[g], v)]
         /\ v \in Leaves[g] =>
              Coloring(g, sol)[v] = IF IsReal(g, v) THEN BlockOf(g, v) ELSE -1
         /\ v \notin DagOf[g].headers /\ v \notin Leaves[g] =>
              Coloring(g, sol)[v] = sol[PlaceIn(Itm[g], v)]
         /\ Coloring(g, sol)[v] \in Colors(g) \cup {-1}
<1> DEFINE H == Headers[g]
           I == Itm[g]
<1>1. Coloring(g, sol)[v] =
        IF v \in DagOf[g].headers THEN FailedOf[g][PlaceIn(H, v)]
        ELSE IF v \notin Leaves[g] THEN sol[PlaceIn(I, v)]
        ELSE IF v \div EcwOf[g] < EcnOf[g] THEN v \div EcwOf[g] ELSE -1
  BY DEF Coloring, PlaceIn, NodesOf
<1>2. v \in Leaves[g] => v \notin DagOf[g].headers
  BY LeavesAre
<1>3. v \in DagOf[g].headers => FailedOf[g][PlaceIn(H, v)] \in Colors(g)
  <2>1. v \in DagOf[g].headers => PlaceIn(H, v) \in 1 .. Len(FailedOf[g])
    BY HeadersAre
  <2> HIDE DEF H
  <2> QED BY <2>1, DagsAssumption DEF Colors
<1>4. v \notin DagOf[g].headers /\ v \notin Leaves[g] => sol[PlaceIn(I, v)] \in Colors(g)
  <2>1. v \notin DagOf[g].headers /\ v \notin Leaves[g] => PlaceIn(I, v) \in DOMAIN I
    BY ItmIs
  <2> QED BY <2>1 DEF Solutions
<1> HIDE DEF H, I
<1>5. v \in Leaves[g] =>
        Coloring(g, sol)[v] = IF IsReal(g, v) THEN BlockOf(g, v) ELSE -1
  BY <1>1, <1>2 DEF IsReal, BlockOf
<1> QED BY <1>1, <1>2, <1>3, <1>4, <1>5, BlockIs DEF H, I

----------------------------------------------------------------------------
(* The load of a coloring of nodes *)

\* The nodes that vertices are on, all of them real.
EndsOf(col) == {col[v] : v \in DOMAIN col} \ {-1}
IsColoring(col) == DOMAIN col = NodesOf(group) /\ EndsOf(col) # {}

NodeCounts(col) ==
  {CountOf(Flows(group, col), k[1], k[2]) : k \in {2, 3} \X EndsOf(col)}

\* evaluateColoring counts the flows by sender and by receiver.
LEMMA LoadsAre ==
  ASSUME NEW col
  PROVE  Loads(col) = [k \in {2, 3} \X {col[v] : v \in DOMAIN col} |->
                         CountOf(Flows(group, col), k[1], k[2])]
BY DEF Loads, CountOf

\* Whatever has an end in a flow is on a node.
LEMMA FlowEnds ==
  ASSUME NEW g \in Groups, NEW col, NEW f \in Flows(g, col), NEW side \in {2, 3},
         DOMAIN col = NodesOf(g)
  PROVE  f[side] \in EndsOf(col)
<1>1. PICK v \in NodesOf(g) : \E p \in Parents[g][v] :
             /\ col[v] # -1 /\ col[p] # -1 /\ f = <<v, col[v], col[p]>>
  BY FlowsAre
<1>2. PICK p \in Parents[g][v] :
        col[v] # -1 /\ col[p] # -1 /\ f = <<v, col[v], col[p]>>
  BY <1>1
<1>3. p \in NodesOf(g)
  BY LeavesAre
<1> QED BY <1>2, <1>3 DEF EndsOf

\* The load of a coloring is the most that a real node sends or receives.
LEMMA MeasuredIs ==
  ASSUME group \in Groups, NEW col, IsColoring(col)
  PROVE  /\ Measured(col) = <<Max(NodeCounts(col)), Cardinality(Flows(group, col))>>
         /\ NodeCounts(col) \subseteq Nat /\ NodeCounts(col) # {}
         /\ \A x \in NodeCounts(col) : x <= Cardinality(Flows(group, col))
<1> DEFINE F == Flows(group, col)
           all == {col[v] : v \in DOMAIN col}
           loads == Loads(col)
           real == {k \in DOMAIN loads : k[2] # -1}
<1>1. loads = [k \in {2, 3} \X all |-> CountOf(F, k[1], k[2])]
  BY LoadsAre
<1>2. real = {2, 3} \X EndsOf(col)
  <2>1. EndsOf(col) = all \ {-1}
    BY DEF EndsOf
  <2> HIDE DEF all, F, loads
  <2> QED BY <1>1, <2>1
<1>3. {loads[k] : k \in real} = NodeCounts(col)
  <2>1. \A k \in {2, 3} \X EndsOf(col) : loads[k] = CountOf(F, k[1], k[2])
    <3>1. EndsOf(col) = all \ {-1}
      BY DEF EndsOf
    <3> HIDE DEF all, F, loads
    <3> QED BY <1>1, <3>1
  <2> HIDE DEF loads, real
  <2> QED BY <1>2, <2>1 DEF NodeCounts
<1>4. Measured(col) = <<Max({loads[k] : k \in real}), Cardinality(F)>>
  BY DEF Measured
<1>5. ASSUME NEW x \in NodeCounts(col) PROVE x \in Nat /\ x <= Cardinality(F)
  <2>1. PICK k \in {2, 3} \X EndsOf(col) : x = CountOf(F, k[1], k[2])
    BY DEF NodeCounts
  <2> HIDE DEF F
  <2>2. IsFiniteSet(F)
    BY FlowsAreFinite DEF F
  <2> QED BY <2>1, <2>2, CountType
<1>6. NodeCounts(col) # {}
  <2>1. PICK c \in EndsOf(col) : TRUE
    BY DEF IsColoring
  <2>2. <<2, c>> \in {2, 3} \X EndsOf(col)
    BY <2>1
  <2> QED BY <2>2 DEF NodeCounts
<1> HIDE DEF loads, real
<1> QED BY <1>3, <1>4, <1>5, <1>6

\* The most of a coloring is the most of its renaming.
LEMMA SameMax ==
  ASSUME NEW A, A \subseteq Nat, A # {}, NEW B, B \subseteq Nat, B # {}, NEW bound \in Nat,
         \A x \in A : x <= bound, \A x \in B : x <= bound,
         \A x \in A : \E y \in B : x <= y, \A y \in B : \E x \in A : y <= x
  PROVE  Max(A) = Max(B)
<1>1. Max(A) \in A /\ \A x \in A : x <= Max(A)
  BY MaxIs
<1>2. Max(B) \in B /\ \A x \in B : x <= Max(B)
  BY MaxIs
<1>3. PICK y \in B : Max(A) <= y
  BY <1>1
<1>4. PICK x \in A : Max(B) <= x
  BY <1>2
<1>5. /\ Max(A) \in Nat /\ Max(B) \in Nat /\ x \in Nat /\ y \in Nat
      /\ y <= Max(B) /\ x <= Max(A)
  BY <1>1, <1>2
<1> QED BY <1>3, <1>4, <1>5

LEMMA NoCount ==
  ASSUME NEW flows, IsFiniteSet(flows), NEW side, NEW c, \A f \in flows : f[side] # c
  PROVE  CountOf(flows, side, c) = 0
<1>1. {f \in flows : f[side] = c} = {}
  OBVIOUS
<1> QED BY <1>1, FS_EmptySet DEF CountOf

\* A renamed coloring has the load and the bandwidth of the solution.
LEMMA MeasuredAsFound ==
  ASSUME group \in Groups, NEW sol \in Solutions(group), NEW col, IsColoring(col),
         Renamed(group, Coloring(group, sol), col)
  PROVE  Measured(col) = <<Point(group, sol).load, Point(group, sol).bdwt>>
<1> DEFINE one == Coloring(group, sol)
           F == Flows(group, one)
           G == Flows(group, col)
           A == CountsOf(group, F)
           B == NodeCounts(col)
<1>1. /\ IsFiniteSet(F) /\ IsFiniteSet(G) /\ Cardinality(F) \in Nat
      /\ Cardinality(F) = Cardinality(G)
  BY FlowsAreFinite, SameNumber
<1>2. /\ Measured(col) = <<Max(B), Cardinality(G)>>
      /\ B \subseteq Nat /\ B # {} /\ \A x \in B : x <= Cardinality(G)
  BY MeasuredIs
<1>3. Point(group, sol).load = Max(A) /\ Point(group, sol).bdwt = Cardinality(F)
  BY PointIs
<1>4. Renamed(group, one, col) /\ Renamed(group, col, one)
  BY RenamedBack
<1>5. DOMAIN one = NodesOf(group) /\ \A v \in NodesOf(group) : one[v] \in Colors(group) \cup {-1}
  <2>1. DOMAIN one = NodesOf(group)
    BY DEF Coloring, NodesOf
  <2>2. \A v \in NodesOf(group) : Coloring(group, sol)[v] \in Colors(group) \cup {-1}
    BY ColoringIs
  <2> QED BY <2>1, <2>2
<1> HIDE DEF one
<1>6. A \subseteq Nat /\ A # {} /\ \A x \in A : x <= Cardinality(F)
  <2>1. ASSUME NEW x \in A PROVE x \in Nat /\ x <= Cardinality(F)
    <3>1. PICK c \in Colors(group), side \in {2, 3} : x = CountOf(F, side, c)
      BY DEF CountsOf
    <3> HIDE DEF F
    <3> QED BY <1>1, <3>1, CountType
  <2>2. 0 \in Colors(group)
    BY DagsAssumption DEF Colors
  <2>3. A # {}
    BY <2>2 DEF CountsOf
  <2> HIDE DEF A
  <2> QED BY <2>1, <2>3
<1>7. ASSUME NEW x \in A PROVE \E y \in B : x <= y
  <2>1. PICK c \in Colors(group), side \in {2, 3} : x = CountOf(F, side, c)
    BY DEF CountsOf
  <2>2. CASE \E f \in F : f[side] = c
    <3>1. PICK f \in F : f[side] = c
      BY <2>2
    <3>2. PICK t \in G : CountOf(F, side, f[side]) <= CountOf(G, side, t[side])
      BY <1>4, TwinHasMore
    <3>3. t[side] \in EndsOf(col)
      BY FlowEnds DEF IsColoring
    <3>4. <<side, t[side]>> \in {2, 3} \X EndsOf(col)
      BY <3>3
    <3>5. CountOf(G, side, t[side]) \in B
      BY <3>4 DEF NodeCounts
    <3> HIDE DEF A, B, F, G
    <3> QED BY <2>1, <3>1, <3>2, <3>5
  <2>3. CASE ~ \E f \in F : f[side] = c
    <3> HIDE DEF A, B, F, G
    <3>1. x = 0
      BY <1>1, <2>1, <2>3, NoCount
    <3>2. PICK y \in B : TRUE
      BY <1>2
    <3> QED BY <1>2, <3>1, <3>2
  <2> QED BY <2>2, <2>3
<1>8. ASSUME NEW y \in B PROVE \E x \in A : y <= x
  <2>1. PICK k \in {2, 3} \X EndsOf(col) : y = CountOf(G, k[1], k[2])
    BY DEF NodeCounts
  <2> DEFINE side == k[1]
             c == k[2]
  <2>2. side \in {2, 3}
    OBVIOUS
  <2>3. CASE \E t \in G : t[side] = c
    <3>1. PICK t \in G : t[side] = c
      BY <2>3
    <3>2. PICK f \in F : CountOf(G, side, t[side]) <= CountOf(F, side, f[side])
      <4> HIDE DEF side
      <4> QED BY <1>4, <2>2, TwinHasMore
    <3>3. f[side] \in Colors(group)
      <4> HIDE DEF side
      <4>1. f[side] \in EndsOf(one)
        BY <1>5, <2>2, FlowEnds
      <4> QED BY <1>5, <4>1 DEF EndsOf
    <3>4. CountOf(F, side, f[side]) \in A
      <4> HIDE DEF side
      <4> QED BY <2>2, <3>3 DEF CountsOf
    <3> HIDE DEF A, B, F, G
    <3> QED BY <2>1, <3>1, <3>2, <3>4
  <2>4. CASE ~ \E t \in G : t[side] = c
    <3> HIDE DEF A, B, F, G, side, c
    <3>1. y = 0
      <4>1. y = CountOf(G, side, c)
        BY <2>1 DEF side, c
      <4> QED BY <1>1, <2>4, <4>1, NoCount
    <3>2. PICK x \in A : TRUE
      BY <1>6
    <3> QED BY <1>6, <3>1, <3>2
  <2> QED BY <2>3, <2>4
<1>9. Max(A) = Max(B)
  <2> HIDE DEF A, B, F, G
  <2> QED BY <1>1, <1>2, <1>6, <1>7, <1>8, SameMax
<1> HIDE DEF A, B, F, G
<1> QED BY <1>1, <1>2, <1>3, <1>9

----------------------------------------------------------------------------
(* The coloring of a stripe *)

Agents == 0 .. NumAgents - 1
Failed == ToSet(FailedOf[group])
IsHit(p) == p \in ToSet(StripesOn[group]) /\ FailBlocks(p) # {}

\* The blocks that a group was searched for.
LEMMA FailedAre ==
  ASSUME group \in Groups
  PROVE  /\ Failed = {FailedOf[group][i] : i \in 1 .. Len(FailedOf[group])}
         /\ Failed \subseteq Colors(group)
         /\ Len(FailedOf[group]) \in Nat \ {0}
         /\ \A i, j \in 1 .. Len(FailedOf[group]) :
              FailedOf[group][i] = FailedOf[group][j] => i = j
         /\ Cardinality(Failed) = Len(FailedOf[group])
<1> DEFINE F == FailedOf[group]
           n == Len(F)
<1>1. /\ F \in Seq(Colors(group)) /\ F # <<>>
      /\ \A i, j \in DOMAIN F : F[i] = F[j] => i = j
  BY DagsAssumption DEF Colors
<1> HIDE DEF F
<1>2. n \in Nat \ {0} /\ DOMAIN F = 1 .. n
  BY <1>1
<1>3. ToSet(F) = {F[i] : i \in 1 .. n}
  BY <1>2 DEF ToSet
<1>4. F \in Bijection(1 .. n, ToSet(F))
  <2>1. F \in [1 .. n -> ToSet(F)]
    BY <1>1, <1>2, <1>3
  <2>2. \A y \in ToSet(F) : \E i \in 1 .. n : F[i] = y
    BY <1>3
  <2> QED BY <1>1, <1>2, <2>1, <2>2
          DEF Bijection, Injection, Surjection, IsInjective
<1>5. IsFiniteSet(1 .. n) /\ Cardinality(1 .. n) = n
  BY <1>2, FS_Interval
<1>6. Cardinality(ToSet(F)) = n
  <2> DEFINE D == 1 .. n
             T == ToSet(F)
  <2>1. F \in Bijection(D, T) /\ IsFiniteSet(D) /\ Cardinality(D) = n
    BY <1>4, <1>5
  <2> HIDE DEF D, T, n
  <2>2. Cardinality(T) = n
    BY <2>1, FS_Bijection DEF ExistsBijection
  <2> QED BY <2>2 DEF T
<1>7. ToSet(F) \subseteq Colors(group)
  BY <1>1, <1>2, <1>3
<1> QED BY <1>1, <1>2, <1>3, <1>6, <1>7 DEF Failed, F

\* A stripe that was hit has lost just the blocks that its group was searched for.
LEMMA HitIs ==
  ASSUME group \in Groups, NEW p, IsHit(p)
  PROVE  /\ p \in [Colors(group) -> Agents]
         /\ \A b, c \in Colors(group) : p[b] = p[c] => b = c
         /\ FailBlocks(p) = Failed
         /\ FailNodes \subseteq Agents
         /\ Cardinality(FailNodes) = Len(FailedOf[group])
         /\ Colors(group) \subseteq Agents
<1>1. /\ EcnOf[group] <= NumAgents
      /\ FailNodesOf[group] \in Seq(Agents)
      /\ Cardinality(FailNodes) = Len(FailedOf[group])
      /\ StripesOn[group] \in Seq([Colors(group) -> Agents])
      /\ \A b, c \in Colors(group) : p[b] = p[c] => b = c
      /\ {b \in Colors(group) : p[b] \in FailNodes} \in {{}, Failed}
  BY StripesAssumption DEF IsHit, FailNodes, Failed, Agents
<1>2. p \in [Colors(group) -> Agents]
  BY <1>1 DEF IsHit, ToSet
<1>3. FailBlocks(p) = {b \in Colors(group) : p[b] \in FailNodes}
  BY <1>2 DEF FailBlocks
<1>4. FailBlocks(p) = Failed
  BY <1>1, <1>3 DEF IsHit
<1>5. FailNodes \subseteq Agents
  BY <1>1 DEF FailNodes, ToSet
<1>6. Colors(group) \subseteq Agents
  <2>1. EcnOf[group] \in Nat /\ NumAgents \in Nat
    BY DagsAssumption, OfflineAssumption
  <2> QED BY <1>1, <2>1 DEF Colors, Agents
<1> QED BY <1>1, <1>2, <1>4, <1>5, <1>6

\* What repair nodes r and a solution s make of a stripe with placement p.
IsPlaced(p, r, s, col) ==
  /\ DOMAIN col = NodesOf(group)
  /\ \A v \in NodesOf(group) :
       /\ v \in DagOf[group].headers => col[v] = r[PlaceIn(Headers[group], v)]
       /\ v \in Leaves[group] =>
            col[v] = IF IsReal(group, v) THEN p[BlockOf(group, v)] ELSE -1
       /\ v \notin DagOf[group].headers /\ v \notin Leaves[group] =>
            col[v] = NodeOfColor(s[PlaceIn(Itm[group], v)], p, r[1])

\* A coloring of a stripe comes from repair nodes and a solution.
LEMMA PlacedIs ==
  ASSUME group \in Groups, NEW p, NEW col \in OfflineColorings(p)
  PROVE  \E r \in RepairNodes(p) : \E s \in OfflineSolutions(p) : IsPlaced(p, r, s, col)
<1> DEFINE made(x) ==
             [v \in DagOf[group].nodes |->
                IF v \in Leaves[group]
                THEN IF v \div EcwOf[group] < EcnOf[group]
                     THEN p[v \div EcwOf[group]] ELSE -1
                ELSE IF v \in DagOf[group].headers
                THEN x[1][PlaceIn(Headers[group], v)]
                ELSE NodeOfColor(x[2][PlaceIn(Itm[group], v)], p, x[1][1])]
<1>1. OfflineColorings(p) = {made(x) : x \in RepairNodes(p) \X OfflineSolutions(p)}
  BY DEF OfflineColorings, PlaceIn
<1>2. PICK x \in RepairNodes(p) \X OfflineSolutions(p) : col = made(x)
  <2> HIDE DEF made
  <2> QED BY <1>1
<1>3. \A v \in Leaves[group] : v \notin DagOf[group].headers
  BY LeavesAre
<1>4. IsPlaced(p, x[1], x[2], col)
  BY <1>2, <1>3 DEF IsPlaced, NodesOf, IsReal, BlockOf
<1> QED BY <1>2, <1>4

\* The repaired blocks go to the failed node itself, or to nodes apart from all others.
LEMMA RepairNodesAre ==
  ASSUME group \in Groups, NEW p, IsHit(p), NEW r \in RepairNodes(p)
  PROVE  /\ \A i \in DOMAIN Headers[group] : r[i] \in Agents
         /\ \/ /\ Cardinality(FailNodes) = 1 /\ r[1] \in FailNodes
            \/ /\ \A i, j \in DOMAIN Headers[group] : r[i] = r[j] => i = j
               /\ \A i \in DOMAIN Headers[group] : r[i] \notin Avoided(p)
<1>1. CASE scenario = "scatter"
  <2>1. /\ r \in [DOMAIN Headers[group] -> Agents \ Avoided(p)]
        /\ \A i, j \in DOMAIN r : r[i] = r[j] => i = j
    BY <1>1 DEF RepairNodes, Agents
  <2> QED BY <2>1
<1>2. CASE scenario # "scatter"
  <2>1. Cardinality(FailNodes) = 1 /\ \E n \in FailNodes : r = <<n>>
    BY <1>2 DEF RepairNodes
  <2>2. PICK n \in FailNodes : r = <<n>>
    BY <2>1
  <2>3. DOMAIN Headers[group] = 1 .. 1
    BY <2>1, HeadersAre, HitIs
  <2>4. r[1] = n
    BY <2>2
  <2>5. \A i \in DOMAIN Headers[group] : i = 1
    BY <2>3
  <2> QED BY <2>1, <2>4, <2>5, HitIs
<1> QED BY <1>1, <1>2

\* The text in the file is that of a point.
HasPoint(a) ==
  /\ a \in PointsOf(group)
  /\ points = [idx \in {IndexOf(Failed)} |-> GetString(a.sol, EcnOf[group])]

\* The solution that is read is the one that was written.
LEMMA PointIsRead ==
  ASSUME group \in Groups, NEW a, HasPoint(a)
  PROVE  ColoringOf(points[IndexOf(Failed)], NDigits(EcnOf[group])) = a.sol
<1>1. points[IndexOf(Failed)] = GetString(a.sol, EcnOf[group])
  BY DEF HasPoint
<1>2. a.sol \in Solutions(group)
  BY PointsAre DEF HasPoint
<1>3. a.sol \in [1 .. Len(Itm[group]) -> 0 .. EcnOf[group] - 1] /\ Len(Itm[group]) \in Nat
  BY <1>2, ItmIs DEF Solutions, Colors
<1>4. EcnOf[group] \in Nat \ {0}
  BY DagsAssumption
<1> QED BY <1>1, <1>3, <1>4, TextIsRead

\* A stripe gets that solution, if its index is the one that it was put under.
LEMMA SolutionsAre ==
  ASSUME group \in Groups, NEW p, IsHit(p), NEW a, HasPoint(a),
         NEW s \in OfflineSolutions(p)
  PROVE  /\ s \in Solutions(group)
         /\ Cardinality(FailNodes) = 1 => s = a.sol
<1> DEFINE idx == IF Cardinality(FailNodes) = 1 THEN IndexOf(FailBlocks(p))
                  ELSE Bits({p[b] : b \in FailBlocks(p)})
<1>1. OfflineSolutions(p) =
        IF idx \in DOMAIN points
        THEN {ColoringOf(points[idx], NDigits(EcnOf[group]))} ELSE Solutions(group)
  BY DEF OfflineSolutions
<1>2. DOMAIN points = {IndexOf(Failed)}
  BY DEF HasPoint
<1>3. a.sol \in Solutions(group)
  BY PointsAre DEF HasPoint
<1>4. idx = IndexOf(Failed) => s = a.sol
  <2> HIDE DEF idx
  <2> QED BY <1>1, <1>2, PointIsRead
<1>5. s \in Solutions(group)
  <2> HIDE DEF idx
  <2> QED BY <1>1, <1>2, <1>3, <1>4
<1>6. Cardinality(FailNodes) = 1 => idx = IndexOf(Failed)
  BY HitIs
<1> HIDE DEF idx
<1> QED BY <1>4, <1>5, <1>6

\* A stripe that was hit and has got a coloring, with repair nodes r and a solution s.
HasColoring(stripe, r, s) ==
  /\ group \in Groups /\ IsHit(stripe.placement)
  /\ r \in RepairNodes(stripe.placement) /\ s \in Solutions(group)
  /\ IsPlaced(stripe.placement, r, s, stripe.coloring)

\* Which node a color stands for, in terms of the blocks that are lost.
LEMMA NodeOfColorIs ==
  ASSUME group \in Groups, NEW p, IsHit(p), NEW c, NEW n
  PROVE  NodeOfColor(c, p, n) = IF Len(FailedOf[group]) > 1 THEN c
                                ELSE IF c \in Failed THEN n ELSE p[c]
BY HitIs DEF NodeOfColor

\* Every vertex is on an agent, virtual leaves apart.
LEMMA PlacedType ==
  ASSUME NEW stripe, NEW r, NEW s, HasColoring(stripe, r, s)
  PROVE  /\ \A v \in NodesOf(group) : stripe.coloring[v] \in Agents \cup {-1}
         /\ IsColoring(stripe.coloring)
<1> DEFINE p == stripe.placement
           col == stripe.coloring
           H == Headers[group]
           I == Itm[group]
<1>1. /\ group \in Groups /\ IsHit(p) /\ s \in Solutions(group) /\ IsPlaced(p, r, s, col)
      /\ p \in [Colors(group) -> Agents] /\ Colors(group) \subseteq Agents
      /\ \A i \in DOMAIN H : r[i] \in Agents
      /\ 1 \in DOMAIN H
  <2>1. /\ group \in Groups /\ IsHit(p) /\ s \in Solutions(group) /\ IsPlaced(p, r, s, col)
        /\ r \in RepairNodes(p)
    BY DEF HasColoring
  <2> HIDE DEF p, col
  <2> QED BY <2>1, HitIs, RepairNodesAre, HeadersAre
<1> HIDE DEF p, col
<1>2. ASSUME NEW v \in DagOf[group].headers
      PROVE  v \in NodesOf(group) /\ col[v] \in Agents
  <2>1. v \in NodesOf(group)
    BY <1>1, LeavesAre
  <2>2. PlaceIn(H, v) \in DOMAIN H
    BY <1>1, HeadersAre
  <2> QED BY <1>1, <2>1, <2>2 DEF IsPlaced
<1>3. ASSUME NEW v \in Leaves[group], v \in NodesOf(group) PROVE col[v] \in Agents \cup {-1}
  <2>1. IsReal(group, v) => BlockOf(group, v) \in Colors(group)
    BY <1>1, <1>3, BlockIs
  <2> QED BY <1>1, <1>3, <2>1 DEF IsPlaced
<1>4. ASSUME NEW v \in NodesOf(group), v \notin Leaves[group], v \notin DagOf[group].headers
      PROVE  col[v] \in Agents
  <2>1. PlaceIn(I, v) \in DOMAIN I
    BY <1>1, <1>4, ItmIs
  <2>2. s[PlaceIn(I, v)] \in Colors(group)
    BY <1>1, <2>1 DEF Solutions
  <2>3. col[v] = NodeOfColor(s[PlaceIn(I, v)], p, r[1])
    BY <1>1, <1>4 DEF IsPlaced
  <2> QED BY <1>1, <2>2, <2>3, NodeOfColorIs
<1>5. \A v \in NodesOf(group) : col[v] \in Agents \cup {-1}
  BY <1>2, <1>3, <1>4
<1>6. IsColoring(col)
  <2>1. H[1] \in DagOf[group].headers
    BY <1>1, HeadersAre
  <2>2. H[1] \in NodesOf(group) /\ col[H[1]] \in Agents
    BY <1>2, <2>1
  <2>3. -1 \notin Agents
    BY OfflineAssumption DEF Agents
  <2>4. DOMAIN col = NodesOf(group)
    BY <1>1 DEF IsPlaced
  <2> QED BY <2>2, <2>3, <2>4 DEF IsColoring, EndsOf
<1> QED BY <1>5, <1>6 DEF col

\* The color of a header, in the search and on the stripe.
LEMMA HeaderColors ==
  ASSUME NEW stripe, NEW r, NEW s, HasColoring(stripe, r, s), NEW v \in DagOf[group].headers
  PROVE  \E i \in 1 .. Len(FailedOf[group]) :
           /\ Headers[group][i] = v
           /\ Coloring(group, s)[v] = FailedOf[group][i] /\ stripe.coloring[v] = r[i]
<1> DEFINE i == PlaceIn(Headers[group], v)
<1>1. group \in Groups /\ s \in Solutions(group) /\ v \in NodesOf(group)
  BY LeavesAre DEF HasColoring
<1>2. i \in 1 .. Len(FailedOf[group]) /\ Headers[group][i] = v
  BY <1>1, HeadersAre
<1>3. Coloring(group, s)[v] = FailedOf[group][i]
  BY <1>1, ColoringIs
<1>4. stripe.coloring[v] = r[i]
  BY <1>1 DEF HasColoring, IsPlaced
<1> HIDE DEF i
<1> QED BY <1>2, <1>3, <1>4

\* The color of a leaf.
LEMMA LeafColors ==
  ASSUME NEW stripe, NEW r, NEW s, HasColoring(stripe, r, s), NEW v \in Leaves[group]
  PROVE  \/ /\ Coloring(group, s)[v] = -1 /\ stripe.coloring[v] = -1
         \/ \E b \in Colors(group) :
              /\ b = v \div EcwOf[group]
              /\ Coloring(group, s)[v] = b /\ stripe.coloring[v] = stripe.placement[b]
              /\ stripe.placement[b] \in Avoided(stripe.placement)
<1>1. group \in Groups /\ s \in Solutions(group) /\ v \in NodesOf(group)
  BY LeavesAre DEF HasColoring
<1>2. Coloring(group, s)[v] = IF IsReal(group, v) THEN BlockOf(group, v) ELSE -1
  BY <1>1, ColoringIs
<1>3. stripe.coloring[v] = IF IsReal(group, v) THEN stripe.placement[BlockOf(group, v)] ELSE -1
  BY <1>1 DEF HasColoring, IsPlaced
<1>4. IsReal(group, v) => BlockOf(group, v) \in Colors(group)
  BY <1>1, BlockIs
<1>5. IsReal(group, v) => stripe.placement[BlockOf(group, v)] \in Avoided(stripe.placement)
  BY DEF Avoided, IsReal, BlockOf
<1>6. BlockOf(group, v) = v \div EcwOf[group]
  BY DEF BlockOf
<1> QED BY <1>2, <1>3, <1>4, <1>5, <1>6

\* The color of an intermediate vertex.
LEMMA ItmColors ==
  ASSUME NEW stripe, NEW r, NEW s, HasColoring(stripe, r, s), NEW v \in NodesOf(group),
         v \notin Leaves[group], v \notin DagOf[group].headers
  PROVE  \E c \in Colors(group) :
           /\ c \in {s[i] : i \in DOMAIN s} /\ Coloring(group, s)[v] = c
           /\ stripe.coloring[v] = NodeOfColor(c, stripe.placement, r[1])
<1> DEFINE i == PlaceIn(Itm[group], v)
<1>1. group \in Groups /\ s \in Solutions(group)
  BY DEF HasColoring
<1>2. i \in DOMAIN Itm[group]
  BY <1>1, ItmIs
<1>3. i \in DOMAIN s /\ s[i] \in Colors(group)
  BY <1>1, <1>2 DEF Solutions
<1>4. Coloring(group, s)[v] = s[i]
  BY <1>1, ColoringIs
<1>5. stripe.coloring[v] = NodeOfColor(s[i], stripe.placement, r[1])
  BY <1>1 DEF HasColoring, IsPlaced
<1> HIDE DEF i
<1> QED BY <1>3, <1>4, <1>5

\* Nodes are renamed one by one, if colors are equal where nodes are.
LEMMA OneByOne ==
  ASSUME NEW g \in Groups, NEW one, NEW two,
         \A v \in NodesOf(g) : one[v] = -1 <=> two[v] = -1,
         \A v, w \in NodesOf(g) : one[v] # -1 /\ one[w] # -1 =>
           (one[v] = one[w] <=> two[v] = two[w])
  PROVE  Renamed(g, one, two)
<1>1. \A v \in NodesOf(g) : \A p \in Parents[g][v] : p \in NodesOf(g)
  BY LeavesAre
<1> QED BY <1>1 DEF Renamed, Flow

\* One failed block: its color stands for the repair node, and every other color for
\* the node that has that block.
LEMMA RenamedOne ==
  ASSUME NEW stripe, NEW r, NEW s, HasColoring(stripe, r, s), KeepsApart(stripe, s),
         Cardinality(FailNodes) = 1
  PROVE  Renamed(group, Coloring(group, s), stripe.coloring)
<1> DEFINE p == stripe.placement
           col == stripe.coloring
           one == Coloring(group, s)
           F == FailedOf[group]
           n == r[1]
<1>1. /\ group \in Groups /\ s \in Solutions(group) /\ IsHit(p) /\ r \in RepairNodes(p)
  BY DEF HasColoring
<1>2. /\ p \in [Colors(group) -> Agents]
      /\ \A b, c \in Colors(group) : p[b] = p[c] => b = c
      /\ FailBlocks(p) = Failed /\ Len(F) = 1
  BY <1>1, HitIs
<1>3. Failed = {F[1]} /\ F[1] \in Colors(group)
  BY <1>1, <1>2, FailedAre
<1>4. \A b \in Colors(group) \ Failed : p[b] \notin FailNodes
  BY <1>2 DEF FailBlocks
<1>5. \A v \in DagOf[group].headers : v \in NodesOf(group) /\ one[v] = F[1] /\ col[v] = n
  <2> TAKE v \in DagOf[group].headers
  <2>1. v \in NodesOf(group)
    BY <1>1, LeavesAre
  <2> QED BY <1>2, <2>1, HeaderColors
\* No other color that is used is on the repair node.
<1>6. ASSUME NEW v \in NodesOf(group)
      PROVE  \/ one[v] = -1 /\ col[v] = -1
             \/ one[v] = F[1] /\ col[v] = n
             \/ \E b \in Colors(group) \ Failed : one[v] = b /\ col[v] = p[b] /\ p[b] # n
  <2>1. CASE v \in DagOf[group].headers
    BY <1>5, <2>1
  <2>2. CASE v \in Leaves[group] /\ ~ (one[v] = -1 /\ col[v] = -1)
    <3>1. PICK b \in Colors(group) : /\ b = v \div EcwOf[group]
                                     /\ one[v] = b /\ col[v] = p[b] /\ p[b] \in Avoided(p)
      BY <2>2, LeafColors
    <3>2. b \notin Failed
      <4>1. v \div EcwOf[group] # F[1]
        BY <1>1, <1>2, <2>2, LostAssumption
      <4> QED BY <1>3, <3>1, <4>1
    <3>3. p[b] # n
      <4>1. \/ n \in FailNodes
            \/ \A i \in DOMAIN Headers[group] : r[i] \notin Avoided(p)
        BY <1>1, RepairNodesAre
      <4>2. 1 \in DOMAIN Headers[group]
        BY <1>1, HeadersAre
      <4> QED BY <1>4, <3>1, <3>2, <4>1, <4>2
    <3> QED BY <3>1, <3>2, <3>3
  <2>3. CASE v \notin DagOf[group].headers /\ v \notin Leaves[group]
    <3>1. PICK c \in Colors(group) :
            /\ c \in {s[i] : i \in DOMAIN s} /\ one[v] = c /\ col[v] = NodeOfColor(c, p, n)
      BY <2>3, ItmColors
    <3>2. col[v] = IF c \in Failed THEN n ELSE p[c]
      BY <1>1, <1>2, <3>1, NodeOfColorIs
    <3>3. CASE c \in Failed
      BY <1>3, <3>1, <3>2, <3>3
    <3>4. CASE c \notin Failed
      <4>1. n \in {col[h] : h \in DagOf[group].headers}
        <5>1. 1 \in DOMAIN Headers[group] /\ Headers[group][1] \in DagOf[group].headers
          BY <1>1, HeadersAre
        <5> QED BY <1>5, <5>1
      <4>2. p[c] \notin {col[h] : h \in DagOf[group].headers}
        BY <1>2, <3>1, <3>4 DEF KeepsApart
      <4> QED BY <3>1, <3>2, <3>4, <4>1, <4>2
    <3> QED BY <3>3, <3>4
  <2> QED BY <2>1, <2>2, <2>3
<1>7. n # -1 /\ F[1] # -1 /\ \A b \in Colors(group) : b # -1 /\ p[b] # -1
  <2>1. n \in Agents
    BY <1>1, HeadersAre, RepairNodesAre
  <2>2. -1 \notin Agents /\ -1 \notin Colors(group)
    <3>1. NumAgents \in Nat /\ EcnOf[group] \in Nat
      BY <1>1, OfflineAssumption, DagsAssumption
    <3> QED BY <3>1 DEF Agents, Colors
  <2> QED BY <1>2, <1>3, <2>1, <2>2
<1> HIDE DEF p, col, one, n, F
<1>8. \A v \in NodesOf(group) : one[v] = -1 <=> col[v] = -1
  BY <1>6, <1>7
<1>9. ASSUME NEW v \in NodesOf(group), NEW w \in NodesOf(group), one[v] # -1, one[w] # -1
      PROVE  one[v] = one[w] <=> col[v] = col[w]
  BY <1>2, <1>3, <1>6, <1>9
<1>10. Renamed(group, one, col)
  BY <1>1, <1>8, <1>9, OneByOne
<1> QED BY <1>10 DEF one, col

\* So a stripe has the load and the bandwidth of the solution that it got.
LEMMA StripeIsRenamed ==
  ASSUME NEW stripe, NEW r, NEW s, HasColoring(stripe, r, s), KeepsApart(stripe, s),
         Cardinality(FailNodes) = 1
  PROVE  Measured(stripe.coloring) = <<Point(group, s).load, Point(group, s).bdwt>>
<1>1. Renamed(group, Coloring(group, s), stripe.coloring)
  BY RenamedOne
<1>2. IsColoring(stripe.coloring)
  BY PlacedType
<1> QED BY <1>1, <1>2, MeasuredAsFound DEF HasColoring

----------------------------------------------------------------------------
(* Sums *)

NatTerms(terms, n) == \A i \in 1 .. n : terms[i] \in Nat

\* What SumUpTo adds up exists.
LEMMA SumIs ==
  ASSUME NEW n \in Nat, NEW terms
  PROVE  \E sum : IsSum(sum, terms, n) /\ SumUpTo(terms, n) = sum[n]
<1>1. SumUpTo(terms, n) = (CHOOSE sum : IsSum(sum, terms, n))[n]
  BY DEF SumUpTo, IsSum
<1>2. \E sum : IsSum(sum, terms, n)
  BY SumExists
<1> QED BY <1>1, <1>2

\* One term more.
LEMMA SumStep ==
  ASSUME NEW n \in Nat, NEW terms
  PROVE  SumUpTo(terms, n + 1) = SumUpTo(terms, n) + terms[n + 1]
<1>1. PICK f : IsSum(f, terms, n) /\ SumUpTo(terms, n) = f[n]
  BY SumIs
<1>2. PICK g : IsSum(g, terms, n + 1) /\ SumUpTo(terms, n + 1) = g[n + 1]
  BY SumIs
<1>3. f[n] = g[n]
  BY <1>1, <1>2, SumContinues
<1>4. g[n + 1] = g[n] + terms[n + 1]
  BY <1>2 DEF IsSum
<1> QED BY <1>1, <1>2, <1>3, <1>4

\* Nothing adds up to 0.
LEMMA SumOfNone == ASSUME NEW terms PROVE SumUpTo(terms, 0) = 0
<1>1. PICK f : IsSum(f, terms, 0) /\ SumUpTo(terms, 0) = f[0]
  BY SumIs
<1> QED BY <1>1 DEF IsSum

LEMMA SumType ==
  ASSUME NEW n \in Nat, NEW terms, NatTerms(terms, n)
  PROVE  SumUpTo(terms, n) \in Nat
<1>1. PICK f : IsSum(f, terms, n) /\ SumUpTo(terms, n) = f[n]
  BY SumIs
<1>2. \A i \in 0 .. n : f[i] \in Nat
  BY <1>1, SumGrows DEF NatTerms
<1> QED BY <1>1, <1>2

\* A sum has all of its terms, ...
LEMMA SumHas ==
  ASSUME NEW n \in Nat, NEW terms, NatTerms(terms, n), NEW i \in 1 .. n
  PROVE  terms[i] <= SumUpTo(terms, n)
<1> DEFINE T == {m \in Nat : i <= m /\ m <= n => terms[i] <= SumUpTo(terms, m)}
<1>1. 0 \in T
  OBVIOUS
<1>2. ASSUME NEW m \in T PROVE m + 1 \in T
  <2> SUFFICES ASSUME i <= m + 1, m + 1 <= n PROVE terms[i] <= SumUpTo(terms, m + 1)
    OBVIOUS
  <2>1. /\ NatTerms(terms, m) /\ NatTerms(terms, m + 1) /\ terms[m + 1] \in Nat
        /\ terms[i] \in Nat
    BY DEF NatTerms
  <2>2. SumUpTo(terms, m + 1) = SumUpTo(terms, m) + terms[m + 1] /\ SumUpTo(terms, m) \in Nat
    BY <2>1, SumStep, SumType
  <2>3. CASE i = m + 1
    BY <2>1, <2>2, <2>3
  <2>4. CASE i # m + 1
    <3>1. terms[i] <= SumUpTo(terms, m)
      BY <2>4
    <3> QED BY <2>1, <2>2, <3>1
  <2> QED BY <2>3, <2>4
<1>3. T = Nat
  <2> HIDE DEF T
  <2>1. T \in SUBSET Nat
    BY DEF T
  <2> QED BY <1>1, <1>2, <2>1, SetInduction
<1> QED BY <1>3

\* ... grows with them, ...
LEMMA SumIsMore ==
  ASSUME NEW n \in Nat, NEW low, NatTerms(low, n), NEW high, NatTerms(high, n),
         \A i \in 1 .. n : low[i] <= high[i]
  PROVE  SumUpTo(low, n) <= SumUpTo(high, n)
<1> DEFINE T == {m \in Nat : m <= n => SumUpTo(low, m) <= SumUpTo(high, m)}
<1>1. 0 \in T
  BY SumOfNone
<1>2. ASSUME NEW m \in T PROVE m + 1 \in T
  <2> SUFFICES ASSUME m + 1 <= n PROVE SumUpTo(low, m + 1) <= SumUpTo(high, m + 1)
    OBVIOUS
  <2>1. /\ NatTerms(low, m) /\ NatTerms(low, m + 1) /\ low[m + 1] \in Nat
        /\ NatTerms(high, m) /\ NatTerms(high, m + 1) /\ high[m + 1] \in Nat
        /\ low[m + 1] <= high[m + 1]
    BY DEF NatTerms
  <2>2. /\ SumUpTo(low, m + 1) = SumUpTo(low, m) + low[m + 1] /\ SumUpTo(low, m) \in Nat
        /\ SumUpTo(high, m + 1) = SumUpTo(high, m) + high[m + 1] /\ SumUpTo(high, m) \in Nat
    BY <2>1, SumStep, SumType
  <2>3. SumUpTo(low, m) <= SumUpTo(high, m)
    OBVIOUS
  <2> QED BY <2>1, <2>2, <2>3
<1>3. T = Nat
  <2> HIDE DEF T
  <2>1. T \in SUBSET Nat
    BY DEF T
  <2> QED BY <1>1, <1>2, <2>1, SetInduction
<1> QED BY <1>3

\* ... and adds up.
LEMMA SumAdds ==
  ASSUME NEW n \in Nat, NEW s, NatTerms(s, n), NEW t, NatTerms(t, n), NEW u, NatTerms(u, n),
         \A i \in 1 .. n : u[i] = s[i] + t[i]
  PROVE  SumUpTo(u, n) = SumUpTo(s, n) + SumUpTo(t, n)
<1> DEFINE T == {m \in Nat : m <= n => SumUpTo(u, m) = SumUpTo(s, m) + SumUpTo(t, m)}
<1>1. 0 \in T
  BY SumOfNone
<1>2. ASSUME NEW m \in T PROVE m + 1 \in T
  <2> SUFFICES ASSUME m + 1 <= n
               PROVE  SumUpTo(u, m + 1) = SumUpTo(s, m + 1) + SumUpTo(t, m + 1)
    OBVIOUS
  <2>1. /\ NatTerms(s, m) /\ NatTerms(s, m + 1) /\ s[m + 1] \in Nat
        /\ NatTerms(t, m) /\ NatTerms(t, m + 1) /\ t[m + 1] \in Nat
        /\ NatTerms(u, m) /\ NatTerms(u, m + 1) /\ u[m + 1] = s[m + 1] + t[m + 1]
    BY DEF NatTerms
  <2>2. /\ SumUpTo(s, m + 1) = SumUpTo(s, m) + s[m + 1] /\ SumUpTo(s, m) \in Nat
        /\ SumUpTo(t, m + 1) = SumUpTo(t, m) + t[m + 1] /\ SumUpTo(t, m) \in Nat
        /\ SumUpTo(u, m + 1) = SumUpTo(u, m) + u[m + 1] /\ SumUpTo(u, m) \in Nat
    BY <2>1, SumStep, SumType
  <2>3. SumUpTo(u, m) = SumUpTo(s, m) + SumUpTo(t, m)
    OBVIOUS
  <2> QED BY <2>1, <2>2, <2>3
<1>3. T = Nat
  <2> HIDE DEF T
  <2>1. T \in SUBSET Nat
    BY DEF T
  <2> QED BY <1>1, <1>2, <2>1, SetInduction
<1> QED BY <1>3

\* Adding up the rows, and then what they have, is adding up the columns.
LEMMA SumOfZeros ==
  ASSUME NEW n \in Nat, NEW terms, \A i \in 1 .. n : terms[i] = 0
  PROVE  SumUpTo(terms, n) = 0
<1> DEFINE T == {m \in Nat : m <= n => SumUpTo(terms, m) = 0}
<1>1. 0 \in T
  BY SumOfNone
<1>2. ASSUME NEW m \in T PROVE m + 1 \in T
  <2> SUFFICES ASSUME m + 1 <= n PROVE SumUpTo(terms, m + 1) = 0
    OBVIOUS
  <2>1. SumUpTo(terms, m + 1) = SumUpTo(terms, m) + terms[m + 1]
    BY SumStep
  <2>2. SumUpTo(terms, m) = 0 /\ terms[m + 1] = 0
    OBVIOUS
  <2> QED BY <2>1, <2>2
<1>3. T = Nat
  <2> HIDE DEF T
  <2>1. T \in SUBSET Nat
    BY DEF T
  <2> QED BY <1>1, <1>2, <2>1, SetInduction
<1> QED BY <1>3

\* The first rows of column j, and a whole row.
Column(x, j, n) == [i \in 1 .. n |-> x[i][j]]
RowSum(x, i, m) == SumUpTo(x[i], m)

\* The sum over the columns is the sum over the rows.
LEMMA SumsExchange ==
  ASSUME NEW n \in Nat, NEW m \in Nat, NEW x,
         \A i \in 1 .. n : \A j \in 1 .. m : x[i][j] \in Nat
  PROVE  SumUpTo([j \in 1 .. m |-> SumUpTo(Column(x, j, n), n)], m)
           = SumUpTo([i \in 1 .. n |-> RowSum(x, i, m)], n)
<1> DEFINE cols(k) == [j \in 1 .. m |-> SumUpTo(Column(x, j, n), k)]
           rows == [i \in 1 .. n |-> RowSum(x, i, m)]
           T == {k \in Nat : k <= n => SumUpTo(cols(k), m) = SumUpTo(rows, k)}
<1>1. 0 \in T
  <2>1. \A j \in 1 .. m : cols(0)[j] = 0
    BY SumOfNone
  <2> HIDE DEF cols, rows
  <2>2. SumUpTo(cols(0), m) = 0
    BY <2>1, SumOfZeros
  <2> QED BY <2>2, SumOfNone
<1>2. ASSUME NEW k \in T PROVE k + 1 \in T
  <2> SUFFICES ASSUME k + 1 <= n PROVE SumUpTo(cols(k + 1), m) = SumUpTo(rows, k + 1)
    OBVIOUS
  <2>1. k \in Nat /\ k + 1 \in 1 .. n /\ SumUpTo(cols(k), m) = SumUpTo(rows, k)
    OBVIOUS
  <2>2. ASSUME NEW j \in 1 .. m
        PROVE  /\ cols(k + 1)[j] = cols(k)[j] + x[k + 1][j]
               /\ cols(k)[j] \in Nat /\ x[k + 1][j] \in Nat
    <3>1. SumUpTo(Column(x, j, n), k + 1) = SumUpTo(Column(x, j, n), k) + Column(x, j, n)[k + 1]
      BY <2>1, SumStep
    <3>2. Column(x, j, n)[k + 1] = x[k + 1][j] /\ x[k + 1][j] \in Nat
      BY <2>1 DEF Column
    <3>3. NatTerms(Column(x, j, n), k)
      BY <2>1 DEF NatTerms, Column
    <3>4. SumUpTo(Column(x, j, n), k) \in Nat
      BY <2>1, <3>3, SumType
    <3> QED BY <3>1, <3>2, <3>4
  <2>3. rows[k + 1] = SumUpTo(x[k + 1], m)
    BY <2>1 DEF RowSum
  <2>4. SumUpTo(rows, k + 1) = SumUpTo(rows, k) + rows[k + 1]
    <3> HIDE DEF rows
    <3> QED BY <2>1, SumStep
  <2> HIDE DEF cols, rows
  <2>5. NatTerms(cols(k), m) /\ NatTerms(x[k + 1], m) /\ NatTerms(cols(k + 1), m)
    BY <2>2 DEF NatTerms
  <2>6. SumUpTo(cols(k + 1), m) = SumUpTo(cols(k), m) + SumUpTo(x[k + 1], m)
    BY <2>2, <2>5, SumAdds
  <2> QED BY <2>1, <2>3, <2>4, <2>6
<1>3. T = Nat
  <2> HIDE DEF T
  <2>1. T \in SUBSET Nat
    BY DEF T
  <2> QED BY <1>1, <1>2, <2>1, SetInduction
<1>4. SumUpTo(cols(n), m) = SumUpTo(rows, n)
  <2> HIDE DEF cols, rows
  <2> QED BY <1>3
<1> QED BY <1>4

\* Every flow reaches one agent.
LEMMA FlowsArrive ==
  ASSUME NEW F, IsFiniteSet(F), NEW n \in Nat, \A f \in F : f[3] \in 0 .. n - 1,
         NEW t, \A j \in 1 .. n : t[j] = CountOf(F, 3, j - 1)
  PROVE  SumUpTo(t, n) = Cardinality(F)
<1> DEFINE below(k) == {f \in F : f[3] < k}
           T == {k \in Nat : k <= n => SumUpTo(t, k) = Cardinality(below(k))}
<1>1. 0 \in T
  <2>1. below(0) = {}
    <3>1. \A f \in F : f[3] \in Nat
      OBVIOUS
    <3>2. \A y \in Nat : ~ (y < 0)
      OBVIOUS
    <3> QED BY <3>1, <3>2
  <2> HIDE DEF below
  <2> QED BY <2>1, SumOfNone, FS_EmptySet
<1>2. ASSUME NEW k \in T PROVE k + 1 \in T
  <2> SUFFICES ASSUME k + 1 <= n PROVE SumUpTo(t, k + 1) = Cardinality(below(k + 1))
    <3> HIDE DEF below
    <3> QED OBVIOUS
  <2>1. SumUpTo(t, k + 1) = SumUpTo(t, k) + t[k + 1]
    BY SumStep
  <2> DEFINE A == {f \in F : f[3] = k}
             B == below(k)
  <2>2. t[k + 1] = Cardinality(A)
    <3>1. k + 1 \in 1 .. n /\ (k + 1) - 1 = k
      OBVIOUS
    <3> QED BY <3>1 DEF CountOf
  <2>3. SumUpTo(t, k) = Cardinality(B)
    OBVIOUS
  <2>4. B \cup A = below(k + 1) /\ B \cap A = {}
    <3>1. \A y, z \in Nat : (y < z + 1 <=> y < z \/ y = z) /\ ~ (y < z /\ y = z)
      OBVIOUS
    <3>2. \A f \in F : f[3] \in Nat
      OBVIOUS
    <3> QED BY <3>1, <3>2
  <2>5. IsFiniteSet(A) /\ IsFiniteSet(B)
    <3>1. A \in SUBSET F /\ B \in SUBSET F
      OBVIOUS
    <3> HIDE DEF A, B
    <3> QED BY <3>1, FS_Subset
  <2> HIDE DEF A, B, below
  <2>6. /\ Cardinality(B \cup A) = Cardinality(B) + Cardinality(A) - Cardinality(B \cap A)
        /\ Cardinality(B \cap A) = 0
    BY <2>4, <2>5, FS_Union, FS_EmptySet
  <2>7. Cardinality(A) \in Nat /\ Cardinality(B) \in Nat
    BY <2>5, FS_CardinalityType
  <2>8. Cardinality(B \cup A) = Cardinality(B) + Cardinality(A)
    BY <2>6, <2>7
  <2> QED BY <2>1, <2>2, <2>3, <2>4, <2>8
<1>3. T = Nat
  <2> HIDE DEF T
  <2>1. T \in SUBSET Nat
    BY DEF T
  <2> QED BY <1>1, <1>2, <2>1, SetInduction
<1>4. below(n) = F
  <2>1. \A f \in F : f[3] < n
    <3>1. \A y \in 0 .. n - 1 : y < n
      OBVIOUS
    <3> QED BY <3>1
  <2> QED BY <2>1
<1>5. SumUpTo(t, n) = Cardinality(below(n))
  <2> HIDE DEF below
  <2> QED BY <1>3
<1> HIDE DEF below
<1> QED BY <1>4, <1>5

----------------------------------------------------------------------------
(* Batches *)

\* Stripes that are repaired by agents.
AreColored(stripes) ==
  /\ Len(stripes) \in Nat /\ DOMAIN stripes = 1 .. Len(stripes)
  /\ \A i \in DOMAIN stripes :
       /\ IsColoring(stripes[i].coloring)
       /\ \A v \in NodesOf(group) : stripes[i].coloring[v] \in Agents \cup {-1}

FlowsOf(stripes, i) == Flows(group, stripes[i].coloring)
NodeCount(stripes, i, k) == CountOf(FlowsOf(stripes, i), k[1], k[2])
NodeCountsOf(stripes, k) == [i \in DOMAIN stripes |-> NodeCount(stripes, i, k)]
NodeSum(stripes, k) == SumUpTo(NodeCountsOf(stripes, k), Len(stripes))

Keys == {2, 3} \X Agents

\* The flows of a stripe are between agents.
LEMMA ColoredFlows ==
  ASSUME group \in Groups, NEW stripes, AreColored(stripes), NEW i \in DOMAIN stripes
  PROVE  /\ IsFiniteSet(FlowsOf(stripes, i)) /\ Cardinality(FlowsOf(stripes, i)) \in Nat
         /\ \A f \in FlowsOf(stripes, i) : f[2] \in Agents /\ f[3] \in Agents
         /\ EndsOf(stripes[i].coloring) \subseteq Agents
         /\ \A k : /\ NodeCount(stripes, i, k) \in Nat
                   /\ NodeCount(stripes, i, k) <= Cardinality(FlowsOf(stripes, i))
         /\ \A k \in Keys :
              k[2] \notin EndsOf(stripes[i].coloring) => NodeCount(stripes, i, k) = 0
<1> DEFINE col == stripes[i].coloring
           F == FlowsOf(stripes, i)
<1>1. /\ IsColoring(col) /\ DOMAIN col = NodesOf(group)
      /\ \A v \in NodesOf(group) : col[v] \in Agents \cup {-1}
  BY DEF AreColored, IsColoring
<1>2. F = Flows(group, col)
  BY DEF FlowsOf
<1>3. IsFiniteSet(F) /\ Cardinality(F) \in Nat
  BY <1>2, FlowsAreFinite
<1>4. EndsOf(col) \subseteq Agents
  BY <1>1 DEF EndsOf
<1>5. \A f \in F : f[2] \in EndsOf(col) /\ f[3] \in EndsOf(col)
  <2> TAKE f \in F
  <2> HIDE DEF col, F
  <2> QED BY <1>1, <1>2, FlowEnds
<1> HIDE DEF col, F
<1>6. ASSUME NEW k
      PROVE  NodeCount(stripes, i, k) \in Nat /\ NodeCount(stripes, i, k) <= Cardinality(F)
  BY <1>3, CountType DEF NodeCount, F
<1>7. ASSUME NEW k \in Keys, k[2] \notin EndsOf(col)
      PROVE  NodeCount(stripes, i, k) = 0
  <2>1. \A f \in F : f[k[1]] # k[2]
    <3>1. k[1] \in {2, 3}
      BY DEF Keys
    <3> QED BY <1>5, <1>7, <3>1
  <2>2. CountOf(F, k[1], k[2]) = 0
    BY <1>3, <2>1, NoCount
  <2> QED BY <2>2 DEF NodeCount, F
<1> QED BY <1>3, <1>4, <1>5, <1>6, <1>7 DEF col, F

LEMMA KeyIs == ASSUME NEW n \in 1 .. NumAgents PROVE <<3, n - 1>> \in Keys
<1>1. NumAgents \in Nat
  BY OfflineAssumption
<1>2. n - 1 \in 0 .. NumAgents - 1
  BY <1>1
<1> QED BY <1>2 DEF Keys, Agents

\* The load of a batch is the most that an agent sends or receives for all stripes.
LEMMA EvaluateBatchIs ==
  ASSUME group \in Groups, NEW stripes, AreColored(stripes)
  PROVE  /\ EvaluateBatch(stripes).stripes = stripes
         /\ EvaluateBatch(stripes).load = Max({NodeSum(stripes, k) : k \in Keys})
         /\ EvaluateBatch(stripes).bdwt =
              SumUpTo([n \in 1 .. NumAgents |-> NodeSum(stripes, <<3, n - 1>>)], NumAgents)
<1> DEFINE loads == [i \in DOMAIN stripes |-> Loads(stripes[i].coloring)]
           term(i, k) == IF k \in DOMAIN loads[i] THEN loads[i][k] ELSE 0
           sum(k) == SumUpTo([i \in DOMAIN stripes |-> term(i, k)], Len(stripes))
           load == Max({sum(k) : k \in {2, 3} \X (0 .. NumAgents - 1)})
           bdwt == SumUpTo([n \in 1 .. NumAgents |-> sum(<<3, n - 1>>)], NumAgents)
<1>1. /\ EvaluateBatch(stripes).stripes = stripes
      /\ EvaluateBatch(stripes).load = load /\ EvaluateBatch(stripes).bdwt = bdwt
  <2>1. EvaluateBatch(stripes) = [stripes |-> stripes, load |-> load, bdwt |-> bdwt]
    BY DEF EvaluateBatch
  <2> HIDE DEF load, bdwt
  <2> QED BY <2>1
<1>2. ASSUME NEW i \in DOMAIN stripes, NEW k \in Keys
      PROVE  term(i, k) = NodeCount(stripes, i, k)
  <2> DEFINE col == stripes[i].coloring
             all == {col[v] : v \in DOMAIN col}
  <2>1. loads[i] = [j \in {2, 3} \X all |-> CountOf(Flows(group, col), j[1], j[2])]
    BY LoadsAre
  <2>2. k[1] \in {2, 3} /\ k[2] \in Agents /\ k = <<k[1], k[2]>>
    BY DEF Keys
  <2>3. EndsOf(col) = all \ {-1}
    BY DEF EndsOf
  <2>4. k[2] # -1
    BY <2>2, OfflineAssumption DEF Agents
  <2> HIDE DEF all
  <2>5. CASE k[2] \in all
    <3>1. k \in {2, 3} \X all
      BY <2>2, <2>5
    <3>2. k \in DOMAIN loads[i] /\ loads[i][k] = CountOf(Flows(group, col), k[1], k[2])
      <4> HIDE DEF loads, col
      <4> QED BY <2>1, <3>1
    <3> QED BY <3>2 DEF NodeCount, FlowsOf
  <2>6. CASE k[2] \notin all
    <3>1. k \notin {2, 3} \X all
      BY <2>2, <2>6
    <3>2. k \notin DOMAIN loads[i]
      <4> HIDE DEF loads, col
      <4> QED BY <2>1, <3>1
    <3>3. NodeCount(stripes, i, k) = 0
      <4>1. k[2] \notin EndsOf(stripes[i].coloring)
        BY <2>3, <2>6
      <4> HIDE DEF loads, col
      <4> QED BY <4>1, ColoredFlows
    <3> HIDE DEF loads
    <3> QED BY <3>2, <3>3
  <2> QED BY <2>5, <2>6
<1>3. ASSUME NEW k \in Keys PROVE sum(k) = NodeSum(stripes, k)
  <2>1. [i \in DOMAIN stripes |-> term(i, k)] = NodeCountsOf(stripes, k)
    <3> HIDE DEF term, loads
    <3> QED BY <1>2 DEF NodeCountsOf
  <2> QED BY <2>1 DEF NodeSum
<1> HIDE DEF sum, term, loads
<1>4. {sum(k) : k \in {2, 3} \X (0 .. NumAgents - 1)} = {NodeSum(stripes, k) : k \in Keys}
  BY <1>3 DEF Keys, Agents
<1>5. [n \in 1 .. NumAgents |-> sum(<<3, n - 1>>)]
        = [n \in 1 .. NumAgents |-> NodeSum(stripes, <<3, n - 1>>)]
  BY <1>3, KeyIs
<1> QED BY <1>1, <1>4, <1>5

Total(stripes, x) ==
  SumUpTo([i \in DOMAIN stripes |-> Measured(stripes[i].coloring)[x]], Len(stripes))

\* What a node sends or receives for a stripe is no more than the load of the stripe,
\* which is that of some node.
LEMMA StripeLoadIs ==
  ASSUME group \in Groups, NEW stripes, AreColored(stripes), NEW i \in DOMAIN stripes
  PROVE  LET load == Measured(stripes[i].coloring)[1]
         IN  /\ load \in Nat
             /\ \A k \in Keys : NodeCount(stripes, i, k) <= load
             /\ \E k \in Keys : NodeCount(stripes, i, k) = load
             /\ Measured(stripes[i].coloring)[2] = Cardinality(FlowsOf(stripes, i))
<1> DEFINE col == stripes[i].coloring
           load == Measured(col)[1]
           N == NodeCounts(col)
<1>1. IsColoring(col)
  BY DEF AreColored
<1>2. /\ Measured(col) = <<Max(N), Cardinality(Flows(group, col))>>
      /\ N \subseteq Nat /\ N # {}
      /\ \A x \in N : x <= Cardinality(Flows(group, col))
  BY <1>1, MeasuredIs
<1>3. Cardinality(Flows(group, col)) \in Nat
  BY FlowsAreFinite
<1>4. load = Max(N) /\ Measured(col)[2] = Cardinality(Flows(group, col))
  BY <1>2
<1>5. Max(N) \in N /\ \A x \in N : x <= Max(N)
  <2> HIDE DEF N
  <2> QED BY <1>2, <1>3, MaxIs
<1>6. load \in Nat
  <2> HIDE DEF N, col
  <2> QED BY <1>2, <1>4, <1>5
<1>7. ASSUME NEW k \in {2, 3} \X EndsOf(col)
      PROVE  k \in Keys /\ NodeCount(stripes, i, k) \in N
  <2>1. EndsOf(col) \subseteq Agents
    BY ColoredFlows
  <2>2. CountOf(Flows(group, col), k[1], k[2]) \in N
    BY DEF NodeCounts
  <2> QED BY <2>1, <2>2 DEF Keys, NodeCount, FlowsOf
<1>8. ASSUME NEW k \in Keys PROVE NodeCount(stripes, i, k) <= load
  <2>1. CASE k[2] \in EndsOf(col)
    <3>1. k \in {2, 3} \X EndsOf(col)
      BY <2>1 DEF Keys
    <3> HIDE DEF N, col
    <3> QED BY <1>4, <1>5, <1>7, <3>1
  <2>2. CASE k[2] \notin EndsOf(col)
    <3>1. NodeCount(stripes, i, k) = 0
      BY <2>2, ColoredFlows
    <3> HIDE DEF N, col, load
    <3> QED BY <1>6, <3>1
  <2> QED BY <2>1, <2>2
<1>9. \E k \in Keys : NodeCount(stripes, i, k) = load
  <2>1. PICK k \in {2, 3} \X EndsOf(col) : Max(N) = CountOf(Flows(group, col), k[1], k[2])
    <3>1. Max(N) \in NodeCounts(col)
      BY <1>5
    <3> HIDE DEF N, col
    <3> QED BY <3>1 DEF NodeCounts
  <2>2. NodeCount(stripes, i, k) = Max(N)
    BY <2>1 DEF NodeCount, FlowsOf
  <2> HIDE DEF N, col
  <2> QED BY <1>4, <1>7, <2>2
<1> HIDE DEF N
<1> QED BY <1>4, <1>8, <1>9, <1>6 DEF FlowsOf

\* The bandwidth of a batch, and its load.
AddsUp(b) ==
  /\ b.bdwt = Total(b.stripes, 2)
  /\ b.load <= Total(b.stripes, 1)
  /\ \A i \in DOMAIN b.stripes : Measured(b.stripes[i].coloring)[1] <= b.load

\* What all agents receive is the bandwidth of the stripes, ...
LEMMA BandwidthIs ==
  ASSUME group \in Groups, NEW stripes, AreColored(stripes)
  PROVE  EvaluateBatch(stripes).bdwt = Total(stripes, 2)
<1> DEFINE n == Len(stripes)
           x == [i \in 1 .. n |-> [j \in 1 .. NumAgents |-> NodeCount(stripes, i, <<3, j - 1>>)]]
           cols == [j \in 1 .. NumAgents |-> SumUpTo(Column(x, j, n), n)]
           rows == [i \in 1 .. n |-> RowSum(x, i, NumAgents)]
<1>1. n \in Nat /\ DOMAIN stripes = 1 .. n /\ NumAgents \in Nat
  BY OfflineAssumption DEF AreColored
<1>2. \A i \in 1 .. n : \A j \in 1 .. NumAgents :
        x[i][j] = NodeCount(stripes, i, <<3, j - 1>>) /\ x[i][j] \in Nat
  BY <1>1, ColoredFlows
<1>3. ASSUME NEW j \in 1 .. NumAgents
      PROVE  NodeSum(stripes, <<3, j - 1>>) = SumUpTo(Column(x, j, n), n)
  <2>1. NodeCountsOf(stripes, <<3, j - 1>>) = Column(x, j, n)
    <3> HIDE DEF x, n
    <3> QED BY <1>1, <1>2 DEF NodeCountsOf, Column
  <2> HIDE DEF x
  <2> QED BY <2>1 DEF NodeSum
<1>4. ASSUME NEW i \in 1 .. n
      PROVE  RowSum(x, i, NumAgents) = Measured(stripes[i].coloring)[2]
  <2> DEFINE F == FlowsOf(stripes, i)
  <2>1. /\ IsFiniteSet(F) /\ \A f \in F : f[3] \in 0 .. NumAgents - 1
        /\ Measured(stripes[i].coloring)[2] = Cardinality(F)
    BY <1>1, ColoredFlows, StripeLoadIs DEF Agents
  <2>2. \A j \in 1 .. NumAgents : x[i][j] = CountOf(F, 3, j - 1)
    <3> HIDE DEF x, n
    <3> QED BY <1>2 DEF NodeCount
  <2> HIDE DEF F, x, n
  <2>3. SumUpTo(x[i], NumAgents) = Cardinality(F)
    BY <1>1, <2>1, <2>2, FlowsArrive
  <2> QED BY <2>1, <2>3 DEF RowSum
<1>5. EvaluateBatch(stripes).bdwt = SumUpTo(cols, NumAgents)
  <2>1. EvaluateBatch(stripes).bdwt =
          SumUpTo([j \in 1 .. NumAgents |-> NodeSum(stripes, <<3, j - 1>>)], NumAgents)
    BY EvaluateBatchIs
  <2>2. [j \in 1 .. NumAgents |-> NodeSum(stripes, <<3, j - 1>>)] = cols
    <3> HIDE DEF x, n
    <3> QED BY <1>3
  <2> HIDE DEF cols
  <2> QED BY <2>1, <2>2
<1>6. Total(stripes, 2) = SumUpTo(rows, n)
  <2>1. [i \in DOMAIN stripes |-> Measured(stripes[i].coloring)[2]] = rows
    <3> HIDE DEF x, n
    <3> QED BY <1>1, <1>4
  <2> HIDE DEF rows
  <2> QED BY <2>1 DEF Total
<1>7. SumUpTo(cols, NumAgents) = SumUpTo(rows, n)
  <2> HIDE DEF x, n
  <2> QED BY <1>1, <1>2, SumsExchange
<1> HIDE DEF cols, rows
<1> QED BY <1>5, <1>6, <1>7

\* ... and the load is between that of one stripe and that of all.
LEMMA LoadIs ==
  ASSUME group \in Groups, NEW stripes, AreColored(stripes)
  PROVE  /\ EvaluateBatch(stripes).load <= Total(stripes, 1)
         /\ \A i \in DOMAIN stripes :
              Measured(stripes[i].coloring)[1] <= EvaluateBatch(stripes).load
<1> DEFINE n == Len(stripes)
           loads == [i \in DOMAIN stripes |-> Measured(stripes[i].coloring)[1]]
           sums == {NodeSum(stripes, k) : k \in Keys}
<1>1. n \in Nat /\ DOMAIN stripes = 1 .. n
  BY DEF AreColored
<1>2. EvaluateBatch(stripes).load = Max(sums)
  BY EvaluateBatchIs
<1>3. ASSUME NEW i \in 1 .. n
      PROVE  /\ loads[i] \in Nat
             /\ \A k \in Keys : NodeCount(stripes, i, k) <= loads[i]
             /\ \E k \in Keys : NodeCount(stripes, i, k) = loads[i]
  BY <1>1, StripeLoadIs
<1>4. NatTerms(loads, n) /\ Total(stripes, 1) = SumUpTo(loads, n)
  <2>1. NatTerms(loads, n)
    <3> HIDE DEF loads
    <3> QED BY <1>3 DEF NatTerms
  <2> QED BY <2>1 DEF Total
<1> HIDE DEF loads
<1>5. SumUpTo(loads, n) \in Nat
  <2> HIDE DEF n
  <2> QED BY <1>1, <1>4, SumType
<1>6. ASSUME NEW k \in Keys
      PROVE  /\ NatTerms(NodeCountsOf(stripes, k), n)
             /\ NodeSum(stripes, k) \in Nat /\ NodeSum(stripes, k) <= SumUpTo(loads, n)
  <2> HIDE DEF n
  <2>1. \A i \in 1 .. n : NodeCountsOf(stripes, k)[i] = NodeCount(stripes, i, k)
    BY <1>1 DEF NodeCountsOf
  <2>2. NatTerms(NodeCountsOf(stripes, k), n)
    BY <1>1, <2>1, ColoredFlows DEF NatTerms
  <2>3. NodeSum(stripes, k) = SumUpTo(NodeCountsOf(stripes, k), n)
    BY DEF NodeSum, n
  <2>4. SumUpTo(NodeCountsOf(stripes, k), n) \in Nat
    BY <1>1, <2>2, SumType
  <2>5. SumUpTo(NodeCountsOf(stripes, k), n) <= SumUpTo(loads, n)
    <3>1. \A i \in 1 .. n : NodeCountsOf(stripes, k)[i] <= loads[i]
      BY <1>3, <2>1
    <3> QED BY <1>1, <1>4, <2>2, <3>1, SumIsMore
  <2> QED BY <2>2, <2>3, <2>4, <2>5
<1>7. sums \subseteq Nat /\ \A y \in sums : y <= SumUpTo(loads, n)
  BY <1>6
<1>8. ASSUME NEW i \in 1 .. n
      PROVE  \E y \in sums : loads[i] <= y
  <2>1. PICK k \in Keys : NodeCount(stripes, i, k) = loads[i]
    BY <1>3
  <2>2. NodeCountsOf(stripes, k)[i] = loads[i]
    BY <1>1, <2>1 DEF NodeCountsOf
  <2>3. NodeCountsOf(stripes, k)[i] <= SumUpTo(NodeCountsOf(stripes, k), n)
    <3> HIDE DEF n
    <3> QED BY <1>1, <1>6, SumHas
  <2> QED BY <2>2, <2>3 DEF NodeSum
<1>9. CASE sums # {}
  <2>1. Max(sums) \in sums /\ \A y \in sums : y <= Max(sums)
    <3> HIDE DEF sums
    <3> QED BY <1>5, <1>7, <1>9, MaxIs
  <2>2. Max(sums) <= SumUpTo(loads, n)
    <3> HIDE DEF sums
    <3> QED BY <1>7, <2>1
  <2>3. ASSUME NEW i \in 1 .. n PROVE loads[i] <= Max(sums)
    <3>1. PICK y \in sums : loads[i] <= y
      BY <1>8
    <3>2. loads[i] \in Nat /\ y \in Nat /\ Max(sums) \in Nat /\ y <= Max(sums)
      <4> HIDE DEF sums
      <4> QED BY <1>3, <1>7, <2>1
    <3> HIDE DEF sums
    <3> QED BY <3>1, <3>2
  <2>4. \A i \in 1 .. n : loads[i] = Measured(stripes[i].coloring)[1]
    BY <1>1 DEF loads
  <2> HIDE DEF sums
  <2> QED BY <1>1, <1>2, <1>4, <2>2, <2>3, <2>4
<1>10. sums # {}
  <2>1. NumAgents \in Nat \ {0}
    <3>1. EcnOf[group] \in Nat \ {0} /\ EcnOf[group] <= NumAgents /\ NumAgents \in Nat
      BY DagsAssumption, StripesAssumption, OfflineAssumption
    <3> QED BY <3>1
  <2>2. <<3, 1 - 1>> \in Keys
    BY <2>1, KeyIs
  <2> QED BY <2>2
<1> QED BY <1>9, <1>10

LEMMA BatchAddsUp ==
  ASSUME group \in Groups, NEW stripes, AreColored(stripes)
  PROVE  AddsUp(EvaluateBatch(stripes))
<1>1. EvaluateBatch(stripes).stripes = stripes
  BY EvaluateBatchIs
<1> QED BY <1>1, BandwidthIs, LoadIs DEF AddsUp

----------------------------------------------------------------------------
(* The program that colors stripes *)

HitStripes == {p \in ToSet(StripesOn[group]) : FailBlocks(p) # {}}
ColoredStripes ==
  UNION {{[placement |-> p, coloring |-> c] : c \in OfflineColorings(p)} : p \in HitStripes}
MadeBatches == {EvaluateBatch(stripes) : stripes \in Seq(ColoredStripes)}

\* Before the file is read there is nothing.  Afterwards the file has the text of the answer,
\* which does not change any more, and whatever is in a batch got a coloring from it.
ONothing == points = <<>> /\ waiting = <<>> /\ current = <<>> /\ batches = <<>>
ORead ==
  /\ pc = "done" /\ group \in Groups
  /\ \E a : answer = {a} /\ HasPoint(a)
  /\ waiting \in Seq(HitStripes) /\ current \in Seq(ColoredStripes)
  /\ batches \in Seq(MadeBatches)

OInv == ONothing \/ ORead

LEMMA ColoredIs ==
  ASSUME NEW stripe
  PROVE  stripe \in ColoredStripes =>
           IsHit(stripe.placement) /\ stripe.coloring \in OfflineColorings(stripe.placement)
<1> SUFFICES ASSUME stripe \in ColoredStripes
             PROVE  /\ IsHit(stripe.placement)
                    /\ stripe.coloring \in OfflineColorings(stripe.placement)
  OBVIOUS
<1>1. PICK p \in HitStripes : \E c \in OfflineColorings(p) :
        stripe = [placement |-> p, coloring |-> c]
  BY DEF ColoredStripes
<1>2. PICK c \in OfflineColorings(p) : stripe = [placement |-> p, coloring |-> c]
  BY <1>1
<1>3. stripe.placement = p /\ stripe.coloring = c
  BY <1>2
<1> QED BY <1>3 DEF HitStripes, IsHit

\* Every stripe has got its coloring from repair nodes and a solution.
LEMMA StripeHasColoring ==
  ASSUME group \in Groups, NEW a, HasPoint(a), NEW stripe \in ColoredStripes
  PROVE  \E r : \E s :
           /\ HasColoring(stripe, r, s)
           /\ Cardinality(FailNodes) = 1 => s = a.sol
<1> DEFINE p == stripe.placement
<1>1. IsHit(p) /\ stripe.coloring \in OfflineColorings(p)
  BY ColoredIs
<1>2. PICK r \in RepairNodes(p) : \E s \in OfflineSolutions(p) :
        IsPlaced(p, r, s, stripe.coloring)
  BY <1>1, PlacedIs
<1>3. PICK s \in OfflineSolutions(p) : IsPlaced(p, r, s, stripe.coloring)
  BY <1>2
<1>4. /\ s \in Solutions(group)
      /\ Cardinality(FailNodes) = 1 => s = a.sol
  BY <1>1, SolutionsAre
<1>5. HasColoring(stripe, r, s)
  BY <1>1, <1>3, <1>4 DEF HasColoring
<1> QED BY <1>4, <1>5

\* Stripes that have got colorings are repaired by agents.
LEMMA AllColored ==
  ASSUME group \in Groups, NEW a, HasPoint(a), NEW stripes \in Seq(ColoredStripes)
  PROVE  AreColored(stripes)
<1>1. DOMAIN stripes = 1 .. Len(stripes) /\ Len(stripes) \in Nat
  OBVIOUS
<1>2. ASSUME NEW i \in DOMAIN stripes
      PROVE  /\ IsColoring(stripes[i].coloring)
             /\ \A v \in NodesOf(group) : stripes[i].coloring[v] \in Agents \cup {-1}
  <2>1. stripes[i] \in ColoredStripes
    BY <1>1
  <2>2. PICK r : \E s : HasColoring(stripes[i], r, s)
    BY <2>1, StripeHasColoring
  <2>3. PICK s : HasColoring(stripes[i], r, s)
    BY <2>2
  <2> QED BY <2>3, PlacedType
<1> QED BY <1>1, <1>2 DEF AreColored

\* Every batch adds up.
LEMMA BatchIs ==
  ASSUME group \in Groups, NEW a, HasPoint(a), NEW b \in MadeBatches
  PROVE  b.stripes \in Seq(ColoredStripes) /\ AddsUp(b)
<1>1. PICK stripes \in Seq(ColoredStripes) : b = EvaluateBatch(stripes)
  BY DEF MadeBatches
<1>2. AreColored(stripes)
  BY AllColored
<1>3. EvaluateBatch(stripes).stripes = stripes
  BY <1>2, EvaluateBatchIs
<1> QED BY <1>1, <1>2, <1>3, BatchAddsUp

\* What stripes get follows from the invariant.
LEMMA UsedImplied ==
  ASSUME OInv PROVE PlacedAsFound /\ BatchesAddUp
<1>1. CASE ONothing
  <2>1. ToSet(batches) = {}
    BY <1>1 DEF ONothing, ToSet
  <2> QED BY <2>1 DEF PlacedAsFound, BatchesAddUp
<1>2. CASE ORead
  <2>1. group \in Groups /\ batches \in Seq(MadeBatches)
    BY <1>2 DEF ORead
  <2>2. PICK a : answer = {a} /\ HasPoint(a)
    BY <1>2 DEF ORead
  <2>3. \A b \in ToSet(batches) : b \in MadeBatches
    BY <2>1 DEF ToSet
  <2>4. ASSUME NEW b \in ToSet(batches) PROVE b.stripes \in Seq(ColoredStripes) /\ AddsUp(b)
    BY <2>1, <2>2, <2>3, BatchIs
  <2>5. PlacedAsFound
    <3> SUFFICES ASSUME NEW b \in ToSet(batches), NEW stripe \in ToSet(b.stripes),
                        Cardinality(FailNodes) = 1, KeepsApart(stripe, a.sol)
                 PROVE  Measured(stripe.coloring) = <<a.load, a.bdwt>>
      BY <2>2 DEF PlacedAsFound
    <3>1. stripe \in ColoredStripes
      BY <2>4 DEF ToSet
    <3>2. PICK r : \E s : HasColoring(stripe, r, s) /\ s = a.sol
      BY <2>1, <2>2, <3>1, StripeHasColoring
    <3>3. HasColoring(stripe, r, a.sol)
      BY <3>2
    <3>4. Measured(stripe.coloring) = <<Point(group, a.sol).load, Point(group, a.sol).bdwt>>
      BY <3>3, StripeIsRenamed
    <3>5. a = Point(group, a.sol)
      BY <2>1, <2>2, PointsAre DEF HasPoint
    <3> QED BY <3>4, <3>5
  <2>6. BatchesAddUp
    <3> SUFFICES ASSUME NEW b \in ToSet(batches) PROVE AddsUp(b)
      BY DEF BatchesAddUp, AddsUp, Total
    <3> QED BY <2>4
  <2> QED BY <2>5, <2>6
<1> QED BY <1>1, <1>2 DEF OInv

\* The stripes that were hit are stripes that were hit.
LEMMA FilteredIs ==
  ASSUME group \in Groups PROVE Filtered \in Seq(HitStripes)
<1> DEFINE L == StripesOn[group]
           S == {i \in DOMAIN L : FailBlocks(L[i]) # {}}
           order == Ascending(S)
<1>1. Len(L) \in Nat /\ DOMAIN L = 1 .. Len(L)
  BY StripesAssumption
<1>2. S \in SUBSET Int /\ IsFiniteSet(S)
  <2>1. IsFiniteSet(1 .. Len(L))
    BY <1>1, FS_Interval
  <2>2. S \in SUBSET (1 .. Len(L))
    BY <1>1
  <2>3. IsFiniteSet(S)
    <3> HIDE DEF S
    <3> QED BY <2>1, <2>2, FS_Subset
  <2> QED BY <1>1, <2>3
<1>3. /\ order \in Seq(Int) /\ Len(order) = Cardinality(S)
      /\ \A i \in 1 .. Cardinality(S) : order[i] \in S
  <2> HIDE DEF S
  <2> QED BY <1>2, AscendingIs
<1>4. Filtered = [j \in DOMAIN order |-> L[order[j]]]
  BY DEF Filtered
<1> HIDE DEF order
<1>5. DOMAIN order = 1 .. Len(order) /\ Len(order) \in Nat
  BY <1>3
<1>6. ASSUME NEW j \in DOMAIN order PROVE L[order[j]] \in HitStripes
  <2>1. order[j] \in S
    BY <1>3, <1>5
  <2> QED BY <1>1, <2>1 DEF HitStripes, ToSet
<1>7. [j \in 1 .. Len(order) |-> L[order[j]]] \in Seq(HitStripes)
  <2> HIDE DEF L
  <2> QED BY <1>5, <1>6
<1> QED BY <1>4, <1>5, <1>7

\* What stripes get depends on the file and the scenario only.
LEMMA SameColorings ==
  ASSUME UNCHANGED <<group, points, scenario>>
  PROVE  /\ HitStripes' = HitStripes /\ ColoredStripes' = ColoredStripes
         /\ MadeBatches' = MadeBatches
         /\ \A a : HasPoint(a)' <=> HasPoint(a)
<1>1. FailNodes' = FailNodes /\ \A p : FailBlocks(p)' = FailBlocks(p)
  BY DEF FailNodes, FailBlocks
<1>2. \A p : Avoided(p)' = Avoided(p)
  BY <1>1 DEF Avoided
<1>3. \A p : RepairNodes(p)' = RepairNodes(p)
  BY <1>1, <1>2 DEF RepairNodes
<1>4. \A c, p, n : NodeOfColor(c, p, n)' = NodeOfColor(c, p, n)
  BY <1>1 DEF NodeOfColor
<1>5. \A p : OfflineSolutions(p)' = OfflineSolutions(p)
  BY <1>1 DEF OfflineSolutions
<1>6. \A p : OfflineColorings(p)' = OfflineColorings(p)
  <2> TAKE p
  <2> DEFINE Made(x) ==
               [v \in DagOf[group].nodes |->
                  IF v \in Leaves[group]
                  THEN IF v \div EcwOf[group] < EcnOf[group]
                       THEN p[v \div EcwOf[group]] ELSE -1
                  ELSE IF v \in DagOf[group].headers
                  THEN x[1][CHOOSE i \in DOMAIN Headers[group] : Headers[group][i] = v]
                  ELSE NodeOfColor(x[2][CHOOSE i \in DOMAIN Itm[group] : Itm[group][i] = v],
                                   p, x[1][1])]
  <2>1. group' = group
    OBVIOUS
  <2>2. \A x : Made(x)' = Made(x)
    BY <2>1, <1>4
  <2>3. OfflineColorings(p) = {Made(x) : x \in RepairNodes(p) \X OfflineSolutions(p)}
    BY DEF OfflineColorings
  <2>4. OfflineColorings(p)'
          = {Made(x)' : x \in RepairNodes(p)' \X OfflineSolutions(p)'}
    BY DEF OfflineColorings
  <2>5. RepairNodes(p)' = RepairNodes(p) /\ OfflineSolutions(p)' = OfflineSolutions(p)
    BY <1>3, <1>5
  <2> HIDE DEF Made
  <2> QED BY <2>2, <2>3, <2>4, <2>5
<1>7. HitStripes' = HitStripes
  BY <1>1 DEF HitStripes
<1>8. ColoredStripes' = ColoredStripes
  BY <1>6, <1>7 DEF ColoredStripes
<1>9. \A stripes : EvaluateBatch(stripes)' = EvaluateBatch(stripes)
  BY DEF EvaluateBatch, Loads
<1>10. MadeBatches' = MadeBatches
  BY <1>8, <1>9 DEF MadeBatches
<1>11. \A a : HasPoint(a)' <=> HasPoint(a)
  BY DEF HasPoint, Failed
<1> QED BY <1>7, <1>8, <1>10, <1>11

\* The invariant holds when the file was read, ...
LEMMA ReadPointsInv == ASSUME IInv, OInv, ReadPoints PROVE OInv'
<1>1. /\ pc = "done" /\ answer # {} /\ points = <<>>
      /\ \E a \in answer : points' = [idx \in {IndexOf(Failed)} |->
                                        GetString(a.sol, EcnOf[group])]
      /\ waiting' = Filtered
      /\ UNCHANGED <<vars, current, batches>>
  BY DEF ReadPoints, Failed
<1>2. group \in Groups /\ \E a \in PointsOf(group) : answer = {a}
  BY <1>1 DEF IInv, ITypes
<1>3. PICK a \in PointsOf(group) : answer = {a}
  BY <1>2
<1>4. points' = [idx \in {IndexOf(Failed)} |-> GetString(a.sol, EcnOf[group])]
  BY <1>1, <1>3
<1>5. current = <<>> /\ batches = <<>>
  <2>1. ASSUME NEW b, HasPoint(b) PROVE FALSE
    <3>1. DOMAIN points = {IndexOf(Failed)}
      BY <2>1 DEF HasPoint
    <3>2. DOMAIN points = {}
      BY <1>1
    <3> QED BY <3>1, <3>2
  <2> QED BY <2>1 DEF OInv, ONothing, ORead
<1>6. UNCHANGED <<group, pc, answer>>
  BY <1>1 DEF vars
<1>7. HasPoint(a)'
  BY <1>3, <1>4, <1>6 DEF HasPoint, Failed
<1>8. Filtered \in Seq(HitStripes)
  BY <1>2, FilteredIs
<1>9. HitStripes' = HitStripes
  BY <1>6 DEF HitStripes, FailBlocks, FailNodes
<1>10. current' \in Seq(ColoredStripes') /\ batches' \in Seq(MadeBatches')
  BY <1>1, <1>5
<1>11. ORead'
  BY <1>1, <1>2, <1>3, <1>6, <1>7, <1>8, <1>9, <1>10 DEF ORead
<1> QED BY <1>11 DEF OInv

\* ... and when a stripe was colored.
LEMMA ColorStripeInv == ASSUME OInv, ColorStripe PROVE OInv'
<1>1. waiting # <<>> /\ waiting' = Tail(waiting) /\ UNCHANGED <<vars, points, scenario>>
  BY DEF ColorStripe
<1>2. ORead
  BY <1>1 DEF OInv, ONothing
<1>3. UNCHANGED <<group, pc, answer, points, scenario>>
  BY <1>1 DEF vars
<1>4. PICK coloring \in OfflineColorings(Head(waiting)) :
        LET batch == Append(current, [placement |-> Head(waiting), coloring |-> coloring])
            full == Len(batch) = BatchSize \/ Len(waiting) = 1
        IN  /\ current' = IF full THEN <<>> ELSE batch
            /\ batches' = IF full THEN Append(batches, EvaluateBatch(batch)) ELSE batches
  BY DEF ColorStripe
<1> DEFINE new == [placement |-> Head(waiting), coloring |-> coloring]
           batch == Append(current, new)
<1>5. /\ waiting \in Seq(HitStripes) /\ current \in Seq(ColoredStripes)
      /\ batches \in Seq(MadeBatches)
  BY <1>2 DEF ORead
<1>6. Head(waiting) \in HitStripes /\ Tail(waiting) \in Seq(HitStripes)
  BY <1>1, <1>5
<1>7. new \in ColoredStripes
  BY <1>6 DEF ColoredStripes
<1>8. batch \in Seq(ColoredStripes)
  <2> HIDE DEF new
  <2> QED BY <1>5, <1>7
<1>9. /\ current' = <<>> \/ current' = batch
      /\ batches' = batches \/ batches' = Append(batches, EvaluateBatch(batch))
  <2> HIDE DEF batch
  <2> QED BY <1>4 DEF batch
<1> HIDE DEF batch
<1>10. EvaluateBatch(batch) \in MadeBatches
  BY <1>8 DEF MadeBatches
<1>11. current' \in Seq(ColoredStripes)
  <2>1. CASE current' = <<>>
    <3>1. <<>> \in Seq(ColoredStripes)
      OBVIOUS
    <3> QED BY <2>1, <3>1
  <2>2. CASE current' = batch
    BY <1>8, <2>2
  <2> QED BY <1>9, <2>1, <2>2
<1>12. batches' \in Seq(MadeBatches)
  <2> DEFINE b == EvaluateBatch(batch)
  <2>1. b \in MadeBatches /\ (batches' = batches \/ batches' = Append(batches, b))
    BY <1>9, <1>10
  <2> HIDE DEF b
  <2>2. Append(batches, b) \in Seq(MadeBatches)
    BY <1>5, <2>1
  <2> QED BY <1>5, <2>1, <2>2
<1>13. /\ HitStripes' = HitStripes /\ ColoredStripes' = ColoredStripes
       /\ MadeBatches' = MadeBatches
       /\ \A a : HasPoint(a)' <=> HasPoint(a)
  BY <1>3, SameColorings
<1>14. PICK a : answer = {a} /\ HasPoint(a)
  BY <1>2 DEF ORead
<1>15. pc' = "done" /\ group' \in Groups /\ answer' = {a} /\ HasPoint(a)'
  <2>1. HasPoint(a)'
    BY <1>13, <1>14
  <2> QED BY <1>2, <1>3, <1>14, <2>1 DEF ORead
<1>16. ORead'
  BY <1>1, <1>6, <1>11, <1>12, <1>13, <1>15 DEF ORead
<1> QED BY <1>16 DEF OInv

\* The search ends before the file is read.
LEMMA SearchKeeps == ASSUME OInv, Search PROVE OInv'
<1>1. Next /\ UNCHANGED <<points, scenario, waiting, current, batches>>
  BY DEF Search, offVars
<1>2. pc # "done"
  BY <1>1 DEF Next, Expand, ExpandNext, PruneNext, EndExpand, EndSearch, Select, Restart
<1>3. ONothing
  BY <1>2 DEF OInv, ORead
<1> QED BY <1>1, <1>3 DEF OInv, ONothing

OfflineInv == IInv /\ AnswerIsLightest /\ OInv

\* The search sees its own steps, or none.
LEMMA OfflineStep == ASSUME OfflineNext \/ UNCHANGED allVars PROVE [Next]_vars
BY DEF OfflineNext, Search, ReadPoints, ColorStripe, allVars

LEMMA OfflineInvNext == ASSUME OfflineInv, [OfflineNext]_allVars PROVE OfflineInv'
<1>1. [Next]_vars
  BY OfflineStep
<1>2. IInv' /\ AnswerIsLightest'
  BY <1>1, NextInv, LightestNext DEF OfflineInv
<1>3. CASE Search
  BY <1>2, <1>3, SearchKeeps DEF OfflineInv
<1>4. CASE ReadPoints
  BY <1>2, <1>4, ReadPointsInv DEF OfflineInv
<1>5. CASE ColorStripe
  BY <1>2, <1>5, ColorStripeInv DEF OfflineInv
<1>6. CASE UNCHANGED allVars
  <2>1. UNCHANGED <<group, points, scenario, pc, answer, waiting, current, batches>>
    BY <1>6 DEF allVars, vars, offVars
  <2>2. /\ HitStripes' = HitStripes /\ ColoredStripes' = ColoredStripes
        /\ MadeBatches' = MadeBatches
        /\ \A a : HasPoint(a)' <=> HasPoint(a)
    BY <2>1, SameColorings
  <2>3. OInv'
    BY <2>1, <2>2 DEF OfflineInv, OInv, ONothing, ORead
  <2> QED BY <1>2, <2>3 DEF OfflineInv
<1> QED BY <1>3, <1>4, <1>5, <1>6 DEF OfflineNext

LEMMA OfflineInvInit == ASSUME OfflineInit PROVE OfflineInv
<1>1. Init
  BY DEF OfflineInit
<1>2. OInv
  BY DEF OfflineInit, OInv, ONothing
<1> QED BY <1>1, <1>2, InitInv, LightestInit DEF OfflineInv

\* What stripes with one lost block get is what was found.  The answer, the lightest point
\* of the curve that getSuitableSolution accepts, is not lost in the text that is put into
\* the file, nor when readOfflineTradeoffPoints looks it up; each stripe that
\* genOfflineColoringForSingleFailure colors with it is repaired with the load and bandwidth
\* of that point, wherever its blocks are, unless a block that is not read and whose color
\* is in use is on the repair node.  evaluateBatch adds the stripes of a batch up right,
\* those of genOfflineColoringForMultipleFailure too; that these get the load that was
\* found is not stated, as their colors and nodes need not have the same numbers.
THEOREM AnswerIsUsedTheorem == OfflineSpec => []AnswerIsUsed
<1>1. OfflineInv => AnswerIsUsed
  BY UsedImplied DEF OfflineInv, AnswerIsUsed
<1> QED BY <1>1, OfflineInvInit, OfflineInvNext, PTL DEF OfflineSpec

\* The program that colors stripes leaves the search alone: what was proved of genMLP and
\* NewgenMLP holds when OfflineSolution reads what they found.
THEOREM OfflineSearches ==
  OfflineSpec => [](CurveIsRight /\ NothingIsMissed) /\ CurveOnlyImproves
<1>1. OfflineInv => CurveIsRight /\ NothingIsMissed
  BY InvImplies DEF OfflineInv
<1>2. OfflineInv /\ OfflineInv' /\ [OfflineNext]_allVars => CurveStep
  BY OfflineStep, StepKeepsCurve DEF OfflineInv
<1> QED BY <1>1, <1>2, OfflineInvInit, OfflineInvNext, PTL DEF OfflineSpec, CurveOnlyImproves, CurveStep
=============================================================================
