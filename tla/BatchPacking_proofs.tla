------------------------ MODULE BatchPacking_proofs ------------------------
(***************************************************************************)
(* Proofs about BatchPacking, for any stripes, batch size, cluster and     *)
(* colorings: packing has room for every stripe and leaves no batch empty, *)
(* no swap loses or doubles a stripe, the tables that are compared are     *)
(* those of the batches, what annealing keeps is never worse than what     *)
(* packing made, and the batches handed over are a plan of BatchPlan.      *)
(***************************************************************************)
EXTENDS BatchPacking, FiniteSetTheorems, WellFoundedInduction, TLAPS

----------------------------------------------------------------------------
(* Induction over sets of naturals, and sums *)

\* A set of naturals that has 0, and k + 1 whenever it has k, has them all.
LEMMA SetInduction ==
  ASSUME NEW T \in SUBSET Nat, 0 \in T, \A k \in T : k + 1 \in T
  PROVE  T = Nat
<1> SUFFICES ASSUME T # Nat PROVE FALSE
  OBVIOUS
<1> DEFINE D == Nat \ T
           R == OpToRel(<, Nat)
<1>1. IsWellFoundedOn(R, Nat)
  BY NatLessThanWellFounded
<1>2. D \subseteq Nat /\ D # {}
  OBVIOUS
<1>3. PICK x \in D : \A y \in D : ~ (<<y, x>> \in R)
  <2> HIDE DEF D, R
  <2> QED BY <1>1, <1>2, WFMin
<1>4. <<x - 1, x>> \in R
  BY DEF OpToRel
<1>5. x - 1 \in T
  <2>1. x \in Nat /\ x # 0
    OBVIOUS
  <2>2. x - 1 \in Nat
    BY <2>1
  <2> HIDE DEF R
  <2>3. x - 1 \notin D
    BY <1>3, <1>4
  <2> QED BY <2>2, <2>3
<1> QED BY <1>5

\* A set of naturals that is not empty has a least element.
LEMMA LeastElement ==
  ASSUME NEW D, D \subseteq Nat, D # {}
  PROVE  \E x \in D : \A y \in D : x <= y
<1> DEFINE R == OpToRel(<, Nat)
<1>1. IsWellFoundedOn(R, Nat)
  BY NatLessThanWellFounded
<1>2. PICK x \in D : \A y \in D : ~ (<<y, x>> \in R)
  <2> HIDE DEF R
  <2> QED BY <1>1, WFMin
<1>3. ASSUME NEW y \in D PROVE x <= y
  <2>1. x \in Nat /\ y \in Nat
    OBVIOUS
  <2>2. y < x => <<y, x>> \in R
    BY <2>1 DEF OpToRel
  <2> HIDE DEF R
  <2> QED BY <1>2, <2>1, <2>2
<1> QED BY <1>3

\* Natural numbers that are bounded have a greatest.
LEMMA GreatestElement ==
  ASSUME NEW S, S \subseteq Nat, NEW x \in S, NEW bound \in Nat,
         \A y \in S : y <= bound
  PROVE  \E g \in S : \A y \in S : g >= y
<1> DEFINE D == {d \in Nat : \E y \in S : y = bound - d}
<1>1. bound - x \in D
  OBVIOUS
<1>2. PICK d \in D : \A c \in D : d <= c
  <2>1. D \subseteq Nat /\ D # {}
    BY <1>1
  <2> HIDE DEF D
  <2> QED BY <2>1, LeastElement
<1>3. PICK g \in S : g = bound - d
  OBVIOUS
<1>4. ASSUME NEW y \in S PROVE g >= y
  <2>1. bound - y \in D
    OBVIOUS
  <2>2. d <= bound - y
    BY <2>1, <1>2
  <2>3. d \in Nat /\ y \in Nat /\ g \in Nat
    OBVIOUS
  <2> HIDE DEF D
  <2> QED BY <2>2, <2>3, <1>3
<1> QED BY <1>4

\* before is the sum of the first weights, up to each of them.
IsSum(before, weight, k) ==
  before = [i \in 0 .. k |-> IF i = 0 THEN 0 ELSE before[i - 1] + weight[i]]

\* The sums exist for every sequence of weights.
LEMMA SumExists ==
  ASSUME NEW weight, NEW k \in Nat
  PROVE  \E before : IsSum(before, weight, k)
<1> DEFINE T == {m \in Nat : \E before : IsSum(before, weight, m)}
<1>1. 0 \in T
  <2>1. IsSum([i \in 0 .. 0 |-> 0], weight, 0)
    BY DEF IsSum
  <2> QED BY <2>1
<1>2. ASSUME NEW m \in T PROVE m + 1 \in T
  <2>1. PICK before : IsSum(before, weight, m)
    OBVIOUS
  <2> DEFINE longer == [i \in 0 .. m + 1 |->
                          IF i = m + 1 THEN before[m] + weight[m + 1] ELSE before[i]]
  <2>2. IsSum(longer, weight, m + 1)
    BY <2>1 DEF IsSum
  <2> QED BY <2>2
<1>3. T = Nat
  <2> HIDE DEF T
  <2>1. T \in SUBSET Nat
    BY DEF T
  <2> QED BY <1>1, <1>2, <2>1, SetInduction
<1> QED BY <1>3

\* Sums of natural numbers are natural numbers and grow.
LEMMA SumGrows ==
  ASSUME NEW k \in Nat, NEW weight, \A i \in 1 .. k : weight[i] \in Nat,
         NEW f, IsSum(f, weight, k)
  PROVE  /\ \A i \in 0 .. k : f[i] \in Nat
         /\ \A i, j \in 0 .. k : i <= j => f[i] <= f[j]
<1>1. \A i \in 0 .. k : f[i] \in Nat
  <2> DEFINE T == {i \in Nat : i <= k => f[i] \in Nat}
  <2>1. 0 \in T
    BY DEF IsSum
  <2>2. ASSUME NEW i \in T PROVE i + 1 \in T
    <3> SUFFICES ASSUME i + 1 <= k PROVE f[i + 1] \in Nat
      OBVIOUS
    <3>1. f[i + 1] = f[i] + weight[i + 1]
      BY DEF IsSum
    <3> QED BY <3>1
  <2>3. T = Nat
    <3> HIDE DEF T
    <3>1. T \in SUBSET Nat
      BY DEF T
    <3> QED BY <2>1, <2>2, <3>1, SetInduction
  <2> QED BY <2>3
<1>2. ASSUME NEW i \in 0 .. k, NEW j \in 0 .. k, i <= j PROVE f[i] <= f[j]
  <2> DEFINE T == {d \in Nat : i + d <= k => f[i] <= f[i + d]}
  <2>1. 0 \in T
    BY <1>1
  <2>2. ASSUME NEW d \in T PROVE d + 1 \in T
    <3> SUFFICES ASSUME i + d + 1 <= k PROVE f[i] <= f[i + d + 1]
      OBVIOUS
    <3>1. f[i + d + 1] = f[i + d] + weight[i + d + 1]
      BY DEF IsSum
    <3>2. f[i + d + 1] \in Nat /\ f[i + d] \in Nat /\ f[i] \in Nat
      BY <1>1
    <3> QED BY <3>1, <3>2
  <2>3. T = Nat
    <3> HIDE DEF T
    <3>1. T \in SUBSET Nat
      BY DEF T
    <3> QED BY <2>1, <2>2, <3>1, SetInduction
  <2>4. j - i \in Nat
    BY <1>2
  <2>5. i + (j - i) <= k => f[i] <= f[i + (j - i)]
    BY <2>3, <2>4
  <2>6. i + (j - i) = j
    OBVIOUS
  <2> QED BY <2>5, <2>6
<1> QED BY <1>1, <1>2

----------------------------------------------------------------------------
USE StripesAssumption, BatchSizeAssumption, ClusterAssumption

Kinds == {"out", "in"} \X Nodes

LEMMA LoadsAre == Loads = [Kinds -> Nat]
BY DEF Loads, Kinds

----------------------------------------------------------------------------
(* Loads *)

LEMMA PlusType ==
  /\ Zero \in Loads
  /\ \A t, u \in Loads : Plus(t, u) \in Loads
<1>1. Zero = [k \in Kinds |-> 0]
  BY DEF Zero, Kinds
<1>2. \A t, u : Plus(t, u) = [k \in Kinds |-> t[k] + u[k]]
  BY DEF Plus, Kinds
<1> QED BY <1>1, <1>2, LoadsAre

\* sum has the sums of the first loads, up to each of them.
IsTotal(sum, loads, m) ==
  sum = [i \in 0 .. m |-> IF i = 0 THEN Zero ELSE Plus(sum[i - 1], loads[i])]

LEMMA TotalExists ==
  ASSUME NEW loads, NEW m \in Nat
  PROVE  \E sum : IsTotal(sum, loads, m)
<1> DEFINE T == {i \in Nat : \E sum : IsTotal(sum, loads, i)}
<1>1. 0 \in T
  <2>1. IsTotal([i \in 0 .. 0 |-> Zero], loads, 0)
    BY DEF IsTotal
  <2> QED BY <2>1
<1>2. ASSUME NEW i \in T PROVE i + 1 \in T
  <2>1. PICK sum : IsTotal(sum, loads, i)
    OBVIOUS
  <2> DEFINE last == Plus(sum[i], loads[i + 1])
             longer == [j \in 0 .. i + 1 |-> IF j = i + 1 THEN last ELSE sum[j]]
  <2>2. IsTotal(longer, loads, i + 1)
    BY <2>1 DEF IsTotal
  <2> QED BY <2>2
<1>3. T = Nat
  <2> HIDE DEF T
  <2>1. T \in SUBSET Nat
    BY DEF T
  <2> QED BY <1>1, <1>2, <2>1, SetInduction
<1> QED BY <1>3

LEMMA TotalContinues ==
  ASSUME NEW loads, NEW more, NEW k \in Nat, NEW m \in Nat, k <= m,
         \A i \in 1 .. k : more[i] = loads[i],
         NEW f, IsTotal(f, loads, k), NEW g, IsTotal(g, more, m)
  PROVE  \A i \in 0 .. k : f[i] = g[i]
<1> DEFINE T == {i \in Nat : i <= k => f[i] = g[i]}
<1>1. 0 \in T
  BY DEF IsTotal
<1>2. ASSUME NEW i \in T PROVE i + 1 \in T
  <2> SUFFICES ASSUME i + 1 <= k PROVE f[i + 1] = g[i + 1]
    OBVIOUS
  <2>1. f[i + 1] = Plus(f[i], loads[i + 1])
    BY DEF IsTotal
  <2>2. g[i + 1] = Plus(g[i], more[i + 1])
    BY DEF IsTotal
  <2>3. i + 1 \in 1 .. k /\ f[i] = g[i]
    OBVIOUS
  <2> HIDE DEF T
  <2> QED BY <2>1, <2>2, <2>3
<1>3. T = Nat
  <2> HIDE DEF T
  <2>1. T \in SUBSET Nat
    BY DEF T
  <2> QED BY <1>1, <1>2, <2>1, SetInduction
<1> QED BY <1>3

\* Totals are loads, and the total of a longer sequence adds its last element.
LEMMA TotalIs ==
  ASSUME NEW loads, NEW m \in Nat, Len(loads) = m
  PROVE  \E sum : IsTotal(sum, loads, m) /\ Total(loads) = sum[m]
<1>1. \E sum : IsTotal(sum, loads, m)
  BY TotalExists
<1> QED BY <1>1 DEF IsTotal, Total

LEMMA TotalType ==
  ASSUME NEW loads \in Seq(Loads)
  PROVE  Total(loads) \in Loads
<1>1. Len(loads) \in Nat /\ \A i \in 1 .. Len(loads) : loads[i] \in Loads
  OBVIOUS
<1>2. PICK sum : IsTotal(sum, loads, Len(loads)) /\ Total(loads) = sum[Len(loads)]
  BY <1>1, TotalIs
<1> DEFINE T == {i \in Nat : i <= Len(loads) => sum[i] \in Loads}
<1>3. 0 \in T
  BY <1>1, <1>2, PlusType DEF IsTotal
<1>4. ASSUME NEW i \in T PROVE i + 1 \in T
  <2> SUFFICES ASSUME i + 1 <= Len(loads) PROVE sum[i + 1] \in Loads
    OBVIOUS
  <2>1. i \in Nat /\ i + 1 \in 1 .. Len(loads) /\ sum[i] \in Loads
    BY <1>1
  <2> HIDE DEF T
  <2>2. sum[i + 1] = Plus(sum[i], loads[i + 1])
    <3>1. i + 1 \in 0 .. Len(loads) /\ (i + 1) - 1 = i /\ i + 1 # 0
      BY <2>1, <1>1
    <3> QED BY <3>1, <1>2 DEF IsTotal
  <2> QED BY <1>1, <2>1, <2>2, PlusType
<1>5. T = Nat
  <2> HIDE DEF T
  <2>1. T \in SUBSET Nat
    BY DEF T
  <2> QED BY <1>3, <1>4, <2>1, SetInduction
<1> QED BY <1>1, <1>2, <1>5

LEMMA TotalAppend ==
  ASSUME NEW loads \in Seq(Loads), NEW e \in Loads
  PROVE  Total(Append(loads, e)) = Plus(Total(loads), e)
<1> DEFINE m == Len(loads)
           more == Append(loads, e)
<1>1. /\ m \in Nat /\ Len(more) = m + 1
      /\ more[m + 1] = e /\ \A i \in 1 .. m : more[i] = loads[i]
  OBVIOUS
<1> HIDE DEF m, more
<1>2. PICK f : IsTotal(f, loads, m) /\ Total(loads) = f[m]
  BY <1>1, TotalIs DEF m
<1>3. PICK g : IsTotal(g, more, m + 1) /\ Total(more) = g[m + 1]
  BY <1>1, TotalIs
<1>4. f[m] = g[m]
  <2>1. m + 1 \in Nat /\ m <= m + 1 /\ m \in 0 .. m
    BY <1>1
  <2>2. \A i \in 0 .. m : f[i] = g[i]
    BY <1>1, <1>2, <1>3, <2>1, TotalContinues
  <2> QED BY <2>1, <2>2
<1>5. g[m + 1] = Plus(g[m], more[m + 1])
  BY <1>1, <1>3 DEF IsTotal
<1> QED BY <1>1, <1>2, <1>3, <1>4, <1>5 DEF more

LEMMA TotalEmpty == Total(<<>>) = Zero
<1>1. PICK sum : IsTotal(sum, <<>>, 0) /\ Total(<<>>) = sum[0]
  BY TotalIs
<1> QED BY <1>1 DEF IsTotal

----------------------------------------------------------------------------
(* Bottleneck and energy are natural numbers. *)

\* The values of a function on 1 .. m are bounded.
LEMMA ValuesBounded ==
  ASSUME NEW m \in Nat, NEW f \in [0 .. m -> Nat]
  PROVE  \E bound \in Nat : \A i \in 0 .. m : f[i] <= bound
<1> DEFINE T == {k \in Nat : k <= m => \E bound \in Nat : \A i \in 0 .. k : f[i] <= bound}
<1>1. 0 \in T
  <2>1. f[0] \in Nat /\ \A i \in 0 .. 0 : f[i] <= f[0]
    OBVIOUS
  <2> QED BY <2>1
<1>2. ASSUME NEW k \in T PROVE k + 1 \in T
  <2> SUFFICES ASSUME k + 1 <= m
               PROVE  \E bound \in Nat : \A i \in 0 .. k + 1 : f[i] <= bound
    OBVIOUS
  <2>1. PICK b \in Nat : \A i \in 0 .. k : f[i] <= b
    OBVIOUS
  <2> DEFINE c == IF f[k + 1] > b THEN f[k + 1] ELSE b
  <2>2. c \in Nat /\ \A i \in 0 .. k + 1 : f[i] <= c
    <3>1. \A i \in 0 .. k + 1 : f[i] \in Nat
      OBVIOUS
    <3>2. \A i \in 0 .. k + 1 : i = k + 1 \/ i \in 0 .. k
      OBVIOUS
    <3> QED BY <2>1, <3>1, <3>2
  <2> QED BY <2>2
<1>3. T = Nat
  <2> HIDE DEF T
  <2>1. T \in SUBSET Nat
    BY DEF T
  <2> QED BY <1>1, <1>2, <2>1, SetInduction
<1>4. m \in T
  <2> HIDE DEF T
  <2> QED BY <1>3
<1> QED BY <1>4

LEMMA BottleneckType ==
  ASSUME NEW t \in Loads
  PROVE  /\ Bottleneck(t) \in Nat
         /\ \A n \in Nodes : Peak(t, n) \in Nat
<1>1. \A n \in Nodes : <<"in", n>> \in Kinds /\ <<"out", n>> \in Kinds
  BY DEF Kinds
<1>2. \A n \in Nodes : t[<<"in", n>>] \in Nat /\ t[<<"out", n>>] \in Nat
  BY <1>1, LoadsAre
<1>3. \A n \in Nodes : Peak(t, n) \in Nat
  BY <1>2 DEF Peak
<1> DEFINE m == ClusterSize - 1
           f == [n \in 0 .. m |-> Peak(t, n)]
           peaks == {Peak(t, n) : n \in Nodes}
<1>4. m \in Nat /\ Nodes = 0 .. m /\ 0 \in Nodes
  BY DEF Nodes
<1>5. f \in [0 .. m -> Nat]
  BY <1>3, <1>4
<1>6. PICK bound \in Nat : \A i \in 0 .. m : f[i] <= bound
  <2> HIDE DEF f, m
  <2> QED BY <1>4, <1>5, ValuesBounded
<1>7. peaks \subseteq Nat /\ Peak(t, 0) \in peaks /\ \A y \in peaks : y <= bound
  BY <1>3, <1>4, <1>6
<1>8. PICK g \in peaks : \A y \in peaks : g >= y
  <2> HIDE DEF peaks
  <2> QED BY <1>7, GreatestElement
<1>9. Bottleneck(t) \in peaks
  BY <1>8 DEF Bottleneck
<1> QED BY <1>3, <1>7, <1>9

LEMMA SumOfType ==
  ASSUME NEW k \in Nat, NEW f, \A i \in 1 .. k : f[i] \in Nat
  PROVE  SumOf(f, k) \in Nat
<1>1. \E sum : IsSum(sum, f, k)
  BY SumExists
<1>2. PICK sum : IsSum(sum, f, k) /\ SumOf(f, k) = sum[k]
  BY <1>1 DEF IsSum, SumOf
<1>3. sum[k] \in Nat
  <2>1. \A i \in 0 .. k : sum[i] \in Nat
    BY <1>2, SumGrows
  <2> QED BY <2>1
<1> QED BY <1>2, <1>3

LEMMA VarianceType ==
  ASSUME NEW t \in Loads
  PROVE  Variance(t) \in Int
<1> DEFINE peak == [i \in 1 .. ClusterSize |-> Peak(t, i - 1)]
           square == [i \in DOMAIN peak |-> peak[i] * peak[i]]
<1>1. \A i \in 1 .. ClusterSize : i - 1 \in Nodes
  BY DEF Nodes
<1>2. \A i \in 1 .. ClusterSize : peak[i] \in Nat
  BY <1>1, BottleneckType
<1>3. \A i \in 1 .. ClusterSize : square[i] \in Nat
  <2>1. DOMAIN peak = 1 .. ClusterSize
    OBVIOUS
  <2>2. \A i \in 1 .. ClusterSize : square[i] = peak[i] * peak[i]
    BY <2>1
  <2> HIDE DEF peak, square
  <2> QED BY <1>2, <2>2
<1>4. SumOf(peak, ClusterSize) \in Nat /\ SumOf(square, ClusterSize) \in Nat
  <2> HIDE DEF peak, square
  <2> QED BY <1>2, <1>3, SumOfType
<1>5. Variance(t) = ClusterSize * SumOf(square, ClusterSize)
                      - SumOf(peak, ClusterSize) * SumOf(peak, ClusterSize)
  BY DEF Variance
<1> HIDE DEF peak, square
<1> QED BY <1>4, <1>5

\* A function into the integers is least somewhere on a finite set of numbers.
LEMMA ArgMin ==
  ASSUME NEW m \in Nat, NEW S, S \subseteq 1 .. m, S # {}, NEW f, \A b \in S : f[b] \in Int
  PROVE  \E b \in S : \A c \in S : f[b] <= f[c]
<1> DEFINE T == {k \in Nat : S \cap (1 .. k) # {} =>
                   \E b \in S \cap (1 .. k) : \A c \in S \cap (1 .. k) : f[b] <= f[c]}
<1>1. 0 \in T
  OBVIOUS
<1>2. ASSUME NEW k \in T PROVE k + 1 \in T
  <2>1. k \in Nat
    OBVIOUS
  <2>2. \A c \in S \cap (1 .. k + 1) : c = k + 1 \/ c \in S \cap (1 .. k)
    BY <2>1
  <2>3. \A c \in S \cap (1 .. k) : c \in S \cap (1 .. k + 1)
    BY <2>1
  <2>4. k + 1 \in S => k + 1 \in S \cap (1 .. k + 1)
    BY <2>1
  <2> SUFFICES ASSUME S \cap (1 .. k + 1) # {}
               PROVE  \E b \in S \cap (1 .. k + 1) : \A c \in S \cap (1 .. k + 1) : f[b] <= f[c]
    OBVIOUS
  <2>5. CASE S \cap (1 .. k) = {}
    <3>1. k + 1 \in S
      BY <2>2, <2>5
    <3>2. f[k + 1] \in Int /\ f[k + 1] <= f[k + 1]
      BY <3>1
    <3> QED BY <2>2, <2>4, <2>5, <3>1, <3>2
  <2>6. CASE S \cap (1 .. k) # {}
    <3>1. PICK b \in S \cap (1 .. k) : \A c \in S \cap (1 .. k) : f[b] <= f[c]
      BY <2>6
    <3>2. CASE k + 1 \in S /\ f[k + 1] < f[b]
      <4>1. \A c \in S \cap (1 .. k + 1) : f[k + 1] <= f[c]
        <5> SUFFICES ASSUME NEW c \in S \cap (1 .. k + 1) PROVE f[k + 1] <= f[c]
          OBVIOUS
        <5>1. f[c] \in Int /\ f[b] \in Int /\ f[k + 1] \in Int
          BY <3>2
        <5> QED BY <5>1, <3>1, <3>2, <2>2
      <4> QED BY <4>1, <3>2, <2>4
    <3>3. CASE ~ (k + 1 \in S /\ f[k + 1] < f[b])
      <4>1. \A c \in S \cap (1 .. k + 1) : f[b] <= f[c]
        <5> SUFFICES ASSUME NEW c \in S \cap (1 .. k + 1) PROVE f[b] <= f[c]
          OBVIOUS
        <5>1. f[c] \in Int /\ f[b] \in Int
          OBVIOUS
        <5> QED BY <5>1, <3>1, <3>3, <2>2
      <4> QED BY <4>1, <2>3
    <3> QED BY <3>2, <3>3
  <2> QED BY <2>5, <2>6
<1>3. T = Nat
  <2> HIDE DEF T
  <2>1. T \in SUBSET Nat
    BY DEF T
  <2> QED BY <1>1, <1>2, <2>1, SetInduction
<1>4. m \in T
  <2> HIDE DEF T
  <2> QED BY <1>3
<1>5. S \cap (1 .. m) = S
  OBVIOUS
<1> QED BY <1>4, <1>5

----------------------------------------------------------------------------
(* How many batches there are. *)

LEMMA Division ==
  ASSUME NEW x \in Nat, NEW b \in Nat \ {0}
  PROVE  /\ x \div b \in Nat
         /\ (x \div b) * b <= x
         /\ x < (x \div b) * b + b
OBVIOUS

LEMMA Multiples ==
  ASSUME NEW i \in Int, NEW j \in Int, NEW b \in Nat \ {0}
  PROVE  /\ i * b < j * b + b => i <= j
         /\ i <= j => i * b <= j * b
         /\ (i + 1) * b = i * b + b
         /\ (i - 1) * b = i * b - b
<1>1. (i + 1) * b = i * b + b /\ (i - 1) * b = i * b - b
  OBVIOUS
<1>2. i >= j + 1 => i * b >= (j + 1) * b
  OBVIOUS
<1>3. (j + 1) * b = j * b + b
  OBVIOUS
<1>4. i * b \in Int /\ j * b \in Int
  OBVIOUS
<1>5. i <= j => i * b <= j * b
  OBVIOUS
<1> QED BY <1>1, <1>2, <1>3, <1>4, <1>5

LEMMA RepairingIsFinite ==
  ASSUME repairing \in SUBSET Stripes
  PROVE  /\ IsFiniteSet(repairing)
         /\ Cardinality(repairing) \in Nat
         /\ Cardinality(repairing) = 0 <=> repairing = {}
BY FS_Subset, FS_CardinalityType, FS_EmptySet

LEMMA BatchCount ==
  ASSUME repairing \in SUBSET Stripes
  PROVE  /\ NumBatches \in Nat
         /\ Cardinality(repairing) <= NumBatches * BatchSize
         /\ repairing # {} => (NumBatches - 1) * BatchSize < Cardinality(repairing)
         /\ repairing = {} => NumBatches = 0
         /\ repairing # {} => NumBatches >= 1
         /\ \A i \in 0 .. Cardinality(repairing) - 1 : i \div BatchSize + 1 \in 1 .. NumBatches
<1> DEFINE n == Cardinality(repairing)
           x == n + BatchSize - 1
           B == BatchSize
           N == x \div B
<1>1. n \in Nat /\ (n = 0 <=> repairing = {}) /\ B \in Nat \ {0}
  BY RepairingIsFinite
<1>2. NumBatches = N
  BY DEF NumBatches
<1> HIDE DEF n
<1>3. x \in Nat
  BY <1>1
<1> HIDE DEF x, B
<1>4. N \in Nat /\ N * B <= x /\ x < N * B + B
  BY <1>1, <1>3, Division
<1> HIDE DEF N
<1>5. N * B \in Nat /\ (N - 1) * B = N * B - B
  BY <1>1, <1>4, Multiples
<1>6. x = n + B - 1
  BY DEF x, B
<1>7. n <= N * B
  BY <1>1, <1>4, <1>5, <1>6
<1>8. n # 0 => (N - 1) * B < n
  BY <1>1, <1>4, <1>5, <1>6
<1>9. n = 0 => N = 0
  <2> SUFFICES ASSUME n = 0 PROVE N = 0
    OBVIOUS
  <2>1. N * B < 0 * B + B
    BY <1>1, <1>4, <1>5, <1>6
  <2>2. N <= 0
    BY <1>1, <1>4, <2>1, Multiples
  <2> QED BY <1>4, <2>2
<1>10. n # 0 => N >= 1
  <2> SUFFICES ASSUME N = 0 PROVE n = 0
    BY <1>4
  <2>1. N * B = 0
    BY <1>1
  <2> QED BY <1>1, <1>7, <2>1
<1>11. ASSUME NEW i \in 0 .. n - 1 PROVE i \div B + 1 \in 1 .. N
  <2> DEFINE q == i \div B
  <2>1. i \in Nat /\ i <= n - 1
    BY <1>1
  <2>2. q \in Nat /\ q * B <= i
    BY <1>1, <2>1, Division
  <2> HIDE DEF q
  <2>3. (q + 1) * B = q * B + B /\ q * B \in Nat
    BY <1>1, <2>2, Multiples
  <2>4. (q + 1) * B < N * B + B
    BY <1>1, <1>4, <1>5, <1>6, <2>1, <2>2, <2>3
  <2>5. q + 1 <= N
    BY <1>1, <1>4, <2>2, <2>4, Multiples
  <2>6. q + 1 \in 1 .. N
    BY <1>4, <2>2, <2>5
  <2> QED BY <2>6 DEF q
<1> QED BY <1>1, <1>2, <1>4, <1>7, <1>8, <1>9, <1>10, <1>11 DEF n, B

----------------------------------------------------------------------------
(* The inductive invariant. *)

\* What every stage has done when the next one starts.
Stages ==
  /\ pc # "done" => repairing # {}
  /\ pc = "probe" =>
       /\ next = 1
       /\ \A b \in 1 .. NumBatches : batches[b] = <<>> /\ packed[b] = Zero
  /\ pc \in {"anneal", "color", "done"} => next = Cardinality(repairing) + 1
  /\ pc \in {"probe", "pack", "anneal"} =>
       batchid = 1 /\ emitted = <<>> /\ table = Zero /\ colored = <<>>

\* No batch overflows, and annealing does not change how many stripes a batch has.
Sizes ==
  \A b \in 1 .. NumBatches :
    /\ Len(batches[b]) <= BatchSize
    /\ pc = "anneal" => Len(current[b]) = Len(batches[b])

\* Without coloring first, the batches are filled in the order of the list.
InRuns ==
  pc = "pack" /\ ~ IsFire =>
    \A b \in 1 .. NumBatches :
      Len(batches[b]) > 0 => (b - 1) * BatchSize + Len(batches[b]) < next

\* The batches before batchid have been handed over as they are, and what they
\* are is final.
Emitted ==
  /\ Len(emitted) = batchid - 1
  /\ emitted \in Seq([stripes : Seq(repairing), load : Nat])
  /\ \A i \in 1 .. batchid - 1 : emitted[i].stripes = batches[i]

IInv ==
  /\ TypeOK
  /\ Stages
  /\ Sizes
  /\ InRuns
  /\ EveryStripeOnce
  /\ PackedIsTotal
  /\ BestIsBest
  /\ TableIsTotal
  /\ Emitted

----------------------------------------------------------------------------
(* Counting places. *)

LEMMA UpTo ==
  ASSUME NEW k \in Nat
  PROVE  IsFiniteSet(1 .. k) /\ Cardinality(1 .. k) = k
<1>1. 1 \in Int /\ k \in Int
  OBVIOUS
<1> QED BY <1>1, FS_Interval

LEMMA UpToWithout ==
  ASSUME NEW k \in Nat, NEW e \in 1 .. k
  PROVE  IsFiniteSet((1 .. k) \ {e}) /\ Cardinality((1 .. k) \ {e}) = k - 1
<1> DEFINE S == 1 .. k
<1>1. IsFiniteSet(S) /\ Cardinality(S) = k /\ e \in S
  BY UpTo
<1> HIDE DEF S
<1>2. IsFiniteSet(S \ {e}) /\ Cardinality(S \ {e}) = Cardinality(S) - 1
  BY <1>1, FS_RemoveElement
<1> QED BY <1>1, <1>2 DEF S

LEMMA OrderIs ==
  ASSUME TypeOK
  PROVE  /\ Cardinality(repairing) \in Nat
         /\ queue \in [1 .. Cardinality(repairing) -> repairing]
         /\ queue \in Seq(repairing)
         /\ Len(queue) = Cardinality(repairing)
         /\ DOMAIN queue = 1 .. Cardinality(repairing)
         /\ \A i, j \in 1 .. Cardinality(repairing) : queue[i] = queue[j] => i = j
         /\ \A s \in repairing : \E i \in 1 .. Cardinality(repairing) : queue[i] = s
<1>1. Cardinality(repairing) \in Nat
  BY RepairingIsFinite DEF TypeOK
<1>2. /\ queue \in [1 .. Cardinality(repairing) -> repairing]
      /\ \A i, j \in DOMAIN queue : queue[i] = queue[j] => i = j
      /\ \A s \in repairing : \E i \in DOMAIN queue : queue[i] = s
  BY DEF TypeOK, Orders
<1>3. queue \in Seq(repairing) /\ Len(queue) = Cardinality(repairing)
  BY <1>1, <1>2
<1> QED BY <1>1, <1>2, <1>3

\* The places of full batches are more than the stripes that are packed.
LEMMA SomeBatchIsOpen ==
  ASSUME TypeOK, EveryStripeOnce, Sizes, next <= Cardinality(repairing)
  PROVE  Open # {}
<1> SUFFICES ASSUME Open = {} PROVE FALSE
  OBVIOUS
<1> DEFINE N == NumBatches
           n == Cardinality(repairing)
           S == (1 .. N) \X (1 .. BatchSize)
           T == 1 .. next - 1
           f == [p \in S |-> CHOOSE i \in T : queue[i] = batches[p[1]][p[2]]]
<1>1. N \in Nat /\ n <= N * BatchSize /\ n \in Nat /\ next \in 1 .. n
  <2>1. repairing \in SUBSET Stripes /\ next \in 1 .. n + 1
    BY OrderIs DEF TypeOK
  <2>2. N \in Nat /\ n <= N * BatchSize
    BY <2>1, BatchCount
  <2>3. n \in Nat
    BY OrderIs
  <2> HIDE DEF n
  <2> QED BY <2>1, <2>2, <2>3 DEF n
<1>2. \A b \in 1 .. N : batches[b] \in Seq(repairing) /\ Len(batches[b]) = BatchSize
  BY DEF TypeOK, Arrangements, Open, Sizes
<1>3. DOMAIN batches = 1 .. N /\ \A b \in 1 .. N : DOMAIN batches[b] = 1 .. BatchSize
  BY <1>2 DEF TypeOK, Arrangements
<1>4. /\ \A b \in 1 .. N, k \in 1 .. BatchSize : \E i \in T : queue[i] = batches[b][k]
      /\ \A b, c \in 1 .. N : \A k, l \in 1 .. BatchSize :
           batches[b][k] = batches[c][l] => b = c /\ k = l
  <2>1. Arranged(batches, {queue[i] : i \in T})
    BY DEF EveryStripeOnce
  <2>2. \A b \in 1 .. N, k \in 1 .. BatchSize : batches[b][k] \in {queue[i] : i \in T}
    BY <1>3, <2>1 DEF Arranged
  <2>3. \A b, c \in 1 .. N : \A k, l \in 1 .. BatchSize :
          batches[b][k] = batches[c][l] => b = c /\ k = l
    BY <1>3, <2>1 DEF Arranged
  <2> QED BY <2>2, <2>3
<1>5. \A p \in S : /\ p[1] \in 1 .. N /\ p[2] \in 1 .. BatchSize /\ p = <<p[1], p[2]>>
                   /\ f[p] \in T /\ queue[f[p]] = batches[p[1]][p[2]]
  BY <1>4
<1>6. f \in Injection(S, T)
  <2>1. f \in [S -> T]
    BY <1>5
  <2>2. \A p, q \in S : f[p] = f[q] => p = q
    <3> HIDE DEF f, S, T
    <3> QED BY <1>4, <1>5
  <2> HIDE DEF f, S, T
  <2> QED BY <2>1, <2>2 DEF Injection, IsInjective
<1>7. IsFiniteSet(T) /\ Cardinality(T) = next - 1
  <2>1. next - 1 \in Nat
    BY <1>1
  <2> QED BY <2>1, UpTo
<1>8. Cardinality(S) = N * BatchSize
  <2>1. IsFiniteSet(1 .. N) /\ Cardinality(1 .. N) = N
    BY <1>1, UpTo
  <2>2. IsFiniteSet(1 .. BatchSize) /\ Cardinality(1 .. BatchSize) = BatchSize
    BY FS_Interval
  <2>3. Cardinality(S) = Cardinality(1 .. N) * Cardinality(1 .. BatchSize)
    <3> DEFINE A == 1 .. N
               B == 1 .. BatchSize
    <3>1. IsFiniteSet(A) /\ IsFiniteSet(B)
      BY <2>1, <2>2
    <3> HIDE DEF A, B
    <3> QED BY <3>1, FS_Product DEF A, B
  <2> HIDE DEF S
  <2> QED BY <2>1, <2>2, <2>3
<1>9. Cardinality(S) <= Cardinality(T)
  <2> HIDE DEF S, T, f
  <2> QED BY <1>6, <1>7, FS_Injection
<1> HIDE DEF S, T, f, n
<1>10. N * BatchSize \in Nat
  BY <1>1
<1> QED BY <1>1, <1>7, <1>8, <1>9, <1>10

\* Without one of the batches there are fewer places than stripes.
LEMMA NoBatchIsEmpty ==
  ASSUME repairing \in SUBSET Stripes, repairing # {},
         NEW bs \in Arrangements, Arranged(bs, repairing),
         \A b \in 1 .. NumBatches : Len(bs[b]) <= BatchSize,
         NEW e \in 1 .. NumBatches
  PROVE  Len(bs[e]) \in 1 .. BatchSize
<1> SUFFICES ASSUME Len(bs[e]) = 0 PROVE FALSE
  <2>1. bs[e] \in Seq(repairing)
    BY DEF Arrangements
  <2>2. Len(bs[e]) \in Nat
    BY <2>1
  <2> QED BY <2>2
<1> DEFINE N == NumBatches
           n == Cardinality(repairing)
           D == (1 .. N) \ {e}
           T == D \X (1 .. BatchSize)
           f == [s \in repairing |-> CHOOSE p \in T : bs[p[1]][p[2]] = s]
<1>1. N \in Nat /\ (N - 1) * BatchSize < n /\ n \in Nat /\ IsFiniteSet(repairing)
  BY BatchCount, RepairingIsFinite
<1>2. DOMAIN bs = 1 .. N /\ \A b \in 1 .. N : DOMAIN bs[b] = 1 .. Len(bs[b]) /\ Len(bs[b]) \in Nat
  <2>1. DOMAIN bs = 1 .. N /\ \A b \in 1 .. N : bs[b] \in Seq(repairing)
    BY DEF Arrangements
  <2> QED BY <2>1
<1>3. ASSUME NEW s \in repairing PROVE \E p \in T : bs[p[1]][p[2]] = s
  <2>0. \E b \in DOMAIN bs : \E k \in DOMAIN bs[b] : bs[b][k] = s
    BY DEF Arranged
  <2>1. PICK b \in 1 .. N : \E k \in 1 .. Len(bs[b]) : bs[b][k] = s
    BY <1>2, <2>0
  <2>2. PICK k \in 1 .. Len(bs[b]) : bs[b][k] = s
    BY <2>1
  <2>3. b # e /\ k \in 1 .. BatchSize
    BY <1>2, <2>2
  <2>4. <<b, k>> \in T
    BY <2>3
  <2>5. bs[<<b, k>>[1]][<<b, k>>[2]] = s
    BY <2>2
  <2> HIDE DEF T
  <2> QED BY <2>4, <2>5
<1>4. \A s \in repairing : f[s] \in T /\ bs[f[s][1]][f[s][2]] = s
  <2> HIDE DEF T
  <2> QED BY <1>3
<1>5. f \in Injection(repairing, T)
  <2>1. f \in [repairing -> T]
    BY <1>4
  <2>2. \A s, t \in repairing : f[s] = f[t] => s = t
    <3> HIDE DEF f, T
    <3> QED BY <1>4
  <2> HIDE DEF f, T
  <2> QED BY <2>1, <2>2 DEF Injection, IsInjective
<1>6. IsFiniteSet(D) /\ Cardinality(D) = N - 1
  BY <1>1, UpToWithout
<1>7. IsFiniteSet(T) /\ Cardinality(T) = (N - 1) * BatchSize
  <2>1. IsFiniteSet(1 .. BatchSize) /\ Cardinality(1 .. BatchSize) = BatchSize
    BY FS_Interval
  <2> HIDE DEF D
  <2> QED BY <2>1, <1>6, FS_Product
<1>8. n <= Cardinality(T)
  <2> HIDE DEF T, f
  <2> QED BY <1>5, <1>7, FS_Injection
<1> HIDE DEF T, f, n
<1>9. (N - 1) * BatchSize \in Int
  BY <1>1
<1> QED BY <1>1, <1>7, <1>8, <1>9

----------------------------------------------------------------------------
(* Packing and swapping. *)

\* A batch of an arrangement is a sequence of stripes to repair.
LEMMA ArrangementIs ==
  ASSUME NEW bs \in Arrangements
  PROVE  /\ DOMAIN bs = 1 .. NumBatches
         /\ \A b \in 1 .. NumBatches :
              /\ bs[b] \in Seq(repairing)
              /\ Len(bs[b]) \in Nat
              /\ DOMAIN bs[b] = 1 .. Len(bs[b])
              /\ \A k \in 1 .. Len(bs[b]) : bs[b][k] \in repairing
<1>1. DOMAIN bs = 1 .. NumBatches /\ \A b \in 1 .. NumBatches : bs[b] \in Seq(repairing)
  BY DEF Arrangements
<1> QED BY <1>1

\* Arranged, place by place.
IsPlace(bs, b, k) == b \in 1 .. NumBatches /\ k \in 1 .. Len(bs[b])

LEMMA ArrangedIs ==
  ASSUME NEW bs \in Arrangements, NEW S
  PROVE  Arranged(bs, S) <=>
           /\ \A b, k : IsPlace(bs, b, k) => bs[b][k] \in S
           /\ \A s \in S : \E b, k : IsPlace(bs, b, k) /\ bs[b][k] = s
           /\ \A b, c, k, l : IsPlace(bs, b, k) /\ IsPlace(bs, c, l) /\ bs[b][k] = bs[c][l]
                                => b = c /\ k = l
<1>1. DOMAIN bs = 1 .. NumBatches /\ \A b \in 1 .. NumBatches : DOMAIN bs[b] = 1 .. Len(bs[b])
  BY ArrangementIs
<1>2. \A b, k : IsPlace(bs, b, k) <=> b \in DOMAIN bs /\ k \in DOMAIN bs[b]
  BY <1>1 DEF IsPlace
<1>3. (\A b, k : IsPlace(bs, b, k) => bs[b][k] \in S)
        <=> \A b \in DOMAIN bs : \A k \in DOMAIN bs[b] : bs[b][k] \in S
  BY <1>2
<1>4. (\A s \in S : \E b, k : IsPlace(bs, b, k) /\ bs[b][k] = s)
        <=> \A s \in S : \E b \in DOMAIN bs : \E k \in DOMAIN bs[b] : bs[b][k] = s
  BY <1>2
<1>5. (\A b, c, k, l : IsPlace(bs, b, k) /\ IsPlace(bs, c, l) /\ bs[b][k] = bs[c][l]
                         => b = c /\ k = l)
        <=> \A b, c \in DOMAIN bs : \A k \in DOMAIN bs[b], l \in DOMAIN bs[c] :
              bs[b][k] = bs[c][l] => b = c /\ k = l
  BY <1>2
<1> QED BY <1>3, <1>4, <1>5 DEF Arranged

\* new has s appended to the batch b of bs.
Extends(new, bs, b, s) == new = [bs EXCEPT ![b] = Append(@, s)]

LEMMA AppendIs ==
  ASSUME NEW bs \in Arrangements, NEW b \in 1 .. NumBatches, NEW s \in repairing,
         NEW new, Extends(new, bs, b, s)
  PROVE  /\ new \in Arrangements
         /\ \A c \in 1 .. NumBatches : c # b => new[c] = bs[c]
         /\ new[b] = Append(bs[b], s)
         /\ Len(new[b]) = Len(bs[b]) + 1
         /\ new[b][Len(bs[b]) + 1] = s
         /\ \A k \in 1 .. Len(bs[b]) : new[b][k] = bs[b][k]
<1>1. bs \in [1 .. NumBatches -> Seq(repairing)]
  BY DEF Arrangements
<1>2. /\ Append(bs[b], s) \in Seq(repairing)
      /\ Len(Append(bs[b], s)) = Len(bs[b]) + 1
      /\ Append(bs[b], s)[Len(bs[b]) + 1] = s
      /\ \A k \in 1 .. Len(bs[b]) : Append(bs[b], s)[k] = bs[b][k]
  <2>1. bs[b] \in Seq(repairing)
    BY <1>1
  <2> QED BY <2>1
<1> DEFINE e == Append(bs[b], s)
<1> HIDE DEF e
<1>3. new = [bs EXCEPT ![b] = e]
  BY DEF e, Extends
<1>4. new \in [1 .. NumBatches -> Seq(repairing)]
  BY <1>1, <1>2, <1>3 DEF e
<1>5. new[b] = e /\ \A c \in 1 .. NumBatches : c # b => new[c] = bs[c]
  BY <1>1, <1>3
<1>6. new[b] = Append(bs[b], s)
  BY <1>5 DEF e
<1> QED BY <1>2, <1>4, <1>5, <1>6 DEF Arrangements

\* A stripe that is in no batch may be appended to one.
LEMMA ArrangedAppend ==
  ASSUME NEW bs \in Arrangements, NEW b \in 1 .. NumBatches, NEW s \in repairing,
         NEW new, Extends(new, bs, b, s),
         NEW S, Arranged(bs, S), s \notin S
  PROVE  Arranged(new, S \cup {s})
<1>1. /\ new \in Arrangements
      /\ \A c \in 1 .. NumBatches : c # b => new[c] = bs[c]
      /\ Len(new[b]) = Len(bs[b]) + 1
      /\ new[b][Len(bs[b]) + 1] = s
      /\ \A k \in 1 .. Len(bs[b]) : new[b][k] = bs[b][k]
  BY AppendIs
<1>2. Len(bs[b]) \in Nat
  BY ArrangementIs
<1>3. \A c, k : IsPlace(new, c, k) =>
        \/ IsPlace(bs, c, k) /\ new[c][k] = bs[c][k]
        \/ c = b /\ k = Len(bs[b]) + 1 /\ new[c][k] = s
  BY <1>1, <1>2 DEF IsPlace
<1>4. \A c, k : IsPlace(bs, c, k) => IsPlace(new, c, k) /\ new[c][k] = bs[c][k]
  BY <1>1, <1>2 DEF IsPlace
<1>5. IsPlace(new, b, Len(bs[b]) + 1)
  BY <1>1, <1>2 DEF IsPlace
<1>6. /\ \A c, k : IsPlace(bs, c, k) => bs[c][k] \in S
      /\ \A t \in S : \E c, k : IsPlace(bs, c, k) /\ bs[c][k] = t
      /\ \A c, d, k, l : IsPlace(bs, c, k) /\ IsPlace(bs, d, l) /\ bs[c][k] = bs[d][l]
                           => c = d /\ k = l
  BY ArrangedIs
<1>7. \A c, k : IsPlace(new, c, k) => new[c][k] \in S \cup {s}
  BY <1>3, <1>6
<1>8. ASSUME NEW t \in S \cup {s} PROVE \E c, k : IsPlace(new, c, k) /\ new[c][k] = t
  <2>1. CASE t = s
    BY <2>1, <1>1, <1>5
  <2>2. CASE t \in S
    BY <2>2, <1>4, <1>6
  <2> QED BY <2>1, <2>2
<1>9. \A c, d, k, l : IsPlace(new, c, k) /\ IsPlace(new, d, l) /\ new[c][k] = new[d][l]
                        => c = d /\ k = l
  BY <1>3, <1>6
<1> QED BY <1>1, <1>7, <1>8, <1>9, ArrangedIs

\* Exchanging two stripes of different batches moves every stripe at most once.
LEMMA SwappedIs ==
  ASSUME NEW bs \in Arrangements, NEW p \in Places(bs), NEW q \in Places(bs), p[1] < q[1],
         NEW new, new = Swapped(bs, p, q)
  PROVE  /\ new \in Arrangements
         /\ \A b \in 1 .. NumBatches : Len(new[b]) = Len(bs[b])
         /\ Arranged(bs, repairing) => Arranged(new, repairing)
<1> DEFINE N == NumBatches
<1>1. /\ DOMAIN bs = 1 .. N
      /\ \A b \in 1 .. N : /\ Len(bs[b]) \in Nat /\ DOMAIN bs[b] = 1 .. Len(bs[b])
                           /\ \A k \in 1 .. Len(bs[b]) : bs[b][k] \in repairing
  BY ArrangementIs
<1>2. PICK p1 \in 1 .. N, p2 \in 1 .. BatchSize : p = <<p1, p2>> /\ IsPlace(bs, p1, p2)
  BY <1>1 DEF Places, IsPlace
<1>3. PICK q1 \in 1 .. N, q2 \in 1 .. BatchSize : q = <<q1, q2>> /\ IsPlace(bs, q1, q2)
  BY <1>1 DEF Places, IsPlace
<1>4. p1 # q1
  <2>1. p1 < q1
    BY <1>2, <1>3
  <2>2. p1 \in Int /\ q1 \in Int
    OBVIOUS
  <2> QED BY <2>1, <2>2
<1>5. /\ DOMAIN new = 1 .. N
      /\ \A b \in 1 .. N : DOMAIN new[b] = 1 .. Len(bs[b])
      /\ \A b \in 1 .. N : \A k \in 1 .. Len(bs[b]) :
           new[b][k] = IF b = p1 /\ k = p2 THEN bs[q1][q2]
                       ELSE IF b = q1 /\ k = q2 THEN bs[p1][p2]
                       ELSE bs[b][k]
  <2>1. new = [b \in 1 .. N |->
                 [k \in DOMAIN bs[b] |->
                    IF <<b, k>> = <<p1, p2>> THEN bs[q1][q2]
                    ELSE IF <<b, k>> = <<q1, q2>> THEN bs[p1][p2]
                    ELSE bs[b][k]]]
    BY <1>1, <1>2, <1>3 DEF Swapped
  <2>2. DOMAIN new = 1 .. N
    BY <2>1
  <2>3. ASSUME NEW b \in 1 .. N
        PROVE  new[b] = [k \in 1 .. Len(bs[b]) |->
                           IF <<b, k>> = <<p1, p2>> THEN bs[q1][q2]
                           ELSE IF <<b, k>> = <<q1, q2>> THEN bs[p1][p2]
                           ELSE bs[b][k]]
    BY <1>1, <2>1
  <2> QED BY <2>2, <2>3
<1>6. \A b \in 1 .. N : \A k \in 1 .. Len(bs[b]) : new[b][k] \in repairing
  <2>1. bs[p1][p2] \in repairing /\ bs[q1][q2] \in repairing
    BY <1>1, <1>2, <1>3 DEF IsPlace
  <2>2. \A b \in 1 .. N : \A k \in 1 .. Len(bs[b]) :
          new[b][k] \in {bs[p1][p2], bs[q1][q2], bs[b][k]}
    BY <1>5
  <2> QED BY <1>1, <2>1, <2>2
<1>7. \A b \in 1 .. N : new[b] \in Seq(repairing) /\ Len(new[b]) = Len(bs[b])
  <2> SUFFICES ASSUME NEW b \in 1 .. N
               PROVE  new[b] \in Seq(repairing) /\ Len(new[b]) = Len(bs[b])
    OBVIOUS
  <2>1. new[b] = [k \in 1 .. Len(bs[b]) |->
                    IF <<b, k>> = <<p1, p2>> THEN bs[q1][q2]
                    ELSE IF <<b, k>> = <<q1, q2>> THEN bs[p1][p2]
                    ELSE bs[b][k]]
    BY <1>1, <1>2, <1>3 DEF Swapped
  <2>2. new[b] \in [1 .. Len(bs[b]) -> repairing]
    BY <2>1, <1>6
  <2>3. Len(bs[b]) \in Nat
    BY <1>1
  <2> QED BY <2>2, <2>3
<1>8. new \in Arrangements
  <2>1. new = [b \in 1 .. N |-> new[b]]
    BY <1>1 DEF Swapped
  <2> QED BY <2>1, <1>7 DEF Arrangements
<1>9. ASSUME Arranged(bs, repairing) PROVE Arranged(new, repairing)
  <2>1. /\ \A t \in repairing : \E b, k : IsPlace(bs, b, k) /\ bs[b][k] = t
        /\ \A b, c, k, l : IsPlace(bs, b, k) /\ IsPlace(bs, c, l) /\ bs[b][k] = bs[c][l] => b = c /\ k = l
    BY <1>9, ArrangedIs
  <2>2. \A b, k : IsPlace(bs, b, k) =>
          \/ b = p1 /\ k = p2 /\ new[b][k] = bs[q1][q2]
          \/ b = q1 /\ k = q2 /\ new[b][k] = bs[p1][p2]
          \/ ~ (b = p1 /\ k = p2) /\ ~ (b = q1 /\ k = q2) /\ new[b][k] = bs[b][k]
    BY <1>5 DEF IsPlace
  <2>3. new[p1][p2] = bs[q1][q2] /\ new[q1][q2] = bs[p1][p2]
    BY <1>2, <1>3, <1>4, <1>5 DEF IsPlace
  <2>4. \A b, c, k, l : IsPlace(bs, b, k) /\ IsPlace(bs, c, l) /\ new[b][k] = new[c][l] => b = c /\ k = l
    <3> QED BY <1>2, <1>3, <1>4, <2>1, <2>2
  <2>5. ASSUME NEW t \in repairing PROVE \E b, k : IsPlace(bs, b, k) /\ new[b][k] = t
    <3>1. PICK b, k : IsPlace(bs, b, k) /\ bs[b][k] = t
      BY <2>1
    <3> QED BY <1>2, <1>3, <2>2, <2>3, <3>1
  <2>6. \A b, k : IsPlace(new, b, k) <=> IsPlace(bs, b, k)
    BY <1>7 DEF IsPlace
  <2>7. \A b, k : IsPlace(new, b, k) => new[b][k] \in repairing
    BY <1>6, <2>6 DEF IsPlace
  <2> QED BY <1>8, <2>4, <2>5, <2>6, <2>7, ArrangedIs
<1> QED BY <1>7, <1>8, <1>9

\* A batch of runs of BatchSize has room for the next stripe.
LEMMA RunHasRoom ==
  ASSUME TypeOK, InRuns, pc = "pack", ~ IsFire, next <= Cardinality(repairing)
  PROVE  /\ (next - 1) \div BatchSize + 1 \in Open
         /\ (((next - 1) \div BatchSize + 1) - 1) * BatchSize
              + Len(batches[(next - 1) \div BatchSize + 1]) + 1 < next + 1
<1> DEFINE q == (next - 1) \div BatchSize
           b == q + 1
<1>1. Cardinality(repairing) \in Nat /\ next - 1 \in Nat /\ next \in Nat
      /\ next - 1 \in 0 .. Cardinality(repairing) - 1
  BY OrderIs DEF TypeOK
<1>2. b \in 1 .. NumBatches
  BY <1>1, BatchCount DEF TypeOK
<1>3. q \in Nat /\ q * BatchSize <= next - 1 /\ next - 1 < q * BatchSize + BatchSize
  BY <1>1, Division
<1>4. batches \in Arrangements
  BY DEF TypeOK
<1>5. Len(batches[b]) \in Nat
  <2> HIDE DEF b
  <2> QED BY <1>2, <1>4, ArrangementIs
<1>6. Len(batches[b]) > 0 => (b - 1) * BatchSize + Len(batches[b]) < next
  <2> HIDE DEF b
  <2> QED BY <1>2 DEF InRuns
<1>7. b - 1 = q
  BY <1>3
<1>8. q * BatchSize \in Nat
  BY <1>3
<1>9. Len(batches[b]) < BatchSize
  <2> DEFINE l == Len(batches[b])
             x == q * BatchSize
  <2>1. l > 0 => x + l < next
    BY <1>6, <1>7
  <2>2. l \in Nat /\ x \in Nat /\ next - 1 < x + BatchSize
    BY <1>3, <1>5, <1>8
  <2> HIDE DEF l, x
  <2>3. l < BatchSize
    BY <1>1, <2>1, <2>2
  <2> QED BY <2>3 DEF l
<1>10. (b - 1) * BatchSize + Len(batches[b]) + 1 < next + 1
  <2> DEFINE l == Len(batches[b])
             x == q * BatchSize
  <2>1. l > 0 => x + l < next
    BY <1>6, <1>7
  <2>2. l \in Nat /\ x \in Nat /\ x <= next - 1
    BY <1>3, <1>5, <1>8
  <2> HIDE DEF l, x
  <2>3. x + l + 1 < next + 1
    BY <1>1, <2>1, <2>2
  <2> QED BY <2>3, <1>7 DEF l, x
<1>11. b \in Open
  BY <1>2, <1>9 DEF Open
<1> QED BY <1>10, <1>11

\* Packing always finds a batch that has room.
LEMMA FoundRoom ==
  ASSUME TypeOK, EveryStripeOnce, Sizes, InRuns, pc = "pack", next <= Len(queue)
  PROVE  /\ BatchesFor(queue[next]) # {}
         /\ BatchesFor(queue[next]) \subseteq Open
<1> DEFINE s == queue[next]
           with == [b \in Open |-> Plus(packed[b], probed[s])]
           light == {b \in Open : \A c \in Open : Bottleneck(with[b]) <= Bottleneck(with[c])}
<1>1. /\ Cardinality(repairing) \in Nat /\ Len(queue) = Cardinality(repairing)
      /\ next \in 1 .. Cardinality(repairing) /\ s \in repairing
      /\ next <= Cardinality(repairing)
  <2>1. Len(queue) = Cardinality(repairing) /\ Cardinality(repairing) \in Nat
    BY OrderIs
  <2>2. next \in 1 .. Cardinality(repairing)
    BY <2>1 DEF TypeOK
  <2> QED BY <2>1, <2>2, OrderIs
<1>2. Open # {}
  BY <1>1, SomeBatchIsOpen
<1>3. Open \subseteq 1 .. NumBatches /\ NumBatches \in Nat
  BY BatchCount DEF Open, TypeOK
<1>4. \A b \in Open : with[b] \in Loads
  <2>1. probed[s] \in Loads /\ \A b \in 1 .. NumBatches : packed[b] \in Loads
    BY <1>1 DEF TypeOK
  <2> HIDE DEF s
  <2> QED BY <2>1, <1>3, PlusType
<1> HIDE DEF with
<1>5. \E b \in Open : \A c \in Open : Bottleneck(with[b]) <= Bottleneck(with[c])
  <2> DEFINE f == [b \in Open |-> Bottleneck(with[b])]
  <2>1. \A b \in Open : f[b] \in Int
    BY <1>4, BottleneckType
  <2>2. \E b \in Open : \A c \in Open : f[b] <= f[c]
    <3> HIDE DEF f
    <3> QED BY <1>2, <1>3, <2>1, ArgMin
  <2> QED BY <2>2
<1>6. light # {} /\ light \subseteq Open
  BY <1>5
<1> HIDE DEF light
<1>7. light \subseteq 1 .. NumBatches
  BY <1>3, <1>6
<1>8. CASE generator = "fire"
  <2>1. BatchesFor(s) = {b \in light : \A c \in light : b <= c}
    BY <1>8 DEF BatchesFor, light, with
  <2>2. \E b \in light : \A c \in light : b <= c
    <3>1. light \subseteq Nat
      BY <1>7
    <3> QED BY <1>6, <3>1, LeastElement
  <2> QED BY <1>6, <2>1, <2>2
<1>9. CASE generator = "fireNew"
  <2>1. BatchesFor(s) = {b \in light : \A c \in light : Variance(with[b]) <= Variance(with[c])}
    BY <1>9 DEF BatchesFor, light, with
  <2>2. \E b \in light : \A c \in light : Variance(with[b]) <= Variance(with[c])
    <3> DEFINE f == [b \in light |-> Variance(with[b])]
    <3>1. \A b \in light : f[b] \in Int
      BY <1>4, <1>6, VarianceType
    <3>2. \E b \in light : \A c \in light : f[b] <= f[c]
      <4> HIDE DEF f
      <4> QED BY <1>3, <1>6, <1>7, <3>1, ArgMin
    <3> QED BY <3>2
  <2> QED BY <1>6, <2>1, <2>2
<1>10. CASE ~ IsFire
  <2>1. generator # "fire" /\ generator # "fireNew"
    BY <1>10 DEF IsFire
  <2>2. BatchesFor(s) = {(next - 1) \div BatchSize + 1}
    BY <2>1 DEF BatchesFor
  <2>3. (next - 1) \div BatchSize + 1 \in Open
    BY <1>1, <1>10, RunHasRoom
  <2> QED BY <2>2, <2>3
<1> QED BY <1>8, <1>9, <1>10 DEF IsFire

----------------------------------------------------------------------------
(* The loads of the stripes of a batch, and the energy in terms of them. *)

Probes(f, q) == [k \in DOMAIN q |-> f[q[k]]]

EnergyOf(f, bs) ==
  SumOf([b \in DOMAIN bs |-> Bottleneck(Total(Probes(f, bs[b])))], Len(bs))

LEMMA ProbesAre ==
  ASSUME NEW f \in [repairing -> Loads]
  PROVE  /\ Probes(f, <<>>) = <<>>
         /\ \A q \in Seq(repairing) : Probes(f, q) \in Seq(Loads)
         /\ \A q \in Seq(repairing), s \in repairing :
              Probes(f, Append(q, s)) = Append(Probes(f, q), f[s])
<1>1. Probes(f, <<>>) = <<>>
  BY DEF Probes
<1>2. ASSUME NEW q \in Seq(repairing) PROVE Probes(f, q) \in Seq(Loads)
  BY DEF Probes
<1>3. ASSUME NEW q \in Seq(repairing), NEW s \in repairing
      PROVE  Probes(f, Append(q, s)) = Append(Probes(f, q), f[s])
  <2> DEFINE r == Append(q, s)
             u == Append(Probes(f, q), f[s])
  <2>1. /\ Len(q) \in Nat /\ r \in Seq(repairing)
        /\ DOMAIN r = 1 .. Len(q) + 1 /\ r[Len(q) + 1] = s
        /\ \A k \in 1 .. Len(q) : r[k] = q[k]
    OBVIOUS
  <2>2. Probes(f, q) \in Seq(Loads) /\ Len(Probes(f, q)) = Len(q) /\ f[s] \in Loads
    <3>1. Probes(f, q) \in Seq(Loads)
      BY <1>2
    <3>2. DOMAIN Probes(f, q) = 1 .. Len(q)
      BY DEF Probes
    <3> QED BY <3>1, <3>2, <2>1
  <2>3. /\ u \in Seq(Loads) /\ DOMAIN u = 1 .. Len(q) + 1 /\ u[Len(q) + 1] = f[s]
        /\ \A k \in 1 .. Len(q) : u[k] = Probes(f, q)[k]
    <3> DEFINE v == Probes(f, q)
               e == f[s]
    <3>1. v \in Seq(Loads) /\ Len(v) = Len(q) /\ e \in Loads
      BY <2>2
    <3> HIDE DEF v, e
    <3>2. /\ Append(v, e) \in Seq(Loads) /\ DOMAIN Append(v, e) = 1 .. Len(q) + 1
          /\ Append(v, e)[Len(q) + 1] = e
          /\ \A k \in 1 .. Len(q) : Append(v, e)[k] = v[k]
      BY <3>1, <2>1
    <3> QED BY <3>2 DEF v, e
  <2>4. \A k \in 1 .. Len(q) : Probes(f, q)[k] = f[q[k]]
    BY DEF Probes
  <2> HIDE DEF r, u
  <2>5. Probes(f, r) = [k \in 1 .. Len(q) + 1 |-> f[r[k]]]
    BY <2>1 DEF Probes
  <2>6. \A k \in 1 .. Len(q) + 1 : k \in 1 .. Len(q) \/ k = Len(q) + 1
    BY <2>1
  <2>7. \A k \in 1 .. Len(q) + 1 : u[k] = f[r[k]]
    BY <2>1, <2>3, <2>4, <2>6
  <2>8. u = [k \in 1 .. Len(q) + 1 |-> u[k]]
    BY <2>3, <2>1
  <2>9. Probes(f, r) = u
    BY <2>5, <2>7, <2>8
  <2> QED BY <2>9 DEF r, u
<1> QED BY <1>1, <1>2, <1>3

LEMMA EnergyIs ==
  ASSUME NEW f \in [repairing -> Loads], NEW bs \in Arrangements, NumBatches \in Nat
  PROVE  /\ EnergyOf(f, bs) \in Int
         /\ Len(bs) = NumBatches
         /\ EnergyOf(f, bs) =
              SumOf([b \in 1 .. NumBatches |-> Bottleneck(Total(Probes(f, bs[b])))], NumBatches)
<1>1. Len(bs) = NumBatches /\ DOMAIN bs = 1 .. NumBatches
  BY DEF Arrangements
<1> DEFINE g == [b \in 1 .. NumBatches |-> Bottleneck(Total(Probes(f, bs[b])))]
<1>2. \A b \in 1 .. NumBatches : g[b] \in Nat
  <2> SUFFICES ASSUME NEW b \in 1 .. NumBatches PROVE g[b] \in Nat
    OBVIOUS
  <2>1. bs[b] \in Seq(repairing)
    BY ArrangementIs
  <2>2. Probes(f, bs[b]) \in Seq(Loads)
    BY <2>1, ProbesAre
  <2>3. Bottleneck(Total(Probes(f, bs[b]))) \in Nat
    BY <2>2, TotalType, BottleneckType
  <2> QED BY <2>3
<1>3. EnergyOf(f, bs) = SumOf(g, NumBatches)
  BY <1>1 DEF EnergyOf
<1>4. SumOf(g, NumBatches) \in Nat
  <2> HIDE DEF g
  <2> QED BY <1>2, SumOfType
<1> QED BY <1>1, <1>3, <1>4

LEMMA TotalsAre ==
  ASSUME TypeOK
  PROVE  /\ PackedIsTotal <=> (pc = "pack" => \A b \in 1 .. NumBatches :
                                                packed[b] = Total(Probes(probed, batches[b])))
         /\ \A bs : Energy(bs) = EnergyOf(probed, bs)
BY DEF PackedIsTotal, Probes, Energy, EnergyOf

LEMMA ColorsAre ==
  ASSUME NEW s \in Stripes
  PROVE  HyperLoads[s] \subseteq Loads /\ MultiLoads[s] \subseteq Loads
BY LoadsAssumption

----------------------------------------------------------------------------
(* The invariant holds at first. *)

LEMMA Start == Init => IInv
<1> SUFFICES ASSUME Init PROVE IInv
  OBVIOUS
<1> USE DEF Init
<1>1. repairing \in SUBSET Stripes
  OBVIOUS
<1>2. NumBatches \in Nat /\ Cardinality(repairing) \in Nat
      /\ (repairing = {} => NumBatches = 0)
      /\ (repairing = {} => Cardinality(repairing) = 0)
  BY <1>1, BatchCount, RepairingIsFinite
<1>3. \A b \in 1 .. NumBatches : batches[b] = <<>> /\ packed[b] = Zero
  OBVIOUS
<1>4. batches \in Arrangements
  BY DEF Arrangements
<1>5. TypeOK
  <2>1. probed \in [repairing -> Loads] /\ packed \in [1 .. NumBatches -> Loads] /\ table \in Loads
    BY PlusType
  <2>2. pc \in {"probe", "pack", "done"}
    OBVIOUS
  <2>3. generator \in {"new", "random", "fire", "fireNew"} /\ method \in {0, 1}
    BY GeneratorsAssumption, MethodsAssumption
  <2>4. next \in 1 .. Cardinality(repairing) + 1 /\ batchid \in 1 .. NumBatches + 1
    BY <1>2
  <2>5. round \in 0 .. Iterations /\ colored \in Seq(Loads)
    BY IterationsAssumption
  <2> QED BY <1>1, <1>4, <2>1, <2>2, <2>3, <2>4, <2>5 DEF TypeOK
<1>6. Stages
  BY <1>2, <1>3 DEF Stages
<1>7. Sizes
  <2>1. \A b \in 1 .. NumBatches : Len(batches[b]) = 0
    BY <1>3
  <2> QED BY <2>1 DEF Sizes
<1>8. InRuns
  <2>1. \A b \in 1 .. NumBatches : Len(batches[b]) = 0
    BY <1>3
  <2> QED BY <2>1 DEF InRuns
<1>9. EveryStripeOnce
  <2>1. {queue[i] : i \in 1 .. next - 1} = {}
    OBVIOUS
  <2>2. \A b, k : ~ IsPlace(batches, b, k)
    BY <1>3 DEF IsPlace
  <2>3. Arranged(batches, {})
    <3> HIDE DEF Init
    <3>1. /\ \A b, k : IsPlace(batches, b, k) => batches[b][k] \in {}
          /\ \A s \in {} : \E b, k : IsPlace(batches, b, k) /\ batches[b][k] = s
          /\ \A b, c, k, l : IsPlace(batches, b, k) /\ IsPlace(batches, c, l)
                               /\ batches[b][k] = batches[c][l] => b = c /\ k = l
      BY <2>2
    <3> QED BY <1>4, <3>1, ArrangedIs
  <2>4. pc = "done" => repairing = {}
    OBVIOUS
  <2>5. pc \in {"probe", "pack", "done"}
    OBVIOUS
  <2> QED BY <2>1, <2>3, <2>4, <2>5 DEF EveryStripeOnce
<1>10. PackedIsTotal
  <2>1. \A b \in 1 .. NumBatches : packed[b] = Total(Probes(probed, batches[b]))
    BY <1>3, <1>5, ProbesAre, TotalEmpty DEF TypeOK
  <2> QED BY <1>5, <2>1, TotalsAre
<1>11. BestIsBest /\ TableIsTotal
  BY DEF BestIsBest, TableIsTotal
<1>12. Emitted
  BY DEF Emitted
<1> QED BY <1>5, <1>6, <1>7, <1>8, <1>9, <1>10, <1>11, <1>12 DEF IInv

----------------------------------------------------------------------------
(* Every step keeps it. *)

\* What depends on the stripes to repair alone does not change.
LEMMA SameFrame ==
  ASSUME UNCHANGED <<generator, method, repairing>>
  PROVE  /\ NumBatches' = NumBatches /\ Arrangements' = Arrangements /\ Orders' = Orders
         /\ IsFire' = IsFire
BY DEF NumBatches, Arrangements, Orders, IsFire

LEMMA ProbeStep == ASSUME IInv, Probe PROVE IInv'
<1> USE DEF Probe
<1>1. /\ NumBatches' = NumBatches /\ Arrangements' = Arrangements /\ Orders' = Orders
      /\ IsFire' = IsFire
  BY SameFrame
<1>2. TypeOK /\ Stages /\ Sizes /\ EveryStripeOnce /\ Emitted /\ NumBatches \in Nat
  BY BatchCount DEF IInv, TypeOK
<1>3. /\ next = 1 /\ repairing # {} /\ batchid = 1 /\ emitted = <<>> /\ table = Zero
      /\ colored = <<>>
      /\ \A b \in 1 .. NumBatches : batches[b] = <<>> /\ packed[b] = Zero
  BY <1>2 DEF Stages
<1>4. probed' \in [repairing -> Loads]
  <2>1. \A s \in repairing : HyperLoads[s] \subseteq Loads
    BY <1>2, ColorsAre DEF TypeOK
  <2> QED BY <2>1
<1>5. queue' \in Orders
  BY DEF HeavyFirst
<1>6. TypeOK'
  BY <1>1, <1>2, <1>4, <1>5 DEF TypeOK
<1>7. Stages'
  BY <1>3 DEF Stages
<1>8. Sizes'
  BY <1>1, <1>2 DEF Sizes
<1>9. InRuns'
  <2>1. \A b \in 1 .. NumBatches : Len(batches[b]) = 0
    BY <1>3
  <2> QED BY <1>1, <2>1 DEF InRuns
<1>10. EveryStripeOnce'
  <2>1. {queue[i] : i \in 1 .. next - 1} = {} /\ {queue'[i] : i \in 1 .. next - 1} = {}
    BY <1>3
  <2>2. Arranged(batches, {})
    BY <1>2, <2>1 DEF EveryStripeOnce
  <2>3. Arranged(batches', {queue'[i] : i \in 1 .. next' - 1})
    BY <2>1, <2>2
  <2> QED BY <2>3 DEF EveryStripeOnce
<1>11. PackedIsTotal'
  <2>1. Probes(probed', <<>>) = <<>>
    BY <1>4, ProbesAre
  <2>2. \A b \in 1 .. NumBatches : packed[b] = Total(Probes(probed', batches[b]))
    BY <1>3, <2>1, TotalEmpty
  <2> QED BY <1>1, <2>2 DEF PackedIsTotal, Probes
<1>12. BestIsBest' /\ TableIsTotal'
  BY DEF BestIsBest, TableIsTotal
<1>13. Emitted'
  BY <1>2 DEF Emitted
<1> QED BY <1>6, <1>7, <1>8, <1>9, <1>10, <1>11, <1>12, <1>13 DEF IInv

LEMMA PackStep == ASSUME IInv, Pack PROVE IInv'
<1>1. /\ NumBatches' = NumBatches /\ Arrangements' = Arrangements /\ Orders' = Orders
      /\ IsFire' = IsFire
  BY SameFrame DEF Pack
<1>2. /\ TypeOK /\ Stages /\ Sizes /\ InRuns /\ EveryStripeOnce /\ PackedIsTotal /\ Emitted
      /\ NumBatches \in Nat
  BY BatchCount DEF IInv, TypeOK
<1> DEFINE s == queue[next]
           n == Cardinality(repairing)
<1>3. /\ pc = "pack" /\ next <= Len(queue) /\ next' = next + 1
      /\ UNCHANGED <<generator, method, repairing, pc, queue, probed, current, round,
                     batchid, table, colored, emitted>>
  BY DEF Pack
<1>4. PICK b \in BatchesFor(s) :
        /\ batches' = [batches EXCEPT ![b] = Append(@, s)]
        /\ packed' = [packed EXCEPT ![b] = Plus(@, probed[s])]
  BY DEF Pack
<1>5. n \in Nat /\ Len(queue) = n /\ next \in 1 .. n /\ s \in repairing
  <2>1. Len(queue) = n /\ n \in Nat
    BY <1>2, OrderIs
  <2>2. next \in 1 .. n
    BY <1>2, <1>3, <2>1 DEF TypeOK
  <2> QED BY <1>2, <2>1, <2>2, OrderIs
<1>6. b \in Open
  BY <1>2, <1>3, FoundRoom
<1>7. b \in 1 .. NumBatches /\ Len(batches[b]) < BatchSize
  BY <1>6 DEF Open
<1>8. Extends(batches', batches, b, s)
  BY <1>4 DEF Extends
<1>9. batches \in Arrangements /\ packed \in [1 .. NumBatches -> Loads]
      /\ probed \in [repairing -> Loads]
  BY <1>2 DEF TypeOK
<1> HIDE DEF s, n
<1>10. /\ batches' \in Arrangements
       /\ \A c \in 1 .. NumBatches : c # b => batches'[c] = batches[c]
       /\ batches'[b] = Append(batches[b], s)
       /\ Len(batches'[b]) = Len(batches[b]) + 1
  BY <1>5, <1>7, <1>8, <1>9, AppendIs
<1>11. /\ packed' \in [1 .. NumBatches -> Loads]
       /\ packed'[b] = Plus(packed[b], probed[s])
       /\ \A c \in 1 .. NumBatches : c # b => packed'[c] = packed[c]
  <2>1. Plus(packed[b], probed[s]) \in Loads
    BY <1>5, <1>7, <1>9, PlusType
  <2> QED BY <1>4, <1>7, <1>9, <2>1
<1>12. TypeOK'
  <2>1. next' \in 1 .. n + 1
    BY <1>3, <1>5
  <2> QED BY <1>1, <1>2, <1>3, <1>10, <1>11, <2>1 DEF TypeOK, n
<1>13. Stages'
  BY <1>2, <1>3 DEF Stages
<1>14. Sizes'
  <2>1. Len(batches[b]) \in Nat
    BY <1>7, <1>9, ArrangementIs
  <2>2. \A c \in 1 .. NumBatches : Len(batches'[c]) <= BatchSize
    BY <1>2, <1>7, <1>10, <2>1 DEF Sizes
  <2> QED BY <1>1, <1>3, <2>2 DEF Sizes
<1>15. InRuns'
  <2> SUFFICES ASSUME ~ IsFire, NEW c \in 1 .. NumBatches, Len(batches'[c]) > 0
               PROVE  (c - 1) * BatchSize + Len(batches'[c]) < next + 1
    BY <1>1, <1>3 DEF InRuns
  <2>1. CASE c = b
    <3>1. generator # "fire" /\ generator # "fireNew"
      BY DEF IsFire
    <3>2. b = (next - 1) \div BatchSize + 1
      BY <3>1 DEF BatchesFor
    <3>3. (((next - 1) \div BatchSize + 1) - 1) * BatchSize
            + Len(batches[(next - 1) \div BatchSize + 1]) + 1 < next + 1
      <4>1. next <= Cardinality(repairing)
        BY <1>5 DEF n
      <4> QED BY <4>1, <1>2, <1>3, RunHasRoom
    <3>4. (b - 1) * BatchSize + Len(batches[b]) + 1 < next + 1
      BY <3>2, <3>3
    <3>5. (b - 1) * BatchSize \in Int /\ Len(batches[b]) \in Nat
      BY <1>7, <1>9, ArrangementIs
    <3> DEFINE x == (b - 1) * BatchSize
    <3>6. x \in Int /\ x + Len(batches[b]) + 1 < next + 1
      BY <3>4, <3>5
    <3>7. (c - 1) * BatchSize = x /\ Len(batches'[c]) = Len(batches[b]) + 1
      BY <2>1, <1>10
    <3> HIDE DEF x
    <3>8. x + (Len(batches[b]) + 1) < next + 1
      BY <3>5, <3>6, <1>5
    <3> QED BY <3>7, <3>8
  <2>2. CASE c # b
    <3>1. batches'[c] = batches[c]
      BY <1>10, <2>2
    <3>2. (c - 1) * BatchSize + Len(batches[c]) < next
      BY <1>2, <1>3, <3>1 DEF InRuns
    <3>3. (c - 1) * BatchSize \in Int /\ Len(batches[c]) \in Nat
      BY <1>9, ArrangementIs
    <3> DEFINE x == (c - 1) * BatchSize
    <3>4. x \in Int /\ x + Len(batches[c]) < next
      BY <3>2, <3>3
    <3> HIDE DEF x
    <3>5. next \in Nat
      BY <1>5
    <3>6. x + Len(batches[c]) < next + 1
      BY <3>3, <3>4, <3>5
    <3> QED BY <3>1, <3>6 DEF x
  <2> QED BY <2>1, <2>2
<1>16. EveryStripeOnce'
  <2> DEFINE S == {queue[i] : i \in 1 .. next - 1}
  <2>1. {queue[i] : i \in 1 .. (next + 1) - 1} = S \cup {s}
    <3>1. \A i : i \in 1 .. (next + 1) - 1 <=> i \in 1 .. next - 1 \/ i = next
      BY <1>5
    <3> QED BY <3>1 DEF s
  <2>2. s \notin S
    <3> SUFFICES ASSUME NEW i \in 1 .. next - 1, queue[i] = s PROVE FALSE
      OBVIOUS
    <3>1. i \in 1 .. n /\ i # next
      BY <1>5
    <3>2. \A j, k \in 1 .. n : queue[j] = queue[k] => j = k
      BY <1>2, OrderIs DEF n
    <3> QED BY <3>1, <3>2, <1>5 DEF s
  <2>3. Arranged(batches, S)
    BY <1>2 DEF EveryStripeOnce
  <2> HIDE DEF S
  <2>4. Arranged(batches', S \cup {s})
    BY <1>5, <1>7, <1>8, <1>9, <2>2, <2>3, ArrangedAppend
  <2>5. Arranged(batches', {queue'[i] : i \in 1 .. next' - 1})
    BY <1>3, <2>1, <2>4
  <2> QED BY <1>3, <2>5 DEF EveryStripeOnce
<1>17. PackedIsTotal'
  <2>1. \A c \in 1 .. NumBatches : packed[c] = Total(Probes(probed, batches[c]))
    BY <1>2, <1>3, TotalsAre
  <2>2. packed'[b] = Total(Probes(probed, batches'[b]))
    <3>1. batches[b] \in Seq(repairing)
      BY <1>7, <1>9, ArrangementIs
    <3>2. /\ Probes(probed, batches[b]) \in Seq(Loads)
          /\ Probes(probed, batches'[b]) = Append(Probes(probed, batches[b]), probed[s])
      BY <1>5, <1>9, <1>10, <3>1, ProbesAre
    <3>3. probed[s] \in Loads
      BY <1>5, <1>9
    <3>4. Total(Probes(probed, batches'[b])) = Plus(Total(Probes(probed, batches[b])), probed[s])
      BY <3>2, <3>3, TotalAppend
    <3> QED BY <1>7, <1>11, <2>1, <3>4
  <2>3. \A c \in 1 .. NumBatches : packed'[c] = Total(Probes(probed, batches'[c]))
    BY <1>10, <1>11, <2>1, <2>2
  <2> QED BY <1>1, <1>3, <2>3 DEF PackedIsTotal, Probes
<1>18. BestIsBest' /\ TableIsTotal'
  BY <1>3 DEF BestIsBest, TableIsTotal
<1>19. Emitted'
  <2>1. batchid = 1 /\ emitted = <<>>
    BY <1>2, <1>3 DEF Stages
  <2> QED BY <1>2, <1>3, <2>1 DEF Emitted
<1> QED BY <1>12, <1>13, <1>14, <1>15, <1>16, <1>17, <1>18, <1>19 DEF IInv

LEMMA EndPackingStep == ASSUME IInv, EndPacking PROVE IInv'
<1>1. /\ NumBatches' = NumBatches /\ Arrangements' = Arrangements /\ Orders' = Orders
      /\ IsFire' = IsFire
  BY SameFrame DEF EndPacking
<1>2. /\ TypeOK /\ Stages /\ Sizes /\ EveryStripeOnce /\ PackedIsTotal /\ Emitted
      /\ NumBatches \in Nat
  BY BatchCount DEF IInv, TypeOK
<1>3. /\ pc = "pack" /\ next > Len(queue) /\ pc' \in {"anneal", "color"} /\ current' = batches
      /\ UNCHANGED <<generator, method, repairing, queue, probed, next, batches, packed,
                     round, batchid, table, colored, emitted>>
  BY DEF EndPacking
<1> DEFINE n == Cardinality(repairing)
<1>4. n \in Nat /\ next = n + 1
  <2>1. Len(queue) = n /\ n \in Nat
    BY <1>2, OrderIs
  <2> QED BY <1>2, <1>3, <2>1 DEF TypeOK
<1>5. batches \in Arrangements /\ packed \in [1 .. NumBatches -> Loads]
      /\ probed \in [repairing -> Loads]
  BY <1>2 DEF TypeOK
<1>6. TypeOK'
  BY <1>1, <1>2, <1>3, <1>5 DEF TypeOK
<1>7. Stages'
  BY <1>2, <1>3, <1>4 DEF Stages
<1>8. Sizes'
  BY <1>1, <1>2, <1>3 DEF Sizes
<1>9. InRuns' /\ PackedIsTotal'
  BY <1>3 DEF InRuns, PackedIsTotal
<1>10. EveryStripeOnce'
  <2>1. {queue[i] : i \in 1 .. next - 1} = repairing
    <3>1. 1 .. next - 1 = 1 .. n
      BY <1>4
    <3>2. \A s \in repairing : \E i \in 1 .. n : queue[i] = s
      BY <1>2, OrderIs
    <3>3. \A i \in 1 .. n : queue[i] \in repairing
      BY <1>2, OrderIs
    <3> QED BY <3>1, <3>2, <3>3
  <2>2. Arranged(batches, {queue[i] : i \in 1 .. next - 1})
    BY <1>2 DEF EveryStripeOnce
  <2> QED BY <1>3, <2>1, <2>2 DEF EveryStripeOnce
<1>11. BestIsBest'
  <2>1. EnergyOf(probed, batches) \in Int
    BY <1>2, <1>5, EnergyIs
  <2>2. \A bs : Energy(bs) = EnergyOf(probed, bs)
    BY <1>2, TotalsAre
  <2>3. Energy(batches)' = EnergyOf(probed, batches) /\ Energy(current)' = EnergyOf(probed, batches)
    BY <1>3 DEF Energy, EnergyOf, Probes
  <2>4. \A b \in 1 .. NumBatches : packed[b] = Total(Probes(probed, batches[b]))
    BY <1>2, <1>3, TotalsAre
  <2>5. DOMAIN packed = 1 .. NumBatches
    BY <1>5
  <2>6. EnergyOf(probed, batches) =
          SumOf([b \in 1 .. NumBatches |-> Bottleneck(Total(Probes(probed, batches[b])))], NumBatches)
    BY <1>2, <1>5, EnergyIs
  <2>7. [b \in DOMAIN packed |-> Bottleneck(packed[b])]
          = [b \in 1 .. NumBatches |-> Bottleneck(Total(Probes(probed, batches[b])))]
    BY <2>4, <2>5
  <2>8. EnergyOf(probed, batches)
          = SumOf([b \in DOMAIN packed |-> Bottleneck(packed[b])], NumBatches)
    BY <2>6, <2>7
  <2>9. SumOf([b \in DOMAIN packed |-> Bottleneck(packed[b])], NumBatches)'
          = SumOf([b \in DOMAIN packed |-> Bottleneck(packed[b])], NumBatches)
    BY <1>1, <1>3
  <2> QED BY <2>1, <2>3, <2>8, <2>9 DEF BestIsBest
<1>12. TableIsTotal'
  <2>1. table = Zero /\ colored = <<>>
    BY <1>2, <1>3 DEF Stages
  <2> QED BY <1>3, <2>1, TotalEmpty DEF TableIsTotal
<1>13. Emitted'
  BY <1>2, <1>3 DEF Emitted
<1> QED BY <1>6, <1>7, <1>8, <1>9, <1>10, <1>11, <1>12, <1>13 DEF IInv

LEMMA AnnealStep == ASSUME IInv, Anneal PROVE IInv'
<1>1. /\ NumBatches' = NumBatches /\ Arrangements' = Arrangements /\ Orders' = Orders
      /\ IsFire' = IsFire
  BY SameFrame DEF Anneal
<1>2. /\ TypeOK /\ Stages /\ Sizes /\ EveryStripeOnce /\ BestIsBest /\ Emitted
      /\ NumBatches \in Nat
  BY BatchCount DEF IInv, TypeOK
<1>3. /\ pc = "anneal" /\ round < Iterations /\ round' = round + 1
      /\ UNCHANGED <<generator, method, repairing, pc, queue, probed, next, packed,
                     batchid, table, colored, emitted>>
  BY DEF Anneal
<1>4. PICK p \in Places(current), q \in Places(current) :
        /\ p[1] < q[1]
        /\ \/ Accept(Swapped(current, p, q))
           \/ UNCHANGED <<current, batches>>
  BY DEF Anneal
<1> DEFINE swapped == Swapped(current, p, q)
<1>5. /\ batches \in Arrangements /\ current \in Arrangements
      /\ probed \in [repairing -> Loads] /\ round \in 0 .. Iterations
  BY <1>2, <1>3 DEF TypeOK
<1>6. /\ Arranged(batches, repairing) /\ Arranged(current, repairing)
      /\ \A b \in 1 .. NumBatches : Len(batches[b]) <= BatchSize /\ Len(current[b]) = Len(batches[b])
      /\ Energy(batches) <= Energy(current)
  BY <1>2, <1>3 DEF EveryStripeOnce, Sizes, BestIsBest
<1>7. /\ swapped \in Arrangements
      /\ \A b \in 1 .. NumBatches : Len(swapped[b]) = Len(current[b])
      /\ Arranged(swapped, repairing)
  BY <1>4, <1>5, <1>6, SwappedIs
<1>8. \A bs \in Arrangements : Energy(bs) \in Int
  <2>1. \A bs : Energy(bs) = EnergyOf(probed, bs)
    BY <1>2, TotalsAre
  <2>2. \A bs \in Arrangements : EnergyOf(probed, bs) \in Int
    BY <1>2, <1>5, EnergyIs
  <2> QED BY <2>1, <2>2
<1> HIDE DEF swapped
<1>9. \/ current' = swapped /\ batches' = swapped
         /\ Energy(swapped) < Energy(current) /\ Energy(swapped) < Energy(batches)
      \/ current' = swapped /\ batches' = batches
         /\ ~ (Energy(swapped) < Energy(current) /\ Energy(swapped) < Energy(batches))
      \/ current' = current /\ batches' = batches
  BY <1>4 DEF Accept, swapped
<1>10. /\ batches' \in Arrangements /\ current' \in Arrangements
       /\ Arranged(batches', repairing) /\ Arranged(current', repairing)
       /\ \A b \in 1 .. NumBatches : Len(batches'[b]) <= BatchSize
                                     /\ Len(current'[b]) = Len(batches'[b])
  BY <1>5, <1>6, <1>7, <1>9
<1>11. Energy(batches') <= Energy(current') /\ Energy(batches') <= Energy(batches)
  <2>1. Energy(swapped) \in Int /\ Energy(current) \in Int /\ Energy(batches) \in Int
    BY <1>5, <1>7, <1>8
  <2>2. CASE current' = swapped /\ batches' = swapped
    BY <1>9, <1>6, <2>1, <2>2
  <2>3. CASE current' = swapped /\ batches' = batches
             /\ ~ (Energy(swapped) < Energy(current) /\ Energy(swapped) < Energy(batches))
    BY <1>6, <2>1, <2>3
  <2>4. CASE current' = current /\ batches' = batches
    BY <1>6, <2>1, <2>4
  <2> QED BY <1>9, <2>2, <2>3, <2>4
<1>12. TypeOK'
  <2>1. round' \in 0 .. Iterations
    BY <1>3, <1>5, IterationsAssumption
  <2> QED BY <1>1, <1>2, <1>3, <1>10, <2>1 DEF TypeOK
<1>13. Stages'
  BY <1>2, <1>3 DEF Stages
<1>14. Sizes'
  BY <1>1, <1>3, <1>10 DEF Sizes
<1>15. InRuns' /\ PackedIsTotal' /\ TableIsTotal'
  BY <1>3 DEF InRuns, PackedIsTotal, TableIsTotal
<1>16. EveryStripeOnce'
  <2>1. {queue[i] : i \in 1 .. next - 1} = repairing
    <3>1. next = Cardinality(repairing) + 1
      BY <1>2, <1>3 DEF Stages
    <3>2. /\ Cardinality(repairing) \in Nat
          /\ \A s \in repairing : \E i \in 1 .. Cardinality(repairing) : queue[i] = s
          /\ \A i \in 1 .. Cardinality(repairing) : queue[i] \in repairing
      BY <1>2, OrderIs
    <3>3. next - 1 = Cardinality(repairing)
      BY <3>1, <3>2
    <3> QED BY <3>2, <3>3
  <2> QED BY <1>3, <1>10, <2>1 DEF EveryStripeOnce
<1>17. BestIsBest'
  <2>1. Energy(batches)' = Energy(batches') /\ Energy(current)' = Energy(current')
    BY <1>3 DEF Energy
  <2> DEFINE bound == SumOf([b \in DOMAIN packed |-> Bottleneck(packed[b])], NumBatches)
  <2>2. bound' = bound
    BY <1>1, <1>3
  <2>3. IsFire => Energy(batches) <= bound
    BY <1>2, <1>3 DEF BestIsBest
  <2>4. bound \in Int
    <3>1. packed \in [1 .. NumBatches -> Loads]
      BY <1>2 DEF TypeOK
    <3> DEFINE g == [b \in DOMAIN packed |-> Bottleneck(packed[b])]
    <3>2. \A b \in 1 .. NumBatches : g[b] \in Nat
      BY <3>1, BottleneckType
    <3>3. SumOf(g, NumBatches) \in Nat
      <4> HIDE DEF g
      <4> QED BY <1>2, <3>2, SumOfType
    <3> QED BY <3>3
  <2> HIDE DEF bound
  <2>5. Energy(batches') \in Int /\ Energy(batches) \in Int
    BY <1>5, <1>8, <1>10
  <2>6. IsFire => Energy(batches') <= bound
    BY <1>11, <2>3, <2>4, <2>5
  <2> QED BY <1>1, <1>3, <1>11, <2>1, <2>2, <2>6 DEF BestIsBest, bound
<1>18. Emitted'
  <2>1. batchid = 1 /\ emitted = <<>>
    BY <1>2, <1>3 DEF Stages
  <2> QED BY <1>3, <2>1 DEF Emitted
<1> QED BY <1>12, <1>13, <1>14, <1>15, <1>16, <1>17, <1>18 DEF IInv

LEMMA EndAnnealingStep == ASSUME IInv, EndAnnealing PROVE IInv'
<1>1. /\ NumBatches' = NumBatches /\ Arrangements' = Arrangements /\ Orders' = Orders
      /\ IsFire' = IsFire
  BY SameFrame DEF EndAnnealing
<1>2. /\ TypeOK /\ Stages /\ Sizes /\ EveryStripeOnce /\ BestIsBest /\ Emitted
  BY DEF IInv
<1>3. /\ pc = "anneal" /\ pc' = "color"
      /\ UNCHANGED <<generator, method, repairing, queue, probed, next, batches, packed,
                     current, round, batchid, table, colored, emitted>>
  BY DEF EndAnnealing
<1>4. TypeOK'
  BY <1>1, <1>2, <1>3 DEF TypeOK
<1>5. Stages' /\ Sizes'
  BY <1>1, <1>2, <1>3 DEF Stages, Sizes
<1>6. InRuns' /\ PackedIsTotal'
  BY <1>3 DEF InRuns, PackedIsTotal
<1>7. EveryStripeOnce'
  BY <1>2, <1>3 DEF EveryStripeOnce
<1>8. BestIsBest'
  <2>1. Energy(batches)' = Energy(batches)
    BY <1>3 DEF Energy
  <2>2. SumOf([b \in DOMAIN packed |-> Bottleneck(packed[b])], NumBatches)'
          = SumOf([b \in DOMAIN packed |-> Bottleneck(packed[b])], NumBatches)
    BY <1>1, <1>3
  <2> QED BY <1>1, <1>2, <1>3, <2>1, <2>2 DEF BestIsBest
<1>9. TableIsTotal'
  <2>1. table = Zero /\ colored = <<>>
    BY <1>2, <1>3 DEF Stages
  <2> QED BY <1>3, <2>1, TotalEmpty DEF TableIsTotal
<1>10. Emitted'
  BY <1>2, <1>3 DEF Emitted
<1> QED BY <1>4, <1>5, <1>6, <1>7, <1>8, <1>9, <1>10 DEF IInv

LEMMA ColorStep == ASSUME IInv, Color PROVE IInv'
<1>1. /\ NumBatches' = NumBatches /\ Arrangements' = Arrangements /\ Orders' = Orders
      /\ IsFire' = IsFire
  BY SameFrame DEF Color
<1>2. /\ TypeOK /\ Stages /\ Sizes /\ EveryStripeOnce /\ BestIsBest /\ TableIsTotal /\ Emitted
  BY DEF IInv
<1>3. /\ pc = "color" /\ batchid <= NumBatches /\ Len(colored) < Len(batches[batchid])
      /\ UNCHANGED <<generator, method, repairing, pc, queue, probed, next, batches,
                     packed, current, round, batchid, emitted>>
  BY DEF Color
<1> DEFINE s == batches[batchid][Len(colored) + 1]
<1>4. PICK hyper \in HyperLoads[s], multi \in MultiLoads[s] :
        LET kept == IF UseMulti(hyper, multi) THEN multi ELSE hyper
        IN  /\ table' = TableAfter(kept, hyper, multi)
            /\ colored' = Append(colored, kept)
  BY DEF Color
<1> DEFINE kept == IF UseMulti(hyper, multi) THEN multi ELSE hyper
<1>5. table' = TableAfter(kept, hyper, multi) /\ colored' = Append(colored, kept)
  BY <1>4
<1>6. s \in Stripes
  <2>1. batchid \in 1 .. NumBatches /\ batches \in Arrangements /\ colored \in Seq(Loads)
        /\ repairing \in SUBSET Stripes
    <3>1. NumBatches \in Nat
      BY <1>2, BatchCount DEF TypeOK
    <3> QED BY <1>2, <1>3, <3>1 DEF TypeOK
  <2>2. Len(colored) + 1 \in 1 .. Len(batches[batchid])
    <3>1. Len(colored) \in Nat /\ Len(batches[batchid]) \in Nat
      BY <2>1, ArrangementIs
    <3> QED BY <1>3, <3>1
  <2> QED BY <2>1, <2>2, ArrangementIs
<1>7. hyper \in Loads /\ multi \in Loads /\ kept \in Loads
  <2> HIDE DEF s
  <2>1. HyperLoads[s] \subseteq Loads /\ MultiLoads[s] \subseteq Loads
    BY <1>6, ColorsAre
  <2> QED BY <2>1
<1> HIDE DEF s, kept
<1>8. table \in Loads /\ colored \in Seq(Loads)
  BY <1>2 DEF TypeOK
<1>9. table' \in Loads
  <2>1. table' = multi \/ table' = Plus(table, kept)
    BY <1>5 DEF TableAfter
  <2> QED BY <1>7, <1>8, <2>1, PlusType
<1>10. colored' \in Seq(Loads)
  BY <1>5, <1>7, <1>8
<1>11. TypeOK'
  BY <1>1, <1>2, <1>3, <1>9, <1>10 DEF TypeOK
<1>12. Stages' /\ Sizes'
  BY <1>1, <1>2, <1>3 DEF Stages, Sizes
<1>13. InRuns' /\ PackedIsTotal'
  BY <1>3 DEF InRuns, PackedIsTotal
<1>14. EveryStripeOnce'
  BY <1>2, <1>3 DEF EveryStripeOnce
<1>15. BestIsBest'
  <2>1. Energy(batches)' = Energy(batches)
    BY <1>3 DEF Energy
  <2>2. SumOf([b \in DOMAIN packed |-> Bottleneck(packed[b])], NumBatches)'
          = SumOf([b \in DOMAIN packed |-> Bottleneck(packed[b])], NumBatches)
    BY <1>1, <1>3
  <2> QED BY <1>1, <1>2, <1>3, <2>1, <2>2 DEF BestIsBest
<1>16. TableIsTotal'
  <2> SUFFICES ASSUME ~ (generator = "new" /\ method = 1) PROVE table' = Total(colored')
    BY <1>3 DEF TableIsTotal
  <2>1. table = Total(colored)
    BY <1>2, <1>3 DEF TableIsTotal
  <2>2. table' = Plus(table, kept)
    BY <1>5 DEF TableAfter
  <2>3. Total(Append(colored, kept)) = Plus(Total(colored), kept)
    BY <1>7, <1>8, TotalAppend
  <2> QED BY <1>5, <2>1, <2>2, <2>3
<1>17. Emitted'
  BY <1>2, <1>3 DEF Emitted
<1> QED BY <1>11, <1>12, <1>13, <1>14, <1>15, <1>16, <1>17 DEF IInv

LEMMA HandOverStep == ASSUME IInv, HandOver PROVE IInv'
<1>1. /\ NumBatches' = NumBatches /\ Arrangements' = Arrangements /\ Orders' = Orders
      /\ IsFire' = IsFire
  BY SameFrame DEF HandOver
<1>2. /\ TypeOK /\ Stages /\ Sizes /\ EveryStripeOnce /\ BestIsBest /\ Emitted
      /\ NumBatches \in Nat
  BY BatchCount DEF IInv, TypeOK
<1>3. /\ pc = "color" /\ batchid <= NumBatches /\ batchid' = batchid + 1
      /\ colored' = <<>> /\ table' = Zero
      /\ UNCHANGED <<generator, method, repairing, pc, queue, probed, next, batches,
                     packed, current, round>>
  BY DEF HandOver
<1>4. batchid \in 1 .. NumBatches
  BY <1>2, <1>3 DEF TypeOK
<1>5. TypeOK'
  <2>1. batchid' \in 1 .. NumBatches + 1
    BY <1>2, <1>3, <1>4
  <2>2. table' \in Loads /\ colored' \in Seq(Loads)
    BY <1>3, PlusType
  <2> QED BY <1>1, <1>2, <1>3, <2>1, <2>2 DEF TypeOK
<1>6. Stages' /\ Sizes'
  BY <1>1, <1>2, <1>3 DEF Stages, Sizes
<1>7. InRuns' /\ PackedIsTotal'
  BY <1>3 DEF InRuns, PackedIsTotal
<1>8. EveryStripeOnce'
  BY <1>2, <1>3 DEF EveryStripeOnce
<1>9. BestIsBest'
  <2>1. Energy(batches)' = Energy(batches)
    BY <1>3 DEF Energy
  <2>2. SumOf([b \in DOMAIN packed |-> Bottleneck(packed[b])], NumBatches)'
          = SumOf([b \in DOMAIN packed |-> Bottleneck(packed[b])], NumBatches)
    BY <1>1, <1>3
  <2> QED BY <1>1, <1>2, <1>3, <2>1, <2>2 DEF BestIsBest
<1>10. TableIsTotal'
  BY <1>3, TotalEmpty DEF TableIsTotal
<1>11. Emitted'
  <2> DEFINE r == [stripes |-> batches[batchid], load |-> Bottleneck(Total(colored))]
             R == [stripes : Seq(repairing), load : Nat]
  <2>1. r \in R /\ r.stripes = batches[batchid]
    <3>1. batches[batchid] \in Seq(repairing)
      BY <1>2, <1>4, ArrangementIs DEF TypeOK
    <3>2. Bottleneck(Total(colored)) \in Nat
      <4>1. colored \in Seq(Loads)
        BY <1>2 DEF TypeOK
      <4> QED BY <4>1, TotalType, BottleneckType
    <3> QED BY <3>1, <3>2
  <2>2. emitted' = Append(emitted, r)
    BY DEF HandOver
  <2>3. /\ emitted \in Seq(R) /\ Len(emitted) = batchid - 1
        /\ \A i \in 1 .. batchid - 1 : emitted[i].stripes = batches[i]
    BY <1>2 DEF Emitted
  <2>4. R' = R
    BY <1>3
  <2> HIDE DEF r, R
  <2>5. /\ emitted' \in Seq(R) /\ Len(emitted') = batchid
        /\ emitted'[batchid] = r
        /\ \A i \in 1 .. batchid - 1 : emitted'[i] = emitted[i]
    BY <1>4, <2>1, <2>2, <2>3
  <2>6. \A i \in 1 .. batchid : emitted'[i].stripes = batches[i]
    <3>1. \A i \in 1 .. batchid : i = batchid \/ i \in 1 .. batchid - 1
      BY <1>4
    <3> QED BY <3>1, <2>1, <2>3, <2>5
  <2>7. batchid' - 1 = batchid
    BY <1>3, <1>4
  <2>8. emitted' \in Seq([stripes : Seq(repairing'), load : Nat])
    BY <1>3, <2>5 DEF R
  <2> QED BY <1>3, <2>5, <2>6, <2>7, <2>8 DEF Emitted
<1> QED BY <1>5, <1>6, <1>7, <1>8, <1>9, <1>10, <1>11 DEF IInv

LEMMA FinishStep == ASSUME IInv, Finish PROVE IInv'
<1>1. /\ NumBatches' = NumBatches /\ Arrangements' = Arrangements /\ Orders' = Orders
      /\ IsFire' = IsFire
  BY SameFrame DEF Finish
<1>2. /\ TypeOK /\ Stages /\ Sizes /\ EveryStripeOnce /\ Emitted
  BY DEF IInv
<1>3. /\ pc = "color" /\ pc' = "done"
      /\ UNCHANGED <<generator, method, repairing, queue, probed, next, batches, packed,
                     current, round, batchid, table, colored, emitted>>
  BY DEF Finish
<1>4. TypeOK'
  BY <1>1, <1>2, <1>3 DEF TypeOK
<1>5. Stages' /\ Sizes'
  BY <1>1, <1>2, <1>3 DEF Stages, Sizes
<1>6. InRuns' /\ PackedIsTotal' /\ BestIsBest' /\ TableIsTotal'
  BY <1>3 DEF InRuns, PackedIsTotal, BestIsBest, TableIsTotal
<1>7. EveryStripeOnce'
  BY <1>2, <1>3 DEF EveryStripeOnce
<1>8. Emitted'
  BY <1>2, <1>3 DEF Emitted
<1> QED BY <1>4, <1>5, <1>6, <1>7, <1>8 DEF IInv

LEMMA StutterStep == ASSUME IInv, UNCHANGED vars PROVE IInv'
<1> USE DEF vars
<1>1. /\ NumBatches' = NumBatches /\ Arrangements' = Arrangements /\ Orders' = Orders
      /\ IsFire' = IsFire
  BY SameFrame
<1>2. TypeOK'
  BY <1>1 DEF IInv, TypeOK
<1>3. Stages' /\ Sizes'
  BY <1>1 DEF IInv, Stages, Sizes
<1>4. InRuns' /\ EveryStripeOnce'
  BY <1>1 DEF IInv, InRuns, EveryStripeOnce
<1>5. PackedIsTotal' /\ TableIsTotal'
  BY <1>1 DEF IInv, PackedIsTotal, TableIsTotal
<1>6. BestIsBest'
  <2>1. Energy(batches)' = Energy(batches) /\ Energy(current)' = Energy(current)
    BY DEF Energy
  <2>2. SumOf([b \in DOMAIN packed |-> Bottleneck(packed[b])], NumBatches)'
          = SumOf([b \in DOMAIN packed |-> Bottleneck(packed[b])], NumBatches)
    BY <1>1
  <2> QED BY <1>1, <2>1, <2>2 DEF IInv, BestIsBest
<1>7. Emitted'
  BY <1>1 DEF IInv, Emitted
<1> QED BY <1>2, <1>3, <1>4, <1>5, <1>6, <1>7 DEF IInv

\* The inductive invariant: the types, what every stage leaves to the next one,
\* where the stripes are, and that the tables are those of the batches.
THEOREM Invariance == SafeSpec => []IInv
<1>1. IInv /\ [Next]_vars => IInv'
  BY ProbeStep, PackStep, EndPackingStep, AnnealStep, EndAnnealingStep, ColorStep,
     HandOverStep, FinishStep, StutterStep DEF Next
<1> QED BY Start, <1>1, PTL DEF SafeSpec

\* No batch is empty when annealing draws from it, when it is colored or handed over.
LEMMA AllFilled == IInv => BatchesFilled
<1> SUFFICES ASSUME IInv, pc \in {"anneal", "color", "done"}, NEW b \in 1 .. NumBatches
             PROVE  /\ Len(batches[b]) \in 1 .. BatchSize
                    /\ pc = "anneal" => Len(current[b]) \in 1 .. BatchSize
  BY DEF BatchesFilled
<1>1. TypeOK /\ Sizes /\ EveryStripeOnce
  BY DEF IInv
<1>2. repairing \in SUBSET Stripes /\ batches \in Arrangements
  BY <1>1 DEF TypeOK
<1>3. repairing # {}
  BY <1>2, BatchCount
<1>4. Arranged(batches, repairing) /\ \A c \in 1 .. NumBatches : Len(batches[c]) <= BatchSize
  BY <1>1 DEF EveryStripeOnce, Sizes
<1>5. Len(batches[b]) \in 1 .. BatchSize
  BY <1>2, <1>3, <1>4, NoBatchIsEmpty
<1>6. pc = "anneal" => Len(current[b]) = Len(batches[b])
  BY <1>1 DEF Sizes
<1> QED BY <1>5, <1>6

\* Every stripe is at one place, whatever packing and annealing have done; packing
\* finds a batch with room, so best_batch_idx is never -1; and no batch overflows
\* or is empty.
THEOREM EveryStripeHasItsPlace == Spec => []StripesArePlaced
<1>1. IInv => RoomForAll
  <2> SUFFICES ASSUME IInv, pc = "pack", next <= Len(queue)
               PROVE  /\ BatchesFor(queue[next]) # {}
                      /\ BatchesFor(queue[next]) \subseteq Open
    BY DEF RoomForAll
  <2> QED BY FoundRoom DEF IInv
<1>2. IInv => StripesArePlaced
  BY <1>1, AllFilled DEF IInv, StripesArePlaced
<1> QED BY Invariance, <1>2, PTL DEF Spec

\* The tables that packing and coloring are guided by agree with the batches:
\* batch_node_loads with the stripes in each batch, and loadtable, except in
\* "new" with method 1, with the colorings in use.
THEOREM ComparedLoadsAreReal == Spec => []TablesAreTotal
<1>1. IInv => TablesAreTotal
  BY DEF IInv, TablesAreTotal
<1> QED BY Invariance, <1>1, PTL DEF Spec

\* Annealing keeps the best solution: it is never worse than the solution that
\* annealing is at, and the batches that are colored never worse than what packing made.
THEOREM AnnealingNeverHurts == Spec => []BestIsBest
<1>1. IInv => BestIsBest
  BY DEF IInv
<1> QED BY Invariance, <1>1, PTL DEF Spec

----------------------------------------------------------------------------
(* The batches handed over are a plan. *)

\* A batch has as many stripes as places.
LEMMA StripesCounted ==
  ASSUME IInv, pc = "color", NEW b \in 1 .. NumBatches
  PROVE  /\ StripesIn(batches[b]) \subseteq repairing
         /\ Cardinality(StripesIn(batches[b])) \in 1 .. BatchSize
         /\ \A c \in 1 .. NumBatches : c # b => StripesIn(batches[b]) \cap StripesIn(batches[c]) = {}
<1> DEFINE q == batches[b]
           S == StripesIn(q)
<1>1. batches \in Arrangements /\ Arranged(batches, repairing)
  BY DEF IInv, TypeOK, EveryStripeOnce
<1>2. \A c \in 1 .. NumBatches :
        /\ Len(batches[c]) \in Nat /\ DOMAIN batches[c] = 1 .. Len(batches[c])
        /\ \A k \in 1 .. Len(batches[c]) : batches[c][k] \in repairing
  BY <1>1, ArrangementIs
<1>3. \A c, d, k, l : IsPlace(batches, c, k) /\ IsPlace(batches, d, l)
                        /\ batches[c][k] = batches[d][l] => c = d /\ k = l
  BY <1>1, ArrangedIs
<1>4. Len(q) \in 1 .. BatchSize
  BY AllFilled DEF BatchesFilled
<1>5. \A c \in 1 .. NumBatches :
        StripesIn(batches[c]) = {batches[c][k] : k \in 1 .. Len(batches[c])}
  BY <1>2 DEF StripesIn
<1>6. S \subseteq repairing
  <2>1. S = {q[k] : k \in 1 .. Len(q)}
    BY <1>5
  <2>2. \A k \in 1 .. Len(q) : q[k] \in repairing
    BY <1>2
  <2> HIDE DEF S, q
  <2> QED BY <2>1, <2>2
<1>7. ASSUME NEW c \in 1 .. NumBatches, c # b, NEW s \in S, s \in StripesIn(batches[c])
      PROVE  FALSE
  <2>1. PICK k \in 1 .. Len(q) : q[k] = s
    BY <1>5
  <2>2. PICK l \in 1 .. Len(batches[c]) : batches[c][l] = s
    BY <1>5, <1>7
  <2>3. IsPlace(batches, b, k) /\ IsPlace(batches, c, l)
    BY DEF IsPlace
  <2> QED BY <1>3, <1>7, <2>1, <2>2, <2>3
<1>8. Cardinality(S) = Len(q)
  <2> DEFINE m == Len(q)
             f == [k \in 1 .. m |-> q[k]]
  <2>1. \A k, l \in 1 .. m : q[k] = q[l] => k = l
    BY <1>3 DEF IsPlace
  <2>2. S = {q[k] : k \in 1 .. m}
    BY <1>5
  <2>3. f \in Injection(1 .. m, S)
    <3>1. f \in [1 .. m -> S]
      BY <2>2
    <3>2. \A k, l \in 1 .. m : f[k] = f[l] => k = l
      BY <2>1
    <3> HIDE DEF f, m, S
    <3> QED BY <3>1, <3>2 DEF Injection, IsInjective
  <2>4. f \in Surjection(1 .. m, S)
    <3>1. f \in [1 .. m -> S]
      BY <2>2
    <3>2. \A s \in S : \E k \in 1 .. m : f[k] = s
      BY <2>2
    <3> HIDE DEF f, m, S
    <3> QED BY <3>1, <3>2 DEF Surjection
  <2>5. m \in Nat
    BY <1>4
  <2> HIDE DEF f, m, S
  <2>6. IsFiniteSet(1 .. m) /\ Cardinality(1 .. m) = m
    BY <2>5, UpTo
  <2>7. Cardinality(S) = Cardinality(1 .. m)
    BY <2>3, <2>4, <2>6, FS_Surjection
  <2> QED BY <2>6, <2>7 DEF m
<1> QED BY <1>4, <1>6, <1>7, <1>8

\* BatchPlan's Cardinality is the one of this module.
LEMMA SameCardinality ==
  ASSUME NEW X
  PROVE  Plan!Cardinality(X) = Cardinality(X)
BY Zenon DEF Plan!Cardinality, Cardinality

\* The sets of stripes of the batches that have been handed over.
Handed == [i \in DOMAIN emitted |-> StripesIn(emitted[i].stripes)]

LEMMA HandOverEmits == ASSUME IInv, HandOver PROVE Plan!Emit
<1> DEFINE S == StripesIn(batches[batchid])
           taken == UNION {StripesIn(emitted[i].stripes) : i \in DOMAIN emitted}
           r == [stripes |-> batches[batchid], load |-> Bottleneck(Total(colored))]
<1>1. /\ pc = "color" /\ batchid <= NumBatches /\ repairing' = repairing
      /\ emitted' = Append(emitted, r)
  BY DEF HandOver
<1>2. batchid \in 1 .. NumBatches /\ NumBatches \in Nat
  <2>1. NumBatches \in Nat
    BY BatchCount DEF IInv, TypeOK
  <2> QED BY <1>1, <2>1 DEF IInv, TypeOK
<1>3. /\ S \subseteq repairing /\ Cardinality(S) \in 1 .. BatchSize
      /\ \A c \in 1 .. NumBatches : c # batchid => S \cap StripesIn(batches[c]) = {}
  BY <1>1, <1>2, StripesCounted
<1>4. /\ Len(emitted) = batchid - 1 /\ DOMAIN emitted = 1 .. batchid - 1
      /\ emitted \in Seq([stripes : Seq(repairing), load : Nat])
      /\ \A i \in 1 .. batchid - 1 : emitted[i].stripes = batches[i]
  BY DEF IInv, Emitted
<1>5. r.stripes = batches[batchid]
  OBVIOUS
<1> HIDE DEF r
<1>6. /\ DOMAIN emitted' = 1 .. batchid /\ emitted'[batchid] = r
      /\ \A i \in 1 .. batchid - 1 : emitted'[i] = emitted[i]
  <2>1. r \in [stripes : Seq(repairing), load : Nat]
    <3>1. batches[batchid] \in Seq(repairing)
      BY <1>2, ArrangementIs DEF IInv, TypeOK
    <3>2. Bottleneck(Total(colored)) \in Nat
      <4>1. colored \in Seq(Loads)
        BY DEF IInv, TypeOK
      <4> QED BY <4>1, TotalType, BottleneckType
    <3> QED BY <3>1, <3>2 DEF r
  <2> QED BY <1>1, <1>2, <1>4, <2>1
<1>7. \A i \in 1 .. batchid : i = batchid \/ i \in 1 .. batchid - 1
  BY <1>2
<1>8. \A i \in 1 .. batchid - 1 : i \in 1 .. NumBatches /\ i # batchid
  BY <1>2
<1>9. S \subseteq repairing \ taken
  BY <1>3, <1>4, <1>8
<1>10. UNION {StripesIn(emitted'[i].stripes) : i \in DOMAIN emitted'} = taken \cup S
  <2> HIDE DEF S
  <2>1. \A i \in 1 .. batchid - 1 : StripesIn(emitted'[i].stripes) = StripesIn(emitted[i].stripes)
    BY <1>6
  <2>2. StripesIn(emitted'[batchid].stripes) = S
    BY <1>5, <1>6 DEF S
  <2>3. \A i : i \in 1 .. batchid <=> i = batchid \/ i \in 1 .. batchid - 1
    BY <1>2
  <2> QED BY <1>4, <1>6, <2>1, <2>2, <2>3
<1>11. [i \in DOMAIN emitted' |-> StripesIn(emitted'[i].stripes)] = Append(Handed, S)
  <2>1. Handed = [i \in 1 .. batchid - 1 |-> StripesIn(emitted[i].stripes)]
    BY <1>4 DEF Handed
  <2>2. Handed \in Seq(SUBSET repairing) /\ Len(Handed) = batchid - 1
    <3>1. \A i \in 1 .. batchid - 1 : StripesIn(emitted[i].stripes) \in SUBSET repairing
      BY <1>1, <1>4, <1>8, StripesCounted
    <3>2. Handed \in [1 .. batchid - 1 -> SUBSET repairing]
      BY <2>1, <3>1
    <3> QED BY <1>2, <3>2
  <2> DEFINE more == Append(Handed, S)
  <2> HIDE DEF S
  <2>3. /\ DOMAIN more = 1 .. batchid /\ more[batchid] = S
        /\ \A i \in 1 .. batchid - 1 : more[i] = Handed[i]
        /\ more = [i \in 1 .. batchid |-> more[i]]
    <3> DEFINE V == SUBSET repairing
               H == Handed
               k == batchid - 1
    <3>1. S \in V /\ H \in Seq(V) /\ Len(H) = k
      BY <1>3, <2>2
    <3>2. k \in Nat /\ k + 1 = batchid
      BY <1>2
    <3> HIDE DEF V, H, k
    <3>3. /\ Append(H, S) \in Seq(V) /\ Len(Append(H, S)) = k + 1
          /\ Append(H, S)[k + 1] = S
          /\ \A i \in 1 .. k : Append(H, S)[i] = H[i]
      BY <3>1, <3>2
    <3>4. Append(H, S) = [i \in 1 .. k + 1 |-> Append(H, S)[i]]
      <4> DEFINE W == Append(H, S)
      <4>1. W \in Seq(V) /\ Len(W) = k + 1
        BY <3>3
      <4> HIDE DEF W
      <4>2. W = [i \in 1 .. k + 1 |-> W[i]]
        BY <4>1
      <4> QED BY <4>2 DEF W
    <3>5. DOMAIN Append(H, S) = 1 .. k + 1
      BY <3>3
    <3> QED BY <3>2, <3>3, <3>4, <3>5 DEF H, k
  <2> HIDE DEF more
  <2>4. \A i \in 1 .. batchid : more[i] = StripesIn(emitted'[i].stripes)
    BY <1>5, <1>6, <1>7, <2>1, <2>3 DEF S
  <2>5. more = [i \in 1 .. batchid |-> StripesIn(emitted'[i].stripes)]
    BY <2>3, <2>4
  <2> QED BY <1>6, <2>5 DEF more
<1>12. S \in SUBSET (repairing \ taken)
  BY <1>9
<1>13. repairing' \ (taken \cup S) = (repairing \ taken) \ S
  BY <1>1
<1> QED
  <2>1. Plan!Emit <=>
          \E X \in SUBSET (repairing \ taken) :
            /\ Cardinality(X) \in 1 .. BatchSize
            /\ [i \in DOMAIN emitted' |-> StripesIn(emitted'[i].stripes)] = Append(Handed, X)
            /\ repairing' \ UNION {StripesIn(emitted'[i].stripes) : i \in DOMAIN emitted'}
                 = (repairing \ taken) \ X
    BY SameCardinality DEF Plan!Emit, Handed
  <2> HIDE DEF S, taken
  <2> QED BY <2>1, <1>3, <1>10, <1>11, <1>12, <1>13

\* What is handed over to Coordinator::repair is a plan: nonempty sets of at most
\* BatchSize stripes to repair, no stripe in two of them.
THEOREM PackingPlans == Spec => Plan!SafeSpec
<1>1. Init => Plan!Init
  <2> SUFFICES ASSUME Init PROVE Plan!Init
    OBVIOUS
  <2>1. emitted = <<>> /\ repairing \in SUBSET Stripes /\ DOMAIN emitted = {}
    BY DEF Init
  <2>2. [i \in DOMAIN emitted |-> StripesIn(emitted[i].stripes)] = <<>>
    BY <2>1
  <2>3. UNION {StripesIn(emitted[i].stripes) : i \in DOMAIN emitted} = {}
    BY <2>1
  <2> QED BY <2>1, <2>2, <2>3 DEF Plan!Init
<1>2. IInv /\ [Next]_vars => [Plan!Emit]_(Plan!vars)
  <2> SUFFICES ASSUME IInv, [Next]_vars PROVE [Plan!Emit]_(Plan!vars)
    OBVIOUS
  <2>1. CASE HandOver
    BY <2>1, HandOverEmits
  <2>2. CASE ~ HandOver
    <3>1. UNCHANGED <<repairing, emitted>>
      BY <2>2 DEF Next, Probe, Pack, EndPacking, Anneal, EndAnnealing, Color, Finish, vars
    <3> QED BY <3>1 DEF Plan!vars
  <2> QED BY <2>1, <2>2
<1> QED BY Invariance, <1>1, <1>2, PTL DEF Spec, SafeSpec, Plan!SafeSpec
=============================================================================
