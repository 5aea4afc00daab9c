------------------------ MODULE BatchDispatch_proofs ------------------------
(***************************************************************************)
(* Proofs about BatchDispatch, for any nodes, stripes, batches, tasks and  *)
(* window: type correctness, that no agent is a batch ahead or behind, and *)
(* that every command arrives, complete and in order.  Further that        *)
(* genRepairTasks implements the barrier of BatchBarrier.                  *)
(***************************************************************************)
EXTENDS BatchDispatch, WellFoundedInduction, TLAPS

----------------------------------------------------------------------------
(* Induction over sets of naturals, and sums *)

\* A set of naturals that has 0, and k + 1 whenever it has k, has them all.
LEMMA SetInduction ==
  ASSUME NEW T \in SUBSET Nat, 0 \in T, \A k \in T : k + 1 \in T
  PROVE  T = Nat
<1> SUFFICES ASSUME T # Nat PROVE FALSE
  OBVIOUS
<1> DEFINE D == Nat \ T
           R == OpToRel(<, Nat)
<1>1. IsWellFoundedOn(R, Nat)
  BY NatLessThanWellFounded
<1>2. D \subseteq Nat /\ D # {}
  OBVIOUS
<1>3. PICK x \in D : \A y \in D : ~ (<<y, x>> \in R)
  <2> HIDE DEF D, R
  <2> QED BY <1>1, <1>2, WFMin
<1>4. <<x - 1, x>> \in R
  BY DEF OpToRel
<1>5. x - 1 \in T
  <2>1. x \in Nat /\ x # 0
    OBVIOUS
  <2>2. x - 1 \in Nat
    BY <2>1
  <2> HIDE DEF R
  <2>3. x - 1 \notin D
    BY <1>3, <1>4
  <2> QED BY <2>2, <2>3
<1> QED BY <1>5

\* before is the sum of the first weights, up to each of them.
IsSum(before, weight, k) ==
  before = [i \in 0 .. k |-> IF i = 0 THEN 0 ELSE before[i - 1] + weight[i]]

\* The sums exist for every sequence of weights.
LEMMA SumExists ==
  ASSUME NEW weight, NEW k \in Nat
  PROVE  \E before : IsSum(before, weight, k)
<1> DEFINE T == {m \in Nat : \E before : IsSum(before, weight, m)}
<1>1. 0 \in T
  <2>1. IsSum([i \in 0 .. 0 |-> 0], weight, 0)
    BY DEF IsSum
  <2> QED BY <2>1
<1>2. ASSUME NEW m \in T PROVE m + 1 \in T
  <2>1. PICK before : IsSum(before, weight, m)
    OBVIOUS
  <2> DEFINE longer == [i \in 0 .. m + 1 |->
                          IF i = m + 1 THEN before[m] + weight[m + 1] ELSE before[i]]
  <2>2. IsSum(longer, weight, m + 1)
    BY <2>1 DEF IsSum
  <2> QED BY <2>2
<1>3. T = Nat
  <2> HIDE DEF T
  <2>1. T \in SUBSET Nat
    BY DEF T
  <2> QED BY <1>1, <1>2, <2>1, SetInduction
<1> QED BY <1>3

\* A longer sum continues a shorter one.
LEMMA SumContinues ==
  ASSUME NEW weight, NEW k \in Nat, NEW m \in Nat, k <= m,
         NEW f, IsSum(f, weight, k), NEW g, IsSum(g, weight, m)
  PROVE  \A i \in 0 .. k : f[i] = g[i]
<1> DEFINE T == {i \in Nat : i <= k => f[i] = g[i]}
<1>1. 0 \in T
  BY DEF IsSum
<1>2. ASSUME NEW i \in T PROVE i + 1 \in T
  <2> SUFFICES ASSUME i + 1 <= k PROVE f[i + 1] = g[i + 1]
    OBVIOUS
  <2>1. f[i + 1] = f[i] + weight[i + 1]
    BY DEF IsSum
  <2>2. g[i + 1] = g[i] + weight[i + 1]
    BY DEF IsSum
  <2> QED BY <2>1, <2>2
<1>3. T = Nat
  <2> HIDE DEF T
  <2>1. T \in SUBSET Nat
    BY DEF T
  <2> QED BY <1>1, <1>2, <2>1, SetInduction
<1> QED BY <1>3

\* Sums of natural numbers are natural numbers and grow.
LEMMA SumGrows ==
  ASSUME NEW k \in Nat, NEW weight, \A i \in 1 .. k : weight[i] \in Nat,
         NEW f, IsSum(f, weight, k)
  PROVE  /\ \A i \in 0 .. k : f[i] \in Nat
         /\ \A i, j \in 0 .. k : i <= j => f[i] <= f[j]
<1>1. \A i \in 0 .. k : f[i] \in Nat
  <2> DEFINE T == {i \in Nat : i <= k => f[i] \in Nat}
  <2>1. 0 \in T
    BY DEF IsSum
  <2>2. ASSUME NEW i \in T PROVE i + 1 \in T
    <3> SUFFICES ASSUME i + 1 <= k PROVE f[i + 1] \in Nat
      OBVIOUS
    <3>1. f[i + 1] = f[i] + weight[i + 1]
      BY DEF IsSum
    <3> QED BY <3>1
  <2>3. T = Nat
    <3> HIDE DEF T
    <3>1. T \in SUBSET Nat
      BY DEF T
    <3> QED BY <2>1, <2>2, <3>1, SetInduction
  <2> QED BY <2>3
<1>2. ASSUME NEW i \in 0 .. k, NEW j \in 0 .. k, i <= j PROVE f[i] <= f[j]
  <2> DEFINE T == {d \in Nat : i + d <= k => f[i] <= f[i + d]}
  <2>1. 0 \in T
    BY <1>1
  <2>2. ASSUME NEW d \in T PROVE d + 1 \in T
    <3> SUFFICES ASSUME i + d + 1 <= k PROVE f[i] <= f[i + d + 1]
      OBVIOUS
    <3>1. f[i + d + 1] = f[i + d] + weight[i + d + 1]
      BY DEF IsSum
    <3>2. f[i + d + 1] \in Nat /\ f[i + d] \in Nat /\ f[i] \in Nat
      BY <1>1
    <3> QED BY <3>1, <3>2
  <2>3. T = Nat
    <3> HIDE DEF T
    <3>1. T \in SUBSET Nat
      BY DEF T
    <3> QED BY <2>1, <2>2, <3>1, SetInduction
  <2>4. j - i \in Nat
    BY <1>2
  <2>5. i + (j - i) <= k => f[i] <= f[i + (j - i)]
    BY <2>3, <2>4
  <2>6. i + (j - i) = j
    OBVIOUS
  <2> QED BY <2>5, <2>6
<1> QED BY <1>1, <1>2

----------------------------------------------------------------------------
(* The list of stripes that a node gets for a batch. *)

IsList(list, b, n, m) ==
  list = [i \in 0 .. m |->
            IF i = 0 THEN <<>>
            ELSE IF TaskNum[StripesOf[b][i]][n] > 0 THEN Append(list[i - 1], StripesOf[b][i])
            ELSE list[i - 1]]

\* What the loop over the stripes of a batch has in its list after m rounds.
ListOK(l, b, n, m) ==
  /\ l \in Seq(Stripes)
  /\ \A k \in 1 .. Len(l) : TaskNum[l[k]][n] > 0 /\ \E j \in 1 .. m : l[k] = StripesOf[b][j]
  /\ \A j \in 1 .. m : TaskNum[StripesOf[b][j]][n] > 0 =>
                         \E k \in 1 .. Len(l) : l[k] = StripesOf[b][j]
  /\ \A k, j \in 1 .. Len(l) : l[k] = l[j] => k = j

LEMMA ListExists ==
  ASSUME NEW b, NEW n, NEW m \in Nat
  PROVE  \E list : IsList(list, b, n, m)
<1> DEFINE T == {i \in Nat : \E list : IsList(list, b, n, i)}
<1>1. 0 \in T
  <2>1. IsList([i \in 0 .. 0 |-> <<>>], b, n, 0)
    BY DEF IsList
  <2> QED BY <2>1
<1>2. ASSUME NEW i \in T PROVE i + 1 \in T
  <2>1. PICK list : IsList(list, b, n, i)
    OBVIOUS
  <2> DEFINE last == IF TaskNum[StripesOf[b][i + 1]][n] > 0
                     THEN Append(list[i], StripesOf[b][i + 1]) ELSE list[i]
             next == [j \in 0 .. i + 1 |-> IF j = i + 1 THEN last ELSE list[j]]
  <2>2. IsList(next, b, n, i + 1)
    <3>1. next[i + 1] = last /\ \A j \in 0 .. i : next[j] = list[j]
      OBVIOUS
    <3>2. \A j \in 1 .. i + 1 : j - 1 \in 0 .. i /\ next[j - 1] = list[j - 1]
      BY <3>1
    <3>3. \A j \in 0 .. i + 1 : j = 0 \/ (j \in 1 .. i /\ j \in 0 .. i) \/ j = i + 1
      OBVIOUS
    <3>4. \A j \in 0 .. i : list[j] =
            IF j = 0 THEN <<>>
            ELSE IF TaskNum[StripesOf[b][j]][n] > 0 THEN Append(list[j - 1], StripesOf[b][j])
            ELSE list[j - 1]
      BY <2>1 DEF IsList
    <3>5. (i + 1) - 1 = i /\ i + 1 # 0
      OBVIOUS
    <3> HIDE DEF last
    <3>6. \A j \in 0 .. i + 1 : next[j] =
            IF j = 0 THEN <<>>
            ELSE IF TaskNum[StripesOf[b][j]][n] > 0 THEN Append(next[j - 1], StripesOf[b][j])
            ELSE next[j - 1]
      <4> HIDE DEF next
      <4> QED BY <3>1, <3>2, <3>3, <3>4, <3>5 DEF last
    <3> QED BY <3>6 DEF IsList
  <2> QED BY <2>2
<1>3. T = Nat
  <2> HIDE DEF T
  <2>1. T \in SUBSET Nat
    BY DEF T
  <2> QED BY <1>1, <1>2, <2>1, SetInduction
<1> QED BY <1>3

LEMMA ListStep ==
  ASSUME NEW b \in 1 .. NumBatches, NEW n \in Nodes,
         NEW m \in Nat, m + 1 <= Len(StripesOf[b]), NEW l, ListOK(l, b, n, m)
  PROVE  /\ TaskNum[StripesOf[b][m + 1]][n] > 0 => ListOK(Append(l, StripesOf[b][m + 1]), b, n, m + 1)
         /\ ~ (TaskNum[StripesOf[b][m + 1]][n] > 0) => ListOK(l, b, n, m + 1)
<1> DEFINE s == StripesOf[b][m + 1]
<1>1. StripesOf[b] \in Seq(Stripes) /\ m + 1 \in 1 .. Len(StripesOf[b])
  BY StripesOfAssumption
<1>2. s \in Stripes
  BY <1>1
<1>3. \A j \in 1 .. m : StripesOf[b][j] # s
  BY <1>1, StripesAreDistinct
<1>4. ASSUME TaskNum[s][n] > 0 PROVE ListOK(Append(l, s), b, n, m + 1)
  <2> DEFINE a == Append(l, s)
  <2>1. l \in Seq(Stripes) /\ a \in Seq(Stripes) /\ Len(l) \in Nat /\ Len(a) = Len(l) + 1
    BY <1>2 DEF ListOK
  <2>2. a[Len(l) + 1] = s /\ \A k \in 1 .. Len(l) : a[k] = l[k]
    BY <1>2, <2>1
  <2> HIDE DEF a
  <2>3. \A k \in 1 .. Len(a) : k = Len(l) + 1 \/ k \in 1 .. Len(l)
    BY <2>1
  <2>4. \A k \in 1 .. Len(a) : TaskNum[a[k]][n] > 0 /\ \E j \in 1 .. m + 1 : a[k] = StripesOf[b][j]
    <3> SUFFICES ASSUME NEW k \in 1 .. Len(a)
                 PROVE  TaskNum[a[k]][n] > 0 /\ \E j \in 1 .. m + 1 : a[k] = StripesOf[b][j]
      OBVIOUS
    <3>1. CASE k = Len(l) + 1
      BY <1>4, <2>2, <3>1
    <3>2. CASE k \in 1 .. Len(l)
      <4>1. TaskNum[l[k]][n] > 0 /\ \E j \in 1 .. m : l[k] = StripesOf[b][j]
        BY <3>2 DEF ListOK
      <4> QED BY <4>1, <3>2, <2>2
    <3> QED BY <2>3, <3>1, <3>2
  <2>5. \A j \in 1 .. m + 1 : TaskNum[StripesOf[b][j]][n] > 0 =>
                                \E k \in 1 .. Len(a) : a[k] = StripesOf[b][j]
    <3> SUFFICES ASSUME NEW j \in 1 .. m + 1, TaskNum[StripesOf[b][j]][n] > 0
                 PROVE  \E k \in 1 .. Len(a) : a[k] = StripesOf[b][j]
      OBVIOUS
    <3>1. CASE j = m + 1
      BY <3>1, <2>1, <2>2
    <3>2. CASE j \in 1 .. m
      <4>1. PICK k \in 1 .. Len(l) : l[k] = StripesOf[b][j]
        BY <3>2 DEF ListOK
      <4> QED BY <4>1, <2>1, <2>2
    <3> QED BY <3>1, <3>2
  <2>6. \A k \in 1 .. Len(l) : l[k] # s
    BY <1>3 DEF ListOK
  <2>7. \A k, j \in 1 .. Len(a) : a[k] = a[j] => k = j
    BY <2>2, <2>3, <2>6 DEF ListOK
  <2> QED BY <2>1, <2>4, <2>5, <2>7 DEF ListOK, a
<1>5. ASSUME ~ (TaskNum[s][n] > 0) PROVE ListOK(l, b, n, m + 1)
  <2>1. \A j \in 1 .. m + 1 : j = m + 1 \/ j \in 1 .. m
    OBVIOUS
  <2>2. \A j \in 1 .. m : j \in 1 .. m + 1
    OBVIOUS
  <2> QED BY <1>5, <2>1, <2>2 DEF ListOK
<1> QED BY <1>4, <1>5

\* StripeList has the stripes of the batch that have tasks for the node, once each.
LEMMA ListIsRight ==
  ASSUME NEW b \in 1 .. NumBatches, NEW n \in Nodes
  PROVE  ListOK(StripeList(b, n), b, n, Len(StripesOf[b]))
<1> DEFINE len == Len(StripesOf[b])
<1>1. len \in Nat
  BY StripesOfAssumption
<1>2. PICK list : IsList(list, b, n, len) /\ StripeList(b, n) = list[len]
  <2>1. \E list : IsList(list, b, n, len)
    BY <1>1, ListExists
  <2> QED BY <2>1 DEF IsList, StripeList
<1> DEFINE T == {i \in Nat : i <= len => ListOK(list[i], b, n, i)}
<1>3. 0 \in T
  <2>1. list[0] = <<>>
    BY <1>1, <1>2 DEF IsList
  <2>2. ListOK(<<>>, b, n, 0)
    BY DEF ListOK
  <2> QED BY <2>1, <2>2
<1>4. ASSUME NEW i \in T PROVE i + 1 \in T
  <2> SUFFICES ASSUME i + 1 <= len PROVE ListOK(list[i + 1], b, n, i + 1)
    OBVIOUS
  <2>1. ListOK(list[i], b, n, i)
    BY <1>1
  <2>2. list[i + 1] = IF TaskNum[StripesOf[b][i + 1]][n] > 0
                      THEN Append(list[i], StripesOf[b][i + 1]) ELSE list[i]
    <3>1. i + 1 \in 0 .. len /\ i + 1 # 0 /\ (i + 1) - 1 = i
      BY <1>1
    <3> HIDE DEF T, len
    <3> QED BY <1>2, <3>1 DEF IsList
  <2> QED BY <2>1, <2>2, ListStep
<1>5. T = Nat
  <2> HIDE DEF T
  <2>1. T \in SUBSET Nat
    BY DEF T
  <2> QED BY <1>3, <1>4, <2>1, SetInduction
<1> QED BY <1>1, <1>2, <1>5

----------------------------------------------------------------------------
(* The numbering of the commands of a node for a batch. *)

LEMMA ListType ==
  ASSUME NEW b \in 1 .. NumBatches, NEW n \in Nodes
  PROVE  /\ Len(StripeList(b, n)) \in Nat
         /\ \A k \in 1 .. Len(StripeList(b, n)) :
              /\ StripeList(b, n)[k] \in Stripes
              /\ TaskNum[StripeList(b, n)[k]][n] \in Nat \ {0}
         /\ \A k, j \in 1 .. Len(StripeList(b, n)) :
              StripeList(b, n)[k] = StripeList(b, n)[j] => k = j
<1> DEFINE L == StripeList(b, n)
<1>1. ListOK(L, b, n, Len(StripesOf[b]))
  BY ListIsRight
<1> HIDE DEF L
<1>2. Len(L) \in Nat /\ \A k \in 1 .. Len(L) : L[k] \in Stripes /\ TaskNum[L[k]][n] > 0
  BY <1>1 DEF ListOK
<1>3. \A k \in 1 .. Len(L) : TaskNum[L[k]][n] \in Nat \ {0}
  BY <1>2, TaskNumAssumption
<1>4. \A k, j \in 1 .. Len(L) : L[k] = L[j] => k = j
  BY <1>1 DEF ListOK
<1> QED BY <1>2, <1>3, <1>4 DEF L

\* CommandsUpTo adds up the task numbers of the stripes in the list.
LEMMA CommandsAddUp ==
  ASSUME NEW b \in 1 .. NumBatches, NEW n \in Nodes
  PROVE  LET K == Len(StripeList(b, n)) IN
         /\ CommandsUpTo(b, n, 0) = 0
         /\ \A k \in 0 .. K : CommandsUpTo(b, n, k) \in Nat
         /\ \A k \in 1 .. K : CommandsUpTo(b, n, k) =
                              CommandsUpTo(b, n, k - 1) + TaskNum[StripeList(b, n)[k]][n]
         /\ \A j, k \in 0 .. K : j <= k => CommandsUpTo(b, n, j) <= CommandsUpTo(b, n, k)
<1> DEFINE L == StripeList(b, n)
           K == Len(L)
           weight == [i \in 1 .. K |-> TaskNum[L[i]][n]]
<1>1. K \in Nat /\ \A i \in 1 .. K : weight[i] \in Nat /\ weight[i] = TaskNum[L[i]][n]
  BY ListType
<1>2. ASSUME NEW k \in 0 .. K
      PROVE  \E f : IsSum(f, weight, k) /\ CommandsUpTo(b, n, k) = f[k]
  <2>1. ASSUME NEW f
        PROVE  IsSum(f, weight, k) <=>
                 f = [i \in 0 .. k |-> IF i = 0 THEN 0 ELSE f[i - 1] + TaskNum[L[i]][n]]
    <3>1. \A i \in 0 .. k : i = 0 \/ i \in 1 .. K
      BY <1>1
    <3> HIDE DEF weight, K, L
    <3>2. \A i \in 0 .. k : (IF i = 0 THEN 0 ELSE f[i - 1] + weight[i]) =
                            (IF i = 0 THEN 0 ELSE f[i - 1] + TaskNum[L[i]][n])
      BY <1>1, <3>1
    <3> QED BY <3>2 DEF IsSum
  <2>2. \E f : IsSum(f, weight, k)
    <3>1. k \in Nat
      BY <1>1
    <3> QED BY <3>1, SumExists
  <2> HIDE DEF weight
  <2>3. \E f : f = [i \in 0 .. k |-> IF i = 0 THEN 0 ELSE f[i - 1] + TaskNum[L[i]][n]]
    BY <2>1, <2>2
  <2>4. \E f : /\ f = [i \in 0 .. k |-> IF i = 0 THEN 0 ELSE f[i - 1] + TaskNum[L[i]][n]]
               /\ CommandsUpTo(b, n, k) = f[k]
    BY <2>3 DEF CommandsUpTo
  <2> QED BY <2>1, <2>4
<1> HIDE DEF weight, K
<1>3. PICK g : IsSum(g, weight, K) /\ CommandsUpTo(b, n, K) = g[K]
  BY <1>1, <1>2
<1>4. \A k \in 0 .. K : CommandsUpTo(b, n, k) = g[k]
  <2> SUFFICES ASSUME NEW k \in 0 .. K PROVE CommandsUpTo(b, n, k) = g[k]
    OBVIOUS
  <2>1. PICK f : IsSum(f, weight, k) /\ CommandsUpTo(b, n, k) = f[k]
    BY <1>2
  <2>2. k \in Nat /\ k <= K /\ k \in 0 .. k
    BY <1>1
  <2>3. f[k] = g[k]
    BY <1>1, <1>3, <2>1, <2>2, SumContinues
  <2> QED BY <2>1, <2>3
<1>5. /\ \A k \in 0 .. K : g[k] \in Nat
      /\ \A j, k \in 0 .. K : j <= k => g[j] <= g[k]
  BY <1>1, <1>3, SumGrows
<1>6. g[0] = 0 /\ \A k \in 1 .. K : g[k] = g[k - 1] + TaskNum[L[k]][n]
  BY <1>1, <1>3 DEF IsSum
<1>7. 0 \in 0 .. K /\ \A k \in 1 .. K : k \in 0 .. K /\ k - 1 \in 0 .. K
  BY <1>1
<1>8. \A k \in 1 .. K : CommandsUpTo(b, n, k) = CommandsUpTo(b, n, k - 1) + TaskNum[L[k]][n]
  BY <1>4, <1>6, <1>7
<1> QED BY <1>4, <1>5, <1>6, <1>7, <1>8 DEF K

\* Every number up to NumCommands is the number of a command of one stripe.
LEMMA CommandExists ==
  ASSUME NEW b \in 1 .. NumBatches, NEW n \in Nodes,
         NEW e \in 1 .. NumCommands(b, n)
  PROVE  \E k \in 1 .. Len(StripeList(b, n)) :
           CommandsUpTo(b, n, k - 1) < e /\ e <= CommandsUpTo(b, n, k)
<1> DEFINE L == StripeList(b, n)
           K == Len(L)
           U(k) == CommandsUpTo(b, n, k)
<1>1. /\ K \in Nat
      /\ U(0) = 0
      /\ \A k \in 0 .. K : U(k) \in Nat
  BY ListType, CommandsAddUp
<1> SUFFICES ASSUME ~ \E k \in 1 .. K : U(k - 1) < e /\ e <= U(k) PROVE FALSE
  OBVIOUS
<1> DEFINE T == {k \in Nat : k <= K => U(k) < e}
<1>2. 0 \in T
  BY <1>1
<1>3. ASSUME NEW k \in T PROVE k + 1 \in T
  <2> SUFFICES ASSUME k + 1 <= K PROVE U(k + 1) < e
    OBVIOUS
  <2>1. k + 1 \in 1 .. K /\ (k + 1) - 1 = k /\ k + 1 \in 0 .. K
    BY <1>1
  <2>2. U(k) < e
    BY <1>1
  <2> HIDE DEF U, K, T
  <2> QED BY <1>1, <2>1, <2>2
<1>4. T = Nat
  <2> HIDE DEF T
  <2>1. T \in SUBSET Nat
    BY DEF T
  <2> QED BY <1>2, <1>3, <2>1, SetInduction
<1>5. U(K) < e
  BY <1>1, <1>4
<1> QED BY <1>1, <1>5 DEF NumCommands

----------------------------------------------------------------------------
(* How much of each stripe has come with the first e commands. *)

InList(b, n, s) ==
  \E k \in 1 .. Len(StripeList(b, n)) : StripeList(b, n)[k] = s

\* How many of the first e commands of node n for batch b are of stripe s.
SentNum(b, n, e, s) ==
  IF ~ InList(b, n, s) THEN 0
  ELSE LET k == CHOOSE j \in 1 .. Len(StripeList(b, n)) : StripeList(b, n)[j] = s
       IN  IF e <= CommandsUpTo(b, n, k - 1) THEN 0
           ELSE IF e >= CommandsUpTo(b, n, k) THEN TaskNum[s][n]
           ELSE e - CommandsUpTo(b, n, k - 1)

Sent(b, n, e, s) == [i \in 1 .. SentNum(b, n, e, s) |-> i]

LEMMA CountSeq ==
  ASSUME NEW m \in Nat
  PROVE  /\ [i \in 1 .. m |-> i] \in Seq(Nat)
         /\ Len([i \in 1 .. m |-> i]) = m
         /\ Append([i \in 1 .. m |-> i], m + 1) = [i \in 1 .. m + 1 |-> i]
         /\ m = 0 => [i \in 1 .. m |-> i] = <<>>
<1> DEFINE u == [i \in 1 .. m |-> i]
           v == [i \in 1 .. m + 1 |-> i]
<1>1. u \in Seq(Nat) /\ Len(u) = m
  OBVIOUS
<1>2. v \in Seq(Nat) /\ Len(v) = m + 1
  OBVIOUS
<1>3. Append(u, m + 1) = v
  <2>1. Append(u, m + 1) \in Seq(Nat) /\ Len(Append(u, m + 1)) = m + 1
    BY <1>1
  <2>2. \A i \in 1 .. m + 1 : Append(u, m + 1)[i] = v[i]
    BY <1>1
  <2> QED BY <1>2, <2>1, <2>2
<1>4. m = 0 => u = <<>>
  OBVIOUS
<1> QED BY <1>1, <1>3, <1>4

LEMMA SentInList ==
  ASSUME NEW b \in 1 .. NumBatches, NEW n \in Nodes, NEW e \in Nat,
         NEW k \in 1 .. Len(StripeList(b, n))
  PROVE  SentNum(b, n, e, StripeList(b, n)[k]) =
           IF e <= CommandsUpTo(b, n, k - 1) THEN 0
           ELSE IF e >= CommandsUpTo(b, n, k) THEN TaskNum[StripeList(b, n)[k]][n]
           ELSE e - CommandsUpTo(b, n, k - 1)
<1> DEFINE L == StripeList(b, n)
           j == CHOOSE i \in 1 .. Len(L) : L[i] = L[k]
<1>1. j \in 1 .. Len(L) /\ L[j] = L[k]
  OBVIOUS
<1>2. j = k
  BY <1>1, ListType
<1>3. InList(b, n, L[k])
  BY DEF InList
<1> QED BY <1>2, <1>3 DEF SentNum

LEMMA SentType ==
  ASSUME NEW b \in 1 .. NumBatches, NEW n \in Nodes, NEW e \in Nat, NEW s \in Stripes
  PROVE  /\ SentNum(b, n, e, s) \in 0 .. TaskNum[s][n]
         /\ Sent(b, n, e, s) \in Seq(Nat)
         /\ Len(Sent(b, n, e, s)) = SentNum(b, n, e, s)
<1>1. TaskNum[s][n] \in Nat
  BY TaskNumAssumption
<1>2. CASE ~ InList(b, n, s)
  BY <1>1, <1>2, CountSeq DEF SentNum, Sent
<1>3. CASE InList(b, n, s)
  <2>1. PICK k \in 1 .. Len(StripeList(b, n)) : StripeList(b, n)[k] = s
    BY <1>3 DEF InList
  <2>2. /\ CommandsUpTo(b, n, k - 1) \in Nat
        /\ CommandsUpTo(b, n, k) = CommandsUpTo(b, n, k - 1) + TaskNum[s][n]
    <3>1. k \in 0 .. Len(StripeList(b, n)) /\ k - 1 \in 0 .. Len(StripeList(b, n))
      BY ListType
    <3> QED BY <2>1, <3>1, CommandsAddUp
  <2>3. SentNum(b, n, e, s) = IF e <= CommandsUpTo(b, n, k - 1) THEN 0
                              ELSE IF e >= CommandsUpTo(b, n, k) THEN TaskNum[s][n]
                              ELSE e - CommandsUpTo(b, n, k - 1)
    BY <2>1, SentInList
  <2>4. SentNum(b, n, e, s) \in 0 .. TaskNum[s][n]
    BY <1>1, <2>2, <2>3
  <2> QED BY <1>1, <2>4, CountSeq DEF Sent
<1> QED BY <1>2, <1>3

LEMMA SentNone ==
  ASSUME NEW b \in 1 .. NumBatches, NEW n \in Nodes, NEW s \in Stripes
  PROVE  Sent(b, n, 0, s) = <<>>
<1>1. SentNum(b, n, 0, s) = 0
  <2>1. CASE ~ InList(b, n, s)
    BY <2>1 DEF SentNum
  <2>2. CASE InList(b, n, s)
    <3>1. PICK k \in 1 .. Len(StripeList(b, n)) : StripeList(b, n)[k] = s
      BY <2>2 DEF InList
    <3>2. CommandsUpTo(b, n, k - 1) \in Nat
      <4>1. k - 1 \in 0 .. Len(StripeList(b, n))
        BY ListType
      <4> QED BY <4>1, CommandsAddUp
    <3> QED BY <3>1, <3>2, SentInList
  <2> QED BY <2>1, <2>2
<1> QED BY <1>1, CountSeq DEF Sent

\* The next command is the next task of its stripe; the other stripes get none.
LEMMA SentOne ==
  ASSUME NEW b \in 1 .. NumBatches, NEW n \in Nodes,
         NEW e \in Nat, e < NumCommands(b, n)
  PROVE  LET c == CommandAt(b, n, e + 1) IN
         /\ c.stripe \in Stripes
         /\ c.task \in Nat
         /\ Sent(b, n, e + 1, c.stripe) = Append(Sent(b, n, e, c.stripe), c.task)
         /\ \A s \in Stripes : s # c.stripe => Sent(b, n, e + 1, s) = Sent(b, n, e, s)
<1> DEFINE L == StripeList(b, n)
           K == Len(L)
           U(j) == CommandsUpTo(b, n, j)
           k == CHOOSE j \in 1 .. K : U(j - 1) < e + 1 /\ e + 1 <= U(j)
           c == CommandAt(b, n, e + 1)
<1>1. /\ K \in Nat
      /\ \A j \in 0 .. K : U(j) \in Nat
      /\ \A j \in 1 .. K : U(j) = U(j - 1) + TaskNum[L[j]][n]
      /\ \A i, j \in 0 .. K : i <= j => U(i) <= U(j)
  BY ListType, CommandsAddUp
<1>2. k \in 1 .. K /\ U(k - 1) < e + 1 /\ e + 1 <= U(k)
  <2>1. NumCommands(b, n) \in Nat
    <3>1. K \in 0 .. K
      BY <1>1
    <3> QED BY <1>1, <3>1 DEF NumCommands
  <2>2. e + 1 \in 1 .. NumCommands(b, n)
    BY <2>1
  <2>3. \E j \in 1 .. K : U(j - 1) < e + 1 /\ e + 1 <= U(j)
    BY <2>2, CommandExists
  <2> QED BY <2>3
<1>3. c = [stripe |-> L[k], task |-> (e + 1) - U(k - 1)]
  BY DEF CommandAt
<1> HIDE DEF c, k
<1>4. k \in 0 .. K /\ k - 1 \in 0 .. K
  BY <1>1, <1>2
<1>a. /\ U(k) = U(k - 1) + TaskNum[L[k]][n]
      /\ U(k) \in Nat /\ U(k - 1) \in Nat /\ TaskNum[L[k]][n] \in Nat
  <2>1. TaskNum[L[k]][n] \in Nat
    BY <1>2, ListType
  <2> HIDE DEF U, K, L
  <2> QED BY <1>1, <1>2, <1>4, <2>1
<1>5. c.stripe = L[k] /\ c.stripe \in Stripes /\ c.task = (e + 1) - U(k - 1) /\ c.task \in Nat
  <2>1. L[k] \in Stripes
    BY <1>2, ListType
  <2> HIDE DEF U, K, L
  <2>2. (e + 1) - U(k - 1) \in Nat
    BY <1>2, <1>a
  <2> QED BY <1>3, <2>1, <2>2
<1>6. /\ SentNum(b, n, e, L[k]) = e - U(k - 1)
      /\ SentNum(b, n, e + 1, L[k]) = (e + 1) - U(k - 1)
  <2>1. SentNum(b, n, e, L[k]) = IF e <= U(k - 1) THEN 0
                                 ELSE IF e >= U(k) THEN TaskNum[L[k]][n] ELSE e - U(k - 1)
    BY <1>2, SentInList
  <2>2. SentNum(b, n, e + 1, L[k]) =
          IF e + 1 <= U(k - 1) THEN 0
          ELSE IF e + 1 >= U(k) THEN TaskNum[L[k]][n] ELSE (e + 1) - U(k - 1)
    <3>1. e + 1 \in Nat
      OBVIOUS
    <3> QED BY <1>2, <3>1, SentInList
  <2> HIDE DEF U, K, L
  <2> QED BY <1>2, <1>a, <2>1, <2>2
<1>7. Sent(b, n, e + 1, L[k]) = Append(Sent(b, n, e, L[k]), c.task)
  <2> DEFINE m == e - U(k - 1)
  <2>1. m \in Nat /\ (e + 1) - U(k - 1) = m + 1 /\ c.task = m + 1
    <3> HIDE DEF U, K, L
    <3> QED BY <1>2, <1>5, <1>a
  <2> HIDE DEF m
  <2> QED BY <1>6, <2>1, CountSeq DEF Sent, m
<1>8. ASSUME NEW s \in Stripes, s # L[k]
      PROVE  SentNum(b, n, e + 1, s) = SentNum(b, n, e, s)
  <2>1. CASE ~ InList(b, n, s)
    BY <2>1 DEF SentNum
  <2>2. CASE InList(b, n, s)
    <3>1. PICK j \in 1 .. K : L[j] = s
      BY <2>2 DEF InList
    <3>2. j # k /\ j \in 0 .. K /\ j - 1 \in 0 .. K
      BY <1>1, <1>8, <3>1
    <3>3. /\ SentNum(b, n, e, s) = IF e <= U(j - 1) THEN 0
                                   ELSE IF e >= U(j) THEN TaskNum[s][n] ELSE e - U(j - 1)
          /\ SentNum(b, n, e + 1, s) =
               IF e + 1 <= U(j - 1) THEN 0
               ELSE IF e + 1 >= U(j) THEN TaskNum[s][n] ELSE (e + 1) - U(j - 1)
      BY <3>1, SentInList
    <3>4. CASE j < k
      <4>1. U(j) <= U(k - 1) /\ U(j - 1) <= U(j) /\ U(j) = U(j - 1) + TaskNum[s][n]
        <5>1. j <= k - 1
          BY <1>2, <3>1, <3>4
        <5>2. U(j) = U(j - 1) + TaskNum[s][n]
          BY <1>1, <3>1
        <5>3. j - 1 <= j
          BY <3>1
        <5> HIDE DEF U
        <5> QED BY <1>1, <1>4, <3>2, <5>1, <5>2, <5>3
      <4>2. U(j) \in Nat /\ U(j - 1) \in Nat /\ TaskNum[s][n] \in Nat
        <5>1. TaskNum[s][n] \in Nat
          BY TaskNumAssumption
        <5> HIDE DEF U
        <5> QED BY <1>1, <3>2, <5>1
      <4> HIDE DEF U, K, L
      <4> QED BY <1>2, <1>a, <3>3, <4>1, <4>2
    <3>5. CASE k < j
      <4>1. U(k) <= U(j - 1)
        <5> HIDE DEF U
        <5> QED BY <1>1, <1>2, <1>4, <3>1, <3>2, <3>5
      <4> HIDE DEF U
      <4> QED BY <1>1, <1>2, <1>4, <3>2, <3>3, <4>1
    <3> QED BY <1>1, <1>2, <3>1, <3>2, <3>4, <3>5
  <2> QED BY <2>1, <2>2
<1> QED BY <1>5, <1>7, <1>8 DEF Sent, c

\* With the last command every stripe of the list has all its tasks, and it needs
\* the last command for that.
LEMMA SentAll ==
  ASSUME NEW b \in 1 .. NumBatches, NEW n \in Nodes
  PROVE  /\ NumCommands(b, n) \in Nat
         /\ \A s \in Stripes : SentNum(b, n, NumCommands(b, n), s) =
                                 IF InList(b, n, s) THEN TaskNum[s][n] ELSE 0
         /\ \A e \in 0 .. NumCommands(b, n) :
              (\A k \in 1 .. Len(StripeList(b, n)) :
                 SentNum(b, n, e, StripeList(b, n)[k]) >= TaskNum[StripeList(b, n)[k]][n])
                => e = NumCommands(b, n)
<1> DEFINE L == StripeList(b, n)
           K == Len(L)
           U(j) == CommandsUpTo(b, n, j)
<1>1. /\ K \in Nat
      /\ U(0) = 0
      /\ \A j \in 0 .. K : U(j) \in Nat
      /\ \A j \in 1 .. K : U(j) = U(j - 1) + TaskNum[L[j]][n]
      /\ \A i, j \in 0 .. K : i <= j => U(i) <= U(j)
      /\ \A j \in 1 .. K : TaskNum[L[j]][n] \in Nat \ {0}
  BY ListType, CommandsAddUp
<1>2. NumCommands(b, n) = U(K) /\ K \in 0 .. K /\ U(K) \in Nat
  BY <1>1 DEF NumCommands
<1>3. ASSUME NEW s \in Stripes
      PROVE  SentNum(b, n, U(K), s) = IF InList(b, n, s) THEN TaskNum[s][n] ELSE 0
  <2>1. CASE ~ InList(b, n, s)
    BY <2>1 DEF SentNum
  <2>2. CASE InList(b, n, s)
    <3>1. PICK j \in 1 .. K : L[j] = s
      BY <2>2 DEF InList
    <3>2. j \in 0 .. K /\ j - 1 \in 0 .. K /\ j <= K
      BY <1>1
    <3>3. SentNum(b, n, U(K), s) = IF U(K) <= U(j - 1) THEN 0
                                   ELSE IF U(K) >= U(j) THEN TaskNum[s][n] ELSE U(K) - U(j - 1)
      BY <1>2, <3>1, SentInList
    <3> HIDE DEF U, K, L
    <3>4. U(j) <= U(K) /\ U(j) = U(j - 1) + TaskNum[s][n] /\ TaskNum[s][n] > 0
      BY <1>1, <1>2, <3>1, <3>2
    <3>5. U(j) \in Nat /\ U(j - 1) \in Nat /\ TaskNum[s][n] \in Nat
      BY <1>1, <3>1, <3>2
    <3> QED BY <1>2, <2>2, <3>3, <3>4, <3>5
  <2> QED BY <2>1, <2>2
<1>4. ASSUME NEW e \in 0 .. U(K),
             \A k \in 1 .. K : SentNum(b, n, e, L[k]) >= TaskNum[L[k]][n]
      PROVE  e = U(K)
  <2>1. e \in Nat /\ e <= U(K)
    BY <1>2
  <2>2. CASE K = 0
    BY <1>1, <2>1, <2>2
  <2>3. CASE K # 0
    <3>1. K \in 1 .. K /\ K - 1 \in 0 .. K
      BY <1>1, <2>3
    <3>2. SentNum(b, n, e, L[K]) = IF e <= U(K - 1) THEN 0
                                   ELSE IF e >= U(K) THEN TaskNum[L[K]][n] ELSE e - U(K - 1)
      BY <2>1, <3>1, SentInList
    <3> HIDE DEF U, K, L
    <3>3. /\ U(K) = U(K - 1) + TaskNum[L[K]][n]
          /\ U(K - 1) \in Nat
          /\ TaskNum[L[K]][n] \in Nat \ {0}
          /\ SentNum(b, n, e, L[K]) >= TaskNum[L[K]][n]
      BY <1>1, <1>4, <3>1
    <3> QED BY <1>2, <2>1, <3>2, <3>3
  <2> QED BY <2>2, <2>3
<1> QED BY <1>2, <1>3, <1>4

----------------------------------------------------------------------------
(* What the coordinator and the sender threads know of each other. *)

Active == {"append", "reply", "drain", "joined"}

\* Where the main thread is, and whose sender threads it has started and joined.
CoorInv ==
  /\ coor_pc \in {"send", "wait"} => batch \in 1 .. NumBatches
  /\ coor_pc = "done" => batch = NumBatches + 1
  /\ coor_pc # "wait" => waiting = {}
  /\ coor_pc = "wait" => waiting \subseteq Involved(batch)
  /\ \A n \in Nodes : send_pc[n] # "idle" <=> coor_pc # "done" /\ n \in Involved(batch)
  /\ coor_pc = "wait" => \A n \in Involved(batch) : send_pc[n] = "joined"

\* A command passes the client buffer, the connection, the server and the reply
\* in this order, and a sender thread ends when all have.
SenderInv ==
  \A n \in Nodes :
    /\ replyid[n] <= executed[n] /\ executed[n] <= written[n] /\ written[n] <= count[n]
    /\ send_pc[n] \in {"idle", "request"} => count[n] = 0
    /\ send_pc[n] # "idle" => count[n] <= NumCommands(batch, n)
    /\ send_pc[n] = "drain" => count[n] = NumCommands(batch, n)
    /\ send_pc[n] = "joined" => replyid[n] = NumCommands(batch, n)

----------------------------------------------------------------------------
(* Where the request, the commands and the flag of a node are. *)

AllTasks(b, n) == [s \in Stripes |-> Sent(b, n, NumCommands(b, n), s)]

\* What redis has executed and the agent not popped is in redis, in order.
Arriving(n, got) ==
  \A s \in Stripes : got[s] \o command[n][s] = Sent(batch, n, executed[n], s)

NoFlag(n) == \A b \in 1 .. NumBatches : finish[b][n] = 0
Awaited(n) == send_pc[n] \in Active /\ (coor_pc = "wait" => n \in waiting)

\* The request was not sent, or the node has nothing to do.
Unasked(n) ==
  /\ send_pc[n] \in {"idle", "request"}
  /\ ag_request[n] = <<>>
  /\ command[n] = NoTasks
  /\ agent_pc[n] = "read"
  /\ NoFlag(n)

\* The request waits in redis.
Asked(n) ==
  /\ Awaited(n)
  /\ ag_request[n] = <<batch>>
  /\ Arriving(n, NoTasks)
  /\ agent_pc[n] = "read"
  /\ NoFlag(n)

Receiving(n) ==
  /\ Awaited(n)
  /\ ag_request[n] = <<>>
  /\ Arriving(n, tasks[n])
  /\ agent_pc[n] = "recv"
  /\ agent_batch[n] = batch
  /\ NoFlag(n)

Repairing(n) ==
  /\ Awaited(n)
  /\ ag_request[n] = <<>>
  /\ command[n] = NoTasks
  /\ executed[n] = NumCommands(batch, n)
  /\ tasks[n] = AllTasks(batch, n)
  /\ agent_pc[n] = "repair"
  /\ agent_batch[n] = batch
  /\ NoFlag(n)

\* The flag waits in redis.
Flagged(n) ==
  /\ Awaited(n)
  /\ ag_request[n] = <<>>
  /\ command[n] = NoTasks
  /\ executed[n] = NumCommands(batch, n)
  /\ agent_pc[n] = "read"
  /\ finish[batch][n] = 1
  /\ \A b \in 1 .. NumBatches : b # batch => finish[b][n] = 0

\* The flag was taken.
Finished(n) ==
  /\ coor_pc = "wait"
  /\ n \in Involved(batch) \ waiting
  /\ ag_request[n] = <<>>
  /\ command[n] = NoTasks
  /\ executed[n] = NumCommands(batch, n)
  /\ agent_pc[n] = "read"
  /\ NoFlag(n)

Stage(n) ==
  Unasked(n) \/ Asked(n) \/ Receiving(n) \/ Repairing(n) \/ Flagged(n) \/ Finished(n)

NodeInv == \A n \in Nodes : Stage(n)

IInv == TypeOK /\ CoorInv /\ SenderInv /\ NodeInv

----------------------------------------------------------------------------
(* The invariant holds initially. *)

LEMMA InitInv == Init => IInv
<1> SUFFICES ASSUME Init PROVE IInv
  OBVIOUS
<1>1. NumBatches \in Nat
  BY BatchesAssumption
<1>2. TypeOK
  <2>1. NoTasks \in [Stripes -> Seq(Nat)]
    BY DEF NoTasks
  <2>2. send_pc \in [Nodes -> {"idle", "request"}]
    BY DEF Init, SendersOf
  <2> QED BY <1>1, <2>1, <2>2 DEF Init, TypeOK, Zero
<1>3. CoorInv
  BY <1>1 DEF Init, CoorInv, SendersOf
<1>4. SenderInv
  <2> SUFFICES ASSUME NEW n \in Nodes
               PROVE  /\ replyid[n] <= executed[n] /\ executed[n] <= written[n]
                      /\ written[n] <= count[n] /\ count[n] = 0
                      /\ send_pc[n] \in {"idle", "request"}
                      /\ send_pc[n] # "idle" => count[n] <= NumCommands(batch, n)
    BY DEF SenderInv
  <2>1. send_pc[n] # "idle" => NumCommands(1, n) \in Nat
    <3>1. send_pc[n] # "idle" => 1 \in 1 .. NumBatches
      BY <1>1 DEF Init
    <3> QED BY <3>1, SentAll
  <2> QED BY <2>1 DEF Init, SendersOf, Zero
<1>5. NodeInv
  BY DEF Init, NodeInv, Stage, Unasked, NoFlag, SendersOf, Zero
<1> QED BY <1>2, <1>3, <1>4, <1>5 DEF IInv

----------------------------------------------------------------------------
(* The steps that leave a node where it is. *)

\* A step that does not touch what is on the way to or from node m.
LEMMA Frame ==
  ASSUME NEW m \in Nodes, Stage(m),
         batch' = batch, coor_pc' = coor_pc, m \in waiting' <=> m \in waiting,
         \/ send_pc'[m] = send_pc[m]
         \/ send_pc[m] \in Active /\ send_pc'[m] \in Active,
         executed'[m] = executed[m], ag_request'[m] = ag_request[m],
         command'[m] = command[m], agent_pc'[m] = agent_pc[m],
         agent_batch'[m] = agent_batch[m], tasks'[m] = tasks[m],
         \A b \in 1 .. NumBatches : finish'[b][m] = finish[b][m],
         batch \in 1 .. NumBatches \/ Unasked(m)
  PROVE  Stage(m)'
<1>1. CASE Unasked(m)
  BY <1>1 DEF Stage, Unasked, NoFlag, Active
<1>2. CASE Asked(m)
  BY <1>2 DEF Stage, Asked, Awaited, Arriving, NoFlag, Active
<1>3. CASE Receiving(m)
  BY <1>3 DEF Stage, Receiving, Awaited, Arriving, NoFlag, Active
<1>4. CASE Repairing(m)
  BY <1>4 DEF Stage, Repairing, Awaited, NoFlag, Active
<1>5. CASE Flagged(m)
  BY <1>5 DEF Stage, Flagged, Awaited, Active, Unasked, NoFlag
<1>6. CASE Finished(m)
  BY <1>6 DEF Stage, Finished, NoFlag
<1> QED BY <1>1, <1>2, <1>3, <1>4, <1>5, <1>6 DEF Stage

\* What is the case while a sender thread is at work.
LEMMA WhileSending ==
  ASSUME IInv, NEW n \in Nodes, send_pc[n] # "idle"
  PROVE  /\ batch \in 1 .. NumBatches
         /\ NumCommands(batch, n) \in Nat
         /\ n \in Involved(batch)
         /\ coor_pc # "done"
         /\ send_pc[n] # "joined" => coor_pc = "send"
<1>1. coor_pc # "done" /\ n \in Involved(batch)
  BY DEF IInv, CoorInv
<1>2. batch \in 1 .. NumBatches
  BY <1>1 DEF IInv, CoorInv, TypeOK
<1>3. NumCommands(batch, n) \in Nat
  BY <1>2, SentAll
<1>4. send_pc[n] # "joined" => coor_pc = "send"
  BY <1>1 DEF IInv, CoorInv, TypeOK
<1> QED BY <1>1, <1>2, <1>3, <1>4

----------------------------------------------------------------------------
(* The sender threads and redis. *)

\* A sender thread that goes on, from its first command to its last reply.
LEMMA SenderGoesOn ==
  ASSUME IInv, NEW n \in Nodes,
         send_pc[n] \in Active, send_pc[n] # "joined",
         send_pc' = [send_pc EXCEPT ![n] = send_pc'[n]],
         send_pc'[n] \in Active,
         UNCHANGED <<coorVars, agentVars, executed, ag_request, command, finish>>
  PROVE  CoorInv' /\ NodeInv'
<1>1. /\ batch \in 1 .. NumBatches /\ n \in Involved(batch) /\ coor_pc = "send"
      /\ send_pc[n] # "idle"
  BY WhileSending DEF Active
<1>2. send_pc \in [Nodes -> {"idle", "request", "append", "reply", "drain", "joined"}]
  BY DEF IInv, TypeOK
<1>3. send_pc'[n] # "idle" /\ \A m \in Nodes \ {n} : send_pc'[m] = send_pc[m]
  BY <1>2 DEF Active
<1>4. CoorInv'
  BY <1>1, <1>2, <1>3 DEF IInv, CoorInv, coorVars
<1>5. ASSUME NEW m \in Nodes PROVE Stage(m)'
  <2>1. Stage(m)
    BY DEF IInv, NodeInv
  <2> QED BY <1>1, <1>3, <2>1, Frame DEF coorVars, agentVars
<1> QED BY <1>4, <1>5 DEF NodeInv

LEMMA SenderSteps ==
  ASSUME IInv, NEW n \in Nodes,
         AppendCommand(n) \/ StartDrain(n) \/ WriteBuffer(n) \/ GetReply(n) \/ SenderReturns(n)
  PROVE  IInv'
<1>1. /\ batch \in 1 .. NumBatches
      /\ NumCommands(batch, n) \in Nat
      /\ send_pc[n] \in Active /\ send_pc[n] # "joined" /\ send_pc[n] # "idle"
  <2>1. send_pc[n] \in Active /\ send_pc[n] # "joined" /\ send_pc[n] # "idle"
    BY DEF AppendCommand, StartDrain, WriteBuffer, GetReply, SenderReturns, Active
  <2> QED BY <2>1, WhileSending
<1>2. /\ send_pc \in [Nodes -> {"idle", "request", "append", "reply", "drain", "joined"}]
      /\ count \in [Nodes -> Nat] /\ written \in [Nodes -> Nat]
      /\ executed \in [Nodes -> Nat] /\ replyid \in [Nodes -> Nat]
  BY DEF IInv, TypeOK
<1>3. /\ send_pc' = [send_pc EXCEPT ![n] = send_pc'[n]]
      /\ send_pc'[n] \in {"append", "reply", "drain", "joined"}
      /\ UNCHANGED <<coorVars, agentVars, executed, ag_request, command, finish>>
  BY <1>2 DEF AppendCommand, StartDrain, WriteBuffer, GetReply, SenderReturns
<1>4. CoorInv' /\ NodeInv'
  BY <1>1, <1>3, SenderGoesOn DEF Active
<1>5. /\ count' \in [Nodes -> Nat] /\ written' \in [Nodes -> Nat]
      /\ replyid' \in [Nodes -> Nat]
  BY <1>2 DEF AppendCommand, StartDrain, WriteBuffer, GetReply, SenderReturns
<1>6. TypeOK'
  <2>1. send_pc' \in [Nodes -> {"idle", "request", "append", "reply", "drain", "joined"}]
    BY <1>2, <1>3
  <2>2. UNCHANGED <<coorVars, agentVars, executed, ag_request, command, finish>>
    BY <1>3
  <2> QED BY <1>5, <2>1, <2>2 DEF IInv, TypeOK, coorVars, agentVars
<1>7. SenderInv'
  <2>1. SenderInv
    BY DEF IInv
  <2>2. batch' = batch
    BY <1>3 DEF coorVars
  <2>3. CASE AppendCommand(n)
    BY <1>1, <1>2, <2>1, <2>2, <2>3 DEF SenderInv, AppendCommand
  <2>4. CASE StartDrain(n)
    BY <1>1, <1>2, <2>1, <2>2, <2>4 DEF SenderInv, StartDrain
  <2>5. CASE WriteBuffer(n)
    BY <1>1, <1>2, <2>1, <2>2, <2>5 DEF SenderInv, WriteBuffer
  <2>6. CASE GetReply(n)
    BY <1>1, <1>2, <2>1, <2>2, <2>6 DEF SenderInv, GetReply
  <2>7. CASE SenderReturns(n)
    BY <1>1, <1>2, <2>1, <2>2, <2>7 DEF SenderInv, SenderReturns
  <2> QED BY <2>3, <2>4, <2>5, <2>6, <2>7
<1> QED BY <1>4, <1>6, <1>7 DEF IInv

LEMMA SendRequestStep ==
  ASSUME IInv, NEW n \in Nodes, SendRequest(n)
  PROVE  IInv'
<1>1. send_pc[n] = "request"
  BY DEF SendRequest
<1>2. batch \in 1 .. NumBatches /\ NumCommands(batch, n) \in Nat /\ coor_pc = "send"
      /\ n \in Involved(batch)
  BY <1>1, WhileSending
<1>3. TypeOK'
  BY <1>2 DEF IInv, TypeOK, SendRequest, coorVars, agentVars
<1>4. CoorInv'
  BY <1>1, <1>2 DEF IInv, TypeOK, CoorInv, SendRequest, coorVars
<1>5. SenderInv'
  BY <1>1, <1>2 DEF IInv, TypeOK, SenderInv, SendRequest, coorVars
<1>6. Asked(n)'
  <2>1. Unasked(n)
    BY <1>1, <1>2 DEF IInv, NodeInv, Stage, Asked, Receiving, Repairing, Flagged,
                      Finished, Awaited, Active
  <2>2. executed[n] = 0
    BY <1>1 DEF IInv, TypeOK, SenderInv
  <2>3. \A s \in Stripes : Sent(batch, n, 0, s) = <<>> /\ NoTasks[s] = <<>>
    BY <1>2, SentNone DEF NoTasks
  <2>4. \A s \in Stripes : NoTasks[s] \o command[n][s] = Sent(batch, n, executed[n], s)
    <3>1. <<>> \o <<>> = <<>>
      OBVIOUS
    <3> QED BY <2>1, <2>2, <2>3, <3>1 DEF Unasked
  <2>5. ag_request'[n] = <<batch>> /\ send_pc'[n] = "append"
    BY <2>1 DEF IInv, TypeOK, SendRequest, Unasked
  <2> QED BY <1>2, <2>1, <2>4, <2>5
          DEF SendRequest, Unasked, Asked, Awaited, Active, Arriving, NoFlag, coorVars,
              agentVars
<1>7. ASSUME NEW m \in Nodes, m # n PROVE Stage(m)'
  <2>1. Stage(m)
    BY DEF IInv, NodeInv
  <2>2. send_pc'[m] = send_pc[m] /\ ag_request'[m] = ag_request[m]
    BY <1>7 DEF IInv, TypeOK, SendRequest
  <2> QED BY <1>2, <2>1, <2>2, Frame DEF SendRequest, coorVars, agentVars
<1> QED BY <1>3, <1>4, <1>5, <1>6, <1>7 DEF IInv, NodeInv, Stage

LEMMA AppendLast ==
  ASSUME NEW s \in Seq(Nat), NEW t \in Seq(Nat), NEW e \in Nat
  PROVE  s \o Append(t, e) = Append(s \o t, e)
OBVIOUS

LEMMA MoveHead ==
  ASSUME NEW s \in Seq(Nat), NEW t \in Seq(Nat), t # <<>>
  PROVE  Append(s, Head(t)) \o Tail(t) = s \o t
OBVIOUS

\* The server executes the command that the agent, or redis, lacks next.
LEMMA ExecuteCommandStep ==
  ASSUME IInv, NEW n \in Nodes, ExecuteCommand(n)
  PROVE  IInv'
<1> DEFINE e == executed[n]
           c == CommandAt(batch, n, e + 1)
<1>1. /\ command \in [Nodes -> [Stripes -> Seq(Nat)]]
      /\ tasks \in [Nodes -> [Stripes -> Seq(Nat)]]
      /\ executed \in [Nodes -> Nat]
      /\ written \in [Nodes -> Nat]
      /\ count \in [Nodes -> Nat]
      /\ replyid \in [Nodes -> Nat]
  BY DEF IInv, TypeOK
<1>2. e < written[n] /\ written[n] <= count[n] /\ count[n] # 0
  BY <1>1 DEF ExecuteCommand, IInv, SenderInv
<1>3. send_pc[n] \notin {"idle", "request"}
  BY <1>2 DEF IInv, SenderInv
<1>4. batch \in 1 .. NumBatches /\ NumCommands(batch, n) \in Nat
  BY <1>3, WhileSending
<1>5. e \in Nat /\ e < NumCommands(batch, n)
  BY <1>1, <1>2, <1>3, <1>4 DEF IInv, SenderInv
<1>6. /\ executed' = [executed EXCEPT ![n] = e + 1]
      /\ executed'[n] = e + 1
  BY <1>1 DEF ExecuteCommand
<1>7. command' = [command EXCEPT ![n][c.stripe] = Append(@, c.task)]
  BY <1>6 DEF ExecuteCommand
<1>8. UNCHANGED <<coorVars, agentVars, send_pc, count, written, replyid, ag_request, finish>>
  BY DEF ExecuteCommand
<1>9. /\ c.stripe \in Stripes
      /\ c.task \in Nat
      /\ Sent(batch, n, e + 1, c.stripe) = Append(Sent(batch, n, e, c.stripe), c.task)
      /\ \A s \in Stripes : s # c.stripe => Sent(batch, n, e + 1, s) = Sent(batch, n, e, s)
  BY <1>4, <1>5, SentOne
<1> HIDE DEF c, e
<1>10. /\ command' \in [Nodes -> [Stripes -> Seq(Nat)]]
       /\ \A m \in Nodes : m # n => command'[m] = command[m]
       /\ command'[n][c.stripe] = Append(command[n][c.stripe], c.task)
       /\ \A s \in Stripes : s # c.stripe => command'[n][s] = command[n][s]
  BY <1>1, <1>7, <1>9
<1>11. executed' \in [Nodes -> Nat] /\ \A m \in Nodes : m # n => executed'[m] = executed[m]
  BY <1>1, <1>5, <1>6
<1>12. TypeOK'
  BY <1>8, <1>10, <1>11 DEF IInv, TypeOK, coorVars, agentVars
<1>13. CoorInv'
  BY <1>8 DEF IInv, CoorInv, coorVars
<1>14. SenderInv'
  BY <1>1, <1>2, <1>5, <1>6, <1>8, <1>11 DEF IInv, SenderInv, coorVars, e
<1>15. ASSUME NEW got \in [Stripes -> Seq(Nat)], Arriving(n, got)
       PROVE  \A s \in Stripes : got[s] \o command'[n][s] = Sent(batch, n, e + 1, s)
  <2> SUFFICES ASSUME NEW s \in Stripes
               PROVE  got[s] \o command'[n][s] = Sent(batch, n, e + 1, s)
    OBVIOUS
  <2>1. /\ got[s] \o command[n][s] = Sent(batch, n, e, s)
        /\ got[s] \in Seq(Nat) /\ command[n][s] \in Seq(Nat)
    BY <1>1, <1>15 DEF Arriving, e
  <2>2. CASE s = c.stripe
    <3>1. got[s] \o Append(command[n][s], c.task) = Append(got[s] \o command[n][s], c.task)
      BY <1>9, <2>1, AppendLast
    <3> QED BY <1>9, <1>10, <2>1, <2>2, <3>1
  <2>3. CASE s # c.stripe
    BY <1>9, <1>10, <2>1, <2>3
  <2> QED BY <2>2, <2>3
<1>16. Stage(n)'
  <2>1. Asked(n) \/ Receiving(n)
    BY <1>3, <1>5 DEF IInv, NodeInv, Stage, Unasked, Repairing, Flagged, Finished, e
  <2>2. CASE Asked(n)
    <3>1. NoTasks \in [Stripes -> Seq(Nat)]
      BY DEF NoTasks
    <3>2. \A s \in Stripes : NoTasks[s] \o command'[n][s] = Sent(batch, n, e + 1, s)
      BY <1>15, <2>2, <3>1 DEF Asked
    <3> QED BY <1>6, <1>8, <2>2, <3>2
            DEF Stage, Asked, Awaited, Arriving, NoFlag, coorVars, agentVars
  <2>3. CASE Receiving(n)
    <3>1. \A s \in Stripes : tasks[n][s] \o command'[n][s] = Sent(batch, n, e + 1, s)
      BY <1>1, <1>15, <2>3 DEF Receiving
    <3> QED BY <1>6, <1>8, <2>3, <3>1
            DEF Stage, Receiving, Awaited, Arriving, NoFlag, coorVars, agentVars
  <2> QED BY <2>1, <2>2, <2>3
<1>17. ASSUME NEW m \in Nodes, m # n PROVE Stage(m)'
  <2>1. Stage(m)
    BY DEF IInv, NodeInv
  <2> QED BY <1>4, <1>8, <1>10, <1>11, <1>17, <2>1, Frame DEF coorVars, agentVars
<1> QED BY <1>12, <1>13, <1>14, <1>16, <1>17 DEF IInv, NodeInv

----------------------------------------------------------------------------
(* The main thread. *)

LEMMA JoinSendersStep ==
  ASSUME IInv, JoinSenders
  PROVE  IInv'
<1>1. batch \in 1 .. NumBatches
  BY DEF JoinSenders, IInv, CoorInv
<1>2. TypeOK'
  <2>1. Involved(batch) \subseteq Nodes
    BY DEF Involved
  <2> QED BY <2>1 DEF JoinSenders, IInv, TypeOK, sendVars, agentVars
<1>3. CoorInv'
  BY <1>1 DEF JoinSenders, IInv, CoorInv, sendVars
<1>4. SenderInv'
  BY DEF JoinSenders, IInv, SenderInv, sendVars
<1>5. ASSUME NEW m \in Nodes PROVE Stage(m)'
  <2>1. Stage(m) /\ ~ Finished(m)
    BY DEF JoinSenders, IInv, NodeInv, Finished
  <2>2. CASE Unasked(m)
    BY <2>2 DEF JoinSenders, Stage, Unasked, NoFlag, sendVars, agentVars
  <2>3. ASSUME Awaited(m) PROVE Awaited(m)'
    <3>1. m \in Involved(batch)
      BY <2>3 DEF IInv, CoorInv, Awaited, Active
    <3> QED BY <2>3, <3>1 DEF JoinSenders, Awaited, Active, sendVars
  <2>4. CASE Asked(m)
    BY <2>3, <2>4 DEF JoinSenders, Stage, Asked, Arriving, NoFlag, sendVars, agentVars
  <2>5. CASE Receiving(m)
    BY <2>3, <2>5 DEF JoinSenders, Stage, Receiving, Arriving, NoFlag, sendVars, agentVars
  <2>6. CASE Repairing(m)
    BY <2>3, <2>6 DEF JoinSenders, Stage, Repairing, NoFlag, sendVars, agentVars
  <2>7. CASE Flagged(m)
    BY <2>3, <2>7 DEF JoinSenders, Stage, Flagged, sendVars, agentVars
  <2> QED BY <2>1, <2>2, <2>4, <2>5, <2>6, <2>7 DEF Stage
<1> QED BY <1>2, <1>3, <1>4, <1>5 DEF IInv, NodeInv

LEMMA TakeFlagStep ==
  ASSUME IInv, NEW n \in Nodes, TakeFlag(n)
  PROVE  IInv'
<1>1. /\ batch \in 1 .. NumBatches /\ n \in Involved(batch) /\ coor_pc = "wait"
      /\ n \in waiting /\ waiting \subseteq Involved(batch)
  BY DEF TakeFlag, IInv, CoorInv
<1>2. finish \in [1 .. NumBatches -> [Nodes -> Nat]] /\ finish[batch][n] > 0
  BY DEF TakeFlag, IInv, TypeOK
<1>3. /\ finish' = [finish EXCEPT ![batch][n] = @ - 1]
      /\ waiting' = waiting \ {n}
      /\ UNCHANGED <<batch, coor_pc, sendVars, agentVars, ag_request, command>>
  BY DEF TakeFlag
<1>4. /\ finish' \in [1 .. NumBatches -> [Nodes -> Nat]]
      /\ finish'[batch][n] = finish[batch][n] - 1
      /\ \A b \in 1 .. NumBatches : b # batch => finish'[b][n] = finish[b][n]
      /\ \A b \in 1 .. NumBatches : \A m \in Nodes : m # n => finish'[b][m] = finish[b][m]
  BY <1>1, <1>2, <1>3
<1>5. TypeOK'
  BY <1>3, <1>4 DEF IInv, TypeOK, sendVars, agentVars
<1>6. CoorInv' /\ SenderInv'
  BY <1>1, <1>3 DEF IInv, CoorInv, SenderInv, sendVars
<1>7. Finished(n)'
  <2>1. Flagged(n)
    BY <1>1, <1>2 DEF IInv, NodeInv, Stage, Unasked, Asked, Receiving, Repairing, Finished,
                      NoFlag
  <2>2. NoFlag(n)'
    BY <1>1, <1>4, <2>1 DEF Flagged, NoFlag
  <2> QED BY <1>1, <1>3, <2>1, <2>2 DEF Flagged, Finished, sendVars, agentVars
<1>8. ASSUME NEW m \in Nodes, m # n PROVE Stage(m)'
  <2>1. Stage(m)
    BY DEF IInv, NodeInv
  <2> QED BY <1>1, <1>3, <1>4, <1>8, <2>1, Frame DEF sendVars, agentVars
<1> QED BY <1>5, <1>6, <1>7, <1>8 DEF IInv, NodeInv, Stage

LEMMA NextBatchStep ==
  ASSUME IInv, NextBatch
  PROVE  IInv'
<1>1. batch \in 1 .. NumBatches /\ coor_pc = "wait" /\ waiting = {} /\ NumBatches \in Nat
  BY BatchesAssumption DEF NextBatch, IInv, CoorInv
<1>2. /\ batch' = batch + 1
      /\ UNCHANGED <<waiting, agentVars, ag_request, command, finish>>
      /\ \A n \in Nodes : count'[n] = 0 /\ written'[n] = 0 /\ executed'[n] = 0 /\ replyid'[n] = 0
  BY DEF NextBatch, Zero
<1>3. \/ /\ batch' \in 1 .. NumBatches
         /\ coor_pc' = "send"
         /\ send_pc' = [n \in Nodes |-> IF n \in Involved(batch') THEN "request" ELSE "idle"]
      \/ /\ batch' = NumBatches + 1
         /\ coor_pc' = "done"
         /\ send_pc' = [n \in Nodes |-> "idle"]
  BY <1>1 DEF NextBatch, SendersOf
<1>4. TypeOK'
  <2>1. /\ count' \in [Nodes -> Nat] /\ written' \in [Nodes -> Nat]
        /\ executed' \in [Nodes -> Nat] /\ replyid' \in [Nodes -> Nat]
    BY DEF NextBatch, Zero
  <2>2. send_pc' \in [Nodes -> {"idle", "request"}]
    BY <1>3
  <2>3. batch' \in 1 .. NumBatches + 1 /\ coor_pc' \in {"send", "done"}
    BY <1>1, <1>3
  <2> QED BY <1>2, <2>1, <2>2, <2>3 DEF IInv, TypeOK, agentVars
<1>5. CoorInv'
  BY <1>1, <1>2, <1>3 DEF IInv, CoorInv
<1>6. SenderInv'
  <2> SUFFICES ASSUME NEW n \in Nodes
               PROVE  /\ send_pc'[n] \in {"idle", "request"}
                      /\ send_pc'[n] # "idle" => NumCommands(batch', n) >= 0
    BY <1>2 DEF SenderInv
  <2>1. batch' \in 1 .. NumBatches => NumCommands(batch', n) \in Nat
    BY SentAll
  <2> QED BY <1>3, <2>1
<1>7. ASSUME NEW n \in Nodes PROVE Unasked(n)'
  <2>1. Unasked(n) \/ Finished(n)
    BY <1>1 DEF IInv, NodeInv, Stage, Asked, Receiving, Repairing, Flagged, Awaited
  <2>2. send_pc'[n] \in {"idle", "request"}
    BY <1>3
  <2> QED BY <1>2, <2>1, <2>2 DEF Unasked, Finished, NoFlag, agentVars
<1> QED BY <1>4, <1>5, <1>6, <1>7 DEF IInv, NodeInv, Stage

----------------------------------------------------------------------------
(* The agents. *)

\* While a node is awaited it is one of those the current batch needs.
LEMMA WhileAwaited ==
  ASSUME IInv, NEW n \in Nodes, Awaited(n)
  PROVE  /\ batch \in 1 .. NumBatches
         /\ NumCommands(batch, n) \in Nat
         /\ n \in Involved(batch)
         /\ coor_pc # "done"
         /\ executed[n] \in 0 .. NumCommands(batch, n)
<1>1. send_pc[n] # "idle"
  BY DEF Awaited, Active
<1>2. /\ executed[n] \in Nat /\ written[n] \in Nat /\ count[n] \in Nat
      /\ executed[n] <= written[n] /\ written[n] <= count[n]
      /\ count[n] <= NumCommands(batch, n)
  BY <1>1 DEF IInv, TypeOK, SenderInv
<1> QED BY <1>1, <1>2, WhileSending

LEMMA ReadInstructionsStep ==
  ASSUME IInv, NEW n \in Nodes, ReadInstructions(n)
  PROVE  IInv'
<1>1. Asked(n)
  BY DEF ReadInstructions, IInv, NodeInv, Stage, Unasked, Receiving, Repairing, Flagged,
         Finished
<1>2. batch \in 1 .. NumBatches
  BY <1>1, WhileAwaited DEF Asked
<1>3. Head(ag_request[n]) = batch /\ Tail(ag_request[n]) = <<>>
  BY <1>1 DEF Asked
<1>4. NoTasks \in [Stripes -> Seq(Nat)]
  BY DEF NoTasks
<1>5. TypeOK'
  BY <1>2, <1>3, <1>4 DEF ReadInstructions, IInv, TypeOK, coorVars, sendVars
<1>6. CoorInv' /\ SenderInv'
  BY DEF ReadInstructions, IInv, CoorInv, SenderInv, coorVars, sendVars
<1>7. Receiving(n)'
  <2>1. /\ ag_request'[n] = <<>> /\ agent_batch'[n] = batch
        /\ tasks'[n] = NoTasks /\ agent_pc'[n] = "recv"
    BY <1>3 DEF ReadInstructions, IInv, TypeOK
  <2> QED BY <1>1, <2>1
          DEF ReadInstructions, Asked, Receiving, Awaited, Arriving, NoFlag, coorVars, sendVars
<1>8. ASSUME NEW m \in Nodes, m # n PROVE Stage(m)'
  <2>1. Stage(m)
    BY DEF IInv, NodeInv
  <2>2. /\ ag_request'[m] = ag_request[m] /\ agent_batch'[m] = agent_batch[m]
        /\ tasks'[m] = tasks[m] /\ agent_pc'[m] = agent_pc[m]
    BY <1>8 DEF ReadInstructions, IInv, TypeOK
  <2> QED BY <1>2, <2>1, <2>2, Frame DEF ReadInstructions, coorVars, sendVars
<1> QED BY <1>5, <1>6, <1>7, <1>8 DEF IInv, NodeInv, Stage

LEMMA RecvTaskStep ==
  ASSUME IInv, NEW n \in Nodes, RecvTask(n)
  PROVE  IInv'
<1>1. Receiving(n)
  BY DEF RecvTask, IInv, NodeInv, Stage, Unasked, Asked, Repairing, Flagged, Finished
<1>2. batch \in 1 .. NumBatches
  BY <1>1, WhileAwaited DEF Receiving
<1>3. PICK s \in Stripes :
        /\ command[n][s] # <<>>
        /\ tasks' = [tasks EXCEPT ![n][s] = Append(@, Head(command[n][s]))]
        /\ command' = [command EXCEPT ![n][s] = Tail(@)]
  <2>1. agent_batch[n] = batch
    BY <1>1 DEF Receiving
  <2>2. \A i \in Missing(n) : StripeList(batch, n)[i] \in Stripes
    BY <1>2, <2>1, ListType DEF Missing
  <2> QED BY <2>1, <2>2 DEF RecvTask
<1>4. UNCHANGED <<coorVars, sendVars, agent_pc, agent_batch, repaired, ag_request, finish>>
  BY DEF RecvTask
<1>5. /\ command \in [Nodes -> [Stripes -> Seq(Nat)]]
      /\ tasks \in [Nodes -> [Stripes -> Seq(Nat)]]
  BY DEF IInv, TypeOK
<1>6. command[n][s] \in Seq(Nat) /\ tasks[n][s] \in Seq(Nat) /\ command[n][s] # <<>>
  BY <1>3, <1>5
<1>7. Head(command[n][s]) \in Nat /\ Tail(command[n][s]) \in Seq(Nat)
  BY <1>6
<1>8. /\ tasks' \in [Nodes -> [Stripes -> Seq(Nat)]]
      /\ command' \in [Nodes -> [Stripes -> Seq(Nat)]]
      /\ tasks'[n][s] = Append(tasks[n][s], Head(command[n][s]))
      /\ command'[n][s] = Tail(command[n][s])
      /\ \A r \in Stripes : r # s => tasks'[n][r] = tasks[n][r] /\ command'[n][r] = command[n][r]
      /\ \A m \in Nodes : m # n => tasks'[m] = tasks[m] /\ command'[m] = command[m]
  BY <1>3, <1>5, <1>6, <1>7
<1>9. TypeOK'
  BY <1>4, <1>8 DEF IInv, TypeOK, coorVars, sendVars
<1>10. CoorInv' /\ SenderInv'
  BY <1>4 DEF IInv, CoorInv, SenderInv, coorVars, sendVars
<1>11. Receiving(n)'
  <2>1. \A r \in Stripes : tasks'[n][r] \o command'[n][r] = tasks[n][r] \o command[n][r]
    <3>1. tasks'[n][s] \o command'[n][s] = tasks[n][s] \o command[n][s]
      BY <1>6, <1>8, MoveHead
    <3> QED BY <1>8, <3>1
  <2>2. Arriving(n, tasks[n])'
    BY <1>1, <1>4, <2>1 DEF Receiving, Arriving, coorVars, sendVars
  <2> QED BY <1>1, <1>4, <2>2 DEF Receiving, Awaited, NoFlag, coorVars, sendVars
<1>12. ASSUME NEW m \in Nodes, m # n PROVE Stage(m)'
  <2>1. Stage(m)
    BY DEF IInv, NodeInv
  <2> QED BY <1>2, <1>4, <1>8, <1>12, <2>1, Frame DEF coorVars, sendVars
<1> QED BY <1>9, <1>10, <1>11, <1>12 DEF IInv, NodeInv, Stage

LEMMA LongerAfter ==
  ASSUME NEW s \in Seq(Nat), NEW t \in Seq(Nat)
  PROVE  Len(s \o t) >= Len(s)
OBVIOUS

LEMMA SplitAll ==
  ASSUME NEW s \in Seq(Nat), NEW t \in Seq(Nat), NEW u \in Seq(Nat),
         s \o t = u, Len(s) >= Len(u)
  PROVE  t = <<>> /\ s = u
<1>1. Len(s) \in Nat /\ Len(t) \in Nat /\ Len(u) = Len(s) + Len(t)
  OBVIOUS
<1>2. Len(t) = 0
  BY <1>1
<1>3. t = <<>>
  BY <1>2
<1> QED BY <1>3

\* When the agent lacks no command, none is on the way to it.
LEMMA NothingMissing ==
  ASSUME IInv, NEW n \in Nodes, Receiving(n), Missing(n) = {}
  PROVE  /\ executed[n] = NumCommands(batch, n)
         /\ command[n] = NoTasks
         /\ tasks[n] = AllTasks(batch, n)
<1> DEFINE L == StripeList(batch, n)
<1>1. batch \in 1 .. NumBatches /\ executed[n] \in 0 .. NumCommands(batch, n)
      /\ NumCommands(batch, n) \in Nat
  BY WhileAwaited DEF Receiving
<1>2. \A s \in Stripes : command[n][s] \in Seq(Nat) /\ tasks[n][s] \in Seq(Nat)
  BY DEF IInv, TypeOK
<1>3. \A s \in Stripes : tasks[n][s] \o command[n][s] = Sent(batch, n, executed[n], s)
  BY DEF Receiving, Arriving
<1>4. ASSUME NEW k \in 1 .. Len(L)
      PROVE  /\ L[k] \in Stripes
             /\ Len(tasks[n][L[k]]) \in Nat /\ TaskNum[L[k]][n] \in Nat
             /\ Len(tasks[n][L[k]]) >= TaskNum[L[k]][n]
  <2>1. L[k] \in Stripes /\ TaskNum[L[k]][n] \in Nat
    BY <1>1, ListType
  <2>2. ~ (Len(tasks[n][L[k]]) < TaskNum[L[k]][n])
    BY DEF Missing, Receiving
  <2>3. Len(tasks[n][L[k]]) \in Nat
    BY <1>2, <2>1
  <2> QED BY <2>1, <2>2, <2>3
<1>5. ASSUME NEW s \in Stripes
      PROVE  Len(tasks[n][s]) <= SentNum(batch, n, executed[n], s)
  <2>1. Len(Sent(batch, n, executed[n], s)) = SentNum(batch, n, executed[n], s)
    <3>1. executed[n] \in Nat
      BY <1>1
    <3> QED BY <1>1, <3>1, SentType
  <2>2. tasks[n][s] \in Seq(Nat) /\ command[n][s] \in Seq(Nat)
    BY <1>2
  <2>3. Len(tasks[n][s] \o command[n][s]) >= Len(tasks[n][s])
    BY <2>2, LongerAfter
  <2> QED BY <1>3, <2>1, <2>3
<1>6. executed[n] = NumCommands(batch, n)
  <2>1. ASSUME NEW k \in 1 .. Len(L)
        PROVE  SentNum(batch, n, executed[n], L[k]) >= TaskNum[L[k]][n]
    <3>1. SentNum(batch, n, executed[n], L[k]) \in Nat
      <4>1. L[k] \in Stripes
        BY <1>4
      <4> HIDE DEF L
      <4> QED BY <1>1, <4>1, SentType
    <3> HIDE DEF L
    <3> QED BY <1>4, <1>5, <3>1
  <2> QED BY <1>1, <2>1, SentAll
<1>7. ASSUME NEW s \in Stripes
      PROVE  command[n][s] = <<>> /\ tasks[n][s] = Sent(batch, n, NumCommands(batch, n), s)
  <2> DEFINE u == Sent(batch, n, NumCommands(batch, n), s)
  <2>1. u \in Seq(Nat) /\ Len(u) = SentNum(batch, n, NumCommands(batch, n), s)
    BY <1>1, SentType
  <2>2. tasks[n][s] \o command[n][s] = u
    BY <1>3, <1>6
  <2>3. Len(tasks[n][s]) >= Len(u)
    <3>1. CASE InList(batch, n, s)
      <4>1. Len(u) = TaskNum[s][n]
        BY <1>1, <2>1, <3>1, SentAll
      <4> HIDE DEF u
      <4> QED BY <1>4, <3>1, <4>1 DEF InList
    <3>2. CASE ~ InList(batch, n, s)
      <4>1. Len(u) = 0
        BY <1>1, <2>1, <3>2, SentAll
      <4> HIDE DEF u
      <4> QED BY <1>2, <4>1
    <3> QED BY <3>1, <3>2
  <2> HIDE DEF u
  <2>4. command[n][s] = <<>> /\ tasks[n][s] = u
    BY <1>2, <2>1, <2>2, <2>3, SplitAll
  <2> QED BY <2>4 DEF u
<1>8. command[n] = NoTasks /\ tasks[n] = AllTasks(batch, n)
  <2>1. command[n] \in [Stripes -> Seq(Nat)] /\ tasks[n] \in [Stripes -> Seq(Nat)]
    BY DEF IInv, TypeOK
  <2> QED BY <1>7, <2>1 DEF NoTasks, AllTasks
<1> QED BY <1>6, <1>8

\* When the commands of all its stripes are complete, the agent has everything.
LEMMA StartRepairStep ==
  ASSUME IInv, NEW n \in Nodes, StartRepair(n)
  PROVE  IInv'
<1>1. Receiving(n)
  BY DEF StartRepair, IInv, NodeInv, Stage, Unasked, Asked, Repairing, Flagged, Finished
<1>2. batch \in 1 .. NumBatches
  BY <1>1, WhileAwaited DEF Receiving
<1>3. /\ executed[n] = NumCommands(batch, n)
      /\ command[n] = NoTasks
      /\ tasks[n] = AllTasks(batch, n)
  BY <1>1, NothingMissing DEF StartRepair
<1>4. /\ agent_pc' = [agent_pc EXCEPT ![n] = "repair"]
      /\ UNCHANGED <<coorVars, sendVars, agent_batch, tasks, repaired, ag_request, command,
                     finish>>
  BY DEF StartRepair
<1>5. TypeOK'
  BY <1>4 DEF IInv, TypeOK, coorVars, sendVars
<1>6. CoorInv' /\ SenderInv'
  BY <1>4 DEF IInv, CoorInv, SenderInv, coorVars, sendVars
<1>7. /\ agent_pc'[n] = "repair"
      /\ \A m \in Nodes : m # n => agent_pc'[m] = agent_pc[m]
  BY <1>4 DEF IInv, TypeOK
<1>8. Repairing(n)'
  BY <1>1, <1>3, <1>4, <1>7 DEF Receiving, Repairing, AllTasks, Awaited, NoFlag, coorVars, sendVars
<1>9. ASSUME NEW m \in Nodes, m # n PROVE Stage(m)'
  <2>1. Stage(m)
    BY DEF IInv, NodeInv
  <2> QED BY <1>2, <1>4, <1>7, <1>9, <2>1, Frame DEF coorVars, sendVars
<1> QED BY <1>5, <1>6, <1>8, <1>9 DEF IInv, NodeInv, Stage

LEMMA StripeDoneStep ==
  ASSUME IInv, NEW n \in Nodes, NEW s \in Stripes, StripeDone(n, s)
  PROVE  IInv'
<1>1. Repairing(n)
  BY DEF StripeDone, IInv, NodeInv, Stage, Unasked, Asked, Receiving, Flagged, Finished
<1>2. batch \in 1 .. NumBatches
  BY <1>1, WhileAwaited DEF Repairing
<1>3. /\ repaired' = [repaired EXCEPT ![n] = @ \cup {s}]
      /\ UNCHANGED <<coorVars, sendVars, agent_pc, agent_batch, tasks, ag_request, command,
                     finish>>
  BY DEF StripeDone
<1>4. TypeOK'
  BY <1>3 DEF IInv, TypeOK, coorVars, sendVars
<1>5. CoorInv' /\ SenderInv'
  BY <1>3 DEF IInv, CoorInv, SenderInv, coorVars, sendVars
<1>6. ASSUME NEW m \in Nodes PROVE Stage(m)'
  <2>1. Stage(m)
    BY DEF IInv, NodeInv
  <2> QED BY <1>2, <1>3, <2>1, Frame DEF coorVars, sendVars
<1> QED BY <1>4, <1>5, <1>6 DEF IInv, NodeInv

LEMMA SendFinishFlagStep ==
  ASSUME IInv, NEW n \in Nodes, SendFinishFlag(n)
  PROVE  IInv'
<1>1. Repairing(n)
  BY DEF SendFinishFlag, IInv, NodeInv, Stage, Unasked, Asked, Receiving, Flagged, Finished
<1>2. batch \in 1 .. NumBatches
  BY <1>1, WhileAwaited DEF Repairing
<1>3. /\ finish' = [finish EXCEPT ![batch][n] = @ + 1]
      /\ agent_pc' = [agent_pc EXCEPT ![n] = "read"]
      /\ UNCHANGED <<coorVars, sendVars, agent_batch, tasks, repaired, ag_request, command>>
  BY <1>1 DEF SendFinishFlag, Repairing
<1>4. finish \in [1 .. NumBatches -> [Nodes -> Nat]] /\ finish[batch][n] = 0
  BY <1>1, <1>2 DEF IInv, TypeOK, Repairing, NoFlag
<1>5. /\ finish' \in [1 .. NumBatches -> [Nodes -> Nat]]
      /\ finish'[batch][n] = 1
      /\ \A b \in 1 .. NumBatches : b # batch => finish'[b][n] = finish[b][n]
      /\ \A b \in 1 .. NumBatches : \A m \in Nodes : m # n => finish'[b][m] = finish[b][m]
  BY <1>2, <1>3, <1>4
<1>6. /\ agent_pc'[n] = "read"
      /\ \A m \in Nodes : m # n => agent_pc'[m] = agent_pc[m]
  BY <1>3 DEF IInv, TypeOK
<1>7. TypeOK'
  BY <1>3, <1>5 DEF IInv, TypeOK, coorVars, sendVars
<1>8. CoorInv' /\ SenderInv'
  BY <1>3 DEF IInv, CoorInv, SenderInv, coorVars, sendVars
<1>9. Flagged(n)'
  BY <1>1, <1>3, <1>5, <1>6 DEF Repairing, Flagged, Awaited, NoFlag, coorVars, sendVars
<1>10. ASSUME NEW m \in Nodes, m # n PROVE Stage(m)'
  <2>1. Stage(m)
    BY DEF IInv, NodeInv
  <2> QED BY <1>2, <1>3, <1>5, <1>6, <1>10, <2>1, Frame DEF coorVars, sendVars
<1> QED BY <1>7, <1>8, <1>9, <1>10 DEF IInv, NodeInv, Stage

----------------------------------------------------------------------------
(* The theorems. *)

LEMMA StutterStep ==
  ASSUME IInv, UNCHANGED vars
  PROVE  IInv'
<1>1. TypeOK' /\ CoorInv' /\ SenderInv'
  BY DEF IInv, TypeOK, CoorInv, SenderInv, vars, coorVars, sendVars, agentVars
<1>2. ASSUME NEW n \in Nodes PROVE Stage(n)'
  BY DEF IInv, NodeInv, Stage, Unasked, Asked, Receiving, Repairing, Flagged, Finished,
         Awaited, Arriving, NoFlag, vars, coorVars, sendVars, agentVars
<1> QED BY <1>1, <1>2 DEF IInv, NodeInv

\* Every step of the coordinator, its threads, a server or an agent keeps every
\* node in one of the six stages.
LEMMA NextStep == IInv /\ [Next]_vars => IInv'
<1> SUFFICES ASSUME IInv, [Next]_vars PROVE IInv'
  OBVIOUS
<1>1. CASE CoorNext
  BY <1>1, JoinSendersStep, TakeFlagStep, NextBatchStep DEF CoorNext
<1>2. ASSUME NEW n \in Nodes, SenderNext(n) PROVE IInv'
  BY <1>2, SendRequestStep, SenderSteps DEF SenderNext
<1>3. ASSUME NEW n \in Nodes, ExecuteCommand(n) PROVE IInv'
  BY <1>3, ExecuteCommandStep
<1>4. ASSUME NEW n \in Nodes, AgentNext(n) PROVE IInv'
  BY <1>4, ReadInstructionsStep, RecvTaskStep, StartRepairStep, StripeDoneStep,
     SendFinishFlagStep DEF AgentNext
<1>5. CASE UNCHANGED vars
  BY <1>5, StutterStep
<1> QED BY <1>1, <1>2, <1>3, <1>4, <1>5 DEF Next

\* A node with work in a batch goes from request to flag through six stages, one
\* batch at a time: the inductive invariant of the coordinator and the agents.
THEOREM Invariance == SafeSpec => []IInv
<1>1. Init => IInv
  BY InitInv
<1>2. IInv /\ [Next]_vars => IInv'
  BY NextStep
<1> QED BY <1>1, <1>2, PTL DEF SafeSpec

\* The variables have their types: a pop never leaves a list with less than
\* nothing, and no request names a batch that does not exist.
THEOREM TypeCorrect == Spec => []TypeOK
<1>1. IInv => TypeOK
  BY DEF IInv
<1> QED BY <1>1, Invariance, PTL DEF Spec

\* Worker::doProcess is never at another batch than Coordinator::repair.
THEOREM BatchByBatch == Spec => []OneBatchAtATime
<1>1. IInv => OneBatchAtATime
  <2> SUFFICES ASSUME IInv, NEW n \in Nodes, agent_pc[n] # "read"
               PROVE  agent_batch[n] = batch /\ coor_pc \in {"send", "wait"}
    BY DEF OneBatchAtATime
  <2>1. Awaited(n) /\ agent_batch[n] = batch
    BY DEF IInv, NodeInv, Stage, Unasked, Asked, Receiving, Repairing, Flagged, Finished
  <2>2. coor_pc # "done"
    BY <2>1, WhileAwaited
  <2> QED BY <2>1, <2>2 DEF IInv, TypeOK
<1> QED BY <1>1, Invariance, PTL DEF Spec

LEMMA DeliveredInv == IInv => AllDelivered
<1> SUFFICES ASSUME IInv, NEW n \in Nodes, send_pc[n] = "joined"
             PROVE  executed[n] = NumCommands(batch, n)
  BY DEF AllDelivered
<1>1. NumCommands(batch, n) \in Nat
  BY WhileSending
<1>2. /\ replyid[n] = NumCommands(batch, n) /\ count[n] <= NumCommands(batch, n)
      /\ replyid[n] <= executed[n] /\ executed[n] <= written[n] /\ written[n] <= count[n]
  BY DEF IInv, SenderInv
<1>3. executed[n] \in Nat /\ written[n] \in Nat /\ count[n] \in Nat
  BY DEF IInv, TypeOK
<1> QED BY <1>1, <1>2, <1>3

LEMMA CompleteInv == IInv => TasksComplete
<1> SUFFICES ASSUME IInv, NEW n \in Nodes, agent_pc[n] = "repair", NEW s \in Stripes
             PROVE  tasks[n][s] =
                      IF \E i \in 1 .. Len(StripesOf[batch]) : StripesOf[batch][i] = s
                      THEN [i \in 1 .. TaskNum[s][n] |-> i]
                      ELSE <<>>
  BY DEF TasksComplete
<1>1. Repairing(n)
  BY DEF IInv, NodeInv, Stage, Unasked, Asked, Receiving, Flagged, Finished
<1>2. batch \in 1 .. NumBatches
  BY <1>1, WhileAwaited DEF Repairing
<1> DEFINE num == SentNum(batch, n, NumCommands(batch, n), s)
<1>3. tasks[n][s] = [i \in 1 .. num |-> i]
  BY <1>1 DEF Repairing, AllTasks, Sent
<1>4. num = IF InList(batch, n, s) THEN TaskNum[s][n] ELSE 0
  BY <1>2, SentAll
<1>5. TaskNum[s][n] \in Nat
  BY TaskNumAssumption
<1>6. ListOK(StripeList(batch, n), batch, n, Len(StripesOf[batch]))
  BY <1>2, ListIsRight
<1> HIDE DEF num
<1>7. InList(batch, n, s) <=> /\ \E i \in 1 .. Len(StripesOf[batch]) : StripesOf[batch][i] = s
                              /\ TaskNum[s][n] > 0
  <2> DEFINE L == StripeList(batch, n)
  <2>1. \A k \in 1 .. Len(L) :
          TaskNum[L[k]][n] > 0 /\ \E j \in 1 .. Len(StripesOf[batch]) : L[k] = StripesOf[batch][j]
    BY <1>6 DEF ListOK
  <2>2. \A j \in 1 .. Len(StripesOf[batch]) :
          TaskNum[StripesOf[batch][j]][n] > 0 => \E k \in 1 .. Len(L) : L[k] = StripesOf[batch][j]
    BY <1>6 DEF ListOK
  <2>3. InList(batch, n, s) <=> \E k \in 1 .. Len(L) : L[k] = s
    BY DEF InList
  <2> HIDE DEF L
  <2> QED BY <2>1, <2>2, <2>3
<1>8. [i \in 1 .. 0 |-> i] = <<>>
  BY CountSeq
<1> QED BY <1>3, <1>4, <1>5, <1>7, <1>8

LEMMA CleanInv == IInv => CleanStart
<1> SUFFICES ASSUME IInv, \A n \in Nodes : send_pc[n] \in {"idle", "request"}, NEW n \in Nodes
             PROVE  /\ ag_request[n] = <<>>
                    /\ command[n] = NoTasks
                    /\ \A b \in 1 .. NumBatches : finish[b][n] = 0
  BY DEF CleanStart
<1>1. Unasked(n) \/ Finished(n)
  BY DEF IInv, NodeInv, Stage, Asked, Receiving, Repairing, Flagged, Awaited, Active
<1> QED BY <1>1 DEF Unasked, Finished, NoFlag

\* sendCommands leaves no command in a client's buffer, an agent repairs a stripe
\* with all of its commands, and genRepairTasks leaves nothing in redis for the next.
THEOREM NothingIsLost == Spec => []CommandsArrive
<1>1. IInv => CommandsArrive
  BY DeliveredInv, CompleteInv, CleanInv DEF CommandsArrive
<1> QED BY <1>1, Invariance, PTL DEF Spec

----------------------------------------------------------------------------
(* genRepairTasks is the barrier of BatchBarrier. *)

Reported ==
  {n \in Nodes : /\ coor_pc # "done"
                 /\ n \in Involved(batch)
                 /\ \/ finish[batch][n] > 0
                    \/ coor_pc = "wait" /\ n \notin waiting}

\* Steps in which no flag is sent and the main thread waits: all but four.
LEMMA OtherSteps ==
  ASSUME UNCHANGED <<coorVars, finish>>
  PROVE  UNCHANGED <<batch, Reported>>
BY DEF Reported, coorVars, Involved

LEMMA JoinSendersMaps ==
  ASSUME IInv, JoinSenders
  PROVE  UNCHANGED <<batch, Reported>>
<1>1. /\ coor_pc = "send" /\ coor_pc' = "wait" /\ waiting' = Involved(batch)
      /\ UNCHANGED <<batch, finish>>
  BY DEF JoinSenders
<1> QED BY <1>1 DEF Reported, Involved

LEMMA TakeFlagMaps ==
  ASSUME IInv, NEW n \in Nodes, TakeFlag(n)
  PROVE  UNCHANGED <<batch, Reported>>
<1>1. /\ coor_pc = "wait" /\ n \in waiting /\ finish[batch][n] > 0
      /\ finish' = [finish EXCEPT ![batch][n] = @ - 1]
      /\ waiting' = waiting \ {n}
      /\ UNCHANGED <<batch, coor_pc>>
  BY DEF TakeFlag
<1>2. batch \in 1 .. NumBatches
  BY <1>1 DEF IInv, CoorInv
<1>3. finish \in [1 .. NumBatches -> [Nodes -> Nat]]
  BY DEF IInv, TypeOK
<1>4. \A m \in Nodes : m # n => finish'[batch][m] = finish[batch][m]
  BY <1>1, <1>2, <1>3
<1>5. Involved(batch)' = Involved(batch)
  BY <1>1 DEF Involved
<1>6. \A m \in Nodes :
        (finish'[batch][m] > 0 \/ m \notin waiting') <=> (finish[batch][m] > 0 \/ m \notin waiting)
  BY <1>1, <1>4
<1> QED BY <1>1, <1>5, <1>6 DEF Reported

LEMMA NextBatchMaps ==
  ASSUME IInv, NextBatch
  PROVE  Barrier!Advance
<1>1. coor_pc = "wait" /\ waiting = {} /\ batch' = batch + 1 /\ UNCHANGED <<waiting, finish>>
  BY DEF NextBatch
<1>2. batch \in 1 .. NumBatches /\ NumBatches \in Nat
  BY <1>1, BatchesAssumption DEF IInv, CoorInv
<1>3. coor_pc' = "done" \/ (batch' \in 1 .. NumBatches /\ coor_pc' = "send")
  <2>1. batch < NumBatches => batch + 1 \in 1 .. NumBatches
    BY <1>2
  <2>2. coor_pc' = "done" \/ (batch < NumBatches /\ coor_pc' = "send")
    BY DEF NextBatch
  <2>3. batch' = batch + 1
    BY <1>1
  <2> QED BY <2>1, <2>2, <2>3
<1>4. Reported = Involved(batch)
  BY <1>1 DEF Reported, Involved
<1>5. ASSUME NEW n \in Nodes PROVE n \notin Reported'
  <2>1. NoFlag(n)
    BY <1>1 DEF IInv, NodeInv, Stage, Unasked, Asked, Receiving, Repairing, Flagged, Finished,
                Awaited
  <2>2. batch' \in 1 .. NumBatches => finish'[batch'][n] = 0
    BY <1>1, <2>1 DEF NoFlag
  <2> QED BY <1>1, <1>3, <2>2 DEF Reported
<1>6. Reported' = {}
  BY <1>5 DEF Reported
<1> QED BY <1>1, <1>2, <1>4, <1>6 DEF Barrier!Advance, Reported

\* The agent of a node that repairs is awaited, and reports once.
LEMMA SendFinishFlagMaps ==
  ASSUME IInv, NEW n \in Nodes, SendFinishFlag(n)
  PROVE  batch \in 1 .. NumBatches /\ n \in Involved(batch) /\ Barrier!Finish(n)
<1>1. Repairing(n)
  BY DEF SendFinishFlag, IInv, NodeInv, Stage, Unasked, Asked, Receiving, Flagged, Finished
<1>2. batch \in 1 .. NumBatches /\ n \in Involved(batch) /\ coor_pc # "done"
  BY <1>1, WhileAwaited DEF Repairing
<1>3. /\ finish' = [finish EXCEPT ![batch][n] = @ + 1]
      /\ UNCHANGED <<batch, coor_pc, waiting>>
  BY <1>1 DEF SendFinishFlag, Repairing, coorVars
<1>4. finish \in [1 .. NumBatches -> [Nodes -> Nat]] /\ finish[batch][n] = 0
  BY <1>1, <1>2 DEF IInv, TypeOK, Repairing, NoFlag
<1>5. finish'[batch][n] = 1 /\ \A m \in Nodes : m # n => finish'[batch][m] = finish[batch][m]
  BY <1>2, <1>3, <1>4
<1>6. Involved(batch)' = Involved(batch)
  BY <1>3 DEF Involved
<1>7. n \in Involved(batch) \ Reported
  BY <1>1, <1>2, <1>4 DEF Reported, Repairing, Awaited
<1>8. Reported' = Reported \cup {n}
  BY <1>2, <1>3, <1>5, <1>6 DEF Reported
<1> QED BY <1>2, <1>3, <1>7, <1>8 DEF Barrier!Finish, Reported

LEMMA StepMaps ==
  ASSUME IInv, [Next]_vars
  PROVE  [Barrier!Next]_(Barrier!vars)
<1>1. CASE JoinSenders
  BY <1>1, JoinSendersMaps DEF Barrier!vars, Reported
<1>2. ASSUME NEW n \in Nodes, TakeFlag(n) PROVE UNCHANGED Barrier!vars
  BY <1>2, TakeFlagMaps DEF Barrier!vars, Reported
<1>3. CASE NextBatch
  BY <1>3, NextBatchMaps DEF Barrier!Next
<1>4. ASSUME NEW n \in Nodes, SendFinishFlag(n) PROVE Barrier!Next
  <2>1. batch \in 1 .. NumBatches /\ n \in Involved(batch) /\ Barrier!Finish(n)
    BY <1>4, SendFinishFlagMaps
  <2>2. n \in UNION {[b \in 1 .. NumBatches |-> Involved(b)][c] : c \in 1 .. NumBatches}
    BY <2>1
  <2> QED BY <2>1, <2>2 DEF Barrier!Next
<1>5. ASSUME NEW n \in Nodes, SenderNext(n) \/ ExecuteCommand(n)
      PROVE  UNCHANGED Barrier!vars
  <2>1. UNCHANGED <<coorVars, finish>>
    BY <1>5 DEF SenderNext, SendRequest, AppendCommand, StartDrain, WriteBuffer, GetReply,
                SenderReturns, ExecuteCommand
  <2> QED BY <2>1, OtherSteps DEF Barrier!vars, Reported
<1>6. ASSUME NEW n \in Nodes, AgentNext(n), ~ SendFinishFlag(n)
      PROVE  UNCHANGED Barrier!vars
  <2>1. UNCHANGED <<coorVars, finish>>
    BY <1>6 DEF AgentNext, ReadInstructions, RecvTask, StartRepair, StripeDone
  <2> QED BY <2>1, OtherSteps DEF Barrier!vars, Reported
<1>7. CASE UNCHANGED vars
  <2>1. UNCHANGED <<coorVars, finish>>
    BY <1>7 DEF vars
  <2> QED BY <2>1, OtherSteps DEF Barrier!vars, Reported
<1> QED BY <1>1, <1>2, <1>3, <1>4, <1>5, <1>6, <1>7 DEF Next, CoorNext

\* Coordinator::repair goes on to the next batch only when every node with work in
\* the current one has sent its flag: the safety part of the barrier.
THEOREM DispatchIsBarrier == Spec => Barrier!SafeSpec
<1>1. Init => Barrier!Init
  <2> SUFFICES ASSUME Init PROVE Reported = {}
    BY DEF Init, Barrier!Init, Reported
  <2>1. 1 \in 1 .. NumBatches \/ coor_pc = "done"
    BY BatchesAssumption DEF Init
  <2>2. coor_pc # "wait" /\ batch = 1
    BY DEF Init
  <2>3. 1 \in 1 .. NumBatches => \A n \in Nodes : finish[1][n] = 0
    BY DEF Init, Zero
  <2> QED BY <2>1, <2>2, <2>3 DEF Reported
<1>2. IInv /\ [Next]_vars => [Barrier!Next]_(Barrier!vars)
  BY StepMaps
<1> QED BY <1>1, <1>2, Invariance, PTL DEF Spec, SafeSpec, Barrier!SafeSpec
=============================================================================
