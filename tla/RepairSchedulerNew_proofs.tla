---------------------- MODULE RepairSchedulerNew_proofs ----------------------
(***************************************************************************)
(* Proofs about RepairSchedulerNew, for every cluster, placement,          *)
(* tolerance, predictor and trace: no failure is forgotten or repaired     *)
(* twice, what waits is within the tolerance, and a strategy that knows    *)
(* the next event loses a stripe only where that event destroys it.        *)
(***************************************************************************)
EXTENDS RepairSchedulerNew, FiniteSetTheorems, WellFoundedInduction, TLAPS

----------------------------------------------------------------------------
(* Induction over sets of naturals *)

\* A set of naturals that has 0, and k + 1 whenever it has k, has them all.
LEMMA SetInduction ==
  ASSUME NEW T \in SUBSET Nat, 0 \in T, \A k \in T : k + 1 \in T
  PROVE  T = Nat
<1> SUFFICES ASSUME T # Nat PROVE FALSE
  OBVIOUS
<1> DEFINE D == Nat \ T
           R == OpToRel(<, Nat)
<1>1. IsWellFoundedOn(R, Nat)
  BY NatLessThanWellFounded
<1>2. D \subseteq Nat /\ D # {}
  OBVIOUS
<1>3. PICK x \in D : \A y \in D : ~ (<<y, x>> \in R)
  <2> HIDE DEF D, R
  <2> QED BY <1>1, <1>2, WFMin
<1>4. <<x - 1, x>> \in R
  BY DEF OpToRel
<1>5. x - 1 \in T
  <2>1. x \in Nat /\ x # 0
    OBVIOUS
  <2>2. x - 1 \in Nat
    BY <2>1
  <2> HIDE DEF R
  <2>3. x - 1 \notin D
    BY <1>3, <1>4
  <2> QED BY <2>2, <2>3
<1> QED BY <1>5

\* A set of naturals that is not empty has a least element.
LEMMA LeastElement ==
  ASSUME NEW D, D \subseteq Nat, D # {}
  PROVE  \E x \in D : \A y \in D : x <= y
<1> DEFINE R == OpToRel(<, Nat)
<1>1. IsWellFoundedOn(R, Nat)
  BY NatLessThanWellFounded
<1>2. PICK x \in D : \A y \in D : ~ (<<y, x>> \in R)
  <2> HIDE DEF R
  <2> QED BY <1>1, WFMin
<1>3. ASSUME NEW y \in D PROVE x <= y
  <2>1. x \in Nat /\ y \in Nat
    OBVIOUS
  <2>2. y < x => <<y, x>> \in R
    BY <2>1 DEF OpToRel
  <2> HIDE DEF R
  <2> QED BY <1>2, <2>1, <2>2
<1> QED BY <1>3

----------------------------------------------------------------------------
USE PlacementAssumption

Distinct(q) == \A i, j \in DOMAIN q : q[i] = q[j] => i = j

----------------------------------------------------------------------------
(* The loops that build _current_failed. *)

\* Both loops keep or append: next[i] is the element that round i appends.
IsBuilt(list, first, next, m) ==
  list = [i \in 0 .. m |->
            IF i = 0 THEN first
            ELSE IF next[i] \in ToSet(list[i - 1]) THEN list[i - 1]
            ELSE Append(list[i - 1], next[i])]

IsLeft(list, all, nodes, m) ==
  list = [i \in 0 .. m |->
            IF i = 0 THEN <<>>
            ELSE IF all[i] \in nodes THEN list[i - 1]
            ELSE Append(list[i - 1], all[i])]

LEMMA BuiltExists ==
  ASSUME NEW first, NEW next, NEW m \in Nat
  PROVE  \E list : IsBuilt(list, first, next, m)
<1> DEFINE T == {i \in Nat : \E list : IsBuilt(list, first, next, i)}
<1>1. 0 \in T
  <2>1. IsBuilt([i \in 0 .. 0 |-> first], first, next, 0)
    BY DEF IsBuilt
  <2> QED BY <2>1
<1>2. ASSUME NEW i \in T PROVE i + 1 \in T
  <2>1. PICK list : IsBuilt(list, first, next, i)
    OBVIOUS
  <2> DEFINE last == IF next[i + 1] \in ToSet(list[i]) THEN list[i]
                     ELSE Append(list[i], next[i + 1])
             longer == [j \in 0 .. i + 1 |-> IF j = i + 1 THEN last ELSE list[j]]
  <2>2. IsBuilt(longer, first, next, i + 1)
    <3>1. longer[i + 1] = last /\ \A j \in 0 .. i : longer[j] = list[j]
      OBVIOUS
    <3>2. \A j \in 1 .. i + 1 : j - 1 \in 0 .. i /\ longer[j - 1] = list[j - 1]
      BY <3>1
    <3>3. \A j \in 0 .. i + 1 : j = 0 \/ (j \in 1 .. i /\ j \in 0 .. i) \/ j = i + 1
      OBVIOUS
    <3>4. \A j \in 0 .. i : list[j] =
            IF j = 0 THEN first
            ELSE IF next[j] \in ToSet(list[j - 1]) THEN list[j - 1]
            ELSE Append(list[j - 1], next[j])
      BY <2>1 DEF IsBuilt
    <3>5. (i + 1) - 1 = i /\ i + 1 # 0
      OBVIOUS
    <3>6. last = IF next[i + 1] \in ToSet(longer[i]) THEN longer[i]
                 ELSE Append(longer[i], next[i + 1])
      BY <3>1
    <3> HIDE DEF last
    <3>7. \A j \in 0 .. i + 1 : longer[j] =
            IF j = 0 THEN first
            ELSE IF next[j] \in ToSet(longer[j - 1]) THEN longer[j - 1]
            ELSE Append(longer[j - 1], next[j])
      <4> HIDE DEF longer
      <4> QED BY <3>1, <3>2, <3>3, <3>4, <3>5, <3>6
    <3> QED BY <3>7 DEF IsBuilt
  <2> QED BY <2>2
<1>3. T = Nat
  <2> HIDE DEF T
  <2>1. T \in SUBSET Nat
    BY DEF T
  <2> QED BY <1>1, <1>2, <2>1, SetInduction
<1> QED BY <1>3

LEMMA LeftExists ==
  ASSUME NEW all, NEW nodes, NEW m \in Nat
  PROVE  \E list : IsLeft(list, all, nodes, m)
<1> DEFINE T == {i \in Nat : \E list : IsLeft(list, all, nodes, i)}
<1>1. 0 \in T
  <2>1. IsLeft([i \in 0 .. 0 |-> <<>>], all, nodes, 0)
    BY DEF IsLeft
  <2> QED BY <2>1
<1>2. ASSUME NEW i \in T PROVE i + 1 \in T
  <2>1. PICK list : IsLeft(list, all, nodes, i)
    OBVIOUS
  <2> DEFINE last == IF all[i + 1] \in nodes THEN list[i]
                     ELSE Append(list[i], all[i + 1])
             longer == [j \in 0 .. i + 1 |-> IF j = i + 1 THEN last ELSE list[j]]
  <2>2. IsLeft(longer, all, nodes, i + 1)
    <3>1. longer[i + 1] = last /\ \A j \in 0 .. i : longer[j] = list[j]
      OBVIOUS
    <3>2. \A j \in 1 .. i + 1 : j - 1 \in 0 .. i /\ longer[j - 1] = list[j - 1]
      BY <3>1
    <3>3. \A j \in 0 .. i + 1 : j = 0 \/ (j \in 1 .. i /\ j \in 0 .. i) \/ j = i + 1
      OBVIOUS
    <3>4. \A j \in 0 .. i : list[j] =
            IF j = 0 THEN <<>>
            ELSE IF all[j] \in nodes THEN list[j - 1]
            ELSE Append(list[j - 1], all[j])
      BY <2>1 DEF IsLeft
    <3>5. (i + 1) - 1 = i /\ i + 1 # 0
      OBVIOUS
    <3>6. last = IF all[i + 1] \in nodes THEN longer[i]
                 ELSE Append(longer[i], all[i + 1])
      BY <3>1
    <3> HIDE DEF last
    <3>7. \A j \in 0 .. i + 1 : longer[j] =
            IF j = 0 THEN <<>>
            ELSE IF all[j] \in nodes THEN longer[j - 1]
            ELSE Append(longer[j - 1], all[j])
      <4> HIDE DEF longer
      <4> QED BY <3>1, <3>2, <3>3, <3>4, <3>5, <3>6
    <3> QED BY <3>7 DEF IsLeft
  <2> QED BY <2>2
<1>3. T = Nat
  <2> HIDE DEF T
  <2>1. T \in SUBSET Nat
    BY DEF T
  <2> QED BY <1>1, <1>2, <2>1, SetInduction
<1> QED BY <1>3

\* A set of elements grows by the element that is appended.
LEMMA ToSetAppend ==
  ASSUME NEW q \in Seq(Nodes), NEW e \in Nodes
  PROVE  /\ Append(q, e) \in Seq(Nodes)
         /\ ToSet(Append(q, e)) = ToSet(q) \cup {e}
         /\ Distinct(q) /\ e \notin ToSet(q) => Distinct(Append(q, e))
<1>1. /\ Append(q, e) \in Seq(Nodes) /\ Len(Append(q, e)) = Len(q) + 1 /\ Len(q) \in Nat
      /\ DOMAIN q = 1 .. Len(q) /\ DOMAIN Append(q, e) = 1 .. Len(q) + 1
      /\ Append(q, e)[Len(q) + 1] = e
      /\ \A i \in 1 .. Len(q) : Append(q, e)[i] = q[i]
  OBVIOUS
<1> DEFINE r == Append(q, e)
<1> HIDE DEF r
<1>2. \A i \in 1 .. Len(q) + 1 : i \in 1 .. Len(q) \/ i = Len(q) + 1
  BY <1>1
<1>3. /\ DOMAIN r = 1 .. Len(q) + 1 /\ r[Len(q) + 1] = e
      /\ \A i \in 1 .. Len(q) : r[i] = q[i] /\ i \in 1 .. Len(q) + 1
      /\ Len(q) + 1 \in 1 .. Len(q) + 1
  BY <1>1 DEF r
<1>4. ToSet(r) = ToSet(q) \cup {e}
  BY <1>1, <1>2, <1>3 DEF ToSet
<1>5. Distinct(q) /\ e \notin ToSet(q) => Distinct(r)
  BY <1>1, <1>2, <1>3 DEF ToSet, Distinct
<1> QED BY <1>1, <1>4, <1>5 DEF r

LEMMA ToSetNodes ==
  ASSUME NEW q \in Seq(Nodes)
  PROVE  /\ ToSet(q) \in SUBSET Nodes
         /\ q = <<>> <=> ToSet(q) = {}
         /\ DOMAIN q = 1 .. Len(q) /\ Len(q) \in Nat
         /\ \A n : n \in ToSet(q) <=> \E i \in 1 .. Len(q) : q[i] = n
<1>1. DOMAIN q = 1 .. Len(q) /\ Len(q) \in Nat /\ \A i \in 1 .. Len(q) : q[i] \in Nodes
  OBVIOUS
<1>2. q = <<>> <=> Len(q) = 0
  OBVIOUS
<1>3. Len(q) # 0 => 1 \in 1 .. Len(q)
  BY <1>1
<1>4. Len(q) = 0 => 1 .. Len(q) = {}
  BY <1>1
<1> QED BY <1>1, <1>2, <1>3, <1>4 DEF ToSet

\* addFailures of an event: its nodes are added, none twice.
LEMMA BuiltIsRight ==
  ASSUME NEW first \in Seq(Nodes), Distinct(first), NEW next \in Seq(Nodes),
         NEW list, IsBuilt(list, first, next, Len(next))
  PROVE  /\ list[Len(next)] \in Seq(Nodes)
         /\ Distinct(list[Len(next)])
         /\ ToSet(list[Len(next)]) = ToSet(first) \cup ToSet(next)
<1> DEFINE OK(i) == /\ list[i] \in Seq(Nodes)
                    /\ Distinct(list[i])
                    /\ ToSet(list[i]) = ToSet(first) \cup {next[j] : j \in 1 .. i}
           T == {i \in Nat : i <= Len(next) => OK(i)}
<1>1. Len(next) \in Nat
  OBVIOUS
<1>2. 0 \in T
  <2>1. list[0] = first
    BY <1>1 DEF IsBuilt
  <2>2. {next[j] : j \in 1 .. 0} = {}
    OBVIOUS
  <2> QED BY <2>1, <2>2
<1>3. ASSUME NEW i \in T PROVE i + 1 \in T
  <2> SUFFICES ASSUME i + 1 <= Len(next) PROVE OK(i + 1)
    OBVIOUS
  <2>1. i \in Nat /\ i <= Len(next) /\ i + 1 \in 1 .. Len(next)
    BY <1>1
  <2>2. OK(i)
    BY <2>1
  <2>3. list[i + 1] = IF next[i + 1] \in ToSet(list[i]) THEN list[i]
                      ELSE Append(list[i], next[i + 1])
    <3>1. i + 1 \in 0 .. Len(next) /\ (i + 1) - 1 = i /\ i + 1 # 0
      BY <2>1
    <3> HIDE DEF T, OK
    <3> QED BY <3>1 DEF IsBuilt
  <2>4. next[i + 1] \in Nodes
    BY <2>1
  <2>5. {next[j] : j \in 1 .. i + 1} = {next[j] : j \in 1 .. i} \cup {next[i + 1]}
    BY <2>1
  <2>6. CASE next[i + 1] \in ToSet(list[i])
    BY <2>2, <2>3, <2>5, <2>6
  <2>7. CASE next[i + 1] \notin ToSet(list[i])
    <3>1. list[i + 1] = Append(list[i], next[i + 1])
      BY <2>3, <2>7
    <3>2. list[i + 1] \in Seq(Nodes) /\ Distinct(list[i + 1])
      BY <2>2, <2>4, <2>7, <3>1, ToSetAppend
    <3>3. ToSet(list[i + 1]) = ToSet(list[i]) \cup {next[i + 1]}
      BY <2>2, <2>4, <2>7, <3>1, ToSetAppend
    <3> QED BY <2>2, <2>5, <3>2, <3>3
  <2> QED BY <2>6, <2>7
<1>4. T = Nat
  <2> HIDE DEF T
  <2>1. T \in SUBSET Nat
    BY DEF T
  <2> QED BY <1>2, <1>3, <2>1, SetInduction
<1>5. OK(Len(next))
  <2>1. Len(next) \in T
    BY <1>1, <1>4
  <2> QED BY <1>1, <2>1
<1>6. {next[j] : j \in 1 .. Len(next)} = ToSet(next)
  BY DEF ToSet
<1> QED BY <1>5, <1>6

\* executePartialRepair: the repaired nodes go, the others stay.
LEMMA LeftIsRight ==
  ASSUME NEW all \in Seq(Nodes), Distinct(all), NEW nodes,
         NEW list, IsLeft(list, all, nodes, Len(all))
  PROVE  /\ list[Len(all)] \in Seq(Nodes)
         /\ Distinct(list[Len(all)])
         /\ ToSet(list[Len(all)]) = ToSet(all) \ nodes
<1> DEFINE OK(i) == /\ list[i] \in Seq(Nodes)
                    /\ Distinct(list[i])
                    /\ ToSet(list[i]) = {all[j] : j \in 1 .. i} \ nodes
           T == {i \in Nat : i <= Len(all) => OK(i)}
<1>1. Len(all) \in Nat /\ DOMAIN all = 1 .. Len(all)
  OBVIOUS
<1>2. 0 \in T
  <2>1. list[0] = <<>>
    BY <1>1 DEF IsLeft
  <2>2. <<>> \in Seq(Nodes) /\ ToSet(<<>>) = {} /\ Distinct(<<>>)
    BY DEF ToSet, Distinct
  <2>3. {all[j] : j \in 1 .. 0} = {}
    OBVIOUS
  <2>4. OK(0)
    BY <2>1, <2>2, <2>3
  <2> QED BY <2>4
<1>3. ASSUME NEW i \in T PROVE i + 1 \in T
  <2> SUFFICES ASSUME i + 1 <= Len(all) PROVE OK(i + 1)
    OBVIOUS
  <2>1. i \in Nat /\ i <= Len(all) /\ i + 1 \in 1 .. Len(all)
    BY <1>1
  <2>2. OK(i)
    BY <2>1
  <2>3. list[i + 1] = IF all[i + 1] \in nodes THEN list[i] ELSE Append(list[i], all[i + 1])
    <3>1. i + 1 \in 0 .. Len(all) /\ (i + 1) - 1 = i /\ i + 1 # 0
      BY <2>1
    <3> HIDE DEF T, OK
    <3> QED BY <3>1 DEF IsLeft
  <2>4. all[i + 1] \in Nodes
    BY <2>1
  <2>5. {all[j] : j \in 1 .. i + 1} = {all[j] : j \in 1 .. i} \cup {all[i + 1]}
    BY <2>1
  <2>6. CASE all[i + 1] \in nodes
    BY <2>2, <2>3, <2>5, <2>6
  <2>7. CASE all[i + 1] \notin nodes
    <3>1. list[i + 1] = Append(list[i], all[i + 1])
      BY <2>3, <2>7
    <3>2. all[i + 1] \notin {all[j] : j \in 1 .. i}
      <4>1. \A j \in 1 .. i : j \in DOMAIN all /\ j # i + 1
        BY <1>1, <2>1
      <4>2. i + 1 \in DOMAIN all
        BY <1>1, <2>1
      <4> QED BY <4>1, <4>2 DEF Distinct
    <3> QED BY <2>2, <2>4, <2>5, <2>7, <3>1, <3>2, ToSetAppend
  <2> QED BY <2>6, <2>7
<1>4. T = Nat
  <2> HIDE DEF T
  <2>1. T \in SUBSET Nat
    BY DEF T
  <2> QED BY <1>2, <1>3, <2>1, SetInduction
<1>5. OK(Len(all))
  <2>1. Len(all) \in T
    BY <1>1, <1>4
  <2> QED BY <1>1, <2>1
<1>6. {all[j] : j \in 1 .. Len(all)} = ToSet(all)
  BY <1>1 DEF ToSet
<1> QED BY <1>5, <1>6

LEMMA WithoutIsRight ==
  ASSUME NEW all \in Seq(Nodes), Distinct(all), NEW nodes
  PROVE  /\ Without(all, nodes) \in Seq(Nodes)
         /\ Distinct(Without(all, nodes))
         /\ ToSet(Without(all, nodes)) = ToSet(all) \ nodes
<1>1. Len(all) \in Nat
  OBVIOUS
<1>2. \E list : IsLeft(list, all, nodes, Len(all))
  BY <1>1, LeftExists
<1>3. PICK list : IsLeft(list, all, nodes, Len(all)) /\ Without(all, nodes) = list[Len(all)]
  BY <1>2 DEF Without, IsLeft
<1> QED BY <1>3, LeftIsRight

LEMMA AddedIsRight ==
  ASSUME failed \in Seq(Nodes), Distinct(failed), trace[idx] \in Seq(Nodes)
  PROVE  /\ Added \in Seq(Nodes)
         /\ Distinct(Added)
         /\ ToSet(Added) = ToSet(failed) \cup ToSet(trace[idx])
<1> DEFINE event == trace[idx]
<1>1. Len(event) \in Nat
  OBVIOUS
<1>2. \E list : IsBuilt(list, failed, event, Len(event))
  BY <1>1, BuiltExists
<1>3. PICK list : IsBuilt(list, failed, event, Len(event)) /\ Added = list[Len(event)]
  BY <1>2 DEF Added, IsBuilt
<1> QED BY <1>3, BuiltIsRight

----------------------------------------------------------------------------
(* Counting the blocks that a stripe has lost. *)

LEMMA FailsType ==
  ASSUME NEW s \in Stripes, NEW A \in SUBSET Nodes
  PROVE  /\ FailsIn(s, A) \in Nat
         /\ IsFiniteSet(Placement[s] \cap A)
         /\ FailsIn(s, A) = 0 <=> Placement[s] \cap A = {}
<1>1. Placement[s] \cap A \in SUBSET Nodes
  OBVIOUS
<1>2. IsFiniteSet(Placement[s] \cap A)
  BY <1>1, NodesAssumption, FS_Subset
<1> QED BY <1>2, FS_CardinalityType, FS_EmptySet DEF FailsIn

\* More failed nodes, more lost blocks.
LEMMA FailsGrow ==
  ASSUME NEW s \in Stripes, NEW A \in SUBSET Nodes, NEW B \in SUBSET Nodes,
         Placement[s] \cap A \subseteq B
  PROVE  FailsIn(s, A) <= FailsIn(s, B)
<1>1. Placement[s] \cap A \in SUBSET (Placement[s] \cap B)
  OBVIOUS
<1> QED BY <1>1, FailsType, FS_Subset DEF FailsIn

LEMMA FailsAdd ==
  ASSUME NEW s \in Stripes, NEW A \in SUBSET Nodes, NEW B \in SUBSET Nodes
  PROVE  FailsIn(s, A \cup B) <= FailsIn(s, A) + FailsIn(s, B)
<1> DEFINE P == Placement[s] \cap A
           Q == Placement[s] \cap B
<1>1. Placement[s] \cap (A \cup B) = P \cup Q
  OBVIOUS
<1>2. IsFiniteSet(P) /\ IsFiniteSet(Q) /\ IsFiniteSet(P \cap Q)
  BY FailsType, FS_Intersection
<1>3. Cardinality(P \cup Q) = Cardinality(P) + Cardinality(Q) - Cardinality(P \cap Q)
  BY <1>2, FS_Union
<1>4. Cardinality(P) \in Nat /\ Cardinality(Q) \in Nat /\ Cardinality(P \cap Q) \in Nat
  BY <1>2, FS_CardinalityType
<1>5. Cardinality(P \cup Q) <= Cardinality(P) + Cardinality(Q)
  BY <1>3, <1>4
<1> QED BY <1>1, <1>5 DEF FailsIn

\* Repairing all its failed nodes leaves a stripe with nothing lost.
LEMMA FailsGone ==
  ASSUME NEW s \in Stripes, NEW A \in SUBSET Nodes, NEW R, Placement[s] \cap A \subseteq R
  PROVE  Placement[s] \cap (A \ R) = {} /\ FailsIn(s, A \ R) = 0
<1>1. Placement[s] \cap (A \ R) = {}
  OBVIOUS
<1> QED BY <1>1, FS_EmptySet DEF FailsIn

LEMMA NeedIsEnough ==
  ASSUME NEW s \in Stripes, NEW A \in SUBSET Nodes
  PROVE  Need(s, A) \in Nat /\ Need(s, A) >= FailsIn(s, A) - Tolerance + 1
<1> DEFINE a == FailsIn(s, A) - Tolerance + 1
<1>1. a \in Int
  <2>1. FailsIn(s, A) \in Nat /\ Tolerance \in Nat
    BY FailsType, ToleranceAssumption
  <2> QED BY <2>1
<1>2. \A x \in Int : Max({x, 1}) \in {x, 1} /\ Max({x, 1}) >= x /\ Max({x, 1}) >= 1
  <2> SUFFICES ASSUME NEW x \in Int
               PROVE  Max({x, 1}) \in {x, 1} /\ \A y \in {x, 1} : Max({x, 1}) >= y
    OBVIOUS
  <2>1. \E m \in {x, 1} : \A y \in {x, 1} : m >= y
    OBVIOUS
  <2> QED BY <2>1 DEF Max
<1> HIDE DEF a
<1>3. Max({a, 1}) \in Nat /\ Max({a, 1}) >= a
  BY <1>1, <1>2
<1> QED BY <1>3 DEF a, Need

\* greedySelectNodes repairs enough of a critical stripe: let j be the first node
\* of it that is not selected; those before it are as many as the stripe needs.
LEMMA GreedyIsEnough ==
  ASSUME NEW A \in SUBSET Nodes, NEW order \in SetToSeqs(A),
         NEW critical \in SUBSET Stripes, NEW s \in critical
  PROVE  FailsIn(s, A \ GreedySelect(order, A, critical)) <= Tolerance
<1> DEFINE D == 1 .. Cardinality(A)
           G == GreedySelect(order, A, critical)
           P == Placement[s] \cap A
           U == Placement[s] \cap (A \ G)
<1>1. IsFiniteSet(A) /\ Cardinality(A) \in Nat
  BY NodesAssumption, FS_Subset, FS_CardinalityType
<1>2. order \in [D -> A] /\ \A i, k \in D : i # k => order[i] # order[k]
  BY DEF SetToSeqs
<1>3. order \in Surjection(D, A)
  <2>1. order \in Injection(D, A)
    BY <1>2 DEF Injection, IsInjective
  <2>2. Cardinality(D) = Cardinality(A)
    BY <1>1, FS_Interval
  <2> QED BY <1>1, <2>1, <2>2, FS_Injection
<1>4. IsFiniteSet(P) /\ IsFiniteSet(U) /\ U \in SUBSET P
  BY FailsType
<1>5. CASE U = {}
  BY <1>5, FS_EmptySet, ToleranceAssumption DEF FailsIn
<1>6. CASE U # {}
  <2> DEFINE J == {i \in D : order[i] \in U}
  <2>1. J # {} /\ J \subseteq Nat
    BY <1>1, <1>3, <1>6 DEF Surjection
  <2>2. PICK j \in J : \A i \in J : j <= i
    <3> HIDE DEF J
    <3> QED BY <2>1, LeastElement
  <2> DEFINE K == {k \in 1 .. j - 1 : order[k] \in Placement[s]}
  <2>3. j \in D /\ order[j] \in Placement[s] /\ order[j] \notin G /\ DOMAIN order = D
    BY <1>2, <2>2
  <2>4. ~ (Cardinality(K) < Need(s, A))
    BY <2>3 DEF GreedySelect
  <2>5. \A k \in K : k \in D /\ k < j
    BY <2>3, <1>1
  <2>6. \A k \in K : order[k] \in P \ U
    <3> SUFFICES ASSUME NEW k \in K PROVE order[k] \in P /\ k \notin J
      BY <2>5
    <3>1. k \in D /\ k < j /\ j \in Nat /\ k \in Nat
      BY <2>1, <2>2, <2>5
    <3>2. k \notin J
      BY <2>2, <3>1
    <3> QED BY <1>2, <3>1, <3>2
  <2> DEFINE h == [k \in K |-> order[k]]
  <2>7. h \in Injection(K, P \ U)
    <3>1. h \in [K -> P \ U]
      BY <2>6
    <3>2. \A i, k \in K : h[i] = h[k] => i = k
      BY <1>2, <2>5
    <3> QED BY <3>1, <3>2 DEF Injection, IsInjective
  <2> HIDE DEF h, K, J
  <2>8. IsFiniteSet(P \ U) /\ Cardinality(P \ U) = Cardinality(P) - Cardinality(P \cap U)
    BY <1>4, FS_Difference
  <2>9. IsFiniteSet(K) /\ Cardinality(K) <= Cardinality(P \ U)
    BY <2>7, <2>8, FS_Injection
  <2>10. P \cap U = U
    BY <1>4
  <2>11. Cardinality(K) \in Nat /\ Cardinality(P) \in Nat /\ Cardinality(U) \in Nat
    BY <1>4, <2>9, FS_CardinalityType
  <2>12. Need(s, A) \in Nat /\ Need(s, A) >= Cardinality(P) - Tolerance + 1
    BY NeedIsEnough DEF FailsIn
  <2> HIDE DEF P, U
  <2>13. Cardinality(U) <= Tolerance
    <3>1. Cardinality(P \ U) = Cardinality(P) - Cardinality(U)
      BY <2>8, <2>10
    <3>2. Tolerance \in Nat
      BY ToleranceAssumption
    <3> QED BY <2>4, <2>9, <2>11, <2>12, <3>1, <3>2
  <2> QED BY <2>13 DEF FailsIn, U
<1> QED BY <1>5, <1>6


----------------------------------------------------------------------------
(* What the strategies do with the failed nodes. *)

\* The nodes of R are repaired, in a round if there are any, and the others wait;
\* only a partial round leaves any.
Repairs(all, R) ==
  /\ R \subseteq ToSet(all)
  /\ failed' \in Seq(Nodes)
  /\ Distinct(failed')
  /\ ToSet(failed') = ToSet(all) \ R
  /\ \/ R = {} /\ rounds' = rounds
     \/ R # {} /\ \E p \in BOOLEAN : /\ rounds' = Append(rounds, Round(R, p))
                                     /\ (p \/ R = ToSet(all))
  /\ skips' \in {skips, skips \cup {idx}}

LEMMA WaitRepairs ==
  ASSUME NEW all \in Seq(Nodes), Distinct(all), Wait(all), skips' \in {skips, skips \cup {idx}}
  PROVE  Repairs(all, {})
BY DEF Wait, Repairs

LEMMA FullRepairs ==
  ASSUME NEW all \in Seq(Nodes), all # <<>>, ExecuteFull(ToSet(all)), UNCHANGED skips
  PROVE  Repairs(all, ToSet(all))
<1>1. ToSet(all) # {} /\ ToSet(<<>>) = {} /\ Distinct(<<>>) /\ <<>> \in Seq(Nodes)
  BY ToSetNodes DEF ToSet, Distinct
<1> QED BY <1>1 DEF ExecuteFull, Repairs

LEMMA PartialRepairs ==
  ASSUME NEW all \in Seq(Nodes), Distinct(all), NEW R, R \subseteq ToSet(all),
         ExecutePartial(all, R), UNCHANGED skips
  PROVE  Repairs(all, R)
BY WithoutIsRight DEF ExecutePartial, Repairs

LEMMA ImmediateRepairs ==
  ASSUME NEW all \in Seq(Nodes), Distinct(all), Immediate(all)
  PROVE  Repairs(all, ToSet(all))
<1>1. CASE all = <<>>
  <2>1. ToSet(all) = {}
    BY <1>1, ToSetNodes
  <2> QED BY <1>1, <2>1, WaitRepairs DEF Immediate, Quiet
<1>2. CASE all # <<>>
  BY <1>2, FullRepairs DEF Immediate
<1> QED BY <1>1, <1>2

LEMMA LazyRepairs ==
  ASSUME NEW all \in Seq(Nodes), Distinct(all), Lazy(all)
  PROVE  Repairs(all, LazyNodes(ToSet(all)))
<1>1. LazyNodes(ToSet(all)) \subseteq ToSet(all)
  BY DEF LazyNodes, NodesOf
<1> QED BY <1>1, PartialRepairs DEF Lazy

LEMMA StripeDrivenRepairs ==
  ASSUME NEW all \in Seq(Nodes), Distinct(all), NEW coming, StripeDriven(all, coming)
  PROVE  Repairs(all, NodesOf(Dangerous(ToSet(all), coming), ToSet(all)))
<1>1. NodesOf(Dangerous(ToSet(all), coming), ToSet(all)) \subseteq ToSet(all)
  BY DEF NodesOf
<1> QED BY <1>1, PartialRepairs DEF StripeDriven

LEMMA RiskAwareRepairs ==
  ASSUME NEW all \in Seq(Nodes), Distinct(all), RiskAware(all)
  PROVE  \E R : Repairs(all, R)
<1> DEFINE m == Max({1, Len(all) \div 2})
           half == ToSet(SubSeq(all, 1, m))
<1>1. CASE all = <<>>
  BY <1>1, WaitRepairs DEF RiskAware, Quiet
<1>2. CASE all # <<>>
  <2>1. \/ ExecuteFull(ToSet(all)) /\ UNCHANGED skips
        \/ ExecutePartial(all, half) /\ UNCHANGED skips
        \/ Skip(all)
    BY <1>2 DEF RiskAware
  <2>2. half \subseteq ToSet(all)
    <3>1. Len(all) \in Nat /\ Len(all) >= 1
      BY <1>2
    <3>2. Len(all) \div 2 \in Nat /\ Len(all) \div 2 <= Len(all)
      BY <3>1
    <3>3. \A x \in Nat : Max({1, x}) \in {1, x}
      <4> SUFFICES ASSUME NEW x \in Nat PROVE \E y \in {1, x} : \A z \in {1, x} : y >= z
        BY DEF Max
      <4> QED OBVIOUS
    <3>4. m \in 1 .. Len(all) \/ m = 0
      BY <3>1, <3>2, <3>3
    <3> HIDE DEF m
    <3>5. \A i \in 1 .. m : i \in 1 .. Len(all) /\ SubSeq(all, 1, m)[i] = all[i]
      BY <3>1, <3>4
    <3>6. DOMAIN SubSeq(all, 1, m) = 1 .. m /\ DOMAIN all = 1 .. Len(all)
      BY <3>1, <3>4
    <3> QED BY <3>5, <3>6 DEF ToSet
  <2> HIDE DEF half
  <2>3. CASE ExecuteFull(ToSet(all)) /\ UNCHANGED skips
    BY <1>2, <2>3, FullRepairs
  <2>4. CASE ExecutePartial(all, half) /\ UNCHANGED skips
    BY <2>2, <2>4, PartialRepairs
  <2>5. CASE Skip(all)
    BY <2>5, WaitRepairs DEF Skip
  <2> QED BY <2>1, <2>3, <2>4, <2>5
<1> QED BY <1>1, <1>2

\* A selection consists of failed nodes.
LEMMA SelectionsAreParts ==
  ASSUME NEW nodes, NEW critical, NEW high, NEW select \in Selections(nodes, critical, high)
  PROVE  /\ select \subseteq nodes
         /\ \E order \in SetToSeqs(nodes) : select = GreedySelect(order, nodes, critical)
<1>1. PICK order \in SetToSeqs(nodes) : select = GreedySelect(order, nodes, critical)
  BY DEF Selections, Priorities
<1>2. \A i \in DOMAIN order : order[i] \in nodes
  BY DEF SetToSeqs
<1> QED BY <1>1, <1>2 DEF GreedySelect

\* With lost stripes among the critical ones, no stripe stays beyond repair.
LEMMA DifferentiatedRepairs ==
  ASSUME NEW all \in Seq(Nodes), Distinct(all), Differentiated(all)
  PROVE  \E R : /\ Repairs(all, R)
                /\ \A s \in Stripes : FailsIn(s, ToSet(all) \ R) <= Tolerance
<1> DEFINE nodes == ToSet(all)
           high == {s \in Stripes : HighRisk(s, nodes)}
           critical == Critical(nodes, Windows(1), high)
<1>1. nodes \in SUBSET Nodes
  BY ToSetNodes
<1>2. Lost(nodes) \subseteq critical /\ critical \in SUBSET Stripes
  BY DEF Critical, Lost
<1>3. ASSUME NEW s \in Stripes, s \notin critical, NEW R
      PROVE  FailsIn(s, nodes \ R) <= Tolerance
  <2>1. s \notin Lost(nodes)
    BY <1>2, <1>3
  <2>2. ~ (FailsIn(s, nodes) > Tolerance)
    BY <2>1 DEF Lost
  <2>3. FailsIn(s, nodes \ R) <= FailsIn(s, nodes)
    BY <1>1, FailsGrow
  <2>4. FailsIn(s, nodes \ R) \in Nat /\ FailsIn(s, nodes) \in Nat /\ Tolerance \in Nat
    BY <1>1, FailsType, ToleranceAssumption
  <2> QED BY <2>2, <2>3, <2>4
<1>4. CASE all = <<>>
  <2>1. Repairs(all, {})
    BY <1>4, WaitRepairs DEF Differentiated, Quiet
  <2>2. \A s \in Stripes : FailsIn(s, nodes \ {}) <= Tolerance
    <3>1. nodes = {}
      BY <1>4, ToSetNodes
    <3> HIDE DEF nodes
    <3>2. \A s \in Stripes : FailsIn(s, nodes \ {}) = 0
      BY <1>1, <3>1, FailsGone
    <3> QED BY <3>2, ToleranceAssumption
  <2> QED BY <2>1, <2>2
<1>5. CASE all # <<>> /\ critical = {}
  <2>1. Repairs(all, {})
    BY <1>5, WaitRepairs DEF Differentiated, Skip
  <2> QED BY <1>3, <1>5, <2>1
<1>6. CASE all # <<>> /\ critical # {}
  <2>1. PICK select \in Selections(nodes, critical, high \ critical) :
          /\ IF select = nodes THEN ExecuteFull(nodes) ELSE ExecutePartial(all, select)
          /\ UNCHANGED skips
    BY <1>6 DEF Differentiated
  <2> HIDE DEF critical, high
  <2>2. select \subseteq nodes
    BY SelectionsAreParts
  <2>3. PICK order \in SetToSeqs(nodes) : select = GreedySelect(order, nodes, critical)
    BY SelectionsAreParts
  <2>4. Repairs(all, select)
    BY <1>6, <2>1, <2>2, FullRepairs, PartialRepairs
  <2>5. \A s \in critical : FailsIn(s, nodes \ select) <= Tolerance
    BY <1>1, <1>2, <2>3, GreedyIsEnough
  <2> QED BY <1>3, <2>4, <2>5
<1> QED BY <1>4, <1>5, <1>6

LEMMA CombinedRepairs ==
  ASSUME NEW all \in Seq(Nodes), Distinct(all), Combined(all)
  PROVE  \E R : Repairs(all, R)
<1>1. CASE all = <<>>
  BY <1>1, WaitRepairs DEF Combined, Quiet
<1>2. CASE all # <<>>
  <2>1. PICK select \in CombinedChoices(ToSet(all)) :
          IF select = {} THEN Skip(all)
          ELSE /\ IF select = ToSet(all) THEN ExecuteFull(ToSet(all))
                  ELSE ExecutePartial(all, select)
               /\ UNCHANGED skips
    BY <1>2 DEF Combined
  <2>2. select \subseteq ToSet(all)
    <3> DEFINE nodes == ToSet(all)
               must == Critical(nodes, Windows(Lookahead(Cardinality(nodes))),
                                {s \in Stripes : FailsIn(s, nodes) > 0})
               high == {s \in {t \in Stripes : FailsIn(t, nodes) > 0} : HighRisk(s, nodes)}
    <3>1. \/ select = {}
          \/ select = nodes
          \/ select \in Selections(nodes, must, high)
      BY DEF CombinedChoices
    <3> QED BY <3>1, SelectionsAreParts
  <2>3. CASE select = {}
    BY <2>1, <2>3, WaitRepairs DEF Skip
  <2>4. CASE select # {}
    BY <1>2, <2>1, <2>2, <2>4, FullRepairs, PartialRepairs
  <2> QED BY <2>3, <2>4
<1> QED BY <1>1, <1>2

----------------------------------------------------------------------------
(* The invariant. *)

\* The strategies that know the next event.
Knows == strategy \in {"immediate", "traceDriven"} \/ (strategy = "ml" /\ ~ predictor.misses)

\* A stripe that waits, with its blocks in the next event, is within the tolerance.
Prepared ==
  Knows /\ HasCurrentEvent =>
    \A s \in Stripes :
      \/ Placement[s] \cap ToSet(failed) = {}
      \/ FailsIn(s, ToSet(failed) \cup ToSet(trace[idx])) <= Tolerance

\* A node that waits has failed since the last round it was in.
FailedAgain ==
  \A r \in DOMAIN rounds : \A n \in rounds[r].nodes \cap ToSet(failed) :
    \E i \in rounds[r].after + 1 .. idx - 1 : n \in ToSet(trace[i])

RoundsInOrder ==
  /\ \A r \in DOMAIN rounds : rounds[r].after \in 1 .. (IF finished THEN idx ELSE idx - 1)
  /\ finished => idx = Len(trace) + 1

IInv ==
  /\ RoundsAreSound
  /\ LossIsUnavoidable
  /\ EveryFailureIsRepaired
  /\ Prepared
  /\ FailedAgain
  /\ RoundsInOrder

LEMMA InitInv == Init => IInv
<1> SUFFICES ASSUME Init PROVE IInv
  OBVIOUS
<1>1. trace \in Seq(Seq(Nodes)) /\ trace \in Traces /\ Len(trace) \in Nat
  BY TracesAssumption DEF Init
<1>2. /\ idx = 1 /\ failed = <<>> /\ rounds = <<>> /\ losses = <<>> /\ skips = {}
      /\ finished = FALSE /\ strategy \in Strategies
  BY DEF Init
<1>3. predictor \in [misses : BOOLEAN, alarms : BOOLEAN]
  <2>1. [misses |-> FALSE, alarms |-> FALSE] \in [misses : BOOLEAN, alarms : BOOLEAN]
    OBVIOUS
  <2>2. predictor \in Predictors \/ predictor = [misses |-> FALSE, alarms |-> FALSE]
    BY DEF Init
  <2> QED BY <2>1, <2>2, PredictorsAssumption
<1>4. ToSet(<<>>) = {}
  BY DEF ToSet
<1>5. RoundsAreSound
  <2>1. TypeOK
    <3>1. DOMAIN failed = {} /\ Len(losses) = 0 /\ failed \in Seq(Nodes)
      BY <1>2
    <3>2. losses \in Seq(SUBSET Stripes)
      BY <1>2
    <3>3. rounds \in Seq([after : Nat, nodes : SUBSET Nodes, partial : BOOLEAN,
                          stripes : SUBSET Stripes])
      BY <1>2
    <3>4. idx \in 1 .. Len(trace) + 1 /\ idx - 1 = 0 /\ skips \in SUBSET (1 .. idx - 1)
      BY <1>1, <1>2
    <3> QED BY <1>1, <1>2, <1>3, <3>1, <3>2, <3>3, <3>4 DEF TypeOK
  <2> QED BY <1>2, <2>1 DEF RoundsAreSound, NoEmptyRound, LostIsChargedInPart, WaitingIsTolerated
<1>6. LossIsUnavoidable
  BY <1>2 DEF LossIsUnavoidable
<1>7. EveryFailureIsRepaired
  BY <1>2 DEF EveryFailureIsRepaired
<1>8. Prepared
  BY <1>2, <1>4 DEF Prepared
<1>9. FailedAgain /\ RoundsInOrder
  BY <1>2 DEF FailedAgain, RoundsInOrder
<1> QED BY <1>5, <1>6, <1>7, <1>8, <1>9 DEF IInv

\* What holds when the loop takes an event.
LEMMA EventFacts ==
  ASSUME IInv, HasCurrentEvent
  PROVE  /\ idx \in Nat /\ idx >= 1 /\ idx <= Len(trace) /\ Len(trace) \in Nat
         /\ trace \in Seq(Seq(Nodes))
         /\ trace[idx] \in Seq(Nodes)
         /\ Added \in Seq(Nodes) /\ Distinct(Added)
         /\ ToSet(Added) = ToSet(failed) \cup ToSet(trace[idx])
         /\ ToSet(Added) \in SUBSET Nodes
         /\ ToSet(failed) \in SUBSET Nodes
         /\ ToSet(trace[idx]) \in SUBSET Nodes
         /\ ~ finished
<1>1. TypeOK
  BY DEF IInv, RoundsAreSound
<1>2. trace \in Seq(Seq(Nodes))
  BY <1>1, TracesAssumption DEF TypeOK
<1>3. idx \in Nat /\ idx >= 1 /\ idx <= Len(trace) /\ Len(trace) \in Nat
  BY <1>1, <1>2 DEF HasCurrentEvent, TypeOK
<1>4. trace[idx] \in Seq(Nodes)
  BY <1>2, <1>3
<1>5. failed \in Seq(Nodes) /\ Distinct(failed)
  BY <1>1 DEF TypeOK, Distinct
<1>6. Added \in Seq(Nodes) /\ Distinct(Added) /\ ToSet(Added) = ToSet(failed) \cup ToSet(trace[idx])
  BY <1>4, <1>5, AddedIsRight
<1>7. ~ finished
  BY <1>3 DEF IInv, RoundsInOrder
<1> QED BY <1>2, <1>3, <1>4, <1>5, <1>6, <1>7, ToSetNodes

\* What every strategy, and each of them, repairs after an event.
Decided(R) ==
  /\ Repairs(Added, R)
  /\ strategy = "immediate" => R = ToSet(Added)
  /\ strategy = "lazy" => R = LazyNodes(ToSet(Added))
  /\ strategy = "traceDriven" => R = NodesOf(Dangerous(ToSet(Added), NextFails), ToSet(Added))
  /\ strategy = "ml" => \E coming \in Predictions(ToSet(Added)) :
                          R = NodesOf(Dangerous(ToSet(Added), coming), ToSet(Added))
  /\ strategy = "differentiated" => \A s \in Stripes : FailsIn(s, ToSet(Added) \ R) <= Tolerance

LEMMA DayDecides ==
  ASSUME IInv, Day
  PROVE  \E R : Decided(R)
<1>1. Added \in Seq(Nodes) /\ Distinct(Added)
  BY EventFacts DEF Day
<1>2. CASE strategy = "immediate" /\ Immediate(Added)
  BY <1>1, <1>2, ImmediateRepairs DEF Decided
<1>3. CASE strategy = "lazy" /\ Lazy(Added)
  BY <1>1, <1>3, LazyRepairs DEF Decided
<1>4. CASE strategy = "traceDriven" /\ StripeDriven(Added, NextFails)
  BY <1>1, <1>4, StripeDrivenRepairs DEF Decided
<1>5. CASE strategy = "riskAware" /\ RiskAware(Added)
  BY <1>1, <1>5, RiskAwareRepairs DEF Decided
<1>6. CASE strategy = "differentiated" /\ Differentiated(Added)
  BY <1>1, <1>6, DifferentiatedRepairs DEF Decided
<1>7. CASE strategy = "combined" /\ Combined(Added)
  BY <1>1, <1>7, CombinedRepairs DEF Decided
<1>8. ASSUME strategy = "ml", NEW coming \in Predictions(ToSet(Added)), StripeDriven(Added, coming)
      PROVE  \E R : Decided(R)
  BY <1>1, <1>8, StripeDrivenRepairs DEF Decided
<1> QED BY <1>2, <1>3, <1>4, <1>5, <1>6, <1>7, <1>8 DEF Day

----------------------------------------------------------------------------
(* The steps. *)

RoundType == [after : Nat, nodes : SUBSET Nodes, partial : BOOLEAN, stripes : SUBSET Stripes]

\* The rounds after a repair: those before it, and one more if it has any nodes.
LEMMA RoundAdded ==
  ASSUME TypeOK, idx \in Nat, NEW all \in Seq(Nodes), NEW R, Repairs(all, R)
  PROVE  /\ rounds' \in Seq(RoundType)
         /\ \A r \in DOMAIN rounds : r \in DOMAIN rounds' /\ rounds'[r] = rounds[r]
                                     /\ r \in 1 .. Len(rounds) /\ r # Len(rounds) + 1
         /\ R # {} => Len(rounds) + 1 \in DOMAIN rounds'
         /\ \A r \in DOMAIN rounds' :
              \/ r \in DOMAIN rounds
              \/ /\ r = Len(rounds) + 1 /\ R # {}
                 /\ rounds'[r].after = idx
                 /\ rounds'[r].nodes = R
                 /\ rounds'[r].stripes = Charged(R)
                 /\ rounds'[r].partial \/ R = ToSet(all)
<1>1. rounds \in Seq(RoundType) /\ Len(rounds) \in Nat /\ DOMAIN rounds = 1 .. Len(rounds)
  BY DEF TypeOK, RoundType
<1>2. CASE R = {}
  <2>1. rounds' = rounds
    BY <1>2 DEF Repairs
  <2> QED BY <1>1, <1>2, <2>1
<1>3. CASE R # {}
  <2>1. PICK p \in BOOLEAN : /\ rounds' = Append(rounds, Round(R, p))
                            /\ (p \/ R = ToSet(all))
    BY <1>3 DEF Repairs
  <2>2. R \in SUBSET Nodes
    BY ToSetNodes DEF Repairs
  <2>3. Round(R, p) \in RoundType
    BY <2>2 DEF Round, RoundType, Charged
  <2>4. /\ Round(R, p).after = idx /\ Round(R, p).nodes = R
        /\ Round(R, p).stripes = Charged(R)
        /\ Round(R, p).partial \/ R = ToSet(all)
    BY <2>1 DEF Round
  <2> DEFINE e == Round(R, p)
  <2> HIDE DEF e
  <2>5. rounds' = Append(rounds, e) /\ e \in RoundType
    <3>1. rounds' = Append(rounds, e)
      BY <2>1 DEF e
    <3>2. e \in RoundType
      BY <2>3 DEF e
    <3> QED BY <3>1, <3>2
  <2>6. /\ rounds' \in Seq(RoundType) /\ DOMAIN rounds' = 1 .. Len(rounds) + 1
        /\ rounds'[Len(rounds) + 1] = e
        /\ \A r \in 1 .. Len(rounds) : rounds'[r] = rounds[r]
    BY <1>1, <2>5
  <2>7. \A r \in 1 .. Len(rounds) + 1 : r \in 1 .. Len(rounds) \/ r = Len(rounds) + 1
    BY <1>1
  <2>8. \A r \in 1 .. Len(rounds) : r \in 1 .. Len(rounds) + 1 /\ r # Len(rounds) + 1
    BY <1>1
  <2>9. Len(rounds) + 1 \in 1 .. Len(rounds) + 1
    BY <1>1
  <2> QED BY <1>1, <1>3, <2>4, <2>6, <2>7, <2>8, <2>9 DEF e
<1> QED BY <1>2, <1>3

\* What the trace-driven and the predictor's strategy leave, which repair the
\* stripes that are in danger from the events to come.
LEMMA DangerLeaves ==
  ASSUME NEW A \in SUBSET Nodes, NEW coming \in SUBSET Nodes, NEW s \in Stripes
  PROVE  LET R == NodesOf(Dangerous(A, coming), A) IN
         \/ Placement[s] \cap (A \ R) = {} /\ FailsIn(s, A \ R) = 0
         \/ FailsIn(s, A) + FailsIn(s, coming) <= Tolerance
<1> DEFINE R == NodesOf(Dangerous(A, coming), A)
<1>1. CASE s \in Dangerous(A, coming)
  <2>1. Placement[s] \cap A \subseteq R
    BY <1>1 DEF NodesOf
  <2> QED BY <2>1, FailsGone
<1>2. CASE s \notin Dangerous(A, coming)
  <2>1. ~ (FailsIn(s, A) > 0) \/ ~ (FailsIn(s, A) + FailsIn(s, coming) > Tolerance)
    BY <1>2 DEF Dangerous
  <2>2. FailsIn(s, A) \in Nat /\ FailsIn(s, coming) \in Nat /\ Tolerance \in Nat
    BY FailsType, ToleranceAssumption
  <2>3. CASE FailsIn(s, A) = 0
    <3>1. Placement[s] \cap A \subseteq R
      BY <2>3, FailsType
    <3> QED BY <3>1, FailsGone
  <2> QED BY <2>1, <2>2, <2>3
<1> QED BY <1>1, <1>2

\* The event after the current one.
LEMMA NextEvent ==
  ASSUME IInv, Day, HasCurrentEvent'
  PROVE  /\ idx' = idx + 1 /\ trace' = trace
         /\ ToSet(trace'[idx']) = NextFails
         /\ NextFails \in SUBSET Nodes
<1>1. /\ idx \in Nat /\ idx >= 1 /\ Len(trace) \in Nat /\ trace \in Seq(Seq(Nodes))
  BY EventFacts DEF Day
<1>2. idx' = idx + 1 /\ trace' = trace /\ idx + 1 <= Len(trace)
  BY DEF Day, HasCurrentEvent
<1>3. idx + 1 \in 1 .. Len(trace) /\ idx < Len(trace)
  BY <1>1, <1>2
<1>4. trace[idx + 1] \in Seq(Nodes)
  BY <1>1, <1>3
<1>5. NextFails = ToSet(trace[idx + 1])
  BY <1>3 DEF NextFails
<1> QED BY <1>2, <1>4, <1>5, ToSetNodes

LEMMA DayPrepared ==
  ASSUME IInv, Day, NEW R, Decided(R)
  PROVE  Prepared'
<1> DEFINE A == ToSet(Added)
<1> SUFFICES ASSUME Knows', HasCurrentEvent', NEW s \in Stripes
             PROVE  \/ Placement[s] \cap ToSet(failed') = {}
                    \/ FailsIn(s, ToSet(failed') \cup ToSet(trace'[idx'])) <= Tolerance
  BY DEF Prepared, FailsIn
<1>1. Knows
  BY DEF Day, Knows
<1>2. A \in SUBSET Nodes /\ ToSet(failed') = A \ R
  BY EventFacts DEF Day, Decided, Repairs
<1>3. ToSet(trace'[idx']) = NextFails /\ NextFails \in SUBSET Nodes
  BY NextEvent
<1>4. CASE strategy = "immediate"
  BY <1>2, <1>4 DEF Decided
<1>5. ASSUME NEW coming \in SUBSET Nodes, NextFails \ A \subseteq coming,
             R = NodesOf(Dangerous(A, coming), A)
      PROVE  \/ Placement[s] \cap (A \ R) = {}
             \/ FailsIn(s, (A \ R) \cup NextFails) <= Tolerance
  <2> HIDE DEF A
  <2>1. CASE Placement[s] \cap (A \ R) = {}
    BY <2>1
  <2>2. CASE FailsIn(s, A) + FailsIn(s, coming) <= Tolerance
    <3>1. FailsIn(s, (A \ R) \cup NextFails) <= FailsIn(s, A \cup coming)
      <4>1. /\ (A \ R) \cup NextFails \in SUBSET Nodes /\ A \cup coming \in SUBSET Nodes
            /\ Placement[s] \cap ((A \ R) \cup NextFails) \subseteq A \cup coming
        BY <1>2, <1>3, <1>5
      <4> QED BY <4>1, FailsGrow
    <3>2. FailsIn(s, A \cup coming) <= FailsIn(s, A) + FailsIn(s, coming)
      BY <1>2, FailsAdd
    <3>3. /\ FailsIn(s, (A \ R) \cup NextFails) \in Nat /\ FailsIn(s, A \cup coming) \in Nat
          /\ FailsIn(s, A) \in Nat /\ FailsIn(s, coming) \in Nat /\ Tolerance \in Nat
      <4>1. (A \ R) \cup NextFails \in SUBSET Nodes /\ A \cup coming \in SUBSET Nodes
        BY <1>2, <1>3
      <4> QED BY <1>2, <4>1, FailsType, ToleranceAssumption
    <3> QED BY <2>2, <3>1, <3>2, <3>3
  <2> QED BY <1>2, <1>5, <2>1, <2>2, DangerLeaves
<1>6. CASE strategy = "traceDriven"
  BY <1>2, <1>3, <1>5, <1>6 DEF Decided
<1>7. CASE strategy = "ml" /\ ~ predictor.misses
  <2>1. PICK coming \in Predictions(A) : R = NodesOf(Dangerous(A, coming), A)
    BY <1>7 DEF Decided
  <2>2. coming \in SUBSET Nodes /\ NextFails \ A \subseteq coming
    BY <1>7, <2>1 DEF Predictions
  <2> QED BY <1>2, <1>3, <1>5, <2>1, <2>2
<1> QED BY <1>1, <1>4, <1>6, <1>7 DEF Knows

LEMMA DayTolerated ==
  ASSUME IInv, Day, NEW R, Decided(R)
  PROVE  WaitingIsTolerated'
<1> DEFINE A == ToSet(Added)
           W == A \ R
<1>1. A \in SUBSET Nodes /\ ToSet(failed') = W /\ strategy' = strategy
  BY EventFacts DEF Day, Decided, Repairs
<1>2. W \in SUBSET Nodes
  BY <1>1
<1> SUFFICES ASSUME NEW s \in Stripes
             PROVE  /\ strategy = "immediate" => FailsIn(s, W) = 0
                    /\ strategy = "lazy" => FailsIn(s, W) < Tolerance
                    /\ strategy = "differentiated" => FailsIn(s, W) <= Tolerance
                    /\ strategy = "traceDriven" /\ HasCurrentEvent' =>
                         \/ FailsIn(s, W) = 0
                         \/ FailsIn(s, W) + FailsIn(s, ToSet(trace'[idx'])) <= Tolerance
  BY <1>1 DEF WaitingIsTolerated, FailsIn
<1>3. /\ FailsIn(s, W) \in Nat /\ FailsIn(s, A) \in Nat /\ Tolerance \in Nat /\ Tolerance > 0
      /\ FailsIn(s, W) <= FailsIn(s, A)
  <2>1. Placement[s] \cap W \subseteq A
    OBVIOUS
  <2> HIDE DEF W, A
  <2>2. FailsIn(s, W) <= FailsIn(s, A)
    BY <1>1, <1>2, <2>1, FailsGrow
  <2>3. FailsIn(s, W) \in Nat /\ FailsIn(s, A) \in Nat
    BY <1>1, <1>2, FailsType
  <2>4. Tolerance \in Nat /\ Tolerance > 0
    BY ToleranceAssumption
  <2> QED BY <2>2, <2>3, <2>4
<1>4. ASSUME strategy = "immediate" PROVE FailsIn(s, W) = 0
  BY <1>1, <1>4, FailsGone DEF Decided
<1>5. ASSUME strategy = "lazy" PROVE FailsIn(s, W) < Tolerance
  <2>1. CASE FailsIn(s, A) >= Tolerance
    <3>1. Placement[s] \cap A \subseteq R
      BY <1>5, <2>1 DEF Decided, LazyNodes, NodesOf
    <3>2. FailsIn(s, W) = 0
      BY <1>1, <3>1, FailsGone
    <3> QED BY <1>3, <3>2
  <2> HIDE DEF W, A
  <2> QED BY <1>3, <2>1
<1>6. ASSUME strategy = "traceDriven", HasCurrentEvent'
      PROVE  \/ FailsIn(s, W) = 0
             \/ FailsIn(s, W) + FailsIn(s, NextFails) <= Tolerance
  <2>1. NextFails \in SUBSET Nodes
    BY <1>6, NextEvent
  <2>2. \/ FailsIn(s, W) = 0
        \/ FailsIn(s, A) + FailsIn(s, NextFails) <= Tolerance
    BY <1>1, <1>6, <2>1, DangerLeaves DEF Decided
  <2>3. FailsIn(s, NextFails) \in Nat
    BY <2>1, FailsType
  <2> HIDE DEF W, A
  <2> QED BY <1>3, <2>2, <2>3
<1> QED BY <1>4, <1>5, <1>6, NextEvent DEF Decided

\* What was left to wait makes no stripe lose more than the event alone does.
LEMMA LossAtEvent ==
  ASSUME IInv, HasCurrentEvent, Knows
  PROVE  Lost(ToSet(Added)) = Lost(ToSet(trace[idx]))
<1> DEFINE E == ToSet(trace[idx])
           F == ToSet(failed)
<1>1. ToSet(Added) = F \cup E /\ F \in SUBSET Nodes /\ E \in SUBSET Nodes
  BY EventFacts
<1>2. \A s \in Stripes : Placement[s] \cap F = {} \/ FailsIn(s, F \cup E) <= Tolerance
  BY DEF IInv, Prepared
<1> HIDE DEF E, F
<1>3. ASSUME NEW s \in Stripes
      PROVE  FailsIn(s, F \cup E) > Tolerance <=> FailsIn(s, E) > Tolerance
  <2>1. CASE Placement[s] \cap F = {}
    <3>1. Placement[s] \cap (F \cup E) = Placement[s] \cap E
      BY <2>1
    <3> QED BY <3>1 DEF FailsIn
  <2>2. CASE FailsIn(s, F \cup E) <= Tolerance
    <3>1. F \cup E \in SUBSET Nodes /\ Placement[s] \cap E \subseteq F \cup E
      BY <1>1
    <3>2. FailsIn(s, E) <= FailsIn(s, F \cup E)
      BY <1>1, <3>1, FailsGrow
    <3>3. FailsIn(s, E) \in Nat /\ FailsIn(s, F \cup E) \in Nat /\ Tolerance \in Nat
      BY <1>1, <3>1, FailsType, ToleranceAssumption
    <3> QED BY <2>2, <3>2, <3>3
  <2> QED BY <1>2, <2>1, <2>2
<1> QED BY <1>1, <1>3 DEF Lost, E

\* Under the strategies that do not split them, a lost stripe has all of its failed
\* nodes repaired.
LEMMA LostIsRepairedWhole ==
  ASSUME IInv, Day, NEW R, Decided(R), strategy \notin SplitStripes,
         NEW s \in Stripes, FailsIn(s, ToSet(Added)) > Tolerance
  PROVE  Placement[s] \cap ToSet(Added) \subseteq R
<1> DEFINE A == ToSet(Added)
<1>1. A \in SUBSET Nodes /\ R \subseteq A
  BY EventFacts DEF Day, Decided, Repairs
<1>2. FailsIn(s, A) \in Nat /\ Tolerance \in Nat /\ FailsIn(s, A) > Tolerance
  BY <1>1, FailsType, ToleranceAssumption
<1>3. strategy \in {"immediate", "lazy", "traceDriven", "ml"}
  BY DEF IInv, RoundsAreSound, TypeOK, Strategies, SplitStripes
<1>4. Placement[s] \cap A \subseteq R
  <2>1. ASSUME NEW coming, coming \subseteq Nodes, R = NodesOf(Dangerous(A, coming), A)
        PROVE  Placement[s] \cap A \subseteq R
    <3>1. FailsIn(s, coming) \in Nat
      BY <2>1, FailsType
    <3> HIDE DEF A
    <3>2. FailsIn(s, A) > 0 /\ FailsIn(s, A) + FailsIn(s, coming) > Tolerance
      BY <1>2, <3>1
    <3>3. s \in Dangerous(A, coming)
      BY <3>2 DEF Dangerous
    <3> QED BY <2>1, <3>3 DEF NodesOf
  <2>2. CASE strategy = "immediate"
    BY <2>2 DEF Decided
  <2>3. CASE strategy = "lazy"
    <3>1. FailsIn(s, A) >= Tolerance
      BY <1>2
    <3> QED BY <2>3, <3>1 DEF Decided, LazyNodes, NodesOf
  <2>4. CASE strategy = "traceDriven"
    <3>1. NextFails \subseteq Nodes
      <4>1. /\ idx \in Nat /\ idx >= 1 /\ Len(trace) \in Nat /\ trace \in Seq(Seq(Nodes))
        BY EventFacts DEF Day
      <4>2. idx < Len(trace) => trace[idx + 1] \in Seq(Nodes)
        BY <4>1
      <4> QED BY <4>2, ToSetNodes DEF NextFails
    <3> QED BY <2>1, <2>4, <3>1 DEF Decided
  <2>5. CASE strategy = "ml"
    BY <2>1, <2>5 DEF Decided, Predictions
  <2> QED BY <1>3, <2>2, <2>3, <2>4, <2>5
<1> QED BY <1>4

\* A lost stripe that is charged has a failed node that is not repaired.
LEMMA ChargedLostWaits ==
  ASSUME NEW A \in SUBSET Nodes, NEW R, R \subseteq A, NEW s \in Stripes,
         s \in Charged(R), FailsIn(s, A) > Tolerance
  PROVE  /\ ~ (Placement[s] \cap A \subseteq R)
         /\ FailsIn(s, A \ R) > 0
<1>1. /\ FailsIn(s, A) \in Nat /\ FailsIn(s, R) \in Nat /\ FailsIn(s, A \ R) \in Nat
      /\ Tolerance \in Nat
  <2>1. R \in SUBSET Nodes /\ A \ R \in SUBSET Nodes
    OBVIOUS
  <2> QED BY <2>1, FailsType, ToleranceAssumption
<1>2. FailsIn(s, R) # FailsIn(s, A)
  <2>1. FailsIn(s, R) <= Tolerance
    BY <1>1 DEF Charged
  <2> QED BY <1>1, <2>1
<1>3. ~ (Placement[s] \cap A \subseteq R)
  <2> SUFFICES ASSUME Placement[s] \cap A \subseteq R PROVE FALSE
    OBVIOUS
  <2>1. Placement[s] \cap R = Placement[s] \cap A
    OBVIOUS
  <2> QED BY <1>2, <2>1 DEF FailsIn
<1>4. FailsIn(s, A \ R) # 0
  <2>1. A \ R \in SUBSET Nodes /\ ~ (Placement[s] \cap (A \ R) = {})
    BY <1>3
  <2> QED BY <2>1, FailsType
<1> QED BY <1>1, <1>3, <1>4

LEMMA DayStep ==
  ASSUME IInv, Day
  PROVE  IInv'
<1>1. PICK R : Decided(R)
  BY DayDecides
<1> DEFINE A == ToSet(Added)
<1>2. /\ idx \in Nat /\ idx >= 1 /\ idx <= Len(trace) /\ Len(trace) \in Nat
      /\ A = ToSet(failed) \cup ToSet(trace[idx]) /\ A \in SUBSET Nodes
      /\ ~ finished
  BY EventFacts DEF Day
<1>3. /\ HasCurrentEvent
      /\ losses' = Append(losses, Lost(A))
      /\ idx' = idx + 1
      /\ UNCHANGED <<strategy, predictor, trace, finished>>
  BY DEF Day
<1>4. /\ Repairs(Added, R) /\ R \subseteq A /\ failed' \in Seq(Nodes) /\ Distinct(failed')
      /\ ToSet(failed') = A \ R
      /\ skips' \in {skips, skips \cup {idx}}
  BY <1>1 DEF Decided, Repairs
<1>5. TypeOK /\ Added \in Seq(Nodes)
  BY EventFacts DEF Day, IInv, RoundsAreSound
<1>6. /\ rounds' \in Seq(RoundType)
      /\ \A r \in DOMAIN rounds : r \in DOMAIN rounds' /\ rounds'[r] = rounds[r]
                                  /\ r \in 1 .. Len(rounds) /\ r # Len(rounds) + 1
      /\ R # {} => Len(rounds) + 1 \in DOMAIN rounds'
      /\ \A r \in DOMAIN rounds' :
           \/ r \in DOMAIN rounds
           \/ /\ r = Len(rounds) + 1 /\ R # {}
              /\ rounds'[r].after = idx
              /\ rounds'[r].nodes = R
              /\ rounds'[r].stripes = Charged(R)
              /\ rounds'[r].partial \/ R = A
  BY <1>2, <1>4, <1>5, RoundAdded
<1>7. /\ losses \in Seq(SUBSET Stripes) /\ Len(losses) = idx - 1
      /\ losses' \in Seq(SUBSET Stripes) /\ Len(losses') = idx
      /\ losses'[idx] = Lost(A)
      /\ \A i \in 1 .. idx - 1 : losses'[i] = losses[i]
  <2>1. losses \in Seq(SUBSET Stripes) /\ Len(losses) = idx - 1 /\ Lost(A) \in SUBSET Stripes
    BY <1>5 DEF TypeOK, Lost
  <2> DEFINE e == Lost(A)
  <2>2. losses' = Append(losses, e) /\ e \in SUBSET Stripes
    BY <1>3, <2>1
  <2> HIDE DEF e
  <2>3. /\ losses' \in Seq(SUBSET Stripes) /\ Len(losses') = Len(losses) + 1
        /\ losses'[Len(losses) + 1] = e
        /\ \A i \in 1 .. Len(losses) : losses'[i] = losses[i]
    BY <2>1, <2>2
  <2>4. (idx - 1) + 1 = idx
    BY <1>2
  <2> QED BY <2>1, <2>3, <2>4 DEF e
<1>8. \A r \in DOMAIN rounds : rounds[r].after \in 1 .. idx - 1
  BY <1>2 DEF IInv, RoundsInOrder
<1> HIDE DEF A
<1>9. TypeOK'
  <2>1. idx' \in 1 .. Len(trace') + 1 /\ idx' - 1 = idx
    BY <1>2, <1>3
  <2>2. skips' \in SUBSET (1 .. idx' - 1)
    <3>1. 1 .. idx - 1 \subseteq 1 .. idx /\ idx \in 1 .. idx
      BY <1>2
    <3>2. skips \in SUBSET (1 .. idx - 1)
      BY <1>5 DEF TypeOK
    <3> QED BY <1>4, <2>1, <3>1, <3>2
  <2> QED BY <1>3, <1>4, <1>5, <1>6, <1>7, <2>1, <2>2 DEF TypeOK, Distinct, RoundType
<1>10. NoEmptyRound'
  BY <1>6 DEF IInv, RoundsAreSound, NoEmptyRound
<1>11. LostIsChargedInPart'
  <2> SUFFICES ASSUME NEW r \in DOMAIN rounds', rounds'[r].after <= Len(trace),
                      NEW s \in rounds'[r].stripes \cap losses'[rounds'[r].after]
               PROVE  /\ strategy \in SplitStripes
                      /\ rounds'[r].partial
                      /\ rounds'[r].after = idx' - 1 => FailsIn(s, ToSet(failed')) > 0
    BY <1>3 DEF LostIsChargedInPart, FailsIn
  <2>1. CASE r \in DOMAIN rounds
    <3>1. s \in rounds[r].stripes \cap losses[rounds[r].after]
      BY <1>6, <1>7, <1>8, <2>1
    <3>2. rounds[r].after # idx' - 1
      BY <1>2, <1>3, <1>8, <2>1
    <3>3. strategy \in SplitStripes /\ rounds[r].partial
      BY <1>6, <2>1, <3>1 DEF IInv, RoundsAreSound, LostIsChargedInPart
    <3> QED BY <1>6, <2>1, <3>2, <3>3
  <2>2. CASE r \notin DOMAIN rounds
    <3>1. /\ s \in Charged(R) /\ s \in Lost(A)
          /\ rounds'[r].partial \/ R = A
      BY <1>6, <1>7, <2>2
    <3>2. s \in Stripes /\ FailsIn(s, A) > Tolerance
      BY <3>1 DEF Lost
    <3>3. ~ (Placement[s] \cap A \subseteq R) /\ FailsIn(s, A \ R) > 0
      BY <1>2, <1>4, <3>1, <3>2, ChargedLostWaits
    <3>4. strategy \in SplitStripes
      BY <1>1, <3>2, <3>3, LostIsRepairedWhole DEF A
    <3>5. R # A
      BY <3>3
    <3> QED BY <1>4, <3>1, <3>3, <3>4, <3>5
  <2> QED BY <2>1, <2>2
<1>12. LossIsUnavoidable'
  <2> SUFFICES ASSUME Knows
               PROVE  losses' = [i \in 1 .. idx' - 1 |-> Lost(ToSet(trace[i]))]
    BY <1>3 DEF LossIsUnavoidable, Knows, Lost, FailsIn
  <2>1. Lost(A) = Lost(ToSet(trace[idx]))
    BY <1>3, LossAtEvent DEF A
  <2>2. losses = [i \in 1 .. idx - 1 |-> Lost(ToSet(trace[i]))]
    BY DEF IInv, LossIsUnavoidable, Knows
  <2>3. \A i \in 1 .. idx : losses'[i] = Lost(ToSet(trace[i]))
    <3>1. \A i \in 1 .. idx : i \in 1 .. idx - 1 \/ i = idx
      BY <1>2
    <3> QED BY <1>7, <2>1, <2>2, <3>1
  <2>4. losses' = [i \in 1 .. idx |-> losses'[i]]
    BY <1>7
  <2>5. idx' - 1 = idx
    BY <1>2, <1>3
  <2> QED BY <2>3, <2>4, <2>5
<1>13. FailedAgain'
  <2> SUFFICES ASSUME NEW r \in DOMAIN rounds', NEW n \in rounds'[r].nodes, n \in A \ R
               PROVE  \E i \in rounds'[r].after + 1 .. idx : n \in ToSet(trace[i])
    BY <1>2, <1>3, <1>4 DEF FailedAgain
  <2>1. r \in DOMAIN rounds /\ rounds'[r] = rounds[r]
    BY <1>6
  <2>2. rounds[r].after \in Nat /\ rounds[r].after + 1 <= idx
    BY <1>2, <1>8, <2>1
  <2>3. CASE n \in ToSet(failed)
    <3>1. PICK i \in rounds[r].after + 1 .. idx - 1 : n \in ToSet(trace[i])
      BY <2>1, <2>3 DEF IInv, FailedAgain
    <3> QED BY <1>2, <2>1, <2>2, <3>1
  <2>4. CASE n \in ToSet(trace[idx])
    BY <1>2, <2>1, <2>2, <2>4
  <2> QED BY <1>2, <2>3, <2>4
<1>14. EveryFailureIsRepaired'
  <2>1. ASSUME NEW i \in 1 .. idx, NEW n \in ToSet(trace[i])
        PROVE  \/ n \in ToSet(failed')
               \/ \E r \in DOMAIN rounds' : rounds'[r].after >= i /\ n \in rounds'[r].nodes
    <3>1. CASE n \in A
      <4>1. CASE n \in R
        <5>1. R # {} /\ i <= idx
          BY <1>2, <4>1
        <5> QED BY <1>2, <1>6, <4>1, <5>1
      <4> QED BY <1>4, <3>1, <4>1
    <3>2. CASE n \notin A
      <4>1. i \in 1 .. idx - 1 /\ n \notin ToSet(failed)
        BY <1>2, <3>2
      <4>2. PICK r \in DOMAIN rounds : rounds[r].after >= i /\ n \in rounds[r].nodes
        BY <4>1 DEF IInv, EveryFailureIsRepaired
      <4> QED BY <1>6, <4>2
    <3> QED BY <3>1, <3>2
  <2>2. ASSUME NEW q \in DOMAIN rounds', NEW r \in DOMAIN rounds',
               NEW n \in rounds'[q].nodes \cap rounds'[r].nodes, q < r
        PROVE  \E i \in rounds'[q].after + 1 .. rounds'[r].after :
                 i <= Len(trace) /\ n \in ToSet(trace[i])
    <3>1. CASE r \in DOMAIN rounds
      <4>1. q \in DOMAIN rounds
        <5>1. r \in 1 .. Len(rounds) /\ Len(rounds) \in Nat
          BY <1>5, <1>6, <3>1 DEF TypeOK
        <5> QED BY <1>6, <2>2, <5>1
      <4> QED BY <1>6, <2>2, <3>1, <4>1 DEF IInv, EveryFailureIsRepaired
    <3>2. CASE r \notin DOMAIN rounds
      <4>1. r = Len(rounds) + 1 /\ rounds'[r].after = idx /\ rounds'[r].nodes = R
        BY <1>6, <3>2
      <4>2. q \in DOMAIN rounds /\ rounds'[q] = rounds[q]
        <5>1. q # r
          <6>1. r \in Nat
            BY <1>5, <4>1 DEF TypeOK
          <6> QED BY <2>2, <6>1
        <5> QED BY <1>6, <4>1, <5>1
      <4>3. rounds[q].after \in Nat /\ rounds[q].after + 1 <= idx
        BY <1>2, <1>8, <4>2
      <4>4. n \in A /\ n \in rounds[q].nodes
        BY <1>4, <4>1, <4>2
      <4>5. CASE n \in ToSet(failed)
        <5>1. PICK i \in rounds[q].after + 1 .. idx - 1 : n \in ToSet(trace[i])
          BY <4>2, <4>4, <4>5 DEF IInv, FailedAgain
        <5>2. i \in rounds[q].after + 1 .. idx /\ i <= Len(trace)
          BY <1>2, <4>3, <5>1
        <5> QED BY <4>1, <4>2, <5>1, <5>2
      <4>6. CASE n \in ToSet(trace[idx])
        <5>1. idx \in rounds[q].after + 1 .. idx
          BY <1>2, <4>3
        <5> QED BY <1>2, <4>1, <4>2, <4>6, <5>1
      <4> QED BY <1>2, <4>4, <4>5, <4>6
    <3> QED BY <3>1, <3>2
  <2>3. idx' - 1 = idx
    BY <1>2, <1>3
  <2> QED BY <1>2, <1>3, <2>1, <2>2, <2>3 DEF EveryFailureIsRepaired
<1>15. RoundsInOrder'
  <2>1. \A r \in DOMAIN rounds' : rounds'[r].after \in 1 .. idx
    <3>1. 1 .. idx - 1 \subseteq 1 .. idx /\ idx \in 1 .. idx
      BY <1>2
    <3> QED BY <1>6, <1>8, <3>1
  <2>2. idx' - 1 = idx
    BY <1>2, <1>3
  <2> QED BY <1>2, <1>3, <2>1, <2>2 DEF RoundsInOrder
<1>16. Prepared' /\ WaitingIsTolerated'
  BY <1>1, DayPrepared, DayTolerated
<1> QED BY <1>9, <1>10, <1>11, <1>12, <1>13, <1>14, <1>15, <1>16 DEF IInv, RoundsAreSound

LEMMA FinalRepairStep ==
  ASSUME IInv, FinalRepair
  PROVE  IInv'
<1>1. TypeOK
  BY DEF IInv, RoundsAreSound
<1>2. trace \in Seq(Seq(Nodes)) /\ Len(trace) \in Nat
  BY <1>1, TracesAssumption DEF TypeOK
<1>3. /\ idx \in Nat /\ idx = Len(trace) + 1 /\ ~ finished /\ finished'
      /\ UNCHANGED <<strategy, predictor, trace, idx, losses, skips>>
  BY <1>1, <1>2 DEF FinalRepair, HasCurrentEvent, TypeOK
<1>4. failed \in Seq(Nodes) /\ Distinct(failed)
  BY <1>1 DEF TypeOK, Distinct
<1> DEFINE R == ToSet(failed)
<1>5. Repairs(failed, R)
  <2>1. CASE failed = <<>>
    <3>1. R = {}
      BY <1>4, <2>1, ToSetNodes
    <3>2. Wait(failed)
      BY <2>1 DEF FinalRepair, Quiet
    <3> QED BY <1>3, <1>4, <3>1, <3>2, WaitRepairs
  <2>2. CASE failed # <<>>
    BY <1>3, <1>4, <2>2, FullRepairs DEF FinalRepair
  <2> QED BY <2>1, <2>2
<1>6. failed' \in Seq(Nodes) /\ ToSet(failed') = {} /\ failed' = <<>> /\ Distinct(failed')
  BY <1>5, ToSetNodes DEF Repairs
<1>7. /\ rounds' \in Seq(RoundType)
      /\ \A r \in DOMAIN rounds : r \in DOMAIN rounds' /\ rounds'[r] = rounds[r]
                                  /\ r \in 1 .. Len(rounds) /\ r # Len(rounds) + 1
      /\ R # {} => Len(rounds) + 1 \in DOMAIN rounds'
      /\ \A r \in DOMAIN rounds' :
           \/ r \in DOMAIN rounds
           \/ /\ r = Len(rounds) + 1 /\ R # {}
              /\ rounds'[r].after = idx
              /\ rounds'[r].nodes = R
              /\ rounds'[r].stripes = Charged(R)
              /\ rounds'[r].partial \/ R = R
  BY <1>1, <1>3, <1>4, <1>5, RoundAdded
<1>8. \A r \in DOMAIN rounds : rounds[r].after \in 1 .. idx - 1
  BY <1>3 DEF IInv, RoundsInOrder
<1>9. TypeOK'
  BY <1>1, <1>3, <1>6, <1>7 DEF TypeOK, Distinct, RoundType, FinalRepair
<1>10. NoEmptyRound'
  BY <1>7 DEF IInv, RoundsAreSound, NoEmptyRound
<1>11. LostIsChargedInPart'
  <2>1. ~ (idx <= Len(trace))
    BY <1>2, <1>3
  <2> HIDE DEF R
  <2> QED BY <1>3, <1>7, <2>1 DEF IInv, RoundsAreSound, LostIsChargedInPart
<1>12. LossIsUnavoidable'
  BY <1>3 DEF IInv, LossIsUnavoidable, Lost, FailsIn
<1>13. WaitingIsTolerated'
  <2>1. \A s \in Stripes : FailsIn(s, {}) = 0
    <3>1. \A s \in Stripes : Placement[s] \cap {} = {}
      OBVIOUS
    <3> QED BY <3>1, FS_EmptySet DEF FailsIn
  <2> QED BY <1>6, <2>1, ToleranceAssumption DEF WaitingIsTolerated, FailsIn
<1>14. EveryFailureIsRepaired'
  <2>1. ASSUME NEW i \in 1 .. idx - 1, NEW n \in ToSet(trace[i])
        PROVE  \E r \in DOMAIN rounds' : rounds'[r].after >= i /\ n \in rounds'[r].nodes
    <3>1. CASE n \in R
      <4>1. R # {} /\ i <= idx
        BY <1>3, <3>1
      <4> QED BY <1>3, <1>7, <3>1, <4>1
    <3>2. CASE n \notin R
      <4>1. PICK r \in DOMAIN rounds : rounds[r].after >= i /\ n \in rounds[r].nodes
        BY <3>2 DEF IInv, EveryFailureIsRepaired
      <4> QED BY <1>7, <4>1
    <3> QED BY <3>1, <3>2
  <2>2. ASSUME NEW q \in DOMAIN rounds', NEW r \in DOMAIN rounds',
               NEW n \in rounds'[q].nodes \cap rounds'[r].nodes, q < r
        PROVE  \E i \in rounds'[q].after + 1 .. rounds'[r].after :
                 i <= Len(trace) /\ n \in ToSet(trace[i])
    <3>1. q \in DOMAIN rounds /\ rounds'[q] = rounds[q]
      <4>1. r \in Nat /\ Len(rounds) \in Nat
        BY <1>1, <1>7 DEF TypeOK
      <4>2. \A p \in DOMAIN rounds : p < Len(rounds) + 1
        BY <1>1, <4>1 DEF TypeOK
      <4>3. q = Len(rounds) + 1 => ~ (q < r)
        BY <1>7, <4>1, <4>2
      <4> QED BY <1>7, <2>2, <4>3
    <3>2. CASE r \in DOMAIN rounds
      BY <1>7, <2>2, <3>1, <3>2 DEF IInv, EveryFailureIsRepaired
    <3>3. CASE r \notin DOMAIN rounds
      <4>1. rounds'[r].after = idx /\ rounds'[r].nodes = R
        BY <1>7, <3>3
      <4>2. PICK i \in rounds[q].after + 1 .. idx - 1 : n \in ToSet(trace[i])
        BY <3>1, <4>1 DEF IInv, FailedAgain
      <4>3. rounds[q].after \in Nat
        BY <1>8, <3>1
      <4>4. i \in rounds[q].after + 1 .. idx /\ i <= Len(trace)
        BY <1>2, <1>3, <4>2, <4>3
      <4> QED BY <3>1, <4>1, <4>2, <4>4
    <3> QED BY <3>2, <3>3
  <2> HIDE DEF R
  <2> QED BY <1>3, <1>6, <2>1, <2>2 DEF EveryFailureIsRepaired
<1>15. Prepared'
  BY <1>3 DEF Prepared, FinalRepair, HasCurrentEvent
<1>16. FailedAgain'
  BY <1>6 DEF FailedAgain
<1>17. RoundsInOrder'
  <2>1. \A r \in DOMAIN rounds' : rounds'[r].after \in 1 .. idx
    <3>1. 1 .. idx - 1 \subseteq 1 .. idx /\ idx \in 1 .. idx
      BY <1>2, <1>3
    <3> QED BY <1>7, <1>8, <3>1
  <2> QED BY <1>3, <2>1 DEF RoundsInOrder
<1> QED BY <1>9, <1>10, <1>11, <1>12, <1>13, <1>14, <1>15, <1>16, <1>17
        DEF IInv, RoundsAreSound

LEMMA StutterStep ==
  ASSUME IInv, UNCHANGED vars
  PROVE  IInv'
<1>1. TypeOK' /\ NoEmptyRound' /\ LostIsChargedInPart'
  BY DEF vars, IInv, RoundsAreSound, TypeOK, NoEmptyRound, LostIsChargedInPart, FailsIn
<1>2. HasCurrentEvent' = HasCurrentEvent /\ Knows' = Knows
  BY DEF vars, HasCurrentEvent, Knows
<1>3. WaitingIsTolerated'
  BY <1>2 DEF vars, IInv, RoundsAreSound, WaitingIsTolerated, FailsIn
<1>4. LossIsUnavoidable'
  BY DEF vars, IInv, LossIsUnavoidable, Lost, FailsIn
<1>5. EveryFailureIsRepaired' /\ FailedAgain' /\ RoundsInOrder'
  BY DEF vars, IInv, EveryFailureIsRepaired, FailedAgain, RoundsInOrder
<1>6. Prepared'
  BY <1>2 DEF vars, IInv, Prepared, FailsIn
<1> QED BY <1>1, <1>3, <1>4, <1>5, <1>6 DEF IInv, RoundsAreSound

----------------------------------------------------------------------------
(* The theorems. *)

\* Every day and the final repair keep the invariant, whatever the strategy.
THEOREM Invariance == Spec => []IInv
<1>1. Init => IInv
  BY InitInv
<1>2. IInv /\ [Next]_vars => IInv'
  <2> SUFFICES ASSUME IInv, [Next]_vars PROVE IInv'
    OBVIOUS
  <2>1. CASE Day
    BY <2>1, DayStep
  <2>2. CASE FinalRepair
    BY <2>2, FinalRepairStep
  <2>3. CASE UNCHANGED vars
    BY <2>3, StutterStep
  <2> QED BY <2>1, <2>2, <2>3 DEF Next
<1> QED BY <1>1, <1>2, PTL DEF Spec

\* Repairing only the nodes of endangered stripes, decideTraceDrivenStripe loses a
\* stripe only where the next event alone destroys it, as with a perfect predictor.
THEOREM NoAvoidableLoss == Spec => []LossIsUnavoidable
<1>1. IInv => LossIsUnavoidable
  BY DEF IInv
<1> QED BY <1>1, Invariance, PTL

\* executePartialRepair and executeFullRepair forget no node and repair none twice.
THEOREM NothingForgotten == Spec => []EveryFailureIsRepaired
<1>1. IInv => EveryFailureIsRepaired
  BY DEF IInv
<1> QED BY <1>1, Invariance, PTL

\* What decideLazy, decideTraceDrivenStripe and greedySelectNodes leave is within
\* what the strategy accepts, and applyRepairCost charges a stripe that is lost at the
\* event of the round only in a partial repair by riskAware, differentiated or
\* combined, and only while another of its failed nodes waits.
THEOREM SoundRounds == Spec => []RoundsAreSound
<1>1. IInv => RoundsAreSound
  BY DEF IInv
<1> QED BY <1>1, Invariance, PTL
=============================================================================
