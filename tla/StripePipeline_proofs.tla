------------------------ MODULE StripePipeline_proofs ------------------------
(***************************************************************************)
(* Proofs about StripeTasks, TaskCommand and StripePipeline, for any       *)
(* repair DAG, coloring and replacement of failed nodes.                   *)
(*                                                                         *)
(* The tasks: the commands that the agents read say what the coordinator   *)
(* wrote, no command overruns its buffer, every packet queue has one task  *)
(* that fills it and one that empties it, what is sent is received, and    *)
(* every failed block is written.                                          *)
(*                                                                         *)
(* The threads that run them, for any number of packets: every queue, list *)
(* and buffer has exactly the packets that are on their way from one       *)
(* thread to another, in order, so the repair files become complete and    *)
(* right in whatever order the threads run.                                *)
(***************************************************************************)
EXTENDS StripePipeline, FiniteSetTheorems, SequenceTheorems, WellFoundedInduction, TLAPS

----------------------------------------------------------------------------
(* Induction over sets of naturals *)

\* A set of naturals that has 0, and k + 1 whenever it has k, has them all.
LEMMA SetInduction ==
  ASSUME NEW T \in SUBSET Nat, 0 \in T, \A k \in T : k + 1 \in T
  PROVE  T = Nat
<1> SUFFICES ASSUME T # Nat PROVE FALSE
  OBVIOUS
<1> DEFINE D == Nat \ T
           R == OpToRel(<, Nat)
<1>1. IsWellFoundedOn(R, Nat)
  BY NatLessThanWellFounded
<1>2. D \subseteq Nat /\ D # {}
  OBVIOUS
<1>3. PICK x \in D : \A y \in D : ~ (<<y, x>> \in R)
  <2> HIDE DEF D, R
  <2> QED BY <1>1, <1>2, WFMin
<1>4. <<x - 1, x>> \in R
  BY DEF OpToRel
<1>5. x - 1 \in T
  <2>1. x \in Nat /\ x # 0
    OBVIOUS
  <2>2. x - 1 \in Nat
    BY <2>1
  <2> HIDE DEF R
  <2>3. x - 1 \notin D
    BY <1>3, <1>4
  <2> QED BY <2>2, <2>3
<1> QED BY <1>5

\* A set of naturals that is not empty has a least element.
LEMMA LeastElement ==
  ASSUME NEW D, D \subseteq Nat, D # {}
  PROVE  \E x \in D : \A y \in D : x <= y
<1> DEFINE R == OpToRel(<, Nat)
<1>1. IsWellFoundedOn(R, Nat)
  BY NatLessThanWellFounded
<1>2. PICK x \in D : \A y \in D : ~ (<<y, x>> \in R)
  <2> HIDE DEF R
  <2> QED BY <1>1, WFMin
<1>3. ASSUME NEW y \in D PROVE x <= y
  <2>1. x \in Nat /\ y \in Nat
    OBVIOUS
  <2>2. y < x => <<y, x>> \in R
    BY <2>1 DEF OpToRel
  <2> HIDE DEF R
  <2> QED BY <1>2, <2>1, <2>2
<1> QED BY <1>3

----------------------------------------------------------------------------
(* Sets of integers as sequences *)

\* The number of elements below x.
RankIn(S, x) == Cardinality({y \in S : y < x})

\* Ascending lists every integer of a finite set once.
LEMMA RanksAreTaken ==
  ASSUME NEW S \in SUBSET Int, IsFiniteSet(S), NEW k \in 1 .. Cardinality(S)
  PROVE  \E x \in S : RankIn(S, x) = k - 1
<1> DEFINE n == Cardinality(S)
           r == [x \in S |-> RankIn(S, x)]
<1>1. n \in Nat
  BY FS_CardinalityType
<1>2. ASSUME NEW x \in S PROVE RankIn(S, x) \in 0 .. n - 1
  <2> DEFINE B == {y \in S : y < x}
  <2>1. B \in SUBSET (S \ {x})
    OBVIOUS
  <2>2. IsFiniteSet(S \ {x}) /\ Cardinality(S \ {x}) = n - 1
    BY FS_RemoveElement
  <2>3. IsFiniteSet(B) /\ Cardinality(B) <= n - 1
    BY <2>1, <2>2, FS_Subset
  <2>4. Cardinality(B) \in Nat
    BY <2>3, FS_CardinalityType
  <2>5. Cardinality(B) = RankIn(S, x)
    BY DEF RankIn
  <2> QED BY <1>1, <2>3, <2>4, <2>5
<1>3. ASSUME NEW x \in S, NEW y \in S, x < y PROVE RankIn(S, x) < RankIn(S, y)
  <2> DEFINE B == {z \in S : z < x}
             C == {z \in S : z < y}
  <2>1. IsFiniteSet(C)
    <3>1. C \in SUBSET S
      OBVIOUS
    <3> QED BY <3>1, FS_Subset
  <2>2. B \in SUBSET (C \ {x}) /\ x \in C
    <3>1. x \in Int /\ y \in Int /\ \A z \in S : z \in Int
      OBVIOUS
    <3>2. \A z \in S : z < x => z < y /\ z # x
      BY <1>3, <3>1
    <3> QED BY <1>3, <3>2
  <2>3. IsFiniteSet(C \ {x}) /\ Cardinality(C \ {x}) = Cardinality(C) - 1
    BY <2>1, <2>2, FS_RemoveElement
  <2>4. Cardinality(B) <= Cardinality(C) - 1 /\ IsFiniteSet(B)
    BY <2>2, <2>3, FS_Subset
  <2>5. Cardinality(B) \in Nat /\ Cardinality(C) \in Nat
    BY <2>1, <2>4, FS_CardinalityType
  <2>6. Cardinality(B) = RankIn(S, x) /\ Cardinality(C) = RankIn(S, y)
    BY DEF RankIn
  <2> QED BY <2>4, <2>5, <2>6
<1>4. r \in Injection(S, 0 .. n - 1)
  <2>1. r \in [S -> 0 .. n - 1]
    BY <1>2
  <2>2. ASSUME NEW x \in S, NEW y \in S, x # y PROVE r[x] # r[y]
    <3>1. x \in Int /\ y \in Int
      OBVIOUS
    <3>2. x < y \/ y < x
      BY <2>2, <3>1
    <3>3. RankIn(S, x) \in Int /\ RankIn(S, y) \in Int
      BY <1>2
    <3>4. CASE x < y
      BY <1>3, <3>3, <3>4
    <3>5. CASE y < x
      BY <1>3, <3>3, <3>5
    <3> QED BY <3>2, <3>4, <3>5
  <2> HIDE DEF r
  <2> QED BY <2>1, <2>2 DEF Injection, IsInjective
<1>5. IsFiniteSet(0 .. n - 1) /\ Cardinality(0 .. n - 1) = n
  <2>1. 0 \in Int /\ n - 1 \in Int /\ (0 > n - 1 => n = 0) /\ n - 1 - 0 + 1 = n
    BY <1>1
  <2> HIDE DEF n
  <2> QED BY <2>1, FS_Interval
<1>6. r \in Surjection(S, 0 .. n - 1)
  <2> HIDE DEF r
  <2> QED BY <1>4, <1>5, FS_Injection
<1>7. k - 1 \in 0 .. n - 1
  BY <1>1
<1> QED BY <1>6, <1>7 DEF Surjection

\* Ascending lists the elements of a finite set of integers, each once.
LEMMA AscendingIs ==
  ASSUME NEW S \in SUBSET Int, IsFiniteSet(S)
  PROVE  /\ Ascending(S) \in Seq(Int)
         /\ Len(Ascending(S)) = Cardinality(S)
         /\ \A i \in 1 .. Cardinality(S) : Ascending(S)[i] \in S
         /\ ToSet(Ascending(S)) = S
         /\ \A i, j \in 1 .. Cardinality(S) : Ascending(S)[i] = Ascending(S)[j] => i = j
<1> DEFINE n == Cardinality(S)
           a == Ascending(S)
<1>1. n \in Nat
  BY FS_CardinalityType
<1>2. ASSUME NEW i \in 1 .. n PROVE a[i] \in S /\ RankIn(S, a[i]) = i - 1
  <2>1. \E x \in S : Cardinality({y \in S : y < x}) = i - 1
    BY RanksAreTaken DEF RankIn
  <2>2. a[i] = CHOOSE x \in S : Cardinality({y \in S : y < x}) = i - 1
    BY DEF Ascending
  <2> QED BY <2>1, <2>2 DEF RankIn
<1>3. a \in [1 .. n -> Int] /\ DOMAIN a = 1 .. n
  <2>1. a = [i \in 1 .. n |-> a[i]]
    BY SMTT(30) DEF Ascending
  <2> HIDE DEF a
  <2> QED BY <1>2, <2>1
<1> HIDE DEF a
<1>4. a \in Seq(Int) /\ Len(a) = n
  BY <1>1, <1>3
<1>5. ASSUME NEW i \in 1 .. n, NEW j \in 1 .. n, a[i] = a[j] PROVE i = j
  BY <1>2, <1>5
<1>6. n = 0 \/ S # {}
  BY FS_EmptySet
<1>7. ToSet(a) = S
  <2> DEFINE T == {a[i] : i \in 1 .. n}
  <2>1. ToSet(a) = T
    BY <1>3 DEF ToSet
  <2>2. T \in SUBSET S
    BY <1>2
  <2>3. IsFiniteSet(T)
    BY <2>2, FS_Subset
  <2>4. a \in Injection(1 .. n, T)
    <3>1. a \in [1 .. n -> T]
      BY <1>3
    <3> HIDE DEF T
    <3> QED BY <1>5, <3>1 DEF Injection, IsInjective
  <2>5. IsFiniteSet(1 .. n) /\ Cardinality(1 .. n) = n
    BY <1>1, FS_Interval
  <2>6. Cardinality(T) >= n /\ Cardinality(T) \in Nat
    <3> HIDE DEF T
    <3> QED BY <2>3, <2>4, <2>5, FS_Injection, FS_CardinalityType, <1>1
  <2>7. Cardinality(T) <= n /\ (Cardinality(S) = Cardinality(T) => S = T)
    <3> HIDE DEF T
    <3> QED BY <2>2, FS_Subset
  <2>8. Cardinality(T) = n
    BY <1>1, <2>6, <2>7
  <2> QED BY <2>1, <2>7, <2>8
<1> QED BY <1>2, <1>4, <1>5, <1>7 DEF a

\* Listed takes an element that is not yet in the list, each time.
Longer(S, before) == Append(before, CHOOSE x \in S \ ToSet(before) : TRUE)
IsListing(list, S, n) ==
  list = [i \in 0 .. n |-> IF i = 0 THEN <<>> ELSE Longer(S, list[i - 1])]

\* The function that Listed defines exists.
LEMMA ListingExists ==
  ASSUME NEW S, NEW n \in Nat
  PROVE  \E list : IsListing(list, S, n)
<1> DEFINE T == {i \in Nat : \E list : IsListing(list, S, i)}
<1>1. 0 \in T
  <2>1. IsListing([i \in 0 .. 0 |-> <<>>], S, 0)
    BY DEF IsListing
  <2> QED BY <2>1
<1>2. ASSUME NEW i \in T PROVE i + 1 \in T
  <2>1. PICK list : IsListing(list, S, i)
    OBVIOUS
  <2> DEFINE next == Longer(S, list[i])
             longer == [j \in 0 .. i + 1 |-> IF j = i + 1 THEN next ELSE list[j]]
  <2>2. IsListing(longer, S, i + 1)
    BY <2>1 DEF IsListing
  <2> QED BY <2>2
<1>3. T = Nat
  <2> HIDE DEF T
  <2>1. T \in SUBSET Nat
    BY DEF T
  <2> QED BY <1>1, <1>2, <2>1, SetInduction
<1> QED BY <1>3

\* Listed lists the elements of a finite set.
LEMMA ListedIs ==
  ASSUME NEW S, IsFiniteSet(S)
  PROVE  /\ Listed(S) \in Seq(S)
         /\ Len(Listed(S)) = Cardinality(S)
         /\ ToSet(Listed(S)) = S
<1> DEFINE n == Cardinality(S)
<1>1. n \in Nat
  BY FS_CardinalityType
<1>2. PICK list : IsListing(list, S, n) /\ Listed(S) = list[n]
  <2>1. \E list : IsListing(list, S, n)
    BY <1>1, ListingExists
  <2> DEFINE the == CHOOSE list : IsListing(list, S, n)
  <2>2. IsListing(the, S, n)
    BY <2>1
  <2>3. Listed(S) = the[n]
    BY DEF Listed, IsListing, Longer
  <2> QED BY <2>2, <2>3
<1> DEFINE Good(i) == /\ list[i] \in Seq(S) /\ Len(list[i]) = i
                      /\ Cardinality(ToSet(list[i])) = i
                      /\ ToSet(list[i]) \in SUBSET S
           T == {i \in Nat : i <= n => Good(i)}
<1>3. 0 \in T
  <2>1. list[0] = <<>>
    BY <1>1, <1>2 DEF IsListing
  <2>2. ToSet(<<>>) = {}
    BY DEF ToSet
  <2> QED BY <2>1, <2>2, FS_EmptySet, EmptySeq
<1>4. ASSUME NEW i \in T PROVE i + 1 \in T
  <2> SUFFICES ASSUME i + 1 <= n PROVE Good(i + 1)
    OBVIOUS
  <2>1. Good(i) /\ i \in Nat /\ i < n
    BY <1>1
  <2> DEFINE b == list[i]
             x == CHOOSE y \in S \ ToSet(b) : TRUE
  <2>2. list[i + 1] = Append(b, x)
    <3>1. list[i + 1] = Longer(S, list[(i + 1) - 1])
      <4>1. i + 1 \in 0 .. n /\ i + 1 # 0
        BY <1>1, <2>1
      <4> HIDE DEF n, T, Good
      <4> QED BY <1>2, <4>1 DEF IsListing
    <3>2. (i + 1) - 1 = i
      BY <2>1
    <3> QED BY <3>1, <3>2 DEF Longer
  <2>3. x \in S \ ToSet(b)
    <3>1. S \ ToSet(b) # {}
      <4>1. ToSet(b) # S
        BY <1>1, <2>1
      <4>2. ToSet(b) \subseteq S
        BY <2>1
      <4> QED BY <4>1, <4>2
    <3> QED BY <3>1
  <2> HIDE DEF x
  <2>4. b \in Seq(S) /\ Len(b) = i /\ DOMAIN b = 1 .. i
    BY <2>1, LenProperties
  <2> HIDE DEF b
  <2>5. /\ Append(b, x) \in Seq(S) /\ Len(Append(b, x)) = i + 1
        /\ DOMAIN Append(b, x) = 1 .. i + 1
        /\ \A j \in 1 .. i : Append(b, x)[j] = b[j]
        /\ Append(b, x)[i + 1] = x
    BY <2>1, <2>3, <2>4
  <2>6. ToSet(Append(b, x)) = ToSet(b) \cup {x}
    <3>1. ToSet(Append(b, x)) = {Append(b, x)[j] : j \in 1 .. i + 1}
      BY <2>5 DEF ToSet
    <3>2. ToSet(b) = {b[j] : j \in 1 .. i}
      BY <2>4 DEF ToSet
    <3> QED BY <2>1, <2>5, <3>1, <3>2
  <2>7. ToSet(b) \in SUBSET S /\ Cardinality(ToSet(b)) = i
    BY <2>1 DEF b
  <2>8. Cardinality(ToSet(b) \cup {x}) = i + 1
    BY <2>3, <2>7, FS_Subset, FS_AddElement
  <2> QED BY <2>2, <2>3, <2>5, <2>6, <2>7, <2>8
<1>5. T = Nat
  <2> HIDE DEF T
  <2>1. T \in SUBSET Nat
    BY DEF T
  <2> QED BY <1>3, <1>4, <2>1, SetInduction
<1>6. Good(n)
  BY <1>1, <1>5
<1> QED BY <1>2, <1>6, FS_Subset

----------------------------------------------------------------------------
(* Commands: the fields of a task *)

\* The number that stands for a type.
TypeNumber(type) == (CHOOSE i \in DOMAIN Types : Types[i] = type) - 1

\* The number of a type, as the command has it, leads back to the type.
LEMMA TypeNumbers ==
  ASSUME NEW type \in {"read", "send", "recv", "compute", "persist"}
  PROVE  TypeNumber(type) \in 0 .. 4 /\ Types[TypeNumber(type) + 1] = type
<1>1. DOMAIN Types = 1 .. 5
  BY DEF Types
<1>2. \E i \in 1 .. 5 : Types[i] = type
  <2>1. /\ Types[1] = "read" /\ Types[2] = "send" /\ Types[3] = "recv"
        /\ Types[4] = "compute" /\ Types[5] = "persist"
    BY DEF Types
  <2> QED BY <2>1
<1> DEFINE i == CHOOSE j \in 1 .. 5 : Types[j] = type
<1>3. i \in 1 .. 5 /\ Types[i] = type
  BY <1>2
<1>4. TypeNumber(type) = i - 1
  BY <1>1 DEF TypeNumber
<1> HIDE DEF i
<1> QED BY <1>3, <1>4

\* A list with its length in front.
LEMMA CountedIs ==
  ASSUME NEW list \in Seq(Int)
  PROVE  /\ Counted(list) \in Seq(Int)
         /\ Len(Counted(list)) = Len(list) + 1
         /\ Counted(list)[1] = Len(list)
         /\ \A i \in 1 .. Len(list) : Counted(list)[i + 1] = list[i]
<1>1. Len(list) \in Nat
  BY LenProperties
<1>2. <<Len(list)>> \in Seq(Int) /\ Len(<<Len(list)>>) = 1 /\ <<Len(list)>>[1] = Len(list)
  BY <1>1
<1> QED BY <1>1, <1>2, ConcatProperties DEF Counted

\* The fields of a list of uses: two for each vertex.
LEMMA UsageIs ==
  ASSUME NEW t, NEW list \in Seq(Int)
  PROVE  /\ UsageFields(t, list) \in Seq(Int)
         /\ Len(UsageFields(t, list)) = 2 * Len(list)
         /\ \A i \in 1 .. Len(list) :
              /\ UsageFields(t, list)[2 * i - 1] = Bit(list[i] \in t.same)
              /\ UsageFields(t, list)[2 * i] = Bit(list[i] \in t.diff)
<1> DEFINE u == UsageFields(t, list)
           n == Len(list)
           field(k) == IF k % 2 = 1 THEN Bit(list[(k + 1) \div 2] \in t.same)
                       ELSE Bit(list[k \div 2] \in t.diff)
<1>1. n \in Nat
  BY LenProperties
<1>2. u = [k \in 1 .. 2 * n |-> field(k)]
  BY DEF UsageFields
<1>3. \A k \in 1 .. 2 * n : field(k) \in Int
  BY DEF Bit
<1>4. u \in Seq(Int) /\ Len(u) = 2 * n
  <2> HIDE DEF u, field
  <2>1. 2 * n \in Nat
    BY <1>1
  <2> HIDE DEF n
  <2> QED BY <1>2, <1>3, <2>1
<1>5. ASSUME NEW i \in 1 .. n
      PROVE  /\ u[2 * i - 1] = Bit(list[i] \in t.same)
             /\ u[2 * i] = Bit(list[i] \in t.diff)
  <2>1. /\ 2 * i - 1 \in 1 .. 2 * n /\ 2 * i \in 1 .. 2 * n
        /\ (2 * i - 1) % 2 = 1 /\ (2 * i) % 2 # 1
        /\ ((2 * i - 1) + 1) \div 2 = i /\ (2 * i) \div 2 = i
    BY <1>1
  <2>2. u[2 * i - 1] = field(2 * i - 1) /\ u[2 * i] = field(2 * i)
    <3> HIDE DEF u, field, n
    <3> QED BY <1>2, <2>1
  <2> HIDE DEF u, n
  <2> QED BY <2>1, <2>2
<1> QED BY <1>4, <1>5

----------------------------------------------------------------------------
\* The fields of a send, vertex by vertex.
Receivers(t, list, i) == Counted(Ascending(t.sendto[list[i]]))
WithReceivers(before, t, list, i) == before \o Receivers(t, list, i)
IsSendTo(fields, t, list, n) ==
  fields = [i \in 0 .. n |->
              IF i = 0 THEN <<>> ELSE WithReceivers(fields[i - 1], t, list, i)]

\* The function that SendToFields defines exists.
LEMMA SendToExists ==
  ASSUME NEW t, NEW list, NEW n \in Nat
  PROVE  \E fields : IsSendTo(fields, t, list, n)
<1> DEFINE T == {i \in Nat : \E fields : IsSendTo(fields, t, list, i)}
<1>1. 0 \in T
  <2>1. IsSendTo([i \in 0 .. 0 |-> <<>>], t, list, 0)
    BY DEF IsSendTo
  <2> QED BY <2>1
<1>2. ASSUME NEW i \in T PROVE i + 1 \in T
  <2>1. PICK fields : IsSendTo(fields, t, list, i)
    OBVIOUS
  <2> DEFINE next == WithReceivers(fields[i], t, list, i + 1)
             longer == [j \in 0 .. i + 1 |-> IF j = i + 1 THEN next ELSE fields[j]]
  <2>2. IsSendTo(longer, t, list, i + 1)
    BY <2>1 DEF IsSendTo
  <2> QED BY <2>2
<1>3. T = Nat
  <2> HIDE DEF T
  <2>1. T \in SUBSET Nat
    BY DEF T
  <2> QED BY <1>1, <1>2, <2>1, SetInduction
<1> QED BY <1>3

\* What SendToFields yields, one vertex after the other.
LEMMA SendToIs ==
  ASSUME NEW t, NEW list, NEW n \in Nat, n = Len(list),
         \A i \in 1 .. n : Receivers(t, list, i) \in Seq(Int)
  PROVE  \E fields :
           /\ SendToFields(t, list) = fields[n]
           /\ \A i \in 0 .. n : fields[i] \in Seq(Int)
           /\ fields[0] = <<>>
           /\ \A i \in 1 .. n : fields[i] = fields[i - 1] \o Receivers(t, list, i)
<1> DEFINE the == CHOOSE fields : IsSendTo(fields, t, list, n)
<1>1. \E fields : IsSendTo(fields, t, list, n)
  BY SendToExists
<1>2. IsSendTo(the, t, list, n)
  BY <1>1
<1>3. SendToFields(t, list) = the[n]
  BY DEF SendToFields, IsSendTo, WithReceivers, Receivers
<1> HIDE DEF the
<1>4. the[0] = <<>>
  BY <1>2 DEF IsSendTo
<1>5. \A i \in 1 .. n : the[i] = the[i - 1] \o Receivers(t, list, i)
  <2>1. ASSUME NEW i \in 1 .. n PROVE the[i] = WithReceivers(the[i - 1], t, list, i)
    <3>1. i \in 0 .. n /\ i # 0
      OBVIOUS
    <3> QED BY <1>2, <3>1 DEF IsSendTo
  <2> QED BY <2>1 DEF WithReceivers
<1> DEFINE T == {i \in Nat : i <= n => the[i] \in Seq(Int)}
<1>6. 0 \in T
  BY <1>4, EmptySeq
<1>7. ASSUME NEW i \in T PROVE i + 1 \in T
  <2> SUFFICES ASSUME i + 1 <= n PROVE the[i + 1] \in Seq(Int)
    OBVIOUS
  <2>1. the[i] \in Seq(Int) /\ i + 1 \in 1 .. n /\ (i + 1) - 1 = i
    OBVIOUS
  <2>2. the[i + 1] = the[i] \o Receivers(t, list, i + 1)
    BY <1>5, <2>1
  <2>3. Receivers(t, list, i + 1) \in Seq(Int)
    BY <2>1
  <2> HIDE DEF T
  <2> QED BY <2>1, <2>2, <2>3, ConcatProperties
<1>8. T = Nat
  <2> HIDE DEF T
  <2>1. T \in SUBSET Nat
    BY DEF T
  <2> QED BY <1>6, <1>7, <2>1, SetInduction
<1>9. \A i \in 0 .. n : the[i] \in Seq(Int)
  BY <1>8
<1> QED BY <1>3, <1>4, <1>5, <1>9

\* A command that starts with one field.
LEMMA FirstField ==
  ASSUME NEW k \in Int, NEW s \in Seq(Int)
  PROVE  /\ <<k>> \o s \in Seq(Int)
         /\ Len(<<k>> \o s) = Len(s) + 1
         /\ (<<k>> \o s)[1] = k
         /\ \A i \in 1 .. Len(s) : (<<k>> \o s)[i + 1] = s[i]
<1>1. Len(s) \in Nat
  BY LenProperties
<1>2. <<k>> \in Seq(Int) /\ Len(<<k>>) = 1 /\ <<k>>[1] = k
  OBVIOUS
<1> QED BY <1>1, <1>2, ConcatProperties

\* The fields of two parts of a command, one after the other.
LEMMA JoinedFields ==
  ASSUME NEW a \in Seq(Int), NEW b \in Seq(Int)
  PROVE  /\ a \o b \in Seq(Int) /\ Len(a) \in Nat /\ Len(b) \in Nat
         /\ Len(a \o b) = Len(a) + Len(b)
         /\ \A i \in 1 .. Len(a) : (a \o b)[i] = a[i]
         /\ \A i \in 1 .. Len(b) : (a \o b)[Len(a) + i] = b[i]
<1> DEFINE c == a \o b
<1>1. Len(a) \in Nat /\ Len(b) \in Nat
  BY LenProperties
<1>2. /\ c \in Seq(Int) /\ Len(c) = Len(a) + Len(b)
      /\ \A i \in 1 .. Len(a) + Len(b) : c[i] = IF i <= Len(a) THEN a[i] ELSE b[i - Len(a)]
  BY ConcatProperties
<1> HIDE DEF c
<1>3. \A i \in 1 .. Len(a) : c[i] = a[i]
  BY <1>1, <1>2
<1>4. ASSUME NEW i \in 1 .. Len(b) PROVE c[Len(a) + i] = b[i]
  <2>1. /\ Len(a) + i \in 1 .. Len(a) + Len(b) /\ ~ (Len(a) + i <= Len(a))
        /\ (Len(a) + i) - Len(a) = i
    BY <1>1
  <2> QED BY <1>2, <2>1
<1> QED BY <1>1, <1>2, <1>3, <1>4 DEF c

\* What Ints reads of the middle part of a command.
LEMMA IntsAre ==
  ASSUME NEW cmd \in Seq(Int), NEW s \in Seq(Int), NEW first \in Nat, first > 0,
         first + Len(s) - 1 <= Len(cmd),
         \A i \in 1 .. Len(s) : cmd[first + i - 1] = s[i]
  PROVE  Ints(cmd, first, Len(s)) = s
<1> DEFINE n == Len(s)
           last == first + n - 1
           r == SubSeq(cmd, first, last)
<1>1. n \in Nat /\ Len(cmd) \in Nat /\ DOMAIN cmd = 1 .. Len(cmd)
  BY LenProperties
<1>2. last \in Int /\ \A i \in first .. last : cmd[i] \in Int
  BY <1>1, ElementOfSeq
<1>3. /\ r \in Seq(Int)
      /\ Len(r) = IF first <= last THEN last - first + 1 ELSE 0
      /\ \A i \in 1 .. last - first + 1 : r[i] = cmd[first + i - 1]
  <2> HIDE DEF last, n
  <2> QED BY <1>2, SubSeqProperties
<1>4. Len(r) = n /\ last - first + 1 = n
  <2> HIDE DEF r
  <2> QED BY <1>1, <1>3
<1>5. \A i \in 1 .. n : r[i] = s[i]
  <2> HIDE DEF r
  <2> QED BY <1>1, <1>3, <1>4
<1>6. r = s
  <2> HIDE DEF r
  <2> QED BY <1>3, <1>4, <1>5, SeqEqual
<1> QED BY <1>6 DEF Ints

\* What the fields of a task are, whatever its type.
GoodTask(t) ==
  /\ t = [node |-> t.node, type |-> t.type, level |-> t.level, blk |-> t.blk,
          list |-> t.list, same |-> t.same, diff |-> t.diff, sendto |-> t.sendto,
          items |-> t.items]
  /\ t.type \in {"read", "send", "recv", "compute", "persist"}
  /\ t.list \in SUBSET Int /\ IsFiniteSet(t.list) /\ t.blk \in Int
  /\ t.same \subseteq t.list /\ t.diff \subseteq t.list
  /\ t.type \notin {"read", "compute"} => t.same = {} /\ t.diff = {}
  /\ t.type = "read" /\ t.blk = ZeroBlock => t.same = t.list /\ t.diff = {}
  /\ t.type \notin {"read", "persist"} => t.blk = ZeroBlock
  /\ IF t.type = "send"
     THEN /\ t.sendto = [v \in t.list |-> t.sendto[v]]
          /\ \A v \in t.list : t.sendto[v] \in SUBSET Int /\ IsFiniteSet(t.sendto[v])
     ELSE t.sendto = <<>>
  /\ IF t.type = "compute"
     THEN /\ t.items = [v \in t.list |-> [srcs |-> t.items[v].srcs, coefs |-> t.items[v].coefs]]
          /\ \A v \in t.list : /\ t.items[v].srcs \in Seq(Int)
                               /\ t.items[v].coefs \in Seq(Int)
     ELSE t.items = <<>>

\* The sub-packets of a task, as its command lists them.
ListOf(t) == Ascending(t.list)

\* The list of a good task: its vertices in increasing order.
LEMMA ListOfIs ==
  ASSUME NEW t, GoodTask(t)
  PROVE  /\ ListOf(t) \in Seq(Int)
         /\ Len(ListOf(t)) \in Nat
         /\ \A i \in 1 .. Len(ListOf(t)) : ListOf(t)[i] \in t.list
         /\ \A v \in t.list : \E i \in 1 .. Len(ListOf(t)) : ListOf(t)[i] = v
         /\ ToSet(ListOf(t)) = t.list
         /\ \A i, j \in 1 .. Len(ListOf(t)) : ListOf(t)[i] = ListOf(t)[j] => i = j
         /\ DOMAIN ListOf(t) = 1 .. Len(ListOf(t))
<1>1. t.list \in SUBSET Int /\ IsFiniteSet(t.list)
  BY DEF GoodTask
<1>2. /\ ListOf(t) \in Seq(Int) /\ ToSet(ListOf(t)) = t.list
      /\ \A i \in 1 .. Len(ListOf(t)) : ListOf(t)[i] \in t.list
      /\ \A i, j \in 1 .. Len(ListOf(t)) : ListOf(t)[i] = ListOf(t)[j] => i = j
  BY <1>1, AscendingIs DEF ListOf
<1>3. Len(ListOf(t)) \in Nat /\ DOMAIN ListOf(t) = 1 .. Len(ListOf(t))
  BY <1>2, LenProperties
<1>4. \A v \in t.list : \E i \in 1 .. Len(ListOf(t)) : ListOf(t)[i] = v
  BY <1>2, <1>3 DEF ToSet
<1> QED BY <1>2, <1>3, <1>4

\* A read task is read from its command as it was written.
LEMMA ReadCommandIs ==
  ASSUME NEW t, GoodTask(t), t.type = "read"
  PROVE  /\ Command(t) \in Seq(Int)
         /\ Types[Command(t)[1] + 1] = "read"
         /\ Command(t)[2] = t.blk
         /\ Command(t)[3] = Len(ListOf(t))
         /\ 3 + Len(ListOf(t)) <= Len(Command(t))
         /\ \A i \in 1 .. Len(ListOf(t)) :
              /\ Command(t)[3 + i] = ListOf(t)[i]
              /\ t.blk # ZeroBlock =>
                   /\ Command(t)[2 + Len(ListOf(t)) + 2 * i] = Bit(ListOf(t)[i] \in t.same)
                   /\ Command(t)[2 + Len(ListOf(t)) + 2 * i + 1] = Bit(ListOf(t)[i] \in t.diff)
<1> DEFINE list == ListOf(t)
           n == Len(list)
           c == Counted(list)
           u == IF t.blk = ZeroBlock THEN <<>> ELSE UsageFields(t, list)
           a == <<t.blk>> \o c
           f == a \o u
           k == TypeNumber("read")
           cmd == <<k>> \o f
<1>1. list \in Seq(Int) /\ n \in Nat /\ t.blk \in Int
  BY ListOfIs DEF GoodTask
<1>2. k \in Int /\ Types[k + 1] = "read"
  BY TypeNumbers
<1>3. Command(t) = cmd
  BY DEF Command, TypeNumber, ListOf
<1> HIDE DEF k, list
<1>4. /\ c \in Seq(Int) /\ Len(c) = n + 1 /\ c[1] = n
      /\ \A i \in 1 .. n : c[i + 1] = list[i]
  BY <1>1, CountedIs
<1> HIDE DEF c, n
<1>5. /\ a \in Seq(Int) /\ Len(a) = n + 2 /\ a[1] = t.blk /\ a[2] = n
      /\ \A i \in 1 .. n : a[i + 2] = list[i]
  <2>1. /\ a \in Seq(Int) /\ Len(a) = Len(c) + 1 /\ a[1] = t.blk
        /\ \A i \in 1 .. Len(c) : a[i + 1] = c[i]
    BY <1>1, <1>4, FirstField
  <2> HIDE DEF a
  <2>2. a[1 + 1] = c[1]
    BY <1>1, <1>4, <2>1
  <2>3. ASSUME NEW i \in 1 .. n PROVE a[i + 2] = list[i]
    <3>1. i + 1 \in 1 .. Len(c) /\ (i + 1) + 1 = i + 2
      BY <1>1, <1>4
    <3>2. a[(i + 1) + 1] = c[i + 1]
      BY <2>1, <3>1
    <3> QED BY <1>4, <3>1, <3>2
  <2> QED BY <1>1, <1>4, <2>1, <2>2, <2>3
<1>6. /\ u \in Seq(Int)
      /\ t.blk # ZeroBlock =>
           /\ Len(u) = 2 * n
           /\ \A i \in 1 .. n : /\ u[2 * i - 1] = Bit(list[i] \in t.same)
                                /\ u[2 * i] = Bit(list[i] \in t.diff)
  <2>1. CASE t.blk = ZeroBlock
    BY <2>1, EmptySeq
  <2>2. CASE t.blk # ZeroBlock
    <3>1. u = UsageFields(t, list)
      BY <2>2
    <3> HIDE DEF u
    <3> QED BY <1>1, <2>2, <3>1, UsageIs DEF n
  <2> QED BY <2>1, <2>2
<1> HIDE DEF a, u
<1>7. Len(u) \in Nat
  BY <1>6, LenProperties
<1>8. /\ f \in Seq(Int) /\ Len(f) = n + 2 + Len(u)
      /\ \A i \in 1 .. n + 2 : f[i] = a[i]
      /\ \A i \in 1 .. Len(u) : f[n + 2 + i] = u[i]
  <2>1. /\ f \in Seq(Int) /\ Len(f) = Len(a) + Len(u)
        /\ \A i \in 1 .. Len(a) : f[i] = a[i]
        /\ \A i \in 1 .. Len(u) : f[Len(a) + i] = u[i]
    BY <1>5, <1>6, JoinedFields
  <2> HIDE DEF f
  <2> QED BY <1>5, <2>1
<1> HIDE DEF f
<1>9. /\ cmd \in Seq(Int) /\ Len(cmd) = Len(f) + 1 /\ cmd[1] = k
      /\ \A i \in 1 .. Len(f) : cmd[i + 1] = f[i]
  BY <1>2, <1>8, FirstField
<1> HIDE DEF cmd
<1>10. \A i \in 1 .. n + 2 : cmd[i + 1] = a[i]
  <2>1. \A i \in 1 .. n + 2 : i \in 1 .. Len(f)
    BY <1>1, <1>7, <1>8
  <2> QED BY <1>8, <1>9, <2>1
<1>11. cmd[1 + 1] = a[1] /\ cmd[2 + 1] = a[2]
  BY <1>1, <1>10
<1>12. ASSUME NEW i \in 1 .. n PROVE cmd[3 + i] = list[i]
  <2>1. i + 2 \in 1 .. n + 2 /\ (i + 2) + 1 = 3 + i
    BY <1>1
  <2>2. cmd[(i + 2) + 1] = a[i + 2]
    BY <1>10, <2>1
  <2> QED BY <1>5, <2>1, <2>2
<1>13. ASSUME NEW i \in 1 .. n, t.blk # ZeroBlock
       PROVE  /\ cmd[2 + n + 2 * i] = Bit(list[i] \in t.same)
              /\ cmd[2 + n + 2 * i + 1] = Bit(list[i] \in t.diff)
  <2>1. \A j \in 1 .. 2 * n : cmd[n + 3 + j] = u[j]
    <3> SUFFICES ASSUME NEW j \in 1 .. 2 * n PROVE cmd[n + 3 + j] = u[j]
      OBVIOUS
    <3>1. n + 2 + j \in 1 .. Len(f) /\ (n + 2 + j) + 1 = n + 3 + j /\ j \in 1 .. Len(u)
      BY <1>1, <1>6, <1>8, <1>13
    <3>2. cmd[(n + 2 + j) + 1] = f[n + 2 + j]
      BY <1>9, <3>1
    <3>3. f[n + 2 + j] = u[j]
      BY <1>8, <3>1
    <3> QED BY <3>1, <3>2, <3>3
  <2>2. /\ 2 * i - 1 \in 1 .. 2 * n /\ 2 * i \in 1 .. 2 * n
        /\ n + 3 + (2 * i - 1) = 2 + n + 2 * i /\ n + 3 + 2 * i = 2 + n + 2 * i + 1
    BY <1>1
  <2>3. cmd[n + 3 + (2 * i - 1)] = u[2 * i - 1] /\ cmd[n + 3 + 2 * i] = u[2 * i]
    BY <2>1, <2>2
  <2> QED BY <1>6, <1>13, <2>2, <2>3
<1>14. 3 + n <= Len(cmd) /\ cmd[2] = t.blk /\ cmd[3] = n
  BY <1>1, <1>5, <1>7, <1>8, <1>9, <1>11
<1>15. Types[cmd[1] + 1] = "read" /\ cmd \in Seq(Int)
  BY <1>2, <1>9
<1> QED BY <1>3, <1>12, <1>13, <1>14, <1>15 DEF n, list

----------------------------------------------------------------------------
(* Commands: what send tasks add *)

\* What follows the list of vertices in a command that is not a read.
RestOf(t) ==
  IF t.type = "send" THEN SendToFields(t, ListOf(t))
  ELSE IF t.type = "persist" THEN <<t.blk>> ELSE <<>>

\* The fields that all other tasks have in common.
LEMMA OtherCommandIs ==
  ASSUME NEW t, GoodTask(t), t.type # "read", RestOf(t) \in Seq(Int)
  PROVE  /\ Command(t) \in Seq(Int)
         /\ Types[Command(t)[1] + 1] = t.type
         /\ Command(t)[2] = Len(ListOf(t))
         /\ Len(Command(t)) = 2 + Len(ListOf(t)) + Len(RestOf(t))
         /\ \A i \in 1 .. Len(ListOf(t)) : Command(t)[2 + i] = ListOf(t)[i]
         /\ \A i \in 1 .. Len(RestOf(t)) :
              Command(t)[2 + Len(ListOf(t)) + i] = RestOf(t)[i]
<1> DEFINE list == ListOf(t)
           n == Len(list)
           rest == RestOf(t)
           c == Counted(list)
           f == c \o rest
           k == TypeNumber(t.type)
           cmd == <<k>> \o f
<1>1. list \in Seq(Int) /\ n \in Nat /\ Len(rest) \in Nat
  BY ListOfIs, LenProperties
<1>2. k \in Int /\ Types[k + 1] = t.type
  BY TypeNumbers DEF GoodTask
<1>3. /\ c \in Seq(Int) /\ Len(c) = n + 1 /\ c[1] = n
      /\ \A i \in 1 .. n : c[i + 1] = list[i]
  BY <1>1, CountedIs
<1>4. Command(t) = cmd
  <2>1. t.type \in {"send", "recv", "compute", "persist"}
    BY DEF GoodTask
  <2>2. CASE t.type = "send"
    BY <2>2 DEF Command, TypeNumber, ListOf, RestOf
  <2>3. CASE t.type = "persist"
    BY <2>3 DEF Command, TypeNumber, ListOf, RestOf
  <2>4. CASE t.type \in {"recv", "compute"}
    <3>1. Command(t) = <<k>> \o c
      BY <2>4 DEF Command, TypeNumber, ListOf
    <3>2. f = c
      <4>1. rest = <<>>
        BY <2>4 DEF RestOf
      <4>2. c \o <<>> = c
        <5> HIDE DEF c
        <5> QED BY <1>3, ConcatEmptySeq
      <4> QED BY <4>1, <4>2
    <3> QED BY <3>1, <3>2
  <2> QED BY <2>1, <2>2, <2>3, <2>4
<1> HIDE DEF k, c, n, list, rest
<1>5. /\ f \in Seq(Int) /\ Len(f) = Len(c) + Len(rest)
      /\ \A i \in 1 .. Len(c) : f[i] = c[i]
      /\ \A i \in 1 .. Len(rest) : f[Len(c) + i] = rest[i]
  BY <1>3, JoinedFields DEF rest
<1> HIDE DEF f
<1>6. /\ cmd \in Seq(Int) /\ Len(cmd) = Len(f) + 1 /\ cmd[1] = k
      /\ \A i \in 1 .. Len(f) : cmd[i + 1] = f[i]
  BY <1>2, <1>5, FirstField
<1> HIDE DEF cmd
<1>7. Len(cmd) = 2 + n + Len(rest)
  BY <1>1, <1>3, <1>5, <1>6
<1>8. cmd[2] = n
  <2>1. 1 \in 1 .. Len(f) /\ 1 \in 1 .. Len(c) /\ 1 + 1 = 2
    BY <1>1, <1>3, <1>5
  <2>2. cmd[1 + 1] = f[1] /\ f[1] = c[1]
    BY <1>5, <1>6, <2>1
  <2> QED BY <1>3, <2>1, <2>2
<1>9. ASSUME NEW i \in 1 .. n PROVE cmd[2 + i] = list[i]
  <2>1. i + 1 \in 1 .. Len(f) /\ i + 1 \in 1 .. Len(c) /\ (i + 1) + 1 = 2 + i
    BY <1>1, <1>3, <1>5
  <2>2. cmd[(i + 1) + 1] = f[i + 1] /\ f[i + 1] = c[i + 1]
    BY <1>5, <1>6, <2>1
  <2> QED BY <1>3, <2>1, <2>2
<1>10. ASSUME NEW i \in 1 .. Len(rest) PROVE cmd[2 + n + i] = rest[i]
  <2>1. Len(c) + i \in 1 .. Len(f) /\ (Len(c) + i) + 1 = 2 + n + i
    BY <1>1, <1>3, <1>5
  <2>2. cmd[(Len(c) + i) + 1] = f[Len(c) + i] /\ f[Len(c) + i] = rest[i]
    BY <1>5, <1>6, <2>1
  <2> QED BY <2>1, <2>2
<1>11. cmd \in Seq(Int) /\ Types[cmd[1] + 1] = t.type
  BY <1>2, <1>6
<1> QED BY <1>4, <1>7, <1>8, <1>9, <1>10, <1>11 DEF n, list, rest

\* The receivers of a vertex, as the command lists them.
LEMMA ReceiversAre ==
  ASSUME NEW t, GoodTask(t), t.type = "send", NEW i \in 1 .. Len(ListOf(t))
  PROVE  LET a == Ascending(t.sendto[ListOf(t)[i]])
             r == Receivers(t, ListOf(t), i)
         IN  /\ r \in Seq(Int) /\ a \in Seq(Int) /\ Len(a) \in Nat /\ Len(r) = Len(a) + 1
             /\ r[1] = Len(a) /\ \A j \in 1 .. Len(a) : r[j + 1] = a[j]
             /\ ToSet(a) = t.sendto[ListOf(t)[i]]
<1>1. ListOf(t)[i] \in t.list
  BY ListOfIs
<1>2. t.sendto[ListOf(t)[i]] \in SUBSET Int /\ IsFiniteSet(t.sendto[ListOf(t)[i]])
  BY <1>1 DEF GoodTask
<1> DEFINE a == Ascending(t.sendto[ListOf(t)[i]])
<1>3. a \in Seq(Int) /\ ToSet(a) = t.sendto[ListOf(t)[i]] /\ Len(a) \in Nat
  BY <1>2, AscendingIs, LenProperties
<1>4. Receivers(t, ListOf(t), i) = Counted(a)
  BY DEF Receivers
<1> HIDE DEF a
<1>5. /\ Counted(a) \in Seq(Int) /\ Len(Counted(a)) = Len(a) + 1 /\ Counted(a)[1] = Len(a)
      /\ \A j \in 1 .. Len(a) : Counted(a)[j + 1] = a[j]
  BY <1>3, CountedIs
<1> QED BY <1>3, <1>4, <1>5 DEF a

IsPrefixOf(a, b) == Len(a) <= Len(b) /\ \A j \in 1 .. Len(a) : b[j] = a[j]

\* The fields of the first vertices come first.
LEMMA FieldsGrow ==
  ASSUME NEW fields, NEW more, NEW n \in Nat,
         \A i \in 0 .. n : fields[i] \in Seq(Int),
         \A i \in 1 .. n : more[i] \in Seq(Int),
         \A i \in 1 .. n : fields[i] = fields[i - 1] \o more[i]
  PROVE  \A m \in 0 .. n : \A i \in 0 .. m : IsPrefixOf(fields[i], fields[m])
<1> DEFINE T == {m \in Nat : m <= n => \A i \in 0 .. m : IsPrefixOf(fields[i], fields[m])}
<1>1. ASSUME NEW i \in 0 .. n PROVE IsPrefixOf(fields[i], fields[i])
  <2>1. Len(fields[i]) \in Nat
    BY LenProperties
  <2> QED BY <2>1 DEF IsPrefixOf
<1>2. 0 \in T
  <2>1. IsPrefixOf(fields[0], fields[0])
    BY <1>1
  <2> QED BY <2>1
<1>3. ASSUME NEW m \in T PROVE m + 1 \in T
  <2> SUFFICES ASSUME m + 1 <= n, NEW i \in 0 .. m + 1
               PROVE  IsPrefixOf(fields[i], fields[m + 1])
    OBVIOUS
  <2>1. m + 1 \in 1 .. n /\ m \in 0 .. n /\ (m + 1) - 1 = m
    OBVIOUS
  <2>2. fields[m + 1] = fields[m] \o more[m + 1]
    BY <2>1
  <2>3. fields[m] \in Seq(Int) /\ more[m + 1] \in Seq(Int)
    BY <2>1
  <2>4. CASE i = m + 1
    <3>1. i \in 0 .. n
      BY <2>1
    <3> QED BY <1>1, <2>4, <3>1
  <2>5. CASE i \in 0 .. m
    <3>1. IsPrefixOf(fields[i], fields[m]) /\ i \in 0 .. n
      BY <2>1, <2>5
    <3>2. fields[i] \in Seq(Int)
      BY <3>1
    <3>3. Len(fields[i]) \in Nat
      BY <3>2, LenProperties
    <3> DEFINE a == fields[i]
               b == fields[m]
               c == more[m + 1]
               d == b \o c
    <3> HIDE DEF T, a, b, c
    <3>4. /\ Len(b) \in Nat /\ Len(c) \in Nat /\ Len(d) = Len(b) + Len(c)
          /\ \A j \in 1 .. Len(b) : d[j] = b[j]
      BY <2>3, JoinedFields DEF b, c
    <3> HIDE DEF d
    <3>5. IsPrefixOf(a, b) => IsPrefixOf(a, d)
      BY <3>3, <3>4 DEF IsPrefixOf, a
    <3> QED BY <2>2, <3>1, <3>5 DEF a, b, c, d
  <2>6. i = m + 1 \/ i \in 0 .. m
    BY <2>1
  <2> QED BY <2>4, <2>5, <2>6
<1>4. T = Nat
  <2> HIDE DEF T
  <2>1. T \in SUBSET Nat
    BY DEF T
  <2> QED BY <1>2, <1>3, <2>1, SetInduction
<1> QED BY <1>4

NextStart(cmd, before) == before + 1 + cmd[before]
IsStarts(start, cmd, first, n) ==
  start = [i \in 1 .. n |-> IF i = 1 THEN first ELSE NextStart(cmd, start[i - 1])]

\* The function by which the agent finds the receivers of each vertex exists.
LEMMA StartsExist ==
  ASSUME NEW cmd, NEW first, NEW n \in Nat
  PROVE  \E start : IsStarts(start, cmd, first, n)
<1> DEFINE T == {i \in Nat : \E start : IsStarts(start, cmd, first, i)}
<1>1. 0 \in T
  <2>1. IsStarts([i \in 1 .. 0 |-> first], cmd, first, 0)
    BY DEF IsStarts
  <2> QED BY <2>1
<1>2. ASSUME NEW i \in T PROVE i + 1 \in T
  <2>1. PICK start : IsStarts(start, cmd, first, i)
    OBVIOUS
  <2> DEFINE next == IF i = 0 THEN first ELSE NextStart(cmd, start[i])
             longer == [j \in 1 .. i + 1 |-> IF j = i + 1 THEN next ELSE start[j]]
  <2>2. IsStarts(longer, cmd, first, i + 1)
    BY <2>1 DEF IsStarts
  <2> QED BY <2>2
<1>3. T = Nat
  <2> HIDE DEF T
  <2>1. T \in SUBSET Nat
    BY DEF T
  <2> QED BY <1>1, <1>2, <2>1, SetInduction
<1> QED BY <1>3

\* It finds where the coordinator put them.
LEMMA StartsAre ==
  ASSUME NEW cmd, NEW n \in Nat
  PROVE  \A i \in 1 .. n :
           Starts(cmd, n)[i] = IF i = 1 THEN 3 + n ELSE NextStart(cmd, Starts(cmd, n)[i - 1])
<1> DEFINE the == CHOOSE start : IsStarts(start, cmd, 3 + n, n)
<1>1. \E start : IsStarts(start, cmd, 3 + n, n)
  BY StartsExist
<1>2. IsStarts(the, cmd, 3 + n, n)
  BY <1>1
<1>3. Starts(cmd, n) = the
  BY DEF Starts, IsStarts, NextStart
<1> HIDE DEF the
<1>4. ASSUME NEW i \in 1 .. n
      PROVE  the[i] = IF i = 1 THEN 3 + n ELSE NextStart(cmd, the[i - 1])
  BY <1>2 DEF IsStarts
<1> QED BY <1>3, <1>4

\* A send task is read from its command as it was written.
LEMMA SendCommandIs ==
  ASSUME NEW t, GoodTask(t), t.type = "send"
  PROVE  /\ RestOf(t) \in Seq(Int)
         /\ \A i \in 1 .. Len(ListOf(t)) :
              LET a == Ascending(t.sendto[ListOf(t)[i]])
                  s == Starts(Command(t), Len(ListOf(t)))[i]
              IN  /\ a \in Seq(Int) /\ ToSet(a) = t.sendto[ListOf(t)[i]] /\ Len(a) \in Nat
                  /\ s \in Nat /\ s > 0 /\ s + Len(a) <= Len(Command(t))
                  /\ Command(t)[s] = Len(a)
                  /\ \A j \in 1 .. Len(a) : Command(t)[s + j] = a[j]
<1> DEFINE list == ListOf(t)
           n == Len(list)
           cmd == Command(t)
           more == [i \in 1 .. n |-> Receivers(t, list, i)]
           a(i) == Ascending(t.sendto[list[i]])
<1>1. n \in Nat
  BY ListOfIs
<1>2. ASSUME NEW i \in 1 .. n
      PROVE  /\ more[i] \in Seq(Int) /\ a(i) \in Seq(Int) /\ Len(a(i)) \in Nat
             /\ Len(more[i]) = Len(a(i)) + 1 /\ more[i][1] = Len(a(i))
             /\ \A j \in 1 .. Len(a(i)) : more[i][j + 1] = a(i)[j]
             /\ ToSet(a(i)) = t.sendto[list[i]]
  BY ReceiversAre
<1>3. PICK fields : /\ SendToFields(t, list) = fields[n]
                    /\ \A i \in 0 .. n : fields[i] \in Seq(Int)
                    /\ fields[0] = <<>>
                    /\ \A i \in 1 .. n : fields[i] = fields[i - 1] \o Receivers(t, list, i)
  <2>1. \A i \in 1 .. n : Receivers(t, list, i) \in Seq(Int)
    BY <1>2
  <2> HIDE DEF list
  <2> QED BY <1>1, <2>1, SendToIs, ZenonT(60)
<1>4. RestOf(t) = fields[n] /\ RestOf(t) \in Seq(Int)
  BY <1>1, <1>3 DEF RestOf
<1>5. \A i \in 1 .. n : fields[i] = fields[i - 1] \o more[i]
  BY <1>3
<1>6. \A m \in 0 .. n : \A i \in 0 .. m : IsPrefixOf(fields[i], fields[m])
  <2>1. (\A i \in 1 .. n : more[i] \in Seq(Int)) /\ \A i \in 0 .. n : fields[i] \in Seq(Int)
    BY <1>2, <1>3
  <2> HIDE DEF more, n
  <2> QED BY <1>1, <1>5, <2>1, FieldsGrow
<1> HIDE DEF more
<1>7. /\ cmd \in Seq(Int) /\ Len(cmd) = 2 + n + Len(fields[n])
      /\ \A i \in 1 .. Len(fields[n]) : cmd[2 + n + i] = fields[n][i]
  BY <1>4, OtherCommandIs
<1> DEFINE len(i) == Len(fields[i])
<1>8. ASSUME NEW i \in 1 .. n
      PROVE  /\ i - 1 \in 0 .. n /\ len(i - 1) \in Nat /\ len(i) = len(i - 1) + Len(a(i)) + 1
             /\ len(i) <= len(n) /\ len(n) \in Nat
             /\ \A j \in 1 .. Len(more[i]) : cmd[2 + n + len(i - 1) + j] = more[i][j]
  <2>1. i - 1 \in 0 .. n /\ i \in 0 .. n /\ n \in 0 .. n
    BY <1>1
  <2>2. fields[i - 1] \in Seq(Int) /\ fields[i] \in Seq(Int) /\ fields[n] \in Seq(Int)
    BY <1>3, <2>1
  <2>3. len(i - 1) \in Nat /\ len(i) \in Nat /\ len(n) \in Nat
    BY <2>2, LenProperties
  <2>4. /\ Len(fields[i - 1] \o more[i]) = len(i - 1) + Len(more[i])
        /\ \A j \in 1 .. Len(more[i]) :
             (fields[i - 1] \o more[i])[len(i - 1) + j] = more[i][j]
    BY <1>2, <2>2, JoinedFields
  <2>5. /\ len(i) = len(i - 1) + Len(more[i])
        /\ \A j \in 1 .. Len(more[i]) : fields[i][len(i - 1) + j] = more[i][j]
    BY <1>5, <2>4
  <2>6. Len(fields[i]) <= Len(fields[n]) /\ \A j \in 1 .. Len(fields[i]) : fields[n][j] = fields[i][j]
    BY <1>6, <2>1 DEF IsPrefixOf
  <2>8. len(i) <= len(n)
    BY <2>6
  <2>7. ASSUME NEW j \in 1 .. Len(more[i]) PROVE cmd[2 + n + len(i - 1) + j] = more[i][j]
    <3>1. /\ len(i - 1) + j \in 1 .. len(i) /\ len(i - 1) + j \in 1 .. len(n)
          /\ 2 + n + (len(i - 1) + j) = 2 + n + len(i - 1) + j
      <4>1. Len(more[i]) \in Nat
        BY <1>2, LenProperties
      <4> HIDE DEF len, n, a
      <4> QED BY <1>1, <2>3, <2>5, <4>1, <2>8, SMTT(30)
    <3>2. cmd[2 + n + (len(i - 1) + j)] = fields[n][len(i - 1) + j]
      BY <1>7, <3>1
    <3>3. fields[n][len(i - 1) + j] = fields[i][len(i - 1) + j]
      BY <2>6, <3>1
    <3> QED BY <2>5, <3>1, <3>2, <3>3
  <2>9. len(i) = len(i - 1) + Len(a(i)) + 1
    <3>1. Len(more[i]) = Len(a(i)) + 1 /\ Len(a(i)) \in Nat
      BY <1>2
    <3> HIDE DEF len, n, a
    <3> QED BY <2>3, <2>5, <3>1
  <2> HIDE DEF len, n, a
  <2> QED BY <2>1, <2>3, <2>7, <2>8, <2>9
<1> DEFINE S == Starts(cmd, n)
           T == {i \in Nat : i \in 1 .. n => S[i] = 3 + n + len(i - 1)}
<1>9. \A i \in 1 .. n : S[i] = IF i = 1 THEN 3 + n ELSE NextStart(cmd, S[i - 1])
  BY <1>1, StartsAre
<1> HIDE DEF S
<1>10. ASSUME NEW i \in 1 .. n, S[i] = 3 + n + len(i - 1)
       PROVE  cmd[S[i]] = Len(a(i)) /\ \A j \in 1 .. Len(a(i)) : cmd[S[i] + j] = a(i)[j]
  <2>1. S[i] = 2 + n + len(i - 1) + 1 /\ 1 \in 1 .. Len(more[i])
    <3>1. len(i - 1) \in Nat /\ Len(a(i)) \in Nat /\ Len(more[i]) = Len(a(i)) + 1
      BY <1>2, <1>8
    <3> HIDE DEF len, n, a
    <3> QED BY <1>1, <1>10, <3>1
  <2>2. cmd[2 + n + len(i - 1) + 1] = more[i][1]
    BY <1>8, <2>1
  <2>3. ASSUME NEW j \in 1 .. Len(a(i)) PROVE cmd[S[i] + j] = a(i)[j]
    <3>1. j + 1 \in 1 .. Len(more[i]) /\ S[i] + j = 2 + n + len(i - 1) + (j + 1)
      <4>1. len(i - 1) \in Nat /\ Len(a(i)) \in Nat /\ Len(more[i]) = Len(a(i)) + 1
        BY <1>2, <1>8
      <4> HIDE DEF len, n, a
      <4> QED BY <1>1, <1>10, <4>1
    <3>2. cmd[2 + n + len(i - 1) + (j + 1)] = more[i][j + 1]
      BY <1>8, <3>1
    <3> QED BY <1>2, <3>1, <3>2
  <2> QED BY <1>2, <2>1, <2>2, <2>3
<1>11. 0 \in T
  OBVIOUS
<1>12. ASSUME NEW i \in T PROVE i + 1 \in T
  <2> HIDE DEF len, n, a
  <2> SUFFICES ASSUME i + 1 \in 1 .. n PROVE S[i + 1] = 3 + n + len((i + 1) - 1)
    OBVIOUS
  <2>1. (i + 1) - 1 = i
    OBVIOUS
  <2>2. CASE i = 0
    <3>1. S[1] = 3 + n
      BY <1>9, <2>2
    <3>2. len(0) = 0
      BY <1>3, EmptySeq DEF len
    <3>3. (i + 1) - 1 = 0 /\ i + 1 = 1
      BY <2>2
    <3> QED BY <1>1, <3>1, <3>2, <3>3
  <2>3. CASE i # 0
    <3>1. i \in 1 .. n /\ i + 1 # 1
      BY <1>1, <2>3
    <3>2. S[i] = 3 + n + len(i - 1)
      BY <3>1
    <3>3. cmd[S[i]] = Len(a(i))
      BY <1>10, <3>1, <3>2
    <3>4. S[i + 1] = NextStart(cmd, S[(i + 1) - 1])
      BY <1>9, <3>1
    <3>5. S[i + 1] = S[i] + 1 + Len(a(i))
      BY <2>1, <3>3, <3>4 DEF NextStart
    <3>6. len(i) = len(i - 1) + Len(a(i)) + 1 /\ len(i - 1) \in Nat /\ Len(a(i)) \in Nat
      BY <1>2, <1>8, <3>1
    <3> HIDE DEF T
    <3> QED BY <1>1, <2>1, <3>2, <3>5, <3>6
  <2> QED BY <2>2, <2>3
<1>13. T = Nat
  <2> HIDE DEF T
  <2>1. T \in SUBSET Nat
    BY DEF T
  <2> QED BY <1>11, <1>12, <2>1, SetInduction
<1>14. ASSUME NEW i \in 1 .. n
       PROVE  /\ a(i) \in Seq(Int) /\ ToSet(a(i)) = t.sendto[list[i]] /\ Len(a(i)) \in Nat
              /\ S[i] \in Nat /\ S[i] > 0 /\ S[i] + Len(a(i)) <= Len(cmd)
              /\ cmd[S[i]] = Len(a(i))
              /\ \A j \in 1 .. Len(a(i)) : cmd[S[i] + j] = a(i)[j]
  <2>1. i \in Nat
    BY <1>1
  <2>2. S[i] = 3 + n + len(i - 1)
    BY <1>13, <2>1
  <2>3. cmd[S[i]] = Len(a(i)) /\ \A j \in 1 .. Len(a(i)) : cmd[S[i] + j] = a(i)[j]
    BY <1>10, <2>2
  <2>4. S[i] \in Nat /\ S[i] > 0 /\ S[i] + Len(a(i)) <= Len(cmd)
    <3>1. /\ len(i - 1) \in Nat /\ len(i) = len(i - 1) + Len(a(i)) + 1
          /\ len(i) <= len(n) /\ len(n) \in Nat /\ Len(a(i)) \in Nat
          /\ Len(cmd) = 2 + n + len(n)
      BY <1>2, <1>7, <1>8
    <3> HIDE DEF T, len, n, a, cmd
    <3> QED BY <1>1, <2>2, <3>1
  <2> QED BY <1>2, <2>3, <2>4
<1> QED BY <1>4, <1>14 DEF S

----------------------------------------------------------------------------
(* Commands: every task is read as it was written *)

ItemOf(t, v) ==
  [dst |-> v, srcs |-> t.items[v].srcs, coefs |-> t.items[v].coefs,
   same |-> v \in t.same, diff |-> v \in t.diff]

\* A coefficient for each source: what the reader of a ComputeItem expects.
IsWhole(t, v) == Len(t.items[v].coefs) = Len(t.items[v].srcs)

\* The sources of a ComputeItem are read as they were written, and the rest if there is a
\* coefficient for each source.
LEMMA ItemCommandIs ==
  ASSUME NEW t, GoodTask(t), t.type = "compute", NEW v \in t.list
  PROVE  /\ ItemCommand(t, v) \in Seq(Int)
         /\ ResolvedItem(ItemCommand(t, v)).srcs = t.items[v].srcs
         /\ IsWhole(t, v) => ResolvedItem(ItemCommand(t, v)) = ItemOf(t, v)
<1> DEFINE srcs == t.items[v].srcs
           coefs == t.items[v].coefs
           k == Len(srcs)
           m == Len(coefs)
           c == Counted(srcs)
           a == <<v>> \o c
           b == a \o coefs
           u == <<Bit(v \in t.same), Bit(v \in t.diff)>>
           cmd == b \o u
<1>1. v \in Int /\ srcs \in Seq(Int) /\ coefs \in Seq(Int) /\ m \in Nat /\ k \in Nat
  <2>1. v \in Int /\ srcs \in Seq(Int) /\ coefs \in Seq(Int)
    BY DEF GoodTask
  <2> HIDE DEF srcs, coefs
  <2> QED BY <2>1, LenProperties
<1>2. ItemCommand(t, v) = cmd
  BY DEF ItemCommand
<1>3. /\ u \in Seq(Int) /\ Len(u) = 2 /\ (u[1] # 0 <=> v \in t.same)
      /\ (u[2] # 0 <=> v \in t.diff)
  BY DEF Bit
<1> HIDE DEF srcs, coefs, u
<1>4. /\ c \in Seq(Int) /\ Len(c) = k + 1 /\ c[1] = k
      /\ \A i \in 1 .. k : c[i + 1] = srcs[i]
  BY <1>1, CountedIs
<1> HIDE DEF c
<1>5. /\ a \in Seq(Int) /\ Len(a) = Len(c) + 1 /\ a[1] = v
      /\ \A i \in 1 .. Len(c) : a[i + 1] = c[i]
  BY <1>1, <1>4, FirstField
<1> HIDE DEF a
<1>6. /\ b \in Seq(Int) /\ Len(b) = Len(a) + Len(coefs)
      /\ \A i \in 1 .. Len(a) : b[i] = a[i]
      /\ \A i \in 1 .. Len(coefs) : b[Len(a) + i] = coefs[i]
  BY <1>1, <1>5, JoinedFields
<1> HIDE DEF b
<1>7. /\ cmd \in Seq(Int) /\ Len(cmd) = Len(b) + Len(u)
      /\ \A i \in 1 .. Len(b) : cmd[i] = b[i]
      /\ \A i \in 1 .. Len(u) : cmd[Len(b) + i] = u[i]
  BY <1>3, <1>6, JoinedFields
<1> HIDE DEF cmd, k
<1>8. Len(a) = k + 2 /\ Len(b) = k + 2 + m /\ Len(cmd) = k + 4 + m
  <2> HIDE DEF m
  <2> QED BY <1>1, <1>3, <1>4, <1>5, <1>6, <1>7 DEF m
<1>9. cmd[1] = v /\ cmd[2] = k
  <2>1. 1 \in 1 .. Len(a) /\ 2 \in 1 .. Len(a) /\ 1 \in 1 .. Len(b) /\ 2 \in 1 .. Len(b)
        /\ 1 \in 1 .. Len(c) /\ 1 + 1 = 2
    BY <1>1, <1>4, <1>8
  <2>2. a[2] = c[1]
    BY <1>5, <2>1
  <2>3. cmd[1] = a[1] /\ cmd[2] = a[2]
    BY <1>6, <1>7, <2>1
  <2> QED BY <1>4, <1>5, <2>2, <2>3
<1>10. Ints(cmd, 3, k) = srcs
  <2>1. ASSUME NEW i \in 1 .. k PROVE cmd[3 + i - 1] = srcs[i]
    <3>1. /\ i + 2 \in 1 .. Len(a) /\ i + 2 \in 1 .. Len(b) /\ i + 1 \in 1 .. Len(c)
          /\ 3 + i - 1 = i + 2 /\ (i + 1) + 1 = i + 2
      BY <1>1, <1>4, <1>8
    <3>2. cmd[i + 2] = a[i + 2]
      BY <1>6, <1>7, <3>1
    <3>3. a[(i + 1) + 1] = c[i + 1]
      BY <1>5, <3>1
    <3> QED BY <1>4, <3>1, <3>2, <3>3
  <2>2. 3 + k - 1 <= Len(cmd) /\ 3 \in Nat /\ 3 > 0
    BY <1>1, <1>8
  <2> QED BY <1>1, <1>7, <2>1, <2>2, IntsAre DEF k
<1>11. ResolvedItem(cmd) = [dst |-> cmd[1], srcs |-> Ints(cmd, 3, cmd[2]),
                            coefs |-> Ints(cmd, 3 + cmd[2], cmd[2]),
                            same |-> cmd[3 + 2 * cmd[2]] # 0, diff |-> cmd[4 + 2 * cmd[2]] # 0]
  BY DEF ResolvedItem
<1>12. ResolvedItem(cmd).srcs = srcs
  <2>1. ResolvedItem(cmd).srcs = Ints(cmd, 3, cmd[2])
    BY <1>11
  <2> QED BY <1>9, <1>10, <2>1
<1>13. ASSUME m = k
       PROVE  ResolvedItem(cmd) = [dst |-> v, srcs |-> srcs, coefs |-> coefs,
                                   same |-> v \in t.same, diff |-> v \in t.diff]
  <2>1. Ints(cmd, 3 + k, k) = coefs
    <3>1. ASSUME NEW i \in 1 .. k PROVE cmd[(3 + k) + i - 1] = coefs[i]
      <4>1. (k + 2) + i \in 1 .. Len(b) /\ (3 + k) + i - 1 = (k + 2) + i /\ i \in 1 .. Len(coefs)
        BY <1>1, <1>8, <1>13
      <4>2. cmd[(k + 2) + i] = b[(k + 2) + i]
        BY <1>7, <4>1
      <4>3. b[(k + 2) + i] = coefs[i]
        BY <1>6, <1>8, <4>1
      <4> QED BY <4>1, <4>2, <4>3
    <3>2. (3 + k) + k - 1 <= Len(cmd) /\ 3 + k \in Nat /\ 3 + k > 0
      BY <1>1, <1>8, <1>13
    <3>3. /\ (3 + k) + Len(coefs) - 1 <= Len(cmd)
          /\ \A i \in 1 .. Len(coefs) : cmd[(3 + k) + i - 1] = coefs[i]
      BY <1>1, <1>13, <3>1, <3>2
    <3>4. Ints(cmd, 3 + k, Len(coefs)) = coefs
      BY <1>1, <1>7, <3>2, <3>3, IntsAre
    <3> QED BY <1>13, <3>4
  <2>2. cmd[3 + 2 * k] = u[1] /\ cmd[4 + 2 * k] = u[2]
    <3>1. /\ 1 \in 1 .. Len(u) /\ 2 \in 1 .. Len(u)
          /\ Len(b) + 1 = 3 + 2 * k /\ Len(b) + 2 = 4 + 2 * k
      BY <1>1, <1>3, <1>8, <1>13
    <3>2. cmd[Len(b) + 1] = u[1] /\ cmd[Len(b) + 2] = u[2]
      BY <1>7, <3>1
    <3> QED BY <3>1, <3>2
  <2>3. (cmd[3 + 2 * k] # 0) = (v \in t.same) /\ (cmd[4 + 2 * k] # 0) = (v \in t.diff)
    BY <1>3, <2>2
  <2> QED BY <1>9, <1>10, <1>11, <2>1, <2>3
<1>14. IsWhole(t, v) <=> m = k
  BY DEF IsWhole, k, srcs, coefs
<1> QED BY <1>2, <1>7, <1>12, <1>13, <1>14 DEF ItemOf, srcs, coefs

\* What is read of a task: of a compute task what its items say.
ReadItem(t, v) == ResolvedItem(ItemCommand(t, v))
ReadBack(t) ==
  IF t.type # "compute" THEN t
  ELSE [node |-> t.node, type |-> t.type, level |-> t.level, blk |-> t.blk,
        list |-> t.list, same |-> {v \in t.list : ReadItem(t, v).same},
        diff |-> {v \in t.list : ReadItem(t, v).diff}, sendto |-> t.sendto,
        items |-> [v \in t.list |-> [srcs |-> ReadItem(t, v).srcs,
                                    coefs |-> ReadItem(t, v).coefs]]]

\* An agent reads every task from its command, and the items of a compute task from theirs.
LEMMA TasksAreRead ==
  ASSUME NEW t, GoodTask(t), NEW items,
         t.type = "compute" => \A v \in t.list : items[v] = ItemCommand(t, v)
  PROVE  Resolved(t.node, t.level, Command(t), items) = ReadBack(t)
<1> DEFINE cmd == Command(t)
           n == Len(ListOf(t))
           type == Types[cmd[1] + 1]
           num == IF type = "read" THEN cmd[3] ELSE cmd[2]
           list == IF type = "read" THEN Ints(cmd, 4, num) ELSE Ints(cmd, 3, num)
           item == [v \in ToSet(list) |-> ResolvedItem(items[v])]
           at(i) == 2 + num + 2 * i
           to(i) == Starts(cmd, num)[i]
           named == CASE type = "read" -> cmd[2] [] type = "persist" -> cmd[3 + num]
                      [] OTHER -> ZeroBlock
           inUse(bit, i) == IF named = ZeroBlock THEN bit = 0 ELSE cmd[at(i) + bit] = 1
           used(bit) ==
             CASE type = "read" -> {list[i] : i \in {j \in DOMAIN list : inUse(bit, j)}}
               [] type = "compute" ->
                    {v \in ToSet(list) : IF bit = 0 THEN item[v].same ELSE item[v].diff}
               [] OTHER -> {}
           sendto == IF type # "send" THEN <<>>
                     ELSE [v \in ToSet(list) |->
                             LET i == CHOOSE j \in DOMAIN list : list[j] = v
                             IN  ToSet(Ints(cmd, to(i) + 1, cmd[to(i)]))]
           its == IF type # "compute" THEN <<>>
                  ELSE [v \in ToSet(list) |-> [srcs |-> item[v].srcs, coefs |-> item[v].coefs]]
<1>1. Resolved(t.node, t.level, cmd, items) =
        [node |-> t.node, type |-> type, level |-> t.level, blk |-> named,
         list |-> ToSet(list), same |-> used(0), diff |-> used(1), sendto |-> sendto,
         items |-> its]
  BY DEF Resolved
<1>2. /\ n \in Nat /\ ListOf(t) \in Seq(Int) /\ ToSet(ListOf(t)) = t.list
      /\ DOMAIN ListOf(t) = 1 .. n
      /\ \A i \in 1 .. n : ListOf(t)[i] \in t.list
      /\ \A v \in t.list : \E i \in 1 .. n : ListOf(t)[i] = v
      /\ \A i, j \in 1 .. n : ListOf(t)[i] = ListOf(t)[j] => i = j
  BY ListOfIs
<1>3. RestOf(t) \in Seq(Int) /\ Len(RestOf(t)) \in Nat
  <2>1. CASE t.type = "send"
    BY <2>1, SendCommandIs, LenProperties
  <2>2. CASE t.type # "send"
    <3>1. t.blk \in Int
      BY DEF GoodTask
    <3> QED BY <2>2, <3>1, LenProperties, EmptySeq DEF RestOf
  <2> QED BY <2>1, <2>2
<1>4. t.type # "read" =>
        /\ cmd \in Seq(Int) /\ Types[cmd[1] + 1] = t.type /\ cmd[2] = n
        /\ Len(cmd) = 2 + n + Len(RestOf(t))
        /\ \A i \in 1 .. n : cmd[2 + i] = ListOf(t)[i]
        /\ \A i \in 1 .. Len(RestOf(t)) : cmd[2 + n + i] = RestOf(t)[i]
  BY <1>3, OtherCommandIs
<1>5. t.type = "read" =>
        /\ cmd \in Seq(Int) /\ Types[cmd[1] + 1] = "read" /\ cmd[2] = t.blk /\ cmd[3] = n
        /\ 3 + n <= Len(cmd)
        /\ \A i \in 1 .. n :
             /\ cmd[3 + i] = ListOf(t)[i]
             /\ t.blk # ZeroBlock =>
                  /\ cmd[2 + n + 2 * i] = Bit(ListOf(t)[i] \in t.same)
                  /\ cmd[2 + n + 2 * i + 1] = Bit(ListOf(t)[i] \in t.diff)
  BY ReadCommandIs
<1>6. type = t.type /\ num = n
  BY <1>4, <1>5
<1> HIDE DEF cmd, n
<1>7. list = ListOf(t)
  <2>1. CASE t.type = "read"
    <3>1. \A i \in 1 .. n : cmd[4 + i - 1] = ListOf(t)[i]
      <4> SUFFICES ASSUME NEW i \in 1 .. n PROVE cmd[4 + i - 1] = ListOf(t)[i]
        OBVIOUS
      <4>1. 4 + i - 1 = 3 + i
        BY <1>2
      <4> QED BY <1>5, <2>1, <4>1
    <3>2. 4 + n - 1 <= Len(cmd) /\ 4 \in Nat /\ 4 > 0
      BY <1>2, <1>5, <2>1, LenProperties
    <3>3. Ints(cmd, 4, n) = ListOf(t)
      BY <1>2, <1>5, <2>1, <3>1, <3>2, IntsAre, ZenonT(60) DEF n
    <3> QED BY <1>6, <2>1, <3>3
  <2>2. CASE t.type # "read"
    <3>1. \A i \in 1 .. n : cmd[3 + i - 1] = ListOf(t)[i]
      <4> SUFFICES ASSUME NEW i \in 1 .. n PROVE cmd[3 + i - 1] = ListOf(t)[i]
        OBVIOUS
      <4>1. 3 + i - 1 = 2 + i
        BY <1>2
      <4> QED BY <1>4, <2>2, <4>1
    <3>2. 3 + n - 1 <= Len(cmd) /\ 3 \in Nat /\ 3 > 0
      BY <1>2, <1>3, <1>4, <2>2
    <3>3. Ints(cmd, 3, n) = ListOf(t)
      BY <1>2, <1>4, <2>2, <3>1, <3>2, IntsAre, ZenonT(60) DEF n
    <3> QED BY <1>6, <2>2, <3>3
  <2> QED BY <2>1, <2>2
<1> HIDE DEF type, num, list
<1>8. ToSet(list) = t.list
  BY <1>2, <1>7
<1>9. named = t.blk
  <2>1. t.type \in {"read", "send", "recv", "compute", "persist"}
        /\ (t.type \notin {"read", "persist"} => t.blk = ZeroBlock)
    BY DEF GoodTask
  <2>2. CASE t.type = "read"
    BY <1>5, <1>6, <2>2
  <2>3. CASE t.type = "persist"
    <3>1. RestOf(t) = <<t.blk>>
      BY <2>3 DEF RestOf
    <3>2. 1 \in 1 .. Len(RestOf(t)) /\ RestOf(t)[1] = t.blk /\ 2 + n + 1 = 3 + n
      BY <1>2, <3>1
    <3>3. cmd[2 + n + 1] = t.blk
      BY <1>4, <2>3, <3>2
    <3> QED BY <1>6, <2>3, <3>2, <3>3
  <2>4. CASE t.type \notin {"read", "persist"}
    BY <1>6, <2>1, <2>4
  <2> QED BY <2>2, <2>3, <2>4
<1> HIDE DEF named
<1>10. t.type = "compute" => \A v \in t.list : item[v] = ReadItem(t, v)
  <2> SUFFICES ASSUME t.type = "compute", NEW v \in t.list PROVE item[v] = ReadItem(t, v)
    OBVIOUS
  <2>1. item[v] = ResolvedItem(items[v])
    BY <1>8
  <2> HIDE DEF item
  <2> QED BY <2>1 DEF ReadItem
<1> HIDE DEF item
<1> DEFINE S == IF t.type = "compute" THEN {v \in t.list : ReadItem(t, v).same} ELSE t.same
           D == IF t.type = "compute" THEN {v \in t.list : ReadItem(t, v).diff} ELSE t.diff
           I == IF t.type = "compute"
                THEN [v \in t.list |-> [srcs |-> ReadItem(t, v).srcs,
                                       coefs |-> ReadItem(t, v).coefs]]
                ELSE t.items
<1>11. used(0) = S /\ used(1) = D
  <2>1. t.same \subseteq t.list /\ t.diff \subseteq t.list
    BY DEF GoodTask
  <2>2. CASE t.type = "read"
    <3>1. /\ used(0) = {ListOf(t)[i] : i \in {j \in 1 .. n : inUse(0, j)}}
          /\ used(1) = {ListOf(t)[i] : i \in {j \in 1 .. n : inUse(1, j)}}
      BY <1>2, <1>6, <1>7, <2>2
    <3>2. ASSUME NEW j \in 1 .. n
          PROVE  (inUse(0, j) <=> ListOf(t)[j] \in t.same) /\ (inUse(1, j) <=> ListOf(t)[j] \in t.diff)
      <4>1. CASE t.blk = ZeroBlock
        <5>1. t.same = t.list /\ t.diff = {}
          BY <2>2, <4>1 DEF GoodTask
        <5> QED BY <1>2, <1>9, <4>1, <5>1
      <4>2. CASE t.blk # ZeroBlock
        <5>1. (inUse(0, j) <=> cmd[at(j) + 0] = 1) /\ (inUse(1, j) <=> cmd[at(j) + 1] = 1)
          BY <1>9, <4>2
        <5>2. at(j) = 2 + n + 2 * j /\ at(j) + 0 = 2 + n + 2 * j /\ at(j) + 1 = 2 + n + 2 * j + 1
          BY <1>2, <1>6
        <5> HIDE DEF at, inUse
        <5>3. /\ cmd[2 + n + 2 * j] = Bit(ListOf(t)[j] \in t.same)
              /\ cmd[2 + n + 2 * j + 1] = Bit(ListOf(t)[j] \in t.diff)
          BY <1>5, <2>2, <4>2
        <5> QED BY <5>1, <5>2, <5>3 DEF Bit
      <4> QED BY <4>1, <4>2
    <3> HIDE DEF used, inUse
    <3> DEFINE L == ListOf(t)
    <3>5. \A v \in t.list : \E i \in 1 .. n : L[i] = v
      BY <1>2
    <3> HIDE DEF L
    <3>6. ASSUME NEW E, E \subseteq t.list, NEW J, J \subseteq 1 .. n,
                 \A j \in 1 .. n : j \in J <=> L[j] \in E
          PROVE  {L[i] : i \in J} = E
      <4>1. ASSUME NEW v \in E PROVE \E i \in J : L[i] = v
        BY <3>5, <3>6
      <4>2. \A i \in J : L[i] \in E
        BY <3>6
      <4> QED BY <4>1, <4>2
    <3> DEFINE J0 == {j \in 1 .. n : inUse(0, j)}
               J1 == {j \in 1 .. n : inUse(1, j)}
    <3>7. /\ J0 \subseteq 1 .. n /\ \A j \in 1 .. n : j \in J0 <=> L[j] \in t.same
          /\ J1 \subseteq 1 .. n /\ \A j \in 1 .. n : j \in J1 <=> L[j] \in t.diff
      BY <3>2 DEF L
    <3>8. used(0) = {L[i] : i \in J0} /\ used(1) = {L[i] : i \in J1}
      BY <3>1 DEF L
    <3> HIDE DEF J0, J1
    <3>9. S = t.same /\ D = t.diff
      BY <2>2
    <3> HIDE DEF S, D
    <3> QED BY <2>1, <3>6, <3>7, <3>8, <3>9
  <2>3. CASE t.type = "compute"
    <3>1. /\ used(0) = {v \in t.list : item[v].same}
          /\ used(1) = {v \in t.list : item[v].diff}
      BY <1>6, <1>8, <2>3
    <3>2. \A v \in t.list : item[v] = ReadItem(t, v)
      BY <1>10, <2>3
    <3> HIDE DEF used, item
    <3>3. S = {v \in t.list : ReadItem(t, v).same} /\ D = {v \in t.list : ReadItem(t, v).diff}
      BY <2>3
    <3> HIDE DEF S, D
    <3> QED BY <3>1, <3>2, <3>3
  <2>4. CASE t.type \notin {"read", "compute"}
    <3>1. t.same = {} /\ t.diff = {}
      BY <2>4 DEF GoodTask
    <3>2. S = t.same /\ D = t.diff
      BY <2>4
    <3> QED BY <1>6, <2>4, <3>1, <3>2
  <2> QED BY <2>2, <2>3, <2>4
<1> HIDE DEF used
<1>12. sendto = t.sendto
  <2>1. CASE t.type # "send"
    BY <1>6, <2>1 DEF GoodTask
  <2>2. CASE t.type = "send"
    <3> DEFINE ix(v) == CHOOSE j \in DOMAIN list : list[j] = v
    <3>1. sendto = [v \in t.list |-> ToSet(Ints(cmd, to(ix(v)) + 1, cmd[to(ix(v))]))]
      BY <1>6, <1>8, <2>2
    <3>2. ASSUME NEW v \in t.list
          PROVE  ToSet(Ints(cmd, to(ix(v)) + 1, cmd[to(ix(v))])) = t.sendto[v]
      <4>1. ix(v) \in 1 .. n /\ ListOf(t)[ix(v)] = v
        <5>1. \E j \in 1 .. n : ListOf(t)[j] = v
          BY <1>2
        <5> QED BY <1>2, <1>7, <5>1
      <4> DEFINE i == ix(v)
                 a == Ascending(t.sendto[v])
                 s == Starts(cmd, n)[i]
      <4>2. to(i) = s
        BY <1>6
      <4>3. /\ a \in Seq(Int) /\ ToSet(a) = t.sendto[v] /\ Len(a) \in Nat
            /\ s \in Nat /\ s > 0 /\ s + Len(a) <= Len(cmd) /\ cmd[s] = Len(a)
            /\ \A j \in 1 .. Len(a) : cmd[s + j] = a[j]
        <5> HIDE DEF ix
        <5>1. i \in 1 .. Len(ListOf(t)) /\ ListOf(t)[i] = v
          BY <4>1 DEF n
        <5> HIDE DEF i
        <5> QED BY <2>2, <5>1, SendCommandIs, ZenonT(40) DEF cmd, n
      <4> HIDE DEF i, a, s, to
      <4>4. Ints(cmd, s + 1, Len(a)) = a
        <5>1. \A j \in 1 .. Len(a) : cmd[(s + 1) + j - 1] = a[j]
          <6> SUFFICES ASSUME NEW j \in 1 .. Len(a) PROVE cmd[(s + 1) + j - 1] = a[j]
            OBVIOUS
          <6>1. (s + 1) + j - 1 = s + j
            BY <4>3
          <6> QED BY <4>3, <6>1
        <5>2. s + 1 \in Nat /\ s + 1 > 0 /\ (s + 1) + Len(a) - 1 <= Len(cmd) /\ cmd \in Seq(Int)
          <6>1. cmd \in Seq(Int)
            BY <1>4, <2>2
          <6>2. Len(cmd) \in Nat
            BY <6>1, LenProperties
          <6> QED BY <4>3, <6>1, <6>2
        <5> QED BY <4>3, <5>1, <5>2, IntsAre
      <4> QED BY <4>2, <4>3, <4>4 DEF i
    <3> HIDE DEF sendto, to, ix
    <3>3. t.sendto = [v \in t.list |-> t.sendto[v]]
      BY <2>2 DEF GoodTask
    <3> QED BY <3>1, <3>2, <3>3
  <2> QED BY <2>1, <2>2
<1>13. its = I
  <2>1. CASE t.type # "compute"
    BY <1>6, <2>1 DEF GoodTask
  <2>2. CASE t.type = "compute"
    <3>1. its = [v \in t.list |-> [srcs |-> item[v].srcs, coefs |-> item[v].coefs]]
      BY <1>6, <1>8, <2>2
    <3>2. \A v \in t.list : item[v] = ReadItem(t, v)
      BY <1>10, <2>2
    <3>3. I = [v \in t.list |-> [srcs |-> ReadItem(t, v).srcs, coefs |-> ReadItem(t, v).coefs]]
      BY <2>2
    <3> HIDE DEF its, item, I
    <3> QED BY <3>1, <3>2, <3>3
  <2> QED BY <2>1, <2>2
<1> HIDE DEF sendto, its
<1>14. t = [node |-> t.node, type |-> t.type, level |-> t.level, blk |-> t.blk,
            list |-> t.list, same |-> t.same, diff |-> t.diff, sendto |-> t.sendto,
            items |-> t.items]
  BY DEF GoodTask
<1> HIDE DEF S, D, I
<1>15. Resolved(t.node, t.level, cmd, items) =
         [node |-> t.node, type |-> t.type, level |-> t.level, blk |-> t.blk,
          list |-> t.list, same |-> S, diff |-> D, sendto |-> t.sendto, items |-> I]
  BY <1>1, <1>6, <1>8, <1>9, <1>11, <1>12, <1>13
<1>16. CASE t.type # "compute"
  <2>1. S = t.same /\ D = t.diff /\ I = t.items
    BY <1>16 DEF S, D, I
  <2>2. ReadBack(t) = t
    BY <1>16 DEF ReadBack
  <2> QED BY <1>14, <1>15, <2>1, <2>2 DEF cmd
<1>17. CASE t.type = "compute"
  BY <1>15, <1>17 DEF ReadBack, S, D, I, cmd
<1> QED BY <1>16, <1>17

\* Whatever its coefficients, a task keeps its place, its vertices and their sources, and
\* everything of the vertices that have a coefficient for each source.
LEMMA ReadBackIs ==
  ASSUME NEW t, GoodTask(t)
  PROVE  /\ ReadBack(t).node = t.node /\ ReadBack(t).type = t.type
         /\ ReadBack(t).level = t.level /\ ReadBack(t).blk = t.blk
         /\ ReadBack(t).list = t.list /\ ReadBack(t).sendto = t.sendto
         /\ ReadBack(t).same \subseteq t.list /\ ReadBack(t).diff \subseteq t.list
         /\ t.type # "compute" => ReadBack(t) = t
         /\ t.type = "compute" => DOMAIN ReadBack(t).items = t.list
         /\ t.type = "compute" => \A v \in t.list : ReadBack(t).items[v].srcs = t.items[v].srcs
<1>1. CASE t.type # "compute"
  <2>1. ReadBack(t) = t
    BY <1>1 DEF ReadBack
  <2>2. t.same \subseteq t.list /\ t.diff \subseteq t.list
    BY DEF GoodTask
  <2> QED BY <1>1, <2>1, <2>2
<1>2. CASE t.type = "compute"
  <2> DEFINE S == {v \in t.list : ReadItem(t, v).same}
             D == {v \in t.list : ReadItem(t, v).diff}
             I == [v \in t.list |-> [srcs |-> ReadItem(t, v).srcs, coefs |-> ReadItem(t, v).coefs]]
  <2>1. ReadBack(t) = [node |-> t.node, type |-> t.type, level |-> t.level, blk |-> t.blk,
                       list |-> t.list, same |-> S, diff |-> D, sendto |-> t.sendto,
                       items |-> I]
    BY <1>2 DEF ReadBack
  <2>2. S \subseteq t.list /\ D \subseteq t.list /\ DOMAIN I = t.list
    OBVIOUS
  <2>3. ASSUME NEW v \in t.list PROVE I[v].srcs = t.items[v].srcs
    <3>1. I[v].srcs = ReadItem(t, v).srcs
      OBVIOUS
    <3> HIDE DEF I
    <3> QED BY <1>2, <3>1, ItemCommandIs DEF ReadItem
  <2> HIDE DEF S, D, I
  <2> QED BY <1>2, <2>1, <2>2, <2>3
<1> QED BY <1>1, <1>2

\* A vertex with a coefficient for each source keeps its uses and its item.
LEMMA WholeIsRead ==
  ASSUME NEW t, GoodTask(t), t.type = "compute", NEW v \in t.list, IsWhole(t, v)
  PROVE  /\ v \in ReadBack(t).same <=> v \in t.same
         /\ v \in ReadBack(t).diff <=> v \in t.diff
         /\ ReadBack(t).items[v] = t.items[v]
<1> DEFINE S == {w \in t.list : ReadItem(t, w).same}
           D == {w \in t.list : ReadItem(t, w).diff}
           I == [w \in t.list |-> [srcs |-> ReadItem(t, w).srcs, coefs |-> ReadItem(t, w).coefs]]
<1>1. ReadBack(t) = [node |-> t.node, type |-> t.type, level |-> t.level, blk |-> t.blk,
                     list |-> t.list, same |-> S, diff |-> D, sendto |-> t.sendto,
                     items |-> I]
  BY DEF ReadBack
<1>2. ReadItem(t, v) = ItemOf(t, v)
  BY ItemCommandIs DEF ReadItem
<1>3. /\ ItemOf(t, v).same <=> v \in t.same
      /\ ItemOf(t, v).diff <=> v \in t.diff
      /\ ItemOf(t, v).srcs = t.items[v].srcs /\ ItemOf(t, v).coefs = t.items[v].coefs
  BY DEF ItemOf
<1>4. (v \in S <=> v \in t.same) /\ (v \in D <=> v \in t.diff)
  BY <1>2, <1>3
<1>5. I[v] = [srcs |-> t.items[v].srcs, coefs |-> t.items[v].coefs]
  <2>1. I[v] = [srcs |-> ReadItem(t, v).srcs, coefs |-> ReadItem(t, v).coefs]
    OBVIOUS
  <2> HIDE DEF I
  <2> QED BY <1>2, <1>3, <2>1
<1>6. t.items[v] = [srcs |-> t.items[v].srcs, coefs |-> t.items[v].coefs]
  <2>1. t.items = [w \in t.list |-> [srcs |-> t.items[w].srcs, coefs |-> t.items[w].coefs]]
    BY DEF GoodTask
  <2> QED BY <2>1
<1> HIDE DEF S, D, I
<1> QED BY <1>1, <1>4, <1>5, <1>6

\* So a task whose vertices all have is read as it was written.
LEMMA WholeTaskIsRead ==
  ASSUME NEW t, GoodTask(t), t.type = "compute" => \A v \in t.list : IsWhole(t, v)
  PROVE  ReadBack(t) = t
<1>1. CASE t.type # "compute"
  BY <1>1 DEF ReadBack
<1>2. CASE t.type = "compute"
  <2> DEFINE S == {w \in t.list : ReadItem(t, w).same}
             D == {w \in t.list : ReadItem(t, w).diff}
             I == [w \in t.list |-> [srcs |-> ReadItem(t, w).srcs,
                                    coefs |-> ReadItem(t, w).coefs]]
  <2>1. ReadBack(t) = [node |-> t.node, type |-> t.type, level |-> t.level, blk |-> t.blk,
                       list |-> t.list, same |-> S, diff |-> D, sendto |-> t.sendto,
                       items |-> I]
    BY <1>2 DEF ReadBack
  <2>2. S \subseteq t.list /\ D \subseteq t.list /\ DOMAIN I = t.list
        /\ I = [v \in t.list |-> I[v]]
    OBVIOUS
  <2> HIDE DEF S, D, I
  <2>3. \A v \in t.list : /\ v \in S <=> v \in t.same
                          /\ v \in D <=> v \in t.diff
                          /\ I[v] = t.items[v]
    <3> SUFFICES ASSUME NEW v \in t.list
                 PROVE  (v \in S <=> v \in t.same) /\ (v \in D <=> v \in t.diff)
                          /\ I[v] = t.items[v]
      OBVIOUS
    <3>1. /\ v \in ReadBack(t).same <=> v \in t.same
          /\ v \in ReadBack(t).diff <=> v \in t.diff
          /\ ReadBack(t).items[v] = t.items[v]
      BY <1>2, WholeIsRead
    <3> QED BY <2>1, <3>1
  <2>4. t.same \subseteq t.list /\ t.diff \subseteq t.list
    BY DEF GoodTask
  <2>5. S = t.same /\ D = t.diff
    BY <2>2, <2>3, <2>4
  <2>6. t.items = [v \in t.list |-> t.items[v]]
    <3>1. t.items = [v \in t.list |-> [srcs |-> t.items[v].srcs, coefs |-> t.items[v].coefs]]
      BY <1>2 DEF GoodTask
    <3> QED BY <3>1
  <2>7. I = t.items
    BY <2>2, <2>3, <2>6
  <2>8. t = [node |-> t.node, type |-> t.type, level |-> t.level, blk |-> t.blk,
             list |-> t.list, same |-> t.same, diff |-> t.diff, sendto |-> t.sendto,
             items |-> t.items]
    BY DEF GoodTask
  <2> QED BY <2>1, <2>5, <2>7, <2>8
<1> QED BY <1>1, <1>2

----------------------------------------------------------------------------
(* Commands: buffers *)

NewBuffer(max) == [len |-> 0, max |-> max, ok |-> TRUE]
IsBuffer(buffer, sizes, max, n) ==
  buffer = [i \in 0 .. n |->
              IF i = 0 THEN NewBuffer(max) ELSE Written(buffer[i - 1], sizes[i])]

\* The function that Fits defines exists.
LEMMA BufferExists ==
  ASSUME NEW sizes, NEW max, NEW n \in Nat
  PROVE  \E buffer : IsBuffer(buffer, sizes, max, n)
<1> DEFINE T == {i \in Nat : \E buffer : IsBuffer(buffer, sizes, max, i)}
<1>1. 0 \in T
  <2>1. IsBuffer([i \in 0 .. 0 |-> NewBuffer(max)], sizes, max, 0)
    BY DEF IsBuffer
  <2> QED BY <2>1
<1>2. ASSUME NEW i \in T PROVE i + 1 \in T
  <2>1. PICK buffer : IsBuffer(buffer, sizes, max, i)
    OBVIOUS
  <2> DEFINE next == Written(buffer[i], sizes[i + 1])
             longer == [j \in 0 .. i + 1 |-> IF j = i + 1 THEN next ELSE buffer[j]]
  <2>2. IsBuffer(longer, sizes, max, i + 1)
    BY <2>1 DEF IsBuffer
  <2> QED BY <2>2
<1>3. T = Nat
  <2> HIDE DEF T
  <2>1. T \in SUBSET Nat
    BY DEF T
  <2> QED BY <1>1, <1>2, <2>1, SetInduction
<1> QED BY <1>3

\* A field that is no longer than a new buffer always fits.
LEMMA SmallFieldsFit ==
  ASSUME NEW sizes, NEW max \in Nat, NEW n \in Nat, n = Len(sizes),
         \A i \in 1 .. n : sizes[i] \in Nat /\ sizes[i] <= max
  PROVE  Fits(sizes, max)
<1> DEFINE b == CHOOSE buffer : IsBuffer(buffer, sizes, max, n)
<1>1. \E buffer : IsBuffer(buffer, sizes, max, n)
  BY BufferExists
<1>2. IsBuffer(b, sizes, max, n)
  BY <1>1
<1>3. Fits(sizes, max) <=> b[n].ok
  BY DEF Fits, IsBuffer, NewBuffer
<1> HIDE DEF b
<1> DEFINE Good(i) == /\ b[i].len \in Nat /\ b[i].max \in Nat /\ b[i].ok
                      /\ b[i].len <= b[i].max /\ max <= b[i].max
           T == {i \in Nat : i <= n => Good(i)}
<1>4. 0 \in T
  <2>1. b[0] = [len |-> 0, max |-> max, ok |-> TRUE]
    BY <1>2 DEF IsBuffer, NewBuffer
  <2> QED BY <2>1
<1>5. ASSUME NEW i \in T PROVE i + 1 \in T
  <2> SUFFICES ASSUME i + 1 <= n PROVE Good(i + 1)
    OBVIOUS
  <2>1. Good(i) /\ i + 1 \in 1 .. n /\ (i + 1) - 1 = i
    OBVIOUS
  <2>2. b[i + 1] = Written(b[i], sizes[i + 1])
    <3>1. i + 1 \in 0 .. n /\ i + 1 # 0
      BY <2>1
    <3>2. b[i + 1] = Written(b[(i + 1) - 1], sizes[i + 1])
      BY <1>2, <3>1 DEF IsBuffer
    <3> QED BY <2>1, <3>2
  <2> DEFINE size == sizes[i + 1]
             len == b[i].len + size
             larger == IF len > b[i].max THEN 2 * b[i].max ELSE b[i].max
             fine == b[i].ok /\ len <= larger
  <2>3. b[i + 1] = [len |-> len, max |-> larger, ok |-> fine]
    BY <2>2 DEF Written
  <2>4. size \in Nat /\ size <= max
    BY <2>1
  <2>5. len \in Nat /\ larger \in Nat /\ len <= larger /\ max <= larger
    <3>1. /\ b[i].len \in Nat /\ b[i].max \in Nat
          /\ b[i].len <= b[i].max /\ max <= b[i].max
      BY <2>1
    <3> HIDE DEF size, T, Good
    <3> QED BY <2>4, <3>1
  <2> HIDE DEF len, larger
  <2>6. fine
    BY <2>1, <2>5
  <2> HIDE DEF fine
  <2>7. b[i + 1].len = len /\ b[i + 1].max = larger /\ b[i + 1].ok = fine
    BY <2>3
  <2> QED BY <2>5, <2>6, <2>7
<1>6. T = Nat
  <2> HIDE DEF T
  <2>1. T \in SUBSET Nat
    BY DEF T
  <2> QED BY <1>4, <1>5, <2>1, SetInduction
<1>7. Good(n)
  <2>1. n \in T
    BY <1>6
  <2> QED BY <2>1
<1> QED BY <1>3, <1>7

\* The command of a good task is a sequence of integers.
LEMMA CommandIsSeq ==
  ASSUME NEW t, GoodTask(t)
  PROVE  Command(t) \in Seq(Int)
<1>1. CASE t.type = "read"
  BY <1>1, ReadCommandIs
<1>2. CASE t.type # "read"
  <2>1. RestOf(t) \in Seq(Int)
    <3>1. CASE t.type = "send"
      BY <3>1, SendCommandIs
    <3>2. CASE t.type # "send"
      <4>1. t.blk \in Int
        BY DEF GoodTask
      <4> QED BY <3>2, <4>1, EmptySeq DEF RestOf
    <3> QED BY <3>1, <3>2
  <2> QED BY <1>2, <2>1, OtherCommandIs
<1> QED BY <1>1, <1>2

\* A command of integers fits into its buffer.
LEMMA WordsFit ==
  ASSUME NEW cmd \in Seq(Int), NEW max \in Nat, 4 <= max
  PROVE  Fits(Words(cmd), max)
<1> DEFINE n == Len(cmd)
<1>1. n \in Nat /\ DOMAIN cmd = 1 .. n
  BY LenProperties
<1>2. Words(cmd) = [i \in 1 .. n |-> 4]
  BY <1>1 DEF Words
<1> HIDE DEF n
<1>3. Words(cmd) \in [1 .. n -> Nat] /\ \A i \in 1 .. n : Words(cmd)[i] = 4
  BY <1>2
<1>4. Len(Words(cmd)) = n
  BY <1>1, <1>2
<1> QED BY <1>1, <1>3, <1>4, SmallFieldsFit

\* The commands of a task fit into their buffers.
LEMMA TasksFit ==
  ASSUME NEW t, GoodTask(t)
  PROVE  /\ Fits(Sizes(t), TaskLen)
         /\ t.type = "compute" => \A v \in t.list : Fits(Words(ItemCommand(t, v)), ComputeLen)
<1>1. /\ TaskLen \in Nat /\ ComputeLen \in Nat /\ NameLen \in Nat
      /\ 4 <= ComputeLen /\ 4 + NameLen <= TaskLen
  BY LengthsAssumption
<1>2. Fits(Sizes(t), TaskLen)
  <2> DEFINE cmd == Command(t)
             n == Len(cmd)
             name == CASE t.type = "read" -> 2 [] t.type = "persist" -> Len(cmd)
                       [] OTHER -> 0
  <2>1. n \in Nat /\ DOMAIN cmd = 1 .. n
    BY CommandIsSeq, LenProperties
  <2>2. Sizes(t) = [i \in 1 .. n |-> IF i = name THEN 4 + NameLen ELSE 4]
    BY <2>1 DEF Sizes
  <2> HIDE DEF n, name
  <2>3. \A i \in 1 .. n : Sizes(t)[i] = 4 + NameLen \/ Sizes(t)[i] = 4
    BY <2>2
  <2>4. Len(Sizes(t)) = n
    BY <2>1, <2>2
  <2>5. \A i \in 1 .. n : Sizes(t)[i] \in Nat /\ Sizes(t)[i] <= TaskLen
    BY <1>1, <2>3
  <2> QED BY <1>1, <2>1, <2>4, <2>5, SmallFieldsFit
<1>3. ASSUME t.type = "compute", NEW v \in t.list
      PROVE  Fits(Words(ItemCommand(t, v)), ComputeLen)
  BY <1>1, <1>3, ItemCommandIs, WordsFit
<1> QED BY <1>2, <1>3

NodesOf(s) == DagOf[s].nodes

----------------------------------------------------------------------------
(* Levels *)

\* genLeveledTopologicalSorting, round by round.
IsRemaining(left, dag, n) ==
  left = [l \in 0 .. n |->
            IF l = 0 THEN dag.nodes
            ELSE Left(dag, left[l - 1])]

\* The function that Remaining defines exists.
LEMMA RemainingExists ==
  ASSUME NEW dag, NEW n \in Nat
  PROVE  \E left : IsRemaining(left, dag, n)
<1> DEFINE T == {i \in Nat : \E left : IsRemaining(left, dag, i)}
<1>1. 0 \in T
  <2>1. IsRemaining([l \in 0 .. 0 |-> dag.nodes], dag, 0)
    BY DEF IsRemaining
  <2> QED BY <2>1
<1>2. ASSUME NEW i \in T PROVE i + 1 \in T
  <2>1. PICK left : IsRemaining(left, dag, i)
    OBVIOUS
  <2> DEFINE next == Left(dag, left[i])
             longer == [l \in 0 .. i + 1 |-> IF l = i + 1 THEN next ELSE left[l]]
  <2>2. IsRemaining(longer, dag, i + 1)
    BY <2>1 DEF IsRemaining
  <2> QED BY <2>2
<1>3. T = Nat
  <2> HIDE DEF T
  <2>1. T \in SUBSET Nat
    BY DEF T
  <2> QED BY <1>1, <1>2, <2>1, SetInduction
<1> QED BY <1>3

\* The rounds, one after the other.
LEMMA RemainingIs ==
  ASSUME NEW dag, NEW n \in Nat, n = Cardinality(dag.nodes)
  PROVE  /\ Remaining(dag)[0] = dag.nodes
         /\ \A l \in 1 .. n :
              Remaining(dag)[l] = Left(dag, Remaining(dag)[l - 1])
<1>1. \E left : IsRemaining(left, dag, n)
  BY RemainingExists
<1>2. IsRemaining(Remaining(dag), dag, n)
  BY <1>1 DEF IsRemaining, Remaining
<1> QED BY <1>2 DEF IsRemaining

\* A vertex is left in round l only if it was left in all rounds before.
LEMMA RemainingShrinks ==
  ASSUME NEW dag, NEW n \in Nat, n = Cardinality(dag.nodes)
  PROVE  \A l, m \in 0 .. n : l <= m => Remaining(dag)[m] \subseteq Remaining(dag)[l]
<1> DEFINE R == Remaining(dag)
           T == {m \in Nat : m <= n => \A l \in 0 .. m : R[m] \subseteq R[l]}
<1>1. 0 \in T
  OBVIOUS
<1>2. ASSUME NEW m \in T PROVE m + 1 \in T
  <2> SUFFICES ASSUME m + 1 <= n, NEW l \in 0 .. m + 1 PROVE R[m + 1] \subseteq R[l]
    OBVIOUS
  <2>1. R[m + 1] \subseteq R[m]
    <3>1. m + 1 \in 1 .. n /\ (m + 1) - 1 = m
      OBVIOUS
    <3> HIDE DEF T
    <3> QED BY <3>1, RemainingIs DEF Left
  <2>2. CASE l = m + 1
    BY <2>2
  <2>3. CASE l \in 0 .. m
    BY <2>1, <2>3
  <2> QED BY <2>2, <2>3
<1>3. T = Nat
  <2> HIDE DEF T
  <2>1. T \in SUBSET Nat
    BY DEF T
  <2> QED BY <1>1, <1>2, <2>1, SetInduction
<1>4. ASSUME NEW l \in 0 .. n, NEW m \in 0 .. n, l <= m PROVE R[m] \subseteq R[l]
  <2>1. m \in T /\ m <= n /\ l \in 0 .. m
    BY <1>3, <1>4
  <2> HIDE DEF R
  <2> QED BY <2>1
<1> QED BY <1>4

\* Every vertex is of one level, and its children of lower ones.
LEMMA LevelsAre ==
  ASSUME NEW s \in Stripes
  PROVE  /\ LastOf[s] \in Nat /\ LastOf[s] > 0
         /\ \A l \in 0 .. LastOf[s] : LevelsOf[s][l] \subseteq NodesOf(s)
         /\ \A v \in NodesOf(s) : \E l \in 0 .. LastOf[s] : v \in LevelsOf[s][l]
         /\ \A l, m \in 0 .. LastOf[s] : \A v \in LevelsOf[s][l] : v \in LevelsOf[s][m] => l = m
         /\ \A l \in 0 .. LastOf[s] : \A v \in LevelsOf[s][l] :
              \A c \in ChildsOf(DagOf[s], v) : \E k \in 0 .. l - 1 : c \in LevelsOf[s][k]
<1> DEFINE dag == DagOf[s]
           n == Cardinality(dag.nodes)
           R == Remaining(dag)
           L == NumLevels(dag)
<1>1. /\ IsFiniteSet(dag.nodes) /\ R[n] = {} /\ LastOf[s] > 0
      /\ dag.childs \in [dag.nodes -> Seq(dag.nodes)]
  BY DagsAssumption
<1>2. n \in Nat
  BY <1>1, FS_CardinalityType
<1>3. /\ R[0] = dag.nodes
      /\ \A l \in 1 .. n : R[l] = Left(dag, R[l - 1])
      /\ \A l, m \in 0 .. n : l <= m => R[m] \subseteq R[l]
  BY <1>2, RemainingIs, RemainingShrinks
<1> HIDE DEF R
<1>4. L \in 0 .. n /\ R[L] = {} /\ \A m \in 0 .. L - 1 : R[m] # {}
  <2> DEFINE D == {l \in 0 .. n : R[l] = {}}
  <2>1. D \subseteq Nat /\ D # {}
    BY <1>1, <1>2
  <2>2. PICK l \in D : \A m \in D : l <= m
    <3> HIDE DEF D
    <3> QED BY <2>1, LeastElement
  <2>3. l \in 0 .. n /\ R[l] = {} /\ \A m \in 0 .. l - 1 : R[m] # {}
    BY <1>2, <2>2
  <2> QED BY <2>3 DEF NumLevels, R
<1> HIDE DEF L
<1>5. LastOf[s] = L - 1
  BY DEF LastOf, L
<1>6. LevelsOf[s] = [l \in 0 .. L - 1 |-> R[l] \ R[l + 1]]
  BY DEF LevelsOf, Levels, L, R
<1>7. LastOf[s] \in Nat /\ L = LastOf[s] + 1
  BY <1>1, <1>2, <1>4, <1>5
<1>8. \A l \in 0 .. LastOf[s] : /\ LevelsOf[s][l] = R[l] \ R[l + 1]
                                /\ l \in 0 .. n /\ l + 1 \in 0 .. n /\ l + 1 \in 1 .. n
  BY <1>2, <1>4, <1>6, <1>7
<1>9. ASSUME NEW k \in 0 .. n, NEW v \in dag.nodes, v \notin R[k], k <= L
      PROVE  \E l \in 0 .. k - 1 : v \in LevelsOf[s][l]
  <2> DEFINE D == {l \in 0 .. k : v \notin R[l]}
  <2>1. D \subseteq Nat /\ D # {}
    BY <1>9
  <2>2. PICK l \in D : \A m \in D : l <= m
    <3> HIDE DEF D
    <3> QED BY <2>1, LeastElement
  <2>3. l # 0
    BY <1>3, <2>2
  <2>4. l - 1 \in 0 .. k - 1 /\ (l - 1) + 1 = l /\ l - 1 \notin D
    BY <2>2, <2>3
  <2>5. v \in R[l - 1] /\ v \notin R[l]
    BY <2>2, <2>4
  <2>6. l - 1 \in 0 .. LastOf[s]
    BY <1>2, <1>7, <1>9, <2>4
  <2> QED BY <1>8, <2>4, <2>5, <2>6
<1>10. \A l \in 0 .. LastOf[s] : LevelsOf[s][l] \subseteq NodesOf(s)
  <2> SUFFICES ASSUME NEW l \in 0 .. LastOf[s] PROVE LevelsOf[s][l] \subseteq NodesOf(s)
    OBVIOUS
  <2>1. R[l] \subseteq R[0]
    BY <1>2, <1>3, <1>8
  <2> QED BY <1>3, <1>8, <2>1 DEF NodesOf
<1>11. \A v \in NodesOf(s) : \E l \in 0 .. LastOf[s] : v \in LevelsOf[s][l]
  <2>1. L \in 0 .. n /\ L <= L
    BY <1>4
  <2> QED BY <1>4, <1>5, <1>9, <2>1 DEF NodesOf
<1>12. ASSUME NEW l \in 0 .. LastOf[s], NEW m \in 0 .. LastOf[s], NEW v,
              v \in LevelsOf[s][l], v \in LevelsOf[s][m], l < m
       PROVE  FALSE
  <2>1. l + 1 <= m
    BY <1>12
  <2>2. R[m] \subseteq R[l + 1]
    BY <1>3, <1>8, <2>1
  <2> QED BY <1>8, <1>12, <2>2
<1>13. \A l, m \in 0 .. LastOf[s] : \A v \in LevelsOf[s][l] : v \in LevelsOf[s][m] => l = m
  <2> SUFFICES ASSUME NEW l \in 0 .. LastOf[s], NEW m \in 0 .. LastOf[s],
                      NEW v \in LevelsOf[s][l], v \in LevelsOf[s][m], l # m
               PROVE  FALSE
    OBVIOUS
  <2>1. l < m \/ m < l
    BY <1>7
  <2> QED BY <1>12, <2>1
<1>14. ASSUME NEW l \in 0 .. LastOf[s], NEW v \in LevelsOf[s][l], NEW c \in ChildsOf(dag, v)
       PROVE  \E k \in 0 .. l - 1 : c \in LevelsOf[s][k]
  <2>1. v \in R[l] /\ v \notin R[l + 1]
    BY <1>8
  <2>2. R[l + 1] = {w \in R[l] : \E d \in ChildsOf(dag, w) : d \in R[l]}
    <3>1. l + 1 \in 1 .. n /\ (l + 1) - 1 = l
      BY <1>8
    <3> QED BY <1>3, <3>1 DEF Left
  <2>3. c \notin R[l]
    BY <2>1, <2>2
  <2>4. v \in dag.nodes
    BY <1>10 DEF NodesOf
  <2>5. c \in dag.nodes
    <3>1. dag.childs[v] \in Seq(dag.nodes)
      BY <1>1, <2>4
    <3> QED BY <3>1 DEF ChildsOf, ToSet
  <2>6. l <= L /\ l \in 0 .. n
    BY <1>7, <1>8
  <2> QED BY <1>9, <2>3, <2>5, <2>6
<1> QED BY <1>1, <1>7, <1>10, <1>11, <1>13, <1>14

----------------------------------------------------------------------------
(* The tasks of a stripe *)

RealOf(l) == {v \in VerticesOf(l) : ~ IsZero(stripe, coloring, v)}

\* The vertices of a level that a node computes, sends, receives, and those
\* without data that it reads; and the sub-packets that are read from a block.
Computed(l, n) == {v \in RealOf(l) : coloring[v] = n}
SentBy(l, n) == {v \in RealOf(l) : coloring[v] = n /\ Diff(v)}
Incoming(l, n) == {v \in RealOf(l) : n \in SendTo(v)}
Zeros(l, n) == {v \in VerticesOf(l) \ RealOf(l) : n \in ParentColors(v)}
Block(b) == {v \in RealOf(0) : v \div EcwOf[stripe] = b}

SameOf(vs) == {v \in vs : Same(v)}
DiffOf(vs) == {v \in vs : Diff(v)}
SendToOf(vs) == [v \in vs |-> SendTo(v)]

ReadTask(n, b) ==
  [node |-> n, type |-> "read", level |-> 0, blk |-> b, list |-> Block(b),
   same |-> SameOf(Block(b)), diff |-> DiffOf(Block(b)), sendto |-> <<>>, items |-> <<>>]
ZeroTask(l, n) ==
  [node |-> n, type |-> "read", level |-> l, blk |-> ZeroBlock, list |-> Zeros(l, n),
   same |-> Zeros(l, n), diff |-> {}, sendto |-> <<>>, items |-> <<>>]
ComputeTask(l, n) ==
  [node |-> n, type |-> "compute", level |-> l, blk |-> ZeroBlock, list |-> Computed(l, n),
   same |-> SameOf(Computed(l, n)), diff |-> DiffOf(Computed(l, n)), sendto |-> <<>>,
   items |-> ItemsOf(Computed(l, n))]
SendTask(l, n) ==
  [node |-> n, type |-> "send", level |-> l, blk |-> ZeroBlock, list |-> SentBy(l, n),
   same |-> {}, diff |-> {}, sendto |-> SendToOf(SentBy(l, n)), items |-> <<>>]
RecvTask(l, n) ==
  [node |-> n, type |-> "recv", level |-> l, blk |-> ZeroBlock, list |-> Incoming(l, n),
   same |-> {}, diff |-> {}, sendto |-> <<>>, items |-> <<>>]
PersistTask(v) ==
  [node |-> coloring[v], type |-> "persist", level |-> LastLevel, blk |-> Requestor - v,
   list |-> ChildsOf(Dag, v), same |-> {}, diff |-> {}, sendto |-> <<>>, items |-> <<>>]

Colored == stripe \in Stripes /\ IsColoring(stripe, coloring)

\* The repair DAG of the chosen stripe, its levels and its colors.
LEMMA StripeFacts ==
  ASSUME Colored
  PROVE  /\ Dag.nodes \subseteq Nat /\ IsFiniteSet(Dag.nodes)
         /\ EcwOf[stripe] \in Nat /\ EcwOf[stripe] > 0 /\ EcnOf[stripe] \in Nat
         /\ coloring \in [Dag.nodes -> Int]
         /\ LastLevel \in Nat /\ LastLevel > 0
         /\ \A l \in 0 .. LastLevel : VerticesOf(l) \subseteq Dag.nodes
         /\ \A v \in Dag.nodes : \E l \in 0 .. LastLevel : v \in VerticesOf(l)
         /\ \A l, m \in 0 .. LastLevel : \A v \in VerticesOf(l) : v \in VerticesOf(m) => l = m
         /\ \A l \in 0 .. LastLevel : \A v \in VerticesOf(l) :
              \A c \in ChildsOf(Dag, v) : \E k \in 0 .. l - 1 : c \in VerticesOf(k)
         /\ \A v \in Dag.nodes : ChildsOf(Dag, v) \subseteq Dag.nodes
         /\ \A v \in Dag.nodes : ParentsOf(Dag, v) \subseteq Dag.nodes
         /\ \A v \in Dag.nodes : ParentColors(v) \subseteq Int
<1>1. stripe \in Stripes /\ IsColoring(stripe, coloring)
  BY DEF Colored
<1>2. /\ IsFiniteSet(Dag.nodes) /\ Dag.nodes \subseteq Nat
      /\ Dag.childs \in [Dag.nodes -> Seq(Dag.nodes)]
      /\ EcnOf[stripe] \in Nat /\ EcwOf[stripe] \in Nat \ {0}
  BY <1>1, DagsAssumption DEF Dag
<1>3. coloring \in [Dag.nodes -> Int]
  BY <1>1 DEF IsColoring, Dag
<1>4. \A v \in Dag.nodes : ChildsOf(Dag, v) \subseteq Dag.nodes
  <2> SUFFICES ASSUME NEW v \in Dag.nodes PROVE ChildsOf(Dag, v) \subseteq Dag.nodes
    OBVIOUS
  <2>1. Dag.childs[v] \in Seq(Dag.nodes)
    BY <1>2
  <2> QED BY <2>1 DEF ChildsOf, ToSet
<1>5. \A v \in Dag.nodes : ParentsOf(Dag, v) \subseteq Dag.nodes
  BY DEF ParentsOf
<1>6. \A v \in Dag.nodes : ParentColors(v) \subseteq Int
  BY <1>3, <1>5 DEF ParentColors
<1>7. EcwOf[stripe] \in Nat /\ EcwOf[stripe] > 0
  BY <1>2
<1>8. /\ LastLevel \in Nat /\ LastLevel > 0
      /\ \A l \in 0 .. LastLevel : VerticesOf(l) \subseteq Dag.nodes
      /\ \A v \in Dag.nodes : \E l \in 0 .. LastLevel : v \in VerticesOf(l)
      /\ \A l, m \in 0 .. LastLevel : \A v \in VerticesOf(l) : v \in VerticesOf(m) => l = m
      /\ \A l \in 0 .. LastLevel : \A v \in VerticesOf(l) :
           \A c \in ChildsOf(Dag, v) : \E k \in 0 .. l - 1 : c \in VerticesOf(k)
  BY <1>1, LevelsAre DEF LastLevel, VerticesOf, Dag, NodesOf
<1> QED BY <1>2, <1>3, <1>4, <1>5, <1>6, <1>7, <1>8

\* Who computes from data has a color.
LEMMA RealParents ==
  ASSUME Colored, NEW l \in 0 .. LastLevel, NEW v \in RealOf(l)
  PROVE  /\ v \in Dag.nodes /\ v \in VerticesOf(l)
         /\ coloring[v] \in Int /\ coloring[v] # NoColor
         /\ ParentColors(v) \subseteq Int /\ NoColor \notin ParentColors(v)
         /\ SendTo(v) \subseteq ParentColors(v)
<1>1. v \in VerticesOf(l) /\ ~ IsZero(stripe, coloring, v)
  BY DEF RealOf
<1>2. v \in Dag.nodes /\ ParentColors(v) \subseteq Int /\ coloring[v] \in Int
  BY <1>1, StripeFacts
<1>3. coloring[v] # NoColor
  <2>1. CASE v \in LevelsOf[stripe][0]
    BY <1>1, <2>1 DEF Colored, IsColoring
  <2>2. CASE v \notin LevelsOf[stripe][0]
    BY <1>1, <2>2 DEF IsZero
  <2> QED BY <2>1, <2>2
<1>4. NoColor \notin ParentColors(v)
  <2> SUFFICES ASSUME NEW p \in ParentsOf(Dag, v), coloring[p] = NoColor PROVE FALSE
    BY DEF ParentColors
  <2>1. p \in Dag.nodes /\ v \in ChildsOf(Dag, p)
    BY DEF ParentsOf
  <2> QED BY <1>1, <2>1 DEF Colored, IsColoring, Dag
<1> QED BY <1>1, <1>2, <1>3, <1>4 DEF SendTo

\* genLevel0 takes the vertices of existing blocks, the other levels the colored ones.
LEMMA RealIs ==
  ASSUME Colored, NEW l \in 0 .. LastLevel
  PROVE  RealOf(l) = IF l = 0 THEN {v \in VerticesOf(0) : v \div EcwOf[stripe] < EcnOf[stripe]}
                     ELSE {v \in VerticesOf(l) : coloring[v] # NoColor}
<1>1. CASE l = 0
  <2>1. \A v \in VerticesOf(0) : v \div EcwOf[stripe] \in Int
    BY StripeFacts
  <2>2. \A v \in VerticesOf(0) : ~ IsZero(stripe, coloring, v) <=> v \div EcwOf[stripe] < EcnOf[stripe]
    BY <2>1, StripeFacts DEF IsZero, VerticesOf
  <2> QED BY <1>1, <2>2 DEF RealOf
<1>2. CASE l # 0
  <2>1. \A v \in VerticesOf(l) : v \notin LevelsOf[stripe][0]
    BY <1>2, StripeFacts DEF VerticesOf
  <2> QED BY <1>2, <2>1 DEF RealOf, IsZero
<1> QED BY <1>1, <1>2

\* Replacing one field of a task leaves the others.
LEMMA ChangedTask ==
  ASSUME NEW n, NEW type, NEW l, NEW b, NEW vs, NEW a, NEW c, NEW s, NEW i,
         NEW a2, NEW c2, NEW s2, NEW i2,
         NEW t, t = [node |-> n, type |-> type, level |-> l, blk |-> b, list |-> vs,
                     same |-> a, diff |-> c, sendto |-> s, items |-> i]
  PROVE  /\ [t EXCEPT !.same = a2] =
              [node |-> n, type |-> type, level |-> l, blk |-> b, list |-> vs,
               same |-> a2, diff |-> c, sendto |-> s, items |-> i]
         /\ [t EXCEPT !.diff = c2] =
              [node |-> n, type |-> type, level |-> l, blk |-> b, list |-> vs,
               same |-> a, diff |-> c2, sendto |-> s, items |-> i]
         /\ [t EXCEPT !.sendto = s2] =
              [node |-> n, type |-> type, level |-> l, blk |-> b, list |-> vs,
               same |-> a, diff |-> c, sendto |-> s2, items |-> i]
         /\ [t EXCEPT !.items = i2] =
              [node |-> n, type |-> type, level |-> l, blk |-> b, list |-> vs,
               same |-> a, diff |-> c, sendto |-> s, items |-> i2]
OBVIOUS

\* The ways in which the tasks are made from a new one.
WithSame(t, a) == [t EXCEPT !.same = a]
WithUses(t, a, c) == [t EXCEPT !.same = a, !.diff = c]
WithSendTo(t, s) == [t EXCEPT !.sendto = s]
WithItems(t, i, a, c) == [t EXCEPT !.items = i, !.same = a, !.diff = c]

\* A task with some vertices for its own node.
LEMMA MadeSame ==
  ASSUME NEW l, NEW n, NEW type, NEW b, NEW vs, NEW a
  PROVE  WithSame(NewTask(l, n, type, b, vs), a) =
    [node |-> n, type |-> type, level |-> l, blk |-> b, list |-> vs,
     same |-> a, diff |-> {}, sendto |-> <<>>, items |-> <<>>]
<1> DEFINE s == <<>>
           e == {}
           r == NewTask(l, n, type, b, vs)
<1>1. r =
    [node |-> n, type |-> type, level |-> l, blk |-> b, list |-> vs,
     same |-> e, diff |-> e, sendto |-> s, items |-> s]
  BY DEF NewTask
<1> HIDE DEF s, e, r
<1>2. [r EXCEPT !.same = a] =
    [node |-> n, type |-> type, level |-> l, blk |-> b, list |-> vs,
     same |-> a, diff |-> e, sendto |-> s, items |-> s]
  BY <1>1, ChangedTask
<1> QED BY <1>2 DEF WithSame, s, e, r

\* A task with the uses of its vertices.
LEMMA MadeUses ==
  ASSUME NEW l, NEW n, NEW type, NEW b, NEW vs, NEW a, NEW c
  PROVE  WithUses(NewTask(l, n, type, b, vs), a, c) =
    [node |-> n, type |-> type, level |-> l, blk |-> b, list |-> vs,
     same |-> a, diff |-> c, sendto |-> <<>>, items |-> <<>>]
<1> DEFINE s == <<>>
           e == {}
           r == NewTask(l, n, type, b, vs)
<1>1. r =
    [node |-> n, type |-> type, level |-> l, blk |-> b, list |-> vs,
     same |-> e, diff |-> e, sendto |-> s, items |-> s]
  BY DEF NewTask
<1> HIDE DEF s, e, r
<1> DEFINE ra == [r EXCEPT !.same = a]
<1>2. WithUses(r, a, c) = [ra EXCEPT !.diff = c]
  BY DEF WithUses
<1>3. ra =
    [node |-> n, type |-> type, level |-> l, blk |-> b, list |-> vs,
     same |-> a, diff |-> e, sendto |-> s, items |-> s]
  BY <1>1, ChangedTask
<1> HIDE DEF ra
<1>4. [ra EXCEPT !.diff = c] =
    [node |-> n, type |-> type, level |-> l, blk |-> b, list |-> vs,
     same |-> a, diff |-> c, sendto |-> s, items |-> s]
  BY <1>3, ChangedTask
<1> QED BY <1>2, <1>4 DEF s, r

\* A task with the receivers of its vertices.
LEMMA MadeSendTo ==
  ASSUME NEW l, NEW n, NEW type, NEW b, NEW vs, NEW s2
  PROVE  WithSendTo(NewTask(l, n, type, b, vs), s2) =
    [node |-> n, type |-> type, level |-> l, blk |-> b, list |-> vs,
     same |-> {}, diff |-> {}, sendto |-> s2, items |-> <<>>]
<1> DEFINE s == <<>>
           e == {}
           r == NewTask(l, n, type, b, vs)
<1>1. r =
    [node |-> n, type |-> type, level |-> l, blk |-> b, list |-> vs,
     same |-> e, diff |-> e, sendto |-> s, items |-> s]
  BY DEF NewTask
<1> HIDE DEF s, e, r
<1>2. [r EXCEPT !.sendto = s2] =
    [node |-> n, type |-> type, level |-> l, blk |-> b, list |-> vs,
     same |-> e, diff |-> e, sendto |-> s2, items |-> s]
  BY <1>1, ChangedTask
<1> QED BY <1>2 DEF WithSendTo, s, e, r

\* A task with ComputeItems and the uses of its vertices.
LEMMA MadeItems ==
  ASSUME NEW l, NEW n, NEW type, NEW b, NEW vs, NEW i2, NEW a, NEW c
  PROVE  WithItems(NewTask(l, n, type, b, vs), i2, a, c) =
    [node |-> n, type |-> type, level |-> l, blk |-> b, list |-> vs,
     same |-> a, diff |-> c, sendto |-> <<>>, items |-> i2]
<1> DEFINE s == <<>>
           e == {}
           r == NewTask(l, n, type, b, vs)
<1>1. r =
    [node |-> n, type |-> type, level |-> l, blk |-> b, list |-> vs,
     same |-> e, diff |-> e, sendto |-> s, items |-> s]
  BY DEF NewTask
<1> HIDE DEF s, e, r
<1> DEFINE ri == [r EXCEPT !.items = i2]
           ria == [ri EXCEPT !.same = a]
<1>2. WithItems(r, i2, a, c) = [ria EXCEPT !.diff = c]
  BY DEF WithItems
<1>3. ri =
    [node |-> n, type |-> type, level |-> l, blk |-> b, list |-> vs,
     same |-> e, diff |-> e, sendto |-> s, items |-> i2]
  BY <1>1, ChangedTask
<1> HIDE DEF ri
<1>4. ria =
    [node |-> n, type |-> type, level |-> l, blk |-> b, list |-> vs,
     same |-> a, diff |-> e, sendto |-> s, items |-> i2]
  BY <1>3, ChangedTask
<1> HIDE DEF ria
<1>5. [ria EXCEPT !.diff = c] =
    [node |-> n, type |-> type, level |-> l, blk |-> b, list |-> vs,
     same |-> a, diff |-> c, sendto |-> s, items |-> i2]
  BY <1>4, ChangedTask
<1> QED BY <1>2, <1>5 DEF s, r

\* ReadTasks makes one task per block with data, at its node.
LEMMA ReadTasksAre ==
  ASSUME Colored
  PROVE  ReadTasks(RealOf(0)) = {ReadTask(coloring[v], v \div EcwOf[stripe]) : v \in RealOf(0)}
<1> DEFINE ecw == EcwOf[stripe]
           vs == RealOf(0)
           ofBlock(b) == {v \in vs : v \div ecw = b}
           node(b) == coloring[CHOOSE v \in ofBlock(b) : \A w \in ofBlock(b) : v <= w]
           task(b) == [NewTask(0, node(b), "read", b, ofBlock(b)) EXCEPT
                         !.same = {v \in ofBlock(b) : Same(v)},
                         !.diff = {v \in ofBlock(b) : Diff(v)}]
<1>1. ReadTasks(vs) = {task(b) : b \in {v \div ecw : v \in vs}}
  BY DEF ReadTasks
<1>2. ASSUME NEW v \in vs PROVE node(v \div ecw) = coloring[v]
  <2> DEFINE S == ofBlock(v \div ecw)
  <2>1. v \in S
    OBVIOUS
  <2>2. vs \subseteq VerticesOf(0) /\ 0 \in 0 .. LastLevel
    BY StripeFacts DEF RealOf
  <2>3. S \subseteq Nat
    BY <2>2, StripeFacts
  <2>4. \E u \in S : \A w \in S : u <= w
    <3> HIDE DEF S
    <3> QED BY <2>1, <2>3, LeastElement
  <2> DEFINE x == CHOOSE u \in S : \A w \in S : u <= w
  <2>5. x \in S
    BY <2>4
  <2> HIDE DEF x
  <2>6. x \in vs /\ x \div ecw = v \div ecw
    BY <2>5
  <2>7. /\ x \in LevelsOf[stripe][0] /\ v \in LevelsOf[stripe][0]
        /\ ~ IsZero(stripe, coloring, v)
    BY <2>6 DEF RealOf, VerticesOf
  <2>8. coloring[v] = coloring[x]
    BY <2>6, <2>7 DEF Colored, IsColoring
  <2> QED BY <2>8 DEF x
<1>3. \A b : ofBlock(b) = Block(b)
  BY DEF Block
<1> HIDE DEF node
<1>4. ASSUME NEW b PROVE task(b) = ReadTask(node(b), b)
  <2>1. ofBlock(b) = Block(b)
    BY <1>3
  <2> HIDE DEF ofBlock
  <2>2. task(b) = WithUses(NewTask(0, node(b), "read", b, Block(b)), SameOf(Block(b)), DiffOf(Block(b)))
    BY <2>1 DEF SameOf, DiffOf, WithUses
  <2> QED BY <2>2, MadeUses DEF ReadTask
<1> HIDE DEF task, ecw, vs
<1>5. \A v \in vs : task(v \div ecw) = ReadTask(coloring[v], v \div ecw)
  BY <1>2, <1>4
<1>6. {task(b) : b \in {v \div ecw : v \in vs}} = {ReadTask(coloring[v], v \div ecw) : v \in vs}
  BY <1>5
<1> QED BY <1>1, <1>6 DEF vs, ecw

----------------------------------------------------------------------------
(* The tasks, type by type *)

\* What each level adds, type by type.
Colors == {coloring[v] : v \in Dag.nodes}
ReadTasksOf == {ReadTask(coloring[v], v \div EcwOf[stripe]) : v \in RealOf(0)}
ZeroTasksOf(l) == {ZeroTask(l, n) : n \in {m \in Colors \ {NoColor} : Zeros(l, m) # {}}}
ComputeTasksOf(l) == {ComputeTask(l, n) : n \in {m \in Colors : Computed(l, m) # {}}}
SendTasksOf(l) == {SendTask(l, n) : n \in {m \in Colors : SentBy(l, m) # {}}}
RecvTasksOf(l) == {RecvTask(l, n) : n \in {m \in Colors : Incoming(l, m) # {}}}
PersistTasksOf == {PersistTask(v) : v \in VerticesOf(LastLevel)}

\* Every node that a vertex has to do with is among the colors.
LEMMA ColorsAre ==
  ASSUME Colored
  PROVE  /\ Colors \subseteq Int
         /\ \A v \in Dag.nodes : coloring[v] \in Colors /\ ParentColors(v) \subseteq Colors
         /\ \A v \in Dag.nodes : SendTo(v) \subseteq Colors
BY StripeFacts DEF Colors, ParentColors, SendTo

\* ZeroTasks makes one task per node that needs zero blocks.
LEMMA ZeroTasksAre ==
  ASSUME Colored, NEW l \in 0 .. LastLevel
  PROVE  ZeroTasks(l, VerticesOf(l) \ RealOf(l)) = ZeroTasksOf(l)
<1> DEFINE vs == VerticesOf(l) \ RealOf(l)
           ofNode(n) == {v \in vs : n \in ParentColors(v)}
           task(n) == WithSame(NewTask(l, n, "read", ZeroBlock, ofNode(n)), ofNode(n))
           N == (UNION {ParentColors(v) : v \in vs}) \ {NoColor}
           M == {m \in Colors \ {NoColor} : Zeros(l, m) # {}}
<1>1. ZeroTasks(l, vs) = {task(n) : n \in N}
  BY DEF ZeroTasks, WithSame
<1>2. ASSUME NEW n PROVE task(n) = ZeroTask(l, n)
  <2>1. ofNode(n) = Zeros(l, n)
    BY DEF Zeros
  <2> HIDE DEF ofNode
  <2> QED BY <2>1, MadeSame DEF ZeroTask
<1>3. N = M
  <2>1. \A v \in vs : ParentColors(v) \subseteq Colors
    BY StripeFacts, ColorsAre
  <2> QED BY <2>1 DEF Zeros
<1> HIDE DEF task, N, M, vs
<1>4. ZeroTasks(l, vs) = {ZeroTask(l, n) : n \in M}
  BY <1>1, <1>2, <1>3
<1> QED BY <1>4 DEF ZeroTasksOf, M, vs

\* ComputeTasks makes one task per node that computes.
LEMMA ComputeTasksAre ==
  ASSUME Colored, NEW l \in 0 .. LastLevel
  PROVE  ComputeTasks(l, RealOf(l)) = ComputeTasksOf(l)
<1> DEFINE vs == RealOf(l)
           ofNode(n) == {v \in vs : coloring[v] = n}
           task(n) == WithItems(NewTask(l, n, "compute", ZeroBlock, ofNode(n)), ItemsOf(ofNode(n)),
                                {v \in ofNode(n) : Same(v)}, {v \in ofNode(n) : Diff(v)})
           N == {coloring[v] : v \in vs}
           M == {m \in Colors : Computed(l, m) # {}}
<1>1. ComputeTasks(l, vs) = {task(n) : n \in N}
  BY DEF ComputeTasks, WithItems
<1>2. ASSUME NEW n PROVE task(n) = ComputeTask(l, n)
  <2>1. ofNode(n) = Computed(l, n)
    BY DEF Computed
  <2> HIDE DEF ofNode
  <2>2. task(n) = WithItems(NewTask(l, n, "compute", ZeroBlock, Computed(l, n)),
                            ItemsOf(Computed(l, n)), SameOf(Computed(l, n)), DiffOf(Computed(l, n)))
    BY <2>1 DEF SameOf, DiffOf
  <2> QED BY <2>2, MadeItems DEF ComputeTask
<1>3. N = M
  <2>1. \A v \in vs : coloring[v] \in Colors
    BY RealParents, ColorsAre
  <2> QED BY <2>1 DEF Computed
<1> HIDE DEF task, N, M, vs
<1>4. ComputeTasks(l, vs) = {ComputeTask(l, n) : n \in M}
  BY <1>1, <1>2, <1>3
<1> QED BY <1>4 DEF ComputeTasksOf, M, vs

\* SendTasks makes one task per node that sends.
LEMMA SendTasksAre ==
  ASSUME Colored, NEW l \in 0 .. LastLevel
  PROVE  SendTasks(l, RealOf(l)) = SendTasksOf(l)
<1> DEFINE vs == RealOf(l)
           ofNode(n) == {v \in vs : coloring[v] = n /\ Diff(v)}
           task(n) == WithSendTo(NewTask(l, n, "send", ZeroBlock, ofNode(n)),
                                 [v \in ofNode(n) |-> SendTo(v)])
           N == {coloring[v] : v \in {u \in vs : Diff(u)}}
           M == {m \in Colors : SentBy(l, m) # {}}
<1>1. SendTasks(l, vs) = {task(n) : n \in N}
  BY DEF SendTasks, WithSendTo
<1>2. ASSUME NEW n PROVE task(n) = SendTask(l, n)
  <2>1. ofNode(n) = SentBy(l, n)
    BY DEF SentBy
  <2> HIDE DEF ofNode
  <2>2. task(n) = WithSendTo(NewTask(l, n, "send", ZeroBlock, SentBy(l, n)), SendToOf(SentBy(l, n)))
    BY <2>1 DEF SendToOf
  <2> HIDE DEF task
  <2> QED BY <2>2, MadeSendTo DEF SendTask
<1>3. N = M
  <2>1. \A v \in vs : coloring[v] \in Colors
    BY RealParents, ColorsAre
  <2> QED BY <2>1 DEF SentBy
<1> HIDE DEF task, N, M, vs
<1>4. SendTasks(l, vs) = {SendTask(l, n) : n \in M}
  BY <1>1, <1>2, <1>3
<1> QED BY <1>4 DEF SendTasksOf, M, vs

\* RecvTasks makes one task per node that receives.
LEMMA RecvTasksAre ==
  ASSUME Colored, NEW l \in 0 .. LastLevel
  PROVE  RecvTasks(l, RealOf(l)) = RecvTasksOf(l)
<1> DEFINE vs == RealOf(l)
           ofNode(n) == {v \in vs : n \in SendTo(v)}
           task(n) == NewTask(l, n, "recv", ZeroBlock, ofNode(n))
           N == UNION {SendTo(v) : v \in vs}
           M == {m \in Colors : Incoming(l, m) # {}}
<1>1. RecvTasks(l, vs) = {task(n) : n \in N}
  BY DEF RecvTasks
<1>2. ASSUME NEW n PROVE task(n) = RecvTask(l, n)
  <2>1. ofNode(n) = Incoming(l, n)
    BY DEF Incoming
  <2> QED BY <2>1 DEF RecvTask, NewTask
<1>3. N = M
  <2>1. \A v \in vs : SendTo(v) \subseteq Colors
    BY RealParents, ColorsAre
  <2> QED BY <2>1 DEF Incoming
<1> HIDE DEF task, N, M, vs
<1>4. RecvTasks(l, vs) = {RecvTask(l, n) : n \in M}
  BY <1>1, <1>2, <1>3
<1> QED BY <1>4 DEF RecvTasksOf, M, vs

\* PersistTasks makes one task per concat vertex.
LEMMA PersistTasksAre ==
  PersistTasks(LastLevel, VerticesOf(LastLevel)) = PersistTasksOf
BY DEF PersistTasksOf, PersistTasks, PersistTask, NewTask

----------------------------------------------------------------------------
(* The inductive invariant *)

\* The tasks of a level, and those of the levels below k.
LevelTasks(l) ==
  IF l = LastLevel THEN PersistTasksOf
  ELSE (IF l = 0 THEN ReadTasksOf ELSE ComputeTasksOf(l))
         \cup SendTasksOf(l) \cup RecvTasksOf(l) \cup ZeroTasksOf(l)
Generated(k) == UNION {LevelTasks(l) : l \in {m \in 0 .. LastLevel : m < k}}

\* A coloring that a Solution has chosen, with the new nodes in place of the failed.
IsRecolored(s, col) == \E c \in ColoringsOf[s] : col = Recolored(c)

\* The inductive invariant.  The tasks are those of the levels that are generated, and in
\* the end what the nodes read of them.
Inv ==
  /\ stripe \in Stripes
  /\ level \in -1 .. LastLevel + 2
  /\ level = -1 => coloring \in ColoringsOf[stripe] /\ tasks = {}
  /\ level >= 0 => IsColoring(stripe, coloring) /\ IsRecolored(stripe, coloring)
  /\ level \in 0 .. LastLevel + 1 => tasks = Generated(level)
  /\ level = LastLevel + 2 => tasks = {ReadBack(t) : t \in Generated(LastLevel + 1)}

\* A level adds its own tasks.
LEMMA GeneratedNext ==
  ASSUME Colored, NEW l \in 0 .. LastLevel
  PROVE  Generated(l + 1) = Generated(l) \cup LevelTasks(l)
<1>1. LastLevel \in Nat
  BY StripeFacts
<1>2. {m \in 0 .. LastLevel : m < l + 1} = {m \in 0 .. LastLevel : m < l} \cup {l}
  BY <1>1
<1> QED BY <1>2 DEF Generated

\* There are none before level 0, and no more after the last level.
LEMMA GeneratedEnds ==
  ASSUME Colored
  PROVE  Generated(0) = {} /\ Generated(LastLevel + 2) = Generated(LastLevel + 1)
<1>1. LastLevel \in Nat
  BY StripeFacts
<1>2. {m \in 0 .. LastLevel : m < 0} = {}
  BY <1>1
<1>3. {m \in 0 .. LastLevel : m < LastLevel + 2} = {m \in 0 .. LastLevel : m < LastLevel + 1}
  BY <1>1
<1> QED BY <1>2, <1>3 DEF Generated

\* The tasks depend on the stripe and the coloring only.
LEMMA GeneratedSame ==
  ASSUME UNCHANGED <<stripe, coloring>>
  PROVE  Generated(level)' = Generated(level')
BY DEF Generated, LevelTasks, ReadTasksOf, ZeroTasksOf, ComputeTasksOf, SendTasksOf, RecvTasksOf,
       PersistTasksOf, Colors, LastLevel,
       ReadTask, ZeroTask, ComputeTask, SendTask, RecvTask, PersistTask, SameOf, DiffOf, SendToOf,
       RealOf, Computed, SentBy, Incoming, Zeros, Block, VerticesOf, Dag, ParentColors,
       Same, SendTo, Diff, ItemsOf

\* So do those of all levels.
LEMMA AllSame ==
  ASSUME UNCHANGED <<stripe, coloring>>
  PROVE  Generated(LastLevel + 1)' = Generated(LastLevel + 1)
BY DEF Generated, LevelTasks, ReadTasksOf, ZeroTasksOf, ComputeTasksOf, SendTasksOf, RecvTasksOf,
       PersistTasksOf, Colors, LastLevel,
       ReadTask, ZeroTask, ComputeTask, SendTask, RecvTask, PersistTask, SameOf, DiffOf, SendToOf,
       RealOf, Computed, SentBy, Incoming, Zeros, Block, VerticesOf, Dag, ParentColors,
       Same, SendTo, Diff, ItemsOf

\* The invariant holds at first.
LEMMA InitInv == Init => Inv
<1> SUFFICES ASSUME Init PROVE Inv
  OBVIOUS
<1>1. LastLevel \in Nat
  BY LevelsAre DEF Init, LastLevel
<1> QED BY <1>1 DEF Init, Inv

\* Recolor, which remaps the colors before level 0, keeps the invariant.
LEMMA RecolorInv ==
  ASSUME Inv, Recolor
  PROVE  Inv'
<1>1. /\ stripe \in Stripes /\ coloring \in ColoringsOf[stripe] /\ tasks = {}
      /\ coloring' = Recolored(coloring) /\ level' = 0 /\ stripe' = stripe /\ tasks' = {}
  BY DEF Inv, Recolor
<1>2. IsColoring(stripe, coloring') /\ IsRecolored(stripe', coloring')
  BY <1>1, ColoringsAssumption DEF IsRecolored
<1>3. LastLevel' = LastLevel /\ LastLevel \in Nat
  BY <1>1, LevelsAre DEF LastLevel
<1>4. Generated(0)' = {}
  <2>1. {m \in 0 .. LastLevel' : m < 0} = {}
    BY <1>3
  <2> QED BY <2>1 DEF Generated
<1>5. 0 # LastLevel' + 2
  BY <1>3
<1> QED BY <1>1, <1>2, <1>3, <1>4, <1>5 DEF Inv

\* A step that adds the tasks of its level keeps the invariant.
LEMMA GenInv ==
  ASSUME Inv, UNCHANGED <<stripe, coloring>>, level \in 0 .. LastLevel,
         level' = level + 1, tasks' = tasks \cup LevelTasks(level)
  PROVE  Inv'
<1>1. Colored /\ tasks = Generated(level)
  <2>1. LastLevel \in Nat
    BY LevelsAre DEF Inv, LastLevel
  <2>2. level >= 0 /\ level \in 0 .. LastLevel + 1
    BY <2>1
  <2> QED BY <2>2 DEF Inv, Colored
<1>2. LastLevel' = LastLevel /\ LastLevel \in Nat
  BY <1>1, StripeFacts DEF LastLevel
<1>3. tasks' = Generated(level + 1)
  BY <1>1, GeneratedNext
<1>4. tasks' = Generated(level)'
  BY <1>3, GeneratedSame
<1>5. level' \in -1 .. LastLevel + 2 /\ level' # -1 /\ level' # LastLevel + 2
  BY <1>2
<1>6. stripe' \in Stripes /\ IsColoring(stripe', coloring') /\ IsRecolored(stripe', coloring')
  <2>1. LastLevel \in Nat
    BY <1>1, StripeFacts
  <2>2. level >= 0
    BY <2>1
  <2> QED BY <1>1, <2>2 DEF Inv, Colored
<1> QED BY <1>2, <1>4, <1>5, <1>6 DEF Inv

\* genLevel0 adds the tasks of level 0.
LEMMA GenLevel0Inv ==
  ASSUME Inv, GenLevel0
  PROVE  Inv'
<1>1. Colored /\ level = 0
  BY DEF Inv, Colored, GenLevel0
<1>2. LastLevel \in Nat /\ LastLevel > 0 /\ 0 \in 0 .. LastLevel
  BY <1>1, StripeFacts
<1> DEFINE leaves == VerticesOf(0)
           real == {v \in leaves : v \div EcwOf[stripe] < EcnOf[stripe]}
<1>3. real = RealOf(0)
  BY <1>1, <1>2, RealIs
<1>4. tasks' = tasks \cup ReadTasks(real) \cup SendTasks(0, real)
                     \cup RecvTasks(0, real) \cup ZeroTasks(0, leaves \ real)
  BY DEF GenLevel0
<1> HIDE DEF real
<1>5. tasks' = tasks \cup LevelTasks(0)
  <2>1. /\ ReadTasks(real) = ReadTasksOf /\ SendTasks(0, real) = SendTasksOf(0)
        /\ RecvTasks(0, real) = RecvTasksOf(0) /\ ZeroTasks(0, leaves \ real) = ZeroTasksOf(0)
    BY <1>1, <1>2, <1>3, ReadTasksAre, SendTasksAre, RecvTasksAre, ZeroTasksAre DEF ReadTasksOf
  <2>2. LevelTasks(0) = ReadTasksOf \cup SendTasksOf(0) \cup RecvTasksOf(0) \cup ZeroTasksOf(0)
    <3>1. 0 # LastLevel
      BY <1>2
    <3> QED BY <3>1 DEF LevelTasks
  <2> QED BY <1>4, <2>1, <2>2
<1>6. level' = level + 1 /\ UNCHANGED <<stripe, coloring>>
  BY DEF GenLevel0
<1> QED BY <1>1, <1>2, <1>5, <1>6, GenInv

\* genIntermediateLevels adds the tasks of its level.
LEMMA GenIntermediateLevelsInv ==
  ASSUME Inv, GenIntermediateLevels
  PROVE  Inv'
<1>1. Colored /\ level > 0 /\ level < LastLevel /\ level \in 0 .. LastLevel
  <2>1. Colored
    BY DEF Inv, Colored, GenIntermediateLevels
  <2>2. LastLevel \in Nat
    BY <2>1, StripeFacts
  <2> QED BY <2>1, <2>2 DEF Inv, GenIntermediateLevels
<1>2. LastLevel \in Nat
  BY <1>1, StripeFacts
<1> DEFINE vs == VerticesOf(level)
           real == {v \in vs : coloring[v] # NoColor}
<1>3. real = RealOf(level)
  <2>1. level # 0
    BY <1>1, <1>2
  <2> QED BY <1>1, <2>1, RealIs
<1>4. tasks' = tasks \cup ComputeTasks(level, real) \cup SendTasks(level, real)
                     \cup RecvTasks(level, real) \cup ZeroTasks(level, vs \ real)
  BY DEF GenIntermediateLevels
<1> HIDE DEF real
<1>5. tasks' = tasks \cup LevelTasks(level)
  <2>1. /\ ComputeTasks(level, real) = ComputeTasksOf(level)
        /\ SendTasks(level, real) = SendTasksOf(level)
        /\ RecvTasks(level, real) = RecvTasksOf(level)
        /\ ZeroTasks(level, vs \ real) = ZeroTasksOf(level)
    BY <1>1, <1>3, ComputeTasksAre, SendTasksAre, RecvTasksAre, ZeroTasksAre
  <2>2. LevelTasks(level) = ComputeTasksOf(level) \cup SendTasksOf(level) \cup RecvTasksOf(level)
                              \cup ZeroTasksOf(level)
    <3>1. level # 0 /\ level # LastLevel
      BY <1>1, <1>2
    <3> QED BY <3>1 DEF LevelTasks
  <2> QED BY <1>4, <2>1, <2>2
<1>6. level' = level + 1 /\ UNCHANGED <<stripe, coloring>>
  BY DEF GenIntermediateLevels
<1> QED BY <1>1, <1>5, <1>6, GenInv

\* genLastLevel adds the tasks of the last level.
LEMMA GenLastLevelInv ==
  ASSUME Inv, GenLastLevel
  PROVE  Inv'
<1>1. level = LastLevel /\ level > 0
  BY DEF GenLastLevel
<1>2. Colored
  <2>1. LastLevel \in Nat
    BY LevelsAre DEF Inv, LastLevel
  <2> QED BY <1>1, <2>1 DEF Inv, Colored
<1>3. LastLevel \in Nat /\ LastLevel > 0
  BY <1>2, StripeFacts
<1>4. LevelTasks(level) = PersistTasksOf
  <2>1. level # 0 /\ level = LastLevel
    BY <1>1, <1>3
  <2> QED BY <2>1 DEF LevelTasks
<1>5. tasks' = tasks \cup LevelTasks(level)
  <2>1. tasks' = tasks \cup PersistTasks(level, VerticesOf(level))
    BY DEF GenLastLevel
  <2> QED BY <1>1, <1>4, <2>1, PersistTasksAre
<1>6. level' = level + 1 /\ UNCHANGED <<stripe, coloring>> /\ level \in 0 .. LastLevel
  BY <1>1, <1>3 DEF GenLastLevel
<1> QED BY <1>5, <1>6, GenInv

----------------------------------------------------------------------------
\* The six kinds of tasks of a level.
KindsOf(l, t) ==
  \/ l = 0 /\ t \in ReadTasksOf
  \/ l < LastLevel /\ t \in ZeroTasksOf(l)
  \/ l > 0 /\ l < LastLevel /\ t \in ComputeTasksOf(l)
  \/ l < LastLevel /\ t \in SendTasksOf(l)
  \/ l < LastLevel /\ t \in RecvTasksOf(l)
  \/ l = LastLevel /\ t \in PersistTasksOf

\* The tasks of a level are of these kinds.
LEMMA LevelKinds ==
  ASSUME Colored, NEW l \in 0 .. LastLevel
  PROVE  \A t : t \in LevelTasks(l) <=> KindsOf(l, t)
<1>1. LastLevel \in Nat /\ LastLevel > 0
  BY StripeFacts
<1>2. CASE l = 0
  <2>1. l < LastLevel /\ ~ (l > 0) /\ l # LastLevel
    BY <1>1, <1>2
  <2>2. LevelTasks(l) = ReadTasksOf \cup SendTasksOf(l) \cup RecvTasksOf(l) \cup ZeroTasksOf(l)
    BY <1>2, <2>1 DEF LevelTasks
  <2> QED BY <1>2, <2>1, <2>2 DEF KindsOf
<1>3. CASE l = LastLevel
  <2>1. ~ (l < LastLevel) /\ l # 0
    BY <1>1, <1>3
  <2>2. LevelTasks(l) = PersistTasksOf
    BY <1>3, <2>1 DEF LevelTasks
  <2> QED BY <1>3, <2>1, <2>2 DEF KindsOf
<1>4. CASE l # 0 /\ l # LastLevel
  <2>1. l > 0 /\ l < LastLevel
    BY <1>1, <1>4
  <2>2. LevelTasks(l) = ComputeTasksOf(l) \cup SendTasksOf(l) \cup RecvTasksOf(l) \cup ZeroTasksOf(l)
    BY <1>4 DEF LevelTasks
  <2> QED BY <1>4, <2>1, <2>2 DEF KindsOf
<1> QED BY <1>2, <1>3, <1>4

\* So are all tasks, level by level.
LEMMA GeneratedKinds ==
  ASSUME Colored, NEW k
  PROVE  \A t : t \in Generated(k) <=> \E l \in 0 .. LastLevel : l < k /\ KindsOf(l, t)
<1>1. \A t : t \in Generated(k) <=> \E l \in 0 .. LastLevel : l < k /\ t \in LevelTasks(l)
  BY DEF Generated
<1> QED BY <1>1, LevelKinds

----------------------------------------------------------------------------
(* All tasks can be written and read *)

\* Any set of vertices is a finite set of integers.
LEMMA FiniteSubset ==
  ASSUME Colored, NEW vs, vs \subseteq Dag.nodes
  PROVE  vs \in SUBSET Int /\ IsFiniteSet(vs)
<1>1. Dag.nodes \subseteq Nat /\ IsFiniteSet(Dag.nodes)
  BY StripeFacts
<1>2. IsFiniteSet(vs)
  BY <1>1, FS_Subset
<1> QED BY <1>1, <1>2

\* There are finitely many nodes, and receivers of each vertex.
LEMMA FiniteColors ==
  ASSUME Colored
  PROVE  /\ IsFiniteSet(Colors)
         /\ \A v \in Dag.nodes : SendTo(v) \in SUBSET Int /\ IsFiniteSet(SendTo(v))
<1>1. IsFiniteSet(Dag.nodes)
  BY StripeFacts
<1>2. IsFiniteSet(Colors)
  <2> DEFINE f == [v \in Dag.nodes |-> coloring[v]]
  <2>1. f \in Surjection(Dag.nodes, Colors)
    BY DEF Surjection, Colors
  <2> HIDE DEF f
  <2> QED BY <1>1, <2>1, FS_Surjection
<1>3. ASSUME NEW v \in Dag.nodes PROVE SendTo(v) \in SUBSET Int /\ IsFiniteSet(SendTo(v))
  <2>1. SendTo(v) \in SUBSET Colors /\ Colors \subseteq Int
    BY ColorsAre
  <2> QED BY <1>2, <2>1, FS_Subset
<1> QED BY <1>2, <1>3

\* What every task of a level is.
IsOfLevel(l, t) ==
  /\ GoodTask(t) /\ t.level = l /\ t.node \in Colors /\ t.node \in Int
  /\ t.list # {} /\ t.list \subseteq Dag.nodes

\* The read tasks of blocks are good tasks of level 0, and never of a zero block.
LEMMA ReadTasksAreGood ==
  ASSUME Colored, NEW t \in ReadTasksOf
  PROVE  IsOfLevel(0, t) /\ t.blk # ZeroBlock
<1> DEFINE ecw == EcwOf[stripe]
<1>1. PICK v \in RealOf(0) : t = ReadTask(coloring[v], v \div ecw)
  BY DEF ReadTasksOf
<1>2. /\ 0 \in 0 .. LastLevel /\ LastLevel \in Nat /\ ecw \in Nat /\ ecw > 0
      /\ Dag.nodes \subseteq Nat /\ VerticesOf(0) \subseteq Dag.nodes
  BY StripeFacts
<1>3. v \in Dag.nodes /\ coloring[v] \in Int /\ coloring[v] \in Colors
  BY <1>2, RealParents, ColorsAre
<1> DEFINE b == v \div ecw
           n == coloring[v]
<1>4. b \in Nat /\ b # ZeroBlock
  BY <1>2, <1>3 DEF ZeroBlock
<1>5. v \in Block(b) /\ Block(b) \subseteq Dag.nodes
  BY <1>2 DEF Block, RealOf
<1>6. Block(b) \in SUBSET Int /\ IsFiniteSet(Block(b))
  BY <1>5, FiniteSubset
<1>7. SameOf(Block(b)) \subseteq Block(b) /\ DiffOf(Block(b)) \subseteq Block(b)
  BY DEF SameOf, DiffOf
<1>8. /\ t.node = n /\ t.type = "read" /\ t.level = 0 /\ t.blk = b /\ t.list = Block(b)
      /\ t.same = SameOf(Block(b)) /\ t.diff = DiffOf(Block(b)) /\ t.sendto = <<>>
      /\ t.items = <<>>
  BY <1>1 DEF ReadTask
<1> HIDE DEF b, n
<1>9. t = [node |-> t.node, type |-> t.type, level |-> t.level, blk |-> t.blk,
           list |-> t.list, same |-> t.same, diff |-> t.diff, sendto |-> t.sendto,
           items |-> t.items]
  BY <1>1, <1>8 DEF ReadTask, b, n
<1>10. GoodTask(t)
  BY <1>4, <1>6, <1>7, <1>8, <1>9 DEF GoodTask
<1> QED BY <1>3, <1>4, <1>5, <1>8, <1>10 DEF IsOfLevel, n

\* The read tasks of zero blocks are good.
LEMMA ZeroTasksAreGood ==
  ASSUME Colored, NEW l \in 0 .. LastLevel, NEW t \in ZeroTasksOf(l)
  PROVE  IsOfLevel(l, t)
<1>1. PICK n \in Colors \ {NoColor} : Zeros(l, n) # {} /\ t = ZeroTask(l, n)
  BY DEF ZeroTasksOf
<1>2. n \in Int /\ Zeros(l, n) \subseteq Dag.nodes
  BY StripeFacts, ColorsAre DEF Zeros
<1>3. Zeros(l, n) \in SUBSET Int /\ IsFiniteSet(Zeros(l, n))
  BY <1>2, FiniteSubset
<1>4. /\ t.node = n /\ t.type = "read" /\ t.level = l /\ t.blk = ZeroBlock
      /\ t.list = Zeros(l, n) /\ t.same = Zeros(l, n) /\ t.diff = {} /\ t.sendto = <<>>
      /\ t.items = <<>>
  BY <1>1 DEF ZeroTask
<1>5. t = [node |-> t.node, type |-> t.type, level |-> t.level, blk |-> t.blk,
           list |-> t.list, same |-> t.same, diff |-> t.diff, sendto |-> t.sendto,
           items |-> t.items]
  BY <1>1, <1>4 DEF ZeroTask
<1>6. GoodTask(t)
  BY <1>3, <1>4, <1>5 DEF GoodTask, ZeroBlock
<1> QED BY <1>1, <1>2, <1>4, <1>6 DEF IsOfLevel

\* The compute tasks are good.
LEMMA ComputeTasksAreGood ==
  ASSUME Colored, NEW l \in 0 .. LastLevel, NEW t \in ComputeTasksOf(l)
  PROVE  IsOfLevel(l, t)
<1>1. PICK n \in Colors : Computed(l, n) # {} /\ t = ComputeTask(l, n)
  BY DEF ComputeTasksOf
<1> DEFINE vs == Computed(l, n)
<1>2. n \in Int /\ vs \subseteq Dag.nodes /\ vs \subseteq VerticesOf(l)
  BY StripeFacts, ColorsAre DEF Computed, RealOf
<1>3. vs \in SUBSET Int /\ IsFiniteSet(vs)
  BY <1>2, FiniteSubset
<1>4. /\ t.node = n /\ t.type = "compute" /\ t.level = l /\ t.blk = ZeroBlock
      /\ t.list = vs /\ t.same = SameOf(vs) /\ t.diff = DiffOf(vs) /\ t.sendto = <<>>
      /\ t.items = ItemsOf(vs)
  BY <1>1 DEF ComputeTask
<1>5. t = [node |-> t.node, type |-> t.type, level |-> t.level, blk |-> t.blk,
           list |-> t.list, same |-> t.same, diff |-> t.diff, sendto |-> t.sendto,
           items |-> t.items]
  BY <1>1, <1>4 DEF ComputeTask
<1> HIDE DEF vs
<1>6. SameOf(vs) \subseteq vs /\ DiffOf(vs) \subseteq vs
  BY DEF SameOf, DiffOf
<1>7. ASSUME NEW v \in vs
      PROVE  /\ t.items[v] = [srcs |-> Dag.childs[v], coefs |-> Dag.coefs[v]]
             /\ t.items[v].srcs = Dag.childs[v] /\ t.items[v].coefs = Dag.coefs[v]
  BY <1>4 DEF ItemsOf
<1>8. t.items = [v \in t.list |-> [srcs |-> t.items[v].srcs, coefs |-> t.items[v].coefs]]
  <2>1. t.items = [v \in vs |-> [srcs |-> Dag.childs[v], coefs |-> Dag.coefs[v]]]
    BY <1>4 DEF ItemsOf
  <2> QED BY <1>4, <1>7, <2>1
<1>9. ASSUME NEW v \in vs
      PROVE  t.items[v].srcs \in Seq(Int) /\ t.items[v].coefs \in Seq(Int)
  <2>1. /\ Dag.childs \in [Dag.nodes -> Seq(Dag.nodes)]
        /\ Dag.coefs \in [Dag.nodes -> Seq(Int)]
    BY DagsAssumption DEF Colored, Dag
  <2>2. Dag.childs[v] \in Seq(Dag.nodes) /\ Dag.coefs[v] \in Seq(Int)
    BY <1>2, <2>1
  <2>3. Dag.nodes \subseteq Int
    BY StripeFacts
  <2>4. Dag.childs[v] \in Seq(Int)
    BY <2>2, <2>3, SeqMonotonic
  <2> QED BY <1>7, <2>2, <2>4, ZenonT(40)
<1>10. GoodTask(t)
  BY <1>3, <1>4, <1>5, <1>6, <1>8, <1>9 DEF GoodTask, ZeroBlock
<1> QED BY <1>1, <1>2, <1>4, <1>10 DEF IsOfLevel, vs

\* The send tasks are good.
LEMMA SendTasksAreGood ==
  ASSUME Colored, NEW l \in 0 .. LastLevel, NEW t \in SendTasksOf(l)
  PROVE  IsOfLevel(l, t)
<1>1. PICK n \in Colors : SentBy(l, n) # {} /\ t = SendTask(l, n)
  BY DEF SendTasksOf
<1> DEFINE vs == SentBy(l, n)
<1>2. n \in Int /\ vs \subseteq Dag.nodes
  BY StripeFacts, ColorsAre DEF SentBy, RealOf
<1>3. vs \in SUBSET Int /\ IsFiniteSet(vs)
  BY <1>2, FiniteSubset
<1>4. /\ t.node = n /\ t.type = "send" /\ t.level = l /\ t.blk = ZeroBlock
      /\ t.list = vs /\ t.same = {} /\ t.diff = {} /\ t.sendto = SendToOf(vs)
      /\ t.items = <<>>
  BY <1>1 DEF SendTask
<1>5. t = [node |-> t.node, type |-> t.type, level |-> t.level, blk |-> t.blk,
           list |-> t.list, same |-> t.same, diff |-> t.diff, sendto |-> t.sendto,
           items |-> t.items]
  BY <1>1, <1>4 DEF SendTask
<1> HIDE DEF vs
<1>6. t.sendto = [v \in vs |-> SendTo(v)]
  BY <1>4 DEF SendToOf
<1>7. t.sendto = [v \in t.list |-> t.sendto[v]]
  BY <1>4, <1>6
<1>8. \A v \in vs : t.sendto[v] \in SUBSET Int /\ IsFiniteSet(t.sendto[v])
  BY <1>2, <1>6, FiniteColors
<1>9. GoodTask(t)
  BY <1>3, <1>4, <1>5, <1>7, <1>8 DEF GoodTask, ZeroBlock
<1> QED BY <1>1, <1>2, <1>4, <1>9 DEF IsOfLevel, vs

\* The receive tasks are good.
LEMMA RecvTasksAreGood ==
  ASSUME Colored, NEW l \in 0 .. LastLevel, NEW t \in RecvTasksOf(l)
  PROVE  IsOfLevel(l, t)
<1>1. PICK n \in Colors : Incoming(l, n) # {} /\ t = RecvTask(l, n)
  BY DEF RecvTasksOf
<1> DEFINE vs == Incoming(l, n)
<1>2. n \in Int /\ vs \subseteq Dag.nodes
  BY StripeFacts, ColorsAre DEF Incoming, RealOf
<1>3. vs \in SUBSET Int /\ IsFiniteSet(vs)
  BY <1>2, FiniteSubset
<1>4. /\ t.node = n /\ t.type = "recv" /\ t.level = l /\ t.blk = ZeroBlock
      /\ t.list = vs /\ t.same = {} /\ t.diff = {} /\ t.sendto = <<>> /\ t.items = <<>>
  BY <1>1 DEF RecvTask
<1>5. t = [node |-> t.node, type |-> t.type, level |-> t.level, blk |-> t.blk,
           list |-> t.list, same |-> t.same, diff |-> t.diff, sendto |-> t.sendto,
           items |-> t.items]
  BY <1>1, <1>4 DEF RecvTask
<1>6. GoodTask(t)
  BY <1>3, <1>4, <1>5 DEF GoodTask, ZeroBlock
<1> QED BY <1>1, <1>2, <1>4, <1>6 DEF IsOfLevel

\* A concat vertex stands for a failed block, and nothing is computed from it.
LEMMA ConcatIs ==
  ASSUME Colored
  PROVE  /\ FailedOf[stripe] \subseteq Nat
         /\ VerticesOf(LastLevel) \subseteq {Requestor - b : b \in FailedOf[stripe]}
         /\ \A v \in ConcatsOf(stripe) : ParentsOf(Dag, v) = {}
         /\ \A b \in FailedOf[stripe] :
              /\ Requestor - b \in Dag.nodes
              /\ ChildsOf(Dag, Requestor - b) = ToSet(SubPackets(b, EcwOf[stripe]))
              /\ ChildsOf(Dag, Requestor - b) # {}
              /\ Requestor - (Requestor - b) = b
<1>1. /\ FailedOf[stripe] \subseteq Nat
      /\ VerticesOf(LastLevel) \subseteq {Requestor - b : b \in FailedOf[stripe]}
      /\ \A v \in ConcatsOf(stripe) : ParentsOf(Dag, v) = {}
      /\ \A b \in FailedOf[stripe] : Dag.childs[Requestor - b] = SubPackets(b, EcwOf[stripe])
  BY DagsAssumption DEF Colored, Dag, VerticesOf, LastLevel, ConcatsOf
<1>2. {Requestor - b : b \in FailedOf[stripe]} \subseteq Dag.nodes
  BY DagsAssumption DEF Colored, Dag, ConcatsOf
<1>3. \A b : 1 \in DOMAIN SubPackets(b, EcwOf[stripe])
  <2>1. 1 \in 1 .. EcwOf[stripe]
    BY StripeFacts
  <2> QED BY <2>1 DEF SubPackets
<1>4. ASSUME NEW b \in FailedOf[stripe]
      PROVE  /\ Requestor - b \in Dag.nodes
             /\ ChildsOf(Dag, Requestor - b) = ToSet(SubPackets(b, EcwOf[stripe]))
             /\ ChildsOf(Dag, Requestor - b) # {}
             /\ Requestor - (Requestor - b) = b
  <2>1. ChildsOf(Dag, Requestor - b) = ToSet(SubPackets(b, EcwOf[stripe]))
    BY <1>1 DEF ChildsOf
  <2>2. ToSet(SubPackets(b, EcwOf[stripe])) # {}
    BY <1>3 DEF ToSet
  <2>3. b \in Nat
    BY <1>1
  <2> QED BY <1>1, <1>2, <2>1, <2>2, <2>3 DEF Requestor
<1> QED BY <1>1, <1>4

\* The persist tasks are good.
LEMMA PersistTasksAreGood ==
  ASSUME Colored, NEW t \in PersistTasksOf
  PROVE  IsOfLevel(LastLevel, t)
<1>1. PICK v \in VerticesOf(LastLevel) : t = PersistTask(v)
  BY DEF PersistTasksOf
<1>2. PICK b \in FailedOf[stripe] : v = Requestor - b
  BY <1>1, ConcatIs
<1> DEFINE vs == ChildsOf(Dag, v)
<1>3. v \in Dag.nodes /\ vs # {} /\ vs \subseteq Dag.nodes
  BY <1>2, ConcatIs, StripeFacts
<1>4. vs \in SUBSET Int /\ IsFiniteSet(vs)
  BY <1>3, FiniteSubset
<1>5. Requestor - v \in Int
  BY <1>2, ConcatIs
<1>6. /\ t.node = coloring[v] /\ t.type = "persist" /\ t.level = LastLevel
      /\ t.blk = Requestor - v /\ t.list = vs /\ t.same = {} /\ t.diff = {}
      /\ t.sendto = <<>> /\ t.items = <<>>
  BY <1>1 DEF PersistTask
<1>7. t = [node |-> t.node, type |-> t.type, level |-> t.level, blk |-> t.blk,
           list |-> t.list, same |-> t.same, diff |-> t.diff, sendto |-> t.sendto,
           items |-> t.items]
  BY <1>1, <1>6 DEF PersistTask
<1>8. GoodTask(t)
  BY <1>4, <1>5, <1>6, <1>7 DEF GoodTask
<1>9. coloring[v] \in Colors /\ coloring[v] \in Int
  BY <1>3, ColorsAre
<1> QED BY <1>3, <1>6, <1>8, <1>9 DEF IsOfLevel

\* The tasks of a level are good, whatever their kind.
LEMMA KindsAreGood ==
  ASSUME Colored, NEW l \in 0 .. LastLevel, NEW t, KindsOf(l, t)
  PROVE  IsOfLevel(l, t)
BY ReadTasksAreGood, ZeroTasksAreGood, ComputeTasksAreGood, SendTasksAreGood,
   RecvTasksAreGood, PersistTasksAreGood DEF KindsOf

----------------------------------------------------------------------------
(* The commands leave the tasks as they are *)

\* A level has finitely many tasks.
LEMMA LevelTasksFinite ==
  ASSUME Colored, NEW l \in 0 .. LastLevel
  PROVE  IsFiniteSet(LevelTasks(l))
<1>1. /\ IsFiniteSet(Dag.nodes) /\ IsFiniteSet(Colors)
      /\ VerticesOf(0) \subseteq Dag.nodes /\ VerticesOf(LastLevel) \subseteq Dag.nodes
  BY StripeFacts, FiniteColors
<1>2. IsFiniteSet(ReadTasksOf)
  <2> DEFINE f == [v \in RealOf(0) |-> ReadTask(coloring[v], v \div EcwOf[stripe])]
  <2>1. f \in Surjection(RealOf(0), ReadTasksOf)
    BY DEF Surjection, ReadTasksOf
  <2>2. RealOf(0) \in SUBSET Dag.nodes
    BY <1>1 DEF RealOf
  <2> HIDE DEF f
  <2> QED BY <1>1, <2>1, <2>2, FS_Surjection, FS_Subset
<1>3. IsFiniteSet(PersistTasksOf)
  <2> DEFINE f == [v \in VerticesOf(LastLevel) |-> PersistTask(v)]
  <2>1. f \in Surjection(VerticesOf(LastLevel), PersistTasksOf)
    BY DEF Surjection, PersistTasksOf
  <2> HIDE DEF f
  <2> QED BY <1>1, <2>1, FS_Surjection, FS_Subset
<1>4. IsFiniteSet(ZeroTasksOf(l))
  <2> DEFINE M == {m \in Colors \ {NoColor} : Zeros(l, m) # {}}
             f == [n \in M |-> ZeroTask(l, n)]
  <2>1. f \in Surjection(M, ZeroTasksOf(l))
    BY DEF Surjection, ZeroTasksOf
  <2>2. M \in SUBSET Colors
    OBVIOUS
  <2> HIDE DEF f, M
  <2> QED BY <1>1, <2>1, <2>2, FS_Surjection, FS_Subset
<1>5. IsFiniteSet(ComputeTasksOf(l))
  <2> DEFINE M == {m \in Colors : Computed(l, m) # {}}
             f == [n \in M |-> ComputeTask(l, n)]
  <2>1. f \in Surjection(M, ComputeTasksOf(l))
    BY DEF Surjection, ComputeTasksOf
  <2>2. M \in SUBSET Colors
    OBVIOUS
  <2> HIDE DEF f, M
  <2> QED BY <1>1, <2>1, <2>2, FS_Surjection, FS_Subset
<1>6. IsFiniteSet(SendTasksOf(l))
  <2> DEFINE M == {m \in Colors : SentBy(l, m) # {}}
             f == [n \in M |-> SendTask(l, n)]
  <2>1. f \in Surjection(M, SendTasksOf(l))
    BY DEF Surjection, SendTasksOf
  <2>2. M \in SUBSET Colors
    OBVIOUS
  <2> HIDE DEF f, M
  <2> QED BY <1>1, <2>1, <2>2, FS_Surjection, FS_Subset
<1>7. IsFiniteSet(RecvTasksOf(l))
  <2> DEFINE M == {m \in Colors : Incoming(l, m) # {}}
             f == [n \in M |-> RecvTask(l, n)]
  <2>1. f \in Surjection(M, RecvTasksOf(l))
    BY DEF Surjection, RecvTasksOf
  <2>2. M \in SUBSET Colors
    OBVIOUS
  <2> HIDE DEF f, M
  <2> QED BY <1>1, <2>1, <2>2, FS_Surjection, FS_Subset
<1>8. CASE l = LastLevel
  BY <1>3, <1>8 DEF LevelTasks
<1>9. CASE l # LastLevel
  <2> DEFINE first == IF l = 0 THEN ReadTasksOf ELSE ComputeTasksOf(l)
             A == first \cup SendTasksOf(l)
             B == A \cup RecvTasksOf(l)
             C == B \cup ZeroTasksOf(l)
  <2>1. LevelTasks(l) = C
    BY <1>9 DEF LevelTasks
  <2>2. IsFiniteSet(first)
    BY <1>2, <1>5
  <2> HIDE DEF first
  <2>3. IsFiniteSet(A)
    BY <1>6, <2>2, FS_Union
  <2> HIDE DEF A
  <2>4. IsFiniteSet(B)
    BY <1>7, <2>3, FS_Union
  <2> HIDE DEF B
  <2>5. IsFiniteSet(C)
    BY <1>4, <2>4, FS_Union
  <2> QED BY <2>1, <2>5
<1> QED BY <1>8, <1>9

\* So have all levels together.
LEMMA GeneratedFinite ==
  ASSUME Colored, NEW k
  PROVE  IsFiniteSet(Generated(k))
<1> DEFINE D == {m \in 0 .. LastLevel : m < k}
           S == {LevelTasks(l) : l \in D}
           f == [l \in D |-> LevelTasks(l)]
<1>1. IsFiniteSet(0 .. LastLevel)
  BY StripeFacts, FS_Interval
<1>2. D \in SUBSET (0 .. LastLevel)
  OBVIOUS
<1>3. f \in Surjection(D, S)
  BY DEF Surjection
<1>4. \A T \in S : IsFiniteSet(T)
  BY LevelTasksFinite
<1>5. Generated(k) = UNION S
  BY DEF Generated
<1> HIDE DEF D, S, f
<1>6. IsFiniteSet(S)
  BY <1>1, <1>2, <1>3, FS_Subset, FS_Surjection
<1> QED BY <1>4, <1>5, <1>6, FS_UNION

\* A node computes a vertex in one task.
LEMMA ComputedOnce ==
  ASSUME Colored, NEW k, NEW t \in Generated(k), NEW u \in Generated(k),
         t.type = "compute", u.type = "compute", t.node = u.node,
         NEW v, v \in t.list, v \in u.list
  PROVE  t = u
<1>1. ASSUME NEW s \in Generated(k), s.type = "compute", v \in s.list
      PROVE  \E l \in 0 .. LastLevel : s = ComputeTask(l, s.node) /\ v \in VerticesOf(l)
  <2>1. PICK l \in 0 .. LastLevel : KindsOf(l, s)
    BY GeneratedKinds
  <2>2. s \in ComputeTasksOf(l)
    BY <1>1, <2>1 DEF KindsOf, ReadTasksOf, ZeroTasksOf, SendTasksOf, RecvTasksOf, PersistTasksOf,
       ReadTask, ZeroTask, SendTask, RecvTask, PersistTask
  <2>3. PICK n \in Colors : s = ComputeTask(l, n)
    BY <2>2 DEF ComputeTasksOf
  <2>4. s.node = n /\ s.list = Computed(l, n)
    BY <2>3 DEF ComputeTask
  <2>5. v \in VerticesOf(l)
    BY <1>1, <2>4 DEF Computed, RealOf
  <2> QED BY <2>3, <2>4, <2>5
<1>2. PICK l \in 0 .. LastLevel : t = ComputeTask(l, t.node) /\ v \in VerticesOf(l)
  BY <1>1
<1>3. PICK m \in 0 .. LastLevel : u = ComputeTask(m, u.node) /\ v \in VerticesOf(m)
  BY <1>1
<1>4. l = m
  BY <1>2, <1>3, StripeFacts
<1> QED BY <1>2, <1>3, <1>4

\* All tasks are good, and of the level that made them.
LEMMA GeneratedIsGood ==
  ASSUME Colored, NEW k, NEW t \in Generated(k)
  PROVE  GoodTask(t) /\ t.level \in 0 .. LastLevel /\ t.level < k /\ KindsOf(t.level, t)
         /\ IsOfLevel(t.level, t)
<1>1. PICK l \in 0 .. LastLevel : l < k /\ KindsOf(l, t)
  BY GeneratedKinds
<1>2. IsOfLevel(l, t)
  BY <1>1, KindsAreGood
<1>3. t.level = l /\ GoodTask(t)
  BY <1>2 DEF IsOfLevel
<1> QED BY <1>1, <1>2, <1>3

\* A vertex that is no concat vertex has a coefficient for each of its children.
LEMMA OthersAreWhole ==
  ASSUME Colored, NEW k, NEW t \in Generated(k), t.type = "compute", NEW v \in t.list
  PROVE  /\ t.level < LastLevel /\ v \in VerticesOf(t.level) /\ v \in Dag.nodes
         /\ v \notin ConcatsOf(stripe) => IsWhole(t, v)
<1>1. PICK l \in 0 .. LastLevel : l < k /\ KindsOf(l, t)
  BY GeneratedKinds
<1>2. l < LastLevel /\ t \in ComputeTasksOf(l)
  BY <1>1 DEF KindsOf, ReadTasksOf, ZeroTasksOf, SendTasksOf, RecvTasksOf, PersistTasksOf,
     ReadTask, ZeroTask, SendTask, RecvTask, PersistTask
<1>3. PICK n \in Colors : t = ComputeTask(l, n)
  BY <1>2 DEF ComputeTasksOf
<1> DEFINE vs == Computed(l, n)
<1>4. t.level = l /\ t.list = vs /\ t.items = ItemsOf(vs)
  BY <1>3 DEF ComputeTask
<1>5. v \in VerticesOf(l) /\ v \in Dag.nodes
  BY <1>4, StripeFacts DEF Computed, RealOf
<1> HIDE DEF vs
<1>6. t.items[v].srcs = Dag.childs[v] /\ t.items[v].coefs = Dag.coefs[v]
  BY <1>4 DEF ItemsOf
<1>7. \A w \in Dag.nodes \ ConcatsOf(stripe) : Len(Dag.coefs[w]) = Len(Dag.childs[w])
  BY DagsAssumption DEF Colored, Dag
<1>8. v \notin ConcatsOf(stripe) => Len(Dag.coefs[v]) = Len(Dag.childs[v])
  BY <1>5, <1>7
<1>9. v \notin ConcatsOf(stripe) => IsWhole(t, v)
  BY <1>6, <1>8 DEF IsWhole
<1> QED BY <1>2, <1>4, <1>5, <1>9

\* So what is read of a task is the task, but for its concat vertices.
LEMMA ReadsAreAs ==
  ASSUME Colored, NEW k, NEW t \in Generated(k)
  PROVE  ReadsAs(ReadBack(t), t)
<1> DEFINE r == ReadBack(t)
<1>1. GoodTask(t)
  BY GeneratedIsGood
<1>2. CASE t.type # "compute"
  <2>1. r = t
    BY <1>2 DEF ReadBack
  <2> QED BY <2>1 DEF ReadsAs
<1>3. CASE t.type = "compute"
  <2>1. /\ r.node = t.node /\ r.type = t.type /\ r.level = t.level /\ r.blk = t.blk
        /\ r.list = t.list /\ r.sendto = t.sendto /\ DOMAIN r.items = t.list
        /\ \A v \in t.list : r.items[v].srcs = t.items[v].srcs
    BY <1>1, <1>3, ReadBackIs
  <2>2. DOMAIN t.items = t.list
    <3>1. t.items = [v \in t.list |-> [srcs |-> t.items[v].srcs, coefs |-> t.items[v].coefs]]
      BY <1>1, <1>3 DEF GoodTask
    <3> QED BY <3>1
  <2>3. ASSUME NEW v \in t.list \ ConcatsOf(stripe)
        PROVE  /\ v \in r.same <=> v \in t.same
               /\ v \in r.diff <=> v \in t.diff
               /\ r.items[v] = t.items[v]
    <3>1. IsWhole(t, v)
      BY <1>3, OthersAreWhole
    <3> QED BY <1>1, <1>3, <3>1, WholeIsRead
  <2> HIDE DEF r
  <2>4. <<r.node, r.type, r.level, r.blk, r.list, r.sendto>>
           = <<t.node, t.type, t.level, t.blk, t.list, t.sendto>>
    BY <2>1
  <2>5. DOMAIN r.items = DOMAIN t.items /\ \A v \in DOMAIN t.items : r.items[v].srcs = t.items[v].srcs
    BY <2>1, <2>2
  <2> QED BY <2>3, <2>4, <2>5 DEF ReadsAs, r
<1> QED BY <1>2, <1>3

\* If the concat vertices are the last level, it is the task.
LEMMA ReadsAreExact ==
  ASSUME Colored, ConcatsAreLast(stripe), NEW k, NEW t \in Generated(k)
  PROVE  ReadBack(t) = t
<1>1. GoodTask(t) /\ t.level \in 0 .. LastLevel
  BY GeneratedIsGood
<1>2. VerticesOf(LastLevel) = ConcatsOf(stripe) /\ LastLevel \in 0 .. LastLevel
  BY StripeFacts DEF ConcatsAreLast, VerticesOf, LastLevel
<1>3. ASSUME t.type = "compute", NEW v \in t.list PROVE IsWhole(t, v)
  <2>1. t.level < LastLevel /\ v \in VerticesOf(t.level) /\ (v \notin ConcatsOf(stripe) => IsWhole(t, v))
    BY <1>3, OthersAreWhole
  <2>2. t.level # LastLevel
    BY <1>1, <2>1, StripeFacts
  <2>3. v \notin VerticesOf(LastLevel)
    BY <1>1, <1>2, <2>1, <2>2, StripeFacts
  <2> QED BY <1>2, <2>1, <2>3
<1> QED BY <1>1, <1>3, WholeTaskIsRead

\* Every node gets its tasks, as they are read.
LEMMA ReceivedAre ==
  ASSUME Colored, NEW k, tasks = Generated(k), NEW n
  PROVE  TasksReceived(n) = {ReadBack(t) : t \in TasksOf(n)}
<1> DEFINE S == TasksOf(n)
           sent == Listed(S)
           request == AgentCommand(0, 0, Len(sent))
           computed == {t \in S : t.type = "compute"}
           lists == UNION {t.list : t \in computed}
           items == [v \in lists |-> ItemCommand(CHOOSE t \in computed : v \in t.list, v)]
           taken == {<<t.level, Command(t)>> : t \in ToSet(SubSeq(sent, 1, request[4]))}
<1>1. TasksReceived(n) = {Resolved(n, c[1], c[2], items) : c \in taken}
  BY DEF TasksReceived
<1>2. S \in SUBSET Generated(k) /\ \A t \in S : t.node = n
  BY DEF TasksOf
<1>3. IsFiniteSet(S)
  BY <1>2, GeneratedFinite, FS_Subset
<1>4. sent \in Seq(S) /\ ToSet(sent) = S
  <2> HIDE DEF S
  <2> QED BY <1>3, ListedIs
<1>5. ToSet(SubSeq(sent, 1, request[4])) = S
  <2>1. request[4] = Len(sent)
    BY DEF AgentCommand
  <2> HIDE DEF sent, request, S
  <2> QED BY <1>4, <2>1, SubSeqFull
<1> HIDE DEF S, sent, request
<1>6. taken = {<<t.level, Command(t)>> : t \in S}
  BY <1>5
<1>7. ASSUME NEW t \in S, t.type = "compute", NEW v \in t.list
      PROVE  items[v] = ItemCommand(t, v)
  <2>1. t \in computed /\ v \in lists
    BY <1>7
  <2> DEFINE u == CHOOSE w \in computed : v \in w.list
  <2>2. u \in computed /\ v \in u.list
    BY <2>1
  <2>3. items[v] = ItemCommand(u, v)
    BY <2>1
  <2> HIDE DEF u
  <2>4. t \in Generated(k) /\ u \in Generated(k) /\ t.node = n /\ u.node = n /\ u.type = "compute"
    BY <1>2, <2>2
  <2> HIDE DEF items
  <2>5. t = u
    BY <1>7, <2>2, <2>4, ComputedOnce
  <2> QED BY <2>3, <2>5
<1> HIDE DEF items, computed, lists
<1>8. ASSUME NEW t \in S PROVE Resolved(n, t.level, Command(t), items) = ReadBack(t)
  <2>1. t \in Generated(k) /\ t.node = n
    BY <1>2
  <2>2. GoodTask(t)
    BY <2>1, GeneratedIsGood
  <2>3. Resolved(t.node, t.level, Command(t), items) = ReadBack(t)
    BY <1>7, <2>2, TasksAreRead
  <2> QED BY <2>1, <2>3
<1> DEFINE read(c) == Resolved(n, c[1], c[2], items)
           B == {ReadBack(t) : t \in S}
<1>9. ASSUME NEW t \in S
      PROVE  <<t.level, Command(t)>> \in taken /\ read(<<t.level, Command(t)>>) = ReadBack(t)
  BY <1>6, <1>8
<1>10. ASSUME NEW c \in taken PROVE read(c) \in B
  <2>1. PICK t \in S : c = <<t.level, Command(t)>>
    BY <1>6
  <2> QED BY <1>9, <2>1
<1>11. TasksReceived(n) = {read(c) : c \in taken}
  BY <1>1
<1>12. \A r \in B : \E t \in S : r = ReadBack(t)
  OBVIOUS
<1> HIDE DEF read, taken, B
<1>13. TasksReceived(n) = B
  BY <1>9, <1>10, <1>11, <1>12
<1> QED BY <1>13 DEF B, S

\* SendCommands makes of the tasks what is read of them.
LEMMA SendCommandsKeep ==
  ASSUME Inv, SendCommands
  PROVE  Colored /\ tasks = Generated(LastLevel + 1) /\ tasks' = {ReadBack(t) : t \in tasks}
<1>1. level = LastLevel + 1
  BY DEF SendCommands
<1>2. LastLevel \in Nat
  BY LevelsAre DEF Inv, LastLevel
<1>3. level >= 0 /\ level \in 0 .. LastLevel + 1
  BY <1>1, <1>2
<1>4. Colored /\ tasks = Generated(LastLevel + 1)
  BY <1>1, <1>3 DEF Inv, Colored
<1>5. tasks' = UNION {TasksReceived(n) : n \in TaskNodes}
  BY DEF SendCommands
<1>6. \A n \in TaskNodes : TasksReceived(n) = {ReadBack(t) : t \in TasksOf(n)}
  BY <1>4, ReceivedAre
<1>7. tasks' = UNION {{ReadBack(t) : t \in TasksOf(n)} : n \in TaskNodes}
  BY <1>5, <1>6
<1>8. \A t \in tasks : t.node \in TaskNodes /\ t \in TasksOf(t.node)
  BY DEF TasksOf, TaskNodes
<1>9. \A n : TasksOf(n) \subseteq tasks
  BY DEF TasksOf
<1>10. tasks' = {ReadBack(t) : t \in tasks}
  BY <1>7, <1>8, <1>9
<1> QED BY <1>4, <1>10

\* So it keeps the invariant.
LEMMA SendCommandsInv ==
  ASSUME Inv, SendCommands
  PROVE  Inv'
<1>1. Colored /\ tasks = Generated(LastLevel + 1) /\ tasks' = {ReadBack(t) : t \in tasks}
  BY SendCommandsKeep
<1>2. level = LastLevel + 1 /\ level' = level + 1 /\ UNCHANGED <<stripe, coloring>>
  BY DEF SendCommands
<1>3. LastLevel' = LastLevel /\ LastLevel \in Nat
  BY <1>1, <1>2, StripeFacts DEF LastLevel
<1>4. level' = LastLevel + 2
  BY <1>2, <1>3
<1>5. Generated(LastLevel + 1)' = Generated(LastLevel + 1)
  BY <1>2, AllSame
<1>6. tasks' = {ReadBack(t) : t \in Generated(LastLevel + 1)'}
  BY <1>1, <1>5
<1>7. level' \in -1 .. LastLevel + 2 /\ level' # -1 /\ level' \notin 0 .. LastLevel' + 1
  BY <1>3, <1>4
<1>8. stripe' \in Stripes /\ IsColoring(stripe', coloring') /\ IsRecolored(stripe', coloring')
  <2>1. level >= 0
    BY <1>2, <1>3
  <2> QED BY <1>1, <1>2, <2>1 DEF Inv, Colored
<1> QED BY <1>3, <1>4, <1>6, <1>7, <1>8 DEF Inv

----------------------------------------------------------------------------
(* Who fills a queue *)

\* The generated tasks, and what the nodes read of them.
All == Generated(LastLevel + 1)
Got == {ReadBack(t) : t \in All}

\* The tasks of each type, all levels together.
LEMMA TasksByType ==
  ASSUME Colored, NEW t \in All
  PROVE  /\ t.type = "read" =>
              \/ t.level = 0 /\ t.blk # ZeroBlock
                 /\ \E v \in RealOf(0) : t = ReadTask(coloring[v], v \div EcwOf[stripe])
              \/ t.level \in 0 .. LastLevel - 1 /\ t.node # NoColor /\ t = ZeroTask(t.level, t.node)
         /\ t.type = "compute" => /\ t.level \in 1 .. LastLevel - 1
                                  /\ t = ComputeTask(t.level, t.node)
         /\ t.type = "send" => /\ t.level \in 0 .. LastLevel - 1
                               /\ t = SendTask(t.level, t.node)
         /\ t.type = "recv" => /\ t.level \in 0 .. LastLevel - 1
                               /\ t = RecvTask(t.level, t.node)
         /\ t.type = "persist" => /\ t.level = LastLevel
                                  /\ \E v \in VerticesOf(LastLevel) : t = PersistTask(v)
         /\ t.type \in {"read", "compute", "send", "recv", "persist"}
         /\ t.node \in Colors /\ t.node \in Int
<1> DEFINE l == t.level
<1>1. LastLevel \in Nat /\ LastLevel > 0
  BY StripeFacts
<1>2. l \in 0 .. LastLevel /\ KindsOf(l, t) /\ IsOfLevel(l, t)
  BY GeneratedIsGood DEF All
<1>3. t.node \in Colors /\ t.node \in Int
  BY <1>2 DEF IsOfLevel
<1> HIDE DEF l
<1>4. CASE l = 0 /\ t \in ReadTasksOf
  <2>1. t.blk # ZeroBlock
    BY <1>4, ReadTasksAreGood
  <2>2. PICK v \in RealOf(0) : t = ReadTask(coloring[v], v \div EcwOf[stripe])
    BY <1>4 DEF ReadTasksOf
  <2>3. t.type = "read"
    BY <2>2 DEF ReadTask
  <2> QED BY <1>3, <1>4, <2>1, <2>2, <2>3 DEF l
<1>5. CASE l < LastLevel /\ t \in ZeroTasksOf(l)
  <2>1. PICK n \in Colors \ {NoColor} : t = ZeroTask(l, n)
    BY <1>5 DEF ZeroTasksOf
  <2>2. t.type = "read" /\ t.node = n
    BY <2>1 DEF ZeroTask
  <2>3. l \in 0 .. LastLevel - 1
    BY <1>1, <1>2, <1>5
  <2> QED BY <1>3, <2>1, <2>2, <2>3 DEF l
<1>6. CASE l > 0 /\ l < LastLevel /\ t \in ComputeTasksOf(l)
  <2>1. PICK n \in Colors : t = ComputeTask(l, n)
    BY <1>6 DEF ComputeTasksOf
  <2>2. t.type = "compute" /\ t.node = n
    BY <2>1 DEF ComputeTask
  <2>3. l \in 1 .. LastLevel - 1
    BY <1>1, <1>2, <1>6
  <2> QED BY <1>3, <2>1, <2>2, <2>3 DEF l
<1>7. CASE l < LastLevel /\ t \in SendTasksOf(l)
  <2>1. PICK n \in Colors : t = SendTask(l, n)
    BY <1>7 DEF SendTasksOf
  <2>2. t.type = "send" /\ t.node = n
    BY <2>1 DEF SendTask
  <2>3. l \in 0 .. LastLevel - 1
    BY <1>1, <1>2, <1>7
  <2> QED BY <1>3, <2>1, <2>2, <2>3 DEF l
<1>8. CASE l < LastLevel /\ t \in RecvTasksOf(l)
  <2>1. PICK n \in Colors : t = RecvTask(l, n)
    BY <1>8 DEF RecvTasksOf
  <2>2. t.type = "recv" /\ t.node = n
    BY <2>1 DEF RecvTask
  <2>3. l \in 0 .. LastLevel - 1
    BY <1>1, <1>2, <1>8
  <2> QED BY <1>3, <2>1, <2>2, <2>3 DEF l
<1>9. CASE l = LastLevel /\ t \in PersistTasksOf
  <2>1. PICK v \in VerticesOf(LastLevel) : t = PersistTask(v)
    BY <1>9 DEF PersistTasksOf
  <2>2. t.type = "persist"
    BY <2>1 DEF PersistTask
  <2> QED BY <1>3, <1>9, <2>1, <2>2 DEF l
<1> QED BY <1>2, <1>4, <1>5, <1>6, <1>7, <1>8, <1>9 DEF KindsOf

\* The tasks that there are.
LEMMA TasksThatAre ==
  ASSUME Colored, NEW l \in 0 .. LastLevel - 1
  PROVE  /\ \A v \in RealOf(0) : ReadTask(coloring[v], v \div EcwOf[stripe]) \in All
         /\ \A n \in Colors : n # NoColor /\ Zeros(l, n) # {} => ZeroTask(l, n) \in All
         /\ l > 0 => \A n \in Colors : Computed(l, n) # {} => ComputeTask(l, n) \in All
         /\ \A n \in Colors : SentBy(l, n) # {} => SendTask(l, n) \in All
         /\ \A n \in Colors : Incoming(l, n) # {} => RecvTask(l, n) \in All
         /\ \A v \in VerticesOf(LastLevel) : PersistTask(v) \in All
<1>1. LastLevel \in Nat /\ LastLevel > 0
  BY StripeFacts
<1>2. /\ l \in 0 .. LastLevel /\ 0 \in 0 .. LastLevel /\ LastLevel \in 0 .. LastLevel
      /\ l < LastLevel + 1 /\ 0 < LastLevel + 1 /\ LastLevel < LastLevel + 1 /\ l < LastLevel
  BY <1>1
<1>3. \A t, m : m \in 0 .. LastLevel /\ m < LastLevel + 1 /\ KindsOf(m, t) => t \in All
  BY GeneratedKinds DEF All
<1>4. \A v \in RealOf(0) : ReadTask(coloring[v], v \div EcwOf[stripe]) \in All
  <2>1. \A v \in RealOf(0) : KindsOf(0, ReadTask(coloring[v], v \div EcwOf[stripe]))
    BY DEF KindsOf, ReadTasksOf
  <2> QED BY <1>2, <1>3, <2>1
<1>5. \A n \in Colors : n # NoColor /\ Zeros(l, n) # {} => ZeroTask(l, n) \in All
  <2>1. \A n \in Colors : n # NoColor /\ Zeros(l, n) # {} => KindsOf(l, ZeroTask(l, n))
    BY <1>2 DEF KindsOf, ZeroTasksOf
  <2> QED BY <1>2, <1>3, <2>1
<1>6. l > 0 => \A n \in Colors : Computed(l, n) # {} => ComputeTask(l, n) \in All
  <2>1. l > 0 => \A n \in Colors : Computed(l, n) # {} => KindsOf(l, ComputeTask(l, n))
    BY <1>2 DEF KindsOf, ComputeTasksOf
  <2> QED BY <1>2, <1>3, <2>1
<1>7. \A n \in Colors : SentBy(l, n) # {} => SendTask(l, n) \in All
  <2>1. \A n \in Colors : SentBy(l, n) # {} => KindsOf(l, SendTask(l, n))
    BY <1>2 DEF KindsOf, SendTasksOf
  <2> QED BY <1>2, <1>3, <2>1
<1>8. \A n \in Colors : Incoming(l, n) # {} => RecvTask(l, n) \in All
  <2>1. \A n \in Colors : Incoming(l, n) # {} => KindsOf(l, RecvTask(l, n))
    BY <1>2 DEF KindsOf, RecvTasksOf
  <2> QED BY <1>2, <1>3, <2>1
<1>9. \A v \in VerticesOf(LastLevel) : PersistTask(v) \in All
  <2>1. \A v \in VerticesOf(LastLevel) : KindsOf(LastLevel, PersistTask(v))
    BY DEF KindsOf, PersistTasksOf
  <2> QED BY <1>2, <1>3, <2>1
<1> QED BY <1>4, <1>5, <1>6, <1>7, <1>8, <1>9

----------------------------------------------------------------------------
(* The queues *)

\* Who pushes vertex v, of level l, to the local queue of node n, and to its queue of
\* outgoing packets.
LocalFeeder(l, n, v) ==
  IF v \notin RealOf(l) THEN ZeroTask(l, n)
  ELSE IF coloring[v] # n THEN RecvTask(l, n)
  ELSE IF l = 0 THEN ReadTask(n, v \div EcwOf[stripe]) ELSE ComputeTask(l, n)
OutFeeder(l, n, v) ==
  IF l = 0 THEN ReadTask(n, v \div EcwOf[stripe]) ELSE ComputeTask(l, n)

\* The levels below the last.
Below == 0 .. LastLevel - 1

\* What the read task of a block pushes: the vertices of the block.
LEMMA ReadFeeds ==
  ASSUME Colored, NEW u \in RealOf(0),
         NEW t, t = ReadTask(coloring[u], u \div EcwOf[stripe])
  PROVE  /\ \A v : <<"local", v>> \in Pushes(t) <=>
              v \in RealOf(0) /\ v \div EcwOf[stripe] = t.blk /\ coloring[v] = t.node /\ Same(v)
         /\ \A v : <<"out", v>> \in Pushes(t) <=>
              v \in RealOf(0) /\ v \div EcwOf[stripe] = t.blk /\ coloring[v] = t.node /\ Diff(v)
<1> DEFINE b == u \div EcwOf[stripe]
<1>1. /\ t.type = "read" /\ t.node = coloring[u] /\ t.blk = b /\ t.same = SameOf(Block(b))
      /\ t.diff = DiffOf(Block(b))
  BY DEF ReadTask
<1> HIDE DEF b
<1>2. Pushes(t) = {<<"local", v>> : v \in t.same} \cup {<<"out", v>> : v \in t.diff}
  BY <1>1 DEF Pushes
<1>3. /\ \A v : <<"local", v>> \in Pushes(t) <=> v \in t.same
      /\ \A v : <<"out", v>> \in Pushes(t) <=> v \in t.diff
  BY <1>2
<1>4. \A v \in Block(b) : coloring[v] = coloring[u]
  <2> SUFFICES ASSUME NEW v \in Block(b) PROVE coloring[v] = coloring[u]
    OBVIOUS
  <2>1. /\ v \in LevelsOf[stripe][0] /\ u \in LevelsOf[stripe][0]
        /\ ~ IsZero(stripe, coloring, v) /\ v \div EcwOf[stripe] = u \div EcwOf[stripe]
    BY DEF Block, RealOf, VerticesOf, b
  <2> QED BY <2>1 DEF Colored, IsColoring
<1>5. \A v : v \in Block(b) <=> v \in RealOf(0) /\ v \div EcwOf[stripe] = b
  BY DEF Block
<1> QED BY <1>1, <1>3, <1>4, <1>5 DEF SameOf, DiffOf

\* What a task of each other type pushes.
LEMMA OthersFeed ==
  ASSUME Colored, NEW t \in All, ~ (t.type = "read" /\ t.blk # ZeroBlock)
  PROVE  /\ \A v : <<"local", v>> \in Pushes(t) <=>
              \/ t.type = "read" /\ v \in Zeros(t.level, t.node)
              \/ t.type = "compute" /\ v \in Computed(t.level, t.node) /\ Same(v)
              \/ t.type = "recv" /\ v \in Incoming(t.level, t.node)
         /\ \A v : <<"out", v>> \in Pushes(t) <=>
              t.type = "compute" /\ v \in Computed(t.level, t.node) /\ Diff(v)
<1>1. t.type \in {"read", "compute", "send", "recv", "persist"}
  BY TasksByType
<1>2. CASE t.type = "read"
  <2>1. t = ZeroTask(t.level, t.node)
    BY <1>2, TasksByType
  <2> DEFINE vs == Zeros(t.level, t.node)
  <2>2. t.same = vs /\ t.diff = {}
    BY <2>1 DEF ZeroTask
  <2> HIDE DEF vs
  <2>3. Pushes(t) = {<<"local", v>> : v \in vs}
    BY <1>2, <2>2 DEF Pushes
  <2>4. /\ \A v : <<"local", v>> \in Pushes(t) <=> v \in vs
        /\ \A v : <<"out", v>> \notin Pushes(t)
    BY <2>3
  <2> QED BY <1>2, <2>4 DEF vs
<1>3. CASE t.type = "compute"
  <2>1. t = ComputeTask(t.level, t.node)
    BY <1>3, TasksByType
  <2> DEFINE vs == Computed(t.level, t.node)
  <2>2. t.same = SameOf(vs) /\ t.diff = DiffOf(vs)
    BY <2>1 DEF ComputeTask
  <2> HIDE DEF vs
  <2>3. Pushes(t) = {<<"local", v>> : v \in t.same} \cup {<<"out", v>> : v \in t.diff}
    BY <1>3 DEF Pushes
  <2>4. /\ \A v : <<"local", v>> \in Pushes(t) <=> v \in t.same
        /\ \A v : <<"out", v>> \in Pushes(t) <=> v \in t.diff
    BY <2>3
  <2>5. /\ \A v : <<"local", v>> \in Pushes(t) <=> v \in vs /\ Same(v)
        /\ \A v : <<"out", v>> \in Pushes(t) <=> v \in vs /\ Diff(v)
    BY <2>2, <2>4 DEF SameOf, DiffOf
  <2> QED BY <1>3, <2>5 DEF vs
<1>4. CASE t.type = "recv"
  <2>1. t = RecvTask(t.level, t.node)
    BY <1>4, TasksByType
  <2> DEFINE vs == Incoming(t.level, t.node)
  <2>2. t.list = vs
    BY <2>1 DEF RecvTask
  <2> HIDE DEF vs
  <2>3. Pushes(t) = {<<"local", v>> : v \in vs}
    BY <1>4, <2>2 DEF Pushes
  <2>4. /\ \A v : <<"local", v>> \in Pushes(t) <=> v \in vs
        /\ \A v : <<"out", v>> \notin Pushes(t)
    BY <2>3
  <2> QED BY <1>4, <2>4 DEF vs
<1>5. CASE t.type \in {"send", "persist"}
  <2>1. Pushes(t) = {}
    BY <1>5 DEF Pushes
  <2> QED BY <1>5, <2>1
<1> QED BY <1>1, <1>2, <1>3, <1>4, <1>5

\* Which queues a task pops.
LEMMA PopsAre ==
  ASSUME Colored, NEW t \in All
  PROVE  /\ \A c : <<"local", c>> \in Pops(t) <=>
              \/ t.type = "compute" /\ \E v \in Computed(t.level, t.node) : c \in ChildsOf(Dag, v)
              \/ t.type = "persist" /\ c \in t.list
         /\ \A v : <<"out", v>> \in Pops(t) <=> t.type = "send" /\ v \in SentBy(t.level, t.node)
         /\ \A q \in Pops(t) : \E v : q = <<"local", v>> \/ q = <<"out", v>>
<1>1. t.type \in {"read", "compute", "send", "recv", "persist"}
  BY TasksByType
<1>2. CASE t.type = "compute"
  <2>1. t = ComputeTask(t.level, t.node)
    BY <1>2, TasksByType
  <2> DEFINE vs == Computed(t.level, t.node)
             cs == UNION {ToSet(t.items[v].srcs) : v \in t.list}
  <2>2. t.list = vs /\ t.items = ItemsOf(vs)
    BY <2>1 DEF ComputeTask
  <2> HIDE DEF vs
  <2>3. \A v \in vs : ToSet(t.items[v].srcs) = ChildsOf(Dag, v)
    BY <2>2 DEF ItemsOf, ChildsOf
  <2>4. \A c : c \in cs <=> \E v \in vs : c \in ChildsOf(Dag, v)
    BY <2>2, <2>3
  <2>5. Pops(t) = {<<"local", c>> : c \in cs}
    BY <1>2 DEF Pops
  <2> HIDE DEF cs
  <2>6. /\ \A c : <<"local", c>> \in Pops(t) <=> c \in cs
        /\ \A v : <<"out", v>> \notin Pops(t)
        /\ \A q \in Pops(t) : \E v : q = <<"local", v>>
    BY <2>5
  <2> QED BY <1>2, <2>4, <2>6 DEF vs
<1>3. CASE t.type = "persist"
  <2>1. Pops(t) = {<<"local", c>> : c \in t.list}
    BY <1>3 DEF Pops
  <2>2. /\ \A c : <<"local", c>> \in Pops(t) <=> c \in t.list
        /\ \A v : <<"out", v>> \notin Pops(t)
        /\ \A q \in Pops(t) : \E v : q = <<"local", v>>
    BY <2>1
  <2> QED BY <1>3, <2>2
<1>4. CASE t.type = "send"
  <2>1. t = SendTask(t.level, t.node)
    BY <1>4, TasksByType
  <2> DEFINE vs == SentBy(t.level, t.node)
  <2>2. t.list = vs
    BY <2>1 DEF SendTask
  <2> HIDE DEF vs
  <2>3. Pops(t) = {<<"out", v>> : v \in vs}
    BY <1>4, <2>2 DEF Pops
  <2>4. /\ \A v : <<"out", v>> \in Pops(t) <=> v \in vs
        /\ \A v : <<"local", v>> \notin Pops(t)
        /\ \A q \in Pops(t) : \E v : q = <<"out", v>>
    BY <2>3
  <2> QED BY <1>4, <2>4 DEF vs
<1>5. CASE t.type \in {"read", "recv"}
  <2>1. Pops(t) = {}
    BY <1>5 DEF Pops
  <2> QED BY <1>5, <2>1
<1> QED BY <1>1, <1>2, <1>3, <1>4, <1>5

\* A task pushes to local queues and to the queues of outgoing packets.
LEMMA PushesAre ==
  ASSUME NEW t, NEW q \in Pushes(t)
  PROVE  \E v : q = <<"local", v>> \/ q = <<"out", v>>
<1>1. CASE t.type \in {"read", "compute"}
  <2>1. Pushes(t) = {<<"local", v>> : v \in t.same} \cup {<<"out", v>> : v \in t.diff}
    BY <1>1 DEF Pushes
  <2> QED BY <2>1
<1>2. CASE t.type = "recv"
  BY <1>2 DEF Pushes
<1>3. CASE t.type \notin {"read", "compute", "recv"}
  BY <1>3 DEF Pushes
<1> QED BY <1>1, <1>2, <1>3

\* The feeders are tasks, of their vertex's level and node.
LEMMA LocalFeederIs ==
  ASSUME Colored, NEW l \in Below, NEW v \in VerticesOf(l),
         NEW n \in ParentColors(v), n # NoColor
  PROVE  /\ LocalFeeder(l, n, v) \in All
         /\ LocalFeeder(l, n, v).node = n /\ LocalFeeder(l, n, v).level = l
         /\ <<"local", v>> \in Pushes(LocalFeeder(l, n, v))
<1>1. l \in 0 .. LastLevel /\ l \in 0 .. LastLevel - 1 /\ 0 \in 0 .. LastLevel
  BY StripeFacts DEF Below
<1>2. v \in Dag.nodes /\ n \in Colors
  BY <1>1, StripeFacts, ColorsAre
<1> DEFINE t == LocalFeeder(l, n, v)
<1>3. CASE v \notin RealOf(l)
  <2>1. t = ZeroTask(l, n) /\ v \in Zeros(l, n)
    BY <1>3 DEF LocalFeeder, Zeros
  <2>2. t \in All
    BY <1>1, <1>2, <2>1, TasksThatAre
  <2>3. t.type = "read" /\ t.blk = ZeroBlock /\ t.node = n /\ t.level = l
    BY <2>1 DEF ZeroTask
  <2> HIDE DEF t
  <2>4. <<"local", v>> \in Pushes(t)
    BY <2>1, <2>2, <2>3, OthersFeed
  <2> QED BY <2>2, <2>3, <2>4 DEF t
<1>4. CASE v \in RealOf(l) /\ coloring[v] # n
  <2>1. t = RecvTask(l, n) /\ v \in Incoming(l, n)
    BY <1>4 DEF LocalFeeder, Incoming, SendTo
  <2>2. t \in All
    BY <1>1, <1>2, <2>1, TasksThatAre
  <2>3. t.type = "recv" /\ t.node = n /\ t.level = l
    BY <2>1 DEF RecvTask
  <2> HIDE DEF t
  <2>4. <<"local", v>> \in Pushes(t)
    BY <2>1, <2>2, <2>3, OthersFeed
  <2> QED BY <2>2, <2>3, <2>4 DEF t
<1>5. CASE v \in RealOf(l) /\ coloring[v] = n /\ l = 0
  <2>1. t = ReadTask(coloring[v], v \div EcwOf[stripe]) /\ v \in RealOf(0) /\ Same(v)
    BY <1>5 DEF LocalFeeder, Same
  <2>2. t \in All
    BY <1>1, <2>1, TasksThatAre
  <2>3. t.node = n /\ t.level = l /\ t.blk = v \div EcwOf[stripe]
    BY <1>5, <2>1 DEF ReadTask
  <2> HIDE DEF t
  <2>4. <<"local", v>> \in Pushes(t)
    BY <1>5, <2>1, <2>3, ReadFeeds
  <2> QED BY <2>2, <2>3, <2>4 DEF t
<1>6. CASE v \in RealOf(l) /\ coloring[v] = n /\ l # 0
  <2>1. t = ComputeTask(l, n) /\ v \in Computed(l, n) /\ Same(v) /\ l > 0
    BY <1>1, <1>6 DEF LocalFeeder, Same, Computed
  <2>2. t \in All
    BY <1>1, <1>2, <2>1, TasksThatAre
  <2>3. t.type = "compute" /\ t.node = n /\ t.level = l
    BY <2>1 DEF ComputeTask
  <2> HIDE DEF t
  <2>4. <<"local", v>> \in Pushes(t)
    BY <2>1, <2>2, <2>3, OthersFeed
  <2> QED BY <2>2, <2>3, <2>4 DEF t
<1> QED BY <1>3, <1>4, <1>5, <1>6

\* The feeder of an outgoing queue is a task, of its vertex's level and node.
LEMMA OutFeederIs ==
  ASSUME Colored, NEW l \in Below, NEW v \in RealOf(l), NEW n, n = coloring[v], Diff(v)
  PROVE  /\ OutFeeder(l, n, v) \in All
         /\ OutFeeder(l, n, v).node = n /\ OutFeeder(l, n, v).level = l
         /\ <<"out", v>> \in Pushes(OutFeeder(l, n, v))
<1>1. l \in 0 .. LastLevel /\ l \in 0 .. LastLevel - 1 /\ 0 \in 0 .. LastLevel
  BY StripeFacts DEF Below
<1>2. v \in Dag.nodes /\ n \in Colors
  BY <1>1, RealParents, ColorsAre
<1> DEFINE t == OutFeeder(l, n, v)
<1>5. CASE l = 0
  <2>1. t = ReadTask(coloring[v], v \div EcwOf[stripe]) /\ v \in RealOf(0)
    BY <1>5 DEF OutFeeder
  <2>2. t \in All
    BY <1>1, <2>1, TasksThatAre
  <2>3. t.node = n /\ t.level = l /\ t.blk = v \div EcwOf[stripe]
    BY <1>5, <2>1 DEF ReadTask
  <2> HIDE DEF t
  <2>4. <<"out", v>> \in Pushes(t)
    BY <2>1, <2>3, ReadFeeds
  <2> QED BY <2>2, <2>3, <2>4 DEF t
<1>6. CASE l # 0
  <2>1. t = ComputeTask(l, n) /\ v \in Computed(l, n) /\ l > 0
    BY <1>1, <1>6 DEF OutFeeder, Computed
  <2>2. t \in All
    BY <1>1, <1>2, <2>1, TasksThatAre
  <2>3. t.type = "compute" /\ t.node = n /\ t.level = l
    BY <2>1 DEF ComputeTask
  <2> HIDE DEF t
  <2>4. <<"out", v>> \in Pushes(t)
    BY <2>1, <2>2, <2>3, OthersFeed
  <2> QED BY <2>2, <2>3, <2>4 DEF t
<1> QED BY <1>5, <1>6

\* The read tasks are those of blocks and those of zeros, apart.
LEMMA ZeroBlocks ==
  ASSUME Colored, NEW t \in All, t.type = "read", t.blk # ZeroBlock
  PROVE  \E u \in RealOf(0) : t.level = 0 /\ t = ReadTask(coloring[u], u \div EcwOf[stripe])
<1>1. CASE t.level \in 0 .. LastLevel - 1 /\ t = ZeroTask(t.level, t.node)
  <2>1. t.blk = ZeroBlock
    BY <1>1 DEF ZeroTask
  <2> QED BY <2>1
<1> QED BY <1>1, TasksByType

\* The read tasks of zero blocks are at real nodes.
LEMMA ZeroTasksByNode ==
  ASSUME Colored, NEW t \in All, t.type = "read", t.blk = ZeroBlock
  PROVE  t.level \in Below /\ t.node # NoColor /\ t = ZeroTask(t.level, t.node)
BY TasksByType DEF Below

\* Only the feeders push.
LEMMA LocalPushers ==
  ASSUME Colored, NEW t \in All, NEW v, <<"local", v>> \in Pushes(t)
  PROVE  /\ t.level \in Below /\ v \in VerticesOf(t.level)
         /\ t.node \in ParentColors(v) /\ t.node # NoColor
         /\ t = LocalFeeder(t.level, t.node, v)
<1>1. /\ \A l \in Below : l \in 0 .. LastLevel
      /\ 1 .. LastLevel - 1 \subseteq Below /\ 0 \in Below
  BY StripeFacts DEF Below
<1>2. CASE t.type = "read" /\ t.blk # ZeroBlock
  <2>2. PICK u \in RealOf(0) : t.level = 0 /\ t = ReadTask(coloring[u], u \div EcwOf[stripe])
    BY <1>2, ZeroBlocks
  <2>1. t.level = 0
    BY <2>2
  <2>3. v \in RealOf(0) /\ v \div EcwOf[stripe] = t.blk /\ coloring[v] = t.node /\ Same(v)
    BY <2>2, ReadFeeds
  <2>4. t.blk = u \div EcwOf[stripe] /\ t.node = coloring[u]
    BY <2>2 DEF ReadTask
  <2>5. t = LocalFeeder(0, t.node, v)
    BY <2>2, <2>3, <2>4 DEF LocalFeeder
  <2>6. v \in VerticesOf(0) /\ t.node \in ParentColors(v) /\ t.node # NoColor
    BY <1>1, <2>3, RealParents DEF Same
  <2> QED BY <1>1, <2>1, <2>5, <2>6
<1>3. CASE t.type = "read" /\ t.blk = ZeroBlock /\ v \in Zeros(t.level, t.node)
  <2>1. t.level \in Below /\ t.node # NoColor /\ t = ZeroTask(t.level, t.node)
    BY <1>3, ZeroTasksByNode
  <2> QED BY <1>3, <2>1 DEF LocalFeeder, Zeros
<1>4. CASE t.type = "compute" /\ v \in Computed(t.level, t.node) /\ Same(v)
  <2>1. t.level \in 1 .. LastLevel - 1 /\ t = ComputeTask(t.level, t.node)
    BY <1>4, TasksByType
  <2>2. t.level \in Below /\ t.level # 0 /\ t.level \in 0 .. LastLevel
    BY <1>1, <2>1
  <2>3. v \in RealOf(t.level) /\ coloring[v] = t.node
    BY <1>4 DEF Computed
  <2>4. v \in VerticesOf(t.level) /\ t.node # NoColor /\ t.node \in ParentColors(v)
    BY <1>4, <2>2, <2>3, RealParents DEF Same
  <2>5. t = LocalFeeder(t.level, t.node, v)
    BY <2>1, <2>2, <2>3 DEF LocalFeeder
  <2> QED BY <2>2, <2>4, <2>5
<1>5. CASE t.type = "recv" /\ v \in Incoming(t.level, t.node)
  <2>1. t.level \in Below /\ t = RecvTask(t.level, t.node)
    BY <1>5, TasksByType DEF Below
  <2>2. t.level \in 0 .. LastLevel
    BY <1>1, <2>1
  <2>3. v \in RealOf(t.level) /\ t.node \in SendTo(v)
    BY <1>5 DEF Incoming
  <2>4. coloring[v] # t.node /\ t.node \in ParentColors(v)
    BY <2>3 DEF SendTo
  <2>5. v \in VerticesOf(t.level) /\ t.node # NoColor
    BY <2>2, <2>3, <2>4, RealParents
  <2>6. t = LocalFeeder(t.level, t.node, v)
    BY <2>1, <2>3, <2>4 DEF LocalFeeder
  <2> QED BY <2>1, <2>4, <2>5, <2>6
<1> QED BY <1>2, <1>3, <1>4, <1>5, OthersFeed

\* Only the feeder of an outgoing queue pushes to it.
LEMMA OutPushers ==
  ASSUME Colored, NEW t \in All, NEW v, <<"out", v>> \in Pushes(t)
  PROVE  /\ t.level \in Below /\ v \in RealOf(t.level)
         /\ t.node = coloring[v] /\ Diff(v)
         /\ t = OutFeeder(t.level, t.node, v)
<1>1. 1 .. LastLevel - 1 \subseteq Below /\ 0 \in Below
  BY StripeFacts DEF Below
<1>2. CASE t.type = "read" /\ t.blk # ZeroBlock
  <2>2. PICK u \in RealOf(0) : t.level = 0 /\ t = ReadTask(coloring[u], u \div EcwOf[stripe])
    BY <1>2, ZeroBlocks
  <2>1. t.level = 0
    BY <2>2
  <2>3. v \in RealOf(0) /\ v \div EcwOf[stripe] = t.blk /\ coloring[v] = t.node /\ Diff(v)
    BY <2>2, ReadFeeds
  <2>4. t.blk = u \div EcwOf[stripe] /\ t.node = coloring[u]
    BY <2>2 DEF ReadTask
  <2>5. t = OutFeeder(0, t.node, v)
    BY <2>2, <2>3, <2>4 DEF OutFeeder
  <2> QED BY <1>1, <2>1, <2>3, <2>5
<1>3. CASE ~ (t.type = "read" /\ t.blk # ZeroBlock)
  <2>1. t.type = "compute" /\ v \in Computed(t.level, t.node) /\ Diff(v)
    BY <1>3, OthersFeed
  <2>2. t.level \in 1 .. LastLevel - 1 /\ t = ComputeTask(t.level, t.node)
    BY <2>1, TasksByType
  <2>3. t.level \in Below /\ t.level # 0
    BY <1>1, <2>2
  <2>4. v \in RealOf(t.level) /\ coloring[v] = t.node
    BY <2>1 DEF Computed
  <2>5. t = OutFeeder(t.level, t.node, v)
    BY <2>2, <2>3 DEF OutFeeder
  <2> QED BY <2>1, <2>3, <2>4, <2>5
<1> QED BY <1>2, <1>3

----------------------------------------------------------------------------
(* Who empties a queue *)

\* A task pops the vertices below it that its node computes from.
LEMMA LocalPoppers ==
  ASSUME Colored, NEW t \in All, NEW c, <<"local", c>> \in Pops(t)
  PROVE  /\ t.node # NoColor
         /\ \E p \in ParentsOf(Dag, c) :
              /\ coloring[p] = t.node /\ p \in VerticesOf(t.level)
              /\ \/ t.level \in 1 .. LastLevel - 1 /\ t = ComputeTask(t.level, t.node)
                 \/ t.level = LastLevel /\ t = PersistTask(p)
         /\ \E l \in Below : l < t.level /\ c \in VerticesOf(l)
         /\ t.node \in ParentColors(c)
<1>1. LastLevel \in Nat /\ LastLevel > 0
  BY StripeFacts
<1>2. t.node # NoColor
      /\ \E p \in ParentsOf(Dag, c) :
           /\ coloring[p] = t.node /\ p \in VerticesOf(t.level)
           /\ \/ t.level \in 1 .. LastLevel - 1 /\ t = ComputeTask(t.level, t.node)
              \/ t.level = LastLevel /\ t = PersistTask(p)
  <2>1. CASE t.type = "compute" /\ \E v \in Computed(t.level, t.node) : c \in ChildsOf(Dag, v)
    <3>1. PICK p \in Computed(t.level, t.node) : c \in ChildsOf(Dag, p)
      BY <2>1
    <3>2. t.level \in 1 .. LastLevel - 1 /\ t = ComputeTask(t.level, t.node)
      BY <2>1, TasksByType
    <3>3. t.level \in 0 .. LastLevel
      BY <1>1, <3>2
    <3>4. p \in RealOf(t.level) /\ coloring[p] = t.node
      BY <3>1 DEF Computed
    <3>5. p \in Dag.nodes /\ p \in VerticesOf(t.level) /\ t.node # NoColor
      BY <3>3, <3>4, RealParents
    <3>6. p \in ParentsOf(Dag, c)
      BY <3>1, <3>5 DEF ParentsOf
    <3> QED BY <3>2, <3>4, <3>5, <3>6
  <2>2. CASE t.type = "persist" /\ c \in t.list
    <3>1. t.level = LastLevel
      BY <2>2, TasksByType
    <3>2. PICK p \in VerticesOf(LastLevel) : t = PersistTask(p)
      BY <2>2, TasksByType
    <3>3. t.list = ChildsOf(Dag, p) /\ t.node = coloring[p]
      BY <3>2 DEF PersistTask
    <3>4. p \in Dag.nodes
      BY <1>1, StripeFacts
    <3>5. coloring[p] # NoColor
      BY DEF Colored, IsColoring, VerticesOf, LastLevel
    <3>6. p \in ParentsOf(Dag, c)
      BY <2>2, <3>3, <3>4 DEF ParentsOf
    <3> QED BY <3>1, <3>2, <3>3, <3>5, <3>6
  <2> QED BY <2>1, <2>2, PopsAre
<1>3. PICK p \in ParentsOf(Dag, c) : coloring[p] = t.node /\ p \in VerticesOf(t.level)
  BY <1>2
<1>4. t.level \in 0 .. LastLevel
  BY <1>1, <1>2
<1>5. c \in ChildsOf(Dag, p)
  BY DEF ParentsOf
<1>6. PICK l \in 0 .. t.level - 1 : c \in VerticesOf(l)
  BY <1>3, <1>4, <1>5, StripeFacts
<1>7. l \in Below /\ l < t.level
  BY <1>1, <1>4, <1>6 DEF Below
<1>8. t.node \in ParentColors(c)
  BY <1>3 DEF ParentColors
<1> QED BY <1>2, <1>6, <1>7, <1>8

\* Only the send task of a vertex pops its outgoing queue.
LEMMA OutPoppers ==
  ASSUME Colored, NEW t \in All, NEW v, <<"out", v>> \in Pops(t)
  PROVE  /\ t.type = "send" /\ t.level \in Below /\ t = SendTask(t.level, t.node)
         /\ v \in RealOf(t.level) /\ coloring[v] = t.node /\ Diff(v)
<1>1. t.type = "send" /\ v \in SentBy(t.level, t.node)
  BY PopsAre
<1>2. t.level \in Below /\ t = SendTask(t.level, t.node)
  BY <1>1, TasksByType DEF Below
<1> QED BY <1>1, <1>2 DEF SentBy

\* A vertex that is popped has parents, so it is no concat vertex.
LEMMA PoppedIsNoConcat ==
  ASSUME Colored, NEW t \in All, NEW q \in Pops(t)
  PROVE  q[2] \notin ConcatsOf(stripe)
<1>1. \A v \in ConcatsOf(stripe) : ParentsOf(Dag, v) = {}
  BY ConcatIs
<1>2. ASSUME NEW c, q = <<"local", c>> PROVE q[2] \notin ConcatsOf(stripe)
  <2>1. ParentsOf(Dag, c) # {}
    BY <1>2, LocalPoppers
  <2> QED BY <1>1, <1>2, <2>1
<1>3. ASSUME NEW v, q = <<"out", v>> PROVE q[2] \notin ConcatsOf(stripe)
  <2>1. Diff(v)
    BY <1>3, OutPoppers
  <2>2. ParentsOf(Dag, v) # {}
    BY <2>1 DEF Diff, SendTo, ParentColors
  <2> QED BY <1>1, <1>3, <2>2
<1> QED BY <1>2, <1>3, PopsAre

\* What a node reads of a task differs in the uses of concat vertices only.
LEMMA OthersAreRead ==
  ASSUME Colored, NEW r, r.type # "compute"
  PROVE  r \in Got <=> r \in All
<1>1. \A t \in All : GoodTask(t)
  BY GeneratedIsGood DEF All
<1>2. ASSUME r \in Got PROVE r \in All
  <2>1. PICK t \in All : r = ReadBack(t)
    BY <1>2 DEF Got
  <2>2. GoodTask(t)
    BY <1>1
  <2>3. t.type # "compute"
    BY <2>1, <2>2, ReadBackIs
  <2>4. r = t
    BY <2>1, <2>3 DEF ReadBack
  <2> QED BY <2>4
<1>3. ASSUME r \in All PROVE r \in Got
  <2>1. r = ReadBack(r)
    BY DEF ReadBack
  <2> QED BY <1>3, <2>1 DEF Got
<1> QED BY <1>2, <1>3

\* So it pops the same queues, and pushes to the same but for concat vertices.
LEMMA QueuesAreSame ==
  ASSUME Colored, NEW t \in All
  PROVE  /\ ReadBack(t).node = t.node /\ ReadBack(t).level = t.level
         /\ ReadBack(t).type = t.type
         /\ Pops(ReadBack(t)) = Pops(t)
         /\ \A q : q[2] \notin ConcatsOf(stripe) => (q \in Pushes(ReadBack(t)) <=> q \in Pushes(t))
<1> DEFINE r == ReadBack(t)
<1>1. GoodTask(t)
  BY GeneratedIsGood DEF All
<1>2. CASE t.type # "compute"
  <2>1. r = t
    BY <1>2 DEF ReadBack
  <2> QED BY <2>1
<1>3. CASE t.type = "compute"
  <2>1. /\ r.node = t.node /\ r.level = t.level /\ r.type = t.type /\ r.list = t.list
        /\ r.same \subseteq t.list /\ r.diff \subseteq t.list
        /\ \A v \in t.list : r.items[v].srcs = t.items[v].srcs
    BY <1>1, <1>3, ReadBackIs
  <2>2. t.same \subseteq t.list /\ t.diff \subseteq t.list
    BY <1>1 DEF GoodTask
  <2>3. ASSUME NEW v, v \notin ConcatsOf(stripe)
        PROVE  (v \in r.same <=> v \in t.same) /\ (v \in r.diff <=> v \in t.diff)
    <3>1. CASE v \in t.list
      <4>1. IsWhole(t, v)
        BY <1>3, <2>3, <3>1, OthersAreWhole DEF All
      <4> QED BY <1>1, <1>3, <3>1, <4>1, WholeIsRead
    <3>2. CASE v \notin t.list
      BY <2>1, <2>2, <3>2
    <3> QED BY <3>1, <3>2
  <2> HIDE DEF r
  <2>4. Pops(r) = Pops(t)
    <3> DEFINE below(u) == {ToSet(u.items[v].srcs) : v \in u.list}
    <3>1. below(r) = below(t)
      BY <2>1
    <3>2. Pops(r) = {<<"local", c>> : c \in UNION below(r)}
      BY <1>3, <2>1 DEF Pops
    <3>3. Pops(t) = {<<"local", c>> : c \in UNION below(t)}
      BY <1>3 DEF Pops
    <3> HIDE DEF below
    <3> QED BY <3>1, <3>2, <3>3
  <2>5. ASSUME NEW q, q[2] \notin ConcatsOf(stripe)
        PROVE  q \in Pushes(r) <=> q \in Pushes(t)
    <3>1. Pushes(r) = {<<"local", v>> : v \in r.same} \cup {<<"out", v>> : v \in r.diff}
      BY <1>3, <2>1 DEF Pushes
    <3>2. Pushes(t) = {<<"local", v>> : v \in t.same} \cup {<<"out", v>> : v \in t.diff}
      BY <1>3 DEF Pushes
    <3>3. ASSUME NEW v, q = <<"local", v>> PROVE q \in Pushes(r) <=> q \in Pushes(t)
      <4>1. v \notin ConcatsOf(stripe)
        BY <2>5, <3>3
      <4> QED BY <2>3, <3>1, <3>2, <3>3, <4>1
    <3>4. ASSUME NEW v, q = <<"out", v>> PROVE q \in Pushes(r) <=> q \in Pushes(t)
      <4>1. v \notin ConcatsOf(stripe)
        BY <2>5, <3>4
      <4> QED BY <2>3, <3>1, <3>2, <3>4, <4>1
    <3> QED BY <3>3, <3>4, PushesAre
  <2>6. r.node = t.node /\ r.level = t.level /\ r.type = t.type
    BY <2>1
  <2> QED BY <2>4, <2>5, <2>6 DEF r
<1> QED BY <1>2, <1>3

----------------------------------------------------------------------------
(* The queues connect the tasks in pairs *)

\* The task of t's node that fills a queue, before t can pop it.
IsFeeder(f, t, q) ==
  /\ f \in All /\ f.node = t.node /\ q \in Pushes(f)
  /\ f.level < t.level \/ (t.type = "send" /\ f.level = t.level)
  /\ \A u \in All : u.node = t.node /\ q \in Pushes(u) => u = f

\* Every queue that a task pops has one feeder at its node, the stripe threads' only order.
LEMMA AllAreFed ==
  ASSUME Colored, NEW t \in All, NEW q \in Pops(t)
  PROVE  \E f : IsFeeder(f, t, q)
<1> DEFINE feeders == {u \in All : u.node = t.node /\ q \in Pushes(u)}
<1>1. \A u : u \in feeders <=> u \in All /\ u.node = t.node /\ q \in Pushes(u)
  OBVIOUS
<1>2. /\ \A l \in Below : l \in 0 .. LastLevel
      /\ \A l, m \in 0 .. LastLevel : \A v \in VerticesOf(l) : v \in VerticesOf(m) => l = m
  BY StripeFacts DEF Below
<1> HIDE DEF feeders
<1>4. ASSUME NEW c, q = <<"local", c>>
      PROVE  \E f : feeders = {f} /\ f.level < t.level
  <2>1. <<"local", c>> \in Pops(t)
    BY <1>4
  <2>2. t.node # NoColor /\ t.node \in ParentColors(c)
    BY <2>1, LocalPoppers
  <2>3. PICK l \in Below : l < t.level /\ c \in VerticesOf(l)
    BY <2>1, LocalPoppers
  <2> DEFINE f == LocalFeeder(l, t.node, c)
  <2>4. f \in All /\ f.node = t.node /\ f.level = l /\ q \in Pushes(f)
    BY <1>4, <2>2, <2>3, LocalFeederIs
  <2>5. ASSUME NEW u \in feeders PROVE u = f
    <3>1. u \in All /\ u.node = t.node /\ <<"local", c>> \in Pushes(u)
      BY <1>1, <1>4
    <3>2. u.level \in Below /\ c \in VerticesOf(u.level) /\ u = LocalFeeder(u.level, u.node, c)
      BY <3>1, LocalPushers
    <3>3. u.level = l
      BY <1>2, <2>3, <3>2
    <3> QED BY <3>1, <3>2, <3>3
  <2> HIDE DEF f
  <2> QED BY <1>1, <2>3, <2>4, <2>5
<1>5. ASSUME NEW v, q = <<"out", v>>
      PROVE  \E f : feeders = {f} /\ t.type = "send" /\ f.level = t.level
  <2>1. /\ t.type = "send" /\ t.level \in Below /\ v \in RealOf(t.level)
        /\ coloring[v] = t.node /\ Diff(v)
    BY <1>5, OutPoppers
  <2> DEFINE f == OutFeeder(t.level, t.node, v)
  <2>4. f \in All /\ f.node = t.node /\ f.level = t.level /\ q \in Pushes(f)
    BY <1>5, <2>1, OutFeederIs
  <2>5. ASSUME NEW u \in feeders PROVE u = f
    <3>1. u \in All /\ u.node = t.node /\ <<"out", v>> \in Pushes(u)
      BY <1>1, <1>5
    <3>2. u.level \in Below /\ v \in RealOf(u.level) /\ u = OutFeeder(u.level, u.node, v)
      BY <3>1, OutPushers
    <3>3. u.level = t.level
      BY <1>2, <2>1, <3>2 DEF RealOf
    <3> QED BY <3>1, <3>2, <3>3
  <2> HIDE DEF f
  <2> QED BY <1>1, <2>1, <2>4, <2>5
<1>6. \E v : q = <<"local", v>> \/ q = <<"out", v>>
  BY PopsAre
<1>7. ASSUME NEW f, feeders = {f}, f.level < t.level \/ (t.type = "send" /\ f.level = t.level)
      PROVE  IsFeeder(f, t, q)
  BY <1>1, <1>7 DEF IsFeeder
<1> QED BY <1>4, <1>5, <1>6, <1>7

\* It fills it also as the nodes have read it.
LEMMA GotAreFed ==
  ASSUME Colored, tasks = Got
  PROVE  InputsAreFed
<1> SUFFICES ASSUME NEW r \in Got, NEW q \in Pops(r)
             PROVE  LET feeders == {u \in TasksOf(r.node) : q \in Pushes(u)}
                    IN  /\ Cardinality(feeders) = 1
                        /\ \A u \in feeders :
                             u.level < r.level \/ (r.type = "send" /\ u.level = r.level)
  BY DEF InputsAreFed
<1> DEFINE feeders == {u \in TasksOf(r.node) : q \in Pushes(u)}
<1>1. \A u : u \in feeders <=> u \in Got /\ u.node = r.node /\ q \in Pushes(u)
  BY DEF TasksOf
<1>2. PICK t \in All : r = ReadBack(t)
  BY DEF Got
<1>3. r.node = t.node /\ r.level = t.level /\ r.type = t.type /\ q \in Pops(t)
  BY <1>2, QueuesAreSame
<1>4. q[2] \notin ConcatsOf(stripe)
  BY <1>3, PoppedIsNoConcat
<1>5. PICK f : IsFeeder(f, t, q)
  BY <1>3, AllAreFed
<1>6. f \in All /\ f.node = t.node /\ q \in Pushes(f)
  BY <1>5 DEF IsFeeder
<1> DEFINE g == ReadBack(f)
<1>7. g.node = f.node /\ g.level = f.level /\ q \in Pushes(g) /\ g \in Got
  BY <1>4, <1>6, QueuesAreSame DEF Got
<1>8. ASSUME NEW u \in Got, u.node = t.node, q \in Pushes(u)
      PROVE  u = g
  <2>1. PICK w \in All : u = ReadBack(w)
    BY DEF Got
  <2>2. u.node = w.node /\ (q \in Pushes(u) <=> q \in Pushes(w))
    BY <1>4, <2>1, QueuesAreSame
  <2>3. w = f
    BY <1>5, <1>8, <2>2 DEF IsFeeder
  <2> QED BY <2>1, <2>3
<1> HIDE DEF feeders, g
<1>9. feeders = {g}
  BY <1>1, <1>3, <1>6, <1>7, <1>8
<1>10. g.level < r.level \/ (r.type = "send" /\ g.level = r.level)
  BY <1>3, <1>5, <1>7 DEF IsFeeder
<1>11. /\ Cardinality(feeders) = 1
       /\ \A u \in feeders : u.level < r.level \/ (r.type = "send" /\ u.level = r.level)
  BY <1>9, <1>10, FS_Singleton
<1> QED BY <1>11 DEF feeders

\* The parents of a vertex that are of one level and node pop it, by one task.
LEMMA UsedIsPopped ==
  ASSUME Colored, NEW v, NEW p \in ParentsOf(Dag, v), NEW n, coloring[p] = n, n # NoColor,
         NEW m \in 0 .. LastLevel, p \in VerticesOf(m)
  PROVE  \E u \in All : u.node = n /\ u.level = m /\ <<"local", v>> \in Pops(u)
<1>1. LastLevel \in Nat /\ LastLevel > 0
  BY StripeFacts
<1>2. p \in Dag.nodes /\ v \in ChildsOf(Dag, p)
  BY DEF ParentsOf
<1>3. m # 0
  <2>1. \E k \in 0 .. m - 1 : v \in VerticesOf(k)
    BY <1>2, StripeFacts
  <2> QED BY <2>1
<1>4. CASE m = LastLevel
  <2> DEFINE u == PersistTask(p)
  <2>1. u \in All
    <3>1. 0 \in 0 .. LastLevel - 1
      BY <1>1
    <3> QED BY <1>4, <3>1, TasksThatAre
  <2>2. u.type = "persist" /\ u.node = n /\ u.level = m /\ u.list = ChildsOf(Dag, p)
    BY <1>4 DEF PersistTask
  <2> HIDE DEF u
  <2>3. <<"local", v>> \in Pops(u)
    BY <1>2, <2>1, <2>2, PopsAre
  <2> QED BY <2>1, <2>2, <2>3
<1>5. CASE m # LastLevel
  <2> DEFINE u == ComputeTask(m, n)
  <2>1. p \in RealOf(m)
    BY <1>1, <1>3, RealIs
  <2>2. p \in Computed(m, n) /\ n \in Colors
    BY <1>2, <2>1, ColorsAre DEF Computed
  <2>3. u \in All
    <3>1. m \in 0 .. LastLevel - 1 /\ m > 0
      BY <1>1, <1>3, <1>5
    <3> QED BY <2>2, <3>1, TasksThatAre
  <2>4. u.type = "compute" /\ u.node = n /\ u.level = m
    BY DEF ComputeTask
  <2> HIDE DEF u
  <2>5. <<"local", v>> \in Pops(u)
    BY <1>2, <2>2, <2>3, <2>4, PopsAre
  <2> QED BY <2>3, <2>4, <2>5
<1> QED BY <1>4, <1>5

\* Every queue that a task fills is emptied: by a parent of the vertex, or by its send task.
LEMMA AllIsRead ==
  ASSUME Colored, NEW t \in All, NEW q \in Pushes(t)
  PROVE  \E u \in All : u.node = t.node /\ q \in Pops(u)
<1>1. LastLevel \in Nat /\ LastLevel > 0
  BY StripeFacts
<1>2. ASSUME NEW v, q = <<"local", v>>
      PROVE  \E u \in All : u.node = t.node /\ q \in Pops(u)
  <2>1. t.node \in ParentColors(v) /\ t.node # NoColor
    BY <1>2, LocalPushers
  <2>2. PICK p \in ParentsOf(Dag, v) : coloring[p] = t.node
    BY <2>1 DEF ParentColors
  <2>3. p \in Dag.nodes
    BY DEF ParentsOf
  <2>4. PICK m \in 0 .. LastLevel : p \in VerticesOf(m)
    BY <2>3, StripeFacts
  <2> QED BY <1>2, <2>1, <2>2, <2>4, UsedIsPopped
<1>3. ASSUME NEW v, q = <<"out", v>>
      PROVE  \E u \in All : u.node = t.node /\ q \in Pops(u)
  <2>1. t.level \in Below /\ v \in RealOf(t.level) /\ t.node = coloring[v] /\ Diff(v)
    BY <1>3, OutPushers
  <2>2. v \in SentBy(t.level, t.node) /\ t.node \in Colors
    BY <2>1, TasksByType DEF SentBy
  <2> DEFINE u == SendTask(t.level, t.node)
  <2>3. u \in All
    BY <2>1, <2>2, TasksThatAre DEF Below
  <2>4. u.type = "send" /\ u.node = t.node /\ u.level = t.level
    BY DEF SendTask
  <2> HIDE DEF u
  <2>5. q \in Pops(u)
    BY <1>3, <2>2, <2>3, <2>4, PopsAre
  <2> QED BY <2>3, <2>4, <2>5
<1> QED BY <1>2, <1>3, PushesAre

\* Also as the nodes have read them, but for what is computed for a concat vertex.
LEMMA GotIsRead ==
  ASSUME Colored, tasks = Got
  PROVE  NothingUnread
<1> SUFFICES ASSUME NEW r \in Got, NEW q \in Pushes(r), q[2] \notin ConcatsOf(stripe)
             PROVE  \E u \in Got : u.node = r.node /\ q \in Pops(u)
  BY DEF NothingUnread, TasksOf
<1>1. PICK t \in All : r = ReadBack(t)
  BY DEF Got
<1>2. r.node = t.node /\ q \in Pushes(t)
  BY <1>1, QueuesAreSame
<1>3. PICK u \in All : u.node = t.node /\ q \in Pops(u)
  BY <1>2, AllIsRead
<1>4. ReadBack(u).node = u.node /\ q \in Pops(ReadBack(u)) /\ ReadBack(u) \in Got
  BY <1>3, QueuesAreSame DEF Got
<1> QED BY <1>2, <1>3, <1>4

\* A number below w, and a multiple of w, determine their sum.
LEMMA BlockOfSum ==
  ASSUME NEW w \in Nat, NEW b \in Nat, NEW c \in Nat, NEW o \in 1 .. w, NEW r \in 1 .. w,
         b * w + o - 1 = c * w + r - 1
  PROVE  ~ b < c
<1> SUFFICES ASSUME b < c PROVE FALSE
  OBVIOUS
<1> DEFINE d == c - b
<1>1. d \in Nat /\ d >= 1 /\ c = b + d
  OBVIOUS
<1>2. c * w = b * w + d * w
  BY <1>1
<1>3. d * w >= w
  BY <1>1
<1> DEFINE x == b * w
           y == d * w
           z == c * w
<1>4. x \in Int /\ y \in Int /\ z \in Int
  BY <1>1
<1>5. z = x + y /\ y >= w /\ x + o - 1 = z + r - 1
  BY <1>2, <1>3
<1> HIDE DEF x, y, z
<1> QED BY <1>4, <1>5

\* No sub-packet is in two blocks.
LEMMA BlocksApart ==
  ASSUME NEW w \in Nat, NEW b \in Nat, NEW c \in Nat, NEW v,
         v \in ToSet(SubPackets(b, w)), v \in ToSet(SubPackets(c, w))
  PROVE  b = c
<1>1. PICK o \in 1 .. w : v = b * w + o - 1
  BY DEF ToSet, SubPackets
<1>2. PICK r \in 1 .. w : v = c * w + r - 1
  BY DEF ToSet, SubPackets
<1>3. ~ b < c
  BY <1>1, <1>2, BlockOfSum
<1>4. ~ c < b
  BY <1>1, <1>2, BlockOfSum
<1> QED BY <1>3, <1>4

\* The tasks of a node that pop a local queue are of different levels, and only one pops a
\* queue of outgoing packets.
LEMMA ReadersApart ==
  ASSUME Colored, NEW t \in All, NEW u \in All, t.node = u.node,
         NEW q \in Pops(t), q \in Pops(u), q[1] = "local" => t.level = u.level
  PROVE  t = u
<1>1. /\ LastLevel \in Nat /\ LastLevel > 0
      /\ \A l, m \in 0 .. LastLevel : \A v \in VerticesOf(l) : v \in VerticesOf(m) => l = m
  BY StripeFacts
<1>2. ASSUME NEW c, q = <<"local", c>>
      PROVE  t = u
  <2>1. PICK p \in ParentsOf(Dag, c) :
          /\ coloring[p] = t.node /\ p \in VerticesOf(t.level)
          /\ \/ t.level \in 1 .. LastLevel - 1 /\ t = ComputeTask(t.level, t.node)
             \/ t.level = LastLevel /\ t = PersistTask(p)
    BY <1>2, LocalPoppers
  <2>2. PICK r \in ParentsOf(Dag, c) :
          /\ coloring[r] = u.node /\ r \in VerticesOf(u.level)
          /\ \/ u.level \in 1 .. LastLevel - 1 /\ u = ComputeTask(u.level, u.node)
             \/ u.level = LastLevel /\ u = PersistTask(r)
    BY <1>2, LocalPoppers
  <2>3. t.node # NoColor
    BY <1>2, LocalPoppers
  <2>4. t.level \in 0 .. LastLevel /\ u.level \in 0 .. LastLevel
    BY <1>1, <2>1, <2>2
  <2>5. t.level = u.level
    BY <1>2
  <2>6. CASE t.level # LastLevel
    BY <2>1, <2>2, <2>5, <2>6
  <2>7. CASE t.level = LastLevel
    <3>1. t = PersistTask(p) /\ u = PersistTask(r) /\ p \in VerticesOf(LastLevel)
          /\ r \in VerticesOf(LastLevel)
      BY <1>1, <2>1, <2>2, <2>5, <2>7
    <3>2. PICK b \in FailedOf[stripe] : p = Requestor - b
      BY <3>1, ConcatIs
    <3>3. PICK d \in FailedOf[stripe] : r = Requestor - d
      BY <3>1, ConcatIs
    <3>4. c \in ChildsOf(Dag, p) /\ c \in ChildsOf(Dag, r)
      BY DEF ParentsOf
    <3>5. /\ c \in ToSet(SubPackets(b, EcwOf[stripe])) /\ c \in ToSet(SubPackets(d, EcwOf[stripe]))
          /\ b \in Nat /\ d \in Nat /\ EcwOf[stripe] \in Nat
      BY <3>2, <3>3, <3>4, ConcatIs, StripeFacts
    <3>6. b = d
      BY <3>5, BlocksApart
    <3> QED BY <3>1, <3>2, <3>3, <3>6
  <2> QED BY <2>6, <2>7
<1>3. ASSUME NEW v, q = <<"out", v>>
      PROVE  t = u
  <2>1. t.level \in Below /\ t = SendTask(t.level, t.node) /\ v \in RealOf(t.level)
    BY <1>3, OutPoppers
  <2>2. u.level \in Below /\ u = SendTask(u.level, u.node) /\ v \in RealOf(u.level)
    BY <1>3, OutPoppers
  <2>3. t.level = u.level
    BY <1>1, <2>1, <2>2 DEF RealOf, Below
  <2> QED BY <2>1, <2>2, <2>3
<1> QED BY <1>2, <1>3, PopsAre

\* They are those of the levels on which the node uses the vertex.
LEMMA ReadersAre ==
  ASSUME Colored, NEW n, n # NoColor, NEW v, NEW l
  PROVE  l \in UsedOn(n, v) <=> \E u \in All : u.node = n /\ u.level = l /\ <<"local", v>> \in Pops(u)
<1>1. ASSUME l \in UsedOn(n, v)
      PROVE  \E u \in All : u.node = n /\ u.level = l /\ <<"local", v>> \in Pops(u)
  <2>1. l \in 0 .. LastLevel /\ \E p \in ParentsOf(Dag, v) : coloring[p] = n /\ p \in VerticesOf(l)
    BY <1>1 DEF UsedOn
  <2> QED BY <2>1, UsedIsPopped
<1>2. ASSUME NEW u \in All, u.node = n, u.level = l, <<"local", v>> \in Pops(u)
      PROVE  l \in UsedOn(n, v)
  <2>1. \E p \in ParentsOf(Dag, v) :
          /\ coloring[p] = u.node /\ p \in VerticesOf(u.level)
          /\ u.level \in 1 .. LastLevel - 1 \/ u.level = LastLevel
    BY <1>2, LocalPoppers
  <2>2. l \in 0 .. LastLevel
    BY <1>2, <2>1, StripeFacts
  <2> QED BY <1>2, <2>1, <2>2 DEF UsedOn
<1> QED BY <1>1, <1>2

\* Both hold of the tasks as the nodes have read them.
LEMMA GotHaveReaders ==
  ASSUME Colored, tasks = Got
  PROVE  OneReader
<1> SUFFICES ASSUME NEW r \in Got, NEW q \in Pops(r)
             PROVE  IF q[1] = "local"
                    THEN {u.level : u \in {w \in TasksOf(r.node) : q \in Pops(w)}}
                           = UsedOn(r.node, q[2])
                         /\ \A u \in TasksOf(r.node) : q \in Pops(u) /\ u.level = r.level => u = r
                    ELSE \A u \in TasksOf(r.node) : q \in Pops(u) => u = r
  BY DEF OneReader
<1>1. PICK t \in All : r = ReadBack(t)
  BY DEF Got
<1>2. r.node = t.node /\ r.level = t.level /\ q \in Pops(t)
  BY <1>1, QueuesAreSame
<1>3. ASSUME NEW u \in TasksOf(r.node), q \in Pops(u), q[1] = "local" => u.level = r.level
      PROVE  u = r
  <2>1. u \in Got /\ u.node = r.node
    BY DEF TasksOf
  <2>2. PICK w \in All : u = ReadBack(w)
    BY <2>1 DEF Got
  <2>3. u.node = w.node /\ u.level = w.level /\ q \in Pops(w)
    BY <1>3, <2>2, QueuesAreSame
  <2>4. t = w
    BY <1>2, <1>3, <2>1, <2>3, ReadersApart
  <2> QED BY <1>1, <2>2, <2>4
<1>4. ASSUME q[1] = "local"
      PROVE  {u.level : u \in {w \in TasksOf(r.node) : q \in Pops(w)}} = UsedOn(r.node, q[2])
  <2>1. PICK v : q = <<"local", v>>
    BY <1>2, <1>4, PopsAre
  <2>2. t.node # NoColor
    BY <1>2, <2>1, LocalPoppers
  <2> DEFINE S == {w \in TasksOf(r.node) : q \in Pops(w)}
  <2>3. \A w : w \in S <=> w \in Got /\ w.node = t.node /\ q \in Pops(w)
    BY <1>2 DEF TasksOf
  <2>4. ASSUME NEW w \in S PROVE w.level \in UsedOn(t.node, v)
    <3>1. w \in Got /\ w.node = t.node /\ q \in Pops(w)
      BY <2>3
    <3>2. PICK x \in All : w = ReadBack(x)
      BY <3>1 DEF Got
    <3>3. x.node = t.node /\ w.level = x.level /\ <<"local", v>> \in Pops(x)
      BY <2>1, <3>1, <3>2, QueuesAreSame
    <3> QED BY <2>2, <3>3, ReadersAre
  <2>5. ASSUME NEW l \in UsedOn(t.node, v) PROVE \E w \in S : w.level = l
    <3>1. PICK x \in All : x.node = t.node /\ x.level = l /\ <<"local", v>> \in Pops(x)
      BY <2>2, ReadersAre
    <3>2. /\ ReadBack(x).node = x.node /\ ReadBack(x).level = x.level
          /\ q \in Pops(ReadBack(x)) /\ ReadBack(x) \in Got
      BY <2>1, <3>1, QueuesAreSame DEF Got
    <3> QED BY <2>3, <3>1, <3>2
  <2> HIDE DEF S
  <2>6. {u.level : u \in S} = UsedOn(t.node, v)
    BY <2>4, <2>5
  <2> QED BY <1>2, <2>1, <2>6 DEF S
<1>5. \A u \in TasksOf(r.node) : q \in Pops(u) /\ u.level = r.level => u = r
  BY <1>3
<1>6. q[1] # "local" => \A u \in TasksOf(r.node) : q \in Pops(u) => u = r
  BY <1>3
<1> QED BY <1>4, <1>5, <1>6

\* No two tasks pop a queue if what a node computes from a sub-packet is of one level.
LEMMA AllHaveOneReader ==
  ASSUME Colored, SharesByLevel(stripe, coloring),
         NEW t \in All, NEW u \in All, t.node = u.node, NEW q \in Pops(t), q \in Pops(u)
  PROVE  t = u
<1>1. /\ LastLevel \in Nat /\ LastLevel > 0
      /\ \A l, m \in 0 .. LastLevel : \A v \in VerticesOf(l) : v \in VerticesOf(m) => l = m
  BY StripeFacts
<1>2. ASSUME NEW c, q = <<"local", c>> PROVE t.level = u.level
  <2>1. PICK p \in ParentsOf(Dag, c) :
          /\ coloring[p] = t.node /\ p \in VerticesOf(t.level)
          /\ t.level \in 1 .. LastLevel - 1 \/ t.level = LastLevel
    BY <1>2, LocalPoppers
  <2>2. PICK r \in ParentsOf(Dag, c) :
          /\ coloring[r] = u.node /\ r \in VerticesOf(u.level)
          /\ u.level \in 1 .. LastLevel - 1 \/ u.level = LastLevel
    BY <1>2, LocalPoppers
  <2>3. t.node # NoColor
    BY <1>2, LocalPoppers
  <2>4. t.level \in 0 .. LastLevel /\ u.level \in 0 .. LastLevel
    BY <1>1, <2>1, <2>2
  <2>5. t.level = u.level
    <3>1. PICK l \in Below : c \in VerticesOf(l)
      BY <1>2, LocalPoppers
    <3>2. c \in DagOf[stripe].nodes
      BY <1>1, <3>1, StripeFacts DEF Below, Dag
    <3>3. PICK m \in 0 .. LastOf[stripe] : {p, r} \subseteq LevelsOf[stripe][m]
      BY <2>1, <2>2, <2>3, <3>2 DEF SharesByLevel, Dag
    <3>4. m \in 0 .. LastLevel /\ p \in VerticesOf(m) /\ r \in VerticesOf(m)
      BY <3>3 DEF LastLevel, VerticesOf
    <3> QED BY <1>1, <2>1, <2>2, <2>4, <3>4
  <2> QED BY <2>5
<1>3. q[1] = "local" => t.level = u.level
  BY <1>2, PopsAre
<1> QED BY <1>3, ReadersApart

----------------------------------------------------------------------------

\* A failed block whose concat vertex is on the last level has one persist task, with all its
\* sub-packets; another one has none.
LEMMA AllPersist ==
  ASSUME Colored, NEW b \in FailedOf[stripe]
  PROVE  {t \in All : t.type = "persist" /\ t.blk = b}
           = IF Requestor - b \in VerticesOf(LastLevel)
             THEN {[node |-> coloring[Requestor - b], type |-> "persist",
                    level |-> LastLevel, blk |-> b,
                    list |-> ToSet(SubPackets(b, EcwOf[stripe])),
                    same |-> {}, diff |-> {}, sendto |-> <<>>, items |-> <<>>]}
             ELSE {}
<1> DEFINE p == Requestor - b
<1>1. Requestor - p = b /\ ChildsOf(Dag, p) = ToSet(SubPackets(b, EcwOf[stripe]))
  BY ConcatIs
<1>2. PersistTask(p) = [node |-> coloring[Requestor - b], type |-> "persist",
                        level |-> LastLevel, blk |-> b,
                        list |-> ToSet(SubPackets(b, EcwOf[stripe])),
                        same |-> {}, diff |-> {}, sendto |-> <<>>, items |-> <<>>]
  BY <1>1 DEF PersistTask
<1>3. PersistTask(p).type = "persist" /\ PersistTask(p).blk = b
  BY <1>1 DEF PersistTask
<1>4. p \in VerticesOf(LastLevel) => PersistTask(p) \in All
  <2>1. 0 \in 0 .. LastLevel - 1
    BY StripeFacts
  <2> QED BY <2>1, TasksThatAre
<1>5. ASSUME NEW t \in All, t.type = "persist", t.blk = b
      PROVE  t = PersistTask(p) /\ p \in VerticesOf(LastLevel)
  <2>1. PICK v \in VerticesOf(LastLevel) : t = PersistTask(v)
    BY <1>5, TasksByType
  <2>2. PICK d \in FailedOf[stripe] : v = Requestor - d
    BY <2>1, ConcatIs
  <2>3. t.blk = Requestor - v
    BY <2>1 DEF PersistTask
  <2>4. d = b
    BY <1>5, <2>2, <2>3, ConcatIs
  <2> QED BY <2>1, <2>2, <2>4
<1> HIDE DEF p
<1> DEFINE S == {t \in All : t.type = "persist" /\ t.blk = b}
<1>6. p \in VerticesOf(LastLevel) => S = {PersistTask(p)}
  BY <1>3, <1>4, <1>5
<1>7. p \notin VerticesOf(LastLevel) => S = {}
  BY <1>5
<1> HIDE DEF S
<1>8. S = IF p \in VerticesOf(LastLevel) THEN {PersistTask(p)} ELSE {}
  BY <1>6, <1>7
<1> QED BY <1>2, <1>8 DEF S, p

\* These are the tasks of the nodes.
LEMMA GotPersist ==
  ASSUME Colored, tasks = Got
  PROVE  AllPersisted
<1>1. \A b \in FailedOf[stripe] : {t \in tasks : t.type = "persist" /\ t.blk = b}
                                    = {t \in All : t.type = "persist" /\ t.blk = b}
  BY OthersAreRead
<1> QED BY <1>1, AllPersist DEF AllPersisted

----------------------------------------------------------------------------
(* Sends and receives, and the length of commands *)

\* Who sends vertex v to node n.
LEMMA SendersAre ==
  ASSUME Colored, NEW l \in 0 .. LastLevel, NEW v \in VerticesOf(l), NEW n, NEW t
  PROVE  t \in All /\ t.type = "send" /\ v \in t.list /\ n \in t.sendto[v]
           <=> l < LastLevel /\ v \in Incoming(l, n) /\ t = SendTask(l, coloring[v])
<1>1. /\ \A k, m \in 0 .. LastLevel : \A w \in VerticesOf(k) : w \in VerticesOf(m) => k = m
      /\ LastLevel \in Nat /\ v \in Dag.nodes
  BY StripeFacts
<1>2. ASSUME NEW k, NEW m, NEW u, u = SendTask(k, m)
      PROVE  /\ u.type = "send" /\ u.level = k /\ u.node = m /\ u.list = SentBy(k, m)
             /\ \A w \in SentBy(k, m) : u.sendto[w] = SendTo(w)
  <2> DEFINE vs == SentBy(k, m)
  <2>1. u.type = "send" /\ u.level = k /\ u.node = m /\ u.list = vs /\ u.sendto = SendToOf(vs)
    BY <1>2 DEF SendTask
  <2> HIDE DEF vs
  <2>2. \A w \in vs : u.sendto[w] = SendTo(w)
    BY <2>1 DEF SendToOf
  <2> QED BY <2>1, <2>2 DEF vs
<1>3. ASSUME t \in All, t.type = "send", v \in t.list, n \in t.sendto[v]
      PROVE  l < LastLevel /\ v \in Incoming(l, n) /\ t = SendTask(l, coloring[v])
  <2>1. t.level \in 0 .. LastLevel - 1 /\ t = SendTask(t.level, t.node)
    BY <1>3, TasksByType
  <2>2. v \in SentBy(t.level, t.node) /\ t.sendto[v] = SendTo(v)
    BY <1>2, <1>3, <2>1
  <2>3. v \in RealOf(t.level) /\ coloring[v] = t.node
    BY <2>2 DEF SentBy
  <2>4. t.level = l
    BY <1>1, <2>1, <2>3 DEF RealOf
  <2>5. l < LastLevel
    BY <1>1, <2>1, <2>4
  <2>6. v \in Incoming(l, n)
    BY <1>3, <2>2, <2>3, <2>4 DEF Incoming
  <2> QED BY <2>1, <2>3, <2>4, <2>5, <2>6
<1>4. ASSUME l < LastLevel, v \in Incoming(l, n), t = SendTask(l, coloring[v])
      PROVE  t \in All /\ t.type = "send" /\ v \in t.list /\ n \in t.sendto[v]
  <2>1. v \in RealOf(l) /\ n \in SendTo(v)
    BY <1>4 DEF Incoming
  <2>2. v \in SentBy(l, coloring[v])
    BY <2>1 DEF SentBy, Diff
  <2>3. coloring[v] \in Colors /\ l \in 0 .. LastLevel - 1
    BY <1>1, <1>4, ColorsAre
  <2>4. t \in All
    BY <1>4, <2>2, <2>3, TasksThatAre
  <2> QED BY <1>2, <1>4, <2>1, <2>2, <2>4
<1> QED BY <1>3, <1>4

\* Which task of node n receives vertex v.
LEMMA ReceiversOf ==
  ASSUME Colored, NEW l \in 0 .. LastLevel, NEW v \in VerticesOf(l), NEW n, NEW t
  PROVE  t \in All /\ t.node = n /\ t.type = "recv" /\ v \in t.list
           <=> l < LastLevel /\ v \in Incoming(l, n) /\ t = RecvTask(l, n)
<1>1. /\ \A k, m \in 0 .. LastLevel : \A w \in VerticesOf(k) : w \in VerticesOf(m) => k = m
      /\ LastLevel \in Nat /\ v \in Dag.nodes
  BY StripeFacts
<1>2. ASSUME NEW k, NEW m, NEW u, u = RecvTask(k, m)
      PROVE  u.type = "recv" /\ u.level = k /\ u.node = m /\ u.list = Incoming(k, m)
  BY <1>2 DEF RecvTask
<1>3. ASSUME t \in All, t.node = n, t.type = "recv", v \in t.list
      PROVE  l < LastLevel /\ v \in Incoming(l, n) /\ t = RecvTask(l, n)
  <2>1. t.level \in 0 .. LastLevel - 1 /\ t = RecvTask(t.level, n)
    BY <1>3, TasksByType
  <2>2. v \in Incoming(t.level, n)
    BY <1>2, <1>3, <2>1
  <2>3. t.level = l
    BY <1>1, <2>1, <2>2 DEF RealOf, Incoming
  <2>4. l < LastLevel
    BY <1>1, <2>1, <2>3
  <2> QED BY <2>1, <2>2, <2>3, <2>4
<1>4. ASSUME l < LastLevel, v \in Incoming(l, n), t = RecvTask(l, n)
      PROVE  t \in All /\ t.node = n /\ t.type = "recv" /\ v \in t.list
  <2>1. n \in SendTo(v)
    BY <1>4 DEF Incoming
  <2>2. n \in Colors /\ l \in 0 .. LastLevel - 1
    BY <1>1, <1>4, <2>1, ColorsAre
  <2>3. t \in All
    BY <1>4, <2>2, TasksThatAre
  <2> QED BY <1>2, <1>4, <2>3
<1> QED BY <1>3, <1>4

\* So sends and receives match.
LEMMA AllAreMatched ==
  ASSUME Colored, tasks = Got
  PROVE  SendsMatchReceives
<1> SUFFICES ASSUME NEW n \in TaskNodes, NEW v \in Dag.nodes
             PROVE  LET senders == {t \in tasks : /\ t.type = "send"
                                                  /\ v \in t.list
                                                  /\ n \in t.sendto[v]}
                        receivers == {t \in TasksOf(n) : t.type = "recv" /\ v \in t.list}
                    IN  /\ Cardinality(senders) = Cardinality(receivers)
                        /\ Cardinality(senders) <= 1
                        /\ \A t \in senders : t.node # n
  BY DEF SendsMatchReceives
<1> DEFINE senders == {t \in tasks : /\ t.type = "send" /\ v \in t.list /\ n \in t.sendto[v]}
           receivers == {t \in TasksOf(n) : t.type = "recv" /\ v \in t.list}
<1>1. PICK l \in 0 .. LastLevel : v \in VerticesOf(l)
  BY StripeFacts
<1>2. \A t : t \in senders
                <=> l < LastLevel /\ v \in Incoming(l, n) /\ t = SendTask(l, coloring[v])
  <2>1. \A t : t \in senders <=> t \in All /\ t.type = "send" /\ v \in t.list /\ n \in t.sendto[v]
    BY OthersAreRead
  <2> QED BY <1>1, <2>1, SendersAre
<1>3. \A t : t \in receivers <=> l < LastLevel /\ v \in Incoming(l, n) /\ t = RecvTask(l, n)
  <2>1. \A t : t \in receivers <=> t \in All /\ t.node = n /\ t.type = "recv" /\ v \in t.list
    BY OthersAreRead DEF TasksOf
  <2> QED BY <1>1, <2>1, ReceiversOf
<1> HIDE DEF senders, receivers
<1>4. CASE l < LastLevel /\ v \in Incoming(l, n)
  <2>1. senders = {SendTask(l, coloring[v])} /\ receivers = {RecvTask(l, n)}
    BY <1>2, <1>3, <1>4
  <2>2. Cardinality(senders) = 1 /\ Cardinality(receivers) = 1
    BY <2>1, FS_Singleton
  <2>3. SendTask(l, coloring[v]).node = coloring[v]
    BY DEF SendTask
  <2>4. coloring[v] # n
    BY <1>4 DEF Incoming, SendTo
  <2>5. \A t \in senders : t.node # n
    BY <2>1, <2>3, <2>4
  <2>6. /\ Cardinality(senders) = Cardinality(receivers) /\ Cardinality(senders) <= 1
        /\ \A t \in senders : t.node # n
    BY <2>2, <2>5
  <2> QED BY <2>6 DEF senders, receivers
<1>5. CASE ~ (l < LastLevel /\ v \in Incoming(l, n))
  <2>1. senders = {} /\ receivers = {}
    BY <1>2, <1>3, <1>5
  <2>2. Cardinality(senders) = 0 /\ Cardinality(receivers) = 0
    BY <2>1, FS_EmptySet
  <2>3. /\ Cardinality(senders) = Cardinality(receivers) /\ Cardinality(senders) <= 1
        /\ \A t \in senders : t.node # n
    BY <2>1, <2>2
  <2> QED BY <2>3 DEF senders, receivers
<1> QED BY <1>4, <1>5

\* The commands of all tasks, and the request that says how many there are, fit.
LEMMA AllFit ==
  ASSUME Colored, tasks = All
  PROVE  CommandsFit
<1> SUFFICES ASSUME NEW t \in All
             PROVE  /\ Fits(Sizes(t), TaskLen)
                    /\ t.type = "compute" =>
                         \A v \in t.list : Fits(Words(ItemCommand(t, v)), ComputeLen)
                    /\ Fits(Words(AgentCommand(0, 0, Cardinality(TasksOf(t.node)))), AgentLen)
  BY DEF CommandsFit
<1>1. GoodTask(t)
  BY GeneratedIsGood DEF All
<1> DEFINE number == Cardinality(TasksOf(t.node))
<1>2. number \in Nat
  <2>1. IsFiniteSet(All)
    BY GeneratedFinite DEF All
  <2>2. TasksOf(t.node) \in SUBSET All
    BY DEF TasksOf
  <2> QED BY <2>1, <2>2, FS_Subset, FS_CardinalityType
<1> HIDE DEF number
<1>3. AgentCommand(0, 0, number) \in Seq(Int)
  BY <1>2 DEF AgentCommand
<1>4. Fits(Words(AgentCommand(0, 0, number)), AgentLen)
  BY <1>3, WordsFit, LengthsAssumption
<1> QED BY <1>1, <1>4, TasksFit DEF number

----------------------------------------------------------------------------
(* The theorems *)

\* The invariant says which tasks there are when the commands are sent.
LEMMA InvAll ==
  ASSUME Inv, level = LastLevel + 1
  PROVE  Colored /\ tasks = All
<1>1. LastLevel \in Nat
  BY LevelsAre DEF Inv, LastLevel
<1>2. level >= 0 /\ level \in 0 .. LastLevel + 1
  BY <1>1
<1> QED BY <1>2 DEF Inv, Colored, All

\* And when the nodes have read them.
LEMMA ReceivedAll ==
  ASSUME Inv, Received
  PROVE  Colored /\ IsRecolored(stripe, coloring) /\ tasks = Got
<1>1. LastLevel \in Nat
  BY LevelsAre DEF Inv, LastLevel
<1>2. level >= 0 /\ level = LastLevel + 2
  BY <1>1 DEF Received
<1> QED BY <1>2 DEF Inv, Colored, Got, All

\* Every step keeps the invariant.
LEMMA NextInv ==
  ASSUME Inv, [Next]_vars
  PROVE  Inv'
<1>1. CASE UNCHANGED vars
  <2>1. UNCHANGED <<stripe, coloring, level, tasks>>
    BY <1>1 DEF vars
  <2>2. Generated(level)' = Generated(level)
    BY <2>1, GeneratedSame
  <2>3. Generated(LastLevel + 1)' = Generated(LastLevel + 1)
    BY <2>1, AllSame
  <2>4. LastLevel' = LastLevel
    BY <2>1 DEF LastLevel
  <2> QED BY <2>1, <2>2, <2>3, <2>4 DEF Inv
<1>2. CASE Recolor
  BY <1>2, RecolorInv
<1>3. CASE GenLevel0
  BY <1>3, GenLevel0Inv
<1>4. CASE GenIntermediateLevels
  BY <1>4, GenIntermediateLevelsInv
<1>5. CASE GenLastLevel
  BY <1>5, GenLastLevelInv
<1>6. CASE SendCommands
  BY <1>6, SendCommandsInv
<1> QED BY <1>1, <1>2, <1>3, <1>4, <1>5, <1>6 DEF Next

\* The tasks are at all times those of the levels that are generated, and in the end what the
\* nodes read of them: for any repair DAGs and colorings.
THEOREM Invariance == Spec => []Inv
<1>1. Init => Inv
  BY InitInv
<1>2. Inv /\ [Next]_vars => Inv'
  BY NextInv
<1> QED BY <1>1, <1>2, PTL DEF Spec

\* Every task is of a generated level, has vertices of the DAG, and uses only those.
THEOREM TypesHold == Spec => []TypeOK
<1>1. ASSUME Inv PROVE TypeOK
  <2>1. LastLevel \in Nat /\ stripe \in Stripes /\ level \in -1 .. LastLevel + 2
    BY <1>1, LevelsAre DEF Inv, LastLevel
  <2>2. CASE level = -1
    <3>1. IsColoring(stripe, Recolored(coloring)) /\ tasks = {}
      BY <1>1, <2>1, <2>2, ColoringsAssumption DEF Inv
    <3>2. DOMAIN Recolored(coloring) = Dag.nodes
      BY <3>1 DEF IsColoring, Dag
    <3>3. DOMAIN Recolored(coloring) = DOMAIN coloring
      BY DEF Recolored
    <3> QED BY <2>1, <3>1, <3>2, <3>3 DEF TypeOK
  <2>3. CASE level \in 0 .. LastLevel + 1
    <3>1. Colored /\ tasks = Generated(level)
      BY <1>1, <2>1, <2>3 DEF Inv, Colored
    <3>2. DOMAIN coloring = Dag.nodes
      BY <3>1 DEF Colored, IsColoring, Dag
    <3>3. ASSUME NEW t \in tasks
          PROVE  /\ t.type \in {"read", "send", "recv", "compute", "persist"}
                 /\ t.level \in 0 .. level - 1
                 /\ t.list # {} /\ t.list \subseteq Dag.nodes
                 /\ t.same \cup t.diff \subseteq t.list
      <4>1. t \in Generated(level)
        BY <3>1
      <4>2. GoodTask(t) /\ t.level \in 0 .. LastLevel /\ t.level < level
        BY <3>1, <4>1, GeneratedIsGood
      <4>3. t.list # {} /\ t.list \subseteq Dag.nodes
        BY <3>1, <4>1, GeneratedIsGood DEF IsOfLevel
      <4>4. t.level \in 0 .. level - 1
        BY <2>1, <4>2
      <4>5. t.type \in {"read", "send", "recv", "compute", "persist"}
        BY <4>2 DEF GoodTask
      <4>6. t.same \cup t.diff \subseteq t.list
        BY <4>2 DEF GoodTask
      <4> QED BY <4>3, <4>4, <4>5, <4>6
    <3> QED BY <2>1, <3>2, <3>3 DEF TypeOK
  <2>4. CASE level = LastLevel + 2
    <3>1. Colored /\ tasks = Got
      BY <1>1, <2>4, ReceivedAll DEF Received
    <3>2. DOMAIN coloring = Dag.nodes
      BY <3>1 DEF Colored, IsColoring, Dag
    <3>3. ASSUME NEW r \in tasks
          PROVE  /\ r.type \in {"read", "send", "recv", "compute", "persist"}
                 /\ r.level \in 0 .. level - 1
                 /\ r.list # {} /\ r.list \subseteq Dag.nodes
                 /\ r.same \cup r.diff \subseteq r.list
      <4>1. PICK t \in All : r = ReadBack(t)
        BY <3>1 DEF Got
      <4>2. GoodTask(t) /\ t.level \in 0 .. LastLevel
        BY <3>1, GeneratedIsGood DEF All
      <4>3. t.list # {} /\ t.list \subseteq Dag.nodes
        BY <3>1, GeneratedIsGood DEF IsOfLevel, All
      <4>4. /\ r.level = t.level /\ r.type = t.type /\ r.list = t.list
            /\ r.same \subseteq t.list /\ r.diff \subseteq t.list
        BY <4>1, <4>2, ReadBackIs
      <4>5. r.level \in 0 .. level - 1
        BY <2>1, <2>4, <4>2, <4>4
      <4>6. r.type \in {"read", "send", "recv", "compute", "persist"}
        BY <4>2, <4>4 DEF GoodTask
      <4> QED BY <4>3, <4>4, <4>5, <4>6
    <3> QED BY <2>1, <3>2, <3>3 DEF TypeOK
  <2> QED BY <2>1, <2>2, <2>3, <2>4
<1> QED BY <1>1, Invariance, PTL

\* The queues of the nodes connect the tasks along the levels, for any repair DAGs and
\* colorings.  Whatever a thread of repairStripe pops one other pushes; only what is computed
\* for a concat vertex may be left.  The threads that take the packets of one queue from each
\* other are exactly those of the levels on which the node uses the sub-packet.
THEOREM PairedQueues == Spec => []QueuesArePaired
<1>1. ASSUME Inv PROVE QueuesArePaired
  <2>1. CASE Received
    <3>1. Colored /\ tasks = Got
      BY <1>1, <2>1, ReceivedAll
    <3> QED BY <3>1, GotAreFed, GotIsRead, GotHaveReaders DEF QueuesArePaired
  <2>2. CASE ~ Received
    BY <2>2 DEF QueuesArePaired, InputsAreFed, NothingUnread, OneReader
  <2> QED BY <2>1, <2>2
<1> QED BY <1>1, Invariance, PTL

\* Which failed blocks are written, for any repair DAGs and colorings: exactly those whose
\* concat vertex is on the last level, each by one task, at the node of the concat vertex
\* and from all its sub-packets.  genRepairTasks makes no persist task for the others.
THEOREM BlocksPersisted == Spec => []AllPersisted
<1>1. ASSUME Inv PROVE AllPersisted
  <2>1. CASE Received
    <3>1. Colored /\ tasks = Got
      BY <1>1, <2>1, ReceivedAll
    <3> QED BY <3>1, GotPersist
  <2>2. CASE ~ Received
    BY <2>2 DEF AllPersisted
  <2> QED BY <2>1, <2>2
<1> QED BY <1>1, Invariance, PTL

\* What a node reads is what the coordinator generated for it, but for the uses and the
\* coefficients of concat vertices that are not on the last level; every send has its receive,
\* and no command overruns its buffer.
THEOREM TasksGetThrough == Spec => TasksArrive
<1>1. ASSUME Inv PROVE SendsMatchReceives
  <2>1. CASE Received
    <3>1. Colored /\ tasks = Got
      BY <1>1, <2>1, ReceivedAll
    <3> QED BY <3>1, AllAreMatched
  <2>2. CASE ~ Received
    BY <2>2 DEF SendsMatchReceives
  <2> QED BY <2>1, <2>2
<1>2. ASSUME Inv PROVE CommandsFit
  <2>1. CASE level = LastLevel + 1
    BY <1>2, <2>1, InvAll, AllFit
  <2>2. CASE level # LastLevel + 1
    BY <2>2 DEF CommandsFit
  <2> QED BY <2>1, <2>2
<1> DEFINE read == /\ \A t \in tasks : \E r \in tasks' : ReadsAs(r, t)
                   /\ \A r \in tasks' : \E t \in tasks : ReadsAs(r, t)
                   /\ ConcatsAreLast(stripe) => tasks' = tasks
<1>3. ASSUME Inv, SendCommands PROVE read
  <2>1. Colored /\ tasks = Generated(LastLevel + 1) /\ tasks' = {ReadBack(t) : t \in tasks}
    BY <1>3, SendCommandsKeep
  <2>2. \A t \in tasks : ReadsAs(ReadBack(t), t)
    BY <2>1, ReadsAreAs
  <2>3. ConcatsAreLast(stripe) => \A t \in tasks : ReadBack(t) = t
    BY <2>1, ReadsAreExact
  <2>4. ConcatsAreLast(stripe) => tasks' = tasks
    BY <2>1, <2>3
  <2> QED BY <2>1, <2>2, <2>4
<1>4. ASSUME Inv, [Next]_vars
      PROVE  [level = LastLevel + 1 => read]_vars
  <2>1. CASE SendCommands
    BY <1>3, <1>4, <2>1
  <2>2. CASE Recolor \/ GenLevel0 \/ GenIntermediateLevels \/ GenLastLevel
    <3>1. LastLevel \in Nat
      BY <1>4, LevelsAre DEF Inv, LastLevel
    <3>2. level # LastLevel + 1
      BY <2>2, <3>1 DEF Recolor, GenLevel0, GenIntermediateLevels, GenLastLevel
    <3> QED BY <3>2
  <2>3. CASE UNCHANGED vars
    BY <2>3
  <2> QED BY <1>4, <2>1, <2>2, <2>3 DEF Next
<1> QED BY <1>1, <1>2, <1>4, Invariance, PTL DEF Spec, TasksArrive, CommandsAreRead

----------------------------------------------------------------------------
(* Packets *)

\* What thread t has handled of vertex v, and the packets a to b - 1 of v.
Passed(th, v) == th.pkt + (IF \E j \in 1 .. th.pos - 1 : th.round[j] = v THEN 1 ELSE 0)
Packets(v, a, b) == [i \in 1 .. b - a |-> <<v, a + i - 1>>]

Packet == Int \X Int

\* The packets a to b - 1 of v, one after the other.
LEMMA PacketsAre ==
  ASSUME NEW v \in Int, NEW a \in Nat, NEW b \in Nat, a <= b
  PROVE  /\ Packets(v, a, b) \in Seq(Packet)
         /\ Len(Packets(v, a, b)) = b - a
         /\ \A i \in 1 .. b - a : Packets(v, a, b)[i] = <<v, a + i - 1>>
<1> DEFINE n == b - a
           f == [i \in 1 .. n |-> <<v, a + i - 1>>]
<1>1. n \in Nat /\ \A i \in 1 .. n : <<v, a + i - 1>> \in Packet
  BY DEF Packet
<1>2. f \in [1 .. n -> Packet]
  BY <1>1
<1>3. f \in Seq(Packet) /\ Len(f) = n
  <2> HIDE DEF f, n
  <2>1. f \in UNION {[1 .. k -> Packet] : k \in Nat}
    BY <1>1, <1>2
  <2>2. f \in Seq(Packet)
    BY <2>1, SeqDef
  <2> QED BY <1>1, <1>2, <2>2, LenProperties
<1> QED BY <1>3 DEF Packets

\* No packets.
LEMMA NoPackets ==
  ASSUME NEW v, NEW a \in Nat
  PROVE  Packets(v, a, a) = <<>>
BY DEF Packets

\* One more packet.
LEMMA MorePackets ==
  ASSUME NEW v \in Int, NEW a \in Nat, NEW b \in Nat, a <= b
  PROVE  Append(Packets(v, a, b), <<v, b>>) = Packets(v, a, b + 1)
<1> DEFINE s == Packets(v, a, b)
           r == Packets(v, a, b + 1)
           q == Append(s, <<v, b>>)
<1>1. /\ s \in Seq(Packet) /\ Len(s) = b - a /\ \A i \in 1 .. b - a : s[i] = <<v, a + i - 1>>
      /\ r \in Seq(Packet) /\ Len(r) = b + 1 - a
      /\ \A i \in 1 .. b + 1 - a : r[i] = <<v, a + i - 1>>
  <2> DEFINE c == b + 1
  <2>1. c \in Nat /\ a <= c
    OBVIOUS
  <2>2. s \in Seq(Packet) /\ Len(s) = b - a /\ \A i \in 1 .. b - a : s[i] = <<v, a + i - 1>>
    BY PacketsAre
  <2> HIDE DEF c
  <2>3. /\ Packets(v, a, c) \in Seq(Packet) /\ Len(Packets(v, a, c)) = c - a
        /\ \A i \in 1 .. c - a : Packets(v, a, c)[i] = <<v, a + i - 1>>
    BY <2>1, PacketsAre
  <2>4. c = b + 1
    BY DEF c
  <2>5. r = Packets(v, a, c)
    BY <2>4
  <2> HIDE DEF s, r, Packet
  <2>6. r \in Seq(Packet) /\ Len(r) = c - a
    BY <2>3, <2>5
  <2>7. \A i \in 1 .. c - a : r[i] = <<v, a + i - 1>>
    BY <2>3, <2>5
  <2> QED BY <2>2, <2>4, <2>6, <2>7
<1>2. <<v, b>> \in Packet
  BY DEF Packet
<1> HIDE DEF s, r, Packet
<1>3. /\ q \in Seq(Packet) /\ Len(q) = Len(s) + 1
      /\ \A i \in 1 .. Len(s) : q[i] = s[i]
      /\ q[Len(s) + 1] = <<v, b>>
  BY <1>1, <1>2, AppendProperties
<1>4. \A i \in 1 .. Len(q) : q[i] = r[i]
  <2> SUFFICES ASSUME NEW i \in 1 .. Len(q) PROVE q[i] = r[i]
    OBVIOUS
  <2>1. i \in 1 .. b + 1 - a
    BY <1>1, <1>3
  <2> HIDE DEF q
  <2>2. CASE i <= Len(s)
    <3>1. i \in 1 .. Len(s) /\ i \in 1 .. b - a
      BY <1>1, <2>1, <2>2
    <3> QED BY <1>1, <1>3, <2>1, <3>1
  <2>3. CASE i = Len(s) + 1
    <3>1. a + i - 1 = b
      BY <1>1, <2>3
    <3> QED BY <1>1, <1>3, <2>1, <2>3, <3>1
  <2> QED BY <1>1, <2>1, <2>2, <2>3
<1>5. Len(q) = Len(r)
  BY <1>1, <1>3
<1>6. q = r
  <2> HIDE DEF q
  <2> QED BY <1>1, <1>3, <1>4, <1>5, SeqEqual
<1> QED BY <1>6 DEF s, r

\* One packet fewer.
LEMMA FewerPackets ==
  ASSUME NEW v \in Int, NEW a \in Nat, NEW b \in Nat, a <= b
  PROVE  /\ Packets(v, a, b) # <<>> <=> a < b
         /\ a < b => Head(Packets(v, a, b)) = <<v, a>> /\ Tail(Packets(v, a, b)) = Packets(v, a + 1, b)
<1> DEFINE s == Packets(v, a, b)
           r == Packets(v, a + 1, b)
<1>1. s \in Seq(Packet) /\ Len(s) = b - a /\ \A i \in 1 .. b - a : s[i] = <<v, a + i - 1>>
  BY PacketsAre
<1> HIDE DEF s, Packet
<1>2. s # <<>> <=> a < b
  <2>1. s # <<>> => Len(s) \in Nat \ {0}
    BY <1>1, EmptySeq
  <2>2. s = <<>> => Len(s) = 0
    OBVIOUS
  <2> QED BY <1>1, <2>1, <2>2
<1>3. ASSUME a < b PROVE Head(s) = <<v, a>> /\ Tail(s) = r
  <2>1. /\ r \in Seq(Packet) /\ Len(r) = b - (a + 1)
        /\ \A i \in 1 .. b - (a + 1) : r[i] = <<v, a + 1 + i - 1>>
    <3>1. a + 1 \in Nat /\ a + 1 <= b
      BY <1>3
    <3> QED BY <3>1, PacketsAre
  <2>2. /\ Tail(s) \in Seq(Packet) /\ Len(Tail(s)) = Len(s) - 1
        /\ \A i \in 1 .. Len(Tail(s)) : Tail(s)[i] = s[i + 1]
    BY <1>1, <1>2, <1>3, HeadTailProperties
  <2>3. Head(s) = s[1]
    BY <1>1, <1>2, <1>3
  <2>4. s[1] = <<v, a + 1 - 1>> /\ a + 1 - 1 = a
    BY <1>1, <1>3
  <2> DEFINE tl == Tail(s)
  <2> HIDE DEF r, tl
  <2>5. \A i \in 1 .. Len(tl) : tl[i] = r[i]
    <3> SUFFICES ASSUME NEW i \in 1 .. Len(tl) PROVE tl[i] = r[i]
      OBVIOUS
    <3>1. i \in 1 .. b - (a + 1) /\ i + 1 \in 1 .. b - a /\ a + (i + 1) - 1 = a + 1 + i - 1
      BY <1>1, <2>2 DEF tl
    <3>2. tl[i] = s[i + 1]
      BY <2>2 DEF tl
    <3>3. s[i + 1] = <<v, a + (i + 1) - 1>>
      BY <1>1, <3>1
    <3>4. r[i] = <<v, a + 1 + i - 1>>
      BY <2>1, <3>1
    <3> QED BY <3>1, <3>2, <3>3, <3>4
  <2>6. tl = r
    <3>1. tl \in Seq(Packet) /\ Len(tl) = Len(r)
      BY <1>1, <2>1, <2>2 DEF tl
    <3> QED BY <2>1, <2>5, <3>1, SeqEqual
  <2> QED BY <2>3, <2>4, <2>6 DEF tl
<1> QED BY <1>2, <1>3 DEF s, r

----------------------------------------------------------------------------
(* Threads *)

\* The fields of a thread's record are all there.
IsThread(th) ==
  th = [round |-> th.round, pkt |-> th.pkt, pos |-> th.pos, got |-> th.got,
        buffer |-> th.buffer, replylist |-> th.replylist, count |-> th.count]

\* A thread is somewhere in its rounds.
InRound(th) ==
  /\ th.pkt \in 0 .. PktNum /\ th.pos \in 1 .. Len(th.round)
  /\ th.pkt = PktNum => th.pos = 1

\* A round handles different vertices.
IsRound(s) == s \in Seq(Int) /\ s # <<>> /\ \A i, j \in 1 .. Len(s) : s[i] = s[j] => i = j

\* A thread that has handled its current vertex is at the next one, or in the next round.
LEMMA AdvancedIs ==
  ASSUME NEW t, IsThread(thread[t]), InRound(thread[t]), HasRounds(t), IsRound(thread[t].round)
  PROVE  /\ IsThread(Advanced(t)) /\ InRound(Advanced(t))
         /\ Advanced(t).round = thread[t].round /\ Advanced(t).got = thread[t].got
         /\ Advanced(t).buffer = thread[t].buffer /\ Advanced(t).replylist = thread[t].replylist
         /\ Advanced(t).count = thread[t].count
         /\ Advanced(t).pkt = (IF IsLast(t) THEN thread[t].pkt + 1 ELSE thread[t].pkt)
         /\ Advanced(t).pos = (IF IsLast(t) THEN 1 ELSE thread[t].pos + 1)
<1> DEFINE th == thread[t]
           adv == Advanced(t)
<1>1. /\ th = [round |-> th.round, pkt |-> th.pkt, pos |-> th.pos, got |-> th.got,
               buffer |-> th.buffer, replylist |-> th.replylist, count |-> th.count]
      /\ adv = IF IsLast(t) THEN [th EXCEPT !.pkt = @ + 1, !.pos = 1] ELSE [th EXCEPT !.pos = @ + 1]
      /\ th.pkt \in 0 .. PktNum /\ th.pos \in 1 .. Len(th.round) /\ th.pkt < PktNum
      /\ IsLast(t) <=> th.pos = Len(th.round)
      /\ PktNum \in Nat /\ Len(th.round) \in Nat
  BY PktNumAssumption DEF IsThread, InRound, HasRounds, Advanced, IsLast, IsRound
<1> HIDE DEF th, adv
<1>2. CASE IsLast(t)
  <2>1. adv = [th EXCEPT !.pkt = @ + 1, !.pos = 1]
    BY <1>1, <1>2
  <2>2. /\ adv.pkt = th.pkt + 1 /\ adv.pos = 1 /\ adv.round = th.round /\ adv.got = th.got
        /\ adv.buffer = th.buffer /\ adv.replylist = th.replylist /\ adv.count = th.count
        /\ adv = [round |-> adv.round, pkt |-> adv.pkt, pos |-> adv.pos, got |-> adv.got,
                  buffer |-> adv.buffer, replylist |-> adv.replylist, count |-> adv.count]
    BY <1>1, <2>1
  <2>3. adv.pkt \in 0 .. PktNum /\ adv.pos \in 1 .. Len(adv.round)
    BY <1>1, <2>2
  <2> QED BY <1>2, <2>2, <2>3 DEF IsThread, InRound, th, adv
<1>3. CASE ~ IsLast(t)
  <2>1. adv = [th EXCEPT !.pos = @ + 1]
    BY <1>1, <1>3
  <2>2. /\ adv.pkt = th.pkt /\ adv.pos = th.pos + 1 /\ adv.round = th.round /\ adv.got = th.got
        /\ adv.buffer = th.buffer /\ adv.replylist = th.replylist /\ adv.count = th.count
        /\ adv = [round |-> adv.round, pkt |-> adv.pkt, pos |-> adv.pos, got |-> adv.got,
                  buffer |-> adv.buffer, replylist |-> adv.replylist, count |-> adv.count]
    BY <1>1, <2>1
  <2>3. adv.pkt \in 0 .. PktNum /\ adv.pos \in 1 .. Len(adv.round) /\ adv.pkt # PktNum
    BY <1>1, <1>3, <2>2
  <2> QED BY <1>3, <2>2, <2>3 DEF IsThread, InRound, th, adv
<1> QED BY <1>2, <1>3

\* A step of a thread passes its current vertex and no other.
LEMMA PassedIs ==
  ASSUME NEW t, IsThread(thread[t]), InRound(thread[t]), HasRounds(t), IsRound(thread[t].round),
         NEW th, th.round = thread[t].round,
         th.pkt = Advanced(t).pkt, th.pos = Advanced(t).pos
  PROVE  /\ Current(t) \in ToSet(thread[t].round)
         /\ Passed(thread[t], Current(t)) = thread[t].pkt
         /\ Passed(th, Current(t)) = thread[t].pkt + 1
         /\ \A v \in ToSet(thread[t].round) : v # Current(t) => Passed(th, v) = Passed(thread[t], v)
<1> DEFINE s == thread[t].round
           pkt == thread[t].pkt
           pos == thread[t].pos
<1>1. /\ s \in Seq(Int) /\ Len(s) \in Nat /\ \A i, j \in 1 .. Len(s) : s[i] = s[j] => i = j
      /\ pkt \in Nat /\ pos \in 1 .. Len(s) /\ DOMAIN s = 1 .. Len(s)
  <2>1. s \in Seq(Int) /\ pkt \in 0 .. PktNum /\ pos \in 1 .. Len(s)
    BY DEF InRound, IsRound
  <2>2. Len(s) \in Nat /\ DOMAIN s = 1 .. Len(s)
    BY <2>1, LenProperties
  <2> HIDE DEF s
  <2> QED BY <2>1, <2>2, PktNumAssumption DEF IsRound, s
<1>2. /\ th.round = s /\ th.pkt = (IF IsLast(t) THEN pkt + 1 ELSE pkt)
      /\ th.pos = (IF IsLast(t) THEN 1 ELSE pos + 1) /\ (IsLast(t) <=> pos = Len(s))
      /\ Current(t) = s[pos]
  BY AdvancedIs DEF IsLast, Current
<1>3. /\ \A v : Passed(thread[t], v) = pkt + (IF \E j \in 1 .. pos - 1 : s[j] = v THEN 1 ELSE 0)
      /\ \A v : Passed(th, v) = th.pkt + (IF \E j \in 1 .. th.pos - 1 : s[j] = v THEN 1 ELSE 0)
  BY <1>2 DEF Passed
<1> HIDE DEF s, pkt, pos
<1>4. s[pos] \in ToSet(s)
  BY <1>1 DEF ToSet
<1>5. ~ \E j \in 1 .. pos - 1 : s[j] = s[pos]
  BY <1>1
<1>6. Passed(thread[t], s[pos]) = pkt
  BY <1>1, <1>3, <1>5
<1>7. Passed(th, s[pos]) = pkt + 1
  <2>1. CASE IsLast(t)
    BY <1>1, <1>2, <1>3, <2>1
  <2>2. CASE ~ IsLast(t)
    <3>1. pos \in 1 .. th.pos - 1 /\ th.pkt = pkt
      <4>1. th.pos = pos + 1 /\ th.pkt = pkt
        BY <1>2, <2>2
      <4>2. pos \in Nat /\ pos >= 1
        BY <1>1
      <4> QED BY <4>1, <4>2
    <3>2. \E j \in 1 .. th.pos - 1 : s[j] = s[pos]
      BY <3>1
    <3> QED BY <1>1, <1>3, <3>1, <3>2
  <2> QED BY <2>1, <2>2
<1>8. ASSUME NEW v \in ToSet(s), v # s[pos] PROVE Passed(th, v) = Passed(thread[t], v)
  <2>1. PICK i \in 1 .. Len(s) : s[i] = v
    BY <1>1 DEF ToSet
  <2>2. CASE IsLast(t)
    <3>1. i \in 1 .. pos - 1 /\ th.pos = 1 /\ th.pkt = pkt + 1
      BY <1>1, <1>2, <1>8, <2>1, <2>2
    <3>2. \E j \in 1 .. pos - 1 : s[j] = v
      BY <2>1, <3>1
    <3>3. ~ \E j \in 1 .. th.pos - 1 : s[j] = v
      BY <3>1
    <3> QED BY <1>1, <1>3, <3>1, <3>2, <3>3
  <2>3. CASE ~ IsLast(t)
    <3>1. th.pos = pos + 1 /\ th.pkt = pkt
      BY <1>2, <2>3
    <3>2. (\E j \in 1 .. th.pos - 1 : s[j] = v) <=> \E j \in 1 .. pos - 1 : s[j] = v
      BY <1>1, <1>8, <3>1
    <3> QED BY <1>1, <1>3, <3>1, <3>2
  <2> QED BY <2>2, <2>3
<1> QED BY <1>2, <1>4, <1>6, <1>7, <1>8 DEF s, pkt, pos

----------------------------------------------------------------------------
(* The tasks that are run *)

\* What the threads of a stripe start from.
Ready == Inv /\ Received

\* The vertices that a thread handles in a round.
Handled(t) ==
  IF t.type = "compute" THEN UNION {ToSet(t.items[v].srcs) : v \in t.list} ELSE t.list

\* The stripes whose threads end have all tasks as they were generated.
LEMMA ReadyIs ==
  ASSUME Ready
  PROVE  /\ Colored /\ tasks = All
         /\ SharesByLevel(stripe, coloring) /\ VerticesOf(LastLevel) = ConcatsOf(stripe)
<1>1. Colored /\ IsRecolored(stripe, coloring) /\ tasks = Got
  BY ReceivedAll DEF Ready
<1>2. stripe \in Stripes /\ ConcatsAreLast(stripe)
  BY <1>1, ThreadsAssumption DEF Colored
<1>3. \A t \in All : ReadBack(t) = t
  BY <1>1, <1>2, ReadsAreExact DEF All
<1>4. tasks = All
  BY <1>1, <1>3 DEF Got
<1>5. SharesByLevel(stripe, coloring)
  BY <1>1, <1>2, ThreadsAssumption DEF IsRecolored
<1>6. VerticesOf(LastLevel) = ConcatsOf(stripe)
  BY <1>2 DEF ConcatsAreLast, VerticesOf, LastLevel
<1> QED BY <1>1, <1>4, <1>5, <1>6

\* They are good tasks, with vertices of the DAG.
LEMMA TasksAre ==
  ASSUME Ready, NEW t \in tasks
  PROVE  /\ GoodTask(t) /\ t.list # {} /\ t.list \subseteq Dag.nodes
         /\ t.node \in Int
         /\ t.type \in {"read", "send", "recv", "compute", "persist"}
<1>1. Colored /\ t \in Generated(LastLevel + 1)
  BY ReadyIs DEF All
<1>2. GoodTask(t) /\ IsOfLevel(t.level, t)
  BY <1>1, GeneratedIsGood
<1> QED BY <1>2 DEF IsOfLevel, GoodTask

\* A vertex that is no leaf has children.
LEMMA HasChild ==
  ASSUME NEW s \in Stripes, NEW l \in 1 .. LastOf[s], NEW v \in LevelsOf[s][l]
  PROVE  ChildsOf(DagOf[s], v) # {}
<1> DEFINE dag == DagOf[s]
           n == Cardinality(dag.nodes)
           R == Remaining(dag)
           L == NumLevels(dag)
<1>1. /\ IsFiniteSet(dag.nodes) /\ R[n] = {} /\ LastOf[s] \in Nat
  BY DagsAssumption, LevelsAre
<1>2. n \in Nat
  BY <1>1, FS_CardinalityType
<1>3. \A m \in 1 .. n : R[m] = Left(dag, R[m - 1])
  BY <1>2, RemainingIs
<1> HIDE DEF R
<1>4. L \in 0 .. n
  <2> DEFINE D == {k \in 0 .. n : R[k] = {}}
  <2>1. D \subseteq Nat /\ D # {}
    BY <1>1, <1>2
  <2>2. PICK k \in D : \A m \in D : k <= m
    <3> HIDE DEF D
    <3> QED BY <2>1, LeastElement
  <2>3. k \in 0 .. n /\ R[k] = {} /\ \A m \in 0 .. k - 1 : R[m] # {}
    BY <1>2, <2>2
  <2> QED BY <2>3 DEF NumLevels, R
<1> HIDE DEF L
<1>5. LastOf[s] = L - 1
  BY DEF LastOf, L
<1>6. LevelsOf[s] = [m \in 0 .. L - 1 |-> R[m] \ R[m + 1]]
  BY DEF LevelsOf, Levels, L, R
<1>7. l \in 1 .. n /\ l \in 0 .. L - 1
  BY <1>2, <1>4, <1>5
<1>8. v \in Left(dag, R[l - 1])
  BY <1>3, <1>6, <1>7
<1> QED BY <1>8 DEF Left

\* A thread handles vertices of the DAG; what it computes a vertex from are the children.
LEMMA HandledIs ==
  ASSUME Ready, NEW t \in tasks
  PROVE  /\ Handled(t) \subseteq Dag.nodes /\ Handled(t) # {}
         /\ Handled(t) \in SUBSET Int /\ IsFiniteSet(Handled(t))
         /\ t.type = "compute" =>
              \A v \in t.list : ChildsOf(Dag, v) \subseteq Handled(t) /\ ChildsOf(Dag, v) # {}
<1>1. Colored /\ t \in All /\ t.list # {} /\ t.list \subseteq Dag.nodes /\ stripe \in Stripes
  BY ReadyIs, TasksAre DEF Ready, Inv
<1>2. CASE t.type = "compute"
  <2>1. t.level \in 1 .. LastLevel - 1 /\ t = ComputeTask(t.level, t.node)
    BY <1>1, <1>2, TasksByType
  <2> DEFINE vs == Computed(t.level, t.node)
  <2>2. t.list = vs /\ t.items = ItemsOf(vs)
    BY <2>1 DEF ComputeTask
  <2>3. \A v \in vs : v \in VerticesOf(t.level)
    BY DEF Computed, RealOf
  <2> HIDE DEF vs
  <2>4. \A v \in vs : ToSet(t.items[v].srcs) = ChildsOf(Dag, v)
    BY <2>2 DEF ItemsOf, ChildsOf
  <2>5. t.level \in 1 .. LastOf[stripe]
    BY <1>1, <2>1, StripeFacts DEF LastLevel
  <2>6. \A v \in vs : ChildsOf(Dag, v) # {}
    BY <1>1, <2>3, <2>5, HasChild DEF VerticesOf, Dag
  <2>7. \A v \in vs : ChildsOf(Dag, v) \subseteq Dag.nodes
    BY <1>1, <2>2, StripeFacts
  <2>8. Handled(t) = UNION {ToSet(t.items[v].srcs) : v \in vs}
    BY <1>2, <2>2 DEF Handled
  <2>9. \A v \in vs : ChildsOf(Dag, v) \subseteq Handled(t)
    BY <2>4, <2>8
  <2>10. Handled(t) \subseteq Dag.nodes
    BY <2>4, <2>7, <2>8
  <2>11. Handled(t) # {}
    BY <1>1, <2>2, <2>6, <2>9
  <2>12. Handled(t) \in SUBSET Int /\ IsFiniteSet(Handled(t))
    BY <1>1, <2>10, FiniteSubset
  <2> QED BY <2>2, <2>6, <2>9, <2>10, <2>11, <2>12
<1>3. CASE t.type # "compute"
  <2>1. Handled(t) = t.list
    BY <1>3 DEF Handled
  <2>2. Handled(t) \in SUBSET Int /\ IsFiniteSet(Handled(t))
    BY <1>1, <2>1, FiniteSubset
  <2> QED BY <1>1, <1>3, <2>1, <2>2
<1> QED BY <1>2, <1>3

\* A round handles each of these vertices once.
LEMMA RoundIs ==
  ASSUME Ready, NEW t \in tasks
  PROVE  /\ IsRound(RoundOf(t)) /\ ToSet(RoundOf(t)) = Handled(t)
         /\ Len(RoundOf(t)) = Cardinality(Handled(t))
<1>1. Handled(t) \in SUBSET Int /\ IsFiniteSet(Handled(t)) /\ Handled(t) # {}
  BY HandledIs
<1> DEFINE s == RoundOf(t)
           c == Cardinality(Handled(t))
<1>2. s = Ascending(Handled(t))
  BY DEF RoundOf, Handled
<1>3. c \in Nat /\ c # 0
  BY <1>1, FS_CardinalityType, FS_EmptySet
<1> HIDE DEF s
<1>4. /\ s \in Seq(Int) /\ Len(s) = c /\ ToSet(s) = Handled(t)
      /\ \A i, j \in 1 .. c : s[i] = s[j] => i = j
  BY <1>1, <1>2, AscendingIs
<1> HIDE DEF c
<1>5. s # <<>>
  BY <1>3, <1>4, EmptySeq
<1> QED BY <1>4, <1>5 DEF IsRound, s, c

\* A task pops a queue for each vertex of its round.
LEMMA PopsOf ==
  ASSUME NEW t
  PROVE  /\ t.type \in {"compute", "persist"} => Pops(t) = {<<"local", v>> : v \in Handled(t)}
         /\ t.type = "send" => Pops(t) = {<<"out", v>> : v \in Handled(t)}
         /\ t.type \in {"read", "recv"} => Pops(t) = {}
BY DEF Pops, Handled

\* It pushes vertices of its list.
LEMMA PushesOf ==
  ASSUME Ready, NEW t \in tasks, NEW q \in Pushes(t)
  PROVE  /\ t.type \in {"read", "compute", "recv"}
         /\ q[2] \in t.list /\ (q = <<"local", q[2]>> \/ q = <<"out", q[2]>>)
<1>1. t.same \subseteq t.list /\ t.diff \subseteq t.list
  BY TasksAre DEF GoodTask
<1> QED BY <1>1 DEF Pushes

\* Only one task of a node pushes to a queue.
LEMMA OnePusher ==
  ASSUME Ready, NEW t \in tasks, NEW u \in tasks, t.node = u.node,
         NEW q \in Pushes(t), q \in Pushes(u)
  PROVE  t = u
<1>1. Colored /\ t \in All /\ u \in All
  BY ReadyIs
<1>2. /\ \A l, m \in 0 .. LastLevel : \A v \in VerticesOf(l) : v \in VerticesOf(m) => l = m
      /\ Below \subseteq 0 .. LastLevel
  BY <1>1, StripeFacts DEF Below
<1>3. CASE \E v : q = <<"local", v>>
  <2>1. PICK v : q = <<"local", v>>
    BY <1>3
  <2>2. t.level \in Below /\ v \in VerticesOf(t.level) /\ t = LocalFeeder(t.level, t.node, v)
    BY <1>1, <2>1, LocalPushers
  <2>3. u.level \in Below /\ v \in VerticesOf(u.level) /\ u = LocalFeeder(u.level, u.node, v)
    BY <1>1, <2>1, LocalPushers
  <2>4. t.level = u.level
    BY <1>2, <2>2, <2>3
  <2> QED BY <2>2, <2>3, <2>4
<1>4. CASE \E v : q = <<"out", v>>
  <2>1. PICK v : q = <<"out", v>>
    BY <1>4
  <2>2. t.level \in Below /\ v \in VerticesOf(t.level) /\ t = OutFeeder(t.level, t.node, v)
    BY <1>1, <2>1, OutPushers DEF RealOf
  <2>3. u.level \in Below /\ v \in VerticesOf(u.level) /\ u = OutFeeder(u.level, u.node, v)
    BY <1>1, <2>1, OutPushers DEF RealOf
  <2>4. t.level = u.level
    BY <1>2, <2>2, <2>3
  <2> QED BY <2>2, <2>3, <2>4
<1> QED BY <1>3, <1>4, PushesAre

----------------------------------------------------------------------------
(* Senders and receivers *)

\* Thread s sends vertex v to node n.
Sends(s, v, n) == s.type = "send" /\ v \in s.list /\ n \in s.sendto[v]

\* Every vertex of a send task goes to some nodes.
LEMMA SendIs ==
  ASSUME Ready, NEW s \in tasks, s.type = "send", NEW v \in s.list
  PROVE  s.sendto[v] \in SUBSET Int /\ IsFiniteSet(s.sendto[v]) /\ s.sendto[v] # {}
<1>1. Colored /\ s \in All
  BY ReadyIs
<1>2. s.level \in 0 .. LastLevel - 1 /\ s = SendTask(s.level, s.node)
  BY <1>1, TasksByType
<1> DEFINE vs == SentBy(s.level, s.node)
<1>3. s.list = vs /\ s.sendto = SendToOf(vs)
  BY <1>2 DEF SendTask
<1>4. Diff(v)
  BY <1>3 DEF SentBy
<1> HIDE DEF vs
<1>5. s.sendto[v] # {}
  BY <1>3, <1>4 DEF SendToOf, Diff
<1>6. s.sendto[v] \in SUBSET Int /\ IsFiniteSet(s.sendto[v])
  BY TasksAre DEF GoodTask
<1> QED BY <1>5, <1>6

\* No two threads send a vertex to a node.
LEMMA OneSender ==
  ASSUME Ready, NEW s \in tasks, NEW r \in tasks, NEW v, NEW n, Sends(s, v, n), Sends(r, v, n)
  PROVE  s = r
<1>1. Colored /\ s \in All /\ r \in All
  BY ReadyIs
<1>2. v \in Dag.nodes
  BY TasksAre DEF Sends
<1>3. PICK l \in 0 .. LastLevel : v \in VerticesOf(l)
  BY <1>1, <1>2, StripeFacts
<1>4. s = SendTask(l, coloring[v])
  BY <1>1, <1>3, SendersAre DEF Sends
<1>5. r = SendTask(l, coloring[v])
  BY <1>1, <1>3, SendersAre DEF Sends
<1> QED BY <1>4, <1>5

\* No two threads of a node receive a vertex.
LEMMA OneReceiver ==
  ASSUME Ready, NEW s \in tasks, NEW r \in tasks, s.type = "recv", r.type = "recv",
         s.node = r.node, NEW v \in s.list, v \in r.list
  PROVE  s = r
<1>1. Colored /\ s \in All /\ r \in All
  BY ReadyIs
<1>2. v \in Dag.nodes
  BY TasksAre
<1>3. PICK l \in 0 .. LastLevel : v \in VerticesOf(l)
  BY <1>1, <1>2, StripeFacts
<1>4. s = RecvTask(l, s.node)
  BY <1>1, <1>3, ReceiversOf
<1>5. r = RecvTask(l, s.node)
  BY <1>1, <1>3, ReceiversOf
<1> QED BY <1>4, <1>5

\* What is sent is received, and what is received is sent.
LEMMA SendsAndReceives ==
  ASSUME Ready, NEW v, NEW n
  PROVE  (\E s \in tasks : Sends(s, v, n))
           <=> \E r \in tasks : r.type = "recv" /\ r.node = n /\ v \in r.list
<1>1. Colored /\ tasks = All
  BY ReadyIs
<1>2. CASE v \in Dag.nodes
  <2>1. PICK l \in 0 .. LastLevel : v \in VerticesOf(l)
    BY <1>1, <1>2, StripeFacts
  <2>2. \A t : t \in All /\ Sends(t, v, n)
                 <=> l < LastLevel /\ v \in Incoming(l, n) /\ t = SendTask(l, coloring[v])
    BY <1>1, <2>1, SendersAre DEF Sends
  <2>3. \A t : t \in All /\ t.node = n /\ t.type = "recv" /\ v \in t.list
                 <=> l < LastLevel /\ v \in Incoming(l, n) /\ t = RecvTask(l, n)
    BY <1>1, <2>1, ReceiversOf
  <2> QED BY <1>1, <2>2, <2>3
<1>3. CASE v \notin Dag.nodes
  <2>1. \A t \in tasks : v \notin t.list
    BY <1>3, TasksAre
  <2> QED BY <2>1 DEF Sends
<1> QED BY <1>2, <1>3

----------------------------------------------------------------------------
(* The order in which a block is written *)

\* Ascending lists the sub-packets of a block as they lie in it.
LEMMA BlockInOrder ==
  ASSUME NEW w \in Nat, NEW b \in Nat
  PROVE  /\ Len(Ascending(ToSet(SubPackets(b, w)))) = w
         /\ \A i \in 1 .. w : Ascending(ToSet(SubPackets(b, w)))[i] = b * w + i - 1
<1> DEFINE a == b * w
           S == a .. a + w - 1
<1>1. a \in Nat
  OBVIOUS
<1>2. ToSet(SubPackets(b, w)) = S
  <2>1. ToSet(SubPackets(b, w)) = {a + o - 1 : o \in 1 .. w}
    BY DEF ToSet, SubPackets
  <2> HIDE DEF a
  <2>2. ASSUME NEW x \in S PROVE x \in {a + o - 1 : o \in 1 .. w}
    <3>1. x - a + 1 \in 1 .. w /\ x = a + (x - a + 1) - 1
      BY <1>1
    <3> QED BY <3>1
  <2>3. {a + o - 1 : o \in 1 .. w} \subseteq S
    BY <1>1
  <2> QED BY <2>1, <2>2, <2>3
<1> HIDE DEF a
<1>3. Cardinality(S) = w
  <2>1. a \in Int /\ a + w - 1 \in Int
    BY <1>1
  <2> QED BY <1>1, <2>1, FS_Interval
<1>4. Len(Ascending(S)) = w
  BY <1>3 DEF Ascending
<1>5. ASSUME NEW i \in 1 .. w PROVE Ascending(S)[i] = a + i - 1
  <2> DEFINE rank(x) == Cardinality({y \in S : y < x})
  <2>1. ASSUME NEW x \in S PROVE rank(x) = x - a
    <3>1. {y \in S : y < x} = a .. x - 1
      BY <1>1
    <3>2. a \in Int /\ x - 1 \in Int
      BY <1>1
    <3>3. Cardinality(a .. x - 1) = x - a
      <4>1. Cardinality(a .. x - 1) = IF a > x - 1 THEN 0 ELSE x - 1 - a + 1
        BY <3>2, FS_Interval
      <4>2. x \in Int /\ x >= a
        BY <1>1
      <4> QED BY <1>1, <4>1, <4>2
    <3> QED BY <3>1, <3>3
  <2>2. Ascending(S)[i] = CHOOSE x \in S : rank(x) = i - 1
    BY <1>3 DEF Ascending
  <2> HIDE DEF rank
  <2>3. a + i - 1 \in S /\ rank(a + i - 1) = i - 1
    <3> DEFINE x == a + i - 1
    <3>1. x \in S /\ x - a = i - 1
      BY <1>1
    <3> HIDE DEF S, x
    <3>2. x \in S /\ rank(x) = i - 1
      BY <2>1, <3>1
    <3> QED BY <3>2 DEF x
  <2>4. \A x \in S : rank(x) = i - 1 => x = a + i - 1
    BY <1>1, <2>1
  <2> HIDE DEF S
  <2> QED BY <2>2, <2>3, <2>4
<1> QED BY <1>2, <1>4, <1>5 DEF a

\* A thread that writes a block writes its sub-packets as they lie in it, and is the
\* only one.
LEMMA PersistIs ==
  ASSUME Ready, NEW t \in tasks, t.type = "persist"
  PROVE  /\ t.blk \in FailedOf[stripe] /\ t.blk \in Nat
         /\ EcwOf[stripe] \in Nat /\ EcwOf[stripe] > 0
         /\ Len(RoundOf(t)) = EcwOf[stripe]
         /\ \A i \in 1 .. EcwOf[stripe] : RoundOf(t)[i] = t.blk * EcwOf[stripe] + i - 1
         /\ \A u \in tasks : u.type = "persist" /\ u.blk = t.blk => u = t
<1>1. Colored /\ t \in All /\ tasks = All
  BY ReadyIs
<1>2. EcwOf[stripe] \in Nat /\ EcwOf[stripe] > 0
  BY <1>1, StripeFacts
<1>3. PICK v \in VerticesOf(LastLevel) : t = PersistTask(v)
  BY <1>1, TasksByType
<1>4. PICK b \in FailedOf[stripe] : v = Requestor - b
  BY <1>1, <1>3, ConcatIs
<1>5. t.blk = b /\ b \in Nat
  BY <1>1, <1>3, <1>4, ConcatIs DEF PersistTask
<1> DEFINE one == [node |-> coloring[Requestor - b], type |-> "persist",
                   level |-> LastLevel, blk |-> b,
                   list |-> ToSet(SubPackets(b, EcwOf[stripe])),
                   same |-> {}, diff |-> {}, sendto |-> <<>>, items |-> <<>>]
<1>6. {u \in tasks : u.type = "persist" /\ u.blk = b} = {one}
  BY <1>1, <1>3, <1>4, AllPersist
<1>7. one.list = ToSet(SubPackets(b, EcwOf[stripe]))
  OBVIOUS
<1> HIDE DEF one
<1>8. t = one /\ \A u \in tasks : u.type = "persist" /\ u.blk = b => u = t
  BY <1>5, <1>6
<1>9. RoundOf(t) = Ascending(ToSet(SubPackets(b, EcwOf[stripe])))
  BY <1>7, <1>8 DEF RoundOf
<1>10. /\ Len(RoundOf(t)) = EcwOf[stripe]
       /\ \A i \in 1 .. EcwOf[stripe] : RoundOf(t)[i] = b * EcwOf[stripe] + i - 1
  <2> DEFINE w == EcwOf[stripe]
             s == RoundOf(t)
             a == Ascending(ToSet(SubPackets(b, w)))
  <2>1. w \in Nat /\ b \in Nat /\ s = a
    BY <1>2, <1>5, <1>9
  <2> HIDE DEF w, s
  <2>2. Len(a) = w /\ \A i \in 1 .. w : a[i] = b * w + i - 1
    BY <2>1, BlockInOrder
  <2> HIDE DEF a
  <2>3. Len(s) = w /\ \A i \in 1 .. w : s[i] = b * w + i - 1
    BY <2>1, <2>2
  <2> QED BY <2>3 DEF w, s
<1> QED BY <1>2, <1>5, <1>8, <1>10

\* Every failed block has such a thread.
LEMMA EveryBlock ==
  ASSUME Ready
  PROVE  {t.blk : t \in {u \in tasks : u.type = "persist"}} = FailedOf[stripe]
<1>1. \A t \in tasks : t.type = "persist" => t.blk \in FailedOf[stripe]
  BY PersistIs
<1>2. ASSUME NEW b \in FailedOf[stripe]
      PROVE  \E t \in tasks : t.type = "persist" /\ t.blk = b
  <2>1. {t \in tasks : t.type = "persist" /\ t.blk = b} # {}
    <3>1. Colored /\ tasks = All /\ Requestor - b \in VerticesOf(LastLevel)
      BY ReadyIs DEF ConcatsOf
    <3> QED BY <3>1, AllPersist
  <2> QED BY <2>1
<1> QED BY <1>1, <1>2

----------------------------------------------------------------------------
(* The invariant of the running threads *)

\* The commands that a buffer may hold.
Commands == [v : Int, p : Packet]

\* A thread handles its round again and again.  A compute thread has the packets that it
\* has popped in this round; a send thread has buffers of commands that are its own, and
\* waits for replies of its own connections.
ThreadInv(t, th) ==
  /\ IsThread(th) /\ th.round = RoundOf(t) /\ InRound(th)
  /\ t.type = "compute" => th.got = [j \in 1 .. th.pos - 1 |-> <<th.round[j], th.pkt>>]
  /\ t.type = "send" =>
       /\ th.buffer \in [Connections(t) -> Seq(Commands)]
       /\ \A n \in Connections(t) : \A i \in 1 .. Len(th.buffer[n]) :
            Sends(t, th.buffer[n][i].v, n)
       /\ th.replylist \in Seq(Connections(t))
Threads(ths) == DOMAIN ths = tasks /\ \A t \in tasks : ThreadInv(t, ths[t])

\* The packets of v that a thread has pushed: a compute thread pushes all its vertices at
\* the end of its round.
Given(t, th, v) == IF t.type = "compute" THEN th.pkt ELSE Passed(th, v)

\* A queue has the packets that its feeder has pushed and its reader has not yet popped,
\* in order.  The readers are as threads taken say, the feeders as threads given say.
QueueKeys == UNION {{Key(t, q) : q \in Pops(t) \cup Pushes(t)} : t \in tasks}
Queues(qs, taken, given) ==
  /\ DOMAIN qs = QueueKeys
  /\ \A t, u \in tasks : t.node = u.node => \A q \in Pops(t) \cap Pushes(u) :
       /\ Passed(taken[t], q[2]) <= Given(u, given[u], q[2])
       /\ qs[Key(t, q)] = Packets(q[2], Passed(taken[t], q[2]), Given(u, given[u], q[2]))

\* The packets that threads have handled are counted by natural numbers.
Counts(ths) == \A t \in tasks : ths[t].pkt \in Nat /\ \A v : Passed(ths[t], v) \in Nat

\* No thread handles more than PktNum packets of a vertex, and in the end all have.
LEMMA PassedBound ==
  ASSUME NEW th, InRound(th), NEW v
  PROVE  /\ Passed(th, v) \in 0 .. PktNum /\ th.pkt \in 0 .. PktNum
         /\ ~ (th.pkt < PktNum) => th.pkt = PktNum /\ Passed(th, v) = PktNum
<1>1. /\ th.pkt \in 0 .. PktNum /\ PktNum \in Nat
      /\ th.pkt = PktNum => th.pos = 1
  BY PktNumAssumption DEF InRound
<1> DEFINE has == \E j \in 1 .. th.pos - 1 : th.round[j] = v
<1>2. Passed(th, v) = th.pkt + (IF has THEN 1 ELSE 0)
  BY DEF Passed
<1>3. th.pos = 1 => ~ has
  OBVIOUS
<1> HIDE DEF has
<1> QED BY <1>1, <1>2, <1>3

\* The threads of a stripe count packets.
LEMMA ThreadsCount ==
  ASSUME NEW ths, Threads(ths)
  PROVE  Counts(ths)
<1> SUFFICES ASSUME NEW t \in tasks PROVE ths[t].pkt \in Nat /\ \A v : Passed(ths[t], v) \in Nat
  BY DEF Counts
<1>1. InRound(ths[t])
  BY DEF Threads, ThreadInv
<1> QED BY <1>1, PassedBound

\* So they do those that they have pushed.
LEMMA GivenCounts ==
  ASSUME NEW ths, Counts(ths), NEW t \in tasks
  PROVE  \A v : Given(t, ths[t], v) \in Nat
BY DEF Counts, Given

----------------------------------------------------------------------------
(* Pops and pushes *)

\* The queues of a task are named by a vertex.
IsQueue(q) == q = <<"local", q[2]>> \/ q = <<"out", q[2]>>

\* The queues of a task are named by the vertex that they are for.
LEMMA QueuesNamed ==
  ASSUME Ready, NEW t \in tasks, NEW q \in Pops(t) \cup Pushes(t)
  PROVE  IsQueue(q) /\ q[2] \in Int
<1>1. Handled(t) \subseteq Int /\ t.list \subseteq Int
  BY HandledIs, TasksAre DEF GoodTask
<1>2. CASE q \in Pushes(t)
  BY <1>1, <1>2, PushesOf DEF IsQueue
<1>3. CASE q \in Pops(t)
  <2>1. t.type \in {"read", "send", "recv", "compute", "persist"}
    BY TasksAre
  <2>2. q \in {<<"local", v>> : v \in Handled(t)} \/ q \in {<<"out", v>> : v \in Handled(t)}
    BY <1>3, <2>1, PopsOf
  <2> QED BY <1>1, <2>2 DEF IsQueue
<1> QED BY <1>2, <1>3

\* Different queues have different keys.
LEMMA KeysApart ==
  ASSUME NEW t, NEW u, NEW q, NEW r, IsQueue(q), IsQueue(r)
  PROVE  Key(t, q) = Key(u, r) <=> t.node = u.node /\ q = r
BY DEF Key, IsQueue

\* What a task pops is of its round, and two of its queues are of different vertices.
LEMMA PopsApart ==
  ASSUME Ready, NEW t \in tasks, NEW q \in Pops(t)
  PROVE  /\ q[2] \in Handled(t)
         /\ \A r \in Pops(t) : r[2] = q[2] => r = q
<1>1. t.type \in {"read", "send", "recv", "compute", "persist"}
  BY TasksAre
<1>2. CASE t.type = "send"
  <2>1. Pops(t) = {<<"out", v>> : v \in Handled(t)}
    BY <1>2, PopsOf
  <2> QED BY <2>1
<1>3. CASE t.type \in {"compute", "persist"}
  <2>1. Pops(t) = {<<"local", v>> : v \in Handled(t)}
    BY <1>3, PopsOf
  <2> QED BY <2>1
<1> QED BY <1>1, <1>2, <1>3, PopsOf

\* Every queue that is popped has a feeder.
LEMMA HasFeeder ==
  ASSUME Ready, NEW t \in tasks, NEW q \in Pops(t)
  PROVE  \E u \in tasks : u.node = t.node /\ q \in Pushes(u)
BY ReadyIs, AllAreFed DEF IsFeeder

\* The pop of a packet: it is the next one that the reader has to handle.
LEMMA PopStep ==
  ASSUME Ready, NEW qs, NEW a, NEW b, Queues(qs, a, b), Counts(a), Counts(b), DOMAIN a = tasks,
         NEW s \in tasks, NEW q \in Pops(s), qs[Key(s, q)] # <<>>,
         NEW th, Passed(th, q[2]) = Passed(a[s], q[2]) + 1,
         \A v \in Handled(s) : v # q[2] => Passed(th, v) = Passed(a[s], v)
  PROVE  /\ Head(qs[Key(s, q)]) = <<q[2], Passed(a[s], q[2])>>
         /\ Queues([qs EXCEPT ![Key(s, q)] = Tail(@)], [a EXCEPT ![s] = th], b)
<1> DEFINE a2 == [a EXCEPT ![s] = th]
           k == Key(s, q)
           qs2 == [qs EXCEPT ![k] = Tail(@)]
<1>1. k \in DOMAIN qs /\ DOMAIN qs = QueueKeys
  BY DEF Queues, QueueKeys
<1>2. a2[s] = th /\ \A t \in tasks : t # s => a2[t] = a[t]
  OBVIOUS
<1>3. DOMAIN qs2 = DOMAIN qs /\ qs2[k] = Tail(qs[k]) /\ \A l \in DOMAIN qs : l # k => qs2[l] = qs[l]
  BY <1>1
<1>4. IsQueue(q) /\ q[2] \in Int
  BY QueuesNamed
<1>5. ASSUME NEW u \in tasks, u.node = s.node, q \in Pushes(u)
      PROVE  /\ Head(qs[k]) = <<q[2], Passed(a[s], q[2])>>
             /\ Passed(th, q[2]) <= Given(u, b[u], q[2])
             /\ qs2[k] = Packets(q[2], Passed(th, q[2]), Given(u, b[u], q[2]))
  <2> DEFINE x == Passed(a[s], q[2])
             y == Given(u, b[u], q[2])
  <2>1. x \in Nat /\ y \in Nat
    BY GivenCounts DEF Counts
  <2>2. x <= y /\ qs[k] = Packets(q[2], x, y)
    BY <1>5 DEF Queues
  <2> HIDE DEF x, y, k, qs2
  <2>3. x < y /\ Head(qs[k]) = <<q[2], x>> /\ Tail(qs[k]) = Packets(q[2], x + 1, y)
    <3> DEFINE v == q[2]
               p == Packets(v, x, y)
    <3>1. v \in Int /\ p # <<>> /\ qs[k] = p
      BY <1>4, <2>2 DEF k
    <3> HIDE DEF v
    <3>2. /\ p # <<>> <=> x < y
          /\ x < y => Head(p) = <<v, x>> /\ Tail(p) = Packets(v, x + 1, y)
      BY <2>1, <2>2, <3>1, FewerPackets
    <3> HIDE DEF p
    <3> QED BY <3>1, <3>2 DEF v
  <2>4. Passed(th, q[2]) = x + 1
    BY DEF x
  <2> QED BY <1>3, <2>1, <2>3, <2>4 DEF x, y
<1>6. Head(qs[k]) = <<q[2], Passed(a[s], q[2])>>
  BY <1>5, HasFeeder
<1> HIDE DEF a2, k, qs2
<1>7. ASSUME NEW t \in tasks, NEW u \in tasks, t.node = u.node, NEW r \in Pops(t) \cap Pushes(u)
      PROVE  /\ Passed(a2[t], r[2]) <= Given(u, b[u], r[2])
             /\ qs2[Key(t, r)] = Packets(r[2], Passed(a2[t], r[2]), Given(u, b[u], r[2]))
  <2>1. /\ Passed(a[t], r[2]) <= Given(u, b[u], r[2])
        /\ qs[Key(t, r)] = Packets(r[2], Passed(a[t], r[2]), Given(u, b[u], r[2]))
    BY <1>7 DEF Queues
  <2>2. IsQueue(r)
    BY QueuesNamed
  <2>3. Key(t, r) \in DOMAIN qs
    BY <1>1 DEF QueueKeys
  <2>4. CASE t = s /\ r = q
    BY <1>2, <1>5, <1>7, <2>4 DEF k
  <2>5. CASE t = s /\ r # q
    <3>1. r[2] \in Handled(s) /\ r[2] # q[2]
      BY <2>5, PopsApart
    <3>2. Passed(a2[t], r[2]) = Passed(a[t], r[2])
      BY <1>2, <2>5, <3>1
    <3>3. Key(t, r) # k
      BY <1>4, <2>2, <2>5, KeysApart DEF k
    <3> QED BY <1>3, <2>1, <2>3, <3>2, <3>3
  <2>6. CASE t # s
    <3>1. Key(t, r) # k
      <4> SUFFICES ASSUME Key(t, r) = k PROVE FALSE
        OBVIOUS
      <4>1. t.node = s.node /\ r = q
        BY <1>4, <2>2, KeysApart DEF k
      <4> QED BY <2>6, <4>1, ReadyIs, AllHaveOneReader
    <3> QED BY <1>2, <1>3, <2>1, <2>3, <2>6, <3>1
  <2> QED BY <2>4, <2>5, <2>6
<1>8. Queues(qs2, a2, b)
  BY <1>1, <1>3, <1>7 DEF Queues
<1> QED BY <1>6, <1>8 DEF a2, k, qs2

\* A push: thread s has given one more packet of some vertices.
LEMMA PushStep ==
  ASSUME Ready, NEW qs, NEW a, NEW b, Queues(qs, a, b), Counts(a), Counts(b), DOMAIN b = tasks,
         NEW s \in tasks, NEW th, NEW packets,
         \A q \in Pushes(s) :
           IF q[2] \in DOMAIN packets
           THEN /\ packets[q[2]] = <<q[2], Given(s, b[s], q[2])>>
                /\ Given(s, th, q[2]) = Given(s, b[s], q[2]) + 1
           ELSE Given(s, th, q[2]) = Given(s, b[s], q[2])
  PROVE  Queues(Pushed(s, qs, packets), a, [b EXCEPT ![s] = th])
<1> DEFINE b2 == [b EXCEPT ![s] = th]
           qs2 == Pushed(s, qs, packets)
<1>1. DOMAIN qs = QueueKeys
  BY DEF Queues
<1>2. b2[s] = th /\ \A t \in tasks : t # s => b2[t] = b[t]
  OBVIOUS
<1>3. /\ DOMAIN qs2 = DOMAIN qs
      /\ \A k \in DOMAIN qs :
           qs2[k] = IF k[1] = s.node /\ k[3] \in DOMAIN packets /\ <<k[2], k[3]>> \in Pushes(s)
                    THEN Append(qs[k], packets[k[3]]) ELSE qs[k]
  BY DEF Pushed
<1> HIDE DEF b2, qs2
<1>4. ASSUME NEW t \in tasks, NEW u \in tasks, t.node = u.node, NEW r \in Pops(t) \cap Pushes(u)
      PROVE  /\ Passed(a[t], r[2]) <= Given(u, b2[u], r[2])
             /\ qs2[Key(t, r)] = Packets(r[2], Passed(a[t], r[2]), Given(u, b2[u], r[2]))
  <2> DEFINE x == Passed(a[t], r[2])
             y == Given(u, b[u], r[2])
             k == Key(t, r)
  <2>1. x <= y /\ qs[k] = Packets(r[2], x, y)
    BY <1>4 DEF Queues
  <2>2. IsQueue(r) /\ r[2] \in Int
    BY QueuesNamed
  <2>3. k \in DOMAIN qs
    BY <1>1 DEF QueueKeys
  <2>4. k[1] = t.node /\ k[3] = r[2] /\ <<k[2], k[3]>> = r
    BY <2>2 DEF Key, IsQueue
  <2>5. x \in Nat /\ y \in Nat
    BY GivenCounts DEF Counts
  <2> HIDE DEF x, y, k
  <2>6. CASE u = s /\ r[2] \in DOMAIN packets
    <3>1. qs2[k] = Append(qs[k], packets[r[2]])
      BY <1>3, <1>4, <2>3, <2>4, <2>6
    <3>2. packets[r[2]] = <<r[2], y>> /\ Given(u, b2[u], r[2]) = y + 1
      BY <1>2, <2>6 DEF y
    <3>3. qs2[k] = Packets(r[2], x, y + 1)
      BY <2>1, <2>2, <2>5, <3>1, <3>2, MorePackets, ZenonT(40)
    <3> QED BY <2>1, <2>5, <3>2, <3>3 DEF x, k
  <2>7. CASE u = s /\ r[2] \notin DOMAIN packets
    <3>1. qs2[k] = qs[k]
      BY <1>3, <2>3, <2>4, <2>7
    <3>2. Given(u, b2[u], r[2]) = y
      BY <1>2, <2>7 DEF y
    <3> QED BY <2>1, <3>1, <3>2 DEF x, k
  <2>8. CASE u # s
    <3>1. ~ (k[1] = s.node /\ <<k[2], k[3]>> \in Pushes(s))
      BY <1>4, <2>4, <2>8, OnePusher
    <3>2. qs2[k] = qs[k]
      BY <1>3, <2>3, <3>1
    <3> QED BY <1>2, <2>1, <2>8, <3>2 DEF x, y, k
  <2> QED BY <2>6, <2>7, <2>8
<1>5. Queues(qs2, a, b2)
  BY <1>1, <1>3, <1>4 DEF Queues
<1> QED BY <1>5 DEF b2, qs2

\* A reader that has popped nothing, and a feeder that has pushed nothing.
LEMMA NoPop ==
  ASSUME NEW qs, NEW a, NEW b, Queues(qs, a, b), DOMAIN a = tasks, NEW s \in tasks, NEW th,
         \A q \in Pops(s) : Passed(th, q[2]) = Passed(a[s], q[2])
  PROVE  Queues(qs, [a EXCEPT ![s] = th], b)
<1> DEFINE a2 == [a EXCEPT ![s] = th]
<1>1. a2[s] = th /\ \A t \in tasks : t # s => a2[t] = a[t]
  OBVIOUS
<1> HIDE DEF a2
<1>2. \A t \in tasks : \A q \in Pops(t) : Passed(a2[t], q[2]) = Passed(a[t], q[2])
  BY <1>1
<1>3. Queues(qs, a2, b)
  BY <1>2 DEF Queues
<1> QED BY <1>3 DEF a2

\* And a feeder that has pushed nothing.
LEMMA NoPush ==
  ASSUME NEW qs, NEW a, NEW b, Queues(qs, a, b), DOMAIN b = tasks, NEW s \in tasks, NEW th,
         \A q \in Pushes(s) : Given(s, th, q[2]) = Given(s, b[s], q[2])
  PROVE  Queues(qs, a, [b EXCEPT ![s] = th])
<1> DEFINE b2 == [b EXCEPT ![s] = th]
<1>1. b2[s] = th /\ \A t \in tasks : t # s => b2[t] = b[t]
  OBVIOUS
<1> HIDE DEF b2
<1>2. \A t \in tasks : \A q \in Pushes(t) : Given(t, b2[t], q[2]) = Given(t, b[t], q[2])
  BY <1>1
<1>3. Queues(qs, a, b2)
  BY <1>2 DEF Queues
<1> QED BY <1>3 DEF b2

----------------------------------------------------------------------------
(* Commands in buffers, and their execution *)

\* The commands for v among cmds have the packets w to h - 1, in order: mark[i] is the packet
\* that is next after the first i commands.
Holds(cmds, v, w, h) ==
  \E mark \in [0 .. Len(cmds) -> Nat] :
    /\ mark[0] = w /\ mark[Len(cmds)] = h
    /\ \A i \in 1 .. Len(cmds) :
         IF cmds[i].v = v THEN cmds[i].p = <<v, mark[i - 1]>> /\ mark[i] = mark[i - 1] + 1
         ELSE mark[i] = mark[i - 1]

\* An empty buffer has no packets.
LEMMA HoldsNone ==
  ASSUME NEW v, NEW w \in Nat
  PROVE  Holds(<<>>, v, w, w)
<1> DEFINE mark == [i \in 0 .. 0 |-> w]
<1>1. mark \in [0 .. Len(<<>>) -> Nat] /\ mark[0] = w /\ mark[Len(<<>>)] = w
  OBVIOUS
<1>2. \A i \in 1 .. Len(<<>>) : FALSE
  OBVIOUS
<1> HIDE DEF mark
<1> QED BY <1>1, <1>2 DEF Holds

\* One more command.
LEMMA HoldsMore ==
  ASSUME NEW cmds \in Seq(Commands), NEW v, NEW w, NEW h, Holds(cmds, v, w, h), NEW c \in Commands,
         c.v = v => c.p = <<v, h>>
  PROVE  Holds(Append(cmds, c), v, w, IF c.v = v THEN h + 1 ELSE h)
<1> DEFINE n == Len(cmds)
           more == Append(cmds, c)
           last == IF c.v = v THEN h + 1 ELSE h
<1>1. PICK mark \in [0 .. n -> Nat] :
        /\ mark[0] = w /\ mark[n] = h
        /\ \A i \in 1 .. n :
             IF cmds[i].v = v THEN cmds[i].p = <<v, mark[i - 1]>> /\ mark[i] = mark[i - 1] + 1
             ELSE mark[i] = mark[i - 1]
  BY DEF Holds
<1>2. /\ n \in Nat /\ Len(more) = n + 1
      /\ \A i \in 1 .. n : more[i] = cmds[i]
      /\ more[n + 1] = c
  BY AppendProperties, LenProperties
<1> HIDE DEF n, more
<1> DEFINE longer == [i \in 0 .. n + 1 |-> IF i = n + 1 THEN last ELSE mark[i]]
<1>3. h \in Nat /\ last \in Nat
  BY <1>1, <1>2
<1>4. longer \in [0 .. n + 1 -> Nat]
  <2> HIDE DEF last
  <2> QED BY <1>1, <1>2, <1>3
<1>5. /\ \A i \in 0 .. n : longer[i] = mark[i]
      /\ longer[n + 1] = last
  BY <1>2
<1> HIDE DEF longer
<1>6. longer[0] = w /\ longer[Len(more)] = last
  BY <1>1, <1>2, <1>5
<1>7. ASSUME NEW i \in 1 .. Len(more)
      PROVE  IF more[i].v = v
             THEN more[i].p = <<v, longer[i - 1]>> /\ longer[i] = longer[i - 1] + 1
             ELSE longer[i] = longer[i - 1]
  <2>1. CASE i \in 1 .. n
    <3>1. i \in 0 .. n /\ i - 1 \in 0 .. n
      BY <1>2, <2>1
    <3>2. more[i] = cmds[i] /\ longer[i] = mark[i] /\ longer[i - 1] = mark[i - 1]
      BY <1>2, <1>5, <2>1, <3>1
    <3> QED BY <1>1, <2>1, <3>2
  <2>2. CASE i = n + 1
    <3>1. i - 1 = n /\ n \in 0 .. n
      BY <1>2, <2>2
    <3>2. more[i] = c /\ longer[i] = last /\ longer[i - 1] = h
      BY <1>1, <1>2, <1>5, <2>2, <3>1
    <3> QED BY <3>2
  <2> QED BY <1>2, <2>1, <2>2
<1>8. longer \in [0 .. Len(more) -> Nat]
  BY <1>2, <1>4
<1> HIDE DEF last
<1>9. Holds(more, v, w, last)
  BY <1>6, <1>7, <1>8 DEF Holds
<1> QED BY <1>9 DEF more, last

\* The function that Executed defines exists.
IsLists(lists, n, cmds, m) ==
  lists = [i \in 0 .. m |-> IF i = 0 THEN redis ELSE Added(lists[i - 1], n, cmds[i])]

\* It exists for any number of commands.
LEMMA ListsExist ==
  ASSUME NEW n, NEW cmds, NEW m \in Nat
  PROVE  \E lists : IsLists(lists, n, cmds, m)
<1> DEFINE T == {i \in Nat : \E lists : IsLists(lists, n, cmds, i)}
<1>1. 0 \in T
  <2>1. IsLists([i \in 0 .. 0 |-> redis], n, cmds, 0)
    BY DEF IsLists
  <2> QED BY <2>1
<1>2. ASSUME NEW i \in T PROVE i + 1 \in T
  <2>1. PICK lists : IsLists(lists, n, cmds, i)
    OBVIOUS
  <2> DEFINE next == Added(lists[i], n, cmds[i + 1])
             longer == [j \in 0 .. i + 1 |-> IF j = i + 1 THEN next ELSE lists[j]]
  <2>2. IsLists(longer, n, cmds, i + 1)
    BY <2>1 DEF IsLists
  <2> QED BY <2>2
<1>3. T = Nat
  <2> HIDE DEF T
  <2>1. T \in SUBSET Nat
    BY DEF T
  <2> QED BY <1>1, <1>2, <2>1, SetInduction
<1> QED BY <1>3

\* The lists while the commands of a buffer are executed, one after the other.
LEMMA ListsAre ==
  ASSUME NEW n, NEW cmds \in Seq(Commands)
  PROVE  \E lists : /\ Executed(n, cmds) = lists[Len(cmds)]
                    /\ lists[0] = redis
                    /\ \A i \in 1 .. Len(cmds) : lists[i] = Added(lists[i - 1], n, cmds[i])
<1> DEFINE m == Len(cmds)
           f == CHOOSE lists : IsLists(lists, n, cmds, m)
<1>1. m \in Nat
  BY LenProperties
<1>2. IsLists(f, n, cmds, m)
  <2> HIDE DEF m
  <2> QED BY <1>1, ListsExist
<1>3. Executed(n, cmds) = f[m]
  BY DEF Executed, IsLists
<1> HIDE DEF f, m
<1>4. f[0] = redis /\ \A i \in 1 .. m : f[i] = Added(f[i - 1], n, cmds[i])
  BY <1>1, <1>2 DEF IsLists
<1> QED BY <1>3, <1>4 DEF m

\* A command changes its own list only.
LEMMA AddedIs ==
  ASSUME NEW rs, NEW n, NEW c
  PROVE  /\ DOMAIN Added(rs, n, c) = DOMAIN rs
         /\ \A k \in DOMAIN rs :
              Added(rs, n, c)[k] = IF k = <<n, c.v>> THEN Append(rs[k], c.p) ELSE rs[k]
BY DEF Added

\* The commands of a buffer change no other lists.
LEMMA ExecutedElsewhere ==
  ASSUME NEW n, NEW cmds \in Seq(Commands)
  PROVE  /\ DOMAIN Executed(n, cmds) = DOMAIN redis
         /\ \A k \in DOMAIN redis :
              (\A i \in 1 .. Len(cmds) : k # <<n, cmds[i].v>>) => Executed(n, cmds)[k] = redis[k]
<1> DEFINE m == Len(cmds)
<1>1. PICK lists : /\ Executed(n, cmds) = lists[m]
                   /\ lists[0] = redis
                   /\ \A i \in 1 .. m : lists[i] = Added(lists[i - 1], n, cmds[i])
  BY ListsAre
<1>2. m \in Nat
  BY LenProperties
<1> HIDE DEF m
<1> DEFINE Same2(i) ==
             /\ DOMAIN lists[i] = DOMAIN redis
             /\ \A k \in DOMAIN redis :
                  (\A j \in 1 .. m : k # <<n, cmds[j].v>>) => lists[i][k] = redis[k]
           T == {i \in Nat : i <= m => Same2(i)}
<1>3. 0 \in T
  BY <1>1
<1>4. ASSUME NEW i \in T PROVE i + 1 \in T
  <2> SUFFICES ASSUME i + 1 <= m PROVE Same2(i + 1)
    OBVIOUS
  <2>1. Same2(i) /\ i + 1 \in 1 .. m /\ (i + 1) - 1 = i
    BY <1>2
  <2>2. lists[i + 1] = Added(lists[i], n, cmds[i + 1])
    BY <1>1, <2>1
  <2> QED BY <2>1, <2>2, AddedIs
<1>5. T = Nat
  <2> HIDE DEF T
  <2>1. T \in SUBSET Nat
    BY DEF T
  <2> QED BY <1>3, <1>4, <2>1, SetInduction
<1>6. Same2(m)
  BY <1>2, <1>5
<1> QED BY <1>1, <1>6 DEF m

\* They append their packets to the list that they are for.
LEMMA ExecutedPackets ==
  ASSUME NEW n, NEW cmds \in Seq(Commands), NEW v \in Int, NEW a \in Nat, NEW w \in Nat, NEW h,
         Holds(cmds, v, w, h), a <= w,
         <<n, v>> \in DOMAIN redis, redis[<<n, v>>] = Packets(v, a, w)
  PROVE  /\ h \in Nat /\ w <= h
         /\ Executed(n, cmds)[<<n, v>>] = Packets(v, a, h)
<1> DEFINE m == Len(cmds)
           k == <<n, v>>
<1>1. PICK lists : /\ Executed(n, cmds) = lists[m]
                   /\ lists[0] = redis
                   /\ \A i \in 1 .. m : lists[i] = Added(lists[i - 1], n, cmds[i])
  BY ListsAre
<1>2. m \in Nat
  BY LenProperties
<1>3. PICK mark \in [0 .. m -> Nat] :
        /\ mark[0] = w /\ mark[m] = h
        /\ \A i \in 1 .. m :
             IF cmds[i].v = v THEN cmds[i].p = <<v, mark[i - 1]>> /\ mark[i] = mark[i - 1] + 1
             ELSE mark[i] = mark[i - 1]
  BY DEF Holds
<1> HIDE DEF m, k
<1> DEFINE Has(i) ==
             /\ k \in DOMAIN lists[i]
             /\ w <= mark[i]
             /\ lists[i][k] = Packets(v, a, mark[i])
           T == {i \in Nat : i <= m => Has(i)}
<1>4. 0 \in T
  BY <1>1, <1>3 DEF k
<1>5. ASSUME NEW i \in T PROVE i + 1 \in T
  <2> SUFFICES ASSUME i + 1 <= m PROVE Has(i + 1)
    OBVIOUS
  <2>1. Has(i) /\ i + 1 \in 1 .. m /\ (i + 1) - 1 = i /\ i \in 0 .. m
    BY <1>2
  <2>2. lists[i + 1] = Added(lists[i], n, cmds[i + 1])
    BY <1>1, <2>1
  <2>3. /\ k \in DOMAIN lists[i + 1]
        /\ lists[i + 1][k] = IF k = <<n, cmds[i + 1].v>> THEN Append(lists[i][k], cmds[i + 1].p)
                             ELSE lists[i][k]
    BY <2>1, <2>2, AddedIs
  <2>4. mark[i] \in Nat
    BY <1>3, <2>1
  <2>5. CASE cmds[i + 1].v = v
    <3>1. cmds[i + 1].p = <<v, mark[i]>> /\ mark[i + 1] = mark[i] + 1
      BY <1>3, <2>1, <2>5
    <3>2. lists[i + 1][k] = Append(Packets(v, a, mark[i]), <<v, mark[i]>>)
      BY <2>1, <2>3, <2>5, <3>1 DEF k
    <3>3. a <= mark[i]
      BY <2>1, <2>4
    <3> DEFINE x == mark[i]
    <3> HIDE DEF x
    <3>4. x \in Nat /\ a <= x
      BY <2>4, <3>3 DEF x
    <3>5. Append(Packets(v, a, x), <<v, x>>) = Packets(v, a, x + 1)
      BY <3>4, MorePackets
    <3>6. lists[i + 1][k] = Packets(v, a, x + 1) /\ mark[i + 1] = x + 1
      BY <3>1, <3>2, <3>5 DEF x
    <3>7. w <= x
      BY <2>1 DEF x
    <3>8. w <= mark[i + 1]
      BY <3>4, <3>6, <3>7
    <3>9. lists[i + 1][k] = Packets(v, a, mark[i + 1])
      BY <3>6
    <3> QED BY <2>3, <3>8, <3>9
  <2>6. CASE cmds[i + 1].v # v
    <3>1. mark[i + 1] = mark[i]
      BY <1>3, <2>1, <2>6
    <3> QED BY <2>1, <2>3, <2>6, <3>1 DEF k
  <2> QED BY <2>5, <2>6
<1>6. T = Nat
  <2> HIDE DEF T
  <2>1. T \in SUBSET Nat
    BY DEF T
  <2> QED BY <1>4, <1>5, <2>1, SetInduction
<1>7. Has(m) /\ h \in Nat
  <2>1. m \in T /\ m <= m /\ m \in 0 .. m
    BY <1>2, <1>6
  <2> QED BY <1>3, <2>1
<1> QED BY <1>1, <1>3, <1>7 DEF m, k

----------------------------------------------------------------------------
(* The redis lists *)

ListKeys == UNION {{<<t.node, v>> : v \in t.list} : t \in {u \in tasks : u.type = "recv"}}

\* A vertex that is sent to a node is in its list there and, after that, in the buffer of its
\* sender: the packets that the sender has handled and the receiver has not, in order.
Lists(rs, ths) ==
  /\ DOMAIN rs = ListKeys
  /\ \A s, r \in tasks : r.type = "recv" => \A v \in r.list : Sends(s, v, r.node) =>
       \E w \in Nat :
         /\ Passed(ths[r], v) <= w /\ w <= Passed(ths[s], v)
         /\ rs[<<r.node, v>>] = Packets(v, Passed(ths[r], v), w)
         /\ Holds(ths[s].buffer[r.node], v, w, Passed(ths[s], v))

\* A step of a thread that neither sends nor receives, or only reads a reply.
LEMMA KeepLists ==
  ASSUME NEW rs, NEW a, Lists(rs, a), DOMAIN a = tasks, NEW s \in tasks, NEW th,
         \/ s.type \notin {"send", "recv"}
         \/ th.buffer = a[s].buffer /\ \A v : Passed(th, v) = Passed(a[s], v)
  PROVE  Lists(rs, [a EXCEPT ![s] = th])
<1> DEFINE a2 == [a EXCEPT ![s] = th]
<1>1. a2[s] = th /\ \A t \in tasks : t # s => a2[t] = a[t]
  OBVIOUS
<1> HIDE DEF a2
<1>2. ASSUME NEW t \in tasks, t.type \in {"send", "recv"}
      PROVE  a2[t].buffer = a[t].buffer /\ \A v : Passed(a2[t], v) = Passed(a[t], v)
  BY <1>1, <1>2
<1>3. ASSUME NEW u \in tasks, NEW r \in tasks, r.type = "recv", NEW v \in r.list, Sends(u, v, r.node)
      PROVE  \E w \in Nat :
               /\ Passed(a2[r], v) <= w /\ w <= Passed(a2[u], v)
               /\ rs[<<r.node, v>>] = Packets(v, Passed(a2[r], v), w)
               /\ Holds(a2[u].buffer[r.node], v, w, Passed(a2[u], v))
  <2>1. /\ Passed(a2[r], v) = Passed(a[r], v) /\ Passed(a2[u], v) = Passed(a[u], v)
        /\ a2[u].buffer = a[u].buffer
    BY <1>2, <1>3 DEF Sends
  <2>2. PICK w \in Nat :
          /\ Passed(a[r], v) <= w /\ w <= Passed(a[u], v)
          /\ rs[<<r.node, v>>] = Packets(v, Passed(a[r], v), w)
          /\ Holds(a[u].buffer[r.node], v, w, Passed(a[u], v))
    BY <1>3 DEF Lists
  <2> QED BY <2>1, <2>2
<1>4. Lists(rs, a2)
  BY <1>3 DEF Lists
<1> QED BY <1>4 DEF a2

\* A vertex in a list, its receiver and its sender are integers, tasks and a connection.
LEMMA SenderIs ==
  ASSUME Ready, NEW s \in tasks, NEW r \in tasks, r.type = "recv", NEW v \in r.list,
         Sends(s, v, r.node)
  PROVE  /\ s.type = "send" /\ v \in Int /\ v \in Handled(s) /\ v \in Handled(r)
         /\ r.node \in Connections(s) /\ <<r.node, v>> \in ListKeys
<1>1. v \in Int
  BY TasksAre DEF GoodTask
<1> QED BY <1>1 DEF Sends, Handled, Connections, ListKeys

\* A send thread appends the commands for a packet.
LEMMA SendStep ==
  ASSUME Ready, NEW rs, NEW a, Lists(rs, a), Threads(a),
         NEW s \in tasks, s.type = "send", NEW v \in s.list, NEW th,
         Passed(th, v) = Passed(a[s], v) + 1,
         \A u \in Handled(s) : u # v => Passed(th, u) = Passed(a[s], u),
         NEW c, c = [v |-> v, p |-> <<v, Passed(a[s], v)>>],
         \A n \in Connections(s) :
           th.buffer[n] = IF n \in s.sendto[v] THEN Append(a[s].buffer[n], c) ELSE a[s].buffer[n]
  PROVE  Lists(rs, [a EXCEPT ![s] = th])
<1> DEFINE a2 == [a EXCEPT ![s] = th]
<1>1. a2[s] = th /\ (\A t \in tasks : t # s => a2[t] = a[t]) /\ Counts(a)
  BY ThreadsCount DEF Threads
<1> HIDE DEF a2
<1>2. c \in Commands
  <2>1. v \in Int
    BY TasksAre DEF GoodTask
  <2>2. <<v, Passed(a[s], v)>> \in Packet
    <3>1. Passed(a[s], v) \in Nat
      BY <1>1 DEF Counts
    <3> QED BY <2>1, <3>1 DEF Packet
  <2> HIDE DEF Packet
  <2> QED BY <2>1, <2>2 DEF Commands
<1>3. ASSUME NEW u \in tasks, NEW r \in tasks, r.type = "recv", NEW x \in r.list, Sends(u, x, r.node)
      PROVE  \E w \in Nat :
               /\ Passed(a2[r], x) <= w /\ w <= Passed(a2[u], x)
               /\ rs[<<r.node, x>>] = Packets(x, Passed(a2[r], x), w)
               /\ Holds(a2[u].buffer[r.node], x, w, Passed(a2[u], x))
  <2> DEFINE n == r.node
  <2>1. PICK w \in Nat :
          /\ Passed(a[r], x) <= w /\ w <= Passed(a[u], x)
          /\ rs[<<n, x>>] = Packets(x, Passed(a[r], x), w)
          /\ Holds(a[u].buffer[n], x, w, Passed(a[u], x))
    BY <1>3 DEF Lists
  <2>2. r # s /\ a2[r] = a[r]
    BY <1>1, <1>3
  <2>3. CASE u # s
    BY <1>1, <2>1, <2>2, <2>3
  <2>4. CASE u = s
    <3> DEFINE h == Passed(a[s], x)
               b == a[s].buffer[n]
    <3>1. n \in Connections(s) /\ x \in Handled(s) /\ n \in s.sendto[x]
      BY <1>3, <2>4, SenderIs DEF Sends
    <3>2. b \in Seq(Commands)
      BY <3>1 DEF Threads, ThreadInv
    <3>3. h \in Nat
      BY <1>1 DEF Counts
    <3>4. w <= h /\ Holds(b, x, w, h)
      BY <2>1, <2>4
    <3>5. th.buffer[n] = IF n \in s.sendto[v] THEN Append(b, c) ELSE b
      BY <3>1
    <3>6. CASE x = v
      <4>1. c.v = x /\ c.p = <<x, h>>
        BY <3>6
      <4> HIDE DEF h, b
      <4>2. Holds(Append(b, c), x, w, h + 1)
        BY <1>2, <3>2, <3>4, <4>1, HoldsMore
      <4>3. Passed(th, x) = h + 1 /\ th.buffer[n] = Append(b, c)
        BY <3>1, <3>5, <3>6 DEF h
      <4>4. w <= h + 1
        BY <3>3, <3>4
      <4> QED BY <1>1, <2>1, <2>2, <2>4, <4>2, <4>3, <4>4
    <3>7. CASE x # v
      <4>1. c.v # x
        BY <3>7
      <4>2. Passed(th, x) = h
        BY <3>1, <3>7
      <4> HIDE DEF h, b
      <4>3. Holds(Append(b, c), x, w, h)
        BY <1>2, <3>2, <3>4, <4>1, HoldsMore
      <4>4. Holds(th.buffer[n], x, w, h)
        BY <3>4, <3>5, <4>3
      <4> QED BY <1>1, <2>1, <2>2, <2>4, <3>4, <4>2, <4>4
    <3> QED BY <3>6, <3>7
  <2> QED BY <2>3, <2>4
<1>4. Lists(rs, a2)
  BY <1>3 DEF Lists
<1> QED BY <1>4 DEF a2

\* The buffer of a connection is written, and the redis of the receiver executes it.
LEMMA FlushStep ==
  ASSUME Ready, NEW a, Lists(redis, a), Threads(a),
         NEW s \in tasks, s.type = "send", NEW n \in Connections(s), NEW th,
         th.buffer = [a[s].buffer EXCEPT ![n] = <<>>], \A v : Passed(th, v) = Passed(a[s], v)
  PROVE  Lists(Executed(n, a[s].buffer[n]), [a EXCEPT ![s] = th])
<1> DEFINE a2 == [a EXCEPT ![s] = th]
           cmds == a[s].buffer[n]
           rs == Executed(n, cmds)
<1>1. a2[s] = th /\ (\A t \in tasks : t # s => a2[t] = a[t]) /\ Counts(a)
  BY ThreadsCount DEF Threads
<1>2. /\ a[s].buffer \in [Connections(s) -> Seq(Commands)]
      /\ \A i \in 1 .. Len(cmds) : Sends(s, cmds[i].v, n)
  BY DEF Threads, ThreadInv
<1>3. cmds \in Seq(Commands)
  BY <1>2
<1>4. th.buffer[n] = <<>> /\ \A m \in Connections(s) : m # n => th.buffer[m] = a[s].buffer[m]
  BY <1>2
<1> HIDE DEF a2, cmds, rs
<1>5. /\ DOMAIN rs = DOMAIN redis
      /\ \A k \in DOMAIN redis : (\A i \in 1 .. Len(cmds) : k # <<n, cmds[i].v>>) => rs[k] = redis[k]
  BY <1>3, ExecutedElsewhere DEF rs
<1>6. ASSUME NEW u \in tasks, NEW r \in tasks, r.type = "recv", NEW x \in r.list, Sends(u, x, r.node)
      PROVE  \E w \in Nat :
               /\ Passed(a2[r], x) <= w /\ w <= Passed(a2[u], x)
               /\ rs[<<r.node, x>>] = Packets(x, Passed(a2[r], x), w)
               /\ Holds(a2[u].buffer[r.node], x, w, Passed(a2[u], x))
  <2>1. PICK w \in Nat :
          /\ Passed(a[r], x) <= w /\ w <= Passed(a[u], x)
          /\ redis[<<r.node, x>>] = Packets(x, Passed(a[r], x), w)
          /\ Holds(a[u].buffer[r.node], x, w, Passed(a[u], x))
    BY <1>6 DEF Lists
  <2>2. a2[r] = a[r] /\ Passed(a2[u], x) = Passed(a[u], x)
    BY <1>1, <1>6
  <2>3. x \in Int /\ <<r.node, x>> \in DOMAIN redis /\ r.node \in Connections(u)
    BY <1>6, SenderIs DEF Lists
  <2>4. Passed(a[r], x) \in Nat /\ Passed(a[u], x) \in Nat
    BY <1>1 DEF Counts
  <2>5. CASE u = s /\ r.node = n
    <3> DEFINE low == Passed(a[r], x)
               h == Passed(a[u], x)
    <3>1. Holds(cmds, x, w, h) /\ redis[<<n, x>>] = Packets(x, low, w) /\ <<n, x>> \in DOMAIN redis
      BY <2>1, <2>3, <2>5 DEF cmds
    <3>2. low \in Nat /\ h \in Nat /\ low <= w /\ w <= h
      BY <2>1, <2>4
    <3> HIDE DEF low, h
    <3>3. rs[<<n, x>>] = Packets(x, low, h)
      BY <1>3, <2>3, <3>1, <3>2, ExecutedPackets DEF rs
    <3>4. Holds(<<>>, x, h, h)
      BY <3>2, HoldsNone
    <3>5. a2[u].buffer[r.node] = <<>>
      BY <1>1, <1>4, <2>5
    <3>6. low <= h /\ h <= h
      BY <3>2
    <3> QED BY <2>2, <2>5, <3>2, <3>3, <3>4, <3>5, <3>6 DEF low, h
  <2>6. CASE ~ (u = s /\ r.node = n)
    <3>1. \A i \in 1 .. Len(cmds) : <<r.node, x>> # <<n, cmds[i].v>>
      <4> SUFFICES ASSUME NEW i \in 1 .. Len(cmds), r.node = n, x = cmds[i].v PROVE FALSE
        OBVIOUS
      <4>1. Sends(s, x, n) /\ Sends(u, x, n)
        BY <1>2, <1>6 DEF cmds
      <4> QED BY <2>6, <4>1, OneSender
    <3>2. rs[<<r.node, x>>] = redis[<<r.node, x>>]
      BY <1>5, <2>3, <3>1
    <3>3. a2[u].buffer[r.node] = a[u].buffer[r.node]
      BY <1>1, <1>4, <2>3, <2>6
    <3> QED BY <2>1, <2>2, <3>2, <3>3
  <2> QED BY <2>5, <2>6
<1>7. DOMAIN rs = ListKeys
  BY <1>5 DEF Lists
<1>8. Lists(rs, a2)
  BY <1>6, <1>7 DEF Lists
<1> QED BY <1>8 DEF a2, rs, cmds

\* A receiving thread takes the next packet of its current vertex.
LEMMA RecvStep ==
  ASSUME Ready, NEW rs, NEW a, Lists(rs, a), Threads(a),
         NEW t \in tasks, t.type = "recv", NEW v \in t.list, rs[<<t.node, v>>] # <<>>, NEW th,
         Passed(th, v) = Passed(a[t], v) + 1,
         \A u \in Handled(t) : u # v => Passed(th, u) = Passed(a[t], u)
  PROVE  /\ Head(rs[<<t.node, v>>]) = <<v, Passed(a[t], v)>>
         /\ Lists([rs EXCEPT ![<<t.node, v>>] = Tail(@)], [a EXCEPT ![t] = th])
<1> DEFINE a2 == [a EXCEPT ![t] = th]
           k == <<t.node, v>>
           rs2 == [rs EXCEPT ![k] = Tail(@)]
<1>1. a2[t] = th /\ (\A s \in tasks : s # t => a2[s] = a[s]) /\ Counts(a)
  BY ThreadsCount DEF Threads
<1>2. k \in ListKeys /\ v \in Int
  <2>1. t.list \subseteq Int
    BY TasksAre DEF GoodTask
  <2>2. k \in {<<t.node, x>> : x \in t.list}
    OBVIOUS
  <2> HIDE DEF k
  <2> QED BY <2>1, <2>2 DEF ListKeys
<1>3. DOMAIN rs = ListKeys /\ DOMAIN rs2 = ListKeys /\ rs2[k] = Tail(rs[k])
      /\ \A l \in ListKeys : l # k => rs2[l] = rs[l]
  BY <1>2 DEF Lists
<1> HIDE DEF a2, k, rs2
<1>4. ASSUME NEW s \in tasks, Sends(s, v, t.node)
      PROVE  \E w \in Nat :
               /\ Passed(th, v) <= w /\ w <= Passed(a[s], v)
               /\ Head(rs[k]) = <<v, Passed(a[t], v)>>
               /\ rs2[k] = Packets(v, Passed(th, v), w)
               /\ Holds(a[s].buffer[t.node], v, w, Passed(a[s], v))
  <2> DEFINE low == Passed(a[t], v)
             h == Passed(a[s], v)
  <2>1. PICK w \in Nat : /\ low <= w /\ w <= h
                         /\ rs[k] = Packets(v, low, w)
                         /\ Holds(a[s].buffer[t.node], v, w, h)
    BY <1>4 DEF Lists, k
  <2>2. low \in Nat
    BY <1>1 DEF Counts
  <2>3. Passed(th, v) = low + 1
    OBVIOUS
  <2> HIDE DEF low, h
  <2> DEFINE p == Packets(v, low, w)
  <2>4. rs[k] = p /\ p # <<>>
    BY <2>1 DEF k
  <2>5. /\ p # <<>> <=> low < w
        /\ low < w => Head(p) = <<v, low>> /\ Tail(p) = Packets(v, low + 1, w)
    BY <1>2, <2>1, <2>2, FewerPackets
  <2> HIDE DEF p
  <2>6. low + 1 <= w
    BY <2>2, <2>4, <2>5
  <2> QED BY <1>3, <2>1, <2>3, <2>4, <2>5, <2>6 DEF low, h
<1>5. Head(rs[k]) = <<v, Passed(a[t], v)>>
  <2>1. \E s \in tasks : Sends(s, v, t.node)
    BY SendsAndReceives
  <2> QED BY <1>4, <2>1
<1>6. ASSUME NEW s \in tasks, NEW r \in tasks, r.type = "recv", NEW x \in r.list, Sends(s, x, r.node)
      PROVE  \E w \in Nat :
               /\ Passed(a2[r], x) <= w /\ w <= Passed(a2[s], x)
               /\ rs2[<<r.node, x>>] = Packets(x, Passed(a2[r], x), w)
               /\ Holds(a2[s].buffer[r.node], x, w, Passed(a2[s], x))
  <2>1. PICK w \in Nat :
          /\ Passed(a[r], x) <= w /\ w <= Passed(a[s], x)
          /\ rs[<<r.node, x>>] = Packets(x, Passed(a[r], x), w)
          /\ Holds(a[s].buffer[r.node], x, w, Passed(a[s], x))
    BY <1>6 DEF Lists
  <2>2. s # t /\ a2[s] = a[s] /\ <<r.node, x>> \in ListKeys /\ x \in Handled(r)
    BY <1>1, <1>6, SenderIs
  <2>3. CASE r = t /\ x = v
    BY <1>1, <1>4, <1>6, <2>2, <2>3 DEF k
  <2>4. CASE r = t /\ x # v
    <3>1. Passed(a2[r], x) = Passed(a[r], x) /\ <<r.node, x>> # k
      BY <1>1, <2>2, <2>4 DEF k
    <3> QED BY <1>3, <2>1, <2>2, <3>1
  <2>5. CASE r # t
    <3>1. <<r.node, x>> # k
      <4> SUFFICES ASSUME r.node = t.node, x = v PROVE FALSE
        BY DEF k
      <4> QED BY <1>6, <2>5, OneReceiver
    <3> QED BY <1>1, <1>3, <2>1, <2>2, <2>5, <3>1
  <2> QED BY <2>3, <2>4, <2>5
<1>7. Lists(rs2, a2)
  BY <1>3, <1>6 DEF Lists
<1> QED BY <1>5, <1>7 DEF a2, k, rs2

----------------------------------------------------------------------------
(* The repair files *)

\* The i-th packet of the file of block b.
PacketOf(b, i) == <<b * EcwOf[stripe] + ((i - 1) % EcwOf[stripe]), (i - 1) \div EcwOf[stripe]>>

\* A repair file has what its thread has handled, all its rounds in order.
Files(fs, ths) ==
  /\ DOMAIN fs = {t.blk : t \in {u \in tasks : u.type = "persist"}}
  /\ \A t \in tasks : t.type = "persist" =>
       /\ fs[t.blk] \in Seq(Packet)
       /\ Len(fs[t.blk]) = ths[t].pkt * EcwOf[stripe] + ths[t].pos - 1
       /\ \A i \in 1 .. Len(fs[t.blk]) : fs[t.blk][i] = PacketOf(t.blk, i)

\* A position in the rounds says the round and the position in it.
LEMMA RoundAndPlace ==
  ASSUME NEW w \in Nat, w > 0, NEW x \in Nat, NEW p \in 1 .. w
  PROVE  (x * w + p - 1) % w = p - 1 /\ (x * w + p - 1) \div w = x
<1> DEFINE n == x * w + p - 1
           d == n \div w
           m == n % w
           e == x * w
           f == d * w
<1>1. e \in Nat
  OBVIOUS
<1>2. n = e + p - 1 /\ n \in Nat
  BY <1>1
<1>3. d \in Nat /\ m \in 0 .. w - 1 /\ n = f + m
  <2> HIDE DEF n
  <2> QED BY <1>2
<1> HIDE DEF n, d, m
<1>4. d = x
  <2>1. CASE d < x
    <3>1. (d + 1) * w <= x * w
      BY <1>3, <2>1
    <3>2. (d + 1) * w = f + w
      BY <1>3
    <3> QED BY <1>1, <1>2, <1>3, <3>1, <3>2
  <2>2. CASE d > x
    <3>1. (x + 1) * w <= d * w
      BY <1>3, <2>2
    <3>2. (x + 1) * w = e + w
      OBVIOUS
    <3> QED BY <1>1, <1>2, <1>3, <3>1, <3>2
  <2> QED BY <1>3, <2>1, <2>2
<1>5. m = p - 1
  BY <1>1, <1>2, <1>3, <1>4
<1> QED BY <1>4, <1>5 DEF n, d, m

\* A step of a thread that writes no file.
LEMMA KeepFiles ==
  ASSUME NEW fs, NEW a, Files(fs, a), DOMAIN a = tasks, NEW s \in tasks, NEW th,
         s.type # "persist"
  PROVE  Files(fs, [a EXCEPT ![s] = th])
<1> DEFINE a2 == [a EXCEPT ![s] = th]
<1>1. \A t \in tasks : t.type = "persist" => a2[t] = a[t]
  OBVIOUS
<1> HIDE DEF a2
<1>2. Files(fs, a2)
  BY <1>1 DEF Files
<1> QED BY <1>2 DEF a2

\* A thread writes the next packet of its block.
LEMMA WriteStep ==
  ASSUME Ready, NEW fs, NEW a, Files(fs, a), Threads(a),
         NEW t \in tasks, t.type = "persist", NEW th,
         th.pkt = (IF a[t].pos = Len(a[t].round) THEN a[t].pkt + 1 ELSE a[t].pkt),
         th.pos = (IF a[t].pos = Len(a[t].round) THEN 1 ELSE a[t].pos + 1),
         NEW p, p = <<a[t].round[a[t].pos], a[t].pkt>>
  PROVE  Files([fs EXCEPT ![t.blk] = Append(@, p)], [a EXCEPT ![t] = th])
<1> DEFINE a2 == [a EXCEPT ![t] = th]
           b == t.blk
           f == fs[b]
           fs2 == [fs EXCEPT ![b] = Append(@, p)]
           w == EcwOf[stripe]
           pkt == a[t].pkt
           pos == a[t].pos
<1>1. /\ b \in Nat /\ w \in Nat /\ w > 0
      /\ Len(RoundOf(t)) = w
      /\ \A i \in 1 .. w : RoundOf(t)[i] = b * w + i - 1
      /\ \A u \in tasks : u.type = "persist" /\ u.blk = b => u = t
  BY PersistIs
<1>2. a[t].round = RoundOf(t) /\ InRound(a[t]) /\ DOMAIN a = tasks
  BY DEF Threads, ThreadInv
<1>3. pkt \in Nat /\ pos \in 1 .. w
  BY <1>1, <1>2, PktNumAssumption DEF InRound
<1>4. /\ f \in Seq(Packet) /\ Len(f) = pkt * w + pos - 1
      /\ \A i \in 1 .. Len(f) : f[i] = PacketOf(b, i)
      /\ b \in DOMAIN fs
  BY DEF Files
<1>5. p = <<b * w + pos - 1, pkt>>
  BY <1>1, <1>2, <1>3
<1>6. b * w \in Nat /\ pkt * w \in Nat
  BY <1>1, <1>3, SMTT(30)
<1>7. p \in Packet
  <2>1. b * w + pos - 1 \in Int
    BY <1>3, <1>6
  <2> QED BY <1>3, <1>5, <2>1 DEF Packet
<1>8. PacketOf(b, pkt * w + pos) = p
  <2>2. b * w + (pos - 1) = b * w + pos - 1
    BY <1>3, <1>6
  <2> DEFINE n == pkt * w + pos
  <2>3. PacketOf(b, n) = <<b * w + ((n - 1) % w), (n - 1) \div w>>
    BY DEF PacketOf
  <2>4. (n - 1) % w = pos - 1 /\ (n - 1) \div w = pkt
    <3> DEFINE m == pkt * w + pos - 1
    <3>1. m % w = pos - 1 /\ m \div w = pkt
      BY <1>1, <1>3, RoundAndPlace
    <3>2. n - 1 = m
      BY <1>3, <1>6
    <3> HIDE DEF m, n
    <3> QED BY <3>1, <3>2
  <2> HIDE DEF n
  <2>5. PacketOf(b, n) = <<b * w + (pos - 1), pkt>>
    BY <2>3, <2>4
  <2>6. PacketOf(b, n) = p
    BY <1>5, <2>2, <2>5
  <2> QED BY <2>6 DEF n
<1>9. a2[t] = th /\ \A u \in tasks : u # t => a2[u] = a[u]
  BY <1>2
<1>10. fs2[b] = Append(f, p) /\ DOMAIN fs2 = DOMAIN fs /\ \A c \in DOMAIN fs : c # b => fs2[c] = fs[c]
  BY <1>4
<1>11. /\ Append(f, p) \in Seq(Packet) /\ Len(Append(f, p)) = Len(f) + 1
       /\ \A i \in 1 .. Len(f) : Append(f, p)[i] = f[i]
       /\ Append(f, p)[Len(f) + 1] = p
  BY <1>4, <1>7, AppendProperties
<1>12. Len(f) + 1 = th.pkt * w + th.pos - 1
  <2> DEFINE m == pkt * w
  <2>1. m \in Nat /\ Len(f) = m + pos - 1 /\ pos \in 1 .. w
    BY <1>3, <1>4, <1>6
  <2>2. CASE pos = w
    <3>1. th.pkt = pkt + 1 /\ th.pos = 1
      BY <1>1, <1>2, <2>2
    <3>2. (pkt + 1) * w = m + w
      BY <1>1, <1>3
    <3> HIDE DEF m
    <3> QED BY <1>1, <2>1, <2>2, <3>1, <3>2, SMTT(30)
  <2>3. CASE pos # w
    <3>1. th.pkt = pkt /\ th.pos = pos + 1
      BY <1>1, <1>2, <2>3
    <3> QED BY <2>1, <3>1
  <2> QED BY <2>2, <2>3
<1>13. \A i \in 1 .. Len(f) + 1 : Append(f, p)[i] = PacketOf(b, i)
  <2> SUFFICES ASSUME NEW i \in 1 .. Len(f) + 1 PROVE Append(f, p)[i] = PacketOf(b, i)
    OBVIOUS
  <2>1. Len(f) \in Nat /\ Len(f) + 1 = pkt * w + pos
    BY <1>3, <1>4, <1>6, SMTT(30)
  <2>2. CASE i = Len(f) + 1
    BY <1>8, <1>11, <2>1, <2>2
  <2>3. CASE i # Len(f) + 1
    <3>1. i \in 1 .. Len(f)
      BY <2>1, <2>3
    <3> QED BY <1>4, <1>11, <3>1
  <2> QED BY <2>2, <2>3
<1> HIDE DEF a2, fs2, f, b, w
<1>14. ASSUME NEW u \in tasks, u.type = "persist"
       PROVE  /\ fs2[u.blk] \in Seq(Packet)
              /\ Len(fs2[u.blk]) = a2[u].pkt * w + a2[u].pos - 1
              /\ \A i \in 1 .. Len(fs2[u.blk]) : fs2[u.blk][i] = PacketOf(u.blk, i)
  <2>1. CASE u = t
    <3>1. u.blk = b /\ a2[u] = th
      BY <1>9, <2>1 DEF b
    <3> QED BY <1>10, <1>11, <1>12, <1>13, <3>1
  <2>2. CASE u # t
    <3>1. u.blk # b /\ u.blk \in DOMAIN fs
      BY <1>1, <1>14, <2>2 DEF Files
    <3>2. fs2[u.blk] = fs[u.blk] /\ a2[u] = a[u]
      BY <1>9, <1>10, <2>2, <3>1
    <3> QED BY <1>14, <3>2 DEF Files, w
  <2> QED BY <2>1, <2>2
<1>15. Files(fs2, a2)
  BY <1>10, <1>14 DEF Files, w
<1> QED BY <1>15 DEF a2, fs2, b

----------------------------------------------------------------------------
(* Steps of a thread *)

\* A step of one thread leaves the others as they are.
LEMMA KeepThreads ==
  ASSUME NEW a, Threads(a), NEW t \in tasks, NEW th, ThreadInv(t, th)
  PROVE  Threads([a EXCEPT ![t] = th])
<1> DEFINE a2 == [a EXCEPT ![t] = th]
<1>1. DOMAIN a2 = tasks /\ a2[t] = th /\ \A u \in tasks : u # t => a2[u] = a[u]
  BY DEF Threads
<1> HIDE DEF a2
<1>2. Threads(a2)
  BY <1>1 DEF Threads
<1> QED BY <1>2 DEF a2

\* A thread that has handled its current vertex.
LEMMA StepIs ==
  ASSUME Ready, Threads(thread), NEW t \in tasks, HasRounds(t)
  PROVE  /\ IsThread(Advanced(t)) /\ InRound(Advanced(t)) /\ Advanced(t).round = RoundOf(t)
         /\ Advanced(t).got = thread[t].got /\ Advanced(t).buffer = thread[t].buffer
         /\ Advanced(t).replylist = thread[t].replylist
         /\ Advanced(t).count = thread[t].count
         /\ Advanced(t).pkt = (IF IsLast(t) THEN thread[t].pkt + 1 ELSE thread[t].pkt)
         /\ Advanced(t).pos = (IF IsLast(t) THEN 1 ELSE thread[t].pos + 1)
         /\ thread[t].round = RoundOf(t) /\ thread[t].pkt \in 0 .. PktNum - 1
         /\ thread[t].pos \in 1 .. Len(RoundOf(t))
         /\ Current(t) \in Handled(t) /\ Current(t) \in Int
         /\ Passed(thread[t], Current(t)) = thread[t].pkt
<1>1. IsThread(thread[t]) /\ InRound(thread[t]) /\ thread[t].round = RoundOf(t)
  BY DEF Threads, ThreadInv
<1>2. IsRound(RoundOf(t)) /\ ToSet(RoundOf(t)) = Handled(t) /\ Handled(t) \in SUBSET Int
  BY RoundIs, HandledIs
<1>3. /\ IsThread(Advanced(t)) /\ InRound(Advanced(t))
      /\ Advanced(t).round = thread[t].round /\ Advanced(t).got = thread[t].got
      /\ Advanced(t).buffer = thread[t].buffer /\ Advanced(t).replylist = thread[t].replylist
      /\ Advanced(t).count = thread[t].count
      /\ Advanced(t).pkt = (IF IsLast(t) THEN thread[t].pkt + 1 ELSE thread[t].pkt)
      /\ Advanced(t).pos = (IF IsLast(t) THEN 1 ELSE thread[t].pos + 1)
  BY <1>1, <1>2, AdvancedIs
<1>4. /\ Current(t) \in ToSet(thread[t].round)
      /\ Passed(thread[t], Current(t)) = thread[t].pkt
      /\ Passed(Advanced(t), Current(t)) = thread[t].pkt + 1
  <2> DEFINE th == Advanced(t)
  <2>1. th.round = thread[t].round /\ th.pkt = Advanced(t).pkt /\ th.pos = Advanced(t).pos
    BY <1>3
  <2> HIDE DEF th
  <2>2. /\ Current(t) \in ToSet(thread[t].round)
        /\ Passed(thread[t], Current(t)) = thread[t].pkt
        /\ Passed(th, Current(t)) = thread[t].pkt + 1
    BY <1>1, <1>2, <2>1, PassedIs
  <2> QED BY <2>2 DEF th
<1>5. thread[t].pkt \in 0 .. PktNum - 1 /\ thread[t].pos \in 1 .. Len(RoundOf(t))
  BY <1>1, PktNumAssumption DEF InRound, HasRounds
<1> QED BY <1>1, <1>2, <1>3, <1>4, <1>5

\* It has passed this vertex once more, and no other.
LEMMA StepPasses ==
  ASSUME Ready, Threads(thread), NEW t \in tasks, HasRounds(t),
         NEW th, th.round = RoundOf(t), th.pkt = Advanced(t).pkt, th.pos = Advanced(t).pos
  PROVE  /\ Passed(th, Current(t)) = thread[t].pkt + 1
         /\ \A v \in Handled(t) : v # Current(t) => Passed(th, v) = Passed(thread[t], v)
<1>1. IsThread(thread[t]) /\ InRound(thread[t]) /\ thread[t].round = RoundOf(t)
  BY DEF Threads, ThreadInv
<1>2. IsRound(RoundOf(t)) /\ ToSet(RoundOf(t)) = Handled(t)
  BY RoundIs
<1> QED BY <1>1, <1>2, PassedIs

----------------------------------------------------------------------------
(* The steps of the threads keep the invariant *)

\* What the state of the threads is.
Running(ths, qs, rs, fs) ==
  Threads(ths) /\ Queues(qs, ths, ths) /\ Lists(rs, ths) /\ Files(fs, ths)
RunningNext == Running(thread', queue', redis', file')

\* readRealBlock and readVirtBlock.
LEMMA ReadKeeps ==
  ASSUME Ready, Running(thread, queue, redis, file), NEW t \in tasks, Read(t)
  PROVE  RunningNext
<1> DEFINE th == Advanced(t)
           cur == Current(t)
           packets == [v \in {cur} |-> <<v, thread[t].pkt>>]
           ths == [thread EXCEPT ![t] = th]
<1>1. /\ t.type = "read" /\ HasRounds(t)
      /\ queue' = Pushed(t, queue, packets) /\ thread' = ths
      /\ redis' = redis /\ file' = file
  BY DEF Read
<1>2. /\ Threads(thread) /\ Queues(queue, thread, thread) /\ Lists(redis, thread)
      /\ Files(file, thread) /\ DOMAIN thread = tasks /\ Counts(thread)
  BY ThreadsCount DEF Running, Threads
<1>3. /\ IsThread(th) /\ InRound(th) /\ th.round = RoundOf(t)
      /\ Passed(thread[t], cur) = thread[t].pkt
  BY <1>1, <1>2, StepIs
<1>4. /\ Passed(th, cur) = thread[t].pkt + 1
      /\ \A v \in Handled(t) : v # cur => Passed(th, v) = Passed(thread[t], v)
  BY <1>1, <1>2, <1>3, StepPasses
<1>5. cur \in DOMAIN packets /\ packets[cur] = <<cur, thread[t].pkt>>
      /\ \A v : v \in DOMAIN packets <=> v = cur
  OBVIOUS
<1> HIDE DEF th, packets, cur
<1>6. Threads(ths)
  <2>1. ThreadInv(t, th)
    BY <1>1, <1>3 DEF ThreadInv
  <2> QED BY <1>2, <2>1, KeepThreads
<1>7. Counts(ths)
  BY <1>6, ThreadsCount
<1>8. Queues(queue, ths, thread)
  <2>1. Pops(t) = {}
    BY <1>1, PopsOf
  <2> QED BY <1>2, <2>1, NoPop
<1>9. Queues(Pushed(t, queue, packets), ths, ths)
  <2>1. ASSUME NEW q \in Pushes(t)
        PROVE  IF q[2] \in DOMAIN packets
               THEN /\ packets[q[2]] = <<q[2], Given(t, thread[t], q[2])>>
                    /\ Given(t, th, q[2]) = Given(t, thread[t], q[2]) + 1
               ELSE Given(t, th, q[2]) = Given(t, thread[t], q[2])
    <3>1. q[2] \in Handled(t)
      BY <1>1, PushesOf DEF Handled
    <3>2. /\ Given(t, th, q[2]) = Passed(th, q[2])
          /\ Given(t, thread[t], q[2]) = Passed(thread[t], q[2])
      BY <1>1 DEF Given
    <3> QED BY <1>3, <1>4, <1>5, <3>1, <3>2
  <2> HIDE DEF ths
  <2>2. Queues(Pushed(t, queue, packets), ths, [thread EXCEPT ![t] = th])
    BY <1>2, <1>7, <1>8, <2>1, PushStep
  <2> QED BY <2>2 DEF ths
<1>10. Lists(redis, ths) /\ Files(file, ths)
  BY <1>1, <1>2, KeepLists, KeepFiles
<1> HIDE DEF ths
<1> QED BY <1>1, <1>6, <1>9, <1>10 DEF RunningNext, Running

\* recvList.
LEMMA RecvKeeps ==
  ASSUME Ready, Running(thread, queue, redis, file), NEW t \in tasks, Recv(t)
  PROVE  RunningNext
<1> DEFINE th == Advanced(t)
           cur == Current(t)
           k == <<t.node, cur>>
           packets == [v \in {cur} |-> Head(redis[k])]
           ths == [thread EXCEPT ![t] = th]
           rs == [redis EXCEPT ![k] = Tail(@)]
<1>1. /\ t.type = "recv" /\ HasRounds(t) /\ redis[k] # <<>>
      /\ queue' = Pushed(t, queue, packets) /\ thread' = ths
      /\ redis' = rs /\ file' = file
  BY DEF Recv
<1>2. /\ Threads(thread) /\ Queues(queue, thread, thread) /\ Lists(redis, thread)
      /\ Files(file, thread) /\ DOMAIN thread = tasks /\ Counts(thread)
  BY ThreadsCount DEF Running, Threads
<1>3. /\ IsThread(th) /\ InRound(th) /\ th.round = RoundOf(t)
      /\ cur \in Handled(t) /\ Passed(thread[t], cur) = thread[t].pkt
  BY <1>1, <1>2, StepIs
<1>4. /\ Passed(th, cur) = thread[t].pkt + 1
      /\ \A v \in Handled(t) : v # cur => Passed(th, v) = Passed(thread[t], v)
  BY <1>1, <1>2, <1>3, StepPasses
<1>5. cur \in DOMAIN packets /\ packets[cur] = Head(redis[k])
      /\ \A v : v \in DOMAIN packets <=> v = cur
  OBVIOUS
<1> HIDE DEF th, packets, cur
<1>6. cur \in t.list
  BY <1>1, <1>3 DEF Handled
<1>7. Head(redis[k]) = <<cur, Passed(thread[t], cur)>> /\ Lists(rs, ths)
  BY <1>1, <1>2, <1>3, <1>4, <1>6, RecvStep
<1>8. Threads(ths)
  <2>1. ThreadInv(t, th)
    BY <1>1, <1>3 DEF ThreadInv
  <2> QED BY <1>2, <2>1, KeepThreads
<1>9. Counts(ths)
  BY <1>8, ThreadsCount
<1>10. Queues(queue, ths, thread)
  <2>1. Pops(t) = {}
    BY <1>1, PopsOf
  <2> QED BY <1>2, <2>1, NoPop
<1>11. Queues(Pushed(t, queue, packets), ths, ths)
  <2>1. ASSUME NEW q \in Pushes(t)
        PROVE  IF q[2] \in DOMAIN packets
               THEN /\ packets[q[2]] = <<q[2], Given(t, thread[t], q[2])>>
                    /\ Given(t, th, q[2]) = Given(t, thread[t], q[2]) + 1
               ELSE Given(t, th, q[2]) = Given(t, thread[t], q[2])
    <3>1. q[2] \in Handled(t)
      BY <1>1, PushesOf DEF Handled
    <3>2. /\ Given(t, th, q[2]) = Passed(th, q[2])
          /\ Given(t, thread[t], q[2]) = Passed(thread[t], q[2])
      BY <1>1 DEF Given
    <3> QED BY <1>3, <1>4, <1>5, <1>7, <3>1, <3>2
  <2> HIDE DEF ths
  <2>2. Queues(Pushed(t, queue, packets), ths, [thread EXCEPT ![t] = th])
    BY <1>2, <1>9, <1>10, <2>1, PushStep
  <2> QED BY <2>2 DEF ths
<1>12. Files(file, ths)
  BY <1>1, <1>2, KeepFiles
<1> HIDE DEF ths, rs
<1> QED BY <1>1, <1>7, <1>8, <1>11, <1>12 DEF RunningNext, Running

\* persist.
LEMMA PersistKeeps ==
  ASSUME Ready, Running(thread, queue, redis, file), NEW t \in tasks, Persist(t)
  PROVE  RunningNext
<1> DEFINE th == Advanced(t)
           cur == Current(t)
           q == <<"local", cur>>
           k == <<t.node, "local", cur>>
           p == Head(queue[k])
           ths == [thread EXCEPT ![t] = th]
           qs == [queue EXCEPT ![k] = Tail(@)]
           fs == [file EXCEPT ![t.blk] = Append(@, p)]
<1>1. /\ t.type = "persist" /\ HasRounds(t) /\ queue[k] # <<>>
      /\ queue' = qs /\ thread' = ths
      /\ redis' = redis /\ file' = fs
  BY DEF Persist
<1>2. /\ Threads(thread) /\ Queues(queue, thread, thread) /\ Lists(redis, thread)
      /\ Files(file, thread) /\ DOMAIN thread = tasks /\ Counts(thread)
  BY ThreadsCount DEF Running, Threads
<1>3. /\ IsThread(th) /\ InRound(th) /\ th.round = RoundOf(t)
      /\ cur \in Handled(t) /\ Passed(thread[t], cur) = thread[t].pkt
      /\ th.pkt = (IF IsLast(t) THEN thread[t].pkt + 1 ELSE thread[t].pkt)
      /\ th.pos = (IF IsLast(t) THEN 1 ELSE thread[t].pos + 1)
  BY <1>1, <1>2, StepIs
<1>4. /\ Passed(th, cur) = thread[t].pkt + 1
      /\ \A v \in Handled(t) : v # cur => Passed(th, v) = Passed(thread[t], v)
  BY <1>1, <1>2, <1>3, StepPasses
<1>5. q \in Pops(t) /\ Key(t, q) = k /\ q[2] = cur
  <2>1. Pops(t) = {<<"local", v>> : v \in Handled(t)}
    BY <1>1, PopsOf
  <2> QED BY <1>3, <2>1 DEF Key
<1>6. cur = thread[t].round[thread[t].pos] /\ (IsLast(t) <=> thread[t].pos = Len(thread[t].round))
  BY DEF Current, IsLast
<1> HIDE DEF th, cur, q, k
<1>7. Head(queue[k]) = <<cur, thread[t].pkt>> /\ Queues(qs, ths, thread)
  <2>1. queue[Key(t, q)] # <<>> /\ Passed(th, q[2]) = Passed(thread[t], q[2]) + 1
    BY <1>1, <1>3, <1>4, <1>5
  <2>2. \A v \in Handled(t) : v # q[2] => Passed(th, v) = Passed(thread[t], v)
    BY <1>4, <1>5
  <2>3. /\ Head(queue[Key(t, q)]) = <<q[2], Passed(thread[t], q[2])>>
        /\ Queues([queue EXCEPT ![Key(t, q)] = Tail(@)], [thread EXCEPT ![t] = th], thread)
    BY <1>2, <1>5, <2>1, <2>2, PopStep
  <2> QED BY <1>3, <1>5, <2>3
<1> HIDE DEF qs
<1>8. Queues(qs, ths, ths)
  <2>1. Pushes(t) = {}
    BY <1>1, PushesOf
  <2> HIDE DEF ths
  <2>2. Queues(qs, ths, [thread EXCEPT ![t] = th])
    BY <1>2, <1>7, <2>1, NoPush
  <2> QED BY <2>2 DEF ths
<1>9. Threads(ths)
  <2>1. ThreadInv(t, th)
    BY <1>1, <1>3 DEF ThreadInv
  <2> QED BY <1>2, <2>1, KeepThreads
<1>10. Lists(redis, ths)
  BY <1>1, <1>2, KeepLists
<1>11. Files(fs, ths)
  <2> HIDE DEF p, ths
  <2>1. p = <<thread[t].round[thread[t].pos], thread[t].pkt>>
    BY <1>6, <1>7 DEF p
  <2>2. /\ th.pkt = (IF thread[t].pos = Len(thread[t].round) THEN thread[t].pkt + 1 ELSE thread[t].pkt)
        /\ th.pos = (IF thread[t].pos = Len(thread[t].round) THEN 1 ELSE thread[t].pos + 1)
    BY <1>3, <1>6
  <2>3. Files([file EXCEPT ![t.blk] = Append(@, p)], [thread EXCEPT ![t] = th])
    BY <1>1, <1>2, <2>1, <2>2, WriteStep
  <2> QED BY <2>3 DEF ths
<1> HIDE DEF ths, fs
<1> QED BY <1>1, <1>8, <1>9, <1>10, <1>11 DEF RunningNext, Running

----------------------------------------------------------------------------
(* computeOneByOne *)

\* The inputs of a compute round that come first.
Inputs(s, n, x) == [j \in 1 .. n |-> <<s[j], x>>]

\* The inputs are a sequence of packets.
LEMMA InputsAre ==
  ASSUME NEW s \in Seq(Int), NEW n \in 0 .. Len(s), NEW x \in Nat
  PROVE  /\ Inputs(s, n, x) \in Seq(Packet) /\ Len(Inputs(s, n, x)) = n
         /\ \A j \in 1 .. n : Inputs(s, n, x)[j] = <<s[j], x>>
<1>1. n \in Nat /\ \A j \in 1 .. n : s[j] \in Int
  OBVIOUS
<1> DEFINE f == [j \in 1 .. n |-> <<s[j], x>>]
<1>2. f \in [1 .. n -> Packet]
  BY <1>1 DEF Packet
<1> HIDE DEF f
<1>3. f \in UNION {[1 .. m -> Packet] : m \in Nat}
  BY <1>1, <1>2
<1>4. f \in Seq(Packet)
  BY <1>3, SeqDef
<1>5. Len(f) = n
  BY <1>1, <1>2, <1>4, LenProperties
<1> QED BY <1>4, <1>5 DEF Inputs, f

\* One more input.
LEMMA MoreInputs ==
  ASSUME NEW s \in Seq(Int), NEW p \in 1 .. Len(s), NEW x \in Nat
  PROVE  Append(Inputs(s, p - 1, x), <<s[p], x>>) = Inputs(s, p, x)
<1> DEFINE a == Inputs(s, p - 1, x)
           b == Inputs(s, p, x)
           c == <<s[p], x>>
           more == Append(a, c)
<1>1. p - 1 \in 0 .. Len(s) /\ p \in 0 .. Len(s) /\ Len(s) \in Nat /\ s[p] \in Int
  OBVIOUS
<1>2. a \in Seq(Packet) /\ Len(a) = p - 1 /\ \A j \in 1 .. p - 1 : a[j] = <<s[j], x>>
  BY <1>1, InputsAre
<1>3. b \in Seq(Packet) /\ Len(b) = p /\ \A j \in 1 .. p : b[j] = <<s[j], x>>
  BY <1>1, InputsAre
<1>4. c \in Packet
  BY <1>1 DEF Packet
<1> HIDE DEF a, b, c, Packet
<1>5. /\ more \in Seq(Packet) /\ Len(more) = Len(a) + 1
      /\ \A i \in 1 .. Len(a) : more[i] = a[i]
      /\ more[Len(a) + 1] = c
  BY <1>2, <1>4, AppendProperties
<1> HIDE DEF more
<1>6. Len(more) = p /\ Len(a) + 1 = p
  BY <1>1, <1>2, <1>5
<1>7. ASSUME NEW i \in 1 .. Len(more) PROVE more[i] = b[i]
  <2>1. CASE i = p
    BY <1>1, <1>3, <1>5, <1>6, <2>1 DEF c
  <2>2. CASE i # p
    <3>1. i \in 1 .. p - 1 /\ i \in 1 .. Len(a) /\ i \in 1 .. p
      BY <1>1, <1>2, <1>6, <2>2
    <3> QED BY <1>2, <1>3, <1>5, <3>1
  <2> QED BY <2>1, <2>2
<1>8. more = b
  BY <1>3, <1>5, <1>6, <1>7, SeqEqual
<1> QED BY <1>8 DEF more, a, b, c

\* From the right packets of all its children a vertex gets the right packet.
LEMMA ResultIs ==
  ASSUME Ready, Threads(thread), NEW t \in tasks, t.type = "compute", HasRounds(t), NEW v \in t.list,
         NEW got, got = Inputs(RoundOf(t), Len(RoundOf(t)), thread[t].pkt)
  PROVE  Result(t, v, got) = <<v, thread[t].pkt>>
<1> DEFINE s == RoundOf(t)
           x == thread[t].pkt
           right(i) == \A j \in DOMAIN got :
                         thread[t].round[j] \in ChildsOf(Dag, v) => got[j] = <<thread[t].round[j], i>>
<1>1. thread[t].round = s /\ x \in 0 .. PktNum - 1 /\ x \in Nat
  BY StepIs, PktNumAssumption
<1>2. s \in Seq(Int) /\ ToSet(s) = Handled(t)
  BY RoundIs DEF IsRound
<1>3. Len(s) \in Nat /\ Len(s) \in 0 .. Len(s) /\ DOMAIN s = 1 .. Len(s)
  BY <1>2, LenProperties
<1>4. got \in Seq(Packet) /\ Len(got) = Len(s) /\ \A j \in 1 .. Len(s) : got[j] = <<s[j], x>>
  <2> HIDE DEF s, x
  <2> QED BY <1>1, <1>2, <1>3, InputsAre DEF s, x
<1>5. DOMAIN got = 1 .. Len(s)
  BY <1>4, LenProperties
<1>6. PICK c : c \in ChildsOf(Dag, v) /\ c \in Handled(t)
  BY HandledIs
<1>7. PICK n \in 1 .. Len(s) : s[n] = c
  BY <1>2, <1>3, <1>6 DEF ToSet
<1> HIDE DEF s
<1>8. \A i : right(i) <=> i = x
  <2>1. right(x)
    BY <1>1, <1>4, <1>5
  <2>2. \A i : right(i) => i = x
    <3> SUFFICES ASSUME NEW i, right(i) PROVE i = x
      OBVIOUS
    <3>1. got[n] = <<s[n], i>> /\ got[n] = <<s[n], x>>
      BY <1>1, <1>4, <1>5, <1>6, <1>7
    <3> QED BY <3>1
  <2> QED BY <2>1, <2>2
<1>9. Result(t, v, got) = IF \E i \in 0 .. PktNum - 1 : right(i)
                          THEN <<v, CHOOSE i \in 0 .. PktNum - 1 : right(i)>> ELSE Bad
  BY DEF Result
<1> HIDE DEF right, x
<1>10. (CHOOSE i \in 0 .. PktNum - 1 : right(i)) = x
  BY <1>1, <1>8
<1>11. \E i \in 0 .. PktNum - 1 : right(i)
  BY <1>1, <1>8
<1> QED BY <1>9, <1>10, <1>11 DEF x

\* The inputs that a thread has are a field of its own.
LEMMA GotIs ==
  ASSUME NEW th, IsThread(th), NEW got
  PROVE  /\ IsThread([th EXCEPT !.got = got]) /\ [th EXCEPT !.got = got].got = got
         /\ [th EXCEPT !.got = got].round = th.round /\ [th EXCEPT !.got = got].pkt = th.pkt
         /\ [th EXCEPT !.got = got].pos = th.pos /\ [th EXCEPT !.got = got].count = th.count
<1> DEFINE round == th.round
           pkt == th.pkt
           pos == th.pos
           old == th.got
           buffer == th.buffer
           replylist == th.replylist
           count == th.count
<1>1. th = [round |-> round, pkt |-> pkt, pos |-> pos, got |-> old,
            buffer |-> buffer, replylist |-> replylist, count |-> count]
  BY DEF IsThread
<1> HIDE DEF round, pkt, pos, old, buffer, replylist, count
<1> DEFINE x == [th EXCEPT !.got = got]
<1>2. x = [round |-> round, pkt |-> pkt, pos |-> pos, got |-> got,
           buffer |-> buffer, replylist |-> replylist, count |-> count]
  BY <1>1
<1> HIDE DEF x
<1>3. /\ x.got = got /\ x.round = round /\ x.pkt = pkt /\ x.pos = pos
      /\ x.buffer = buffer /\ x.replylist = replylist /\ x.count = count
  BY <1>2
<1>4. IsThread(x)
  BY <1>2, <1>3 DEF IsThread
<1> QED BY <1>3, <1>4 DEF x, round, pkt, pos, count

\* computeOneByOne pops an input, and with the last one pushes all its vertices.
LEMMA ComputeKeeps ==
  ASSUME Ready, Running(thread, queue, redis, file), NEW t \in tasks, Compute(t)
  PROVE  RunningNext
<1> DEFINE cur == Current(t)
           q == <<"local", cur>>
           k == <<t.node, "local", cur>>
           got == Append(thread[t].got, Head(queue[k]))
           th == [Advanced(t) EXCEPT !.got = IF IsLast(t) THEN <<>> ELSE got]
           ths == [thread EXCEPT ![t] = th]
           qs == [queue EXCEPT ![k] = Tail(@)]
           packets == [v \in t.list |-> Result(t, v, got)]
           s == RoundOf(t)
           pkt == thread[t].pkt
           pos == thread[t].pos
<1>1. /\ t.type = "compute" /\ HasRounds(t) /\ queue[k] # <<>>
      /\ queue' = (IF IsLast(t) THEN Pushed(t, qs, packets) ELSE qs)
      /\ thread' = ths
      /\ redis' = redis /\ file' = file
  BY DEF Compute
<1>2. /\ Threads(thread) /\ Queues(queue, thread, thread) /\ Lists(redis, thread)
      /\ Files(file, thread) /\ DOMAIN thread = tasks /\ Counts(thread)
  BY ThreadsCount DEF Running, Threads
<1>3. /\ IsThread(Advanced(t)) /\ InRound(Advanced(t)) /\ Advanced(t).round = s
      /\ cur \in Handled(t) /\ Passed(thread[t], cur) = pkt
      /\ Advanced(t).pkt = (IF IsLast(t) THEN pkt + 1 ELSE pkt)
      /\ Advanced(t).pos = (IF IsLast(t) THEN 1 ELSE pos + 1)
      /\ thread[t].round = s /\ pkt \in 0 .. PktNum - 1 /\ pos \in 1 .. Len(s)
  BY <1>1, <1>2, StepIs
<1>4. s \in Seq(Int) /\ pkt \in Nat
  BY <1>3, RoundIs, PktNumAssumption DEF IsRound
<1>5. cur = s[pos] /\ (IsLast(t) <=> pos = Len(s))
  BY <1>3 DEF Current, IsLast
<1>6. thread[t].got = Inputs(s, pos - 1, pkt)
  BY <1>1, <1>2, <1>3 DEF Threads, ThreadInv, Inputs
<1>7. q \in Pops(t) /\ Key(t, q) = k /\ q[2] = cur
  <2>1. Pops(t) = {<<"local", v>> : v \in Handled(t)}
    BY <1>1, PopsOf
  <2> QED BY <1>3, <2>1 DEF Key
<1>8. /\ IsThread(th) /\ th.round = s
      /\ th.got = (IF IsLast(t) THEN <<>> ELSE got)
      /\ th.pkt = Advanced(t).pkt /\ th.pos = Advanced(t).pos
  <2> DEFINE adv == Advanced(t)
             g == IF IsLast(t) THEN <<>> ELSE got
  <2>1. IsThread(adv) /\ adv.round = s /\ th = [adv EXCEPT !.got = g]
    BY <1>3
  <2> HIDE DEF adv, g, th
  <2>2. IsThread(th) /\ th.got = g /\ th.round = adv.round /\ th.pkt = adv.pkt /\ th.pos = adv.pos
    BY <2>1, GotIs, SMTT(30)
  <2> QED BY <2>1, <2>2 DEF adv, g
<1>9. \A v : v \in DOMAIN packets <=> v \in t.list
  OBVIOUS
<1>10. \A v \in t.list : packets[v] = Result(t, v, got)
  OBVIOUS
<1> HIDE DEF th, cur, q, k, packets
<1>11. /\ Passed(th, cur) = pkt + 1
       /\ \A v \in Handled(t) : v # cur => Passed(th, v) = Passed(thread[t], v)
  BY <1>1, <1>2, <1>8, StepPasses DEF cur
<1>12. Head(queue[k]) = <<cur, pkt>> /\ Queues(qs, ths, thread)
  <2>1. queue[Key(t, q)] # <<>> /\ Passed(th, q[2]) = Passed(thread[t], q[2]) + 1
    BY <1>1, <1>3, <1>7, <1>11
  <2>2. \A v \in Handled(t) : v # q[2] => Passed(th, v) = Passed(thread[t], v)
    BY <1>7, <1>11
  <2>3. /\ Head(queue[Key(t, q)]) = <<q[2], Passed(thread[t], q[2])>>
        /\ Queues([queue EXCEPT ![Key(t, q)] = Tail(@)], [thread EXCEPT ![t] = th], thread)
    BY <1>2, <1>7, <2>1, <2>2, PopStep
  <2> QED BY <1>3, <1>7, <2>3
<1>13. got = Inputs(s, pos, pkt)
  <2> HIDE DEF s, pkt, pos
  <2>1. got = Append(Inputs(s, pos - 1, pkt), <<s[pos], pkt>>)
    BY <1>5, <1>6, <1>12
  <2> HIDE DEF got
  <2> QED BY <1>3, <1>4, <2>1, MoreInputs
<1> HIDE DEF qs, got
<1>14. InRound(th)
  BY <1>3, <1>8 DEF InRound
<1>15. Threads(ths)
  <2>1. th.got = Inputs(th.round, th.pos - 1, th.pkt)
    <3>1. CASE IsLast(t)
      BY <1>3, <1>8, <3>1 DEF Inputs
    <3>2. CASE ~ IsLast(t)
      <4>1. th.got = got /\ th.pos = pos + 1 /\ th.pkt = pkt /\ th.round = s
        BY <1>3, <1>8, <3>2
      <4>2. th.pos - 1 = pos
        BY <1>3, <4>1
      <4> QED BY <1>13, <4>1, <4>2
    <3> QED BY <3>1, <3>2
  <2>2. ThreadInv(t, th)
    BY <1>1, <1>8, <1>14, <2>1 DEF ThreadInv, Inputs
  <2> QED BY <1>2, <2>2, KeepThreads
<1>16. Counts(ths)
  BY <1>15, ThreadsCount
<1>17. \A v : Given(t, th, v) = th.pkt /\ Given(t, thread[t], v) = pkt
  BY <1>1 DEF Given
<1>18. Queues(queue', ths, ths)
  <2>1. CASE IsLast(t)
    <3>1. th.pkt = pkt + 1
      BY <1>3, <1>8, <2>1
    <3>2. \A v \in t.list : packets[v] = <<v, pkt>>
      <4>1. got = Inputs(RoundOf(t), Len(RoundOf(t)), thread[t].pkt)
        BY <1>5, <1>13, <2>1
      <4> QED BY <1>1, <1>2, <1>10, <4>1, ResultIs
    <3>3. ASSUME NEW r \in Pushes(t)
          PROVE  IF r[2] \in DOMAIN packets
                 THEN /\ packets[r[2]] = <<r[2], Given(t, thread[t], r[2])>>
                      /\ Given(t, th, r[2]) = Given(t, thread[t], r[2]) + 1
                 ELSE Given(t, th, r[2]) = Given(t, thread[t], r[2])
      <4>1. r[2] \in t.list
        BY PushesOf
      <4> QED BY <1>9, <1>17, <3>1, <3>2, <4>1
    <3> HIDE DEF ths
    <3>4. Queues(Pushed(t, qs, packets), ths, [thread EXCEPT ![t] = th])
      BY <1>2, <1>12, <1>16, <3>3, PushStep
    <3> QED BY <1>1, <2>1, <3>4 DEF ths
  <2>2. CASE ~ IsLast(t)
    <3>1. th.pkt = pkt
      BY <1>3, <1>8, <2>2
    <3>2. \A r \in Pushes(t) : Given(t, th, r[2]) = Given(t, thread[t], r[2])
      BY <1>17, <3>1
    <3> HIDE DEF ths
    <3>3. Queues(qs, ths, [thread EXCEPT ![t] = th])
      BY <1>2, <1>12, <3>2, NoPush
    <3> QED BY <1>1, <2>2, <3>3 DEF ths
  <2> QED BY <2>1, <2>2
<1>19. Lists(redis, ths) /\ Files(file, ths)
  BY <1>1, <1>2, KeepLists, KeepFiles
<1> HIDE DEF ths
<1> QED BY <1>1, <1>15, <1>18, <1>19 DEF RunningNext, Running

----------------------------------------------------------------------------
(* sendOneByOne *)

\* A record with all the fields of a thread's.
Record(round, pkt, pos, got, buffer, replylist, count) ==
  [round |-> round, pkt |-> pkt, pos |-> pos, got |-> got,
   buffer |-> buffer, replylist |-> replylist, count |-> count]

\* Its fields are these.
LEMMA RecordIs ==
  ASSUME NEW x, NEW round, NEW pkt, NEW pos, NEW got, NEW buffer, NEW replylist, NEW count,
         x = Record(round, pkt, pos, got, buffer, replylist, count)
  PROVE  /\ IsThread(x) /\ x.round = round /\ x.pkt = pkt /\ x.pos = pos /\ x.got = got
         /\ x.buffer = buffer /\ x.replylist = replylist /\ x.count = count
<1>1. /\ x.round = round /\ x.pkt = pkt /\ x.pos = pos /\ x.got = got
      /\ x.buffer = buffer /\ x.replylist = replylist /\ x.count = count
  BY DEF Record
<1>2. IsThread(x)
  BY <1>1 DEF IsThread, Record
<1> QED BY <1>1, <1>2

\* The record of a thread after it has appended commands, and after it has read a reply.
Appended(th, buffer, replylist, count) ==
  [th EXCEPT !.buffer = buffer, !.replylist = replylist, !.count = count]
Emptied(buffer, n) == [buffer EXCEPT ![n] = <<>>]
WroteTo(th, n) == [th EXCEPT !.replylist = Tail(@), !.buffer[n] = <<>>]
Answered(th) == [th EXCEPT !.replylist = Tail(@)]

\* The fields of a record after commands have been appended.
LEMMA AppendedIs ==
  ASSUME NEW th, IsThread(th), NEW buffer, NEW replylist, NEW count,
         NEW x, x = Appended(th, buffer, replylist, count)
  PROVE  /\ IsThread(x) /\ x.round = th.round /\ x.pkt = th.pkt /\ x.pos = th.pos /\ x.got = th.got
         /\ x.buffer = buffer /\ x.replylist = replylist /\ x.count = count
<1> DEFINE round == th.round
           pkt == th.pkt
           pos == th.pos
           got == th.got
           b == th.buffer
           r == th.replylist
           c == th.count
<1>1. th = [round |-> round, pkt |-> pkt, pos |-> pos, got |-> got,
            buffer |-> b, replylist |-> r, count |-> c]
  BY DEF IsThread
<1> HIDE DEF round, pkt, pos, got, b, r, c
<1>2. x = Record(round, pkt, pos, got, buffer, replylist, count)
  BY <1>1 DEF Record, Appended
<1>3. /\ IsThread(x) /\ x.round = round /\ x.pkt = pkt /\ x.pos = pos /\ x.got = got
      /\ x.buffer = buffer /\ x.replylist = replylist /\ x.count = count
  BY <1>2, RecordIs
<1> QED BY <1>3 DEF round, pkt, pos, got

\* The fields of a record after a buffer has been written and a reply has been read.
LEMMA WrittenIs ==
  ASSUME NEW th, IsThread(th), NEW n,
         NEW x, x = WroteTo(th, n)
  PROVE  /\ IsThread(x) /\ x.round = th.round /\ x.pkt = th.pkt /\ x.pos = th.pos
         /\ x.buffer = Emptied(th.buffer, n) /\ x.replylist = Tail(th.replylist) /\ x.count = th.count
<1> DEFINE round == th.round
           pkt == th.pkt
           pos == th.pos
           got == th.got
           b == th.buffer
           r == th.replylist
           c == th.count
           b2 == [b EXCEPT ![n] = <<>>]
           r2 == Tail(r)
<1>1. th = [round |-> round, pkt |-> pkt, pos |-> pos, got |-> got,
            buffer |-> b, replylist |-> r, count |-> c]
  BY DEF IsThread
<1> HIDE DEF round, pkt, pos, got, b, r, c
<1>2. th.buffer = b /\ th.replylist = r
  BY <1>1
<1>3. x = [th EXCEPT !.replylist = r2, !.buffer = b2]
  BY <1>2 DEF WroteTo
<1> HIDE DEF b2, r2
<1>4. x = Record(round, pkt, pos, got, b2, r2, c)
  BY <1>1, <1>3 DEF Record
<1>5. /\ IsThread(x) /\ x.round = round /\ x.pkt = pkt /\ x.pos = pos /\ x.got = got
      /\ x.buffer = b2 /\ x.replylist = r2 /\ x.count = c
  BY <1>4, RecordIs
<1> QED BY <1>5 DEF round, pkt, pos, b2, r2, b, r, c, Emptied

\* The fields of a record after a reply has been read that was there already.
LEMMA AnsweredIs ==
  ASSUME NEW th, IsThread(th), NEW x, x = Answered(th)
  PROVE  /\ IsThread(x) /\ x.round = th.round /\ x.pkt = th.pkt /\ x.pos = th.pos
         /\ x.buffer = th.buffer /\ x.replylist = Tail(th.replylist) /\ x.count = th.count
<1> DEFINE round == th.round
           pkt == th.pkt
           pos == th.pos
           got == th.got
           b == th.buffer
           r == th.replylist
           c == th.count
           r2 == Tail(r)
<1>1. th = [round |-> round, pkt |-> pkt, pos |-> pos, got |-> got,
            buffer |-> b, replylist |-> r, count |-> c]
  BY DEF IsThread
<1>2. x = [th EXCEPT !.replylist = r2]
  BY DEF Answered
<1> HIDE DEF round, pkt, pos, got, b, r, c, r2
<1>3. x = Record(round, pkt, pos, got, b, r2, c)
  BY <1>1, <1>2 DEF Record
<1>4. /\ IsThread(x) /\ x.round = round /\ x.pkt = pkt /\ x.pos = pos /\ x.got = got
      /\ x.buffer = b /\ x.replylist = r2 /\ x.count = c
  BY <1>3, RecordIs
<1> QED BY <1>4 DEF round, pkt, pos, r2, b, r, c

\* A thread at the same place has handled the same packets.
LEMMA PassedSame ==
  ASSUME NEW x, NEW th, x.round = th.round, x.pkt = th.pkt, x.pos = th.pos
  PROVE  \A v : Passed(x, v) = Passed(th, v)
BY DEF Passed

\* Reading a reply, with or without writing a buffer, keeps the lists; of the thread only the
\* buffer and the outstanding replies change.
LEMMA ReplyKeeps ==
  ASSUME Ready, NEW ths, Threads(ths), Lists(redis, ths), NEW t \in tasks, t.type = "send",
         NEW th, th = ths[t], th.replylist # <<>>, GetReply(t, th),
         DOMAIN thread = tasks, \A u \in tasks : u # t => thread[u] = ths[u]
  PROVE  /\ Threads(thread') /\ Lists(redis', thread')
         /\ \E x : /\ thread' = [ths EXCEPT ![t] = x]
                   /\ \A v : Passed(x, v) = Passed(th, v)
<1> DEFINE n == Head(th.replylist)
           x == WroteTo(th, n)
           y == Answered(th)
<1>1. /\ IsThread(th) /\ th.round = RoundOf(t) /\ InRound(th)
      /\ th.buffer \in [Connections(t) -> Seq(Commands)]
      /\ \A m \in Connections(t) : \A i \in 1 .. Len(th.buffer[m]) : Sends(t, th.buffer[m][i].v, m)
      /\ th.replylist \in Seq(Connections(t))
  BY DEF Threads, ThreadInv
<1>2. n \in Connections(t) /\ Tail(th.replylist) \in Seq(Connections(t))
  BY <1>1, HeadTailProperties
<1>3. \/ redis' = Executed(n, th.buffer[n]) /\ thread' = [thread EXCEPT ![t] = x]
      \/ redis' = redis /\ thread' = [thread EXCEPT ![t] = y]
  BY DEF GetReply, WroteTo, Answered
<1>4. /\ IsThread(x) /\ x.round = th.round /\ x.pkt = th.pkt /\ x.pos = th.pos
      /\ x.buffer = Emptied(th.buffer, n) /\ x.replylist = Tail(th.replylist)
      /\ IsThread(y) /\ y.round = th.round /\ y.pkt = th.pkt /\ y.pos = th.pos
      /\ y.buffer = th.buffer /\ y.replylist = Tail(th.replylist)
  <2>1. x = WroteTo(th, n) /\ y = Answered(th)
    OBVIOUS
  <2> HIDE DEF x, y, n
  <2>2. x = WroteTo(th, n)
    BY <2>1
  <2>3. /\ IsThread(x) /\ x.round = th.round /\ x.pkt = th.pkt /\ x.pos = th.pos
        /\ x.buffer = Emptied(th.buffer, n) /\ x.replylist = Tail(th.replylist)
    BY <1>1, <2>2, WrittenIs
  <2>4. /\ IsThread(y) /\ y.round = th.round /\ y.pkt = th.pkt /\ y.pos = th.pos
        /\ y.buffer = th.buffer /\ y.replylist = Tail(th.replylist)
    BY <1>1, <2>1, AnsweredIs
  <2> QED BY <2>3, <2>4
<1>5. DOMAIN ths = tasks
  BY DEF Threads
<1> HIDE DEF x, y, n
<1>6. /\ [thread EXCEPT ![t] = x] = [ths EXCEPT ![t] = x]
      /\ [thread EXCEPT ![t] = y] = [ths EXCEPT ![t] = y]
  BY <1>5
<1>7. (\A v : Passed(x, v) = Passed(th, v)) /\ \A v : Passed(y, v) = Passed(th, v)
  BY <1>4, PassedSame
<1>8. InRound(x) /\ InRound(y)
  BY <1>1, <1>4 DEF InRound
<1>9. CASE redis' = Executed(n, th.buffer[n]) /\ thread' = [thread EXCEPT ![t] = x]
  <2>1. Lists(Executed(n, ths[t].buffer[n]), [ths EXCEPT ![t] = x])
    BY <1>2, <1>4, <1>7, FlushStep DEF Emptied
  <2>2. ThreadInv(t, x)
    <3>1. x.buffer \in [Connections(t) -> Seq(Commands)]
      <4>1. <<>> \in Seq(Commands)
        BY EmptySeq
      <4> QED BY <1>1, <1>4, <4>1 DEF Emptied
    <3>2. ASSUME NEW m \in Connections(t), NEW i \in 1 .. Len(x.buffer[m])
          PROVE  Sends(t, x.buffer[m][i].v, m)
      <4>1. CASE m = n
        <5>1. x.buffer[m] = <<>>
          BY <1>1, <1>4, <4>1 DEF Emptied
        <5>2. Len(x.buffer[m]) = 0
          BY <5>1
        <5> QED BY <5>2
      <4>2. CASE m # n
        <5>1. x.buffer[m] = th.buffer[m]
          BY <1>1, <1>4, <4>2 DEF Emptied
        <5> QED BY <1>1, <5>1
      <4> QED BY <4>1, <4>2
    <3> QED BY <1>1, <1>2, <1>4, <1>8, <3>1, <3>2 DEF ThreadInv
  <2>3. Threads([ths EXCEPT ![t] = x])
    BY <2>2, KeepThreads
  <2> QED BY <1>6, <1>7, <1>9, <2>1, <2>3
<1>10. CASE redis' = redis /\ thread' = [thread EXCEPT ![t] = y]
  <2>1. Lists(redis, [ths EXCEPT ![t] = y])
    BY <1>4, <1>5, <1>7, KeepLists
  <2>2. ThreadInv(t, y)
    BY <1>1, <1>2, <1>4, <1>8 DEF ThreadInv
  <2>3. Threads([ths EXCEPT ![t] = y])
    BY <2>2, KeepThreads
  <2> QED BY <1>6, <1>7, <1>10, <2>1, <2>3
<1> QED BY <1>3, <1>9, <1>10

\* The replies that are outstanding at the end.
LEMMA DrainRepliesKeeps ==
  ASSUME Ready, Running(thread, queue, redis, file), NEW t \in tasks, DrainReplies(t)
  PROVE  RunningNext
<1> DEFINE th == thread[t]
<1>1. /\ t.type = "send" /\ th.replylist # <<>> /\ GetReply(t, th)
      /\ queue' = queue /\ file' = file
  BY DEF DrainReplies
<1>2. /\ Threads(thread) /\ Queues(queue, thread, thread) /\ Lists(redis, thread)
      /\ Files(file, thread) /\ DOMAIN thread = tasks
  BY DEF Running, Threads
<1>4. /\ Threads(thread') /\ Lists(redis', thread')
      /\ \E x : /\ thread' = [thread EXCEPT ![t] = x]
                /\ \A v : Passed(x, v) = Passed(th, v)
  <2> HIDE DEF th
  <2>1. th = thread[t]
    BY DEF th
  <2> QED BY <1>1, <1>2, <2>1, ReplyKeeps
<1>5. PICK x : /\ thread' = [thread EXCEPT ![t] = x]
               /\ \A v : Passed(x, v) = Passed(th, v)
  BY <1>4
<1>6. Queues(queue, [thread EXCEPT ![t] = x], thread)
  BY <1>2, <1>5, NoPop
<1>7. Queues(queue, [thread EXCEPT ![t] = x], [thread EXCEPT ![t] = x])
  <2>1. \A q \in Pushes(t) : Given(t, x, q[2]) = Given(t, thread[t], q[2])
    BY <1>1, <1>5 DEF Given
  <2> DEFINE a == [thread EXCEPT ![t] = x]
  <2>2. Queues(queue, a, thread)
    BY <1>6
  <2> HIDE DEF a
  <2>3. Queues(queue, a, [thread EXCEPT ![t] = x])
    BY <1>2, <2>1, <2>2, NoPush
  <2> QED BY <2>3 DEF a
<1>8. Files(file, [thread EXCEPT ![t] = x])
  BY <1>1, <1>2, KeepFiles
<1> QED BY <1>1, <1>4, <1>5, <1>7, <1>8 DEF RunningNext, Running

\* What is appended to the buffers of the connections to some receivers.
Buffered(buffer, receivers, c) ==
  [n \in DOMAIN buffer |-> IF n \in receivers THEN Append(buffer[n], c) ELSE buffer[n]]

\* The record of a thread after sendOneByOne has appended the commands for a packet.
LEMMA SentIs ==
  ASSUME Ready, Threads(thread), NEW t \in tasks, Send(t)
  PROVE  \E th :
    LET cur == Current(t)
        c == [v |-> cur, p |-> Head(queue[<<t.node, "out", cur>>])]
    IN  /\ IsThread(th) /\ th.round = RoundOf(t)
        /\ th.pkt = Advanced(t).pkt /\ th.pos = Advanced(t).pos
        /\ th.buffer = Buffered(thread[t].buffer, t.sendto[cur], c)
        /\ th.replylist = thread[t].replylist \o Ascending(t.sendto[cur])
        /\ th.count = thread[t].count + Cardinality(t.sendto[cur])
        /\ IF th.count > Window THEN GetReply(t, th)
           ELSE thread' = [thread EXCEPT ![t] = th] /\ redis' = redis
<1> DEFINE cur == Current(t)
           k == <<t.node, "out", cur>>
           p == Head(queue[k])
           c == [v |-> cur, p |-> p]
           adv == Advanced(t)
           buffer == Buffered(adv.buffer, t.sendto[cur], c)
           replylist == adv.replylist \o Ascending(t.sendto[cur])
           count == adv.count + Cardinality(t.sendto[cur])
           th == Appended(adv, buffer, replylist, count)
<1>1. /\ IsThread(adv) /\ InRound(adv) /\ adv.round = RoundOf(t)
      /\ adv.buffer = thread[t].buffer /\ adv.replylist = thread[t].replylist
      /\ adv.count = thread[t].count
  BY StepIs DEF Send
<1>2. th = [adv EXCEPT
              !.buffer = [n \in DOMAIN @ |-> IF n \in t.sendto[cur] THEN Append(@[n], c) ELSE @[n]],
              !.replylist = @ \o Ascending(t.sendto[cur]),
              !.count = @ + Cardinality(t.sendto[cur])]
  BY <1>1 DEF Appended, Buffered, IsThread
<1> HIDE DEF th
<1>3. IF th.count > Window THEN GetReply(t, th)
      ELSE thread' = [thread EXCEPT ![t] = th] /\ redis' = redis
  BY <1>2 DEF Send
<1> HIDE DEF buffer, replylist, count
<1>4. /\ IsThread(th) /\ th.round = RoundOf(t) /\ th.pkt = adv.pkt /\ th.pos = adv.pos
      /\ th.buffer = buffer /\ th.replylist = replylist /\ th.count = count
  <2>1. th = Appended(adv, buffer, replylist, count)
    BY DEF th
  <2> HIDE DEF adv
  <2> QED BY <1>1, <2>1, AppendedIs
<1>5. WITNESS th
<1> QED BY <1>1, <1>3, <1>4 DEF buffer, replylist, count

\* sendOneByOne.
LEMMA SendKeeps ==
  ASSUME Ready, Running(thread, queue, redis, file), NEW t \in tasks, Send(t)
  PROVE  RunningNext
<1> DEFINE cur == Current(t)
           q == <<"out", cur>>
           k == <<t.node, "out", cur>>
           p == Head(queue[k])
           c == [v |-> cur, p |-> p]
           adv == Advanced(t)
           qs == [queue EXCEPT ![k] = Tail(@)]
<1>1. /\ t.type = "send" /\ HasRounds(t) /\ queue[k] # <<>>
      /\ queue' = qs /\ file' = file
  BY DEF Send
<1>2. /\ Threads(thread) /\ Queues(queue, thread, thread) /\ Lists(redis, thread)
      /\ Files(file, thread) /\ DOMAIN thread = tasks /\ Counts(thread)
  BY ThreadsCount DEF Running, Threads
<1>3. /\ IsThread(adv) /\ InRound(adv) /\ adv.round = RoundOf(t)
      /\ adv.buffer = thread[t].buffer /\ adv.replylist = thread[t].replylist
      /\ cur \in Handled(t) /\ cur \in Int /\ Passed(thread[t], cur) = thread[t].pkt
      /\ thread[t].pkt \in 0 .. PktNum - 1
  BY <1>1, <1>2, StepIs
<1>4. PICK th :
        /\ IsThread(th) /\ th.round = RoundOf(t) /\ th.pkt = adv.pkt /\ th.pos = adv.pos
        /\ th.buffer = Buffered(thread[t].buffer, t.sendto[cur], c)
        /\ th.replylist = thread[t].replylist \o Ascending(t.sendto[cur])
        /\ IF th.count > Window THEN GetReply(t, th)
           ELSE thread' = [thread EXCEPT ![t] = th] /\ redis' = redis
  BY <1>2, SentIs
<1> DEFINE ths == [thread EXCEPT ![t] = th]
<1>6. /\ Passed(th, cur) = thread[t].pkt + 1
      /\ \A v \in Handled(t) : v # cur => Passed(th, v) = Passed(thread[t], v)
  BY <1>1, <1>2, <1>4, StepPasses
<1>7. q \in Pops(t) /\ Key(t, q) = k /\ q[2] = cur
  <2>1. Pops(t) = {<<"out", v>> : v \in Handled(t)}
    BY <1>1, PopsOf
  <2> QED BY <1>3, <2>1 DEF Key
<1> HIDE DEF q, k
<1>8. p = <<cur, thread[t].pkt>> /\ Queues(qs, ths, thread)
  <2> HIDE DEF cur
  <2>1. queue[Key(t, q)] # <<>> /\ Passed(th, q[2]) = Passed(thread[t], q[2]) + 1
    BY <1>1, <1>3, <1>6, <1>7
  <2>2. \A v \in Handled(t) : v # q[2] => Passed(th, v) = Passed(thread[t], v)
    BY <1>6, <1>7
  <2>3. /\ Head(queue[Key(t, q)]) = <<q[2], Passed(thread[t], q[2])>>
        /\ Queues([queue EXCEPT ![Key(t, q)] = Tail(@)], [thread EXCEPT ![t] = th], thread)
    BY <1>2, <1>7, <2>1, <2>2, PopStep
  <2> QED BY <1>3, <1>7, <2>3
<1> HIDE DEF qs, p
<1>9. cur \in t.list /\ t.sendto[cur] \in SUBSET Int /\ IsFiniteSet(t.sendto[cur]) /\ t.sendto[cur] # {}
      /\ t.sendto[cur] \subseteq Connections(t)
  <2>1. cur \in t.list
    BY <1>1, <1>3 DEF Handled
  <2> HIDE DEF cur
  <2> QED BY <1>1, <2>1, SendIs DEF Connections
<1>10. c \in Commands /\ c = [v |-> cur, p |-> <<cur, Passed(thread[t], cur)>>]
  <2>1. c = [v |-> cur, p |-> <<cur, thread[t].pkt>>]
    BY <1>8
  <2> QED BY <1>3, <2>1 DEF Commands, Packet
<1>11. ThreadInv(t, thread[t])
  BY <1>2 DEF Threads
<1>12. /\ th.buffer \in [Connections(t) -> Seq(Commands)]
       /\ th.buffer = [n \in Connections(t) |-> IF n \in t.sendto[cur] THEN Append(thread[t].buffer[n], c)
                                                ELSE thread[t].buffer[n]]
       /\ \A n \in Connections(t) : \A i \in 1 .. Len(th.buffer[n]) : Sends(t, th.buffer[n][i].v, n)
  <2>1. /\ thread[t].buffer \in [Connections(t) -> Seq(Commands)]
        /\ \A n \in Connections(t) : \A i \in 1 .. Len(thread[t].buffer[n]) :
             Sends(t, thread[t].buffer[n][i].v, n)
    BY <1>1, <1>11 DEF ThreadInv
  <2>2. c.v = cur
    OBVIOUS
  <2> HIDE DEF c, cur, adv
  <2>3. th.buffer = [n \in Connections(t) |-> IF n \in t.sendto[cur] THEN Append(thread[t].buffer[n], c)
                                              ELSE thread[t].buffer[n]]
    BY <1>4, <2>1 DEF Buffered
  <2>4. ASSUME NEW n \in Connections(t)
        PROVE  /\ th.buffer[n] \in Seq(Commands)
               /\ \A i \in 1 .. Len(th.buffer[n]) : Sends(t, th.buffer[n][i].v, n)
    <3> DEFINE old == thread[t].buffer[n]
    <3>1. old \in Seq(Commands) /\ \A i \in 1 .. Len(old) : Sends(t, old[i].v, n)
      BY <2>1
    <3>2. th.buffer[n] = IF n \in t.sendto[cur] THEN Append(old, c) ELSE old
      BY <2>3
    <3> HIDE DEF old
    <3>3. CASE n \in t.sendto[cur]
      <4>1. /\ Append(old, c) \in Seq(Commands) /\ Len(Append(old, c)) = Len(old) + 1
            /\ Len(old) \in Nat
            /\ Append(old, c)[Len(old) + 1] = c
            /\ \A i \in 1 .. Len(old) : Append(old, c)[i] = old[i]
        BY <1>10, <3>1, AppendProperties, LenProperties
      <4>2. Sends(t, c.v, n)
        BY <1>1, <1>9, <2>2, <3>3 DEF Sends
      <4> QED BY <3>1, <3>2, <3>3, <4>1, <4>2
    <3>4. CASE n \notin t.sendto[cur]
      BY <3>1, <3>2, <3>4
    <3> QED BY <3>3, <3>4
  <2> QED BY <2>3, <2>4
<1>13. th.replylist \in Seq(Connections(t)) /\ th.replylist # <<>>
  <2> DEFINE a == thread[t].replylist
             b == Ascending(t.sendto[cur])
             S == Connections(t)
  <2>1. a \in Seq(S)
    BY <1>1, <1>11 DEF ThreadInv
  <2>2. /\ b \in Seq(Int) /\ Len(b) = Cardinality(t.sendto[cur])
        /\ \A i \in 1 .. Cardinality(t.sendto[cur]) : b[i] \in t.sendto[cur]
    <3> HIDE DEF cur
    <3> QED BY <1>9, AscendingIs
  <2>3. b \in Seq(S) /\ Len(b) > 0
    <3>1. Cardinality(t.sendto[cur]) \in Nat /\ Cardinality(t.sendto[cur]) # 0
      <4> HIDE DEF cur
      <4> QED BY <1>9, FS_CardinalityType, FS_EmptySet
    <3> HIDE DEF b, cur, S
    <3>2. \A i \in 1 .. Len(b) : b[i] \in S
      BY <1>9, <2>2 DEF S
    <3>3. b \in Seq(S)
      BY <2>2, <3>2, LenProperties
    <3> QED BY <2>2, <3>1, <3>3
  <2>4. th.replylist = a \o b
    BY <1>4
  <2> HIDE DEF a, b, S
  <2>5. a \o b \in Seq(S) /\ Len(a \o b) = Len(a) + Len(b) /\ Len(a) \in Nat
    BY <2>1, <2>3, ConcatProperties, LenProperties
  <2>6. Len(<<>>) = 0
    OBVIOUS
  <2> QED BY <2>3, <2>4, <2>5, <2>6 DEF S
<1>14. InRound(th)
  BY <1>3, <1>4 DEF InRound
<1>15. Threads(ths)
  <2>1. ThreadInv(t, th)
    BY <1>1, <1>4, <1>12, <1>13, <1>14 DEF ThreadInv
  <2> QED BY <1>2, <2>1, KeepThreads
<1>16. Lists(redis, ths)
  <2> HIDE DEF c, cur
  <2>1. \A u \in Handled(t) : u # cur => Passed(th, u) = Passed(thread[t], u)
    BY <1>6
  <2>2. Passed(th, cur) = Passed(thread[t], cur) + 1
    BY <1>3, <1>6
  <2>3. \A n \in Connections(t) :
          th.buffer[n] = IF n \in t.sendto[cur] THEN Append(thread[t].buffer[n], c)
                         ELSE thread[t].buffer[n]
    BY <1>12
  <2>4. c = [v |-> cur, p |-> <<cur, Passed(thread[t], cur)>>]
    BY <1>10
  <2> QED BY <1>1, <1>2, <1>9, <2>1, <2>2, <2>3, <2>4, SendStep
<1>17. Queues(qs, ths, ths)
  <2>1. Pushes(t) = {}
    BY <1>1, PushesOf
  <2> HIDE DEF ths
  <2>2. Queues(qs, ths, [thread EXCEPT ![t] = th])
    BY <1>2, <1>8, <2>1, NoPush
  <2> QED BY <2>2 DEF ths
<1>18. Files(file, ths)
  BY <1>1, <1>2, KeepFiles
<1>19. ths[t] = th /\ DOMAIN ths = tasks /\ \A u \in tasks : u # t => thread[u] = ths[u]
  BY <1>2
<1>5. ~ (th.count > Window) => thread' = ths /\ redis' = redis
  BY <1>4
<1> HIDE DEF ths
<1>20. CASE ~ (th.count > Window)
  BY <1>1, <1>5, <1>15, <1>16, <1>17, <1>18, <1>20 DEF RunningNext, Running
<1>21. CASE th.count > Window
  <2>1. GetReply(t, th)
    BY <1>4, <1>21
  <2>2. /\ Threads(thread') /\ Lists(redis', thread')
        /\ \E x : /\ thread' = [ths EXCEPT ![t] = x]
                  /\ \A v : Passed(x, v) = Passed(th, v)
    BY <1>1, <1>2, <1>13, <1>15, <1>16, <1>19, <2>1, ReplyKeeps
  <2>3. PICK x : thread' = [ths EXCEPT ![t] = x] /\ \A v : Passed(x, v) = Passed(th, v)
    BY <2>2
  <2>4. Queues(qs, [ths EXCEPT ![t] = x], ths)
    BY <1>17, <1>19, <2>3, NoPop
  <2>5. Queues(qs, [ths EXCEPT ![t] = x], [ths EXCEPT ![t] = x])
    <3> DEFINE a == [ths EXCEPT ![t] = x]
    <3>1. Queues(qs, a, ths)
      BY <2>4
    <3>2. \A r \in Pushes(t) : Given(t, x, r[2]) = Given(t, ths[t], r[2])
      BY <1>1, <1>19, <2>3 DEF Given
    <3> HIDE DEF a
    <3>3. Queues(qs, a, [ths EXCEPT ![t] = x])
      BY <1>19, <3>1, <3>2, NoPush
    <3> QED BY <3>3 DEF a
  <2>6. Files(file, [ths EXCEPT ![t] = x])
    BY <1>1, <1>18, <1>19, KeepFiles
  <2> QED BY <1>1, <2>2, <2>3, <2>5, <2>6 DEF RunningNext, Running
<1> QED BY <1>20, <1>21

----------------------------------------------------------------------------
(* The threads start *)

\* A thread that starts has handled nothing.
LEMMA NewThreadIs ==
  ASSUME Ready, NEW t \in tasks, NEW th, th = NewThread(t)
  PROVE  /\ ThreadInv(t, th) /\ th.pkt = 0 /\ th.pos = 1 /\ th.count = 0 /\ th.round = RoundOf(t)
         /\ \A n \in Connections(t) : th.buffer[n] = <<>>
         /\ \A v : Passed(th, v) = 0 /\ Given(t, th, v) = 0
<1> DEFINE s == RoundOf(t)
           buffer == [n \in Connections(t) |-> <<>>]
<1>1. th = Record(s, 0, 1, <<>>, buffer, <<>>, 0)
  BY DEF NewThread, Record
<1>2. s \in Seq(Int) /\ s # <<>> /\ Len(s) \in Nat
  <2>1. IsRound(s)
    BY RoundIs
  <2> HIDE DEF s
  <2> QED BY <2>1, LenProperties DEF IsRound
<1>3. Len(s) # 0
  <2> HIDE DEF s
  <2> QED BY <1>2, EmptySeq
<1> HIDE DEF s, buffer
<1>4. /\ IsThread(th) /\ th.round = s /\ th.pkt = 0 /\ th.pos = 1 /\ th.got = <<>>
      /\ th.buffer = buffer /\ th.replylist = <<>> /\ th.count = 0
  BY <1>1, RecordIs
<1>5. InRound(th)
  BY <1>2, <1>3, <1>4, PktNumAssumption DEF InRound
<1>6. th.got = [j \in 1 .. th.pos - 1 |-> <<th.round[j], th.pkt>>]
  <2> DEFINE e == [j \in 1 .. th.pos - 1 |-> <<th.round[j], th.pkt>>]
  <2>1. th.pos - 1 = 0
    BY <1>4
  <2>2. DOMAIN e = {} /\ DOMAIN <<>> = {}
    BY <2>1
  <2>3. e = <<>>
    BY <2>2
  <2> QED BY <1>4, <2>3
<1>7. /\ buffer \in [Connections(t) -> Seq(Commands)]
      /\ \A n \in Connections(t) : buffer[n] = <<>>
  <2>1. <<>> \in Seq(Commands)
    BY EmptySeq
  <2> QED BY <2>1 DEF buffer
<1>8. \A n \in Connections(t) : \A i \in 1 .. Len(buffer[n]) : Sends(t, buffer[n][i].v, n)
  <2> TAKE n \in Connections(t)
  <2>1. Len(buffer[n]) = 0
    BY <1>7
  <2> QED BY <2>1
<1>9. <<>> \in Seq(Connections(t))
  BY EmptySeq
<1>10. ThreadInv(t, th)
  BY <1>4, <1>5, <1>6, <1>7, <1>8, <1>9 DEF ThreadInv, s
<1>11. \A v : Passed(th, v) = 0
  BY <1>4 DEF Passed
<1>12. \A v : Given(t, th, v) = 0
  BY <1>4, <1>11 DEF Given
<1> QED BY <1>4, <1>7, <1>10, <1>11, <1>12 DEF s

\* All threads start with empty queues, lists and files.
LEMMA StartThreadsKeeps ==
  ASSUME Ready, StartThreads
  PROVE  RunningNext
<1> DEFINE ths == thread'
<1>1. DOMAIN ths = tasks /\ \A t \in tasks : ths[t] = NewThread(t)
  BY DEF StartThreads
<1>2. DOMAIN queue' = QueueKeys /\ \A k \in QueueKeys : queue'[k] = <<>>
  BY DEF StartThreads, QueueKeys
<1>3. DOMAIN redis' = ListKeys /\ \A k \in ListKeys : redis'[k] = <<>>
  BY DEF StartThreads, ListKeys
<1>4. /\ DOMAIN file' = {t.blk : t \in {u \in tasks : u.type = "persist"}}
      /\ \A b \in DOMAIN file' : file'[b] = <<>>
  BY DEF StartThreads
<1> HIDE DEF ths
<1>5. \A t \in tasks :
        /\ ThreadInv(t, ths[t]) /\ ths[t].pkt = 0 /\ ths[t].pos = 1
        /\ \A n \in Connections(t) : ths[t].buffer[n] = <<>>
        /\ \A v : Passed(ths[t], v) = 0 /\ Given(t, ths[t], v) = 0
  BY <1>1, NewThreadIs
<1>6. Threads(ths)
  BY <1>1, <1>5 DEF Threads
<1>7. Queues(queue', ths, ths)
  <2>1. ASSUME NEW t \in tasks, NEW u \in tasks, t.node = u.node, NEW q \in Pops(t) \cap Pushes(u)
        PROVE  /\ Passed(ths[t], q[2]) <= Given(u, ths[u], q[2])
               /\ queue'[Key(t, q)] = Packets(q[2], Passed(ths[t], q[2]), Given(u, ths[u], q[2]))
    <3>1. Passed(ths[t], q[2]) = 0 /\ Given(u, ths[u], q[2]) = 0
      BY <1>5
    <3>2. Key(t, q) \in QueueKeys
      BY <2>1 DEF QueueKeys
    <3>3. Packets(q[2], 0, 0) = <<>>
      BY NoPackets
    <3> QED BY <1>2, <3>1, <3>2, <3>3
  <2> QED BY <1>2, <2>1 DEF Queues
<1>8. Lists(redis', ths)
  <2>1. ASSUME NEW s \in tasks, NEW r \in tasks, r.type = "recv", NEW v \in r.list, Sends(s, v, r.node)
        PROVE  \E w \in Nat :
                 /\ Passed(ths[r], v) <= w /\ w <= Passed(ths[s], v)
                 /\ redis'[<<r.node, v>>] = Packets(v, Passed(ths[r], v), w)
                 /\ Holds(ths[s].buffer[r.node], v, w, Passed(ths[s], v))
    <3>1. Passed(ths[r], v) = 0 /\ Passed(ths[s], v) = 0
      BY <1>5
    <3>2. <<r.node, v>> \in ListKeys /\ r.node \in Connections(s)
      BY <2>1, SenderIs
    <3>3. redis'[<<r.node, v>>] = <<>> /\ ths[s].buffer[r.node] = <<>>
      BY <1>3, <1>5, <3>2
    <3>4. Packets(v, 0, 0) = <<>> /\ Holds(<<>>, v, 0, 0)
      BY NoPackets, HoldsNone
    <3> WITNESS 0 \in Nat
    <3> QED BY <3>1, <3>3, <3>4
  <2> QED BY <1>3, <2>1 DEF Lists
<1>9. Files(file', ths)
  <2>1. ASSUME NEW t \in tasks, t.type = "persist"
        PROVE  /\ file'[t.blk] \in Seq(Packet)
               /\ Len(file'[t.blk]) = ths[t].pkt * EcwOf[stripe] + ths[t].pos - 1
               /\ \A i \in 1 .. Len(file'[t.blk]) : file'[t.blk][i] = PacketOf(t.blk, i)
    <3>1. file'[t.blk] = <<>>
      BY <1>4, <2>1
    <3>2. <<>> \in Seq(Packet) /\ Len(<<>>) = 0
      BY EmptySeq
    <3>3. ths[t].pkt * EcwOf[stripe] + ths[t].pos - 1 = 0
      <4>1. EcwOf[stripe] \in Nat
        BY <2>1, PersistIs
      <4> QED BY <1>5, <4>1
    <3> QED BY <3>1, <3>2, <3>3
  <2> QED BY <1>4, <2>1 DEF Files
<1> QED BY <1>6, <1>7, <1>8, <1>9 DEF RunningNext, Running, ths

----------------------------------------------------------------------------
(* The theorems about the threads *)

\* The threads run once all tasks have been received, and then their state is right.
PipeInv == Inv /\ (running => Received /\ Running(thread, queue, redis, file))

\* A thread's state is right by its tasks, stripe and coloring, which stay.
LEMMA RunningStays ==
  ASSUME RunningNext, UNCHANGED vars
  PROVE  Running(thread, queue, redis, file)'
BY DEF RunningNext, Running, Threads, Queues, QueueKeys, Lists, ListKeys, Files, PacketOf, vars

\* The generation of tasks has ended, and its invariant stays.
LEMMA InvStays ==
  ASSUME Inv, UNCHANGED vars
  PROVE  Inv' /\ Received' = Received
<1>1. Inv'
  BY NextInv
<1>2. Received' = Received
  BY DEF Received, vars, LastLevel
<1> QED BY <1>1, <1>2

\* Nothing runs at first.
LEMMA PipeInitInv == PipeInit => PipeInv
BY InitInv DEF PipeInit, PipeInv

\* Nothing runs while the tasks are generated.
LEMMA GenerateInv ==
  ASSUME PipeInv, Generate
  PROVE  PipeInv'
BY NextInv DEF PipeInv, Generate, pipeVars

\* The threads start when all nodes have read their tasks.
LEMMA StartThreadsInv ==
  ASSUME PipeInv, StartThreads
  PROVE  PipeInv'
<1>1. Ready /\ UNCHANGED vars
  BY DEF PipeInv, StartThreads, Ready
<1>2. RunningNext
  BY <1>1, StartThreadsKeeps
<1> QED BY <1>1, <1>2, RunningStays, InvStays DEF PipeInv, Ready

\* Every step of a thread keeps the invariant.
LEMMA StepInv ==
  ASSUME PipeInv, NEW t \in tasks, Step(t)
  PROVE  PipeInv'
<1>1. /\ Ready /\ Running(thread, queue, redis, file) /\ UNCHANGED vars
      /\ Read(t) \/ Compute(t) \/ Send(t) \/ DrainReplies(t) \/ Recv(t) \/ Persist(t)
  BY DEF PipeInv, Step, Ready
<1>2. RunningNext
  BY <1>1, ReadKeeps, ComputeKeeps, SendKeeps, DrainRepliesKeeps, RecvKeeps, PersistKeeps
<1> QED BY <1>1, <1>2, RunningStays, InvStays DEF PipeInv, Ready

\* So does every step.
LEMMA PipeNextInv ==
  ASSUME PipeInv, [PipeNext]_allVars
  PROVE  PipeInv'
<1>1. CASE Generate
  BY <1>1, GenerateInv
<1>2. CASE StartThreads
  BY <1>2, StartThreadsInv
<1>3. ASSUME NEW t \in tasks, Step(t) PROVE PipeInv'
  BY <1>3, StepInv
<1>4. CASE UNCHANGED allVars
  <2>1. UNCHANGED vars /\ UNCHANGED pipeVars
    BY <1>4 DEF allVars
  <2>2. running => RunningNext
    BY <2>1 DEF PipeInv, RunningNext, pipeVars
  <2> QED BY <2>1, <2>2, RunningStays, InvStays DEF PipeInv, pipeVars
<1> QED BY <1>1, <1>2, <1>3, <1>4 DEF PipeNext

\* The invariant of the threads of a stripe, whatever the order in which they run and the time
\* at which hiredis writes their commands, for the stripes of ThreadsAssumption: their concat
\* vertices are all on the last level, and a node uses a sub-packet on one level only.
THEOREM PipeInvariance == PipeSpec => []PipeInv
<1>1. PipeInit => PipeInv
  BY PipeInitInv
<1>2. PipeInv /\ [PipeNext]_allVars => PipeInv'
  BY PipeNextInv
<1> QED BY <1>1, <1>2, PTL DEF PipeSpec

\* What a queue has is what its reader still has to pop; there is no other queue.
LEMMA QueuesAre ==
  ASSUME Ready, Running(thread, queue, redis, file), NEW k \in DOMAIN queue
  PROVE  \E t, u \in tasks : \E q \in Pops(t) \cap Pushes(u) :
           /\ q[2] \in Int /\ Passed(thread[t], q[2]) <= Given(u, thread[u], q[2])
           /\ queue[k] = Packets(q[2], Passed(thread[t], q[2]), Given(u, thread[u], q[2]))
<1>0. PICK s \in tasks : \E r \in Pops(s) \cup Pushes(s) : k = Key(s, r)
  BY DEF Running, Queues, QueueKeys
<1>1. PICK q \in Pops(s) \cup Pushes(s) : k = Key(s, q)
  BY <1>0
<1>2. PICK t \in tasks, u \in tasks : t.node = s.node /\ u.node = s.node /\ q \in Pops(t) \cap Pushes(u)
  <2>1. CASE q \in Pops(s)
    BY <2>1, HasFeeder
  <2>2. CASE q \in Pushes(s)
    BY <2>2, ReadyIs, AllIsRead
  <2> QED BY <1>1, <2>1, <2>2
<1>3. k = Key(t, q)
  BY <1>1, <1>2 DEF Key
<1>4. q[2] \in Int
  BY <1>2, QueuesNamed
<1>5. /\ Passed(thread[t], q[2]) <= Given(u, thread[u], q[2])
      /\ queue[Key(t, q)] = Packets(q[2], Passed(thread[t], q[2]), Given(u, thread[u], q[2]))
  BY <1>2 DEF Running, Queues
<1> QED BY <1>2, <1>3, <1>4, <1>5

\* What a list has is what its receiver still has to take.
LEMMA RedisIs ==
  ASSUME Ready, Running(thread, queue, redis, file), NEW k \in DOMAIN redis
  PROVE  \E s, r \in tasks : \E v \in Int : \E w \in Nat :
           /\ Passed(thread[r], v) <= w /\ w <= Passed(thread[s], v)
           /\ redis[k] = Packets(v, Passed(thread[r], v), w)
<1>0. PICK r \in tasks : r.type = "recv" /\ \E v \in r.list : k = <<r.node, v>>
  BY DEF Running, Lists, ListKeys
<1>1. PICK v \in r.list : r.type = "recv" /\ k = <<r.node, v>>
  BY <1>0
<1>2. PICK s \in tasks : Sends(s, v, r.node)
  BY <1>1, SendsAndReceives
<1>3. v \in Int
  BY <1>1, <1>2, SenderIs
<1>4. \E w \in Nat :
        /\ Passed(thread[r], v) <= w /\ w <= Passed(thread[s], v)
        /\ redis[<<r.node, v>>] = Packets(v, Passed(thread[r], v), w)
  BY <1>1, <1>2 DEF Running, Lists
<1> QED BY <1>1, <1>3, <1>4

\* A repair file has the right packets, in order.
LEMMA FilesAreAlwaysRight ==
  ASSUME Ready, Running(thread, queue, redis, file), NEW b \in DOMAIN file
  PROVE  \A i \in DOMAIN file[b] :
           file[b][i] = <<b * EcwOf[stripe] + ((i - 1) % EcwOf[stripe]), (i - 1) \div EcwOf[stripe]>>
<1>1. PICK t \in tasks : t.type = "persist" /\ b = t.blk
  BY DEF Running, Files
<1>2. file[b] \in Seq(Packet) /\ \A i \in 1 .. Len(file[b]) : file[b][i] = PacketOf(b, i)
  BY <1>1 DEF Running, Files
<1>3. DOMAIN file[b] = 1 .. Len(file[b])
  BY <1>2, LenProperties
<1> QED BY <1>2, <1>3 DEF PacketOf

\* When the threads have been joined they have handled all packets of their vertices.
LEMMA AllHandled ==
  ASSUME Ready, Running(thread, queue, redis, file), Joined, NEW t \in tasks
  PROVE  /\ thread[t].pkt = PktNum /\ thread[t].pos = 1
         /\ \A v : Passed(thread[t], v) = PktNum /\ Given(t, thread[t], v) = PktNum
<1>1. InRound(thread[t]) /\ ~ (thread[t].pkt < PktNum)
  BY DEF Running, Threads, ThreadInv, Joined, ThreadDone, HasRounds
<1>2. \A v : thread[t].pkt = PktNum /\ Passed(thread[t], v) = PktNum
  BY <1>1, PassedBound
<1>3. thread[t].pkt = PktNum /\ thread[t].pos = 1
  BY <1>1, <1>2 DEF InRound
<1> QED BY <1>2, <1>3 DEF Given

\* Then the files are complete, and the queues and lists are empty.
LEMMA JoinedIsRepaired ==
  ASSUME Ready, Running(thread, queue, redis, file), Joined
  PROVE  /\ DOMAIN file = FailedOf[stripe]
         /\ \A b \in DOMAIN file : Len(file[b]) = PktNum * EcwOf[stripe]
         /\ \A k \in DOMAIN queue : queue[k] = <<>>
         /\ \A k \in DOMAIN redis : redis[k] = <<>>
<1>1. DOMAIN file = {t.blk : t \in {u \in tasks : u.type = "persist"}}
  BY DEF Running, Files
<1>2. ASSUME NEW b \in DOMAIN file PROVE Len(file[b]) = PktNum * EcwOf[stripe]
  <2>1. PICK t \in tasks : t.type = "persist" /\ b = t.blk
    BY <1>1
  <2>2. Len(file[b]) = thread[t].pkt * EcwOf[stripe] + thread[t].pos - 1
    BY <2>1 DEF Running, Files
  <2>3. EcwOf[stripe] \in Nat
    BY <2>1, PersistIs
  <2>4. thread[t].pkt = PktNum /\ thread[t].pos = 1
    BY AllHandled
  <2>5. PktNum * EcwOf[stripe] \in Nat
    BY <2>3, PktNumAssumption
  <2> QED BY <2>2, <2>4, <2>5
<1>3. ASSUME NEW k \in DOMAIN queue PROVE queue[k] = <<>>
  <2>0. PICK t \in tasks, u \in tasks : \E q \in Pops(t) \cap Pushes(u) :
          queue[k] = Packets(q[2], Passed(thread[t], q[2]), Given(u, thread[u], q[2]))
    BY QueuesAre
  <2>1. PICK q \in Pops(t) \cap Pushes(u) :
          queue[k] = Packets(q[2], Passed(thread[t], q[2]), Given(u, thread[u], q[2]))
    BY <2>0
  <2>2. queue[k] = Packets(q[2], PktNum, PktNum)
    BY <2>1, AllHandled
  <2> QED BY <2>2, NoPackets, PktNumAssumption
<1>4. ASSUME NEW k \in DOMAIN redis PROVE redis[k] = <<>>
  <2>1. PICK s \in tasks, r \in tasks, v \in Int, w \in Nat :
           /\ Passed(thread[r], v) <= w /\ w <= Passed(thread[s], v)
           /\ redis[k] = Packets(v, Passed(thread[r], v), w)
    BY RedisIs
  <2>2. w = PktNum /\ redis[k] = Packets(v, PktNum, PktNum)
    BY <2>1, AllHandled, PktNumAssumption
  <2> QED BY <2>2, NoPackets, PktNumAssumption
<1> QED BY <1>1, <1>2, <1>3, <1>4, EveryBlock

\* Whatever the order in which the threads of a stripe run and the time at which their commands
\* reach the redis of the receivers: a repair file never has a wrong packet or one in a wrong
\* place, and when the threads have been joined every failed block is complete and no queue
\* and no list has anything left.  It holds for the stripes of ThreadsAssumption only, which the
\* code does not see to: of the others QueuesArePaired and AllPersisted state what goes wrong.
THEOREM BlocksRepaired == PipeSpec => []FilesAreRepaired
<1>1. ASSUME PipeInv PROVE FilesAreRepaired
  <2>1. running => Ready /\ Running(thread, queue, redis, file)
    BY <1>1 DEF PipeInv, Ready
  <2>2. FilesAreRight
    BY <2>1, FilesAreAlwaysRight DEF FilesAreRight
  <2>3. JoinedMeansRepaired
    BY <2>1, JoinedIsRepaired DEF JoinedMeansRepaired, Joined
  <2> QED BY <2>2, <2>3 DEF FilesAreRepaired
<1> QED BY <1>1, PipeInvariance, PTL

----------------------------------------------------------------------------
(* How many commands a thread appends *)

\* A reply changes neither the position of a thread nor what it has appended.
LEMMA ReplyIs ==
  ASSUME NEW t, NEW th, IsThread(th), GetReply(t, th)
  PROVE  \E x : /\ thread' = [thread EXCEPT ![t] = x]
                /\ x.round = th.round /\ x.pkt = th.pkt /\ x.pos = th.pos /\ x.count = th.count
<1> DEFINE n == Head(th.replylist)
           x == WroteTo(th, n)
           y == Answered(th)
<1>1. thread' = [thread EXCEPT ![t] = x] \/ thread' = [thread EXCEPT ![t] = y]
  BY DEF GetReply, WroteTo, Answered
<1>2. x = WroteTo(th, n) /\ y = Answered(th)
  OBVIOUS
<1> HIDE DEF n, x, y
<1>3. x.round = th.round /\ x.pkt = th.pkt /\ x.pos = th.pos /\ x.count = th.count
  BY <1>2, WrittenIs
<1>4. y.round = th.round /\ y.pkt = th.pkt /\ y.pos = th.pos /\ y.count = th.count
  BY <1>2, AnsweredIs
<1> QED BY <1>1, <1>3, <1>4

\* A thread that has handled its current vertex, and appended n commands.
HasHandled(t, x, n) ==
  /\ HasRounds(t) /\ x.round = RoundOf(t)
  /\ x.pkt = Advanced(t).pkt /\ x.pos = Advanced(t).pos /\ x.count = thread[t].count + n

\* The nodes that take part are finitely many.
LEMMA NodesFinite ==
  ASSUME Ready
  PROVE  IsFiniteSet(TaskNodes) /\ Cardinality(TaskNodes) \in Nat
<1>1. IsFiniteSet(tasks)
  BY ReadyIs, GeneratedFinite DEF All
<1> DEFINE f == [u \in tasks |-> u.node]
<1>2. f \in Surjection(tasks, TaskNodes)
  BY DEF Surjection, TaskNodes
<1> HIDE DEF f
<1>3. IsFiniteSet(TaskNodes)
  BY <1>1, <1>2, FS_Surjection
<1> QED BY <1>3, FS_CardinalityType

\* A node receives only for a task of its own.
LEMMA ReceiversBound ==
  ASSUME Ready, NEW t \in tasks, t.type = "send", NEW v \in t.list
  PROVE  /\ IsFiniteSet(TaskNodes) /\ Cardinality(TaskNodes) \in Nat
         /\ Cardinality(t.sendto[v]) \in 0 .. Cardinality(TaskNodes)
<1>1. IsFiniteSet(TaskNodes) /\ Cardinality(TaskNodes) \in Nat
  BY NodesFinite
<1>2. t.sendto[v] \subseteq TaskNodes
  <2>1. ASSUME NEW n \in t.sendto[v] PROVE n \in TaskNodes
    <3>1. Sends(t, v, n)
      BY DEF Sends
    <3>2. \E r \in tasks : r.type = "recv" /\ r.node = n /\ v \in r.list
      BY <3>1, SendsAndReceives
    <3> QED BY <3>2 DEF TaskNodes
  <2> QED BY <2>1
<1>3. IsFiniteSet(t.sendto[v])
  BY SendIs
<1>4. Cardinality(t.sendto[v]) <= Cardinality(TaskNodes)
  BY <1>1, <1>2, FS_Subset
<1> QED BY <1>1, <1>3, <1>4, FS_CardinalityType

\* A step of a thread handles a vertex and appends to at most all nodes, or reads a reply.
LEMMA StepAppends ==
  ASSUME Ready, Running(thread, queue, redis, file), NEW t \in tasks,
         Read(t) \/ Compute(t) \/ Send(t) \/ DrainReplies(t) \/ Recv(t) \/ Persist(t),
         thread[t].count \in Nat, Cardinality(TaskNodes) \in Nat
  PROVE  \E x : /\ thread' = [thread EXCEPT ![t] = x]
                /\ \/ \E n \in 0 .. Cardinality(TaskNodes) : HasHandled(t, x, n)
                   \/ /\ x.round = RoundOf(t) /\ x.pkt = thread[t].pkt /\ x.pos = thread[t].pos
                      /\ x.count = thread[t].count
<1>1. Threads(thread)
  BY DEF Running
<1>2. IsThread(thread[t]) /\ thread[t].round = RoundOf(t)
  BY <1>1 DEF Threads, ThreadInv
<1> DEFINE adv == Advanced(t)
<1>3. HasRounds(t) => /\ IsThread(adv) /\ adv.round = RoundOf(t) /\ adv.count = thread[t].count
  BY <1>1, StepIs
<1>4. CASE Read(t) \/ Recv(t) \/ Persist(t)
  <2>1. thread' = [thread EXCEPT ![t] = adv] /\ HasRounds(t)
    BY <1>4 DEF Read, Recv, Persist
  <2>2. thread[t].count + 0 = thread[t].count /\ 0 \in 0 .. Cardinality(TaskNodes)
    OBVIOUS
  <2> HIDE DEF adv
  <2>3. HasHandled(t, adv, 0)
    BY <1>3, <2>1, <2>2 DEF HasHandled, adv
  <2> QED BY <2>1, <2>2, <2>3
<1>5. CASE Compute(t)
  <2>1. HasRounds(t) /\ \E got : thread' = [thread EXCEPT ![t] = [adv EXCEPT !.got = got]]
    BY <1>5 DEF Compute
  <2>2. PICK got : thread' = [thread EXCEPT ![t] = [adv EXCEPT !.got = got]]
    BY <2>1
  <2> DEFINE x == [adv EXCEPT !.got = got]
  <2>3. x.round = adv.round /\ x.pkt = adv.pkt /\ x.pos = adv.pos /\ x.count = adv.count
    <3>1. IsThread(adv)
      BY <1>3, <2>1
    <3> HIDE DEF adv
    <3> QED BY <3>1, GotIs
  <2>4. thread[t].count + 0 = thread[t].count /\ 0 \in 0 .. Cardinality(TaskNodes)
    OBVIOUS
  <2> HIDE DEF x
  <2>5. HasHandled(t, x, 0)
    BY <1>3, <2>1, <2>3, <2>4 DEF HasHandled
  <2> QED BY <2>2, <2>4, <2>5 DEF x
<1>6. CASE Send(t)
  <2> DEFINE n == Cardinality(t.sendto[Current(t)])
  <2>1. HasRounds(t) /\ t.type = "send"
    BY <1>6 DEF Send
  <2>2. PICK th :
          /\ IsThread(th) /\ th.round = RoundOf(t) /\ th.pkt = adv.pkt /\ th.pos = adv.pos
          /\ th.count = thread[t].count + n
          /\ IF th.count > Window THEN GetReply(t, th)
             ELSE thread' = [thread EXCEPT ![t] = th] /\ redis' = redis
    BY <1>1, <1>6, SentIs
  <2>3. n \in 0 .. Cardinality(TaskNodes)
    <3>1. Current(t) \in t.list
      BY <1>1, <2>1, StepIs DEF Handled
    <3> QED BY <2>1, <3>1, ReceiversBound
  <2> HIDE DEF adv, n
  <2>4. \E x : /\ thread' = [thread EXCEPT ![t] = x]
               /\ x.round = th.round /\ x.pkt = th.pkt /\ x.pos = th.pos /\ x.count = th.count
    <3>1. CASE th.count > Window
      BY <2>2, <3>1, ReplyIs
    <3>2. CASE ~ (th.count > Window)
      BY <2>2, <3>2
    <3> QED BY <3>1, <3>2
  <2>5. PICK x : /\ thread' = [thread EXCEPT ![t] = x]
                 /\ x.round = th.round /\ x.pkt = th.pkt /\ x.pos = th.pos /\ x.count = th.count
    BY <2>4
  <2>6. HasHandled(t, x, n)
    BY <2>1, <2>2, <2>5 DEF HasHandled, adv
  <2> QED BY <2>3, <2>5, <2>6
<1>7. CASE DrainReplies(t)
  <2>1. GetReply(t, thread[t])
    BY <1>7 DEF DrainReplies
  <2>2. \E x : /\ thread' = [thread EXCEPT ![t] = x]
               /\ x.round = thread[t].round /\ x.pkt = thread[t].pkt /\ x.pos = thread[t].pos
               /\ x.count = thread[t].count
    BY <1>2, <2>1, ReplyIs
  <2> QED BY <1>2, <2>2
<1> QED BY <1>4, <1>5, <1>6, <1>7

\* A thread has appended at most to all nodes for every packet that it has handled.
PassedSoFar(th) == th.pkt * Len(th.round) + th.pos - 1
Appends(ths) ==
  \A t \in tasks : /\ ths[t].count \in Nat
                   /\ ths[t].count <= PassedSoFar(ths[t]) * Cardinality(TaskNodes)
CountInv == running => Appends(thread)

\* The position of a thread in all its rounds grows by one.
LEMMA OneMore ==
  ASSUME NEW x \in Nat, NEW w \in Nat, NEW k \in Nat, NEW p \in 1 .. w
  PROVE  /\ x * w + p - 1 \in Nat
         /\ (x + 1) * w + 1 - 1 = x * w + w - 1 + 1
         /\ (x * w + p - 1 + 1) * k = (x * w + p - 1) * k + k
         /\ (x * w + p - 1) * k \in Nat
<1>1. x * w \in Nat /\ (x + 1) * w = x * w + w
  OBVIOUS
<1>2. x * w + p - 1 \in Nat
  BY <1>1
<1> DEFINE y == x * w + p - 1
<1> HIDE DEF y
<1>3. y \in Nat
  BY <1>2 DEF y
<1>4. y * k \in Nat /\ (y + 1) * k = y * k + k
  BY <1>3
<1> QED BY <1>1, <1>2, <1>4 DEF y

\* A step of a thread keeps this bound.
LEMMA AppendsNext ==
  ASSUME Ready, Running(thread, queue, redis, file), Appends(thread), NEW t \in tasks,
         Read(t) \/ Compute(t) \/ Send(t) \/ DrainReplies(t) \/ Recv(t) \/ Persist(t)
  PROVE  Appends(thread')
<1> DEFINE K == Cardinality(TaskNodes)
           th == thread[t]
           w == Len(RoundOf(t))
<1>1. K \in Nat
  BY NodesFinite
<1>2. Threads(thread) /\ DOMAIN thread = tasks
  BY DEF Running, Threads
<1>3. th.round = RoundOf(t) /\ th.pkt \in Nat /\ th.pos \in 1 .. w /\ w \in Nat
  <2>1. th.round = RoundOf(t) /\ InRound(th)
    BY <1>2 DEF Threads, ThreadInv
  <2>2. w \in Nat
    <3>1. RoundOf(t) \in Seq(Int)
      BY RoundIs DEF IsRound
    <3> QED BY <3>1, LenProperties
  <2> QED BY <2>1, <2>2, PktNumAssumption DEF InRound
<1>4. th.count \in Nat /\ th.count <= (th.pkt * w + th.pos - 1) * K
  BY <1>3 DEF Appends, PassedSoFar
<1>5. PICK x : /\ thread' = [thread EXCEPT ![t] = x]
               /\ \/ \E n \in 0 .. K : HasHandled(t, x, n)
                  \/ /\ x.round = RoundOf(t) /\ x.pkt = th.pkt /\ x.pos = th.pos
                     /\ x.count = th.count
  BY <1>1, <1>4, StepAppends
<1>6. x.count \in Nat /\ x.count <= PassedSoFar(x) * K
  <2>1. CASE /\ x.round = RoundOf(t) /\ x.pkt = th.pkt /\ x.pos = th.pos
             /\ x.count = th.count
    BY <1>4, <2>1 DEF PassedSoFar
  <2>2. ASSUME NEW n \in 0 .. K, HasHandled(t, x, n)
        PROVE  x.count \in Nat /\ x.count <= PassedSoFar(x) * K
    <3>1. /\ HasRounds(t) /\ x.round = RoundOf(t) /\ x.count = th.count + n
          /\ x.pkt = (IF IsLast(t) THEN th.pkt + 1 ELSE th.pkt)
          /\ x.pos = (IF IsLast(t) THEN 1 ELSE th.pos + 1)
      BY <1>2, <2>2, StepIs DEF HasHandled
    <3>2. IsLast(t) <=> th.pos = w
      BY <1>3 DEF IsLast
    <3> DEFINE a == th.pkt
               b == th.pos
               y == a * w + b - 1
    <3>3. PassedSoFar(x) = x.pkt * w + x.pos - 1
      BY <3>1 DEF PassedSoFar
    <3> HIDE DEF w, th, K, a, b
    <3>4. a \in Nat /\ b \in 1 .. w /\ w \in Nat /\ K \in Nat
      BY <1>1, <1>3 DEF a, b
    <3>5. /\ y \in Nat /\ (a + 1) * w + 1 - 1 = a * w + w - 1 + 1
          /\ (y + 1) * K = y * K + K /\ y * K \in Nat
      BY <3>4, OneMore
    <3>6. PassedSoFar(x) = y + 1
      <4>1. CASE IsLast(t)
        <5>1. x.pkt = a + 1 /\ x.pos = 1 /\ b = w
          BY <3>1, <3>2, <4>1 DEF a, b
        <5>2. PassedSoFar(x) = (a + 1) * w + 1 - 1
          BY <3>3, <5>1
        <5>3. y + 1 = a * w + w - 1 + 1
          BY <5>1
        <5> QED BY <3>5, <5>2, <5>3
      <4>2. CASE ~ IsLast(t)
        <5>1. x.pkt = a /\ x.pos = b + 1
          BY <3>1, <4>2 DEF a, b
        <5>2. a * w \in Nat
          BY <3>4
        <5> DEFINE c == a * w
        <5>3. PassedSoFar(x) = c + (b + 1) - 1 /\ y = c + b - 1 /\ c \in Nat
          BY <3>3, <5>1, <5>2
        <5> HIDE DEF c, y
        <5> QED BY <3>4, <5>3
      <4> QED BY <4>1, <4>2
    <3>7. th.count <= y * K
      BY <1>4 DEF a, b
    <3> HIDE DEF y
    <3>8. x.count \in Nat /\ x.count <= y * K + K
      <4> DEFINE z == y * K
      <4>1. z \in Nat /\ th.count \in Nat /\ th.count <= z /\ n \in 0 .. K /\ x.count = th.count + n
        BY <1>4, <3>1, <3>5, <3>7, <2>2
      <4> HIDE DEF z
      <4>2. x.count \in Nat /\ x.count <= z + K
        BY <3>4, <4>1
      <4> QED BY <4>2 DEF z
    <3> QED BY <3>5, <3>6, <3>8
  <2> QED BY <1>5, <2>1, <2>2
<1>7. ASSUME NEW u \in tasks
      PROVE  thread'[u].count \in Nat /\ thread'[u].count <= PassedSoFar(thread'[u]) * K
  <2>1. CASE u = t
    BY <1>2, <1>5, <1>6, <2>1
  <2>2. CASE u # t
    <3>1. thread'[u] = thread[u]
      BY <1>2, <1>5, <2>2
    <3> QED BY <3>1 DEF Appends
  <2> QED BY <2>1, <2>2
<1> HIDE DEF K
<1> QED BY <1>7 DEF Appends, K

\* The bound is one on the threads and the nodes of their tasks.
LEMMA AppendsStays ==
  ASSUME Appends(thread'), UNCHANGED vars
  PROVE  Appends(thread)'
BY DEF Appends, PassedSoFar, TaskNodes, vars

\* It is kept by every step.
LEMMA CountNext ==
  ASSUME PipeInv, CountInv, [PipeNext]_allVars
  PROVE  CountInv'
<1>1. CASE Generate
  BY <1>1 DEF Generate, CountInv, pipeVars
<1>2. CASE StartThreads
  <2>1. Ready /\ UNCHANGED vars /\ \A t \in tasks : thread'[t] = NewThread(t)
    BY <1>2 DEF StartThreads, PipeInv, Ready
  <2>2. ASSUME NEW t \in tasks
        PROVE  /\ thread'[t].count \in Nat
               /\ thread'[t].count <= PassedSoFar(thread'[t]) * Cardinality(TaskNodes)
    <3>1. thread'[t].count = 0 /\ thread'[t].pkt = 0 /\ thread'[t].pos = 1
      BY <2>1, NewThreadIs
    <3>2. Len(thread'[t].round) \in Nat
      <4>1. thread'[t].round = RoundOf(t)
        BY <2>1, NewThreadIs
      <4>2. RoundOf(t) \in Seq(Int)
        BY <2>1, RoundIs DEF IsRound
      <4> QED BY <4>1, <4>2, LenProperties
    <3>3. PassedSoFar(thread'[t]) = 0
      BY <3>1, <3>2 DEF PassedSoFar
    <3>4. Cardinality(TaskNodes) \in Nat
      BY <2>1, NodesFinite
    <3> QED BY <3>1, <3>3, <3>4
  <2>3. Appends(thread')
    BY <2>2 DEF Appends
  <2> QED BY <2>1, <2>3, AppendsStays DEF CountInv
<1>3. ASSUME NEW t \in tasks, Step(t) PROVE CountInv'
  <2>1. /\ Ready /\ Running(thread, queue, redis, file) /\ UNCHANGED vars /\ Appends(thread)
        /\ Read(t) \/ Compute(t) \/ Send(t) \/ DrainReplies(t) \/ Recv(t) \/ Persist(t)
    BY <1>3 DEF PipeInv, CountInv, Step, Ready
  <2>2. Appends(thread')
    BY <2>1, AppendsNext
  <2> QED BY <2>1, <2>2, AppendsStays DEF CountInv
<1>4. CASE UNCHANGED allVars
  <2>1. UNCHANGED vars /\ UNCHANGED pipeVars
    BY <1>4 DEF allVars
  <2>2. running => Appends(thread')
    BY <2>1 DEF CountInv, pipeVars
  <2> QED BY <2>1, <2>2, AppendsStays DEF CountInv, pipeVars
<1> QED BY <1>1, <1>2, <1>3, <1>4 DEF PipeNext

\* The products of the bound grow with their factors.
LEMMA BoundGrows ==
  ASSUME NEW x \in Nat, NEW p \in Nat, NEW w \in Nat, NEW k \in Nat, NEW n \in Nat, NEW m \in Nat,
         p \in 1 .. w, w <= n, x <= m, x = m => p = 1
  PROVE  (x * w + p - 1) * k <= m * n * k
<1>1. x * w + p - 1 <= m * w
  <2>1. CASE x = m
    <3>1. m * w \in Nat
      OBVIOUS
    <3> QED BY <2>1, <3>1
  <2>2. CASE x < m
    <3>1. PICK d \in Nat : m = x + 1 + d
      <4>1. m - x - 1 \in Nat /\ m = x + 1 + (m - x - 1)
        BY <2>2
      <4> QED BY <4>1
    <3>2. m * w = x * w + w + d * w
      BY <3>1
    <3>3. x * w \in Nat /\ d * w \in Nat
      OBVIOUS
    <3> DEFINE a == x * w
               b == d * w
    <3>4. m * w = a + w + b /\ a \in Nat /\ b \in Nat
      BY <3>2, <3>3
    <3> HIDE DEF a, b
    <3>5. a + p - 1 <= m * w
      BY <3>4
    <3> QED BY <3>5 DEF a
  <2> QED BY <2>1, <2>2
<1>2. m * w <= m * n
  <2>1. PICK d \in Nat : n = w + d
    <3>1. n - w \in Nat /\ n = w + (n - w)
      OBVIOUS
    <3> QED BY <3>1
  <2>2. m * n = m * w + m * d /\ m * w \in Nat /\ m * d \in Nat
    BY <2>1
  <2> QED BY <2>2
<1> DEFINE y == x * w + p - 1
           z == m * n
<1>3. y \in Nat /\ z \in Nat /\ y <= z
  <2>1. x * w \in Nat /\ m * w \in Nat /\ m * n \in Nat
    OBVIOUS
  <2> QED BY <1>1, <1>2, <2>1
<1> HIDE DEF y, z
<1>4. y * k <= z * k
  <2>1. PICK d \in Nat : z = y + d
    <3>1. z - y \in Nat /\ z = y + (z - y)
      BY <1>3
    <3> QED BY <3>1
  <2>2. z * k = y * k + d * k /\ y * k \in Nat /\ d * k \in Nat
    BY <1>3, <2>1
  <2> QED BY <2>2
<1> QED BY <1>4 DEF y, z

\* A thread stays in its rounds and appends no more than this.
LEMMA CountIsBounded ==
  ASSUME Ready, Running(thread, queue, redis, file), Appends(thread), NEW t \in tasks
  PROVE  /\ thread[t].pkt \in 0 .. PktNum /\ thread[t].pos \in 1 .. Len(thread[t].round)
         /\ thread[t].count \in 0 .. PktNum * Cardinality(Dag.nodes) * Cardinality(TaskNodes)
<1> DEFINE x == thread[t].pkt
           p == thread[t].pos
           w == Len(RoundOf(t))
           k == Cardinality(TaskNodes)
           n == Cardinality(Dag.nodes)
<1>1. /\ thread[t].round = RoundOf(t) /\ x \in 0 .. PktNum /\ p \in 1 .. w
      /\ x = PktNum => p = 1
  BY DEF Running, Threads, ThreadInv, InRound
<1>2. w = Cardinality(Handled(t))
  BY RoundIs
<1>3. IsFiniteSet(Dag.nodes) /\ Handled(t) \subseteq Dag.nodes
  BY ReadyIs, StripeFacts, HandledIs
<1>4. w \in Nat /\ n \in Nat /\ w <= n
  BY <1>2, <1>3, FS_Subset, FS_CardinalityType
<1>5. k \in Nat
  BY NodesFinite
<1>6. thread[t].count \in Nat /\ thread[t].count <= (x * w + p - 1) * k
  BY <1>1 DEF Appends, PassedSoFar
<1>7. x \in Nat /\ p \in Nat /\ x <= PktNum /\ PktNum \in Nat
  BY <1>1, <1>4, PktNumAssumption
<1> HIDE DEF x, p, w, k, n
<1>8. (x * w + p - 1) * k <= PktNum * n * k
  BY <1>1, <1>4, <1>5, <1>7, BoundGrows
<1> DEFINE a == (x * w + p - 1) * k
           b == PktNum * n * k
<1>9. a \in Int /\ b \in Int
  BY <1>1, <1>4, <1>5, <1>7
<1>10. thread[t].count \in Nat /\ thread[t].count <= a /\ a <= b
  BY <1>6, <1>8
<1> HIDE DEF a, b
<1>11. thread[t].count \in 0 .. b
  BY <1>9, <1>10
<1> QED BY <1>1, <1>11 DEF b, x, p, w, n, k

\* The packets that wait are at most all packets of a vertex.
LEMMA WaitingAreFew ==
  ASSUME Ready, Running(thread, queue, redis, file)
  PROVE  /\ \A k \in DOMAIN queue : Len(queue[k]) <= PktNum
         /\ \A k \in DOMAIN redis : Len(redis[k]) <= PktNum
<1>1. \A t \in tasks : InRound(thread[t])
  BY DEF Running, Threads, ThreadInv
<1>2. \A t \in tasks : \A v : Passed(thread[t], v) \in 0 .. PktNum /\ Given(t, thread[t], v) \in 0 .. PktNum
  BY <1>1, PassedBound DEF Given
<1>3. ASSUME NEW k \in DOMAIN queue PROVE Len(queue[k]) <= PktNum
  <2>1. PICK t \in tasks, u \in tasks : \E q \in Pops(t) \cap Pushes(u) :
           /\ q[2] \in Int /\ Passed(thread[t], q[2]) <= Given(u, thread[u], q[2])
           /\ queue[k] = Packets(q[2], Passed(thread[t], q[2]), Given(u, thread[u], q[2]))
    BY <1>3, QueuesAre
  <2>2. PICK v \in Int : /\ Passed(thread[t], v) <= Given(u, thread[u], v)
                        /\ queue[k] = Packets(v, Passed(thread[t], v), Given(u, thread[u], v))
    BY <2>1
  <2> DEFINE a == Passed(thread[t], v)
             b == Given(u, thread[u], v)
  <2>3. a \in Nat /\ b \in Nat /\ a <= b /\ b <= PktNum /\ queue[k] = Packets(v, a, b)
    BY <1>2, <2>2, PktNumAssumption
  <2> HIDE DEF a, b
  <2>4. Len(queue[k]) = b - a
    BY <2>3, PacketsAre
  <2> QED BY <2>3, <2>4, PktNumAssumption
<1>4. ASSUME NEW k \in DOMAIN redis PROVE Len(redis[k]) <= PktNum
  <2>1. PICK s \in tasks, r \in tasks, v \in Int, w \in Nat :
           /\ Passed(thread[r], v) <= w /\ w <= Passed(thread[s], v)
           /\ redis[k] = Packets(v, Passed(thread[r], v), w)
    BY <1>4, RedisIs
  <2> DEFINE a == Passed(thread[r], v)
  <2>2. a \in Nat /\ a <= w /\ w <= PktNum /\ redis[k] = Packets(v, a, w)
    BY <1>2, <2>1, PktNumAssumption
  <2> HIDE DEF a
  <2>3. Len(redis[k]) = w - a
    BY <2>2, PacketsAre
  <2> QED BY <2>2, <2>3, PktNumAssumption
<1> QED BY <1>3, <1>4

\* The threads stay in their rounds, they append no more commands than there are packets and
\* receivers, and no queue or list ever has more than the packets of a block, for the stripes of
\* ThreadsAssumption.
THEOREM PipeTypesHold == PipeSpec => []PipeTypeOK
<1>1. PipeInit => CountInv
  BY DEF PipeInit, CountInv
<1>2. PipeInv /\ CountInv /\ [PipeNext]_allVars => CountInv'
  BY CountNext
<1>3. PipeInv /\ CountInv => PipeTypeOK
  <2>1. SUFFICES ASSUME PipeInv, CountInv, running
                 PROVE  PipeTypeOK
    BY DEF PipeTypeOK
  <2>2. Ready /\ Running(thread, queue, redis, file) /\ Appends(thread)
    BY <2>1 DEF PipeInv, CountInv, Ready
  <2>3. DOMAIN thread = tasks
    BY <2>2 DEF Running, Threads
  <2> QED BY <2>2, <2>3, CountIsBounded, WaitingAreFew DEF PipeTypeOK
<1> QED BY <1>1, <1>2, <1>3, PipeInvariance, PTL DEF PipeSpec
=============================================================================
