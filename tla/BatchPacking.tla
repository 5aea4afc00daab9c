---------------------------- MODULE BatchPacking ----------------------------
(***************************************************************************)
(* How ParallelSolution divides the stripes to repair into batches:        *)
(* genRepairBatchesForMultipleFailureNew ("new"), ...Random ("random"),    *)
(* ...NewFire ("fire") and ...NewFireNew ("fireNew").  The first two cut   *)
(* the stripes into runs of BatchSize.  The other two color every stripe   *)
(* on its own, put the heavy stripes first into the batch where they raise *)
(* the highest load least, and improve the result by simulated annealing.  *)
(* Then all color the stripes of one batch after the other and hand the    *)
(* batch over.                                                             *)
(*                                                                         *)
(* A coloring is known by its loads: how many sub-packets every node sends *)
(* and receives.  Which loads a coloring of a stripe may have is a         *)
(* constant here; ColoringLoad models how it is chosen.                    *)
(***************************************************************************)
EXTENDS Integers, Sequences, FiniteSets

CONSTANTS
  Stripes,    \* numbers of the stripes
  BatchSize,  \* _batch_size
  ClusterSize,\* _cluster_size
  HyperLoads, \* per stripe, the loads that a coloring with strategy 0 may have
  MultiLoads, \* per stripe, the same with strategy 1
  Generators, \* "new", "random", "fire", "fireNew"
  Methods,    \* the parameter method: 1, for "new" also 0
  Iterations  \* rounds of annealing: 50 per temperature in the code

Nodes == 0 .. ClusterSize - 1
Loads == [{"out", "in"} \X Nodes -> Nat]

ASSUME StripesAssumption == Stripes \subseteq Nat /\ IsFiniteSet(Stripes)
ASSUME BatchSizeAssumption == BatchSize \in Nat \ {0}
ASSUME ClusterAssumption == ClusterSize \in Nat \ {0}
ASSUME LoadsAssumption ==
  /\ HyperLoads \in [Stripes -> SUBSET Loads]
  /\ MultiLoads \in [Stripes -> SUBSET Loads]
ASSUME GeneratorsAssumption ==
  Generators \subseteq {"new", "random", "fire", "fireNew"}
ASSUME MethodsAssumption == Methods \subseteq {0, 1}
ASSUME IterationsAssumption == Iterations \in Nat

VARIABLES
  generator,
  method,
  repairing, \* _stripes_to_repair, as a set
  pc,        \* "probe", "pack", "anneal", "color" or "done"
  queue,     \* stripes_to_repair_vec
  probed,    \* stripe_dummy_loads
  next,      \* the position in queue of the stripe that is packed next
  batches,   \* balanced_batches; best_solution while annealing
  packed,    \* batch_node_loads
  current,   \* current_solution
  round,     \* rounds of annealing that are over
  batchid,   \* the batch that is being colored
  table,     \* loadtable
  colored,   \* _in and _out of its stripes that are colored
  emitted    \* the batches handed over, with their loads

vars == <<generator, method, repairing, pc, queue, probed, next, batches, packed,
          current, round, batchid, table, colored, emitted>>

----------------------------------------------------------------------------
(* Loads *)

Zero == [k \in {"out", "in"} \X Nodes |-> 0]

Plus(t, u) == [k \in {"out", "in"} \X Nodes |-> t[k] + u[k]]

\* The sum of a sequence of loads.
Total(loads) ==
  LET sum[i \in 0 .. Len(loads)] ==
        IF i = 0 THEN Zero ELSE Plus(sum[i - 1], loads[i])
  IN  sum[Len(loads)]

Peak(t, n) == IF t[<<"in", n>>] > t[<<"out", n>>] THEN t[<<"in", n>>] ELSE t[<<"out", n>>]
Bottleneck(t) ==
  LET peaks == {Peak(t, n) : n \in Nodes}
  IN  CHOOSE x \in peaks : \A y \in peaks : x >= y

\* The sum of the first k numbers of f.
SumOf(f, k) ==
  LET sum[i \in 0 .. k] == IF i = 0 THEN 0 ELSE sum[i - 1] + f[i]
  IN  sum[k]

\* The variance of the peaks, times the square of the number of nodes.
Variance(t) ==
  LET peak == [i \in 1 .. ClusterSize |-> Peak(t, i - 1)]
      sum == SumOf(peak, ClusterSize)
  IN  ClusterSize * SumOf([i \in DOMAIN peak |-> peak[i] * peak[i]], ClusterSize)
        - sum * sum

\* calculate_total_makespan
Energy(bs) ==
  SumOf([b \in DOMAIN bs |-> Bottleneck(Total([k \in DOMAIN bs[b] |-> probed[bs[b][k]]]))],
        Len(bs))

----------------------------------------------------------------------------
(* Stripes and batches *)

\* _num_batches
NumBatches == (Cardinality(repairing) + BatchSize - 1) \div BatchSize

\* The sequences of the stripes to repair, each once.
Orders ==
  {q \in [1 .. Cardinality(repairing) -> repairing] :
     /\ \A i, j \in DOMAIN q : q[i] = q[j] => i = j
     /\ \A s \in repairing : \E i \in DOMAIN q : q[i] = s}

IsFire == generator \in {"fire", "fireNew"}

Init ==
  /\ generator \in Generators
  /\ method \in Methods
  /\ method = 0 => generator = "new"
  /\ repairing \in SUBSET Stripes
  /\ pc = IF repairing = {} THEN "done" ELSE IF IsFire THEN "probe" ELSE "pack"
  /\ queue \in Orders
  /\ generator # "random" => \A i, j \in DOMAIN queue : i < j => queue[i] < queue[j]
  /\ probed = [s \in repairing |-> Zero]
  /\ next = 1
  /\ batches = [b \in 1 .. NumBatches |-> <<>>]
  /\ packed = [b \in 1 .. NumBatches |-> Zero]
  /\ current = <<>>
  /\ round = 0
  /\ batchid = 1
  /\ table = Zero
  /\ colored = <<>>
  /\ emitted = <<>>

\* The stripes with the loads of f, sorted by their highest load, heavy ones first;
\* std::sort leaves equal ones in any order.
HeavyFirst(f) ==
  {q \in Orders : \A i, j \in DOMAIN q :
     i < j => Bottleneck(f[q[i]]) >= Bottleneck(f[q[j]])}

\* Every stripe is colored once with an empty table.
Probe ==
  /\ pc = "probe"
  /\ probed' \in {f \in [repairing -> UNION {HyperLoads[s] : s \in repairing}] :
                    \A s \in repairing : f[s] \in HyperLoads[s]}
  /\ queue' \in HeavyFirst(probed')
  /\ pc' = "pack"
  /\ UNCHANGED <<generator, method, repairing, next, batches, packed, current,
                 round, batchid, table, colored, emitted>>

----------------------------------------------------------------------------
(* Packing *)

Open == {b \in 1 .. NumBatches : Len(batches[b]) < BatchSize}

\* Which batches the stripe s may get: where the highest load is least, and of
\* these the first or, in fireNew, one whose nodes have the most even load (a
\* tie of two variances is up to the rounding).
BatchesFor(s) ==
  LET with == [b \in Open |-> Plus(packed[b], probed[s])]
      light == {b \in Open :
                  \A c \in Open : Bottleneck(with[b]) <= Bottleneck(with[c])}
  IN  CASE generator = "fire" -> {b \in light : \A c \in light : b <= c}
        [] generator = "fireNew" ->
             {b \in light : \A c \in light : Variance(with[b]) <= Variance(with[c])}
        [] OTHER -> {(next - 1) \div BatchSize + 1}

Pack ==
  /\ pc = "pack"
  /\ next <= Len(queue)
  /\ \E b \in BatchesFor(queue[next]) :
       /\ batches' = [batches EXCEPT ![b] = Append(@, queue[next])]
       /\ packed' = [packed EXCEPT ![b] = Plus(@, probed[queue[next]])]
  /\ next' = next + 1
  /\ UNCHANGED <<generator, method, repairing, pc, queue, probed, current, round,
                 batchid, table, colored, emitted>>

\* Two batches are needed for annealing.
EndPacking ==
  /\ pc = "pack"
  /\ next > Len(queue)
  /\ pc' = IF IsFire /\ NumBatches > 1 THEN "anneal" ELSE "color"
  /\ current' = batches
  /\ UNCHANGED <<generator, method, repairing, queue, probed, next, batches, packed,
                 round, batchid, table, colored, emitted>>

----------------------------------------------------------------------------
(* Annealing *)

Places(bs) == {p \in (DOMAIN bs) \X (1 .. BatchSize) : p[2] <= Len(bs[p[1]])}

\* Slip: one of the two stripes overwrites the other.
Swapped_copied(bs, p, q) ==
  [b \in DOMAIN bs |->
     [k \in DOMAIN bs[b] |->
        IF <<b, k>> = p THEN bs[q[1]][q[2]] ELSE bs[b][k]]]

\* The batches after the stripes at the places p and q have been exchanged.
Swapped(bs, p, q) ==
  [b \in DOMAIN bs |->
     [k \in DOMAIN bs[b] |->
        IF <<b, k>> = p THEN bs[q[1]][q[2]]
        ELSE IF <<b, k>> = q THEN bs[p[1]][p[2]]
        ELSE bs[b][k]]]

\* Slip: the last solution that was accepted is taken for the best one.
Accept_best(bs) ==
  /\ current' = bs
  /\ batches' = bs

\* The best solution follows only when its energy is beaten.
Accept(bs) ==
  /\ current' = bs
  /\ batches' = IF /\ Energy(bs) < Energy(current)
                   /\ Energy(bs) < Energy(batches)
                THEN bs ELSE batches

\* A round: two stripes of different batches are exchanged.  A higher energy is
\* accepted by chance, an equal one always.
Anneal ==
  /\ pc = "anneal"
  /\ round < Iterations
  /\ round' = round + 1
  /\ \E p, q \in Places(current) :
       /\ p[1] < q[1]
       /\ LET neighbor == Swapped(current, p, q)
          IN  \/ Accept(neighbor)
              \/ /\ Energy(neighbor) > Energy(current)
                 /\ UNCHANGED <<current, batches>>
  /\ UNCHANGED <<generator, method, repairing, pc, queue, probed, next, packed,
                 batchid, table, colored, emitted>>

\* The temperature is below final_temp.
EndAnnealing ==
  /\ pc = "anneal"
  /\ round = Iterations
  /\ pc' = "color"
  /\ UNCHANGED <<generator, method, repairing, queue, probed, next, batches, packed,
                 current, round, batchid, table, colored, emitted>>

----------------------------------------------------------------------------
(* Coloring and handing over *)

\* Slip: in fire the table of the second coloring is kept with the first one.
TableAfter_multi(kept, hyper, multi) ==
  IF generator = "new" /\ method = 1 THEN multi ELSE Plus(table, multi)

\* In new with method 1 the table is emptied between the two colorings and
\* keeps the second.
TableAfter(kept, hyper, multi) ==
  IF generator = "new" /\ method = 1 THEN multi ELSE Plus(table, kept)

\* Whether the second coloring of a stripe is used.  fire compares the tables
\* they lead to, and the stripe's own load only if these are equally high.
UseMulti(hyper, multi) ==
  CASE generator = "random" -> TRUE
    [] generator = "new" -> method = 1 /\ Bottleneck(multi) <= Bottleneck(hyper)
    [] OTHER ->
         LET h == Bottleneck(Plus(table, hyper))
             m == Bottleneck(Plus(table, multi))
         IN  m < h \/ (m = h /\ Bottleneck(multi) <= Bottleneck(hyper))

Color ==
  /\ pc = "color"
  /\ batchid <= NumBatches
  /\ Len(colored) < Len(batches[batchid])
  /\ LET s == batches[batchid][Len(colored) + 1]
     IN  \E hyper \in HyperLoads[s], multi \in MultiLoads[s] :
           LET kept == IF UseMulti(hyper, multi) THEN multi ELSE hyper
           IN  /\ table' = TableAfter(kept, hyper, multi)
               /\ colored' = Append(colored, kept)
  /\ UNCHANGED <<generator, method, repairing, pc, queue, probed, next, batches,
                 packed, current, round, batchid, emitted>>

\* Slip: the stripes of the list are handed over, not those of the batch.
HandOver_byPosition ==
  /\ pc = "color"
  /\ batchid <= NumBatches
  /\ Len(colored) = Len(batches[batchid])
  /\ emitted' = Append(emitted,
                  [stripes |-> SubSeq(queue, batchid, batchid + Len(colored) - 1),
                   load |-> Bottleneck(Total(colored))])
  /\ batchid' = batchid + 1
  /\ colored' = <<>>
  /\ table' = Zero
  /\ UNCHANGED <<generator, method, repairing, pc, queue, probed, next, batches,
                 packed, current, round>>

\* RepairBatch, evaluateBatch and the push to _batch_queue or _batch_list.
HandOver ==
  /\ pc = "color"
  /\ batchid <= NumBatches
  /\ Len(colored) = Len(batches[batchid])
  /\ emitted' = Append(emitted, [stripes |-> batches[batchid],
                                 load |-> Bottleneck(Total(colored))])
  /\ batchid' = batchid + 1
  /\ colored' = <<>>
  /\ table' = Zero
  /\ UNCHANGED <<generator, method, repairing, pc, queue, probed, next, batches,
                 packed, current, round>>

\* _finish_gen_batches
Finish ==
  /\ pc = "color"
  /\ batchid > NumBatches
  /\ pc' = "done"
  /\ UNCHANGED <<generator, method, repairing, queue, probed, next, batches, packed,
                 current, round, batchid, table, colored, emitted>>

Next ==
  \/ Probe \/ Pack \/ EndPacking \/ Anneal \/ EndAnnealing
  \/ Color \/ HandOver \/ Finish

\* Its safety part.
SafeSpec == Init /\ [][Next]_vars

Spec == SafeSpec /\ WF_vars(Next)

----------------------------------------------------------------------------
(* Properties *)

Arrangements == [1 .. NumBatches -> Seq(repairing)]

\* The types of the state.
TypeOK ==
  /\ generator \in {"new", "random", "fire", "fireNew"}
  /\ method \in {0, 1}
  /\ repairing \in SUBSET Stripes
  /\ pc \in {"probe", "pack", "anneal", "color", "done"}
  /\ queue \in Orders
  /\ probed \in [repairing -> Loads]
  /\ next \in 1 .. Cardinality(repairing) + 1
  /\ batches \in Arrangements
  /\ packed \in [1 .. NumBatches -> Loads]
  /\ pc \in {"anneal", "color"} => current \in Arrangements
  /\ round \in 0 .. Iterations
  /\ batchid \in 1 .. NumBatches + 1
  /\ table \in Loads
  /\ colored \in Seq(Loads)

\* The stripes of S are in the batches bs, each at one place, and no others are.
Arranged(bs, S) ==
  /\ \A b \in DOMAIN bs : \A k \in DOMAIN bs[b] : bs[b][k] \in S
  /\ \A s \in S : \E b \in DOMAIN bs : \E k \in DOMAIN bs[b] : bs[b][k] = s
  /\ \A b, c \in DOMAIN bs : \A k \in DOMAIN bs[b], l \in DOMAIN bs[c] :
       bs[b][k] = bs[c][l] => b = c /\ k = l

\* While the generator packs and anneals, and whatever order it tries, no stripe
\* is lost and none is in two batches.
EveryStripeOnce ==
  /\ Arranged(batches, {queue[i] : i \in 1 .. next - 1})
  /\ pc = "anneal" => Arranged(current, repairing)
  /\ pc \in {"anneal", "color", "done"} => Arranged(batches, repairing)

\* Packing always finds a batch that has room: best_batch_idx is never -1, and
\* the runs of BatchSize end within the last batch.
RoomForAll ==
  pc = "pack" /\ next <= Len(queue) =>
    LET found == BatchesFor(queue[next])
    IN  found # {} /\ found \subseteq Open

\* No batch is empty when annealing draws from it or it is handed over, and none
\* has more than BatchSize stripes.
BatchesFilled ==
  pc \in {"anneal", "color", "done"} =>
    \A b \in 1 .. NumBatches :
      /\ Len(batches[b]) \in 1 .. BatchSize
      /\ pc = "anneal" => Len(current[b]) \in 1 .. BatchSize

\* The loads that packing compares are those of the stripes in each batch.
PackedIsTotal ==
  pc = "pack" =>
    \A b \in 1 .. NumBatches :
      packed[b] = Total([k \in DOMAIN batches[b] |-> probed[batches[b][k]]])

\* What annealing keeps is at least as good as the solution it is at, and never
\* worse than what packing made, whose loads packed still holds.
BestIsBest ==
  /\ pc = "anneal" => Energy(batches) <= Energy(current)
  /\ IsFire /\ pc \in {"anneal", "color"} =>
       Energy(batches) <= SumOf([b \in DOMAIN packed |-> Bottleneck(packed[b])], NumBatches)

\* Except in new with method 1, the table that coloring is guided by holds the
\* loads of the colorings in use of the stripes of this batch, and no others; so
\* it agrees with what evaluateBatch counts.
TableIsTotal ==
  pc = "color" /\ ~ (generator = "new" /\ method = 1) => table = Total(colored)

\* Every stripe is at one place, and no batch overflows or is empty.
StripesArePlaced == TypeOK /\ EveryStripeOnce /\ RoomForAll /\ BatchesFilled

\* The tables that packing and coloring are guided by agree with the batches.
TablesAreTotal == PackedIsTotal /\ TableIsTotal

StripesIn(q) == {q[k] : k \in DOMAIN q}

\* Handed over are nonempty sets of at most BatchSize stripes, disjoint, until
\* every stripe to repair is in one.
Plan ==
  INSTANCE BatchPlan WITH
    unplanned <- repairing \ UNION {StripesIn(emitted[i].stripes) : i \in DOMAIN emitted},
    plan <- [i \in DOMAIN emitted |-> StripesIn(emitted[i].stripes)]
ImplementsPlan == Plan!Spec
=============================================================================
