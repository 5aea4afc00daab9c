---------------------------- MODULE OfflineColoring ----------------------------
(***************************************************************************)
(* OfflineSolution: it colors stripes with a solution that genMLP has      *)
(* found for their code and failed blocks before.  The solution is kept in *)
(* a file of tradeoff points, as a text under an index, and is about the   *)
(* blocks of a stripe; here it is brought to the nodes that have them.     *)
(***************************************************************************)
EXTENDS TradeoffCurve

CONSTANTS
  StripesOn,    \* _stripe_list of a group: for each stripe the node of each block
  FailNodesOf,  \* fail_node_list
  NumAgents,    \* num_agents
  BatchSize,    \* _batch_size
  Radix         \* the base of the numbers in texts

ASSUME OfflineAssumption ==
  /\ NumAgents \in Nat /\ BatchSize \in Nat \ {0} /\ Radix \in Nat \ {0, 1}

\* The blocks of a stripe are on different agents.  A stripe belongs to the group of
\* the blocks that it has lost, one on each failed node, if it was hit.
ASSUME StripesAssumption ==
  \A g \in Groups :
    /\ EcnOf[g] <= NumAgents
    /\ FailNodesOf[g] \in Seq(0 .. NumAgents - 1)
    /\ Cardinality(ToSet(FailNodesOf[g])) = Len(FailedOf[g])
    /\ StripesOn[g] \in Seq([Colors(g) -> 0 .. NumAgents - 1])
    /\ \A p \in ToSet(StripesOn[g]) :
         /\ \A b, c \in Colors(g) : p[b] = p[c] => b = c
         /\ {b \in Colors(g) : p[b] \in ToSet(FailNodesOf[g])}
               \in {{}, ToSet(FailedOf[g])}

\* If a single block is lost, none of its sub-packets is read.
ASSUME LostAssumption ==
  \A g \in Groups : \A v \in Leaves[g] :
    Len(FailedOf[g]) = 1 => v \div EcwOf[g] # FailedOf[g][1]

VARIABLES
  points,    \* TradeoffPoints::_points
  scenario,
  waiting,   \* _stripes_to_repair, those that have no coloring yet
  current,   \* cur_stripe_list: the stripes of the batch with their colorings
  batches    \* _batch_queue: the stripes of each batch, its load and bandwidth

offVars == <<points, scenario, waiting, current, batches>>
allVars == <<vars, offVars>>

----------------------------------------------------------------------------
(* Solutions as texts *)

Power[e \in Nat] == IF e = 0 THEN 1 ELSE Radix * Power[e - 1]

\* ndigits and num2str, with leading zeros.
NDigits(m) == CHOOSE d \in 1 .. m : Power[d - 1] <= m /\ m < Power[d]
Num2Str(num, digits) ==
  [i \in 1 .. digits |-> (num \div Power[digits - i]) % Radix]

\* The texts of all numbers, one after the other.
GetString(sol, m) ==
  LET digits == NDigits(m)
  IN  [i \in 1 .. Len(sol) * digits |->
         Num2Str(sol[(i - 1) \div digits + 1], digits)[((i - 1) % digits) + 1]]

\* getColoringByIdx of a text, and stoi of the digits after place start.
Stoi(text, start, digits) ==
  LET num[i \in 0 .. digits] ==
        IF i = 0 THEN 0 ELSE Radix * num[i - 1] + text[start + i]
  IN  num[digits]
ColoringOf(text, digits) ==
  [i \in 1 .. Len(text) \div digits |-> Stoi(text, (i - 1) * digits, digits)]

\* The index of a point: the failed block, or for several their bits.
Bits(ids) == MapThenSumSet(LAMBDA b : 2 ^ b, ids)
IndexOf(ids) == IF Cardinality(ids) = 1 THEN CHOOSE b \in ids : TRUE ELSE Bits(ids)

----------------------------------------------------------------------------
(* The coloring of one stripe *)

FailNodes == ToSet(FailNodesOf[group])
FailBlocks(placement) == {b \in DOMAIN placement : placement[b] \in FailNodes}

\* filterFailedStripes.
Filtered ==
  LET order == Ascending({i \in DOMAIN StripesOn[group] :
                            FailBlocks(StripesOn[group][i]) # {}})
  IN  [j \in DOMAIN order |-> StripesOn[group][order[j]]]

\* Nodes that the repaired blocks must not go to.
Avoided(placement) ==
  FailNodes \cup {placement[v \div EcwOf[group]] :
                    v \in {w \in Leaves[group] : w \div EcwOf[group] < EcnOf[group]}}

\* Where the repaired blocks go, in the order of the headers.  For one block of the
\* standby scenario the failed node is its own replacement; for several the
\* program exits.
RepairNodes(placement) ==
  LET free == 0 .. NumAgents - 1 \ Avoided(placement)
  IN  IF scenario = "scatter"
      THEN {f \in [DOMAIN Headers[group] -> free] :
              \A i, j \in DOMAIN f : f[i] = f[j] => i = j}
      ELSE IF Cardinality(FailNodes) = 1 THEN {<<n>> : n \in FailNodes}
      ELSE {}

\* Slip: the color of the failed block is looked up in the placement too.
NodeOfColor_failed(c, placement, repairNode) == placement[c]

\* With one failed block a color is a block, and its node is the color; with
\* several the color is taken for a node.
NodeOfColor(c, placement, repairNode) ==
  IF Cardinality(FailNodes) > 1 THEN c
  ELSE IF c \in FailBlocks(placement) THEN repairNode ELSE placement[c]

\* Several failed blocks are looked up by their nodes.  Without a point the vector
\* is empty, and whatever is behind it is read.
OfflineSolutions(placement) ==
  LET idx == IF Cardinality(FailNodes) = 1 THEN IndexOf(FailBlocks(placement))
             ELSE Bits({placement[b] : b \in FailBlocks(placement)})
  IN  IF idx \in DOMAIN points
      THEN {ColoringOf(points[idx], NDigits(EcnOf[group]))} ELSE Solutions(group)

\* genOfflineColoringForSingleFailure and -ForMultipleFailure.
OfflineColorings(placement) ==
  {[v \in DagOf[group].nodes |->
      IF v \in Leaves[group]
      THEN IF v \div EcwOf[group] < EcnOf[group] THEN placement[v \div EcwOf[group]] ELSE -1
      ELSE IF v \in DagOf[group].headers
      THEN x[1][CHOOSE i \in DOMAIN Headers[group] : Headers[group][i] = v]
      ELSE NodeOfColor(x[2][CHOOSE i \in DOMAIN Itm[group] : Itm[group][i] = v],
                       placement, x[1][1])] :
     x \in RepairNodes(placement) \X OfflineSolutions(placement)}

----------------------------------------------------------------------------
(* Batches *)

\* evaluateColoring of a stripe: how much each node sends and receives.
Loads(coloring) ==
  LET flows == Flows(group, coloring)
  IN  [k \in {2, 3} \X {coloring[v] : v \in DOMAIN coloring} |->
         Cardinality({f \in flows : f[k[1]] = k[2]})]

\* The first n terms added up.
SumUpTo(terms, n) ==
  LET sum[i \in 0 .. n] == IF i = 0 THEN 0 ELSE sum[i - 1] + terms[i]
  IN  sum[n]

\* evaluateBatch: the loads of all stripes are added up node by node, for the first
\* num_agents nodes.
EvaluateBatch(stripes) ==
  LET loads == [i \in DOMAIN stripes |-> Loads(stripes[i].coloring)]
      term(i, k) == IF k \in DOMAIN loads[i] THEN loads[i][k] ELSE 0
      sum(k) == SumUpTo([i \in DOMAIN stripes |-> term(i, k)], Len(stripes))
  IN  [stripes |-> stripes,
       load |-> Max({sum(k) : k \in {2, 3} \X (0 .. NumAgents - 1)}),
       bdwt |-> SumUpTo([n \in 1 .. NumAgents |-> sum(<<3, n - 1>>)], NumAgents)]

----------------------------------------------------------------------------
OfflineInit ==
  /\ Init
  /\ points = <<>> /\ scenario = "" /\ waiting = <<>>
  /\ current = <<>> /\ batches = <<>>

\* A step of the search program.
Search == Next /\ UNCHANGED offVars

\* genRepairBatches reads the file with the solution and selects the stripes.
ReadPoints ==
  /\ pc = "done" /\ answer # {} /\ points = <<>>
  /\ \E a \in answer :
       points' = [idx \in {IndexOf(ToSet(FailedOf[group]))} |->
                    GetString(a.sol, EcnOf[group])]
  /\ scenario' \in {"standby", "scatter"}
  /\ waiting' = Filtered
  /\ UNCHANGED <<vars, current, batches>>

\* One stripe is colored and joins the batch, which is pushed once it is full or the
\* last stripe was colored.
ColorStripe ==
  /\ waiting # <<>>
  /\ \E coloring \in OfflineColorings(Head(waiting)) :
       LET batch == Append(current, [placement |-> Head(waiting), coloring |-> coloring])
           full == Len(batch) = BatchSize \/ Len(waiting) = 1
       IN  /\ current' = IF full THEN <<>> ELSE batch
           /\ batches' = IF full THEN Append(batches, EvaluateBatch(batch)) ELSE batches
  /\ waiting' = Tail(waiting)
  /\ UNCHANGED <<vars, points, scenario>>

OfflineNext == Search \/ ReadPoints \/ ColorStripe

OfflineSpec == OfflineInit /\ [][OfflineNext]_allVars /\ WF_vars(Search)

----------------------------------------------------------------------------
(* Properties *)

\* Load and bandwidth of a coloring of nodes.
Measured(coloring) ==
  LET loads == Loads(coloring)
      real == {k \in DOMAIN loads : k[2] # -1}
  IN  <<Max({loads[k] : k \in real}), Cardinality(Flows(group, coloring))>>

\* The nodes of a stripe are told apart as the blocks were in the search: the
\* repaired block goes to a node that no other color in use stands for.  A block that
\* is not read may be on the repair node, and be a color of the solution.
KeepsApart(stripe, sol) ==
  \A i \in DOMAIN sol : \A v \in DagOf[group].headers :
    sol[i] \notin FailBlocks(stripe.placement) =>
      stripe.placement[sol[i]] # stripe.coloring[v]

\* A stripe that has lost one block is repaired with the load and the bandwidth
\* that were found for its code: the solution survives the text, the index and the
\* renaming.  Of stripes that have lost several nothing of the kind is stated: their
\* solution is looked up by nodes and its colors are taken for nodes, both of which
\* are blocks in the file.
PlacedAsFound ==
  \A b \in ToSet(batches) : \A stripe \in ToSet(b.stripes) : \A a \in answer :
    Cardinality(FailNodes) = 1 /\ KeepsApart(stripe, a.sol) =>
      Measured(stripe.coloring) = <<a.load, a.bdwt>>

\* The bandwidth of a batch is that of its stripes together, and its load, which the
\* simulations add up, between that of its heaviest stripe and the sum of all: no
\* node that carries load is left out.
BatchesAddUp ==
  \A b \in ToSet(batches) :
    LET of(i) == Measured(b.stripes[i].coloring)
        total(x) == SumUpTo([i \in DOMAIN b.stripes |-> of(i)[x]], Len(b.stripes))
    IN  /\ b.bdwt = total(2)
        /\ b.load <= total(1)
        /\ \A i \in DOMAIN b.stripes : of(i)[1] <= b.load

\* What is found is the best that the searches met, it is what stripes with one
\* lost block get, and all that stripes get is counted.
AnswerIsUsed == AnswerIsLightest /\ PlacedAsFound /\ BatchesAddUp
=============================================================================
