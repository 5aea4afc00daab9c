# Verification of the multi-failure repair system

This directory holds TLA+ models of the erasure-code repair system in this repository, the TLC runs
that check them and the TLAPS proofs about them. Paths below are relative to `src/src/`.

- [The system](#the-system): its parts, their state, how they interact, what is hard about them.
- [The modules](#the-modules): which module models which part, and how.
- [The runs](#the-runs): what each one checks, its bounds and its fairness.
- [The proofs](#the-proofs).
- [Findings](#findings) and [remarks on the code](#remarks-on-the-code).
- [What is not modelled](#not-modelled) and [the plan](#plan).

## The system

One **coordinator** repairs the blocks that were lost on one or several failed nodes, with an **agent**
on every surviving and every replacement node. They talk through **redis** lists only: the coordinator
pushes requests and tasks to the redis of an agent, an agent pushes its finish flag to the redis of the
coordinator, and agents push sub-packets to each other's redis. Readers use `blpop key 0`, which waits
without a limit.

| part | files | state | operations |
|---|---|---|---|
| coordinator main | `ParaCoordinator.cc`, `MultipleCoor.cc`, `MultipleCoor_heterogeneous.cc` | two threads: one runs `Coordinator::genRepairSolutionAsync`, the other `Coordinator::repair` | start both, join the generator |
| solution base | `sol/SolutionBase.cc`, `util/BlockingQueue.hh` | `_batch_queue`, `_batch_list`, `_batch_request`, `_finish_gen_batches`, `_stripes_to_repair` | `getRepairBatchFromQueue`, `hasNext`, `filterFailedStripes`; `push`, `pop`, `getSize` |
| solutions | `sol/CentSolution.cc`, `sol/OfflineSolution.cc`, `sol/ParallelSolution.cc`, `common/TradeoffPoints.cc` | batches under construction, load tables, precomputed colorings | split the stripes to repair into batches; choose a *coloring* for each stripe: which node computes which sub-packet |
| repair batch | `sol/RepairBatch.cc`, `ec/NodeBatchTask.cc`, `protocol/AGCommand.cc` | per node: stripe list, task numbers, task lists | `genRepairTasks`: generate the tasks, send them from one thread per node, wait for one flag per node |
| stripe | `common/Stripe.cc`, `ec/Task.cc` | `_ecdag`, `_coloring`, `_taskmap`, `_in`, `_out` | `genRepairECDAG`, `refreshECDAG`, `genRepairTasks`, `changeColor`, `evaluateColoring` |
| DAG | `ec/ECDAG.cc`, `ec/ECNode.cc` | vertices, children, headers | `Join`, `Concact`, `genLeveledTopologicalSorting` |
| codes | `ec/RSCONV.cc`, `ec/RSPIPE.cc`, `ec/RDP.cc`, `ec/BUTTERFLY.cc`, `ec/HHXORPlus.cc`, `ec/Clay.cc` | matrices | `Encode`, `Decode`: the repair DAG of a set of lost sub-packets; `CodeTest.cc` runs both |
| agent | `ParaAgent.cc`, `common/Worker.cc`, `common/DataPacket.cc`, `ec/Computation.cc` | data maps: one queue of packets per stripe, vertex and use | `readInstructions`, `recvBatchTasks`, `repairBatch`, `repairStripe`; one thread per task: read, send, receive, compute, persist |
| search programs | `genMLP.cc`, `NewgenMLP.cc`, `dist/*.cc` | a curve of the best colorings found | find colorings of one code and failure offline, for `OfflineSolution` |
| simulation | `common/RepairScheduler.cc`, `common/TraceReader.cc`, `RepairSimulator.cc`; `RepairScheduler_new.hh`, `RepairSimulator_new.cc`, `MLPredictor.hh` | failed nodes, trace position, statistics | decide after each failure event whether, and which nodes, to repair now |
| metadata | `common/StripeStore.cc`, `common/Config.cc` | stripes, placements, addresses | load files |
| generators and experiments | `GenTrace.cc`, `GenPredictedTrace.cc`, `GenData.cc`, `Sim_*.cc`, `MulSim_*.cc`, `Multiple_*.cc`, `Brute_Force.cc`, ... | none that is shared | offline programs |

How a repair runs. The generator thread makes batches and hands them to the main thread through
`_batch_queue`. For each batch `RepairBatch::genRepairTasks` asks every stripe for its tasks, sends each
agent one request (which stripes, how many tasks each) and then the tasks, in one thread per agent,
joins these threads, waits for one finish flag per agent and returns; then the main thread takes the
next batch. An agent takes a request, then as many commands as it announces, makes the packet queues of
all stripes, runs one thread per stripe and in it one thread per task, joins all and sends its flag.
Within a stripe the tasks form a pipeline over the levels of the DAG: packets flow from read tasks
through compute, send and receive tasks to the persist tasks, over in-memory queues inside a node and
redis lists between nodes.

What is hard about it:

- *two threads and unprotected flags* in the hand-over of batches (`SolutionBase`);
- *pipelined redis commands* whose replies are read with a delay (`NodeBatchTask`, `Worker::sendOneByOne`);
- *a barrier over redis lists* whose keys carry only batch and node ids;
- *commands as bare fields* that the coordinator writes and the agent counts off again;
- *waits without time limits* everywhere: any mismatch between what one task sends or pushes and another
  one receives or pops is a hang of the whole repair;
- *the codes*: which sub-packets are combined in which order with which coefficients, for any set of
  failed blocks, in six codes, with shortened and coupled variants;
- *the task generation*: one algorithm that must fit all these DAGs and all colorings;
- *tables kept by hand* next to what they summarise: loads of stripes and batches, the curve of a search;
- *decisions ahead of time*: repair now or wait, all or some of the nodes (`RepairScheduler`,
  `RepairSchedulerNew`).

What makes each part correct:

- hand-over: every batch is repaired exactly once, in order, and `repair` returns;
- dispatch: every agent gets exactly its commands, in order, batch by batch, and all batches end;
- codes: the repaired blocks are the lost ones whatever the data, from no more reads than promised;
- task generation: sends match receives, every queue that is popped is filled by one task and read by
  one task, nothing stays behind, every lost block is written;
- batches: every stripe that lost a block is in one batch, and no batch is too big or empty;
- coloring: the loads that the choices are made by are the real ones, the blocks of a stripe stay on
  different nodes, and what is kept is the best that was seen;
- scheduling: waiting never costs data, and no failure is forgotten.

## The modules

### Hand-over of batches: `BatchQueue`, `BatchRelay`, `BatchQueue_proofs`

`BatchQueue` has two program counters. `gen_pc` is the thread in `genRepairBatches`: it builds the next
batch (`CentNextBatch`, `OfflineNextBatch`, `ParallelNextBatch`, depending on `solution`), tests the
request flag (`TestRequest`, the parallel solution only), pushes (`PushBatch`) or adds to the list that
nobody reads (`ListBatch`), and sets the finish flag (`FinishGen`). `coor_pc` is the thread in
`Coordinator::repair`: `HasNextFlag` and `HasNextSize` are the two reads of `hasNext`, `GetSize`,
`SetRequest` and `Pop` the steps of `getRepairBatchFromQueue`, `RepairDone` the call of `genRepairTasks`,
`JoinGen` the join in `main`. Every access to shared state is a step of its own. `getSize` reads the
deque without its lock: while the generator is in `push` the model lets it return either answer
(`SizeReads`).

`BatchRelay` is what the hand-over promises: a lossless FIFO relay, or, for the parallel solution, one
that may lose batches before the first delivery. `RelaySpec` is the refinement.

### Which stripes are repaired together: `BatchPacking`, `BatchPlan`, `MCBatchPacking`, `BatchPacking_proofs`

`BatchPacking` has the four generators of `ParallelSolution` for several failures, told apart by
`generator`. Two cut the stripes into runs of `_batch_size` (`new` in ascending, `random` in any order).
The other two color every stripe alone (`Probe`), sort by highest load (`HeavyFirst`; equal loads in any
order, as `std::sort` leaves them), put each into the batch where it raises the highest load least (`Pack`)
and anneal (`Anneal`: exchange two stripes of different batches, accept by energy or by chance, keep the
best). All then color the stripes of one batch after the other with a load table (`Color`) and hand the
batch over (`HandOver`). A coloring is only its loads here; which loads a stripe's colorings may have is a
constant. The temperature is a number of rounds. Averages and variances are multiplied out to integers,
and `fire`'s and `fireNew`'s different tie-breaks are both there.

`BatchPlan` is what the coordinator needs from a generator: nonempty batches of at most `_batch_size`
stripes, no stripe twice, in the end all. `ImplementsPlan` is the refinement.

### Dispatch of a batch: `BatchDispatch`, `BatchBarrier`, `MCBatchDispatch`, `BatchDispatch_proofs`

`BatchDispatch` composes the coordinator's main thread, its sender and waiter threads, the client
buffers of hiredis, the redis lists and the agents. A sender thread (`SendRequest`, `AppendCommand`,
`StartDrain`, `WriteBuffer`, `GetReply`, `SenderReturns`) follows `NodeBatchTask::sendCommands`: commands
are appended to a client-side buffer, more than `Window` outstanding ones make it read a reply, the rest
is drained at the end; a reply is available only after the buffer was written and the server executed
the command (`ExecuteCommand`). The main thread joins the senders, takes one flag per involved node
(`TakeFlag`) and goes on (`NextBatch`). Agents follow `Worker::doProcess`: `ReadInstructions`, `RecvTask`
(in stripe order), `StartRepair`, `StripeDone`, `SendFinishFlag`. The work on a stripe is one step,
enabled when all nodes that feed it have started the stripe: the tasks inside are the subject of
`StripeTasks`.

`BatchBarrier` is what the caller of `genRepairTasks` relies on, and `BarrierSpec` the refinement.

### The codes: `GaloisField`, `RSCONV`, `RSPIPE`, `RDP`, `HHXORPlus`, `BUTTERFLY`, `Clay`, `Codes`, `CodeTest`

Each code module has `Encode` and `Decode` of its class as sequences of Joins: a parent vertex, its
children, and their coefficients. The matrices are computed as the code does (`GaloisField` has products,
quotients and `jerasure_invert_matrix` over GF(2^w), with the width that is passed). Clay is modelled with
its virtual blocks, the repair of one lost chunk from the planes it needs, and the layered decoding;
HHXORPlus with its groups and the two decoders; BUTTERFLY with its recursive layout and its four repair
cases. `Codes` puts them behind one interface as `Stripe::genRepairECDAG` and `CodeTest.cc` do.

`CodeTest` is the test program of the repository, for any set of failed blocks instead of one. A buffer
does not hold bytes but a *linear form* over the data sub-packets, one coefficient in GF(2^8) each: two
buffers with the same form have the same bytes whatever the data. `EncodeLevel` and `DecodeLevel` compute
the vertices of a DAG whose children are there, `StartRepair` loses the failed blocks, and at the end
the repaired ones are compared (`RepairedIsLost`).

### From DAG and coloring to tasks: `ECDag`, `RepairCodes`, `RepairDags`, `TaskCommand`, `StripeTasks`, `MCStripeTasks`

`ECDag` has the graph operations as operators on records: `Join` with the code's treatment of vertices
that exist already, `Concact`, `Refresh` (one pass, as `refreshECDAG`), and the levels of
`genLeveledTopologicalSorting`. `RepairDags` has the DAGs of thirteen repairs and of five searches as literals;
that their Joins are the ones the code modules decode is checked by the run `CodeTest` (`CaseIsDecoded`, `OtherCasesAreDecoded`).

`RepairCodes` has the colorings a solution may choose: `CentColoring` is the only one of `CentSolution`;
`HyperColorings` and `ParallelColorings` are all that the choices of `GloballyMLP_yh` and of
`GloballyMLPLevel` range over, whatever the load tables say.

`StripeTasks` is `Stripe::genRepairTasks`: `Recolor`, then `GenLevel0`, `GenIntermediateLevels` once per
level, `GenLastLevel`, and `SendCommands`, in which every node reads its tasks from the commands.
Containers that the code fills in the order of an `unordered_map` are sets.
`Pops` and `Pushes` say which packet queues the threads of `Worker` use for a task (`readRealBlock`,
`readVirtBlock`, `sendOneByOne`, `recvList`, `computeOneByOne`, `persist`), and the properties are about
these. `genRepairTasks` takes it for granted that the concat vertices are the last level (`ConcatsAreLast`) and
that a node needs a sub-packet on one level only. Neither is so for all codes, so the properties do not
assume it: each says exactly what becomes of the stripes where it fails.

`TaskCommand` writes a task into the fields of its commands as `Task`, `ComputeItem` and `AGCommand` do,
with the size of the buffer they are written into, and reads them back as the agent does: fields are
counted off, so one too few or too many shifts all that follow.

### Which node computes what: `ColoringLoad`, `MCColoringLoad`, `ColoringLoad_proofs`

`ColoringLoad` is how `ParallelSolution::genRepairBatchesForMultipleFailureNew` colors the stripes of one
batch. A load table counts what each node sends and receives; the sub-packet of vertex v sent from node a
to node b is a *flow* `<<v, a, b>>`, and the counting functions of `Stripe` are sets of flows: `Traffic`
(`evaluateColoring`, from scratch), `ChangeColor` (`changeColor`, the flows that go and come when one vertex
gets another color; `evaluateChange` is the same on a copy), `EvaluateChange2` (for a group of siblings, as
the code has it, with the children of the first only). `Prepare` is `prepare`: leaves and concat vertices
get their colors, the repair nodes of the scatter scenario being any distinct ones. `ColorHyper` and
`ColorMulti` are one iteration of the loops of `GloballyMLP_yh` and `GloballyMLPLevel`: the candidates, and
the best of them by `evalTable1` and `isBetter2`; `Recolor` is one call of `changeColor`. The order within a
level of the DAG is that of an `unordered_map`, so any; a group of siblings is the set of the parents of a
vertex's first child, as the code takes it, and is recolored one after the other in the order in
which the vertices were joined (`First`). The nodes are `0 .. ClusterSize - 1`; what a DAG, a placement and a batch must be
like is assumed by name (`DagsAssumption`, `PlacementAssumption`, `BatchesAssumption`). `FinishHyper` and `FinishMulti` add to the load table
and, with method 1, keep the better of the two colorings; method 2 is `GloballyMLPLevel` alone. Shared by
all stripes of the batch: `table`.

The local coloring for one failed block (several rounds over the intermediate vertices with `isBetter3`)
and the programs that color a stripe alone (`Multiple_Failure`, `Multiple_Coloring`,
`computeRepairLoadForStripe` of the simulator) are `RoundsAlone` and `FinishAlone` of the same module: they
start from an empty table, some of them on a DAG that was not refreshed (`RawStripes`).

`KeptIsCovered`, an action property in `MCColoringLoad`, checks that a coloring in use is of one of the two
kinds, those of `HyperColorings` and of `ParallelColorings`, for which `StripeTasks` checks the tasks.

### Colorings that are searched offline: `TradeoffCurve`, `OfflineColoring`, `MCTradeoffCurve`, `OfflineColoring_proofs`

`TradeoffCurve` has the searches of `genMLP` and `NewgenMLP`: from a random solution they recolor one
vertex at a time and keep a linked list of the solutions that no other one beats in both load and
bandwidth (`updateTradeoffCurve`, with the order of its pointer updates abstracted to what it keeps), two
maps for a quick test, and either marks of visited solutions or a pool of those still to search. `genSol`
repeats the search until a point is good enough. Solutions, loads and bandwidths are exact. `Tabulated` is
the identity: TLC computes a function once where it stands.

`OfflineColoring` takes the answer on to `OfflineSolution`: it is written as a text of fixed-width numbers
(`GetString`; `Radix` 3 instead of 10, so that some numbers take two digits) under an index, read again by
`getColoringByIdx`, and brought from block numbers to the nodes of each stripe, for one failed block and,
as the code has it, for several; `EvaluateBatch` adds the loads up.

### The threads of a stripe: `StripePipeline`, `MCStripePipeline`, `StripePipeline_proofs`

`StripePipeline` extends `StripeTasks`: after `StartThreads` every generated task is a thread on its node
(`Worker::repairStripe`), and a packet moves with every step. `queue` are the packet queues of
`_stripe2datamap`, `redis` the lists of the receiving nodes, `file` the repair files, and `thread[t]` the
local state of a thread: its round, the position in it, and for a send thread the commands hiredis still
buffers for each connection and the replies it still expects. `Read`, `Compute` (one pop after the other, with the last of
them the products are pushed), `Send`, `DrainReplies`, `Recv` (the `blpop`s in the order they were
appended) and `Persist` are one iteration each of the loop of their function. `GetReply` is
`redisGetReply`: it takes a reply that has arrived, or writes the buffer first. A packet is `<<v, i>>`,
the i-th packet of the sub-packet of vertex v, or `Bad` when it was computed from anything but the i-th
packets of the children of v. Of the variants that `Worker` has of each function the one that the live
path calls is modelled; the `group` variants are not. The stripes are those of `ThreadsAssumption`: their concat
vertices are on the last level, and no node uses a sub-packet on two levels, so that no two threads take
packets from one queue.

### Repair now or wait: `RepairScheduler`, `RepairSchedulerNew`, their MC modules and proofs

`RepairScheduler` is one run of `runStrategy` in `RepairSimulator.cc` on a trace: each event of the trace
is one step, an `EventWithLoss`, an `EventRepaired` or an `EventDeferred`, by the conditions of the loop
body; `FinalRepair` is what follows the loop. All three strategies are in the same module, the strategy
being chosen at the start.

`RepairSchedulerNew` is `RepairSimulator_new.cc`: one loop per strategy there, one action `Day` here, in which
the event is added, lost stripes are recorded and the strategy decides. It decides stripe by stripe and
may repair some of the failed nodes only (`ExecutePartial`). The orders in which `std::sort` leaves nodes of
equal priority are all there. Of `MLPredictor` only what it may return is modelled: it misses and it raises
alarms, each if its rate is positive. Risks are exact fractions, so a comparison that floating point would
decide by rounding is decided exactly.

## The runs

Safety runs need no fairness. Where a run has a liveness property, the fairness is weak fairness of every
thread, redis server or agent process separately (in `StripePipeline` of the next-state action as a
whole, which is less; in `TradeoffCurve` and `BatchPacking` of the one thread there is): they are
operating-system threads or processes that are always scheduled again, and no step of theirs competes for
a lock that another one could hold for ever. Deadlock checking is off where it is off because these
programs end; that they end where they should is what the liveness properties say.

| run | shows | bounds |
|---|---|---|
| `BatchQueue` | `TypeOK`, `InOrder`, `NothingLeftBehind`, `AllRepaired`, `RelaySpec`: every queued batch is repaired once and in order, and in the end, before the main thread leaves; with `CentSolution` and `OfflineSolution` no batch is lost, with `ParallelSolution` only before the first delivery | all three solutions, 5 batches: the threads are at most a queue of 5 apart, every order of the flag and size reads against the pushes occurs |
| `BatchQueue_lost` | violated: `RepairIsComplete` | 3 batches |
| `BatchDispatch` | `TypeOK`, `OneBatchAtATime`, `CommandsArrive` (`AllDelivered`, `TasksComplete`, `CleanStart`), `AllBatchesDone`, `BarrierSpec` | 2 batches, 3 nodes, 3 stripes, up to 2 commands per stripe, window 1 instead of 10: the window fills, replies are outstanding at the end, two nodes feed each other, a node has work in the second batch only |
| `BatchPacking` | `StripesArePlaced` (no stripe lost or doubled by packing or by a swap, room in the last batch), `TablesAreTotal` (the loads compared are those of the batches), `BestIsBest`, `ImplementsPlan` | all sets of up to 5 stripes in batches of 2, 3 nodes, all four generators, coloring methods 0 and 1, two rounds of annealing: every accepted and refused swap, a short last batch |
| `StripeTasks` | `TypeOK`, `QueuesArePaired` (`InputsAreFed`, `NothingUnread`, `OneReader`), `AllPersisted`, `TasksArrive` (`SendsMatchReceives`, `CommandsFit`, `CommandsAreRead`) | eleven stripes: RSCONV(4,2) and RSPIPE(5,3) with two failures, RDP(4,2) twice, BUTTERFLY(4,2), Clay(4,2) with and without a replacement node and Clay(5,3) with virtual blocks, HHXORPlus(7,4) with one data and one parity failure, with two data failures (a queue with two readers) and with two parity failures (concat vertices on two levels); all colorings of both algorithms for five of them. Command buffers of 20, 16 and 8 fields and names of 12 instead of 1024 bytes, so that buffers are doubled |
| `CodeTest` | `TypeOK`, `RepairedIsLost`, `SharedNumbersAgree`, `ReadsAreRight` (`ReadsAsPromised`, and that `RepairDags` has the DAGs the codes decode) | 603 stripes: every set of failed blocks of small instances of all six codes, except those of `CodeTest_wrong` and of the [list below](#remarks-on-the-code) |
| `CodeTest_wrong` | violated: `RepairedIsLost` | RSCONV(4,2) and RSPIPE(5,3), two failures |
| `ColoringLoad` | `TypeOK`, `TablesAreExact` (`LoadsAreExact`, `TableIsGlobal`), `RepairedApart`, `KeptIsBest` (`KeptIsLighter`, `KeptIsCovered`) | six batches of one to three stripes, one with a concat vertex that is a sibling, and four batches of stripes that are colored alone, methods 0, 1 and 2, both scenarios, 8 agents and 2 standby nodes: blocks of two stripes share nodes, a repair node carries other load |
| `TradeoffCurve` | `CurveIsRight`, `NothingIsMissed`, `AnswerIsUsed`, `SearchProgresses` | five DAGs, from every or from chosen starts, 2 attempts, 8 agents |
| `StripePipeline` | `PipeTypeOK`, `FilesAreRepaired` (`FilesAreRight`, `JoinedMeansRepaired`), `ThreadsEnd` | RSPIPE(4,3) with all colorings and BUTTERFLY(4,2,2), 3 packets, window 1 instead of 10: packets follow each other through the pipeline, the window is passed within a block, replies are outstanding at the end |
| `RepairScheduler` | `TypeOK`, `WaitingIsTolerated`, `LossIsUnavoidable`, `EveryFailureIsRepaired` | all traces of up to three events over four nodes, tolerance 2, a stripe on all nodes and one on three: losses with and without waiting failures occur, nodes fail again, events are empty |
| `RepairSchedulerNew` | `LossIsUnavoidable`, `EveryFailureIsRepaired`, `RoundsAreSound` (`TypeOK`, `NoEmptyRound`, `LostIsChargedInPart`, `WaitingIsTolerated`) | seven strategies, all traces of up to three events over five nodes, three overlapping stripes, tolerance 2: full and partial repairs, lost stripes, nodes that stay failed over two rounds |

## The proofs

The theorems hold for every value of the constants that the named assumptions of the modules admit, and
TLC evaluates these on the runs. Each proof module has one inductive invariant (`IInv`, in
`StripePipeline_proofs` `Inv` for the tasks and `PipeInv` for the threads), one lemma per action, and at its end the theorems of `PROJECT.json`.
Several begin with the same few lemmas: induction over naturals by a set (`SetInduction`; the library's takes an
operator, which is why whatever is defined along a sequence is a recursive function here), least and greatest elements,
and sums as a function that adds term after term.

`BatchQueue_proofs`, for every `NumBatches` and every solution:

- `TypeCorrect`, `OrderKept`, `EndIsClean`, `RelayRefined`. `InOrder` alone is not inductive: which
  batches are in the queue depends on what the generator has tested and the main thread has requested.
  `IInv` adds `GenInv` (the generator inserts only batches it still has to number, and sets the finish flag
  last), `RequestInv` (before the request nothing was pushed or delivered) and `CoorInv` (the main thread
  leaves its loop only when generation has ended and the queue was seen empty). `RelayRefined` maps
  pushes to `Produce`, list insertions to `Drop` and pops to `Deliver`; it is the safety half of
  `RelaySpec`.

`BatchDispatch_proofs`, for any nodes, stripes, batches, task numbers, feeders and window:

- `TypeCorrect`, `BatchByBatch`, `NothingIsLost`, `DispatchIsBarrier`. What is in a redis list is not
  explained by one process, so `NodeInv` gives each node one of six stages of a batch: `Unasked`, `Asked`
  (the request is in the list), `Receiving`, `Repairing`, `Flagged` (its flag is in the list) and `Finished`
  (the flag was taken, and the agent waits for the next batch). In `Asked` and `Receiving` the commands that
  the agent has taken, followed by those in its list, are the ones redis has executed, in order
  (`Arriving`); in the later stages all were taken and nothing is left. `SenderInv` orders what is appended,
  written, executed and answered, and `CoorInv` says whose sender threads run when. The list that `NodeBatchTask` builds for an agent is a
  loop over the stripes; that the agent, which only counts, gets them in the same order rests on
  `StripesAreDistinct`. `DispatchIsBarrier` is the safety half of `BarrierSpec`.

`BatchPacking_proofs`, for any stripes, batch size, cluster and loads of colorings, and all generators:

- `EveryStripeHasItsPlace`, with `Sizes` and `InRuns` in the invariant. Packing looks for a batch with room, and the code does not ask whether there
  is one: there is, because the number of batches is rounded up, the places are `NumBatches * BatchSize`,
  and the stripes that are placed are counted by the sizes of the batches. No batch is empty or too full
  when annealing draws from it, and an exchange is a transposition of the places.
- `ComparedLoadsAreReal`. Both tables are added to, stripe by stripe, and emptied at other places than
  the stripes they stand for are; that they are the sums over these stripes is carried through by the lemmas
  about `Total`, a function that sums a sequence from its start.
- `AnnealingNeverHurts`: whatever the random walk tries, the solution that is kept is never worse than the
  one it is at, nor than what packing made.
- `PackingPlans`, the safety half of `ImplementsPlan`. `Emitted` says that what was handed over are the first
  batches as they are; with `EveryStripeOnce` the next one has no stripe in common with them.

`ColoringLoad_proofs`, for any stripes, DAGs, placements and cluster, any order within a level:

- `ChangeIsExact`: `changeColor` takes away the flows a vertex is part of and adds those of the new color.
  That this is the difference of two counts from scratch needs that the new color is not the old one, and a
  case for each side of a flow: a child of the vertex may send the same sub-packet to the same node for
  another parent, and then nothing comes or goes.
- `LoadsStayExact`. `ColoredOnce` is the reason that the condition of `ChangeIsExact` is met: within a pass each
  vertex is recolored at most once, and a group of siblings either all or not at all. The table of a batch is
  the sum over the stripes before, as `TotalLoad`, a function on naturals.
- `RepairsEndApart`: `Places` says that the vertices of failed blocks are on the nodes `Prepare` gave them
  until `Recolor` reaches them, and where they may go. It has no hypothesis on the DAG. What `Recolor` can
  reach is read off the DAG: a concat vertex that is in the group of siblings of some vertex
  (`ConcatSiblings`) may be given any node, and the code does put two blocks on one node there (see
  the remarks); all others, `StayingConcats`, are apart, and in the hyper coloring alone (method 0) and the local coloring these are all.
- `LoadsStayNatural`: the assertions in `changeColor` hold, for the loads are counts of flows; and so do those of
  the table, which only has loads from scratch added to it.
- `LighterIsKept`, the theorem of the action property: of two colorings the kept one has the smaller highest
  load, counted from scratch.

`StripePipeline_proofs`, for any stripes, repair DAGs, colorings, replacements of failed nodes and buffers, first
the tasks:

- `Invariance`, the inductive invariant: between two steps the tasks are `Generated(level)`, six sets of
  task records that are given by the DAG and the coloring alone (`ReadTasksOf`, `ZeroTasksOf`,
  `ComputeTasksOf`, `SendTasksOf`, `RecvTasksOf`, `PersistTasksOf`). One lemma per generator (`ReadTasksAre` and so on) says that
  what it collects node by node or block by block is that set.
- `PairedQueues`. `LocalFeeder` and `OutFeeder` name the one task that fills a queue: a read task of the
  block, a compute task, a receive task or a zero read, by the level and color of the vertex. They are tasks
  (`LocalFeederIs`, `OutFeederIs`), nobody else pushes to the queue (`LocalPushers`, `OutPushers`), and who pops
  it is a parent of the vertex or its send task (`LocalPoppers`, `OutPoppers`). Levels go up from
  feeder to reader because a child is on a lower level (`LevelsAre`, from `RemainingShrinks`).
  Who reads is exact in both directions (`UsedOn`): a local queue is popped by one task for each level on which
  the node uses the sub-packet, so it has two readers where there are two such levels, which is the
  hang described in the [remarks](#remarks-on-the-code), and nowhere else.
- `BlocksPersisted`: a concat vertex stands for one block, and sub-packets of two blocks are apart
  (`BlocksApart`). Persist tasks are those of the last level; a concat vertex on an earlier one, if there is any, has
  none, and the theorem says so.
- `TasksGetThrough`: `CommandsAreRead` says that a step, the whole way of all commands, changes nothing. That
  is a round trip of two programs that agree on nothing but the order of fields: lemmas for each part
  of a command (`CountedIs`, `UsageIs`, `SendToIs`), then for each kind of task from the agent's side
  (`ReadCommandIs`, `OtherCommandIs`, `SendCommandIs`, `ItemCommandIs`), up to `TasksAreRead`. A
  compute command is kept under its vertex, so a node must compute a vertex in one task only (`ComputedOnce`).
  `IsWhole` is what a vertex needs to be read as it was written: as many coefficients as sources. A concat
  vertex before the last level may lack it, and the theorem leaves open what is read for its uses.
  `TasksFit` follows the buffer field by field.

The assumptions are on what `genRepairTasks` is given. `DagsAssumption` is about the DAGs, as `Join`, `Concact` and
`refreshECDAG` make them: they are acyclic, the last level has concat vertices only, and a concat vertex is nobody's child and
has its block's sub-packets as children. `ColoringsAssumption` says of a coloring, once the failed nodes are
replaced, what all solutions have in common (`IsColoring`). Neither says on which level a concat vertex is or
on how many levels a node uses a sub-packet. TLC evaluates both for every DAG and coloring of `StripeTasks`,
among them the stripes where two tasks read one queue and where concat vertices are on two levels.

and then the threads that run them, also for any number of packets and any window, but only for stripes of
`ThreadsAssumption`: all concat vertices are on the last level (`ConcatsAreLast`), and what a node
computes from one sub-packet is of one level (`SharesByLevel`). The code does not see to that. Without the second
the threads hang, without the first a block is not written, so that for these stripes there is nothing to prove
of the files; what is wrong with them is what the theorems about the tasks say.

- `PipeInvariance`. Where a packet is can be told from the positions of two threads. `Passed(th, v)` is the number of
  packets of vertex `v` that a thread has handled, and `Packets(v, a, b)` are the packets `a` to `b - 1` of it. `Queues` says
  that the queue from thread `u` to thread `t` is `Packets(v, Passed(t), Passed(u))` (for a compute
  thread, which pushes with the last of its inputs, the packets of its finished rounds: `Given`). That there is one such
  `u` and one such `t` for each queue is `PairedQueues`. `Lists` says the same of a redis list and the client
  buffer of its sender together: up to some packet the list has them, and from there on the commands in the
  buffer, which `Holds` describes by the number of the next packet at each of its places. `Files` gives the file of a block
  by the position of its thread. `Threads` has the inputs a compute thread has popped: as many as its
  position says, all of its round, so `ResultIs`: what it computes are the packets of that round.
- One lemma per effect (`PopStep`, `PushStep`, `SendStep`, `FlushStep`, `RecvStep`, `WriteStep`) moves the invariant along,
  and one per action (`ReadKeeps` to `SendKeeps`) combines them. A send thread empties a buffer whenever
  hiredis likes to, also in the middle of its loop; `ReplyKeeps` covers both of its loops.
- `BlocksRepaired`: a file is right at every moment by `Files`; when all threads are done, every position is the
  last one, and `Packets(v, n, n)` is empty. That these are the files of all failed blocks is `BlocksPersisted`.
- `PipeTypesHold`: the bound on what a thread appends is an invariant of its own (`CountInv`).

That the threads do get done stays with the run (`ThreadsEnd`).

`OfflineColoring_proofs`, for any repair DAGs, random starts, number of searches, stripes, cluster, batch size and
radix, first the searches of `TradeoffCurve`:

- The walk. `updateTradeoffCurve` and `genPareto` compare a new point with one neighbor after another and
  relink the list as they go. On a sorted curve the points fall into three runs (`SplitExists`): those before the new
  one, those that it beats, and those behind it. `WalkInserts` is an induction over the turns of the loop: what it has
  made after `i` turns is the curve with the new point in the place of those of the second run that it has passed.
  `WalkIs` sums this up: the point is dropped and something on the curve is no worse, or it is inserted, the curve
  stays sorted, and what it beats is exactly what has gone.
- The maps. `MapInsert`: the entries that are removed and added by hand give the map of the new curve, because a sorted
  curve has each load and each bandwidth once (`SortedUnique`). So the quick test is right (`QuickTestIs`): it refuses
  what something on the curve is no worse than, and lets through what no point equals in load and bandwidth, which
  is what genMLP's walk relies on.
- `CurveIsRightTheorem`, `NothingIsMissedTheorem`, `CurveImprovesTheorem`. `LocallyOptimal` speaks of finished searches
  only, and the solutions on the curve then may have been expanded long before. `IInv` says of any moment that the
  recolorings of an expanded solution are covered by the curve, except those that the running expansion has still to
  compare (`ILocal`), and that an expanded solution is covered itself (`IExpanded`), so that it does not
  come back to the curve and NewgenMLP's pool, the solutions on the curve that were not expanded (`IPool`), is right.
  That a curve which only gets better keeps covering what it covered (`ImprovesCovers`) carries all of these.

then the program that uses the answer:

- `AnswerIsUsedTheorem`, in three parts. `TextIsRead`: `num2str`, concatenated and cut up again, is the identity on
  solutions; that the places of the digits do not overlap is `PlaceOfDigit`, and that they add up to the number is
  `NumberIs`. `StripeIsRenamed`: if two colorings tell the ends of the same flows apart in the same way
  (`Renamed`), each flow has one twin with twin ends, and load and bandwidth are equal (`MeasuredAsFound`). That the
  coloring of a stripe is such a renaming of the solution is shown for one failed block, where colors are looked
  up in the placement. `KeepsApart` is the exception it is stated with: the repair node holds a block that is not
  read and whose color the solution uses. For several failed blocks no such result is stated, because the
  solution is looked up by nodes and its colors are taken for nodes, while both are blocks in the file (see the
  [remarks](#remarks-on-the-code)). `BatchAddsUp`: what the agents receive, added up
  node by node, is what the stripes send, added up stripe by stripe (`SumsExchange`), and the load of a batch is
  between its heaviest stripe's and the sum.
- `OInv`: from the moment the file is read its text is that of the answer, and each stripe in a batch has got one of
  its `OfflineColorings`. `OfflineSearches`: the first three theorems hold of both programs together.

The assumptions are on the inputs: a header is nobody's child, numbers of sub-packets are naturals
(`DagsAssumption`), random solutions are solutions (`SearchAssumption`), the blocks of a stripe are on different
agents and a stripe that was hit has lost the blocks that its group was searched for (`StripesAssumption`),
and of a block that is lost alone no sub-packet is read (`LostAssumption`). TLC evaluates them for
every group of `TradeoffCurve`.

`RepairScheduler_proofs` and `RepairSchedulerNew_proofs`, for every finite cluster, placement, tolerance,
strategy and trace (and predictor):

- `NoAvoidableLoss`, in both. Whatever the strategy that knows the next event leaves to wait fits, together
  with that event, within the tolerance; a stripe cannot lose more blocks than nodes are down; so an event at
  which data is lost destroys a stripe by itself. The lemmas are two facts on cardinalities (`UnionBound`,
  `LossMonotone`). In `RepairSchedulerNew`, which repairs stripe by stripe and may
  leave some of the nodes failed, what waits is `Prepared`: every stripe of it is within the tolerance also
  with the next event on top.
- `NothingForgotten`, in both: each failure ends in one round at or after it. With partial repairs the
  invariant of `RepairSchedulerNew` needs `FailedAgain`: a node that was in a round and is failed now has failed again since.
- `WaitingTolerated`, `TypeCorrect` (`RepairScheduler`) and `SoundRounds` (`RepairSchedulerNew`): no round is
  empty, and what waits is tolerated, where for the greedy selection the nodes it takes from a critical stripe
  are counted. A lost stripe is charged by a partial repair under `riskAware`, `differentiated` and `combined`, while
  other failed nodes of it still wait, and never otherwise (`LostIsChargedInPart`): a full repair has all
  failed nodes of a stripe in its round, and the partial repairs of the other strategies take all failed nodes of a
  stripe that is lost (`LostIsRepairedWhole`), so that `applyRepairCost` sees that it is.

### What stays with TLC

- Liveness: `AllRepaired`, `AllBatchesDone`, `ThreadsEnd`, and the
  liveness halves of `SearchProgresses`, `RelaySpec`, `BarrierSpec` and `ImplementsPlan`. TLAPS has no rules for fairness here.
- `TypeOK` of `ColoringLoad`: `LoadsStayNatural` leaves out stripes in which a vertex belongs to two groups of
  siblings, where `changeColor` may count wrong, and only the run says that the numbers stay natural there. That
  colors are nodes needs that a best candidate exists, by a sum over nodes that TLAPS cannot look into.
  `KeptIsCovered` compares with colorings of
  another module, for the DAGs of `RepairDags`.
- `CodeTest`: the codes are recursive and their facts are facts of one matrix each; TLC computes them.

## Findings

- `BatchQueue_lost`: `ParallelSolution` pushes a batch only if the main thread has asked for one
  (`sol/ParallelSolution.cc:4514`); the batches made before go to `_batch_list`, which
  `Coordinator::repair` never reads. They are not repaired.
- `CodeTest_wrong`: `RSCONV::Decode` (`ec/RSCONV.cc:58`) and `RSPIPE::Decode` (`ec/RSPIPE.cc:47`) invert the
  matrix of the surviving blocks in GF(2^k), and the result is used in GF(2^8). Wherever an
  element of the inverse differs in the two fields, what is repaired is not what was lost: two of the six
  pairs of RSCONV(4,2), five of the ten of RSPIPE(5,3). With one failure, and with k = 8, `CodeTest` finds the
  repair right.

## Remarks on the code

What was met while modelling, and how the models treat it.

*Hand-over and dispatch.* If `ParallelSolution`'s last batch goes to `_batch_list`, the main thread, having
seen the finish flag clear, waits in `pop` for ever; the comment at `common/Coordinator.cc:172` ("卡住了",
stuck) is about this line. No property of `BatchQueue` says that the main thread returns with
`ParallelSolution`; `AllRepaired` says with all three solutions that what is queued is repaired in the end. With several failed nodes
in the standby scenario `Coordinator` replaces each by the same node id (`Coordinator.cc:130`).

*Tasks of a stripe.* `genLastLevel` runs for the last level only (`common/Stripe.cc:949`): when two lost
blocks are complete on different levels, as both parity blocks of HHXORPlus(7,4), the earlier one is
computed and never written. When a lost block is complete on an earlier level than one that is computed
from it, as data blocks 0 and 1 of HHXORPlus(7,4,2), its queue is popped by a compute thread and by a
persist thread of the same node and one of them waits for ever (`Worker.cc:1395`). `StripeTasks` has
both stripes: `AllPersisted` says which blocks are written and which are not, `NothingUnread` what is then left in a
queue, and `OneReader` which queues have several readers. `StripePipeline` leaves them out
(`ThreadsAssumption`). A concat vertex before the last level is computed like any other vertex, but
`ECDAG::Concact` gave it a coefficient for each lost sub-packet of the stripe and the agent expects one for each
of its own (`ec/ECDAG.cc:104-127`, `ec/Task.hh:46`): the agent takes coefficients for its uses, which
`ReadsAs` leaves open for such vertices.

*Codes.* Besides those of the finding, these repairs are not right and are left out of `CodeTest`, each
with the reason in `MCCodeTest`: HHXORPlus where the
chosen rows are singular (`ec/HHXORPlus.cc:579-583`); BUTTERFLY's last parity node, whose coefficient vector
is never filled (`ec/BUTTERFLY.cc:640`): the agent that reads the command reads past its end; Clay(5,2) with
blocks 2,4 or 3,4 lost (`ec/Clay.cc`, about 1720-1731), where a survivor is taken for one that is not
read. `RDP` returns NULL for more than one failure.

*Coloring.* A concat vertex that is a sibling of other vertices is recolored with them, and its block is
then repaired on a node that holds another block of the stripe (`sol/ParallelSolution.cc:2180`).
`RepairedApart` says it of all other concat vertices (`StayingConcats`), and the batch `xorPair` of `ColoringLoad`
has one of these.
`LoadsAreExact` is claimed for the second coloring only where no vertex belongs to two groups of siblings:
elsewhere `changeColor` takes flows off the counts that it does not add again. `TableIsGlobal` is claimed
for method 0 only: with method 1 the table is emptied before the second coloring of every stripe.
`evaluateChange2` counts the children of the first sibling only. All three cost balance, not correctness:
loads are counted from scratch before colorings are compared. In the local coloring the scatter scenario may
choose a failed node or one whose block is read, `isBetter3` is not transitive and reads the
outgoing load where its comment says "just consider input", and `Multiple_Coloring` works on a DAG that was
not refreshed.

*Searches.* `genMLP` and `NewgenMLP` color the first `fail_num` headers only; `genSol` ends only if a good
point exists; `s == NULL;` is a comparison whose result is dropped. `OfflineSolution` may put a repaired
block on a node that holds an unread block of the stripe (scatter), takes the colors of several failed
blocks for node ids although its comment says otherwise (420-421), and its index, a sum of powers of
two of node numbers, is not looked up with a test: a missing one gives an empty vector that is then read.
For several failed blocks, therefore, no property says that a stripe gets the load that was found for it
(`PlacedAsFound` is about one), only that the loads of a batch add up.
`CentSolution.cc:299` compares an index with node ids and may choose a repair node twice.
`fastLocalSearch` moves nothing.

*Scheduling.* The comments at `common/RepairScheduler.cc:56` and in the header of `RepairScheduler_new.hh` say
`>=` where the code has `>`; the code is right, by `LossIsUnavoidable` the weaker test costs no
data. The comment about a partial repair that counts as a full one ("算作全量修复", about line 248 of
`RepairScheduler_new.hh`) is not what `executePartialRepair` does. Lost stripes are counted again every day.
`applyRepairCost` (`RepairSimulator_new.cc:92`) judges a stripe by the nodes of the round alone, so the partial
repair of a lost stripe is charged as if it were possible; `LostIsChargedInPart` says when: under three of the
strategies, and only while other failed nodes of the stripe wait. Strategies 3, 4 and 5 have no
caller in `main`. A round with no failed node is possible in `RepairScheduler`, when a large event follows
an empty one.

## Not modelled

- Crashes and restarts. The code has no time-out and no recovery, so every crash is a hang; start-up
  flushes redis.
- Bytes: the layout of fields, files, configuration, computation on packets (`ec/Computation.cc`).
- `Brute_Force.cc` and `dist/NewBruteForce.cc`, whose searches enumerate all colorings; the trace generators, the
  neural predictor, statistics and plots; vendored libraries.
- Code without a live caller: `ec/ECDAG.cc` 129-2100 (in comments); in `ParallelSolution` `hungary`,
  `if_insert`, `replace`, `improve*`, `choose`, `genColoringForMultipleFailureLevel` and its variants
  `Global` and `New1`, the second generators at 4236 and 4330, `NewTest`, `evalTable`, `changeColor2`,
  `SingleMLPAll`, `greedyBinPack*`, `isBetter4`; in `Worker` `prepareBQ` and the `group` variants.

## Plan

The modules of the plan are written: every part of the list above that is modelled has its module, its runs, and,
but for the codes, its proofs. The last component that was proved is the search of the tradeoff curve with
the coloring of stripes that rests on it (`OfflineColoring_proofs`). To reason about them, walks over the curve
and sums over batches are recursive functions in the models, and the assumptions on DAGs and stripes have names.

What a next step would be: the queues of the threads under failures, once the code has time-outs to model; and
the facts of `CodeTest` for every size of the codes, for which the matrices would have to be reasoned about
algebraically. The rest is listed under [What stays with TLC](#what-stays-with-tlc).
