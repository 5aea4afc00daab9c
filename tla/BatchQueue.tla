----------------------------- MODULE BatchQueue -----------------------------
(***************************************************************************)
(* The hand-over of repair batches between the two threads of the          *)
(* coordinator: the generation thread (Coordinator::genRepairSolutionAsync *)
(* calling Solution::genRepairBatches) and the main thread                 *)
(* (Coordinator::repair), through SolutionBase's batch queue, its two      *)
(* flags and its batch list.                                               *)
(*                                                                         *)
(* A step is what one thread does between two accesses to shared state.    *)
(* The flags are plain bools and BlockingQueue::getSize takes no lock, so  *)
(* a size read while a push is in progress may see either answer.          *)
(***************************************************************************)
EXTENDS Integers, Sequences

CONSTANTS
  NumBatches,   \* _num_batches, the batches the failed node's stripes make
  Solutions     \* the Solution classes Coordinator::initRepair may create

ASSUME NumBatchesAssumption == NumBatches \in Nat
ASSUME SolutionsAssumption == Solutions \subseteq {"centralize", "offline", "parallel"}

VARIABLES
  solution,       \* Coordinator::_sol: neither thread changes it
  gen_pc,         \* where the generation thread is
  batchid,        \* loop variable of the generator: the next batch to build
  batch_queue,    \* SolutionBase::_batch_queue, oldest first
  batch_list,     \* SolutionBase::_batch_list
  batch_request,  \* SolutionBase::_batch_request
  finish_gen,     \* SolutionBase::_finish_gen_batches
  coor_pc,        \* where the main thread is in Coordinator::repair
  handled,        \* batch_list of Coordinator::repair: batches taken so far
  repaired        \* the batches whose genRepairTasks has returned

genVars == <<solution, gen_pc, batchid, batch_list, finish_gen>>
coorVars == <<solution, coor_pc, handled, repaired, batch_request>>
vars == <<genVars, coorVars, batch_queue>>

TypeOK ==
  /\ solution \in Solutions
  /\ gen_pc \in {"loop", "test", "push", "list", "done"}
  /\ batchid \in 0 .. NumBatches
  /\ batch_queue \in Seq(0 .. NumBatches - 1)
  /\ batch_list \in Seq(0 .. NumBatches - 1)
  /\ batch_request \in BOOLEAN
  /\ finish_gen \in BOOLEAN
  /\ coor_pc \in {"hasNext", "hasNextSize", "getSize", "request", "pop",
                  "repair", "join", "done"}
  /\ handled \in Seq(0 .. NumBatches - 1)
  /\ repaired \in Seq(0 .. NumBatches - 1)

\* initRepair has created the solution, and genRepairSolutionAsync is called by the
\* generation thread.
Init ==
  /\ solution \in Solutions
  /\ gen_pc = "loop"
  /\ batchid = 0
  /\ batch_queue = <<>>
  /\ batch_list = <<>>
  /\ batch_request = FALSE
  /\ finish_gen = FALSE
  /\ coor_pc = "hasNext"
  /\ handled = <<>>
  /\ repaired = <<>>

----------------------------------------------------------------------------
(* The generation thread *)

\* Slip: the loop runs to batchid <= _num_batches.
CentNextBatch_oneTooMany ==
  /\ solution = "centralize"
  /\ gen_pc = "loop"
  /\ batchid <= NumBatches
  /\ gen_pc' = "push"
  /\ UNCHANGED <<batchid, batch_list, finish_gen, batch_queue, coorVars>>

\* One turn of the loop, for one failed node or for several, builds a batch of up to
\* _batch_size stripes; enqueue is true, so the batch goes to the queue.
CentNextBatch ==
  /\ solution = "centralize"
  /\ gen_pc = "loop"
  /\ batchid < NumBatches
  /\ gen_pc' = "push"
  /\ UNCHANGED <<batchid, batch_list, finish_gen, batch_queue, coorVars>>

OfflineNextBatch ==
  /\ solution = "offline"
  /\ gen_pc = "loop"
  /\ batchid < NumBatches
  /\ gen_pc' = "push"
  /\ UNCHANGED <<batchid, batch_list, finish_gen, batch_queue, coorVars>>

\* ParallelSolution ignores the enqueue parameter and reads the request flag.
ParallelNextBatch ==
  /\ solution = "parallel"
  /\ gen_pc = "loop"
  /\ batchid < NumBatches
  /\ gen_pc' = "test"
  /\ UNCHANGED <<batchid, batch_list, finish_gen, batch_queue, coorVars>>

\* Slip: the two branches of the test are swapped.
TestRequest_swapped ==
  /\ gen_pc = "test"
  /\ gen_pc' = IF batch_request THEN "list" ELSE "push"
  /\ UNCHANGED <<batchid, batch_list, finish_gen, batch_queue, coorVars>>

TestRequest ==
  /\ gen_pc = "test"
  /\ gen_pc' = IF batch_request THEN "push" ELSE "list"
  /\ UNCHANGED <<batchid, batch_list, finish_gen, batch_queue, coorVars>>

\* Slip: push_front instead of push_back.
PushBatch_front ==
  /\ gen_pc = "push"
  /\ batch_queue' = <<batchid>> \o batch_queue
  /\ batchid' = batchid + 1
  /\ gen_pc' = "loop"
  /\ UNCHANGED <<batch_list, finish_gen, coorVars>>

PushBatch ==
  /\ gen_pc = "push"
  /\ batch_queue' = Append(batch_queue, batchid)
  /\ batchid' = batchid + 1
  /\ gen_pc' = "loop"
  /\ UNCHANGED <<batch_list, finish_gen, coorVars>>

ListBatch ==
  /\ gen_pc = "list"
  /\ batch_list' = Append(batch_list, batchid)
  /\ batchid' = batchid + 1
  /\ gen_pc' = "loop"
  /\ UNCHANGED <<finish_gen, batch_queue, coorVars>>

\* Slip: the loop stops one batch early.
FinishGen_early ==
  /\ gen_pc = "loop"
  /\ batchid \in {NumBatches - 1, NumBatches}
  /\ finish_gen' = TRUE
  /\ gen_pc' = "done"
  /\ UNCHANGED <<batchid, batch_list, batch_queue, coorVars>>

FinishGen ==
  /\ gen_pc = "loop"
  /\ batchid = NumBatches
  /\ finish_gen' = TRUE
  /\ gen_pc' = "done"
  /\ UNCHANGED <<batchid, batch_list, batch_queue, coorVars>>

----------------------------------------------------------------------------
(* The main thread *)

\* BlockingQueue::getSize # 0, as the main thread may see it: without the
\* lock, a push in progress may or may not be visible.
SizeReads == IF gen_pc = "push" THEN BOOLEAN ELSE {batch_queue # <<>>}

\* Slip: hasNext looks at the flag only.
HasNextFlag_only ==
  /\ coor_pc = "hasNext"
  /\ coor_pc' = IF finish_gen THEN "join" ELSE "getSize"
  /\ UNCHANGED <<handled, repaired, batch_request, batch_queue, genVars>>

HasNextFlag ==
  /\ coor_pc = "hasNext"
  /\ coor_pc' = IF finish_gen THEN "hasNextSize" ELSE "getSize"
  /\ UNCHANGED <<handled, repaired, batch_request, batch_queue, genVars>>

HasNextSize ==
  /\ coor_pc = "hasNextSize"
  /\ \E nonEmpty \in SizeReads :
       coor_pc' = IF nonEmpty THEN "getSize" ELSE "join"
  /\ UNCHANGED <<handled, repaired, batch_request, batch_queue, genVars>>

GetSize ==
  /\ coor_pc = "getSize"
  /\ \E nonEmpty \in SizeReads :
       coor_pc' = IF nonEmpty THEN "pop" ELSE "request"
  /\ UNCHANGED <<handled, repaired, batch_request, batch_queue, genVars>>

SetRequest ==
  /\ coor_pc = "request"
  /\ batch_request' = TRUE
  /\ coor_pc' = "pop"
  /\ UNCHANGED <<handled, repaired, batch_queue, genVars>>

\* BlockingQueue::pop waits until the queue is not empty; Coordinator::repair
\* records the batch at once.
Pop ==
  /\ coor_pc = "pop"
  /\ batch_queue # <<>>
  /\ handled' = Append(handled, Head(batch_queue))
  /\ batch_queue' = Tail(batch_queue)
  /\ coor_pc' = "repair"
  /\ UNCHANGED <<repaired, batch_request, genVars>>

\* RepairBatch::genRepairTasks returns once every node has finished.
RepairDone ==
  /\ coor_pc = "repair"
  /\ repaired' = Append(repaired, handled[Len(handled)])
  /\ coor_pc' = "hasNext"
  /\ UNCHANGED <<handled, batch_request, batch_queue, genVars>>

JoinGen ==
  /\ coor_pc = "join"
  /\ gen_pc = "done"
  /\ coor_pc' = "done"
  /\ UNCHANGED <<handled, repaired, batch_request, batch_queue, genVars>>

GenNext ==
  \/ CentNextBatch
  \/ OfflineNextBatch
  \/ ParallelNextBatch
  \/ TestRequest
  \/ PushBatch
  \/ ListBatch
  \/ FinishGen

CoorNext ==
  \/ HasNextFlag
  \/ HasNextSize
  \/ GetSize
  \/ SetRequest
  \/ Pop
  \/ RepairDone
  \/ JoinGen

Next == GenNext \/ CoorNext

SafeSpec == Init /\ [][Next]_vars

\* Two operating-system threads, neither of which is starved.
Spec == SafeSpec /\ WF_vars(GenNext) /\ WF_vars(CoorNext)

----------------------------------------------------------------------------
(* Properties *)

\* Every batch built so far is in exactly one of three places, and in order:
\* the list holds the first ones, Coordinator::repair has taken the ones after
\* them, the queue holds the rest.  No batch is lost between the queue and the
\* main thread, none is repaired twice, none overtakes another.
InOrder ==
  /\ \A i \in 1 .. Len(batch_list) : batch_list[i] = i - 1
  /\ \A i \in 1 .. Len(handled) : handled[i] = Len(batch_list) + i - 1
  /\ \A i \in 1 .. Len(batch_queue) :
       batch_queue[i] = Len(batch_list) + Len(handled) + i - 1
  /\ batchid = Len(batch_list) + Len(handled) + Len(batch_queue)

\* When the loop of Coordinator::repair has ended, generation has ended too,
\* the queue is empty, and every batch that ever entered the queue has been
\* repaired: hasNext reads the flag before the size, never the reverse.
NothingLeftBehind ==
  coor_pc \in {"join", "done"} =>
    /\ finish_gen
    /\ batch_queue = <<>>
    /\ repaired = handled
    /\ Len(batch_list) + Len(repaired) = NumBatches

\* Every batch is eventually repaired, even if Coordinator::repair itself may then
\* wait for ever, but for those that the parallel solution keeps in its list.
AllRepaired ==
  <>(/\ Len(batch_list) + Len(repaired) = NumBatches
     /\ batch_list # <<>> => solution = "parallel")

\* The header of genRepairBatches says that a batch is added to the queue when
\* enqueue is true, and the coordinator repairs only what the queue gives it:
\* when the repair command ends, every batch has been repaired.
RepairIsComplete == coor_pc = "done" => Len(repaired) = NumBatches

\* The hand-over implements the abstract relay: batches leave in the order
\* they were made, each once, and only the parallel solution drops some,
\* never after the first delivery.
Relay == INSTANCE BatchRelay WITH
  N <- NumBatches,
  mayLose <- solution = "parallel",
  made <- batchid,
  pending <- batch_queue,
  delivered <- handled

RelaySpec == Relay!Spec
=============================================================================
