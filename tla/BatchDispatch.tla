---------------------------- MODULE BatchDispatch ----------------------------
(***************************************************************************)
(* How the coordinator has one batch after the other repaired:             *)
(* RepairBatch::genRepairTasks with the NodeBatchTask threads it starts,   *)
(* the agents' Worker::doProcess loops, and the redis lists between them:  *)
(* "ag_request" and "<batch>:<stripe>:command" at each agent, and          *)
(* "<batch>:<node>:finish" at the coordinator.                             *)
(*                                                                         *)
(* A sender thread pipelines its commands: redisAppendCommand fills a      *)
(* client buffer, and only redisGetReply, when no reply has been read yet, *)
(* writes the buffer to the connection.  What the stripe threads of an     *)
(* agent do is one step here (StripeDone), which needs the nodes that feed *)
(* the stripe to be repairing it too.                                      *)
(***************************************************************************)
EXTENDS Integers, Sequences, FiniteSets

CONSTANTS
  Nodes,        \* agents and repair nodes
  Stripes,      \* stripes to repair
  NumBatches,   \* number of batches
  StripesOf,    \* StripesOf[b]: the stripes of batch b, in order
  TaskNum,      \* TaskNum[s][n]: getTaskNumForNodeId(n) of stripe s
  FeedersOf,    \* FeedersOf[s][n]: nodes whose data n needs to repair s
  Window        \* replies a sender leaves outstanding (10 in the code)

ASSUME BatchesAssumption == NumBatches \in Nat
ASSUME StripesOfAssumption == StripesOf \in [1 .. NumBatches -> Seq(Stripes)]
\* A stripe is in a batch once (BatchPacking checks it of the generators).
ASSUME StripesAreDistinct ==
  \A b \in 1 .. NumBatches : \A i, j \in 1 .. Len(StripesOf[b]) :
    StripesOf[b][i] = StripesOf[b][j] => i = j
ASSUME TaskNumAssumption == TaskNum \in [Stripes -> [Nodes -> Nat]]
ASSUME FeedersAssumption == FeedersOf \in [Stripes -> [Nodes -> SUBSET Nodes]]
ASSUME WindowAssumption == Window \in Nat

VARIABLES
  batch,      \* the batch Coordinator::repair is at
  coor_pc,    \* "send", "wait" or "done": where genRepairTasks is
  waiting,    \* nodes whose waitFinishFlag thread has not returned
  send_pc,    \* per node, where its sendCommands thread is
  count,      \* per node, commands appended to the client buffer
  written,    \* per node, commands written to the connection
  executed,   \* per node, commands the agent's redis has executed
  replyid,    \* per node, replies the sender has consumed
  ag_request, \* per node, the list ag_request of its redis
  command,    \* per node and stripe, the list <batch>:<stripe>:command
  finish,     \* per batch and node, length of the list <batch>:<node>:finish
  agent_pc,   \* per node, where Worker::doProcess is
  agent_batch,\* per node, the batch of its last request
  tasks,      \* per node and stripe, the commands received for the batch
  repaired    \* per node, the stripes whose repairStripe has returned

coorVars == <<batch, coor_pc, waiting>>
sendVars == <<send_pc, count, written, executed, replyid>>
agentVars == <<agent_pc, agent_batch, tasks, repaired>>
vars == <<coorVars, sendVars, agentVars, ag_request, command, finish>>

----------------------------------------------------------------------------
\* nodeid2internalidx: the stripes of the batch for which a node has tasks.
StripeList(b, n) ==
  LET list[i \in 0 .. Len(StripesOf[b])] ==
        IF i = 0 THEN <<>>
        ELSE IF TaskNum[StripesOf[b][i]][n] > 0 THEN Append(list[i - 1], StripesOf[b][i])
        ELSE list[i - 1]
  IN  list[Len(StripesOf[b])]

\* The nodes that get a NodeBatchTask.
Involved(b) == {n \in Nodes : StripeList(b, n) # <<>>}

\* sendkeys and sendcmds of sendTaskCommands: the i-th command that node n gets
\* for batch b, as the stripe that names its key and its number in the stripe.
CommandsUpTo(b, n, k) ==
  LET before[i \in 0 .. k] ==
        IF i = 0 THEN 0 ELSE before[i - 1] + TaskNum[StripeList(b, n)[i]][n]
  IN  before[k]

NumCommands(b, n) == CommandsUpTo(b, n, Len(StripeList(b, n)))

CommandAt(b, n, i) ==
  LET k == CHOOSE j \in 1 .. Len(StripeList(b, n)) :
             CommandsUpTo(b, n, j - 1) < i /\ i <= CommandsUpTo(b, n, j)
  IN  [stripe |-> StripeList(b, n)[k], task |-> i - CommandsUpTo(b, n, k - 1)]

NoTasks == [s \in Stripes |-> <<>>]
Zero == [n \in Nodes |-> 0]

TypeOK ==
  /\ batch \in 1 .. NumBatches + 1
  /\ coor_pc \in {"send", "wait", "done"}
  /\ waiting \subseteq Nodes
  /\ send_pc \in [Nodes -> {"idle", "request", "append", "reply", "drain",
                            "joined"}]
  /\ count \in [Nodes -> Nat]
  /\ written \in [Nodes -> Nat]
  /\ executed \in [Nodes -> Nat]
  /\ replyid \in [Nodes -> Nat]
  /\ ag_request \in [Nodes -> Seq(1 .. NumBatches)]
  /\ command \in [Nodes -> [Stripes -> Seq(Nat)]]
  /\ finish \in [1 .. NumBatches -> [Nodes -> Nat]]
  /\ agent_pc \in [Nodes -> {"read", "recv", "repair"}]
  /\ agent_batch \in [Nodes -> 0 .. NumBatches]
  /\ tasks \in [Nodes -> [Stripes -> Seq(Nat)]]
  /\ repaired \in [Nodes -> SUBSET Stripes]

SendersOf(b) ==
  [n \in Nodes |-> IF n \in Involved(b) THEN "request" ELSE "idle"]

Init ==
  /\ batch = 1
  /\ coor_pc = IF NumBatches = 0 THEN "done" ELSE "send"
  /\ waiting = {}
  /\ send_pc = IF NumBatches = 0 THEN [n \in Nodes |-> "idle"] ELSE SendersOf(1)
  /\ count = Zero
  /\ written = Zero
  /\ executed = Zero
  /\ replyid = Zero
  /\ ag_request = [n \in Nodes |-> <<>>]
  /\ command = [n \in Nodes |-> NoTasks]
  /\ finish = [b \in 1 .. NumBatches |-> Zero]
  /\ agent_pc = [n \in Nodes |-> "read"]
  /\ agent_batch = Zero
  /\ tasks = [n \in Nodes |-> NoTasks]
  /\ repaired = [n \in Nodes |-> {}]

----------------------------------------------------------------------------
(* The sender thread of node n: NodeBatchTask::sendCommands *)

\* sendAGCommand waits for its own reply.
SendRequest(n) ==
  /\ send_pc[n] = "request"
  /\ ag_request' = [ag_request EXCEPT ![n] = Append(@, batch)]
  /\ send_pc' = [send_pc EXCEPT ![n] = "append"]
  /\ UNCHANGED <<coorVars, agentVars, count, written, executed, replyid,
                 command, finish>>

AppendCommand(n) ==
  /\ send_pc[n] = "append"
  /\ count[n] < NumCommands(batch, n)
  /\ count' = [count EXCEPT ![n] = @ + 1]
  /\ send_pc' = [send_pc EXCEPT ![n] =
                   IF count'[n] > Window THEN "reply" ELSE "append"]
  /\ UNCHANGED <<coorVars, agentVars, written, executed, replyid, ag_request,
                 command, finish>>

StartDrain(n) ==
  /\ send_pc[n] = "append"
  /\ count[n] = NumCommands(batch, n)
  /\ send_pc' = [send_pc EXCEPT ![n] = "drain"]
  /\ UNCHANGED <<coorVars, agentVars, count, written, executed, replyid,
                 ag_request, command, finish>>

\* Slip: only a full window writes the buffer, the drain does not.
WriteBuffer_windowOnly(n) ==
  /\ send_pc[n] = "reply"
  /\ written[n] < count[n]
  /\ written' = [written EXCEPT ![n] = count[n]]
  /\ UNCHANGED <<coorVars, agentVars, send_pc, count, executed, replyid,
                 ag_request, command, finish>>

\* redisGetReply writes the buffer unless it already holds a reply.
WriteBuffer(n) ==
  /\ send_pc[n] \in {"reply", "drain"}
  /\ written[n] < count[n]
  /\ written' = [written EXCEPT ![n] = count[n]]
  /\ UNCHANGED <<coorVars, agentVars, send_pc, count, executed, replyid,
                 ag_request, command, finish>>

GetReply(n) ==
  /\ send_pc[n] \in {"reply", "drain"}
  /\ replyid[n] < executed[n]
  /\ replyid' = [replyid EXCEPT ![n] = @ + 1]
  /\ send_pc' = [send_pc EXCEPT ![n] = IF @ = "reply" THEN "append" ELSE @]
  /\ UNCHANGED <<coorVars, agentVars, count, written, executed, ag_request,
                 command, finish>>

\* Slip: the thread returns without the replies it has not read.
SenderReturns_noDrain(n) ==
  /\ send_pc[n] = "drain"
  /\ send_pc' = [send_pc EXCEPT ![n] = "joined"]
  /\ UNCHANGED <<coorVars, agentVars, count, written, executed, replyid,
                 ag_request, command, finish>>

SenderReturns(n) ==
  /\ send_pc[n] = "drain"
  /\ replyid[n] = count[n]
  /\ send_pc' = [send_pc EXCEPT ![n] = "joined"]
  /\ UNCHANGED <<coorVars, agentVars, count, written, executed, replyid,
                 ag_request, command, finish>>

\* The agent's redis executes the RPUSHes in the order they were written.
ExecuteCommand(n) ==
  /\ executed[n] < written[n]
  /\ executed' = [executed EXCEPT ![n] = @ + 1]
  /\ LET c == CommandAt(batch, n, executed'[n])
     IN  command' = [command EXCEPT ![n][c.stripe] = Append(@, c.task)]
  /\ UNCHANGED <<coorVars, agentVars, send_pc, count, written, replyid,
                 ag_request, finish>>

----------------------------------------------------------------------------
(* The main thread: RepairBatch::genRepairTasks *)

JoinSenders ==
  /\ coor_pc = "send"
  /\ \A n \in Involved(batch) : send_pc[n] = "joined"
  /\ coor_pc' = "wait"
  /\ waiting' = Involved(batch)
  /\ UNCHANGED <<batch, sendVars, agentVars, ag_request, command, finish>>

\* Slip: the pop has a timeout, and its empty reply counts as a flag.
TakeFlag_timeout(n) ==
  /\ coor_pc = "wait"
  /\ n \in waiting
  /\ finish' = [finish EXCEPT ![batch][n] = @ - 1]
  /\ waiting' = waiting \ {n}
  /\ UNCHANGED <<batch, coor_pc, sendVars, agentVars, ag_request, command>>

\* A waitFinishFlag thread pops its flag and returns.
TakeFlag(n) ==
  /\ coor_pc = "wait"
  /\ n \in waiting
  /\ finish[batch][n] > 0
  /\ finish' = [finish EXCEPT ![batch][n] = @ - 1]
  /\ waiting' = waiting \ {n}
  /\ UNCHANGED <<batch, coor_pc, sendVars, agentVars, ag_request, command>>

\* Slip: the wait threads are not joined.
NextBatch_noJoin ==
  /\ coor_pc = "wait"
  /\ batch' = batch + 1
  /\ IF batch < NumBatches
     THEN coor_pc' = "send" /\ send_pc' = SendersOf(batch + 1)
     ELSE coor_pc' = "done" /\ send_pc' = [n \in Nodes |-> "idle"]
  /\ waiting' = {}
  /\ count' = Zero
  /\ written' = Zero
  /\ executed' = Zero
  /\ replyid' = Zero
  /\ UNCHANGED <<agentVars, ag_request, command, finish>>

\* All threads have joined: genRepairTasks returns, and Coordinator::repair
\* calls it for the next batch, whose sender threads start.
NextBatch ==
  /\ coor_pc = "wait"
  /\ waiting = {}
  /\ batch' = batch + 1
  /\ IF batch < NumBatches
     THEN coor_pc' = "send" /\ send_pc' = SendersOf(batch + 1)
     ELSE coor_pc' = "done" /\ send_pc' = [n \in Nodes |-> "idle"]
  /\ count' = Zero
  /\ written' = Zero
  /\ executed' = Zero
  /\ replyid' = Zero
  /\ UNCHANGED <<waiting, agentVars, ag_request, command, finish>>

----------------------------------------------------------------------------
(* The agent of node n: Worker::doProcess *)

ReadInstructions(n) ==
  /\ agent_pc[n] = "read"
  /\ ag_request[n] # <<>>
  /\ ag_request' = [ag_request EXCEPT ![n] = Tail(@)]
  /\ agent_batch' = [agent_batch EXCEPT ![n] = Head(ag_request[n])]
  /\ tasks' = [tasks EXCEPT ![n] = NoTasks]
  /\ repaired' = [repaired EXCEPT ![n] = {}]
  /\ agent_pc' = [agent_pc EXCEPT ![n] = "recv"]
  /\ UNCHANGED <<coorVars, sendVars, command, finish>>

\* Where in its list the stripes are whose commands it has not all received.
Missing(n) ==
  {i \in 1 .. Len(StripeList(agent_batch[n], n)) :
     LET s == StripeList(agent_batch[n], n)[i] IN Len(tasks[n][s]) < TaskNum[s][n]}

\* recvBatchTasks pops the commands stripe by stripe, in the order of the list.
RecvTask(n) ==
  /\ agent_pc[n] = "recv"
  /\ \E i \in Missing(n) :
       LET s == StripeList(agent_batch[n], n)[i]
       IN  /\ \A j \in Missing(n) : i <= j
           /\ command[n][s] # <<>>
           /\ tasks' = [tasks EXCEPT ![n][s] = Append(@, Head(command[n][s]))]
           /\ command' = [command EXCEPT ![n][s] = Tail(@)]
  /\ UNCHANGED <<coorVars, sendVars, agent_pc, agent_batch, repaired,
                 ag_request, finish>>

\* repairBatch creates the data maps and starts a thread per stripe.
StartRepair(n) ==
  /\ agent_pc[n] = "recv"
  /\ Missing(n) = {}
  /\ agent_pc' = [agent_pc EXCEPT ![n] = "repair"]
  /\ UNCHANGED <<coorVars, sendVars, agent_batch, tasks, repaired, ag_request,
                 command, finish>>

\* Node m has started the threads of stripe s.
HasStarted(m, s) ==
  /\ agent_batch[m] # 0
  /\ \E i \in 1 .. Len(StripesOf[agent_batch[m]]) :
       StripesOf[agent_batch[m]][i] = s
  /\ agent_pc[m] # "recv"

\* A stripe thread ends when all its data has come: its feeders have started.
StripeDone(n, s) ==
  /\ agent_pc[n] = "repair"
  /\ \E i \in 1 .. Len(StripeList(agent_batch[n], n)) :
       StripeList(agent_batch[n], n)[i] = s
  /\ s \notin repaired[n]
  /\ \A m \in FeedersOf[s][n] : HasStarted(m, s)
  /\ repaired' = [repaired EXCEPT ![n] = @ \cup {s}]
  /\ UNCHANGED <<coorVars, sendVars, agent_pc, agent_batch, tasks, ag_request,
                 command, finish>>

\* repairBatch joins its threads, deletes the data maps, sends the flag.
SendFinishFlag(n) ==
  /\ agent_pc[n] = "repair"
  /\ \A i \in 1 .. Len(StripeList(agent_batch[n], n)) :
       StripeList(agent_batch[n], n)[i] \in repaired[n]
  /\ finish' = [finish EXCEPT ![agent_batch[n]][n] = @ + 1]
  /\ agent_pc' = [agent_pc EXCEPT ![n] = "read"]
  /\ UNCHANGED <<coorVars, sendVars, agent_batch, tasks, repaired, ag_request,
                 command>>

----------------------------------------------------------------------------
SenderNext(n) ==
  \/ SendRequest(n)
  \/ AppendCommand(n)
  \/ StartDrain(n)
  \/ WriteBuffer(n)
  \/ GetReply(n)
  \/ SenderReturns(n)

CoorNext ==
  \/ JoinSenders
  \/ \E n \in Nodes : TakeFlag(n)
  \/ NextBatch

AgentNext(n) ==
  \/ ReadInstructions(n)
  \/ RecvTask(n)
  \/ StartRepair(n)
  \/ \E s \in Stripes : StripeDone(n, s)
  \/ SendFinishFlag(n)

Next ==
  \/ CoorNext
  \/ \E n \in Nodes : SenderNext(n) \/ ExecuteCommand(n) \/ AgentNext(n)

SafeSpec == Init /\ [][Next]_vars

\* Every thread, redis server and agent process keeps running.
Spec ==
  /\ SafeSpec
  /\ WF_vars(CoorNext)
  /\ \A n \in Nodes : /\ WF_vars(SenderNext(n))
                      /\ WF_vars(ExecuteCommand(n))
                      /\ WF_vars(AgentNext(n))

----------------------------------------------------------------------------
(* Properties *)

\* An agent that has taken a request works on the batch the coordinator is at:
\* no node is ever one batch ahead of, or behind, another one.
OneBatchAtATime ==
  \A n \in Nodes : agent_pc[n] # "read" =>
    /\ agent_batch[n] = batch
    /\ coor_pc \in {"send", "wait"}

\* When a batch starts, nothing of an earlier one is left in any redis list,
\* so no agent can take a stale request, command or finish flag.
CleanStart ==
  (\A n \in Nodes : send_pc[n] \in {"idle", "request"}) =>
    \A n \in Nodes :
      /\ ag_request[n] = <<>>
      /\ command[n] = NoTasks
      /\ \A b \in 1 .. NumBatches : finish[b][n] = 0

\* An agent starts to repair a stripe with all its commands, in the order in
\* which the coordinator generated them, and no other command.
TasksComplete ==
  \A n \in Nodes : agent_pc[n] = "repair" =>
    \A s \in Stripes :
      tasks[n][s] =
        IF \E i \in 1 .. Len(StripesOf[batch]) : StripesOf[batch][i] = s
        THEN [i \in 1 .. TaskNum[s][n] |-> i]
        ELSE <<>>

\* When a sender thread returns, all its commands are in the agent's redis:
\* none is left in the client's buffer.
AllDelivered ==
  \A n \in Nodes : send_pc[n] = "joined" => executed[n] = NumCommands(batch, n)

\* Commands are neither lost in a client's buffer, nor short at an agent, nor left
\* in redis for a later batch.
CommandsArrive == AllDelivered /\ TasksComplete /\ CleanStart

\* Every batch is eventually repaired and the last genRepairTasks returns.
AllBatchesDone == <>(coor_pc = "done")

\* genRepairTasks is a barrier between batches.
Barrier == INSTANCE BatchBarrier WITH
  Last <- NumBatches,
  InvolvedIn <- [b \in 1 .. NumBatches |-> Involved(b)],
  current <- batch,
  finishedBy <-
    {n \in Nodes : /\ coor_pc # "done"
                   /\ n \in Involved(batch)
                   /\ \/ finish[batch][n] > 0
                      \/ coor_pc = "wait" /\ n \notin waiting}

BarrierSpec == Barrier!Spec
=============================================================================
