---------------------------- MODULE StripePipeline ----------------------------
(***************************************************************************)
(* The repair of one stripe by the agents: Worker::repairStripe runs every *)
(* task that StripeTasks generates in a thread of its own, on the node the *)
(* task is for.  Packets go from thread to thread over the packet queues   *)
(* of a node and, between nodes, over the redis lists of the receiver.     *)
(*                                                                         *)
(* The data of a packet is <<v, i>>, the i-th packet of the sub-packet that *)
(* vertex v stands for, or Bad when it was computed from other inputs than *)
(* the children of v, or from different packets of them.                   *)
(***************************************************************************)
EXTENDS StripeTasks

CONSTANTS
  PktNum,   \* packets per block
  Window    \* appended commands after which sendOneByOne reads replies (10)

ASSUME PktNumAssumption == PktNum \in Nat \ {0}
ASSUME WindowAssumption == Window \in Nat

\* Two vertices that a node computes from the same sub-packet are of one level: all
\* tasks of a node share one queue for each sub-packet, and two threads that pop it
\* wait for each other's packets.
SharesByLevel(s, col) ==
  \A v \in DagOf[s].nodes : \A p, q \in ParentsOf(DagOf[s], v) :
    col[p] = col[q] /\ col[p] # NoColor =>
      \E l \in 0 .. LastOf[s] : {p, q} \subseteq LevelsOf[s][l]

\* The stripes whose threads end.  The code does not see to that.
ASSUME ThreadsAssumption ==
  \A s \in Stripes :
    /\ ConcatsAreLast(s)
    /\ \A col \in ColoringsOf[s] : SharesByLevel(s, Recolored(col))

VARIABLES
  running,  \* the agents have started the threads of the stripe
  thread,   \* thread[t]: the local state of the thread of task t
  queue,    \* Worker::_stripe2datamap: the packet queues of all nodes
  redis,    \* the redis lists: redis[<<n, v>>] is the list of v at node n
  file      \* file[b]: the .repair file of block b

pipeVars == <<running, thread, queue, redis, file>>
allVars == <<vars, pipeVars>>

Bad == <<-1, -1>>

\* The vertices that a thread handles in each round, in this order.
RoundOf(t) ==
  Ascending(IF t.type = "compute" THEN UNION {ToSet(t.items[v].srcs) : v \in t.list}
                                ELSE t.list)

\* The nodes to which a thread has a connection.
Connections(t) == IF t.type = "send" THEN UNION {t.sendto[v] : v \in t.list} ELSE {}

\* A thread is in round pkt, at position pos of its round; got are the inputs
\* of a compute round, buffer the commands that hiredis has not written yet to a
\* connection, replylist the receivers that have to reply, count what it has
\* appended.
NewThread(t) ==
  [round |-> RoundOf(t), pkt |-> 0, pos |-> 1, got |-> <<>>,
   buffer |-> [n \in Connections(t) |-> <<>>], replylist |-> <<>>, count |-> 0]

Key(t, q) == <<t.node, q[1], q[2]>>

Current(t) == thread[t].round[thread[t].pos]
IsLast(t) == thread[t].pos = Len(thread[t].round)
HasRounds(t) == thread[t].pkt < PktNum

\* The record of a thread after it has handled the current vertex.
Advanced(t) ==
  IF IsLast(t) THEN [thread[t] EXCEPT !.pkt = @ + 1, !.pos = 1]
               ELSE [thread[t] EXCEPT !.pos = @ + 1]

\* The queues qs after thread t has pushed a packet for each vertex of some, to the
\* queues that its usage says.
Pushed(t, qs, packets) ==
  [k \in DOMAIN qs |->
     IF k[1] = t.node /\ k[3] \in DOMAIN packets /\ <<k[2], k[3]>> \in Pushes(t)
     THEN Append(qs[k], packets[k[3]]) ELSE qs[k]]

----------------------------------------------------------------------------
PipeInit ==
  /\ Init
  /\ running = FALSE
  /\ thread = <<>>
  /\ queue = <<>>
  /\ redis = <<>>
  /\ file = <<>>

Generate == ~ running /\ Next /\ UNCHANGED pipeVars

\* The queues are there before any thread of the stripe starts.
StartThreads ==
  /\ Received
  /\ ~ running
  /\ running' = TRUE
  /\ thread' = [t \in tasks |-> NewThread(t)]
  /\ queue' = [k \in UNION {{Key(t, q) : q \in Pops(t) \cup Pushes(t)} : t \in tasks}
                 |-> <<>>]
  /\ redis' = [k \in UNION {{<<t.node, v>> : v \in t.list} :
                              t \in {u \in tasks : u.type = "recv"}} |-> <<>>]
  /\ file' = [b \in {t.blk : t \in {u \in tasks : u.type = "persist"}} |-> <<>>]
  /\ UNCHANGED vars

----------------------------------------------------------------------------
(* The threads *)

\* Slip: one packet too many.
Read_oneTooMany(t) ==
  /\ t.type = "read"
  /\ thread[t].pkt <= PktNum
  /\ queue' = Pushed(t, queue, [v \in {Current(t)} |-> <<v, thread[t].pkt>>])
  /\ thread' = [thread EXCEPT ![t] = Advanced(t)]
  /\ UNCHANGED <<redis, file>>

\* readRealBlock and readVirtBlock.
Read(t) ==
  /\ t.type = "read"
  /\ HasRounds(t)
  /\ queue' = Pushed(t, queue, [v \in {Current(t)} |-> <<v, thread[t].pkt>>])
  /\ thread' = [thread EXCEPT ![t] = Advanced(t)]
  /\ UNCHANGED <<redis, file>>

\* The result for vertex v of a round in which thread t popped got.
Result(t, v, got) ==
  LET isRight(i) == \A j \in DOMAIN got :
        thread[t].round[j] \in ChildsOf(Dag, v) => got[j] = <<thread[t].round[j], i>>
  IN  IF \E i \in 0 .. PktNum - 1 : isRight(i)
      THEN <<v, CHOOSE i \in 0 .. PktNum - 1 : isRight(i)>> ELSE Bad

\* computeOneByOne pops its inputs one after the other; with the last it
\* computes and pushes all its vertices.
Compute(t) ==
  LET k == <<t.node, "local", Current(t)>>
      got == Append(thread[t].got, Head(queue[k]))
      popped == [queue EXCEPT ![k] = Tail(@)]
  IN  /\ t.type = "compute"
      /\ HasRounds(t)
      /\ queue[k] # <<>>
      /\ IF IsLast(t)
         THEN /\ queue' = Pushed(t, popped, [v \in t.list |-> Result(t, v, got)])
              /\ thread' = [thread EXCEPT ![t] = [Advanced(t) EXCEPT !.got = <<>>]]
         ELSE /\ queue' = popped
              /\ thread' = [thread EXCEPT ![t] = [Advanced(t) EXCEPT !.got = got]]
      /\ UNCHANGED <<redis, file>>

NumReplies(n, list) == Cardinality({i \in DOMAIN list : list[i] = n})

\* The lists after the redis of node n has executed a command, and several in order.
Added(lists, n, c) == [lists EXCEPT ![<<n, c.v>>] = Append(@, c.p)]
Executed(n, cmds) ==
  LET lists[i \in 0 .. Len(cmds)] ==
        IF i = 0 THEN redis ELSE Added(lists[i - 1], n, cmds[i])
  IN  lists[Len(cmds)]

\* redisGetReply for the oldest outstanding command, by thread record th: it
\* writes the buffer of that connection, unless a reply is there already.
GetReply(t, th) ==
  LET n == Head(th.replylist)
  IN  \/ /\ redis' = Executed(n, th.buffer[n])
         /\ thread' = [thread EXCEPT ![t] =
                         [th EXCEPT !.replylist = Tail(@), !.buffer[n] = <<>>]]
      \/ /\ NumReplies(n, th.replylist) > Len(th.buffer[n])
         /\ redis' = redis
         /\ thread' = [thread EXCEPT ![t] = [th EXCEPT !.replylist = Tail(@)]]

\* sendOneByOne pops a packet and appends a command for each receiver; once it
\* has appended more than Window commands it reads one reply per packet.
Send(t) ==
  LET v == Current(t)
      k == <<t.node, "out", v>>
      p == Head(queue[k])
      th == [Advanced(t) EXCEPT
               !.buffer = [n \in DOMAIN @ |-> IF n \in t.sendto[v]
                                              THEN Append(@[n], [v |-> v, p |-> p])
                                              ELSE @[n]],
               !.replylist = @ \o Ascending(t.sendto[v]),
               !.count = @ + Cardinality(t.sendto[v])]
  IN  /\ t.type = "send"
      /\ HasRounds(t)
      /\ queue[k] # <<>>
      /\ queue' = [queue EXCEPT ![k] = Tail(@)]
      /\ IF th.count > Window
         THEN GetReply(t, th)
         ELSE thread' = [thread EXCEPT ![t] = th] /\ redis' = redis
      /\ UNCHANGED file

\* Slip: the replies that are outstanding at the end are not read.
DrainReplies_skipped(t) ==
  /\ t.type = "send"
  /\ ~ HasRounds(t)
  /\ thread[t].replylist # <<>>
  /\ thread' = [thread EXCEPT ![t].replylist = <<>>]
  /\ UNCHANGED <<queue, redis, file>>

DrainReplies(t) ==
  /\ t.type = "send"
  /\ ~ HasRounds(t)
  /\ thread[t].replylist # <<>>
  /\ GetReply(t, thread[t])
  /\ UNCHANGED <<queue, file>>

\* Slip: the replies are distributed vertex by vertex, though the blpops were
\* appended packet by packet.
Recv_reordered(t) ==
  LET k == <<t.node, Current(t)>>
      nth == thread[t].pkt * Len(thread[t].round) + thread[t].pos - 1
      v == thread[t].round[1 + (nth \div PktNum)]
  IN  /\ t.type = "recv"
      /\ HasRounds(t)
      /\ redis[k] # <<>>
      /\ redis' = [redis EXCEPT ![k] = Tail(@)]
      /\ queue' = [queue EXCEPT ![<<t.node, "local", v>>] = Append(@, Head(redis[k]))]
      /\ thread' = [thread EXCEPT ![t] = Advanced(t)]
      /\ UNCHANGED file

\* recvList: the blpops are executed in the order they were appended.
Recv(t) ==
  LET k == <<t.node, Current(t)>>
  IN  /\ t.type = "recv"
      /\ HasRounds(t)
      /\ redis[k] # <<>>
      /\ redis' = [redis EXCEPT ![k] = Tail(@)]
      /\ queue' = Pushed(t, queue, [v \in {Current(t)} |-> Head(redis[k])])
      /\ thread' = [thread EXCEPT ![t] = Advanced(t)]
      /\ UNCHANGED file

\* persist appends what it pops to the file of the block.
Persist(t) ==
  LET k == <<t.node, "local", Current(t)>>
  IN  /\ t.type = "persist"
      /\ HasRounds(t)
      /\ queue[k] # <<>>
      /\ queue' = [queue EXCEPT ![k] = Tail(@)]
      /\ file' = [file EXCEPT ![t.blk] = Append(@, Head(queue[k]))]
      /\ thread' = [thread EXCEPT ![t] = Advanced(t)]
      /\ UNCHANGED redis

Step(t) ==
  /\ running
  /\ \/ Read(t) \/ Compute(t) \/ Send(t) \/ DrainReplies(t) \/ Recv(t) \/ Persist(t)
  /\ UNCHANGED <<vars, running>>

PipeNext == Generate \/ StartThreads \/ \E t \in tasks : Step(t)

\* The threads of the agents are scheduled again and again.  A step of one never
\* takes from another what it waits for, unless two pop the same queue, so this
\* is the fairness of every single thread.
PipeSpec ==
  /\ PipeInit
  /\ [][PipeNext]_allVars
  /\ WF_allVars(PipeNext)

----------------------------------------------------------------------------
(* Properties *)

ThreadDone(t) == ~ HasRounds(t) /\ thread[t].replylist = <<>>
Joined == running /\ \A t \in tasks : ThreadDone(t)

PipeTypeOK ==
  running =>
    /\ DOMAIN thread = tasks
    /\ \A t \in tasks :
         /\ thread[t].pkt \in 0 .. PktNum
         /\ thread[t].pos \in 1 .. Len(thread[t].round)
         /\ thread[t].count \in 0 .. PktNum * Cardinality(Dag.nodes) * Cardinality(TaskNodes)
    /\ \A k \in DOMAIN queue : Len(queue[k]) <= PktNum
    /\ \A k \in DOMAIN redis : Len(redis[k]) <= PktNum

\* Whatever the scheduling and the time at which commands are written, a repair
\* file holds the sub-packets of its block from the first packet on, in order,
\* each the right one.
FilesAreRight ==
  running => \A b \in DOMAIN file :
    LET w == EcwOf[stripe]
    IN  \A i \in DOMAIN file[b] :
          file[b][i] = <<b * w + ((i - 1) % w), (i - 1) \div w>>

\* When the threads have been joined all failed blocks are complete, and
\* nothing is left in a queue, which repairBatch deletes, or in a redis list.
JoinedMeansRepaired ==
  Joined =>
    /\ DOMAIN file = FailedOf[stripe]
    /\ \A b \in DOMAIN file : Len(file[b]) = PktNum * EcwOf[stripe]
    /\ \A k \in DOMAIN queue : queue[k] = <<>>
    /\ \A k \in DOMAIN redis : redis[k] = <<>>

\* At no time has a file anything wrong, and in the end it has everything.
FilesAreRepaired == FilesAreRight /\ JoinedMeansRepaired

\* The threads of every stripe end, so its node can report the batch as done.
ThreadsEnd == <>Joined
=============================================================================
