----------------------------- MODULE StripeTasks -----------------------------
(***************************************************************************)
(* Stripe::genRepairTasks: from the repair DAG of a stripe and its         *)
(* coloring (which node computes which vertex) to the tasks that each node *)
(* executes, level by level; and the commands by which the nodes get them. *)
(*                                                                         *)
(* The containers that the code fills in the iteration order of an         *)
(* unordered_map are sets here; the order in which a task lists its        *)
(* vertices is not decided by the code.                                    *)
(***************************************************************************)
EXTENDS TaskCommand

CONSTANTS
  Stripes,      \* the stripes to choose from
  DagOf,        \* DagOf[s]: the repair DAG of stripe s
  EcnOf,        \* EcnOf[s], EcwOf[s]: blocks per stripe, sub-packets per block
  EcwOf,
  FailedOf,     \* FailedOf[s]: the failed blocks
  ColoringsOf,  \* ColoringsOf[s]: the colorings a Solution may choose
  Fail2Repair   \* Coordinator::_fail2repair, a function on node ids

LevelsOf == [s \in Stripes |-> Levels(DagOf[s])]
LastOf == [s \in Stripes |-> NumLevels(DagOf[s]) - 1]
NoColor == -1

\* The concat vertices of a stripe, and what genRepairTasks takes them to be: the
\* last level.  Nothing in the code sees to that.
ConcatsOf(s) == {Requestor - b : b \in FailedOf[s]}
ConcatsAreLast(s) == LevelsOf[s][LastOf[s]] = ConcatsOf(s)

\* What Join, Concact and refreshECDAG make of the codes' DAGs: no vertex but a
\* concat vertex is on the last level, and a concat vertex is nobody's child.
ASSUME DagsAssumption ==
  \A s \in Stripes :
    LET dag == DagOf[s]
    IN  /\ IsFiniteSet(dag.nodes) /\ dag.nodes \subseteq Nat
        /\ dag.childs \in [dag.nodes -> Seq(dag.nodes)]
        /\ dag.coefs \in [dag.nodes -> Seq(Int)]
        /\ \A v \in dag.nodes \ ConcatsOf(s) : Len(dag.coefs[v]) = Len(dag.childs[v])
        /\ Remaining(dag)[Cardinality(dag.nodes)] = {}
        /\ EcnOf[s] \in Nat /\ EcwOf[s] \in Nat \ {0} /\ FailedOf[s] \subseteq Nat
        /\ LastOf[s] > 0
        /\ LevelsOf[s][LastOf[s]] \subseteq ConcatsOf(s) /\ ConcatsOf(s) \subseteq dag.nodes
        /\ \A v \in ConcatsOf(s) : ParentsOf(dag, v) = {}
        /\ \A b \in FailedOf[s] : dag.childs[Requestor - b] = SubPackets(b, EcwOf[s])

\* The failed node's color becomes that of the node that replaces it.
Recolored(col) ==
  [v \in DOMAIN col |-> IF col[v] \in DOMAIN Fail2Repair THEN Fail2Repair[col[v]] ELSE col[v]]

\* A sub-packet of a virtual block, or one that is computed from such only.
IsZero(s, col, v) ==
  IF v \in LevelsOf[s][0] THEN v \div EcwOf[s] >= EcnOf[s] ELSE col[v] = NoColor

\* What the colorings of all solutions have in common: a block is on one node,
\* and whatever is computed from data, or written, has a node.
IsColoring(s, col) ==
  LET dag == DagOf[s]
  IN  /\ col \in [dag.nodes -> Int]
      /\ \A v \in LevelsOf[s][0] : ~ IsZero(s, col, v) =>
           /\ col[v] # NoColor
           /\ \A w \in LevelsOf[s][0] :
                v \div EcwOf[s] = w \div EcwOf[s] => col[v] = col[w]
      /\ \A p \in dag.nodes : col[p] = NoColor => \A v \in ChildsOf(dag, p) : IsZero(s, col, v)
      /\ \A v \in LevelsOf[s][LastOf[s]] : col[v] # NoColor

ASSUME ColoringsAssumption ==
  \A s \in Stripes : \A col \in ColoringsOf[s] : IsColoring(s, Recolored(col))

VARIABLES
  stripe,    \* the stripe
  coloring,  \* Stripe::_coloring: vertex to node, -1 for a zero vertex
  level,     \* the level to generate; -1 before the colors are remapped, and
             \* LastLevel + 2 when the nodes have their tasks
  tasks      \* Stripe::_taskmap, each task with the node it is for

vars == <<stripe, coloring, level, tasks>>

Dag == DagOf[stripe]
VerticesOf(l) == LevelsOf[stripe][l]
LastLevel == LastOf[stripe]

\* The distinct colors of a vertex's parents.
ParentColors(v) == {coloring[p] : p \in ParentsOf(Dag, v)}

\* The usage pair of a vertex: it is needed at its own node, and elsewhere.
Same(v) == coloring[v] \in ParentColors(v)
SendTo(v) == ParentColors(v) \ {coloring[v]}
Diff(v) == SendTo(v) # {}

\* A task record; sendto is used by send tasks only, items by compute tasks.  The
\* level is not sent to the node: it is there for the properties.
NewTask(l, node, type, blk, list) ==
  [node |-> node, type |-> type, level |-> l, blk |-> blk, list |-> list,
   same |-> {}, diff |-> {}, sendto |-> <<>>, items |-> <<>>]

\* The ComputeItems of some vertices.
ItemsOf(vs) == [v \in vs |-> [srcs |-> Dag.childs[v], coefs |-> Dag.coefs[v]]]

----------------------------------------------------------------------------
(* What each level adds *)

\* One read task per block, at the node of the block.
ReadTasks(vs) ==
  LET ofBlock(b) == {v \in vs : v \div EcwOf[stripe] = b}
      node(b) == coloring[CHOOSE v \in ofBlock(b) :
                            \A w \in ofBlock(b) : v <= w]
  IN  {[NewTask(0, node(b), "read", b, ofBlock(b)) EXCEPT
          !.same = {v \in ofBlock(b) : Same(v)},
          !.diff = {v \in ofBlock(b) : Diff(v)}] :
         b \in {v \div EcwOf[stripe] : v \in vs}}

\* A zero block is read wherever a parent is.
ZeroTasks(l, vs) ==
  LET ofNode(n) == {v \in vs : n \in ParentColors(v)}
  IN  {[NewTask(l, n, "read", ZeroBlock, ofNode(n)) EXCEPT !.same = ofNode(n)] :
         n \in (UNION {ParentColors(v) : v \in vs}) \ {NoColor}}

\* Slip: one task per vertex, so that tasks share their inputs.
ComputeTasks_perVertex(l, vs) ==
  {[NewTask(l, coloring[v], "compute", ZeroBlock, {v}) EXCEPT
      !.items = ItemsOf({v}),
      !.same = {u \in {v} : Same(u)}, !.diff = {u \in {v} : Diff(u)}] : v \in vs}

\* All vertices of the level that a node computes are one task.
ComputeTasks(l, vs) ==
  LET ofNode(n) == {v \in vs : coloring[v] = n}
  IN  {[NewTask(l, n, "compute", ZeroBlock, ofNode(n)) EXCEPT
          !.items = ItemsOf(ofNode(n)),
          !.same = {v \in ofNode(n) : Same(v)},
          !.diff = {v \in ofNode(n) : Diff(v)}] : n \in {coloring[v] : v \in vs}}

\* Slip: a send task also for nodes that have nothing to send.
SendTasks_empty(l, vs) ==
  LET ofNode(n) == {v \in vs : coloring[v] = n /\ Diff(v)}
  IN  {[NewTask(l, n, "send", ZeroBlock, ofNode(n)) EXCEPT
          !.sendto = [v \in ofNode(n) |-> SendTo(v)]] : n \in {coloring[v] : v \in vs}}

SendTasks(l, vs) ==
  LET ofNode(n) == {v \in vs : coloring[v] = n /\ Diff(v)}
  IN  {[NewTask(l, n, "send", ZeroBlock, ofNode(n)) EXCEPT
          !.sendto = [v \in ofNode(n) |-> SendTo(v)]] :
         n \in {coloring[v] : v \in {u \in vs : Diff(u)}}}

RecvTasks(l, vs) ==
  LET ofNode(n) == {v \in vs : n \in SendTo(v)}
  IN  {NewTask(l, n, "recv", ZeroBlock, ofNode(n)) :
         n \in UNION {SendTo(v) : v \in vs}}

\* The concat vertices of the last level: each is a repaired block.
PersistTasks(l, vs) ==
  {NewTask(l, coloring[v], "persist", Requestor - v, ChildsOf(Dag, v)) : v \in vs}

----------------------------------------------------------------------------
Init ==
  /\ stripe \in Stripes
  /\ coloring \in ColoringsOf[stripe]
  /\ level = -1
  /\ tasks = {}

Recolor ==
  /\ level = -1
  /\ coloring' = Recolored(coloring)
  /\ level' = 0
  /\ UNCHANGED <<stripe, tasks>>

GenLevel0 ==
  /\ level = 0
  /\ LET leaves == VerticesOf(0)
         real == {v \in leaves : v \div EcwOf[stripe] < EcnOf[stripe]}
     IN  tasks' = tasks \cup ReadTasks(real) \cup SendTasks(0, real)
                        \cup RecvTasks(0, real) \cup ZeroTasks(0, leaves \ real)
  /\ level' = level + 1
  /\ UNCHANGED <<stripe, coloring>>

GenIntermediateLevels ==
  /\ level > 0
  /\ level < LastLevel
  /\ LET vs == VerticesOf(level)
         real == {v \in vs : coloring[v] # NoColor}
     IN  tasks' = tasks \cup ComputeTasks(level, real) \cup SendTasks(level, real)
                        \cup RecvTasks(level, real) \cup ZeroTasks(level, vs \ real)
  /\ level' = level + 1
  /\ UNCHANGED <<stripe, coloring>>

\* Slip: only one block is persisted.
GenLastLevel_single ==
  /\ level > 0
  /\ level = LastLevel
  /\ tasks' = tasks \cup PersistTasks(level, {Max(VerticesOf(level))})
  /\ level' = level + 1
  /\ UNCHANGED <<stripe, coloring>>

GenLastLevel ==
  /\ level > 0
  /\ level = LastLevel
  /\ tasks' = tasks \cup PersistTasks(level, VerticesOf(level))
  /\ level' = level + 1
  /\ UNCHANGED <<stripe, coloring>>

----------------------------------------------------------------------------
(* The commands *)

TasksOf(n) == {t \in tasks : t.node = n}
TaskNodes == {t.node : t \in tasks}

\* recvBatchTasks: node n takes as many commands as the request says, and for
\* every vertex of a compute task the command with the key of the vertex.
TasksReceived(n) ==
  LET sent == Listed(TasksOf(n))
      request == AgentCommand(0, 0, Len(sent))
      computed == {t \in TasksOf(n) : t.type = "compute"}
      items == [v \in UNION {t.list : t \in computed} |->
                  ItemCommand(CHOOSE t \in computed : v \in t.list, v)]
      taken == {<<t.level, Command(t)>> : t \in ToSet(SubSeq(sent, 1, request[4]))}
  IN  {Resolved(n, c[1], c[2], items) : c \in taken}

\* Every node gets the commands of its tasks.
SendCommands ==
  /\ level = LastLevel + 1
  /\ tasks' = UNION {TasksReceived(n) : n \in TaskNodes}
  /\ level' = level + 1
  /\ UNCHANGED <<stripe, coloring>>

Next == \/ Recolor \/ GenLevel0 \/ GenIntermediateLevels \/ GenLastLevel
        \/ SendCommands

Spec == Init /\ [][Next]_vars

----------------------------------------------------------------------------
(* The data queues of the nodes, as the tasks use them *)

\* The queues that a task pops, and those that it pushes to, at its node: for a
\* vertex v the queue v, and the queue -v ("out") that the node sends from.
Pops(t) ==
  CASE t.type = "compute" ->
         {<<"local", c>> : c \in UNION {ToSet(t.items[v].srcs) : v \in t.list}}
    [] t.type = "persist" -> {<<"local", c>> : c \in t.list}
    [] t.type = "send" -> {<<"out", v>> : v \in t.list}
    [] OTHER -> {}

Pushes(t) ==
  CASE t.type \in {"read", "compute"} ->
         {<<"local", v>> : v \in t.same} \cup {<<"out", v>> : v \in t.diff}
    [] t.type = "recv" -> {<<"local", v>> : v \in t.list}
    [] OTHER -> {}

Received == level = LastLevel + 2

----------------------------------------------------------------------------
(* Properties *)

TypeOK ==
  /\ stripe \in Stripes
  /\ DOMAIN coloring = Dag.nodes
  /\ level \in -1 .. LastLevel + 2
  /\ \A t \in tasks :
       /\ t.type \in {"read", "send", "recv", "compute", "persist"}
       /\ t.level \in 0 .. level - 1
       /\ t.list # {} /\ t.list \subseteq Dag.nodes
       /\ t.same \cup t.diff \subseteq t.list

\* A node sends a vertex to another node exactly if that node has a receive
\* task for it, exactly one node sends it there, and none sends to itself.
SendsMatchReceives ==
  Received => \A n \in TaskNodes, v \in Dag.nodes :
    LET senders == {t \in tasks : /\ t.type = "send"
                                  /\ v \in t.list
                                  /\ n \in t.sendto[v]}
        receivers == {t \in TasksOf(n) : t.type = "recv" /\ v \in t.list}
    IN  /\ Cardinality(senders) = Cardinality(receivers)
        /\ Cardinality(senders) <= 1
        /\ \A t \in senders : t.node # n

\* No command is longer than its buffer, which every write may double once.
CommandsFit ==
  level = LastLevel + 1 => \A t \in tasks :
    /\ Fits(Sizes(t), TaskLen)
    /\ t.type = "compute" =>
         \A v \in t.list : Fits(Words(ItemCommand(t, v)), ComputeLen)
    /\ Fits(Words(AgentCommand(0, 0, Cardinality(TasksOf(t.node)))), AgentLen)

\* What a node reads from its commands is what the coordinator wrote: field by
\* field, though each side has its own list of fields, and every task.  A concat
\* vertex on an intermediate level is the exception: ECDAG::Concact gives it a
\* coefficient for each lost sub-packet of the stripe, and the node expects one for
\* each source, so it takes coefficients for the usage.
ReadsAs(r, t) ==
  /\ <<r.node, r.type, r.level, r.blk, r.list, r.sendto>>
       = <<t.node, t.type, t.level, t.blk, t.list, t.sendto>>
  /\ DOMAIN r.items = DOMAIN t.items
  /\ \A v \in DOMAIN t.items : r.items[v].srcs = t.items[v].srcs
  /\ \A v \in t.list \ ConcatsOf(stripe) :
       /\ v \in r.same <=> v \in t.same
       /\ v \in r.diff <=> v \in t.diff
       /\ v \in DOMAIN t.items => r.items[v] = t.items[v]
CommandsAreRead ==
  [][level = LastLevel + 1 =>
       /\ \A t \in tasks : \E r \in tasks' : ReadsAs(r, t)
       /\ \A r \in tasks' : \E t \in tasks : ReadsAs(r, t)
       /\ ConcatsAreLast(stripe) => tasks' = tasks]_vars

\* The tasks that the nodes get are the generated ones, and fit together.
TasksArrive == []SendsMatchReceives /\ []CommandsFit /\ CommandsAreRead

\* Every queue that a task pops is filled by exactly one task of its node, of
\* an earlier level (or the same one, for what is sent): no stripe thread waits
\* for data that never comes, nor two of them for each other.
InputsAreFed ==
  Received => \A t \in tasks : \A q \in Pops(t) :
    LET feeders == {u \in TasksOf(t.node) : q \in Pushes(u)}
    IN  /\ Cardinality(feeders) = 1
        /\ \A u \in feeders :
             u.level < t.level \/ (t.type = "send" /\ u.level = t.level)

\* Everything that is pushed to a queue is popped: no data is left behind, but what
\* is computed for a concat vertex, which is not on the last level then.
NothingUnread ==
  Received => \A t \in tasks : \A q \in Pushes(t) :
    q[2] \notin ConcatsOf(stripe) => \E u \in TasksOf(t.node) : q \in Pops(u)

\* The levels on which node n computes, or persists, from vertex v.
UsedOn(n, v) ==
  {l \in 0 .. LastLevel : \E p \in ParentsOf(Dag, v) : coloring[p] = n /\ p \in VerticesOf(l)}

\* Two tasks of a node pop the same queue exactly where the node uses one sub-packet on
\* several levels: a node has one queue for a sub-packet, and one task per level.
\* (On the last level every block has its own.)
OneReader ==
  Received => \A t \in tasks : \A q \in Pops(t) :
    IF q[1] = "local"
    THEN {u.level : u \in {w \in TasksOf(t.node) : q \in Pops(w)}} = UsedOn(t.node, q[2])
         /\ \A u \in TasksOf(t.node) : q \in Pops(u) /\ u.level = t.level => u = t
    ELSE \A u \in TasksOf(t.node) : q \in Pops(u) => u = t

\* The local queues connect tasks in pairs, along the levels: repairStripe starts
\* a thread for each task, and nothing else keeps them from mixing or waiting.
QueuesArePaired == InputsAreFed /\ NothingUnread /\ OneReader

\* Every failed block is written exactly once, by the node of its concat
\* vertex, from all its sub-packets; but a block whose concat vertex is on an earlier
\* level than another's is not written at all.
AllPersisted ==
  Received => \A b \in FailedOf[stripe] :
    {t \in tasks : t.type = "persist" /\ t.blk = b}
      = IF Requestor - b \in VerticesOf(LastLevel)
        THEN {[node |-> coloring[Requestor - b], type |-> "persist",
               level |-> LastLevel, blk |-> b,
               list |-> ToSet(SubPackets(b, EcwOf[stripe])),
               same |-> {}, diff |-> {}, sendto |-> <<>>, items |-> <<>>]}
        ELSE {}
=============================================================================
