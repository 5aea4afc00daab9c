----------------------------- MODULE TaskCommand -----------------------------
(***************************************************************************)
(* How the coordinator writes the tasks of a node into commands, and the   *)
(* agent reads them again: Task and ComputeItem, each a list of fields     *)
(* that both sides have to agree on, and AGCommand, which says how many    *)
(* commands there are.  A field is an integer, or the number of the block  *)
(* that a name stands for.                                                 *)
(***************************************************************************)
EXTENDS ECDag

CONSTANTS
  TaskLen,     \* TASK_COMMAND_LEN, COMPUTE_COMMAND_LEN, AGENT_COMMAND_LEN: the
  ComputeLen,  \* bytes of a new buffer
  AgentLen,
  NameLen      \* bytes of a block name

ASSUME LengthsAssumption ==
  /\ {TaskLen, ComputeLen, AgentLen} \subseteq Nat /\ NameLen \in Nat
  /\ 4 <= ComputeLen /\ 4 <= AgentLen /\ 4 + NameLen <= TaskLen

ZeroBlock == -1
Types == <<"read", "send", "recv", "compute", "persist">>

Bit(b) == IF b THEN 1 ELSE 0
Counted(list) == <<Len(list)>> \o list
Ints(cmd, first, num) == SubSeq(cmd, first, first + num - 1)

----------------------------------------------------------------------------
(* Writing *)

\* ComputeItem::buildCommand for vertex v of a compute task.
ItemCommand(t, v) ==
  <<v>> \o Counted(t.items[v].srcs) \o t.items[v].coefs
    \o <<Bit(v \in t.same), Bit(v \in t.diff)>>

\* Slip: first the one use of all vertices, then the other.
UsageFields_grouped(t, list) ==
  [i \in DOMAIN list |-> Bit(list[i] \in t.same)]
    \o [i \in DOMAIN list |-> Bit(list[i] \in t.diff)]

\* The fields after the list of vertices.
UsageFields(t, list) ==
  [k \in 1 .. 2 * Len(list) |->
     IF k % 2 = 1 THEN Bit(list[(k + 1) \div 2] \in t.same)
     ELSE Bit(list[k \div 2] \in t.diff)]

\* The numbers of the tasks that every vertex of a send goes to.
SendToFields(t, list) ==
  LET fields[i \in 0 .. Len(list)] ==
        IF i = 0 THEN <<>>
        ELSE fields[i - 1] \o Counted(Ascending(t.sendto[list[i]]))
  IN  fields[Len(list)]

\* Task::buildTaskCommand.
Command(t) ==
  LET list == Ascending(t.list)
      fields ==
        CASE t.type = "read" ->
               <<t.blk>> \o Counted(list)
                 \o (IF t.blk = ZeroBlock THEN <<>> ELSE UsageFields(t, list))
          [] t.type = "send" -> Counted(list) \o SendToFields(t, list)
          [] t.type \in {"recv", "compute"} -> Counted(list)
          [] t.type = "persist" -> Counted(list) \o <<t.blk>>
  IN  <<(CHOOSE i \in DOMAIN Types : Types[i] = t.type) - 1>> \o fields

\* AGCommand::buildAGCommand for one stripe.
AgentCommand(batch, stripe, num) == <<batch, 1, stripe, num>>

\* A buffer after one more field.  It is doubled once if the field does not fit;
\* ok says whether every field was written inside it.
Written(buffer, size) ==
  LET len == buffer.len + size
      max == IF len > buffer.max THEN 2 * buffer.max ELSE buffer.max
  IN  [len |-> len, max |-> max, ok |-> buffer.ok /\ len <= max]
Fits(sizes, max) ==
  LET buffer[i \in 0 .. Len(sizes)] ==
        IF i = 0 THEN [len |-> 0, max |-> max, ok |-> TRUE]
        ELSE Written(buffer[i - 1], sizes[i])
  IN  buffer[Len(sizes)].ok

\* The sizes of the fields: a name takes its length and its characters.
Sizes(t) ==
  LET cmd == Command(t)
      name == CASE t.type = "read" -> 2 [] t.type = "persist" -> Len(cmd)
                [] OTHER -> 0
  IN  [i \in DOMAIN cmd |-> IF i = name THEN 4 + NameLen ELSE 4]
Words(cmd) == [i \in DOMAIN cmd |-> 4]

----------------------------------------------------------------------------
(* Reading *)

ResolvedItem(cmd) ==
  LET num == cmd[2]
  IN  [dst |-> cmd[1],
       srcs |-> Ints(cmd, 3, num),
       coefs |-> Ints(cmd, 3 + num, num),
       same |-> cmd[3 + 2 * num] # 0,
       diff |-> cmd[4 + 2 * num] # 0]

\* Where the receivers of each vertex are counted in a send command.
Starts(cmd, num) ==
  LET start[i \in 1 .. num] ==
        IF i = 1 THEN 3 + num
        ELSE LET before == start[i - 1] IN before + 1 + cmd[before]
  IN  start

\* Task::Task from a command of level l at node n; items[v] is the command under
\* the key of vertex v.
Resolved(n, l, cmd, items) ==
  LET type == Types[cmd[1] + 1]
      num == IF type = "read" THEN cmd[3] ELSE cmd[2]
      list == IF type = "read" THEN Ints(cmd, 4, num) ELSE Ints(cmd, 3, num)
      item == [v \in ToSet(list) |-> ResolvedItem(items[v])]
      at(i) == 2 + num + 2 * i
      to(i) == Starts(cmd, num)[i]
      named == CASE type = "read" -> cmd[2] [] type = "persist" -> cmd[3 + num]
                 [] OTHER -> ZeroBlock
      inUse(bit, i) ==    \* of a zero block every vertex is pushed locally
        IF named = ZeroBlock THEN bit = 0 ELSE cmd[at(i) + bit] = 1
      used(bit) ==
        CASE type = "read" -> {list[i] : i \in {j \in DOMAIN list : inUse(bit, j)}}
          [] type = "compute" ->
               {v \in ToSet(list) : IF bit = 0 THEN item[v].same ELSE item[v].diff}
          [] OTHER -> {}
  IN  [node |-> n, type |-> type, level |-> l, blk |-> named, list |-> ToSet(list),
       same |-> used(0), diff |-> used(1),
       sendto |-> IF type # "send" THEN <<>>
                  ELSE [v \in ToSet(list) |->
                          LET i == CHOOSE j \in DOMAIN list : list[j] = v
                          IN  ToSet(Ints(cmd, to(i) + 1, cmd[to(i)]))],
       items |-> IF type # "compute" THEN <<>>
                 ELSE [v \in ToSet(list) |->
                         [srcs |-> item[v].srcs, coefs |-> item[v].coefs]]]
=============================================================================
