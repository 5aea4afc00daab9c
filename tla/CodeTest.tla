------------------------------ MODULE CodeTest ------------------------------
(***************************************************************************)
(* What CodeTest checks, for any set of failed blocks: the n blocks of a   *)
(* stripe are computed with the DAG of Encode, the failed ones are         *)
(* dropped, and the DAG of Decode has to give them back.  A sub-packet is  *)
(* the linear form of the data sub-packets it holds: a vector of k * w     *)
(* coefficients in GF(2^8).  A DAG is computed level by level, each vertex *)
(* with one call of Computation::Multi.                                    *)
(***************************************************************************)
EXTENDS Codes, TLC

CONSTANTS Tests       \* records [code, n, k, failed]

VARIABLES test,       \* the arguments
          encdag,     \* the DAG of Encode
          decdag,     \* the DAG of genRepairECDAG
          phase,      \* "encode", "decode" or "done"
          bufs,       \* the sub-packets computed so far, by vertex
          encoded     \* bufs at the end of encoding

vars == <<test, encdag, decdag, phase, bufs, encoded>>

ASSUME TestsAssumption ==
  \A a \in Tests :
    /\ a.k \in Nat \ {0} /\ a.n \in Nat /\ a.k < a.n
    /\ a.failed # {} /\ a.failed \subseteq 0 .. a.n - 1
    /\ Cardinality(a.failed) <= a.n - a.k

----------------------------------------------------------------------------
\* The linear form that is sub-packet v alone, and zeros.
Width == test.k * ecwOf(test)
Zeros == [i \in 1 .. Width |-> 0]
DataForm(v) == [i \in 1 .. Width |-> IF i = v + 1 THEN 1 ELSE 0]

Leaves(dag) == {v \in dag.nodes : dag.childs[v] = <<>>}

\* Computation::Multi of one row; coefficients that are missing are zeros.
Multi(values, coefs) ==
  LET coef(c) == IF c <= Len(coefs) THEN coefs[c] ELSE 0
  IN  [i \in 1 .. Width |->
         XorSum([c \in 1 .. Len(values) |-> singleMulti(coef(c), values[c][i], 8)])]

\* The vertices of the next level.
Ready(dag) ==
  {v \in dag.nodes \ DOMAIN bufs : \A c \in ChildsOf(dag, v) : c \in DOMAIN bufs}
Level(dag) ==
  [v \in Ready(dag) |->
     Multi([c \in DOMAIN dag.childs[v] |-> bufs[dag.childs[v][c]]], dag.coefs[v])]

\* What the buffer of a vertex holds; it is calloc'ed.
Held(buffers, v) == IF v \in DOMAIN buffers THEN buffers[v] ELSE Zeros

Init ==
  /\ \E a \in Tests :
       /\ test = a
       /\ encdag = JoinAll(EncodeJoins(a))
       /\ decdag = genRepairECDAG(a)
  /\ phase = "encode"
  /\ bufs = [v \in Leaves(encdag) |-> DataForm(v)]
  /\ encoded = <<>>

EncodeLevel ==
  /\ phase = "encode" /\ Ready(encdag) # {}
  /\ bufs' = Level(encdag) @@ bufs
  /\ UNCHANGED <<test, encdag, decdag, phase, encoded>>

\* Slip: the buffers of encoding are kept.
StartRepair_kept ==
  /\ phase = "encode" /\ Ready(encdag) = {}
  /\ phase' = "decode"
  /\ encoded' = bufs
  /\ bufs' = bufs
  /\ UNCHANGED <<test, encdag, decdag>>

\* The failed blocks are lost, and leaves that are no block's are zeros.
StartRepair ==
  /\ phase = "encode" /\ Ready(encdag) = {}
  /\ phase' = "decode"
  /\ encoded' = bufs
  /\ bufs' = [v \in Leaves(decdag) |->
                IF v \in Packets(test, Blocks(test) \ test.failed) THEN Held(bufs, v)
                ELSE Zeros]
  /\ UNCHANGED <<test, encdag, decdag>>

DecodeLevel ==
  /\ phase = "decode" /\ Ready(decdag) # {}
  /\ bufs' = Level(decdag) @@ bufs
  /\ UNCHANGED <<test, encdag, decdag, phase, encoded>>

Compare ==
  /\ phase = "decode" /\ Ready(decdag) = {}
  /\ phase' = "done"
  /\ UNCHANGED <<test, encdag, decdag, bufs, encoded>>

Next == EncodeLevel \/ StartRepair \/ DecodeLevel \/ Compare

Spec == Init /\ [][Next]_vars

----------------------------------------------------------------------------
Forms == [1 .. Width -> 0 .. 255]

\* Buffers hold bytes: linear forms over GF(2^8), of vertices of the DAG that is
\* being computed.
TypeOK ==
  /\ test \in Tests
  /\ phase \in {"encode", "decode", "done"}
  /\ DOMAIN bufs \subseteq (IF phase = "encode" THEN encdag ELSE decdag).nodes
  /\ \A v \in DOMAIN bufs : bufs[v] \in Forms

\* The blocks that Decode's DAG computes for the failed ones are the blocks that
\* Encode's DAG computed (the comparison at the end of CodeTest).
RepairedIsLost ==
  phase = "done" =>
    \A v \in Packets(test, test.failed) : Held(bufs, v) = Held(encoded, v)

\* A sub-packet that Decode and Encode give the same number, the uncoupled and
\* the group sub-packets too, is the same sub-packet: a repair that starts from
\* wrong intermediate sub-packets is wrong only for some data.
SharedNumbersAgree ==
  phase # "encode" =>
    \A v \in DOMAIN bufs \cap DOMAIN encoded : bufs[v] = encoded[v]

\* The repair reads nothing that is lost: a failed sub-packet that is not joined,
\* joined too late, or joined from nothing is a leaf below its concat vertex.
ReadsSurvivors == Packets(test, test.failed) \subseteq decdag.nodes \ Leaves(decdag)

\* A single block is repaired from n - 1 helpers that each send w / (n - k)
\* sub-packets, which is what Clay and BUTTERFLY are for.
ReadFrom(b) == Leaves(decdag) \cap Packets(test, {b})
OptimalRead ==
  test.code \in {"Clay", "BUTTERFLY"} /\ Cardinality(test.failed) = 1 =>
    \A b \in Blocks(test) \ test.failed :
      Cardinality(ReadFrom(b)) * (test.n - test.k) = ecwOf(test)

\* Hitchhiker reads for a single block what GetRequiredSymbolsSingle announces.
RequiredIsRead ==
  test.code = "HHXORPlus" /\ Cardinality(test.failed) = 1 =>
    Leaves(decdag) =
      HHXorPlus(test.n, test.k)!GetRequiredSymbolsSingle(CHOOSE b \in test.failed : TRUE)

\* What a repair reads from the other nodes: nothing lost, and for a single block
\* as little as its code promises.
ReadsAsPromised == ReadsSurvivors /\ OptimalRead /\ RequiredIsRead
=============================================================================
