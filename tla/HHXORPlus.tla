------------------------------ MODULE HHXORPlus ------------------------------
(***************************************************************************)
(* Hitchhiker-XOR+ (n, k): two sub-packets per block, a Reed-Solomon code  *)
(* on each, and parities of the first sub-packets of groups of data blocks *)
(* added to the second sub-packets of the parities.  Uncoupled parities,   *)
(* group parities and a spare have symbols from 2 n on.                    *)
(***************************************************************************)
EXTENDS ECDag, GaloisField

CONSTANTS n, k

couple_parity_id == 1
num_groups == n - k - 1

\* The Vandermonde matrix with its first two parity rows swapped.
HHMatrix ==
  LET rs == generate_matrix(n, k)
  IN  [i \in 1 .. n |-> IF i = k + 1 THEN rs[k + 2] ELSE IF i = k + 2 THEN rs[k + 1] ELSE rs[i]]
MatrixRow(node) == HHMatrix[node + 1]
CoupleCoef(node) == MatrixRow(k + couple_parity_id)[node + 1]

\* The data blocks of the groups 1 .. num_groups; the last block is in none.
Group(p) ==
  LET size == k \div num_groups
      last == IF p < num_groups THEN p * size ELSE k - 1
  IN  [i \in 1 .. last - ((p - 1) * size) |-> ((p - 1) * size) + i - 1]
Groups == 1 .. num_groups

layout(sp, node) == (2 * node) + sp
group_code(p) == (2 * n) + p
last_symbol == (2 * n) + (2 * (num_groups + 1)) - 1
uncoupled_code(sp, p) ==
  CASE sp = 0 /\ p = couple_parity_id -> 2 * n
    [] sp = 1 /\ p \in Groups -> (2 * n) + num_groups + p
    [] OTHER -> layout(sp, k + p)
code(sp, p) == layout(sp, k + p)

XorOf(parent, childs) == JoinOf(parent, childs, [i \in DOMAIN childs |-> 1])
Over(seq, symbol(_)) == [i \in 1 .. Len(seq) |-> symbol(seq[i])]

GroupJoin(p) ==
  JoinOf(group_code(p), Over(Group(p), LAMBDA b : layout(0, b)), Over(Group(p), CoupleCoef))
CoupleFirst ==
  XorOf(code(0, couple_parity_id),
        <<uncoupled_code(0, couple_parity_id), uncoupled_code(1, couple_parity_id),
          group_code(couple_parity_id)>>)
CoupleSecond(p) == XorOf(code(1, p), <<uncoupled_code(1, p), group_code(p)>>)

Encode ==
  LET data(sp) == [j \in 1 .. k |-> layout(sp, j - 1)]
      parity(sp) == [i \in 1 .. n - k |->
                       JoinOf(uncoupled_code(sp, i - 1), data(sp), MatrixRow(k + i - 1))]
  IN  parity(0) \o parity(1)
        \o [p \in Groups |-> GroupJoin(p)]
        \o <<CoupleFirst>>
        \o [p \in Groups |-> CoupleSecond(p)]

----------------------------------------------------------------------------
\* The data blocks other than b, and the first parity; the uncoupled parities in
\* terms of their second sub-packets.
SingleNodes(b) == SelectSeq([j \in 1 .. k |-> j - 1], LAMBDA j : j # b) \o <<k>>
SecondOf(b) == Over(SingleNodes(b), LAMBDA j : layout(1, j))
SingleInverse(b) == jerasure_invert_matrix(Over(SingleNodes(b), MatrixRow), 8)
UncoupleJoin(b, inverse, p) ==
  JoinOf(uncoupled_code(1, p), SecondOf(b), Times(MatrixRow(k + p), inverse, 8))

\* The first sub-packet of a block of a group: the group's parity, and from it the
\* equation of the group.
InGroup(b, inverse) ==
  LET mine == CHOOSE p \in Groups : b \in ToSet(Group(p))
      others == SelectSeq(Group(mine), LAMBDA j : j # b)
      size == Len(Group(mine))
      known == [i \in 1 .. size - 1 |->
                  Unit(CHOOSE j \in 1 .. size : Group(mine)[j] = others[i], size)]
      solved == jerasure_invert_matrix(known \o <<Over(Group(mine), CoupleCoef)>>, 8)
  IN  <<UncoupleJoin(b, inverse, mine),
        XorOf(group_code(mine), <<uncoupled_code(1, mine), code(1, mine)>>),
        JoinOf(layout(0, b),
               Over(others, LAMBDA j : layout(0, j)) \o <<group_code(mine)>>,
               solved[CHOOSE j \in 1 .. size : Group(mine)[j] = b])>>

\* That of the last block: all coupled parities are added to the spare symbol.
LastBlock(b, inverse) ==
  LET couples == [i \in 1 .. 2 * num_groups |->
                    LET p == (i + 1) \div 2
                    IN  IF i % 2 = 1 THEN uncoupled_code(1, p)
                        ELSE code(IF p = couple_parity_id THEN 0 ELSE 1, p)]
  IN  [p \in Groups |-> UncoupleJoin(b, inverse, p)]
        \o <<XorOf(last_symbol, couples),
             JoinOf(layout(0, b), <<last_symbol>>, <<singleDivide(1, CoupleCoef(b), 8)>>)>>

\* A lost data block b: its second sub-packet first.
DecodeSingle(b) ==
  LET inverse == SingleInverse(b)
  IN  <<JoinOf(layout(1, b), SecondOf(b), inverse[b + 1])>>
        \o (IF b < k - 1 THEN InGroup(b, inverse) ELSE LastBlock(b, inverse))

\* The first k blocks that are left.
LeftNodes(lost) ==
  SubSeq(SelectSeq([j \in 1 .. n |-> j - 1], LAMBDA j : j \notin lost), 1, k)

\* Several lost blocks, or a parity: the first sub-packets first.
DecodeMultiple(lost) ==
  LET left == LeftNodes(lost)
      failed == Ascending(lost)
      inverse == jerasure_invert_matrix(Over(left, MatrixRow), 8)
      coefs(node) == Times(MatrixRow(node), inverse, 8)
      uncoupled(sp, node) == IF node < k THEN layout(sp, node) ELSE uncoupled_code(sp, node - k)
      from(sp) == Over(left, LAMBDA j : uncoupled(sp, j))
      recover(sp, node) == JoinOf(uncoupled(sp, node), from(sp), coefs(node))
      grouped(node) == node - k \in Groups
      groupOf(node) == IF grouped(node) THEN <<GroupJoin(node - k)>> ELSE <<>>
      coupled == k + couple_parity_id
      uncoupleFirst ==
        IF coupled \notin ToSet(left) THEN <<>>
        ELSE <<XorOf(uncoupled_code(0, couple_parity_id),
                     <<code(0, couple_parity_id), code(1, couple_parity_id)>>)>>
      first == FlattenSeq(Over(failed, LAMBDA j : <<recover(0, j)>> \o groupOf(j)))
      uncoupleSecond ==
        FlattenSeq(Over(SelectSeq(left, grouped), LAMBDA j :
          <<GroupJoin(j - k),
            XorOf(uncoupled_code(1, j - k), <<code(1, j - k), group_code(j - k)>>)>>))
      second == Over(failed, LAMBDA j : recover(1, j))
      couple == (IF coupled \in lost THEN <<CoupleFirst>> ELSE <<>>)
                  \o Over(SelectSeq(failed, grouped), LAMBDA j : CoupleSecond(j - k))
  IN  uncoupleFirst \o first \o uncoupleSecond \o second \o couple

\* Slip: a single data block is repaired like several blocks.
Decode_general(from, to) == DecodeMultiple({v \div 2 : v \in ToSet(to)})

Decode(from, to) ==
  IF Len(to) = 2 /\ to[1] \div 2 < k THEN DecodeSingle(to[1] \div 2)
  ELSE DecodeMultiple({v \div 2 : v \in ToSet(to)})

\* The sub-packets that the repair of one block is said to need.
GetRequiredSymbolsSingle(b) ==
  LET others == (0 .. k - 1) \ {b}
      mine == CHOOSE p \in Groups : b \in ToSet(Group(p))
  IN  IF b >= k THEN {layout(sp, j) : sp \in {0, 1}, j \in 0 .. k - 1}
      ELSE {layout(1, j) : j \in others} \cup {layout(1, k)}
             \cup (IF b < k - 1
                   THEN {layout(0, j) : j \in ToSet(Group(mine)) \ {b}} \cup {code(1, mine)}
                   ELSE {code(1, p) : p \in Groups \ {1}} \cup {code(0, couple_parity_id)})
=============================================================================
