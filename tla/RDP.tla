--------------------------------- MODULE RDP ---------------------------------
(***************************************************************************)
(* Row-diagonal parity RDP(n, k, w): with p = k + 1, block k is the parity *)
(* of the rows and block k + 1 that of the diagonals 0 .. w - 1 of the     *)
(* first p blocks.                                                         *)
(***************************************************************************)
EXTENDS ECDag

CONSTANTS n, k, w

p == k + 1

Ones(seq) == [i \in 1 .. Len(seq) |-> 1]
XorOf(parent, childs) == JoinOf(parent, childs, Ones(childs))

Diagonal(idx) == ((idx % w) + (idx \div w)) % p
\* The data of a diagonal, row by row.
diag2data(d) == [r \in 1 .. w |-> (((d - r + 1) % p) * w) + r - 1]

\* The diagonal parities in ascending order of their diagonal.
diag2code ==
  LET code(d) == CHOOSE idx \in p * w .. (n * w) - 1 : Diagonal(idx) = d
  IN  [i \in 1 .. w |-> XorOf(code(i - 1), diag2data(i - 1))]

Encode ==
  [i \in 1 .. w |-> XorOf((k * w) + i - 1, [j \in 1 .. k |-> ((j - 1) * w) + i - 1])]
    \o diag2code

\* A block other than the diagonal parity is repaired row by row.
RowDecode(block) ==
  [i \in 1 .. w |->
     XorOf((block * w) + i - 1,
           [j \in 1 .. p - 1 |-> ((IF j - 1 < block THEN j - 1 ELSE j) * w) + i - 1])]

DiagonalDecode ==
  [i \in 1 .. w |->
     LET idx == ((n - 1) * w) + i - 1 IN XorOf(idx, diag2data(Diagonal(idx)))]

\* Several failed blocks are refused.
Decode(from, to) ==
  IF to[1] \div w # n - 1 THEN RowDecode(to[1] \div w) ELSE DiagonalDecode
=============================================================================
