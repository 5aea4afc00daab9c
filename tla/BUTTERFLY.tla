------------------------------ MODULE BUTTERFLY ------------------------------
(***************************************************************************)
(* The butterfly code BUTTERFLY(k + 2, k, w), w = 2^(k - 1): block k is    *)
(* the parity of the rows (H), block k + 1 the butterfly parity (B).  All  *)
(* its coefficients are one, so a symbol is given by the set of the        *)
(* sub-packets it is the sum of.                                           *)
(***************************************************************************)
EXTENDS ECDag

CONSTANTS k, w

n == k + 2
Half == w \div 2

\* perm_mat is Reverse.
add_mat(m1, m2) == [i \in DOMAIN m1 |-> m1[i] \cup m2[i]]

\* mat is a sequence of rows of sub-packets.
butterfly_func[mat \in Seq(Seq(Nat))] ==
  IF Len(mat) = 1 /\ Len(mat[1]) = 1 THEN <<{mat[1][1]}>>
  ELSE LET half == Len(mat) \div 2
           first(rows) == [i \in DOMAIN rows |-> {rows[i][1]}]
           sums(rows) == [i \in DOMAIN rows |-> ToSet(rows[i])]
           rest(rows) == [i \in DOMAIN rows |-> Tail(rows[i])]
           upper == SubSeq(mat, 1, half)
           lower == SubSeq(mat, half + 1, Len(mat))
       IN  add_mat(Reverse(first(lower)), butterfly_func[rest(upper)])
             \o Reverse(add_mat(sums(upper), butterfly_func[Reverse(rest(lower))]))

\* Sub-packet row of each of the given blocks.
Row(row, blocks) == [i \in 1 .. Len(blocks) |-> (blocks[i] * w) + row]
Data == [j \in 1 .. k |-> j - 1]
Rows(rows, blocks) == [i \in 1 .. Len(rows) |-> Row(rows[i], blocks)]
AllRows == [i \in 1 .. w |-> i - 1]
enc_vec == butterfly_func[Rows(AllRows, Data)]

XorOf(parent, symbols) ==
  JoinOf(parent, Ascending(symbols), [i \in 1 .. Cardinality(symbols) |-> 1])

\* Encode joins every data sub-packet, with zero coefficients too.
Encode ==
  LET row(symbols) == [j \in 1 .. k * w |-> IF j - 1 \in symbols THEN 1 ELSE 0]
      all == [j \in 1 .. k * w |-> j - 1]
  IN  [i \in 1 .. w |-> JoinOf((k * w) + i - 1, all, row(ToSet(Row(i - 1, Data))))]
        \o [i \in 1 .. w |-> JoinOf(((k + 1) * w) + i - 1, all, row(enc_vec[i]))]

----------------------------------------------------------------------------
Sum(family) == FoldLeft(SymDiff, {}, family)

\* Lost data block b.  The rows in whole are read from the other data blocks and
\* from H and repaired row by row; the i-th row of parity, read from B, repairs
\* the lost sub-packet of its equation that is in no such row.
DataRows(b, whole, parity) ==
  LET others == SelectSeq(Data, LAMBDA j : j # b)
      read == Rows(whole, others)
      h == [i \in DOMAIN whole |-> ToSet(read[i]) \cup {(k * w) + whole[i]}]
      bsum == add_mat(butterfly_func[read],
                      [i \in DOMAIN parity |-> {((k + 1) * w) + parity[i]}])
      repaired(row) == h[CHOOSE i \in DOMAIN whole : whole[i] = row]
      lost(i) == {x % w : x \in {y \in enc_vec[parity[i] + 1] : y \div w = b}}
      equation(row) == CHOOSE i \in DOMAIN parity : row \in lost(i)
      solved(row) ==
        LET i == equation(row)
        IN  Sum(<<bsum[i]>> \o [j \in 1 .. Cardinality(lost(i) \cap ToSet(whole)) |->
                                  repaired(Ascending(lost(i) \cap ToSet(whole))[j])])
  IN  [r \in 1 .. w |-> IF r - 1 \in ToSet(whole) THEN repaired(r - 1) ELSE solved(r - 1)]

Joined(to, rows) == [i \in 1 .. w |-> XorOf(to[i], rows[i])]

\* Situation 1, a data block but the last: half of the rows, the same of all.
HalfRows(b) ==
  SelectSeq(AllRows, LAMBDA i : ((i \div (2 ^ (k - b - 2))) % 4) \in {0, 3})
DecodeData(to, b) == Joined(to, DataRows(b, HalfRows(b), HalfRows(b)))

\* Situation 2, the last data block: the even rows, and the odd ones of B.
DecodeLastData(to) ==
  Joined(to, DataRows(k - 1, SelectSeq(AllRows, LAMBDA i : i % 2 = 0),
                      SelectSeq(AllRows, LAMBDA i : i % 2 = 1)))

\* Situation 3, H: the lower rows directly, the upper ones by B's lower rows.
DecodeH(to) ==
  LET low(symbols) == {x \in symbols : x % w >= Half}
      equation(row) ==
        CHOOSE i \in Half + 1 .. w : \E x \in enc_vec[i] : x % w = row
      upper(row) == low(enc_vec[equation(row)]) \cup {((k + 1) * w) + equation(row) - 1}
  IN  Joined(to, [r \in 1 .. w |-> IF r > Half THEN ToSet(Row(r - 1, Data))
                                   ELSE upper(r - 1)])

\* Situation 4, B: sums of the sub-packets of every data block but the first,
\* with new numbers; the vector of coefficients of the lost sub-packets stays
\* empty, so they are joined from nothing.
DecodeB(to) ==
  LET sum(b, i) == {x \in enc_vec[w + 1 - i] : x \div w = b}
  IN  [m \in 1 .. (k - 1) * Half |->
         XorOf((n * w) + m - 1, sum(1 + ((m - 1) \div Half), 1 + ((m - 1) % Half)))]
        \o [i \in 1 .. w |-> XorOf(to[i], {})]

\* The block of the first lost sub-packet decides.
Decode(from, to) ==
  LET b == to[1] \div w
  IN  CASE b < k - 1 -> DecodeData(to, b)
        [] b = k - 1 -> DecodeLastData(to)
        [] b = k -> DecodeH(to)
        [] OTHER -> DecodeB(to)
=============================================================================
