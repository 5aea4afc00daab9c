----------------------------- MODULE GaloisField -----------------------------
(***************************************************************************)
(* Arithmetic in GF(2^w), w <= 8, and the matrices of the codes: what      *)
(* jerasure and galois compute when Computation calls them.  Isa-l         *)
(* computes the data path in GF(2^8) with the same polynomial.             *)
(***************************************************************************)
EXTENDS Integers, Sequences, SequencesExt, TLC

\* The primitive polynomials of galois, by width.
Polynomial == <<3, 7, 11, 19, 37, 67, 137, 285>>

\* Exclusive or of bytes, from that of pairs of bits.
XorOfPairs == <<<<0, 1, 2, 3>>, <<1, 0, 3, 2>>, <<2, 3, 0, 1>>, <<3, 2, 1, 0>>>>
XorTable ==
  LET xor[i \in 0 .. 4, a, b \in 0 .. 255] ==
        IF i = 0 THEN 0
        ELSE (4 * xor[i - 1, a \div 4, b \div 4]) + XorOfPairs[(a % 4) + 1][(b % 4) + 1]
  IN  [p \in 0 .. 65535 |-> xor[4, p \div 256, p % 256]]
Xor(a, b) == XorTable[(256 * a) + b]
XorSum(elements) == FoldLeft(Xor, 0, elements)

\* The powers of 2 and their exponents, by width.
Doubled(x, w) ==
  IF 2 * x < 2 ^ w THEN 2 * x ELSE Xor((2 * x) - (2 ^ w), Polynomial[w] - (2 ^ w))
PowerOf2 ==
  [w \in 1 .. 8 |->
     LET power[e \in 0 .. (2 ^ w) - 2] == IF e = 0 THEN 1 ELSE Doubled(power[e - 1], w)
     IN  power @@ <<>>]
Exponent ==
  [w \in 1 .. 8 |->
     [x \in 1 .. (2 ^ w) - 1 |-> CHOOSE e \in DOMAIN PowerOf2[w] : PowerOf2[w][e] = x]]

\* Products and quotients.
singleMulti(x, y, w) ==
  IF x = 0 \/ y = 0 THEN 0
  ELSE PowerOf2[w][(Exponent[w][x] + Exponent[w][y]) % ((2 ^ w) - 1)]
singleDivide(x, y, w) ==
  IF x = 0 THEN 0 ELSE PowerOf2[w][(Exponent[w][x] - Exponent[w][y]) % ((2 ^ w) - 1)]

----------------------------------------------------------------------------
\* A matrix is a sequence of rows.  Tuple(f, n) is f as a sequence that is
\* computed at once.
Tuple(f, n) == SubSeq(f, 1, n)

\* 1, b, b^2, ...
Powers(b, k) ==
  LET power[e \in 1 .. k] == IF e = 1 THEN 1 ELSE singleMulti(power[e - 1], b, 8)
  IN  Tuple(power, k)
Unit(i, n) == [j \in 1 .. n |-> IF i = j THEN 1 ELSE 0]

\* The k rows of the identity, and n - k rows of powers of 1, 2, ...
generate_matrix(n, k) ==
  Tuple([i \in 1 .. n |-> IF i <= k THEN Unit(i, k) ELSE Powers(i - k, k)], n)

\* A row with factor times another added.
RowPlus(row, factor, other, w) ==
  Tuple([j \in DOMAIN row |-> Xor(row[j], singleMulti(factor, other[j], w))], Len(row))
Scaled(row, factor, w) == RowPlus([j \in DOMAIN row |-> 0], factor, row, w)

\* Gauss-Jordan on [matrix | identity]: a zero pivot is swapped with the first
\* row below that has none, rows are cleared downwards and then upwards.
NoPivot(rows, i) == \A j \in i .. Len(rows) : rows[j][i] = 0
FirstPivot(rows, i) ==
  CHOOSE j \in i .. Len(rows) : rows[j][i] # 0 /\ \A m \in i .. j - 1 : rows[m][i] = 0
Swapped(rows, i, j) == [rows EXCEPT ![i] = rows[j], ![j] = rows[i]]
Cleared(rows, i, range, w) ==
  Tuple([r \in DOMAIN rows |->
           IF r \in range THEN RowPlus(rows[r], rows[r][i], rows[i], w) ELSE rows[r]],
        Len(rows))
UnitPivot(rows, i, w) ==
  [rows EXCEPT ![i] = Scaled(rows[i], singleDivide(1, rows[i][i], w), w)]
ClearBelow(rows, i, w) ==
  Cleared(UnitPivot(Swapped(rows, i, FirstPivot(rows, i)), i, w), i, i + 1 .. Len(rows), w)

\* A singular matrix leaves the inverse as it is when there is no pivot: nobody
\* looks at the result -1.
Solved(upper, w) ==
  LET solved[i \in 0 .. Len(upper.rows)] ==
        IF i = 0 THEN upper.rows
        ELSE Cleared(solved[i - 1], Len(upper.rows) + 1 - i, 1 .. Len(upper.rows) - i, w)
  IN  IF upper.regular THEN solved[Len(upper.rows)] ELSE upper.rows
Advanced(before, i, w) ==
  IF before.regular /\ ~ NoPivot(before.rows, i)
  THEN [rows |-> ClearBelow(before.rows, i, w), regular |-> TRUE]
  ELSE [before EXCEPT !.regular = FALSE]
Upper(rows, w) ==
  LET upper[i \in 0 .. Len(rows)] ==
        IF i = 0 THEN [rows |-> rows, regular |-> TRUE] ELSE Advanced(upper[i - 1], i, w)
  IN  upper[Len(rows)]
RightHalf(rows) == [i \in DOMAIN rows |-> SubSeq(rows[i], Len(rows) + 1, 2 * Len(rows))]
jerasure_invert_matrix(matrix, w) ==
  RightHalf(Solved(Upper([r \in DOMAIN matrix |-> matrix[r] \o Unit(r, Len(matrix))], w), w))

\* jerasure_matrix_multiply of one row.
Times(row, matrix, w) ==
  Tuple([j \in 1 .. Len(matrix[1]) |->
           XorSum([i \in 1 .. Len(matrix) |-> singleMulti(row[i], matrix[i][j], w)])],
        Len(matrix[1]))
=============================================================================
