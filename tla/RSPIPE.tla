-------------------------------- MODULE RSPIPE --------------------------------
(***************************************************************************)
(* RSPIPE(n, k): the code of RSCONV, repaired by chains of additions of    *)
(* two sub-packets; intermediate results are numbered from n on.           *)
(***************************************************************************)
EXTENDS RSCONV

Chain(from, coefs, lost, first) ==
  LET result(j) == IF j = k - 1 THEN lost ELSE first + j - 1
  IN  [j \in 1 .. k - 1 |->
         JoinOf(result(j),
                <<IF j = 1 THEN from[1] ELSE result(j - 1), from[j + 1]>>,
                <<IF j = 1 THEN coefs[1] ELSE 1, coefs[j + 1]>>)]

PipeDecode(from, to) ==
  LET inverse == SelectedInverse(from)
      chain(i) == Chain(from, Times(RSMatrix[to[i] + 1], inverse, 8), to[i],
                        n + ((i - 1) * (k - 2)))
  IN  FlattenSeq([i \in 1 .. Len(to) |-> chain(i)])
=============================================================================
