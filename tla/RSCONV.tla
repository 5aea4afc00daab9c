-------------------------------- MODULE RSCONV --------------------------------
(***************************************************************************)
(* The Reed-Solomon code RSCONV(n, k): n blocks of one sub-packet, and the *)
(* joins of Encode and Decode.                                             *)
(***************************************************************************)
EXTENDS ECDag, GaloisField

CONSTANTS n, k

RSMatrix == generate_matrix(n, k)

Encode ==
  [i \in 1 .. n - k |-> JoinOf(k + i - 1, [j \in 1 .. k |-> j - 1], RSMatrix[k + i])]

\* The rows of RSMatrix in terms of the first k blocks of from.  The inversion
\* is given k for the width of the field.
SelectedInverse(from) ==
  jerasure_invert_matrix([i \in 1 .. k |-> RSMatrix[from[i] + 1]], k)

Decode(from, to) ==
  LET inverse == SelectedInverse(from)
  IN  [i \in 1 .. Len(to) |->
         JoinOf(to[i], SubSeq(from, 1, k), Times(RSMatrix[to[i] + 1], inverse, 8))]
=============================================================================
