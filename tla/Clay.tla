-------------------------------- MODULE Clay --------------------------------
(***************************************************************************)
(* The coupled-layer code Clay(n, k) with n - 1 helpers, the only number   *)
(* the programs ask for.  nu virtual chunks of zeros fill the grid of t    *)
(* columns of q chunks; a chunk has w = q^t sub-packets, one per plane z.  *)
(* Chunk c is in row x = c % q of column y = c \div q, and its sub-packet  *)
(* in plane z is paired with one of the same column unless z's y-th digit  *)
(* is x.  Index total * w + i is the uncoupled form of sub-packet i.       *)
(***************************************************************************)
EXTENDS ECDag, GaloisField

CONSTANTS n, k

q == n - k
nu == (q - (n % q)) % q
t == (n + nu) \div q
w == q ^ t
total == n + nu
mds_k == k + nu

\* The virtual chunks come after the data chunks in the grid, and last in the DAG.
RealChunk(c) == IF c < k THEN c ELSE IF c < mds_k THEN n + c - k ELSE c - nu
ChunkOf(real) == IF real < k THEN real ELSE real + nu
Real(idx) ==
  LET c == (idx \div w) % total
  IN  idx + ((RealChunk(c) - c) * w)

Weight(y) == q ^ (t - 1 - y)
Digit(z, y) == (z \div Weight(y)) % q
Unpaired(c, z) == Digit(z, c \div q) = c % q
Uncoupled(c, z) == ((IF Unpaired(c, z) THEN c ELSE c + total) * w) + z

\* The four symbols of a pair: the coupled ones 0 and 1, where 0 is that of the
\* chunk in the higher row, and their uncoupled forms 2 and 3.
Pair(x, y, z) ==
  LET d == Digit(z, y)
      own == (((y * q) + x) * w) + z
      other == (((y * q) + d) * w) + z + ((x - d) * Weight(y))
      first == IF d < x THEN own ELSE other
  IN  [s \in 0 .. 3 |-> (IF s % 2 = 0 THEN first ELSE own + other - first)
                          + (IF s >= 2 THEN total * w ELSE 0)]

PairRows == generate_matrix(4, 2)
PairCoefs ==
  [c \in {c \in (0 .. 3) \X (0 .. 3) \X (0 .. 3) : c[2] < c[3]} |->
     Times(PairRows[c[1] + 1],
           jerasure_invert_matrix(<<PairRows[c[2] + 1], PairRows[c[3] + 1]>>, 8), 8)]

\* Slip: the coefficients are those of the children in the other order.
Paired_swapped(x, y, z, s, i, j) ==
  LET pair == Pair(x, y, z)
  IN  JoinOf(Real(pair[s]), <<Real(pair[j]), Real(pair[i])>>, PairCoefs[s, i, j])

\* Symbol s of a pair from its symbols i and j.
Paired(x, y, z, s, i, j) ==
  LET pair == Pair(x, y, z)
  IN  JoinOf(Real(pair[s]), <<Real(pair[i]), Real(pair[j])>>, PairCoefs[s, i, j])

get_uncoupled2_from_coupled(x, y, z) == <<Paired(x, y, z, 2, 0, 1)>>
get_uncoupled3_from_coupled(x, y, z) == <<Paired(x, y, z, 3, 0, 1)>>
get_uncoupled_from_coupled(x, y, z) ==
  <<Paired(x, y, z, 2, 0, 1), Paired(x, y, z, 3, 0, 1)>>
get_uncoupled3_from_coupled02(x, y, z) == <<Paired(x, y, z, 3, 1, 2)>>
get_uncoupled3_from_coupled12(x, y, z) == <<Paired(x, y, z, 3, 1, 2)>>
get_uncoupled2_from_coupled03(x, y, z) == <<Paired(x, y, z, 2, 0, 3)>>
get_coupled_from_uncoupled(x, y, z) ==
  <<Paired(x, y, z, 0, 2, 3), Paired(x, y, z, 1, 2, 3)>>
get_coupled10_from_uncoupled(x, y, z) ==
  <<Paired(x, y, z, 0, 2, 3), Paired(x, y, z, 1, 2, 3)>>
get_coupled1_from_pair02(x, y, z) == <<Paired(x, y, z, 1, 0, 2)>>
get_coupled0_from_pair12(x, y, z) == <<Paired(x, y, z, 0, 1, 2)>>
get_coupled1_from_pair03(x, y, z) == <<Paired(x, y, z, 1, 0, 3)>>
get_coupled0_from_pair13(x, y, z) == <<Paired(x, y, z, 0, 1, 3)>>

----------------------------------------------------------------------------
UpTo(m) == [i \in 1 .. m |-> i - 1]
ForEach(seq, joins(_)) == FlattenSeq([i \in 1 .. Len(seq) |-> joins(seq[i])])

MDSRows == generate_matrix(total, mds_k)
Selected(erased) ==
  SubSeq(SelectSeq(UpTo(total), LAMBDA c : c \notin ToSet(erased)), 1, mds_k)

\* The coefficients of every erased chunk in terms of the selected ones.
MDSCoefs(erased) ==
  LET inverse == jerasure_invert_matrix(
                   [i \in 1 .. mds_k |-> MDSRows[Selected(erased)[i] + 1]], 8)
  IN  [i \in 1 .. Len(erased) |-> Times(MDSRows[erased[i] + 1], inverse, 8)]

\* The erased chunks' uncoupled sub-packets of plane z from those of the others.
decode_uncoupled(erased, coefs, z) ==
  LET from == [i \in 1 .. mds_k |-> Real(Uncoupled(Selected(erased)[i], z))]
  IN  [i \in 1 .. Len(erased) |-> JoinOf(Real(Uncoupled(erased[i], z)), from, coefs[i])]

decode_erasures(erased, coefs, z) ==
  LET lost == ToSet(erased)
      sibling(y) == (y * q) + Digit(z, y)
      uncouple(x, y) ==
        CASE (y * q) + x \in lost \/ Digit(z, y) = x -> <<>>
          [] Digit(z, y) < x /\ sibling(y) \notin lost -> get_uncoupled_from_coupled(x, y, z)
          [] Digit(z, y) < x /\ sibling(y) \in lost -> get_uncoupled2_from_coupled03(x, y, z)
          [] Digit(z, y) > x /\ sibling(y) \in lost -> get_uncoupled3_from_coupled02(x, y, z)
          [] OTHER -> <<>>
  IN  ForEach(UpTo(q * t), LAMBDA c : uncouple(c \div t, c % t))
        \o decode_uncoupled(erased, coefs, z)

OrderOf(chunks, z) == Cardinality({i \in DOMAIN chunks : Unpaired(chunks[i], z)})

\* The erased chunk (x, y) of plane z, once its uncoupled sub-packet is known.  A
\* pair of two erased chunks is recovered from its uncoupled forms, one with a
\* chunk that is there from that chunk's coupled and its own uncoupled form.
recover(erased, x, y, z) ==
  LET type1 == (y * q) + Digit(z, y) \notin ToSet(erased)
  IN  CASE type1 /\ x > Digit(z, y) -> get_coupled0_from_pair12(x, y, z)
        [] type1 /\ x < Digit(z, y) -> get_coupled1_from_pair03(x, y, z)
        [] ~ type1 /\ Digit(z, y) < x -> get_coupled_from_uncoupled(x, y, z)
        [] OTHER -> <<>>

\* When all chunks of a column are erased, as in Encode, no pair is of type 1.
recover_parity(x, y, z) ==
  IF Digit(z, y) < x THEN get_coupled_from_uncoupled(x, y, z) ELSE <<>>

\* Planes in the order of the number of erased chunks that are unpaired in them:
\* first the uncoupled sub-packets of all planes of an order, then the coupled
\* ones of the erased chunks.
Layered(erased, coefs, encoding) ==
  LET planes(h) == SelectSeq(UpTo(w), LAMBDA z : OrderOf(erased, z) = h)
      chunk(x, y, z) == IF encoding THEN recover_parity(x, y, z) ELSE recover(erased, x, y, z)
      coupled(z) == ForEach(erased, LAMBDA c :
                              IF Unpaired(c, z) THEN <<>> ELSE chunk(c % q, c \div q, z))
  IN  ForEach(UpTo(t + 1), LAMBDA h :
                ForEach(planes(h), LAMBDA z : decode_erasures(erased, coefs, z))
                  \o ForEach(planes(h), coupled))

Encode ==
  LET erased == [i \in 1 .. n - k |-> mds_k + i - 1]
  IN  Layered(erased, MDSCoefs(erased), TRUE)

decode_layered(erased) == Layered(erased, MDSCoefs(erased), FALSE)

----------------------------------------------------------------------------
\* want_to_read holds the numbers of failed blocks in ascending order; avail
\* counts up to total, as if the virtual chunks had numbers of their own.
avail(want) == SelectSeq(UpTo(total), LAMBDA c : c \notin ToSet(want))

\* One failed block, or fewer than q in one column.
is_repair(want) ==
  \/ Len(want) = 1
  \/ /\ Len(want) <= q - 1
     /\ \A i \in 2 .. Len(want) :
          ChunkOf(want[i]) \div q = ChunkOf(want[1]) \div q

\* With several failed blocks the position in avail, not the number found there,
\* decides about the offset of the virtual chunks.
minimum_to_repair(want) ==
  LET a == avail(want)
  IN  IF Len(want) = 1 THEN (0 .. n - 1) \ ToSet(want)
      ELSE {a[j] : j \in 1 .. k} \cup {a[j] - nu : j \in mds_k + 1 .. Len(a)}

\* The planes read for a lost chunk: those it is unpaired in.
get_repair_subchunks(c) == SelectSeq(UpTo(w), LAMBDA z : Unpaired(c, z))

\* The planes that are read, by the number of lost and aloof chunks unpaired in them.
PlanesOfOrder(lost, aloof, h) ==
  SelectSeq(ForEach(lost, get_repair_subchunks), LAMBDA z : OrderOf(lost \o aloof, z) = h)

\* The uncoupled sub-packet of a helper: with the uncoupled one of an aloof chunk
\* it is paired with, which an earlier plane gave, or the coupled one of a helper.
uncouple_helper(erasures, aloof, x, y, z) ==
  LET d == Digit(z, y)
      isAloof == (y * q) + d \in ToSet(aloof)
  IN  CASE (y * q) + x \in ToSet(erasures) \/ d = x -> <<>>
        [] isAloof /\ d > x -> get_uncoupled3_from_coupled12(x, y, z)
        [] isAloof /\ d < x -> get_uncoupled2_from_coupled03(x, y, z)
        [] ~ isAloof /\ d < x -> get_uncoupled2_from_coupled(x, y, z)
        [] ~ isAloof /\ d > x -> get_uncoupled3_from_coupled(x, y, z)

\* What a chunk of the lost column gives: the lost sub-packet it is paired with.
couple_lost(helpers, aloof, c, z) ==
  LET x == c % q
      y == c \div q
      d == Digit(z, y)
  IN  CASE c \in ToSet(aloof) \/ d = x -> <<>>
        [] c \in helpers /\ d < x -> get_coupled1_from_pair02(x, y, z)
        [] c \in helpers /\ d > x -> get_coupled0_from_pair13(x, y, z)
        [] c \notin helpers /\ x < d -> get_coupled10_from_uncoupled(x, y, z)
        [] OTHER -> <<>>

repair_one_lost_chunk(lost, aloof, helpers) ==
  LET y_lost == lost[1] \div q
      erasures == [i \in 1 .. q |-> (y_lost * q) + i - 1] \o aloof
      coefs == MDSCoefs(erasures)
      plane(z) ==
        ForEach(UpTo(q * t), LAMBDA c : uncouple_helper(erasures, aloof, c % q, c \div q, z))
          \o decode_uncoupled(erasures, coefs, z)
          \o ForEach(erasures, LAMBDA c : couple_lost(helpers, aloof, c, z))
  IN  ForEach(UpTo(t + 1), LAMBDA h : ForEach(PlanesOfOrder(lost, aloof, h), plane))

Repair(want) ==
  LET chunks == minimum_to_repair(want)
      lost == [i \in DOMAIN want |-> ChunkOf(want[i])]
      others == (0 .. n - 1) \ ToSet(want)
      aloof == [i \in 1 .. Cardinality(others \ chunks) |->
                  ChunkOf(Ascending(others \ chunks)[i])]
  IN  repair_one_lost_chunk(lost, aloof,
                            {ChunkOf(b) : b \in others \cap chunks} \cup (k .. mds_k - 1))

\* Otherwise the first k available chunks are read, and all others decoded.
decode_chunks(want) ==
  LET chunks == {avail(want)[j] : j \in 1 .. k}
      rest == Ascending((0 .. n - 1) \ chunks)
  IN  decode_layered([i \in DOMAIN rest |-> ChunkOf(rest[i])])

Decode(from, to) ==
  LET want == [i \in 1 .. Len(to) \div w |-> to[((i - 1) * w) + 1] \div w]
  IN  IF is_repair(want) THEN Repair(want) ELSE decode_chunks(want)
=============================================================================
