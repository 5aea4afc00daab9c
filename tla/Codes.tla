-------------------------------- MODULE Codes --------------------------------
(***************************************************************************)
(* The codes that ECPolicy may name, by the record of their parameters and *)
(* of the failed blocks, [code, n, k, failed].                             *)
(***************************************************************************)
EXTENDS ECDag, GaloisField

RSConv(n, k) == INSTANCE RSCONV
RSPipe(n, k) == INSTANCE RSPIPE
Rdp(n, k, w) == INSTANCE RDP
HHXorPlus(n, k) == INSTANCE HHXORPlus
Butterfly(k, w) == INSTANCE BUTTERFLY
ClayCode(n, k) == INSTANCE Clay

\* The number of sub-packets per block.
ecwOf(a) ==
  CASE a.code \in {"RSCONV", "RSPIPE"} -> 1
    [] a.code = "RDP" -> a.k
    [] a.code = "HHXORPlus" -> 2
    [] a.code = "BUTTERFLY" -> 2 ^ (a.k - 1)
    [] a.code = "Clay" -> ClayCode(a.n, a.k)!w

EncodeJoins(a) ==
  CASE a.code = "RSCONV" -> RSConv(a.n, a.k)!Encode
    [] a.code = "RSPIPE" -> RSPipe(a.n, a.k)!Encode
    [] a.code = "RDP" -> Rdp(a.n, a.k, ecwOf(a))!Encode
    [] a.code = "HHXORPlus" -> HHXorPlus(a.n, a.k)!Encode
    [] a.code = "BUTTERFLY" -> Butterfly(a.k, ecwOf(a))!Encode
    [] a.code = "Clay" -> ClayCode(a.n, a.k)!Encode

DecodeJoins(a, from, to) ==
  CASE a.code = "RSCONV" -> RSConv(a.n, a.k)!Decode(from, to)
    [] a.code = "RSPIPE" -> RSPipe(a.n, a.k)!PipeDecode(from, to)
    [] a.code = "RDP" -> Rdp(a.n, a.k, ecwOf(a))!Decode(from, to)
    [] a.code = "HHXORPlus" -> HHXorPlus(a.n, a.k)!Decode(from, to)
    [] a.code = "BUTTERFLY" -> Butterfly(a.k, ecwOf(a))!Decode(from, to)
    [] a.code = "Clay" -> ClayCode(a.n, a.k)!Decode(from, to)

Packets(a, blocks) == {v \in 0 .. (a.n * ecwOf(a)) - 1 : v \div ecwOf(a) \in blocks}
Blocks(a) == 0 .. a.n - 1

\* The Joins of Stripe::genRepairECDAG, but for the concat vertices.
RepairJoins(a) ==
  DecodeJoins(a, Ascending(Packets(a, Blocks(a) \ a.failed)),
              Ascending(Packets(a, a.failed)))
genRepairECDAG(a) == JoinAll(RepairJoins(a))
==============================================================================
