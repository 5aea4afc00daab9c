--------------------------- MODULE MCTradeoffCurve ---------------------------
(***************************************************************************)
(* Repair DAGs with two to four intermediate vertices.  For the smallest   *)
(* ones every solution may be drawn first; for the others a few, and only  *)
(* genMLP, which has one order of the recolorings, is run.                 *)
(***************************************************************************)
EXTENDS RepairDags, OfflineColoring

Names == DOMAIN SearchCaseOf
MCDagOf == SearchDagOf
MCEcnOf == [g \in Names |-> SearchCaseOf[g].n]
MCEckOf == [g \in Names |-> SearchCaseOf[g].k]
MCEcwOf == [g \in Names |-> SearchCaseOf[g].w]
MCFailedOf ==
  [butterfly |-> <<1>>, twoButterfly |-> <<2, 0>>, rdp |-> <<2>>,
   xorParity |-> <<4>>, xorData |-> <<0>>]
MCStartsOf ==
  [butterfly |-> [1 .. 2 -> 0 .. 3],
   twoButterfly |-> [1 .. 2 -> 0 .. 3],
   rdp |-> [1 .. 2 -> 0 .. 3],
   xorParity |-> {<<1, 2, 0>>, <<4, 3, 1>>},
   xorData |-> {<<0, 0, 0, 0>>, <<6, 3, 5, 1>>, <<1, 4, 1, 0>>, <<6, 4, 2, 6>>}]
MCProgramsOf ==
  [g \in Names |-> IF g = "xorData" THEN {"genMLP"} ELSE {"genMLP", "NewgenMLP"}]

\* The nodes of the blocks of each stripe.  In the second stripe of most groups a
\* block that is not read may be on the repair node; the last one has not failed.
Placed(nodes) == [b \in 0 .. Len(nodes) - 1 |-> nodes[b + 1]]
MCStripesOn ==
  [butterfly |-> <<Placed(<<0, 2, 4, 1>>), Placed(<<5, 2, 3, 0>>), Placed(<<0, 1, 4, 3>>)>>,
   twoButterfly |-> <<Placed(<<0, 1, 2, 3>>), Placed(<<2, 3, 0, 4>>), Placed(<<1, 3, 4, 5>>)>>,
   rdp |-> <<Placed(<<1, 3, 0, 5>>), Placed(<<4, 2, 0, 3>>)>>,
   xorParity |-> <<Placed(<<6, 4, 2, 1, 5>>), Placed(<<0, 1, 2, 3, 5>>)>>,
   xorData |-> <<Placed(<<6, 5, 4, 3, 2, 1, 0>>), Placed(<<6, 4, 5, 2, 1, 3, 7>>)>>]
MCFailNodesOf ==
  [butterfly |-> <<2>>, twoButterfly |-> <<2, 0>>, rdp |-> <<0>>,
   xorParity |-> <<5>>, xorData |-> <<6>>]
=============================================================================
