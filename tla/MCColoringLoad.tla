--------------------------- MODULE MCColoringLoad ---------------------------
(***************************************************************************)
(* Nodes 0 and 1 have failed; agents are 0 to 7, standby nodes 8 and 9.    *)
(* Every stripe has its failed blocks on node 0 or 1, and the others where *)
(* they compete with the blocks of the other stripe of the batch.          *)
(***************************************************************************)
EXTENDS RepairDags, ColoringLoad

MCNodesOf ==
  [longChains |-> <<0, 1, 2, 3, 4, 5, 6, 7>>,
   rdp |-> <<1, 4, 2, 5>>,
   butterfly |-> <<0, 3, 2, 5>>,
   clay |-> <<0, 2, 4, 5>>,
   xorParity |-> <<2, 3, 4, 5, 6, 0, 7>>,
   xorPair |-> <<0, 1, 2, 3, 4, 5, 6>>,
   rs |-> <<0, 1, 6, 7>>,
   twoButterfly |-> <<0, 4, 1, 7>>,
   rdpDiagonal |-> <<2, 4, 5, 1>>,
   xorData |-> <<1, 2, 3, 4, 5, 6, 7>>]

MCRawStripes == {"twoButterfly"}
StripeNames == DOMAIN MCNodesOf
MCDagOf == [s \in StripeNames |->
              IF s \in MCRawStripes THEN SearchDagOf[s] ELSE RepairDagOf[s]] @@ <<>>
MCCaseOf == [s \in StripeNames |->
               IF s \in MCRawStripes THEN SearchCaseOf[s] ELSE CaseOf[s]] @@ <<>>
MCParentOrderOf == [s \in StripeNames |-> ParentOrder(MCCaseOf[s], MCDagOf[s])]
MCEcnOf == [s \in StripeNames |-> MCCaseOf[s].n]
MCEcwOf == [s \in StripeNames |-> MCCaseOf[s].w]
MCPlacementOf ==
  [s \in StripeNames |-> [b \in 0 .. MCCaseOf[s].n - 1 |-> MCNodesOf[s][b + 1]] @@ <<>>]
MCFailedNodes == {0, 1}

AllBatches ==
  {<<"rdp", "butterfly", "rs">>, <<"longChains">>, <<"rdpDiagonal", "clay">>,
   <<"xorParity">>, <<"xorPair">>, <<"rs", "xorData">>}

AllLonelyBatches ==
  {<<"rdpDiagonal", "rs">>, <<"twoButterfly", "butterfly">>, <<"xorData">>, <<"longChains">>}

\* The members of HyperColorings, and of ParallelColorings.
FollowsChildren(col) ==
  \A v \in Inner(Dag) :
    LET colors == ColorsOf(col, Childs[Stripe][v])
    IN  IF colors = {} THEN col[v] = -1 ELSE col[v] \in colors
OneColorPerGroup(col, repairNodes) ==
  \A v \in Inner(Dag) :
    /\ \A w \in Siblings(Dag, v) : col[w] = col[v]
    /\ col[v] \in Candidates(Dag, v, EcnOf[Stripe], EcwOf[Stripe], Placement,
                               repairNodes, MCCaseOf[Stripe].failed)

\* Every coloring that is used is of one of the two kinds for which StripeTasks
\* checks the tasks, so its checks are about the live path.
KeptIsCovered ==
  [][kept' # kept /\ SiblingsApart[Stripe] =>
       LET col == Last(kept').coloring
           repairNodes == [i \in DOMAIN Concats |-> col[Concats[i]]]
       IN  /\ col = ColoringFrom(Dag, EcnOf[Stripe], EcwOf[Stripe], Placement,
                                 repairNodes, [v \in Inner(Dag) |-> col[v]])
           /\ FollowsChildren(col) \/ OneColorPerGroup(col, repairNodes)]_vars

\* What is kept of the two colorings.
KeptIsBest == KeptIsLighter /\ KeptIsCovered
=============================================================================
