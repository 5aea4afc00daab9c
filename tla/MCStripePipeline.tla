-------------------------- MODULE MCStripePipeline --------------------------
(***************************************************************************)
(* Stripes small enough to run all threads packet by packet: RSPIPE(4,3)   *)
(* with the chain on one node and along the helpers, and BUTTERFLY(4,2,2). *)
(***************************************************************************)
EXTENDS MCStripeTasks, StripePipeline

SmallStripes == {"chain", "butterfly"}
PipeColoringsOf ==
  [s \in DOMAIN CaseOf |-> IF s = "chain" THEN Cent(s, RepairNodes) \cup Parallel(s)
                                         ELSE Cent(s, RepairNodes)]
=============================================================================
