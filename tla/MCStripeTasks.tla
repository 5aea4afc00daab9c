---------------------------- MODULE MCStripeTasks ----------------------------
(***************************************************************************)
(* Stripes of the codes in the repository.  Block b is on node b, the      *)
(* repair nodes are 20 and 21, and Clay repairs block 0 in the standby     *)
(* scenario, where CentSolution colors with the failed node's own number.  *)
(***************************************************************************)
EXTENDS RepairDags, RepairCodes, StripeTasks

Placement == [b \in 0 .. 7 |-> b]
RepairNodes == <<20, 21>>

MCDagOf == RepairDagOf
MCEcnOf == [s \in DOMAIN CaseOf |-> CaseOf[s].n]
MCEcwOf == [s \in DOMAIN CaseOf |-> CaseOf[s].w]
MCFailedOf == [s \in DOMAIN CaseOf |-> CaseOf[s].failed]
MCFail2Repair == [n \in {0} |-> 20]

Cent(s, repairNodes) ==
  {CentColoring(MCDagOf[s], MCEcnOf[s], MCEcwOf[s], Placement, repairNodes)}
Parallel(s) ==
  ParallelColorings(MCDagOf[s], MCEcnOf[s], MCEcwOf[s], Placement, RepairNodes,
                    MCFailedOf[s])
Hyper(s) == HyperColorings(MCDagOf[s], MCEcnOf[s], MCEcwOf[s], Placement, RepairNodes)

\* <<0>> is the standby scenario, in which CentSolution colors with the failed node.
MCColoringsOf ==
  [s \in DOMAIN CaseOf |->
     CASE s \in {"rspipe", "rdp", "rdpDiagonal", "butterfly"} ->
            Cent(s, RepairNodes) \cup Parallel(s) \cup Hyper(s)
       [] s = "clay" -> Cent(s, <<0>>) \cup Cent(s, RepairNodes) \cup Parallel(s) \cup Hyper(s)
       [] s = "chain" -> Cent(s, RepairNodes) \cup Parallel(s)
       [] OTHER -> Cent(s, RepairNodes)]

TaskStripes == DOMAIN CaseOf \ {"chain", "longChains"}
=============================================================================
