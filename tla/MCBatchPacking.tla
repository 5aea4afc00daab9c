--------------------------- MODULE MCBatchPacking ---------------------------
(***************************************************************************)
(* Up to five stripes in batches of two, on three nodes.  Stripe s is      *)
(* read at node s % 3 and repaired at node (s + 1) % 3, with different     *)
(* loads; stripe 1 is colored in two ways with strategy 0, and stripe 2 in *)
(* two ways with strategy 1.                                               *)
(***************************************************************************)
EXTENDS BatchPacking

\* The load when node a sends x sub-packets to node b.
Transfer(a, b, x) ==
  [k \in {"out", "in"} \X Nodes |->
     IF k = <<"out", a>> \/ k = <<"in", b>> THEN x ELSE 0]

MCHyperLoads ==
  [s \in 1 .. 5 |->
     {Transfer(s % 3, (s + 1) % 3, 1 + (s % 2))}
       \cup (IF s = 1 THEN {Transfer(0, 1, 3)} ELSE {})]
MCMultiLoads ==
  [s \in 1 .. 5 |->
     {Transfer(s % 3, (s + 2) % 3, 2)}
       \cup (IF s = 2 THEN {Transfer(2, 0, 1)} ELSE {})]
=============================================================================
