--------------------------- MODULE MCBatchDispatch ---------------------------
(***************************************************************************)
(* Three nodes, three stripes, two batches.  In the first batch two nodes  *)
(* feed each other within one stripe; the third node works only in the     *)
(* second batch.                                                           *)
(***************************************************************************)
EXTENDS BatchDispatch, TLC

CONSTANTS n1, n2, n3, s1, s2, s3

MCNodes == {n1, n2, n3}
MCStripes == {s1, s2, s3}
MCStripesOf == <<<<s1, s2>>, <<s3>>>>

MCTaskNum ==
  s1 :> (n1 :> 1 @@ n2 :> 2 @@ n3 :> 0) @@
  s2 :> (n1 :> 2 @@ n2 :> 1 @@ n3 :> 0) @@
  s3 :> (n1 :> 1 @@ n2 :> 0 @@ n3 :> 2)

MCFeedersOf ==
  s1 :> (n1 :> {} @@ n2 :> {n1} @@ n3 :> {}) @@
  s2 :> (n1 :> {n2} @@ n2 :> {n1} @@ n3 :> {}) @@
  s3 :> (n1 :> {} @@ n2 :> {} @@ n3 :> {n1})
=============================================================================
