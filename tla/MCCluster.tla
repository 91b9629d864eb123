-------------------------- MODULE MCCluster --------------------------
(***************************************************************************)
(* ClusterHealth with two nodes listed in a fixed order.  A tick is 15 s.  *)
(***************************************************************************)
EXTENDS ClusterHealth

CONSTANTS n1, n2

MCNodes == {n1, n2}
MCNodeSeq == <<n1, n2>>
=============================================================================
