------------------------- MODULE MCEuclideanCluster -------------------------
(***************************************************************************)
(* Every neighbourhood relation on Count candidates.                       *)
(***************************************************************************)
EXTENDS EuclideanCluster
=============================================================================
