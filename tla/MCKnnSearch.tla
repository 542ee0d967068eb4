----------------------------- MODULE MCKnnSearch -----------------------------
(***************************************************************************)
(* Every placement of six points on three locations: two levels of inner   *)
(* nodes, coincident points, equal distances across subtrees.              *)
(***************************************************************************)
EXTENDS KnnSearch

MCLocations == {<<0, 0>>, <<2, 0>>, <<0, 2>>}
=============================================================================
