--------------------------- MODULE MCNearestSearch ---------------------------
(***************************************************************************)
(* Every placement of five points, coincident ones included, so that the   *)
(* index has an inner node below its root; query points on, between and    *)
(* beside them, some with ties; radii of zero, of a tie and of everything. *)
(***************************************************************************)
EXTENDS NearestSearch

MCLocations == {<<0, 0>>, <<2, 0>>, <<0, 2>>, <<5, 1>>}
MCQueries == {<<0, 0>>, <<1, 1>>, <<5, 0>>}
=============================================================================
