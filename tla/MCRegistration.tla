--------------------------- MODULE MCRegistration ---------------------------
(***************************************************************************)
(* Two calls on one context, on either backend: scans of one block, of two *)
(* and beyond the capacity, in any order; three rounds per call.           *)
(***************************************************************************)
EXTENDS Registration
=============================================================================
