------------------------------- MODULE MCCli -------------------------------
(***************************************************************************)
(* Three runs: a complete one, one that fails or crashes over its files,   *)
(* and one more.                                                           *)
(***************************************************************************)
EXTENDS Cli
=============================================================================
