--------------------------- MODULE MCCpuExecutor ---------------------------
(***************************************************************************)
(* CpuExecutor on three threads.  Blocks of two points stand for blocks of *)
(* 256; runs of 0, 3 and 7 points are 0, 2 (fewer than threads) and 4 (one *)
(* thread gets two) blocks, with every set of failing blocks.  With        *)
(* SizeModulus = 2 generation_ wraps on every second run, so the number of *)
(* runs is not bounded.                                                    *)
(***************************************************************************)
EXTENDS CpuExecutor

MCPointCounts == {0, 3, 7}
=============================================================================
