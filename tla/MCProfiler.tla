----------------------------- MODULE MCProfiler -----------------------------
(***************************************************************************)
(* The profiler for clients with three blocks that nest in any order and   *)
(* call themselves.                                                        *)
(***************************************************************************)
EXTENDS Profiler

ThreeBlocks == 0..2
=============================================================================
