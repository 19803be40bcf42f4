---------------------------- MODULE MCTopoCache -----------------------------
(***************************************************************************)
(* TopoCache for TLC.  Three roots compete for two places, so that hits,   *)
(* evictions and double insertions of two threads all occur.               *)
(***************************************************************************)
EXTENDS TopoCache, TLC

Symmetry == Permutations(Threads) \cup Permutations(Roots)
=============================================================================
