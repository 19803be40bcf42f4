------------------------ MODULE MCDumpManagerService ------------------------
(***************************************************************************)
(* DumpManagerService for TLC.  closes and pendingUnload are bounded by    *)
(* the specification itself, so no state constraint is needed.             *)
(***************************************************************************)
EXTENDS DumpManagerService, TLC

ThreadSymmetry == Permutations(Threads)

=============================================================================
