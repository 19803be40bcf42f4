--------------------------- MODULE MCZipRequests ----------------------------
(***************************************************************************)
(* Instances of ZipRequests for TLC.                                       *)
(***************************************************************************)
EXTENDS ZipRequests, TLC

ThreadSymmetry == Permutations(Threads)
=============================================================================
