--------------------------- MODULE MCRamhogPool ---------------------------
(* Model-checking instance of RamhogPool. *)
EXTENDS RamhogPool, TLC

ThreadSymmetry == Permutations(Threads)
=============================================================================
