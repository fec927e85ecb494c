---------------------------- MODULE MCMinerNode ----------------------------
(* Model-checking instances of MinerNode. *)
EXTENDS MinerNode
=============================================================================
