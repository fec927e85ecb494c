---------------------------- MODULE MCWalletKeys ----------------------------
(* Two reservations and a small pool. *)
EXTENDS WalletKeys, TLC

Symmetric == Permutations(Holder)
=============================================================================
