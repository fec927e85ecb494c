---- MODULE MCNetNodes ----
(* Model-checking instance of NetNodes: two connections, one address at which the openers
   meet, and two openers that both take grants, so that one can stand for the other. *)
EXTENDS NetNodes, TLC
Symmetric == Permutations(Conns) \cup Permutations(Openers)
====
