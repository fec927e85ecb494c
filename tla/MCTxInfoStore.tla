--------------------------- MODULE MCTxInfoStore ----------------------------
(***************************************************************************)
(* The info store for TLC: two addresses, a key of type normal and one of  *)
(* type id, and a record of every kind that can be refused.                *)
(***************************************************************************)
EXTENDS TxInfoRefinement

CONSTANTS A, B, name, note, alice, bob, ugly, s1, s2

MCAddresses == {A, B}
MCKeys      == {name, note}
MCValues    == {alice, bob, ugly}
MCSources   == {s1, s2}
MCKeyType   == [k \in MCKeys |-> IF k = name THEN "id" ELSE "normal"]

Rec(a, k, v, s) == [addr |-> a, key |-> k, value |-> v, src |-> s]

\* Two addresses claim one name; one address changes a note twice and back;
\* one address tries two names; ugly is not a valid name.
MCRecords ==
  {Rec(A, name, alice, s1), Rec(B, name, alice, s2), Rec(A, name, bob, s2),
   Rec(B, name, ugly, s1),
   Rec(A, note, alice, s1), Rec(A, note, bob, s2)}
MCIDValues == {alice, bob}
=============================================================================
