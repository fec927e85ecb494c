-------------------------- MODULE TxInfoRefinement --------------------------
(***************************************************************************)
(* TxInfoStore implements TxInfoHistory: the stack of an address and a key *)
(* is its rows in the order of their ids.                                  *)
(***************************************************************************)
EXTENDS TxInfoStore, FiniteSets

\* The place of i among the numbers of S, and the number in the n-th place.
Rank(S, i) == Cardinality({j \in S : j <= i})
Nth(S, n)  == CHOOSE i \in S : Rank(S, i) = n

Stack(f, a, k) ==
  LET S == IdsOf(f, a, k)
  IN [n \in 1..Cardinality(S) |-> [value |-> f[Nth(S, n)].value, src |-> f[Nth(S, n)].src]]

StacksOf(T) == [ak \in Addresses \X Keys |-> Stack(T.row, ak[1], ak[2])]

History == INSTANCE TxInfoHistory WITH
             published <- StacksOf(db), staged <- StacksOf(cur),
             open <- curTransaction

\* Every step of the store pushes, pops, erases, opens, publishes or drops
\* stacks as TxInfoHistory allows, a restart included.
ImplementsHistory == History!HSpec
=============================================================================
