---------------------------- MODULE MCChainForks ----------------------------
(***************************************************************************)
(* A tree of blocks with three competing branches, conflicting             *)
(* transactions and the three ways in which a block cannot be connected:   *)
(*                                                                         *)
(*   g - b1 - b2 -+- b3 - b4      b4 spends an output a second time        *)
(*                +- d3 -+- d4    b3 and d3 hold the same transaction t2   *)
(*                |      +- x4    x4 is in BadBlocks                       *)
(*                |      +- y4    y4 claims a name that is taken           *)
(*                +- e3 - e4      t3 in e3 conflicts with t2               *)
(*                                                                         *)
(* t1, t2, t5 and t6 spend each other, and t6 also the coinbase of b2; it  *)
(* is in no block, and carries a note that can only be processed while t5  *)
(* is confirmed.  n1 in b3 is not standard.                                *)
(***************************************************************************)
EXTENDS ChainState

MCPrev ==
  [b1 |-> "g", b2 |-> "b1", b3 |-> "b2", b4 |-> "b3", d3 |-> "b2", d4 |-> "d3",
   x4 |-> "d3", y4 |-> "d3", e3 |-> "b2", e4 |-> "e3"]
MCBlocks == {"g"} \cup DOMAIN MCPrev
MCTrust  ==
  [g |-> 1, b1 |-> 1, b2 |-> 1, b3 |-> 1, b4 |-> 2, d3 |-> 2, d4 |-> 1,
   x4 |-> 4, y4 |-> 3, e3 |-> 1, e4 |-> 5]
MCvtx ==
  [g  |-> <<>>,           b1 |-> <<"c1", "k1">>, b2 |-> <<"c2", "t1">>,
   b3 |-> <<"c3", "t2", "t5", "n1">>,            b4 |-> <<"c4", "t3">>,
   d3 |-> <<"c5", "t2">>, d4 |-> <<"c0">>,       x4 |-> <<"c6">>,
   y4 |-> <<"c7", "t4">>, e3 |-> <<"c8", "t3">>, e4 |-> <<"c9">>]
MCCoinbases == {"k1", "c0", "c1", "c2", "c3", "c4", "c5", "c6", "c7", "c8", "c9"}
MCSpends == [t1 |-> <<"c1">>, t2 |-> <<"t1">>, t3 |-> <<"t1">>,
             t4 |-> <<"c2">>, t5 |-> <<"t2">>, t6 |-> <<"t5", "c2">>,
             n1 |-> <<"k1">>]
MCTxs == MCCoinbases \cup DOMAIN MCSpends
MCvin == [t \in MCTxs |-> IF t \in DOMAIN MCSpends THEN MCSpends[t] ELSE <<>>]

Claim(a) == [addr |-> a, key |-> "name", value |-> "alice"]
Note(a)  == [addr |-> a, key |-> "note", value |-> "hello"]

\* t1 claims a name; t4 adds a note, then claims the same name; t6 adds a note.
MCinfos ==
  [t \in MCTxs |-> CASE t = "t1" -> <<Claim("A")>>
                     [] t = "t4" -> <<Note("B"), Claim("B")>>
                     [] t = "t6" -> <<Note("A")>>
                     [] OTHER    -> <<>>]

\* In addition, t2 of the blocks b3 and d3 carries a note.
MCinfosOnFork ==
  [t \in MCTxs |-> IF t = "t2" THEN <<Note("A")>> ELSE MCinfos[t]]

MCKeyType == [name |-> "id", note |-> "normal"]
MCSources == (MCBlocks \cup {"none"}) \X (0..2) \X (1..2)
MCRecords ==
  [addr : {"A", "B"}, key : {"name", "note"}, value : {"alice", "hello"},
   src : MCSources]
MCHardened == <<"g">>
=============================================================================
