------------------------- MODULE MCChainCheckpoints -------------------------
(***************************************************************************)
(* Sync-checkpoints and restarts.  d2 is the last hardened checkpoint, so  *)
(* the branch of p1, which starts with more trust, ends at height 1:       *)
(*                                                                         *)
(*   g -+- p1                                                              *)
(*      +- d1 - d2 -+- d3 - d4     d3 and e3 hold the same transaction t2  *)
(*                  +- e3 - e4                                             *)
(***************************************************************************)
EXTENDS ChainState

MCPrev ==
  [p1 |-> "g", d1 |-> "g", d2 |-> "d1", d3 |-> "d2", d4 |-> "d3", e3 |-> "d2",
   e4 |-> "e3"]
MCBlocks == {"g"} \cup DOMAIN MCPrev
MCTrust  == [g |-> 1, p1 |-> 4, d1 |-> 1, d2 |-> 1, d3 |-> 1, d4 |-> 3,
             e3 |-> 2, e4 |-> 3]
MCvtx ==
  [g  |-> <<>>,           p1 |-> <<"c0">>,       d1 |-> <<"c1">>,
   d2 |-> <<"c2", "t1">>, d3 |-> <<"c3", "t2">>, d4 |-> <<"c4">>,
   e3 |-> <<"c5", "t2">>, e4 |-> <<"c6", "t3">>]
MCCoinbases == {"c0", "c1", "c2", "c3", "c4", "c5", "c6"}
MCSpends == [t1 |-> <<"c1">>, t2 |-> <<"t1">>, t3 |-> <<"t2">>]
MCTxs == MCCoinbases \cup DOMAIN MCSpends
MCvin == [t \in MCTxs |-> IF t \in DOMAIN MCSpends THEN MCSpends[t] ELSE <<>>]

MCNoInfos  == [t \in MCTxs |-> <<>>]
MCKeyType  == [note |-> "normal"]
MCSources  == (MCBlocks \cup {"none"}) \X (0..2) \X {1}
MCRecords  == [addr : {"A"}, key : {"note"}, value : {"hello"}, src : MCSources]
MCHardened == <<"g", "d2">>
=============================================================================
