----------------------------- MODULE BlockTree ------------------------------
(***************************************************************************)
(* The blocks a node may receive, and what connecting and disconnecting    *)
(* one does to the database (main.cpp): the transaction index, hashNext of *)
(* the block index, and the info table.  Everything a database transaction *)
(* works on is one record, a "view":                                       *)
(*                                                                         *)
(*   ok     no step of the transaction has failed                          *)
(*   tx     for every transaction: not indexed, unspent, or who spends it  *)
(*   next   hashNext of every block index record                           *)
(*   infos  the table of TxInfoTable                                       *)
(*                                                                         *)
(* A transaction has one output.  Its infos hang on its first input.  A    *)
(* block in BadBlocks fails a check that is not modelled (scripts, values, *)
(* coinbase reward) after its transactions were connected.                 *)
(***************************************************************************)
EXTENDS TxInfoTable, SequencesExt

CONSTANTS Blocks, Genesis,
          Prev,        \* hashPrevBlock of every block but Genesis
          BlockTrust,  \* GetBlockTrust of every block
          BadBlocks,
          Hardened,    \* mapCheckpoints: the hardened checkpoints by height
          Txs,
          vtx,         \* the transactions of every block
          vin,         \* the transactions whose outputs a transaction spends
          Coinbases,   \* the coinbase and coinstake transactions
          infosOf,     \* the infos of a transaction: address, key and value
          NoBlock, Absent, Unspent

ASSUME TreeAssumption ==
  /\ Genesis \in Blocks /\ NoBlock \notin Blocks
  /\ Prev \in [Blocks \ {Genesis} -> Blocks]
  /\ \A S \in SUBSET Blocks : S # {} => \E b \in S : b = Genesis \/ Prev[b] \notin S
  /\ BlockTrust \in [Blocks -> Nat]
  /\ BadBlocks \subseteq Blocks \ {Genesis}
  /\ Hardened \in Seq(Blocks) /\ Hardened # <<>> /\ Hardened[1] = Genesis
  /\ vtx \in [Blocks -> Seq(Txs)]
  /\ vin \in [Txs -> Seq(Txs)]
  /\ IsFiniteSet(Txs) /\ Coinbases \subseteq Txs
  /\ infosOf \in [Txs -> Seq([addr : Addresses, key : Keys, value : Values])]
  /\ \A tx \in Txs : vin[tx] = <<>> => tx \in Coinbases /\ infosOf[tx] = <<>>
  /\ Absent # Unspent /\ {Absent, Unspent} \cap Txs = {}

\* The path from the genesis block to b, along pprev.
ChainTo[b \in Blocks] ==
  IF b = Genesis THEN <<b>> ELSE Append(ChainTo[Prev[b]], b)

nHeight(b) == Len(ChainTo[b]) - 1

IsAncestor(a, b) == \E i \in DOMAIN ChainTo[b] : ChainTo[b][i] = a

bnChainTrust[b \in Blocks] ==
  BlockTrust[b] + (IF b = Genesis THEN 0 ELSE bnChainTrust[Prev[b]])

\* The transactions of the blocks up to b; the genesis block is never
\* connected.
ChainTxs(b) ==
  UNION {ToSet(vtx[a]) : a \in {c \in Blocks \ {Genesis} : IsAncestor(c, b)}}
-----------------------------------------------------------------------------
\* A TxInfoRecord: an info, and the block, transaction and place it came from.
InfoRecord(tx, j, src) ==
  [addr |-> infosOf[tx][j].addr, key |-> infosOf[tx][j].key,
   value |-> infosOf[tx][j].value, src |-> Append(src, j)]

\* The source _procUndoTxInfos uses by default: blockHash = 0, nTxInBlock = -1.
NoSource == <<NoBlock, 0>>

Fail(s) == [s EXCEPT !.ok = FALSE]

ProcessInfo(s, r) ==
  IF s.ok /\ IsValid(s.infos, r) THEN [s EXCEPT !.infos = Inserted(@, r)]
                                 ELSE Fail(s)

UndoInfo(s, r) ==
  IF s.ok /\ Undoable(s.infos, r) # {} THEN [s EXCEPT !.infos = Deleted(@, r)]
                                       ELSE Fail(s)

\* The transaction whose output the infos' address is taken from is read from
\* the database, not from the block that is being connected.
InfoInputOnDisk(disk, tx) == disk[vin[tx][1]] # Absent

\* ProcessTxInfos: the infos of a transaction, first to last.
ProcessTxInfos(s, disk, tx, src) ==
  CASE ~s.ok \/ infosOf[tx] = <<>>   -> s
    [] ~InfoInputOnDisk(disk, tx)    -> Fail(s)
    [] OTHER -> FoldLeftDomain(LAMBDA t, j : ProcessInfo(t, InfoRecord(tx, j, src)),
                               s, infosOf[tx])

\* UndoTxInfos: the same, last to first.
UndoTxInfos(s, tx, src) ==
  CASE ~s.ok \/ infosOf[tx] = <<>>   -> s
    [] ~InfoInputOnDisk(s.tx, tx)    -> Fail(s)
    [] OTHER -> FoldLeft(LAMBDA t, j : UndoInfo(t, InfoRecord(tx, j, src)),
                         s, Reverse([j \in DOMAIN infosOf[tx] |-> j]))
-----------------------------------------------------------------------------
\* DisconnectInputs: the outputs tx spent are unspent again, and tx leaves the
\* index.
DisconnectInputs(s, tx) ==
  IF s.ok /\ \A o \in ToSet(vin[tx]) : s.tx[o] # Absent
  THEN [s EXCEPT !.tx = [t \in Txs |-> IF t = tx THEN Absent
                                       ELSE IF t \in ToSet(vin[tx]) THEN Unspent
                                       ELSE @[t]]]
  ELSE Fail(s)

\* Mutated form of DisconnectBlock: the transactions are taken first to last.
DisconnectForward(s, b) ==
  LET txs == FoldLeft(LAMBDA t, tx : UndoTxInfos(DisconnectInputs(t, tx), tx, NoSource),
                      s, vtx[b])
  IN IF txs.ok THEN [txs EXCEPT !.next[Prev[b]] = NoBlock] ELSE txs

\* DisconnectBlock: the transactions in reverse order, then hashNext of the
\* block before.  UndoTxInfos is called without the block's hash and the
\* transaction's place.
DisconnectBlock(s, b) ==
  LET txs == FoldLeft(LAMBDA t, tx : UndoTxInfos(DisconnectInputs(t, tx), tx, NoSource),
                      s, Reverse(vtx[b]))
  IN IF txs.ok THEN [txs EXCEPT !.next[Prev[b]] = NoBlock] ELSE txs

\* FetchInputs and ConnectInputs: every input is indexed, here or earlier in
\* the block, and unspent; it is spent by tx now.
ConnectInputs(s, tx) ==
  IF s.ok /\ \A o \in ToSet(vin[tx]) : s.tx[o] = Unspent
  THEN [s EXCEPT !.tx = [t \in Txs |-> IF t \in ToSet(vin[tx]) THEN tx ELSE @[t]]]
  ELSE Fail(s)

\* One transaction of ConnectBlock.  disk is the index before the block: the
\* changes of the block are queued and written at its end.
ConnectTx(s, disk, b, n) ==
  LET tx == vtx[b][n]
      t  == ProcessTxInfos(ConnectInputs(s, tx), disk, tx, <<b, n>>)
  IN IF t.ok THEN [t EXCEPT !.tx[tx] = Unspent] ELSE t

\* ConnectBlock.  No transaction may overwrite one that is not fully spent.
\* pnext is hashNext as memory has it: the block's own record is written too.
ConnectBlock(s, b, pnext) ==
  LET txs == FoldLeftDomain(LAMBDA t, n : ConnectTx(t, s.tx, b, n), s, vtx[b])
  IN CASE ~s.ok -> s
       [] s.ok /\ \E tx \in ToSet(vtx[b]) : s.tx[tx] = Unspent -> Fail(s)
       [] OTHER -> IF txs.ok /\ b \notin BadBlocks
                   THEN [txs EXCEPT !.next[b] = pnext[b], !.next[Prev[b]] = b]
                   ELSE Fail(txs)
-----------------------------------------------------------------------------
\* The blocks of the path to b that are not on the path to a, first to last.
Beyond(a, b) ==
  LET common == {i \in DOMAIN ChainTo[b] : IsAncestor(ChainTo[b][i], a)}
  IN SubSeq(ChainTo[b], Cardinality(common) + 1, Len(ChainTo[b]))

\* vDisconnect and vConnect of Reorganize from best to new.
vDisconnect(best, new) == Reverse(Beyond(new, best))
vConnect(best, new)    == Beyond(best, new)

\* The database part of Reorganize.
Reorganized(s, best, new, pnext) ==
  FoldLeft(LAMBDA t, b : ConnectBlock(t, b, pnext),
           FoldLeft(DisconnectBlock, s, vDisconnect(best, new)),
           vConnect(best, new))

\* SetBestChain walks back from the new block while the trust of the block
\* before exceeds the best chain's.  Where it stops is the target of
\* Reorganize; the blocks after it are postponed and connected one at a time.
IntermediateAt(best, new) ==
  Max({i \in DOMAIN ChainTo[new] :
         i = 1 \/ bnChainTrust[ChainTo[new][i - 1]] <= bnChainTrust[best]})

Intermediate(best, new) == ChainTo[new][IntermediateAt(best, new)]

Postponed(best, new) ==
  SubSeq(ChainTo[new], IntermediateAt(best, new) + 1, Len(ChainTo[new]))
=============================================================================
