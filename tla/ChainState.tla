----------------------------- MODULE ChainState -----------------------------
(***************************************************************************)
(* The best chain of a node (main.cpp, checkpoints.cpp, db.cpp): the block *)
(* index and the transaction index in Berkeley DB, the info store in its   *)
(* own SQLite file, and what memory keeps of them: pindexBest, pnext and   *)
(* the memory pool.                                                        *)
(*                                                                         *)
(* Every operation runs under cs_main, so two of them never interleave;    *)
(* what interleaves with an operation is a crash.  An operation is         *)
(* therefore cut at its commits: AddToBlockIndex commits the index record, *)
(* Reorganize or SetBestChainInner the first step of the switch,           *)
(* SetBestChainInner every postponed block, txInfoView.Commit() the infos, *)
(* and WriteSyncCheckpoint the checkpoint.  op says where the operation    *)
(* is.  Memory that is changed between two commits is changed in the step  *)
(* of the first.                                                           *)
(***************************************************************************)
EXTENDS BlockTree

CONSTANTS SignedCheckpoints, \* the blocks the master key has signed
          LargeTxs,       \* transactions too large to be kept as orphans
          NonStandardTxs, \* transactions a block may hold and the pool refuses
          nMaxOrphans,    \* MAX_ORPHAN_TRANSACTIONS
          MaxRestarts,    \* bound: how often the node is killed and restarted
          MaxKeyChanges   \* bound: restarts with another checkpoint master key

ASSUME BoundsAssumption ==
  /\ SignedCheckpoints \subseteq Blocks /\ LargeTxs \subseteq Txs /\ NonStandardTxs \subseteq Txs
  /\ nMaxOrphans \in Nat /\ MaxRestarts \in Nat /\ MaxKeyChanges \in Nat

VARIABLES
  \* on disk, and in memory where the two change in one step
  mapBlockIndex,          \* the blocks with an index record
  hashSyncCheckpoint,
  \* on disk
  hashBestChainDisk,      \* the record "hashBestChain"
  hashNext,               \* hashNext of the index records
  txIndex,                \* the CTxIndex records
  infoDb,                 \* the committed info table
  \* in memory
  pindexBest,             \* and hashBestChain, bnBestChainTrust, nBestHeight
  pnext,
  infoView,               \* the info table as txInfoView sees it
  mapTx, mapNextTx,       \* the memory pool, and who spends what in it
  mapOrphanTransactions,  \* transactions that miss an input
  mapOrphanTransactionsByPrev,
  hashPendingCheckpoint,
  op,                     \* the operation that is running
  restarts, keyChanges

diskVars == <<hashBestChainDisk, hashNext, txIndex>>
orphanVars == <<mapOrphanTransactions, mapOrphanTransactionsByPrev>>
poolVars == <<mapTx, mapNextTx, orphanVars>>
boundVars == <<restarts, keyChanges>>
vars == <<mapBlockIndex, hashSyncCheckpoint, diskVars, infoDb, pindexBest,
          pnext, infoView, poolVars, hashPendingCheckpoint, op, boundVars>>

\* Who called SetBestChain: AddToBlockIndex, AcceptPendingSyncCheckpoint,
\* ProcessSyncCheckpoint or ResetSyncCheckpoint.
Callers == {"accept", "pending", "process", "reset"}

Idle    == [at |-> "idle"]
Down    == [at |-> "down"]
Pending == [at |-> "pending"]
ResetCp == [at |-> "reset"]
WriteReset == [at |-> "writereset"]
Switch(b, by)        == [at |-> "switch", new |-> b, by |-> by]
Connect(b, by, todo) == [at |-> "connect", new |-> b, by |-> by, todo |-> todo]
Finish(b, by)        == [at |-> "finish", new |-> b, by |-> by]
WriteCp(b)           == [at |-> "writecp", new |-> b]

TypeOK ==
  /\ mapBlockIndex \subseteq Blocks
  /\ {hashSyncCheckpoint, hashBestChainDisk, pindexBest} \subseteq mapBlockIndex
  /\ hashNext \in [Blocks -> Blocks \cup {NoBlock}]
  /\ pnext \in [Blocks -> Blocks \cup {NoBlock}]
  /\ txIndex \in [Txs -> Txs \cup {Absent, Unspent}]
  /\ mapTx \subseteq Txs \ Coinbases
  /\ mapNextTx \in [Txs -> Txs \cup {Absent}]
  /\ mapOrphanTransactions \subseteq Txs \ Coinbases
  /\ mapOrphanTransactionsByPrev \in [Txs -> SUBSET Txs]
  /\ hashPendingCheckpoint \in Blocks \cup {NoBlock}
  /\ restarts \in 0..MaxRestarts /\ keyChanges \in 0..MaxKeyChanges
  /\ op.at \in {"idle", "down", "pending", "reset", "writereset", "switch", "connect",
                "finish", "writecp"}
  /\ op.at \in {"switch", "connect", "finish"} => op.by \in Callers

\* The first start has written the genesis block and its sync-checkpoint.
Init ==
  /\ mapBlockIndex = {Genesis}
  /\ hashSyncCheckpoint = Genesis
  /\ hashBestChainDisk = Genesis
  /\ hashNext = [b \in Blocks |-> NoBlock]
  /\ txIndex = [t \in Txs |-> Absent]
  /\ infoDb = EmptyTable
  /\ pindexBest = Genesis
  /\ pnext = [b \in Blocks |-> NoBlock]
  /\ infoView = EmptyTable
  /\ mapTx = {}
  /\ mapNextTx = [t \in Txs |-> Absent]
  /\ mapOrphanTransactions = {}
  /\ mapOrphanTransactionsByPrev = [t \in Txs |-> {}]
  /\ hashPendingCheckpoint = NoBlock
  /\ op = Idle
  /\ restarts = 0 /\ keyChanges = 0

IsInMainChain(b) == pnext[b] # NoBlock \/ b = pindexBest

\* What a database transaction starts from, and what its commit writes.
DbView == [ok |-> TRUE, tx |-> txIndex, next |-> hashNext, infos |-> infoView]

\* Mutated form of TxnCommit: hashBestChain is written before the blocks are
\* connected.
TxnCommitStale(s, best) ==
  /\ txIndex' = s.tx
  /\ hashNext' = s.next
  /\ infoView' = s.infos
  /\ hashBestChainDisk' = pindexBest

TxnCommit(s, best) ==
  /\ txIndex' = s.tx
  /\ hashNext' = s.next
  /\ infoView' = s.infos
  /\ hashBestChainDisk' = best
-----------------------------------------------------------------------------
(***************************************************************************)
(* The memory pool (CTxMemPool).                                           *)
(***************************************************************************)

\* A pool is mapTx and mapNextTx.
Pool == [tx |-> mapTx, next |-> mapNextTx]

NoConflict(p, tx) == tx \notin p.tx /\ \A o \in ToSet(vin[tx]) : p.next[o] = Absent

addUnchecked(p, tx) ==
  [tx   |-> p.tx \cup {tx},
   next |-> [o \in Txs |-> IF o \in ToSet(vin[tx]) THEN tx ELSE p.next[o]]]

\* CTxMemPool::remove
PoolRemove(p, tx) ==
  IF tx \notin p.tx THEN p
  ELSE [tx   |-> p.tx \ {tx},
        next |-> [o \in Txs |-> IF o \in ToSet(vin[tx]) THEN Absent ELSE p.next[o]]]

\* What checkAccept asks of the transaction alone: neither coinbase nor coinstake, no
\* nLockTime beyond 2038, and a standard one.  ConnectBlock asks none of it.
Acceptable(tx) == tx \notin Coinbases \cup NonStandardTxs

\* Mutated form of Resurrect: coinbase and coinstake return as well.
ResurrectAny(p, tx) == IF NoConflict(p, tx) THEN addUnchecked(p, tx) ELSE p

\* accept with fCheckInputs = false: of the rest only conflicts inside the pool count.
Resurrect(p, tx) ==
  IF Acceptable(tx) /\ NoConflict(p, tx) THEN addUnchecked(p, tx) ELSE p

RemoveAll(p, txs) == FoldLeft(PoolRemove, p, txs)

SetPool(p) == mapTx' = p.tx /\ mapNextTx' = p.next

\* checkAccept: the inputs are indexed and unspent, or in the pool, and the
\* infos would be accepted now (txInfoView is rolled back at once).
IsNew(p, tx) == Acceptable(tx) /\ NoConflict(p, tx) /\ txIndex[tx] = Absent

MissesInput(p, tx) == \E o \in ToSet(vin[tx]) : txIndex[o] = Absent /\ o \notin p.tx

checkAccept(p, tx) ==
  /\ IsNew(p, tx) /\ ~MissesInput(p, tx)
  /\ \A o \in ToSet(vin[tx]) : txIndex[o] \in {Absent, Unspent}
  /\ ProcessTxInfos(DbView, txIndex, tx, NoSource).ok

chainVars == <<mapBlockIndex, hashSyncCheckpoint, diskVars, infoDb, pindexBest,
               pnext, infoView, hashPendingCheckpoint, op, boundVars>>

\* A transaction of the wallet or of sendrawtransaction.
AcceptToMemoryPool(tx) ==
  /\ op = Idle
  /\ checkAccept(Pool, tx)
  /\ SetPool(addUnchecked(Pool, tx))
  /\ UNCHANGED <<chainVars, orphanVars>>

\* CreateNewBlock tries a transaction of the pool on top of those it has collected;
\* the changes go to mapTestPool and to a txInfoView that is rolled back.
TryTx(s, tx) == ProcessTxInfos(ConnectInputs(s, tx), txIndex, tx, NoSource)

Collected(txs) ==
  FoldLeft(LAMBDA s, tx : LET t == TryTx(s, tx)
                          IN IF t.ok THEN [t EXCEPT !.tx[tx] = Unspent] ELSE t,
           DbView, txs)

\* CreateNewBlock, for the miner, the minter or getwork: one round of its loop, in
\* which it has collected some of the pool by priority (size, fees and times may pass
\* over any of it) and removes tx, whose infos cannot be processed after those.  A
\* round that removes nothing leaves no trace.
CreateNewBlock(tx) ==
  /\ op = Idle
  /\ tx \in mapTx /\ infosOf[tx] # <<>>
  /\ \E txs \in SetToAllKPermutations(mapTx \ {tx}) :
       ConnectInputs(Collected(txs), tx).ok /\ ~TryTx(Collected(txs), tx).ok
  /\ SetPool(PoolRemove(Pool, tx))
  /\ UNCHANGED <<chainVars, orphanVars>>
-----------------------------------------------------------------------------
(***************************************************************************)
(* Orphan transactions and the tx message.                                 *)
(***************************************************************************)

Orphans == [tx |-> mapOrphanTransactions, byPrev |-> mapOrphanTransactionsByPrev]

AddOrphanTx(q, tx) ==
  IF tx \in q.tx \cup LargeTxs THEN q
  ELSE [tx     |-> q.tx \cup {tx},
        byPrev |-> [o \in Txs |-> IF o \in ToSet(vin[tx]) THEN q.byPrev[o] \cup {tx}
                                  ELSE q.byPrev[o]]]

\* Mutated form of EraseOrphanTx: only the first input is looked up.
EraseOrphanTxFirst(q, tx) ==
  IF tx \notin q.tx THEN q
  ELSE [tx |-> q.tx \ {tx}, byPrev |-> [q.byPrev EXCEPT ![Head(vin[tx])] = @ \ {tx}]]

EraseOrphanTx(q, tx) ==
  IF tx \notin q.tx THEN q
  ELSE [tx     |-> q.tx \ {tx},
        byPrev |-> [o \in Txs |-> IF o \in ToSet(vin[tx]) THEN q.byPrev[o] \ {tx}
                                  ELSE q.byPrev[o]]]

\* Any of them is evicted, the one just added included.
LimitOrphanTxSize(q) ==
  IF Cardinality(q.tx) > nMaxOrphans THEN {EraseOrphanTx(q, o) : o \in q.tx} ELSE {q}

SetOrphans(q) ==
  mapOrphanTransactions' = q.tx /\ mapOrphanTransactionsByPrev' = q.byPrev

\* One round of the inner loop: an orphan is accepted, still misses an input, or
\* is invalid.
TryOrphan(s, o) ==
  IF checkAccept(s.pool, o)
  THEN [pool |-> addUnchecked(s.pool, o), vWorkQueue |-> Append(s.vWorkQueue, o),
        vEraseQueue |-> Append(s.vEraseQueue, o)]
  ELSE IF IsNew(s.pool, o) /\ MissesInput(s.pool, o) THEN s
  ELSE [s EXCEPT !.vEraseQueue = Append(@, o)]

\* The work queue after n of its entries, each with the orphans that spend it, in the
\* order of their hashes, which is any.  No transaction is accepted twice.
WorkQueue(tx) ==
  LET after[n \in 0..Cardinality(Txs)] ==
        LET s == after[n - 1] IN
        IF n = 0
        THEN [pool |-> addUnchecked(Pool, tx), vWorkQueue |-> <<tx>>, vEraseQueue |-> <<tx>>]
        ELSE IF n > Len(s.vWorkQueue) THEN s
        ELSE FoldLeft(TryOrphan, s, SetToSeq(mapOrphanTransactionsByPrev[s.vWorkQueue[n]]))
  IN after

\* Mutated form of Adopt: the orphans of an orphan are not tried.
AdoptChildren(tx) == WorkQueue(tx)[1]

\* "Recursively process any orphan transactions that depended on this one."
Adopt(tx) == WorkQueue(tx)[Cardinality(Txs)]

TxMessage(tx) ==
  /\ op = Idle
  /\ \/ /\ checkAccept(Pool, tx)
        /\ SetPool(Adopt(tx).pool)
        /\ SetOrphans(FoldLeft(EraseOrphanTx, Orphans, Adopt(tx).vEraseQueue))
     \/ /\ IsNew(Pool, tx) /\ MissesInput(Pool, tx)
        /\ SetPool(Pool)
        /\ \E q \in LimitOrphanTxSize(AddOrphanTx(Orphans, tx)) : SetOrphans(q)
  /\ UNCHANGED chainVars
-----------------------------------------------------------------------------
(***************************************************************************)
(* AcceptBlock and AddToBlockIndex.                                        *)
(***************************************************************************)

CheckHardened(b) ==
  \A i \in DOMAIN Hardened : nHeight(Hardened[i]) = nHeight(b) => Hardened[i] = b

\* CheckSync: b descends from the sync-checkpoint or is an ancestor of it that
\* is already known.
CheckSync(b) ==
  LET height == nHeight(hashSyncCheckpoint) IN
  /\ nHeight(b) > height => IsAncestor(hashSyncCheckpoint, b)
  /\ nHeight(b) = height => b = hashSyncCheckpoint
  /\ nHeight(b) < height => b \in mapBlockIndex

IsNewBest(b) == bnChainTrust[b] > bnChainTrust[pindexBest]

\* The block's index record is committed.  The other checks of AcceptBlock are
\* on the block's own data; a block that fails them is never seen here.
AcceptBlock(b) ==
  /\ op = Idle
  /\ b \notin mapBlockIndex
  /\ Prev[b] \in mapBlockIndex
  /\ CheckHardened(b)
  /\ CheckSync(b)
  /\ mapBlockIndex' = mapBlockIndex \cup {b}
  /\ op' = IF IsNewBest(b) THEN Switch(b, "accept") ELSE Pending
  /\ UNCHANGED <<hashSyncCheckpoint, diskVars, infoDb, pindexBest, pnext,
                 infoView, poolVars, hashPendingCheckpoint, boundVars>>
-----------------------------------------------------------------------------
(***************************************************************************)
(* SetBestChain.                                                           *)
(***************************************************************************)

\* Mutated form of SetBestChainFails: txInfoView is not rolled back.
SetBestChainKeepsInfos ==
  /\ op' = IF op.by = "reset" THEN Down ELSE Idle
  /\ infoView' = IF op.new # Genesis /\ Prev[op.new] = pindexBest
                 THEN ConnectBlock(DbView, op.new, pnext).infos ELSE infoView
  /\ UNCHANGED <<mapBlockIndex, hashSyncCheckpoint, diskVars, infoDb,
                 pindexBest, pnext, poolVars, hashPendingCheckpoint, boundVars>>

\* SetBestChain returns false: the transaction is aborted, txInfoView rolls
\* back in its destructor and the callers return without another change; a
\* failed ResetSyncCheckpoint ends the start of the program.
SetBestChainFails ==
  /\ op' = IF op.by = "reset" THEN Down ELSE Idle
  /\ infoView' = infoDb
  /\ UNCHANGED <<mapBlockIndex, hashSyncCheckpoint, diskVars, infoDb,
                 pindexBest, pnext, poolVars, hashPendingCheckpoint, boundVars>>

Extended(b) == ConnectBlock(DbView, b, pnext)

\* SetBestChainInner succeeds for b: the commit, pnext and the pool.
Extend(b) ==
  /\ TxnCommit(Extended(b), b)
  /\ pnext' = [pnext EXCEPT ![Prev[b]] = b]
  /\ SetPool(RemoveAll(Pool, vtx[b]))

\* The new block is on top of the best one.
SwitchExtend ==
  /\ op.at = "switch"
  /\ op.new # Genesis /\ Prev[op.new] = pindexBest
  /\ Extended(op.new).ok
  /\ Extend(op.new)
  /\ op' = Finish(op.new, op.by)
  /\ UNCHANGED <<mapBlockIndex, hashSyncCheckpoint, infoDb, pindexBest,
                 orphanVars, hashPendingCheckpoint, boundVars>>

SwitchExtendFails ==
  /\ op.at = "switch"
  /\ op.new # Genesis /\ Prev[op.new] = pindexBest
  /\ ~Extended(op.new).ok
  /\ SetBestChainFails

\* Mutated form of CanDisconnect: the sync-checkpoint is not looked for.
CanDisconnectAny(new) == TRUE

\* Reorganize refuses to disconnect the sync-checkpoint.
CanDisconnect(new) ==
  hashSyncCheckpoint \notin ToSet(vDisconnect(pindexBest, new))

Target == Intermediate(pindexBest, op.new)

Reorganization == Reorganized(DbView, pindexBest, Target, pnext)

\* Mutated form of Relinked: the links of the old branch are not cut.
RelinkedOnly(new) ==
  LET added == ToSet(vConnect(pindexBest, new))
  IN [b \in Blocks |-> IF \E c \in added : Prev[c] = b
                       THEN CHOOSE c \in added : Prev[c] = b ELSE pnext[b]]

\* The links of the old branch are cut, then those of the new one are made.
Relinked(new) ==
  LET gone  == ToSet(vDisconnect(pindexBest, new))
      added == ToSet(vConnect(pindexBest, new))
  IN [b \in Blocks |->
        IF \E c \in added : Prev[c] = b
        THEN CHOOSE c \in added : Prev[c] = b
        ELSE IF \E c \in gone : Prev[c] = b THEN NoBlock ELSE pnext[b]]

\* The transactions of a list of blocks.
TxsOf(bs) == FlattenSeq([i \in DOMAIN bs |-> vtx[bs[i]]])

\* Mutated form of PoolAfter: the two loops the other way round.
PoolAfterSwapped(new) ==
  FoldLeft(Resurrect, RemoveAll(Pool, TxsOf(vConnect(pindexBest, new))),
           TxsOf(vDisconnect(pindexBest, new)))

\* Mutated form of PoolAfter: nothing is resurrected.
PoolAfterForget(new) == RemoveAll(Pool, TxsOf(vConnect(pindexBest, new)))

\* The transactions of the old branch return to the pool, then those of the
\* new one leave it.
PoolAfter(new) ==
  RemoveAll(FoldLeft(Resurrect, Pool, TxsOf(vDisconnect(pindexBest, new))),
            TxsOf(vConnect(pindexBest, new)))

\* The new block is elsewhere: Reorganize to the first block that makes its
\* branch the best one, in one database transaction.
SwitchReorganize ==
  /\ op.at = "switch"
  /\ op.new = Genesis \/ Prev[op.new] # pindexBest
  /\ CanDisconnect(Target) /\ Reorganization.ok
  /\ TxnCommit(Reorganization, Target)
  /\ pnext' = Relinked(Target)
  /\ SetPool(PoolAfter(Target))
  /\ op' = IF Target = op.new
           THEN Finish(op.new, op.by)
           ELSE Connect(op.new, op.by, Postponed(pindexBest, op.new))
  /\ UNCHANGED <<mapBlockIndex, hashSyncCheckpoint, infoDb, pindexBest,
                 orphanVars, hashPendingCheckpoint, boundVars>>

SwitchReorganizeFails ==
  /\ op.at = "switch"
  /\ op.new = Genesis \/ Prev[op.new] # pindexBest
  /\ ~(CanDisconnect(Target) /\ Reorganization.ok)
  /\ SetBestChainFails

\* A postponed block is connected in a transaction of its own.
ConnectPostponed ==
  /\ op.at = "connect"
  /\ Extended(Head(op.todo)).ok
  /\ Extend(Head(op.todo))
  /\ op' = IF Len(op.todo) = 1
           THEN Finish(op.new, op.by)
           ELSE Connect(op.new, op.by, Tail(op.todo))
  /\ UNCHANGED <<mapBlockIndex, hashSyncCheckpoint, infoDb, pindexBest,
                 orphanVars, hashPendingCheckpoint, boundVars>>

\* It cannot be connected: the loop stops, the database transaction is
\* aborted, and the infos that were processed so far stay in txInfoView.
ConnectPostponedFails ==
  /\ op.at = "connect"
  /\ ~Extended(Head(op.todo)).ok
  /\ infoView' = Extended(Head(op.todo)).infos
  /\ op' = Finish(op.new, op.by)
  /\ UNCHANGED <<mapBlockIndex, hashSyncCheckpoint, diskVars, infoDb,
                 pindexBest, pnext, poolVars, hashPendingCheckpoint, boundVars>>

\* txInfoView.Commit() and the new best block in memory.
FinishSwitch ==
  /\ op.at = "finish"
  /\ infoDb' = infoView
  /\ pindexBest' = op.new
  /\ \/ op.by = "accept" /\ op' = Pending
     \/ op.by = "reset" /\ op' = WriteReset
     \/ op.by \in {"pending", "process"} /\ op' = WriteCp(op.new)
  /\ UNCHANGED <<mapBlockIndex, hashSyncCheckpoint, diskVars, pnext, infoView,
                 poolVars, hashPendingCheckpoint, boundVars>>
-----------------------------------------------------------------------------
(***************************************************************************)
(* Synchronized checkpoints.                                               *)
(***************************************************************************)

\* Mutated form of ValidateSyncCheckpoint: an older one is accepted as well
\* when it does not conflict.
ValidateOlder(c) ==
  IsAncestor(hashSyncCheckpoint, c) \/ IsAncestor(c, hashSyncCheckpoint)

\* Only a descendant of the current checkpoint is accepted.
ValidateSyncCheckpoint(c) ==
  nHeight(c) > nHeight(hashSyncCheckpoint) /\ IsAncestor(hashSyncCheckpoint, c)

chainUnchanged ==
  UNCHANGED <<mapBlockIndex, diskVars, infoDb, pindexBest, pnext, infoView,
              poolVars, boundVars>>

\* AcceptPendingSyncCheckpoint, at the end of AcceptBlock.
AcceptPendingSyncCheckpoint ==
  /\ op = Pending
  /\ LET c == hashPendingCheckpoint IN
     IF c \notin mapBlockIndex
     THEN op' = Idle /\ UNCHANGED <<hashSyncCheckpoint, hashPendingCheckpoint>>
     ELSE IF ~ValidateSyncCheckpoint(c)
     THEN op' = Idle /\ hashPendingCheckpoint' = NoBlock /\ UNCHANGED hashSyncCheckpoint
     ELSE /\ op' = IF IsInMainChain(c) THEN WriteCp(c) ELSE Switch(c, "pending")
          /\ UNCHANGED <<hashSyncCheckpoint, hashPendingCheckpoint>>
  /\ chainUnchanged

\* ProcessSyncCheckpoint: a checkpoint message signed by the master key.
ProcessSyncCheckpoint(c) ==
  /\ op = Idle
  /\ IF c \notin mapBlockIndex
     THEN hashPendingCheckpoint' = c /\ UNCHANGED op
     ELSE /\ ValidateSyncCheckpoint(c)
          /\ op' = IF IsInMainChain(c) THEN WriteCp(c) ELSE Switch(c, "process")
          /\ UNCHANGED hashPendingCheckpoint
  /\ UNCHANGED hashSyncCheckpoint
  /\ chainUnchanged

WriteSyncCheckpoint ==
  /\ op.at = "writecp"
  /\ hashSyncCheckpoint' = op.new
  /\ hashPendingCheckpoint' = NoBlock
  /\ op' = Idle
  /\ chainUnchanged

\* ResetSyncCheckpoint, first half: the last hardened checkpoint is made part
\* of the main chain, or waited for.
ResetSyncCheckpoint ==
  /\ op = ResetCp
  /\ LET c == Last(Hardened) IN
     /\ op' = IF c \in mapBlockIndex /\ ~IsInMainChain(c)
              THEN Switch(c, "reset") ELSE WriteReset
     /\ hashPendingCheckpoint' = IF c \in mapBlockIndex
                                 THEN hashPendingCheckpoint ELSE c
  /\ UNCHANGED hashSyncCheckpoint
  /\ chainUnchanged

\* Second half: the last hardened checkpoint of the main chain.
WriteResetCheckpoint ==
  /\ op = WriteReset
  /\ hashSyncCheckpoint' =
       Hardened[Max({i \in DOMAIN Hardened : Hardened[i] \in mapBlockIndex
                                             /\ IsInMainChain(Hardened[i])})]
  /\ op' = Idle
  /\ UNCHANGED hashPendingCheckpoint
  /\ chainUnchanged
-----------------------------------------------------------------------------
\* The process dies anywhere and LoadBlockIndex reads the databases again.
\* With another master key in the binary, the sync-checkpoint is reset; the
\* new key has been committed before.
Restart(newKey) ==
  /\ restarts < MaxRestarts
  /\ newKey => keyChanges < MaxKeyChanges
  /\ restarts' = restarts + 1
  /\ keyChanges' = IF newKey THEN keyChanges + 1 ELSE keyChanges
  /\ pindexBest' = hashBestChainDisk
  /\ pnext' = hashNext
  /\ infoView' = infoDb
  /\ SetPool([tx |-> {}, next |-> [o \in Txs |-> Absent]])
  /\ SetOrphans([tx |-> {}, byPrev |-> [o \in Txs |-> {}]])
  /\ hashPendingCheckpoint' = NoBlock
  /\ op' = IF newKey THEN ResetCp ELSE Idle
  /\ UNCHANGED <<mapBlockIndex, hashSyncCheckpoint, diskVars, infoDb>>

SetBestChain ==
  \/ SwitchExtend \/ SwitchExtendFails
  \/ SwitchReorganize \/ SwitchReorganizeFails
  \/ ConnectPostponed \/ ConnectPostponedFails
  \/ FinishSwitch

Next ==
  \/ \E tx \in Txs : AcceptToMemoryPool(tx) \/ TxMessage(tx) \/ CreateNewBlock(tx)
  \/ \E b \in Blocks \ {Genesis} : AcceptBlock(b)
  \/ SetBestChain
  \/ AcceptPendingSyncCheckpoint
  \/ \E c \in SignedCheckpoints : ProcessSyncCheckpoint(c)
  \/ WriteSyncCheckpoint
  \/ ResetSyncCheckpoint
  \/ WriteResetCheckpoint
  \/ \E newKey \in BOOLEAN : Restart(newKey)

Spec == Init /\ [][Next]_vars
-----------------------------------------------------------------------------
(***************************************************************************)
(* Properties.                                                             *)
(***************************************************************************)

\* The transactions of the chain up to b that spend the output of t.
Spenders(b, t) == {u \in ChainTxs(b) : t \in ToSet(vin[u])}

\* The transaction index is that of the chain hashBestChain names: exactly its
\* transactions are indexed, every output has one spender at most, and vSpent
\* names it.  About the order of DisconnectInputs and ConnectInputs over a
\* reorganization, and about the commits: it holds at every commit.
TxIndexMatchesBest ==
  \A t \in Txs :
    CASE t \notin ChainTxs(hashBestChainDisk)  -> txIndex[t] = Absent
      [] t \in ChainTxs(hashBestChainDisk) /\ Spenders(hashBestChainDisk, t) = {}
                                               -> txIndex[t] = Unspent
      [] OTHER -> Spenders(hashBestChainDisk, t) = {txIndex[t]}

\* The info records of the chain up to b, in the order it was connected.
ChainInfos(b) ==
  FlattenSeq([h \in 1..(Len(ChainTo[b]) - 1) |->
    LET blk == ChainTo[b][h + 1] IN
    FlattenSeq([n \in DOMAIN vtx[blk] |->
      [j \in DOMAIN infosOf[vtx[blk][n]] |->
         InfoRecord(vtx[blk][n], j, <<blk, n>>)]])])

\* Between two operations the info store holds the infos of the best chain's
\* blocks, in their order, and no other: what a failed ConnectBlock or a
\* failed Reorganize processed is gone.
InfosMatchBest ==
  op = Idle =>
    LET ids == SetToSortSeq(DOMAIN infoView.row, <)
    IN [i \in DOMAIN ids |-> infoView.row[ids[i]]] = ChainInfos(pindexBest)

\* The links of the chain up to best.
LinksOf(best) ==
  [b \in Blocks |-> IF \E c \in Blocks \ {Genesis} : IsAncestor(c, best) /\ Prev[c] = b
                    THEN CHOOSE c \in Blocks \ {Genesis} : IsAncestor(c, best) /\ Prev[c] = b
                    ELSE NoBlock]

\* Between two operations memory shows what the database holds, pindexBest is
\* hashBestChain and pnext is hashNext ("make sure it's successfully written
\* to disk before changing memory structure"); and pnext leads from the genesis
\* block to pindexBest and is null everywhere else, so that IsInMainChain tells
\* the main chain from the branches Reorganize left.
MemoryIsDisk ==
  op = Idle => /\ pindexBest = hashBestChainDisk /\ pnext = hashNext
               /\ pnext = LinksOf(pindexBest)

\* Between two operations the transaction index and the info store are both
\* those of the best chain, after any reorganization that succeeded or failed.
DatabasesMatchBest == TxIndexMatchesBest /\ InfosMatchBest

\* At every commit hashNext of the index records leads to hashBestChain and
\* nowhere else, and the transaction index is that of the same chain, so that
\* LoadBlockIndex finds one main chain after a crash at any of them, and after
\* a postponed block failed.
DiskIsOneChain == TxIndexMatchesBest /\ hashNext = LinksOf(hashBestChainDisk)

\* The blocks that connect, with all blocks before them, from the genesis block.
Connectable ==
  {b \in Blocks :
     FoldLeft(LAMBDA s, c : IF c = Genesis THEN s ELSE ConnectBlock(s, c, s.next),
              [ok |-> TRUE, tx |-> [t \in Txs |-> Absent],
               next |-> [c \in Blocks |-> NoBlock], infos |-> EmptyTable],
              ChainTo[b]).ok}

\* Between two operations no block that is known and valid, with all blocks
\* before it, has more trust than the best one, whatever the order the blocks
\* came in: AddToBlockIndex and SetBestChain follow the most trusted branch.
MostTrusted ==
  op = Idle => \A b \in mapBlockIndex \cap Connectable :
                 bnChainTrust[b] <= bnChainTrust[pindexBest]

\* mapNextTx is exactly the inputs of the pool's transactions, no two of which
\* spend the same output, after any order of accept, remove and resurrection.
PoolIndexed ==
  \A o, u \in Txs : mapNextTx[o] = u <=> (u \in mapTx /\ o \in ToSet(vin[u]))

\* No transaction of the pool is confirmed: every block that is connected, by
\* SetBestChainInner or by Reorganize, takes its transactions out of the pool,
\* those that Reorganize has just resurrected included.  And mapNextTx is
\* exactly the inputs of the pool's transactions.
PoolFollowsChain == mapTx \cap ChainTxs(hashBestChainDisk) = {} /\ PoolIndexed

\* What is confirmed or in the pool, and can be in either.
Payments == mapTx \cup (ChainTxs(hashBestChainDisk) \ Coinbases)

Rival(t, u) == u # t /\ ToSet(vin[u]) \cap ToSet(vin[t]) # {}

\* A payment that was confirmed or in the pool is never lost by a change of the
\* best chain: it is confirmed or in the pool afterwards, or else a rival that
\* spends one of its inputs is.  What goes with its block is coinbase, coinstake and
\* what accept refuses even to a transaction that was confirmed; only a restart
\* empties the pool, and only CreateNewBlock drops one payment from it, whose infos
\* can no longer be processed.  About the resurrection by Reorganize, and about the
\* reorganizations that fail half-way.
PaymentsKept ==
  [][restarts' = restarts =>
       \A t \in (Payments \ Payments') \ NonStandardTxs :
         (\E u \in Payments' : Rival(t, u)) \/ CreateNewBlock(t)]_vars

\* mapOrphanTransactionsByPrev lists every orphan under each of its inputs and no
\* other, so that none is overlooked when its input comes and none is used after
\* EraseOrphanTx has deleted it; and there are never more than nMaxOrphans, after any
\* order of adoption, refusal and eviction.
OrphansIndexed ==
  /\ \A p \in Txs : mapOrphanTransactionsByPrev[p] = {o \in mapOrphanTransactions : p \in ToSet(vin[o])}
  /\ Cardinality(mapOrphanTransactions) <= nMaxOrphans

\* After a tx message every orphan that spends a transaction it has brought into the
\* pool, at any depth, is accepted, or was refused and forgotten, or still misses
\* another input.
OrphansAdopted ==
  [][\A tx \in mapTx' \ mapTx : TxMessage(tx) =>
       \A o \in mapOrphanTransactions' :
         ToSet(vin[o]) \cap (mapTx' \ mapTx) # {} => MissesInput(Pool, o)']_vars

\* The sync-checkpoint is a known block of the best chain on disk, after a
\* crash at any commit too: ("sync-checkpoint should always be accepted
\* block", CheckSync).
CheckpointInMainChain == IsAncestor(hashSyncCheckpoint, hashBestChainDisk)

\* A sync-checkpoint is only replaced by a descendant of it, except when the
\* master key has changed: ValidateSyncCheckpoint, also for a checkpoint that
\* was pending while another one was accepted.
CheckpointAdvances ==
  [][hashSyncCheckpoint' # hashSyncCheckpoint /\ op # WriteReset
       => IsAncestor(hashSyncCheckpoint, hashSyncCheckpoint')]_vars
=============================================================================
