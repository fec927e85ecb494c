-------------------------- MODULE ChainStateProofs --------------------------
(***************************************************************************)
(* Sync-checkpoints advance along one branch, for every tree of blocks and *)
(* every database.  A checkpoint is validated when it arrives, or when the *)
(* block it waits for does; it is written several commits later, after the *)
(* main chain has been switched to it.  The invariant carries the result   *)
(* of the check through all steps in between: SetBestChain may not be      *)
(* reached with one block and left with another.                           *)
(*                                                                         *)
(* Then the memory pool and the orphan transactions: their indexes agree   *)
(* with them, through every fold over transactions and blocks that         *)
(* connects, disconnects, resurrects, adopts or evicts.  What the folds    *)
(* compute is proved with FoldLemmas; that each starts and ends with       *)
(* well-formed values is all that the invariant needs of them.             *)
(*                                                                         *)
(* Then the databases: what connecting and disconnecting a block does to   *)
(* the index, what Reorganize does to the links between blocks, and with   *)
(* these that disk and memory show one chain at every commit.              *)
(*                                                                         *)
(* Last what ties the pool to the chain: no payment is lost when the main  *)
(* chain changes, nothing in the pool is confirmed or spends what is       *)
(* spent, and the work queue of the tx message adopts every orphan it can. *)
(***************************************************************************)
EXTENDS ChainState, FoldLemmas, SequenceTheorems

\* An operation on behalf of a checkpoint is for a descendant of the current
\* one, from ValidateSyncCheckpoint to WriteSyncCheckpoint.
Carried ==
  /\ op.at \in {"switch", "connect", "finish"} /\ op.by \notin {"accept", "reset"}
       => IsAncestor(hashSyncCheckpoint, op.new)
  /\ op.at = "writecp" => IsAncestor(hashSyncCheckpoint, op.new)

\* No operation is under way at the start.
LEMMA CarriedInit == Init => Carried
  BY DEF Init, Carried, Idle

\* The steps of SetBestChain keep the block and the caller they were started
\* with.
LEMMA CarriedSetBestChain ==
  ASSUME Carried, SetBestChain
  PROVE  Carried'
<1>1. hashSyncCheckpoint' = hashSyncCheckpoint
  BY DEF SetBestChain, SwitchExtend, SwitchExtendFails, SwitchReorganize,
         SwitchReorganizeFails, ConnectPostponed, ConnectPostponedFails,
         FinishSwitch, SetBestChainFails
<1>2. CASE SwitchExtend
  BY <1>1, <1>2 DEF SwitchExtend, Carried, Finish
<1>3. CASE SwitchExtendFails
  BY <1>1, <1>3 DEF SwitchExtendFails, SetBestChainFails, Carried, Idle, Down
<1>4. CASE SwitchReorganize
  <2>1. op.at = "switch"
    BY <1>4 DEF SwitchReorganize
  <2>2. CASE op' = Finish(op.new, op.by)
    BY <1>1, <2>1, <2>2 DEF Carried, Finish
  <2>3. CASE op' = Connect(op.new, op.by, Postponed(pindexBest, op.new))
    BY <1>1, <2>1, <2>3 DEF Carried, Connect
  <2> QED BY <1>4, <2>2, <2>3 DEF SwitchReorganize
<1>5. CASE SwitchReorganizeFails
  BY <1>1, <1>5 DEF SwitchReorganizeFails, SetBestChainFails, Carried, Idle, Down
<1>6. CASE ConnectPostponed
  <2>1. op.at = "connect"
    BY <1>6 DEF ConnectPostponed
  <2>2. CASE op' = Finish(op.new, op.by)
    BY <1>1, <2>1, <2>2 DEF Carried, Finish
  <2>3. CASE op' = Connect(op.new, op.by, Tail(op.todo))
    BY <1>1, <2>1, <2>3 DEF Carried, Connect
  <2> QED BY <1>6, <2>2, <2>3 DEF ConnectPostponed
<1>7. CASE ConnectPostponedFails
  BY <1>1, <1>7 DEF ConnectPostponedFails, Carried, Finish
<1>8. CASE FinishSwitch
  BY <1>1, <1>8 DEF FinishSwitch, Carried, Pending, WriteReset, WriteCp
<1> QED
  BY <1>2, <1>3, <1>4, <1>5, <1>6, <1>7, <1>8 DEF SetBestChain

\* A checkpoint operation starts with the check, and every other operation
\* starts on behalf of no checkpoint.
LEMMA CarriedNext ==
  ASSUME Carried, [Next]_vars
  PROVE  Carried'
<1>1. CASE UNCHANGED vars
  BY <1>1 DEF vars, Carried
<1>2. ASSUME NEW tx \in Txs, AcceptToMemoryPool(tx) \/ CreateNewBlock(tx) PROVE Carried'
  BY <1>2 DEF AcceptToMemoryPool, CreateNewBlock, chainVars, Carried
<1>11. ASSUME NEW tx \in Txs, TxMessage(tx) PROVE Carried'
  BY <1>11 DEF TxMessage, chainVars, Carried
<1>3. ASSUME NEW b \in Blocks \ {Genesis}, AcceptBlock(b) PROVE Carried'
  BY <1>3 DEF AcceptBlock, Carried, Switch, Pending
<1>4. CASE SetBestChain
  BY <1>4, CarriedSetBestChain
<1>5. CASE AcceptPendingSyncCheckpoint
  <2>1. hashSyncCheckpoint' = hashSyncCheckpoint
    BY <1>5 DEF AcceptPendingSyncCheckpoint
  <2>2. CASE op' = Idle
    BY <2>2 DEF Carried, Idle
  <2>3. CASE op' # Idle
    <3>1. /\ ValidateSyncCheckpoint(hashPendingCheckpoint)
          /\ \/ op' = WriteCp(hashPendingCheckpoint)
             \/ op' = Switch(hashPendingCheckpoint, "pending")
      BY <1>5, <2>3 DEF AcceptPendingSyncCheckpoint
    <3> QED BY <2>1, <3>1 DEF Carried, WriteCp, Switch, ValidateSyncCheckpoint
  <2> QED BY <2>2, <2>3
<1>6. ASSUME NEW c \in SignedCheckpoints, ProcessSyncCheckpoint(c) PROVE Carried'
  BY <1>6 DEF ProcessSyncCheckpoint, Carried, WriteCp, Switch, Idle,
              ValidateSyncCheckpoint
<1>7. CASE WriteSyncCheckpoint
  BY <1>7 DEF WriteSyncCheckpoint, Carried, Idle
<1>8. CASE ResetSyncCheckpoint
  BY <1>8 DEF ResetSyncCheckpoint, Carried, Switch, WriteReset
<1>9. CASE WriteResetCheckpoint
  BY <1>9 DEF WriteResetCheckpoint, Carried, Idle
<1>10. ASSUME NEW newKey \in BOOLEAN, Restart(newKey) PROVE Carried'
  BY <1>10 DEF Restart, Carried, Idle, ResetCp
<1> QED
  BY <1>1, <1>2, <1>3, <1>4, <1>5, <1>6, <1>7, <1>8, <1>9, <1>10, <1>11 DEF Next

\* Only WriteSyncCheckpoint and a reset change the checkpoint.
LEMMA AdvanceStep ==
  ASSUME Carried, [Next]_vars, hashSyncCheckpoint' # hashSyncCheckpoint,
         op # WriteReset
  PROVE  IsAncestor(hashSyncCheckpoint, hashSyncCheckpoint')
<1>1. \/ WriteSyncCheckpoint
      \/ WriteResetCheckpoint
  BY DEF Next, vars, AcceptToMemoryPool, TxMessage, CreateNewBlock, chainVars, AcceptBlock, SetBestChain, SwitchExtend,
         SwitchExtendFails, SwitchReorganize, SwitchReorganizeFails,
         ConnectPostponed, ConnectPostponedFails, FinishSwitch,
         SetBestChainFails, AcceptPendingSyncCheckpoint, ProcessSyncCheckpoint,
         ResetSyncCheckpoint, Restart
<1>2. WriteSyncCheckpoint
  BY <1>1 DEF WriteResetCheckpoint
<1> QED
  BY <1>2 DEF WriteSyncCheckpoint, Carried

\* In every behaviour, with crashes at any commit, rival branches, pending and
\* repeated checkpoint messages, a sync-checkpoint is replaced only by a
\* descendant of it, unless the checkpoint master key was changed
\* (ValidateSyncCheckpoint, AcceptPendingSyncCheckpoint, WriteSyncCheckpoint).
THEOREM CheckpointsAdvance == Spec => CheckpointAdvances
<1>1. Init => Carried
  BY CarriedInit
<1>2. Carried /\ [Next]_vars => Carried'
  BY CarriedNext
<1>3. Carried /\ [Next]_vars
        => [hashSyncCheckpoint' # hashSyncCheckpoint /\ op # WriteReset
              => IsAncestor(hashSyncCheckpoint, hashSyncCheckpoint')]_vars
  BY AdvanceStep
<1> QED
  BY <1>1, <1>2, <1>3, PTL DEF Spec, CheckpointAdvances
-----------------------------------------------------------------------------
(***************************************************************************)
(* The memory pool and the orphan transactions.                            *)
(***************************************************************************)

\* A pool whose mapNextTx is exactly the inputs of its transactions.
GoodPool ==
  {p \in [tx : SUBSET (Txs \ Coinbases), next : [Txs -> Txs \cup {Absent}]] :
     \A o, u \in Txs : p.next[o] = u <=> (u \in p.tx /\ o \in ToSet(vin[u]))}

\* accept puts a transaction without a conflict into the pool.
LEMMA AddedGood ==
  ASSUME NEW p \in GoodPool, NEW tx \in Txs \ Coinbases, NoConflict(p, tx)
  PROVE  addUnchecked(p, tx) \in GoodPool
<1> DEFINE q == addUnchecked(p, tx)
<1>1. p.tx \in SUBSET (Txs \ Coinbases) /\ p.next \in [Txs -> Txs \cup {Absent}]
  BY DEF GoodPool
<1>2. /\ q.tx = p.tx \cup {tx}
      /\ \A o \in Txs : q.next[o] = IF o \in ToSet(vin[tx]) THEN tx ELSE p.next[o]
      /\ q \in [tx : SUBSET (Txs \ Coinbases), next : [Txs -> Txs \cup {Absent}]]
  BY <1>1 DEF addUnchecked
<1>3. ASSUME NEW o \in Txs, NEW u \in Txs
      PROVE  q.next[o] = u <=> (u \in q.tx /\ o \in ToSet(vin[u]))
  <2>1. p.next[o] = u <=> (u \in p.tx /\ o \in ToSet(vin[u]))
    BY DEF GoodPool
  <2>2. tx \notin p.tx /\ (o \in ToSet(vin[tx]) => p.next[o] = Absent)
    BY DEF NoConflict
  <2>3. u # Absent
    BY TreeAssumption
  <2> HIDE DEF q
  <2> QED BY <1>2, <2>1, <2>2, <2>3
<1>4. \A o, u \in Txs : q.next[o] = u <=> (u \in q.tx /\ o \in ToSet(vin[u]))
  BY <1>3
<1> HIDE DEF q
<1>5. q \in GoodPool
  BY <1>2, <1>4, Zenon DEF GoodPool
<1> QED
  BY <1>5 DEF q

\* CTxMemPool::remove takes exactly the inputs of the transaction out of mapNextTx.
LEMMA RemovedGood ==
  ASSUME NEW p \in GoodPool, NEW tx
  PROVE  PoolRemove(p, tx) \in GoodPool
<1> DEFINE q == PoolRemove(p, tx)
<1>0. CASE tx \notin p.tx
  BY <1>0 DEF PoolRemove
<1>1. CASE tx \in p.tx
  <2>1. p.tx \in SUBSET (Txs \ Coinbases) /\ p.next \in [Txs -> Txs \cup {Absent}]
    BY DEF GoodPool
  <2>2. /\ q.tx = p.tx \ {tx}
        /\ \A o \in Txs : q.next[o] = IF o \in ToSet(vin[tx]) THEN Absent ELSE p.next[o]
        /\ q \in [tx : SUBSET (Txs \ Coinbases), next : [Txs -> Txs \cup {Absent}]]
    BY <1>1, <2>1 DEF PoolRemove
  <2>3. ASSUME NEW o \in Txs, NEW u \in Txs
        PROVE  q.next[o] = u <=> (u \in q.tx /\ o \in ToSet(vin[u]))
    <3>1. \A v \in Txs : p.next[o] = v <=> (v \in p.tx /\ o \in ToSet(vin[v]))
      BY DEF GoodPool
    <3>2. u # Absent /\ tx \in Txs
      BY <1>1, <2>1, TreeAssumption
    <3> HIDE DEF q
    <3> QED BY <1>1, <2>2, <3>1, <3>2
  <2>4. \A o, u \in Txs : q.next[o] = u <=> (u \in q.tx /\ o \in ToSet(vin[u]))
    BY <2>3
  <2> HIDE DEF q
  <2>5. q \in GoodPool
    BY <2>2, <2>4, Zenon DEF GoodPool
  <2> QED BY <2>5 DEF q
<1> QED
  BY <1>0, <1>1

\* So does the removal of any list of transactions, which takes these and no other.
LEMMA RemoveAllGood ==
  ASSUME NEW p \in GoodPool, NEW n \in Nat, NEW txs, DOMAIN txs = 1..n
  PROVE  /\ RemoveAll(p, txs) \in GoodPool
         /\ RemoveAll(p, txs).tx = p.tx \ {txs[i] : i \in 1..n}
<1> DEFINE T == [s \in SUBSET (1..n) |-> GoodPool]
           U == [s \in SUBSET (1..n) |-> {x \in GoodPool : x.tx = p.tx \ {txs[i] : i \in s}}]
           F == [x \in GoodPool \X (1..n) |-> PoolRemove(x[1], txs[x[2]])]
           iter == CHOOSE f : f = [s \in SUBSET (1..n) |->
                     IF s = {} THEN p ELSE PoolRemove(f[s \ {Max(s)}], txs[Max(s)])]
<1>1. \A x \in GoodPool, i \in 1..n :
        F[<<x, i>>] = PoolRemove(x, txs[i]) /\ PoolRemove(x, txs[i]) \in GoodPool
  BY RemovedGood, Zenon
<1>2. \A s \in SUBSET (1..n) : T[s] = GoodPool /\ s \ {Max(s)} \in SUBSET (1..n)
  OBVIOUS
<1>3. \A s \in SUBSET (1..n) : s # {} => Max(s) \in 1..n
  BY MaxIn
<1>4. PICK f : IsFold(f, 1..n, p, F) /\ \A s \in SUBSET (1..n) : f[s] \in T[s]
  <2> HIDE DEF T, F
  <2>1. p \in T[{}]
    BY <1>2
  <2>2. \A s \in SUBSET (1..n) : s # {} =>
          \A x \in T[s \ {Max(s)}] : F[<<x, Max(s)>>] \in T[s]
    BY <1>1, <1>2, <1>3
  <2> QED BY <2>1, <2>2, FoldExists
<1>5. f = [s \in SUBSET (1..n) |->
             IF s = {} THEN p ELSE PoolRemove(f[s \ {Max(s)}], txs[Max(s)])]
  <2> HIDE DEF T, F
  <2>1. \A s \in SUBSET (1..n) : s # {} =>
          F[<<f[s \ {Max(s)}], Max(s)>>] = PoolRemove(f[s \ {Max(s)}], txs[Max(s)])
    BY <1>1, <1>2, <1>3, <1>4
  <2>2. f = [s \in SUBSET (1..n) |-> IF s = {} THEN p ELSE F[<<f[s \ {Max(s)}], Max(s)>>]]
    BY <1>4, Zenon DEF IsFold
  <2> QED BY <2>1, <2>2
<1>6. iter = [s \in SUBSET (1..n) |->
                IF s = {} THEN p ELSE PoolRemove(iter[s \ {Max(s)}], txs[Max(s)])]
  BY <1>5, Zenon
<1>7. iter[1..n] \in U[1..n]
  <2> HIDE DEF T, iter
  <2>1. iter[{}] \in U[{}]
    BY <1>6
  <2>2. ASSUME NEW s \in SUBSET (1..n), s # {}, iter[s \ {Max(s)}] \in U[s \ {Max(s)}]
        PROVE  iter[s] \in U[s]
    <3> DEFINE m == Max(s)
               x == iter[s \ {m}]
    <3>1. iter[s] = PoolRemove(x, txs[m])
      BY <1>6, <2>2
    <3>2. x \in GoodPool /\ x.tx = p.tx \ {txs[i] : i \in s \ {m}} /\ m \in s
      BY <1>2, <1>3, <2>2, MaxIn
    <3>3. PoolRemove(x, txs[m]) \in GoodPool
      BY <1>1, <1>3, <2>2, <3>2, Zenon
    <3>4. PoolRemove(x, txs[m]).tx = x.tx \ {txs[m]}
      BY DEF PoolRemove
    <3> HIDE DEF m, x
    <3>5. PoolRemove(x, txs[m]).tx = p.tx \ {txs[i] : i \in s}
      BY <3>2, <3>4
    <3> QED BY <3>1, <3>3, <3>5
  <2> HIDE DEF U
  <2> QED BY <2>1, <2>2, FoldKeeps
<1>8. RemoveAll(p, txs) = iter[1..n]
  BY Zenon DEF RemoveAll, FoldLeft, MapThenFoldSet
<1>9. 1..n \in SUBSET (1..n)
  OBVIOUS
<1> HIDE DEF iter
<1> QED
  BY <1>7, <1>8, <1>9

\* A transaction that a pool has, or that it has a rival of, or that goes with its block
\* because accept refuses it.
IsKept(r, tx) == tx \in r.tx \cup Coinbases \cup NonStandardTxs \/ \E u \in r.tx : Rival(tx, u)

\* accept keeps what was there and takes the transaction in or has a rival of it.
LEMMA ResurrectedKeeps ==
  ASSUME NEW p \in GoodPool, NEW tx \in Txs
  PROVE  LET r == Resurrect(p, tx)
         IN p.tx \subseteq r.tx /\ r.tx \subseteq p.tx \cup {tx} /\ IsKept(r, tx)
<1>1. CASE Acceptable(tx) /\ NoConflict(p, tx)
  BY <1>1 DEF Resurrect, addUnchecked, IsKept
<1>2. CASE ~Acceptable(tx) \/ tx \in p.tx
  BY <1>2 DEF Resurrect, Acceptable, NoConflict, IsKept
<1>3. CASE Acceptable(tx) /\ tx \notin p.tx /\ ~NoConflict(p, tx)
  <2>1. PICK o \in ToSet(vin[tx]) : p.next[o] # Absent
    BY <1>3 DEF NoConflict
  <2>2. o \in Txs
    BY TreeAssumption DEF ToSet
  <2>3. p.next[o] \in p.tx /\ o \in ToSet(vin[p.next[o]])
    BY <2>1, <2>2 DEF GoodPool
  <2>4. Rival(tx, p.next[o])
    BY <1>3, <2>1, <2>3 DEF Rival
  <2> QED BY <1>3, <2>3, <2>4 DEF Resurrect, IsKept
<1> QED
  BY <1>1, <1>2, <1>3

\* The transactions of the disconnected blocks are accepted one by one: the pool loses
\* none, and has each of them, or a rival, afterwards.
LEMMA ResurrectGood ==
  ASSUME NEW p \in GoodPool, NEW n \in Nat, NEW txs \in [1..n -> Txs]
  PROVE  LET r == FoldLeft(Resurrect, p, txs)
         IN /\ r \in GoodPool
            /\ p.tx \subseteq r.tx /\ r.tx \subseteq p.tx \cup {txs[i] : i \in 1..n}
            /\ \A i \in 1..n : IsKept(r, txs[i])
<1> DEFINE T == [s \in SUBSET (1..n) |-> GoodPool]
           Kept(x, s) == /\ p.tx \subseteq x.tx /\ x.tx \subseteq p.tx \cup {txs[i] : i \in s}
                         /\ \A i \in s : IsKept(x, txs[i])
           U == [s \in SUBSET (1..n) |-> {x \in GoodPool : Kept(x, s)}]
           F == [x \in GoodPool \X (1..n) |-> Resurrect(x[1], txs[x[2]])]
           iter == CHOOSE f : f = [s \in SUBSET (1..n) |->
                     IF s = {} THEN p ELSE Resurrect(f[s \ {Max(s)}], txs[Max(s)])]
<1>0. ASSUME NEW x \in GoodPool, NEW i \in 1..n PROVE Resurrect(x, txs[i]) \in GoodPool
  <2>1. txs[i] \in Txs
    OBVIOUS
  <2> QED BY <2>1, AddedGood DEF Resurrect, Acceptable
<1>1. \A x \in GoodPool, i \in 1..n :
        F[<<x, i>>] = Resurrect(x, txs[i]) /\ Resurrect(x, txs[i]) \in GoodPool
  BY <1>0, Zenon
<1>2. \A s \in SUBSET (1..n) : T[s] = GoodPool /\ s \ {Max(s)} \in SUBSET (1..n)
  OBVIOUS
<1>3. \A s \in SUBSET (1..n) : s # {} => Max(s) \in 1..n
  BY MaxIn
<1>4. PICK f : IsFold(f, 1..n, p, F) /\ \A s \in SUBSET (1..n) : f[s] \in T[s]
  <2> HIDE DEF T, F
  <2>1. p \in T[{}]
    BY <1>2
  <2>2. \A s \in SUBSET (1..n) : s # {} =>
          \A x \in T[s \ {Max(s)}] : F[<<x, Max(s)>>] \in T[s]
    BY <1>1, <1>2, <1>3
  <2> QED BY <2>1, <2>2, FoldExists
<1>5. f = [s \in SUBSET (1..n) |->
             IF s = {} THEN p ELSE Resurrect(f[s \ {Max(s)}], txs[Max(s)])]
  <2> HIDE DEF T, F
  <2>1. \A s \in SUBSET (1..n) : s # {} =>
          F[<<f[s \ {Max(s)}], Max(s)>>] = Resurrect(f[s \ {Max(s)}], txs[Max(s)])
    <3> SUFFICES ASSUME NEW s \in SUBSET (1..n), s # {}
                 PROVE  F[<<f[s \ {Max(s)}], Max(s)>>] = Resurrect(f[s \ {Max(s)}], txs[Max(s)])
      OBVIOUS
    <3> DEFINE m == Max(s)
    <3>1. m \in 1..n /\ s \ {m} \in SUBSET (1..n)
      BY <1>3
    <3> HIDE DEF m
    <3>2. f[s \ {m}] \in GoodPool
      BY <1>2, <1>4, <3>1
    <3>3. F[<<f[s \ {m}], m>>] = Resurrect(f[s \ {m}], txs[m])
      BY <1>1, <3>1, <3>2
    <3> QED BY <3>3 DEF m
  <2>2. f = [s \in SUBSET (1..n) |-> IF s = {} THEN p ELSE F[<<f[s \ {Max(s)}], Max(s)>>]]
    BY <1>4, Zenon DEF IsFold
  <2> QED BY <2>1, <2>2
<1>6. iter = [s \in SUBSET (1..n) |->
                IF s = {} THEN p ELSE Resurrect(iter[s \ {Max(s)}], txs[Max(s)])]
  BY <1>5, Zenon
<1>7. iter[1..n] \in U[1..n]
  <2> HIDE DEF T, iter
  <2>1. iter[{}] \in U[{}]
    BY <1>6
  <2>2. ASSUME NEW s \in SUBSET (1..n), s # {}, iter[s \ {Max(s)}] \in U[s \ {Max(s)}]
        PROVE  iter[s] \in U[s]
    <3> DEFINE m == Max(s)
               x == iter[s \ {m}]
               r == Resurrect(x, txs[m])
    <3>1. iter[s] = r
      BY <1>6, <2>2
    <3>2. x \in GoodPool /\ Kept(x, s \ {m}) /\ m \in s /\ txs[m] \in Txs
      BY <1>2, <1>3, <2>2, MaxIn
    <3>3. r \in GoodPool
      BY <1>1, <1>3, <2>2, <3>2, Zenon
    <3>4. x.tx \subseteq r.tx /\ r.tx \subseteq x.tx \cup {txs[m]} /\ IsKept(r, txs[m])
      BY <3>2, ResurrectedKeeps
    <3> HIDE DEF m, x, r
    <3>5. ASSUME NEW i \in s PROVE IsKept(r, txs[i])
      <4>1. CASE i = m
        BY <3>4, <4>1
      <4>2. CASE i # m
        BY <3>2, <3>4, <4>2 DEF IsKept
      <4> QED BY <4>1, <4>2
    <3>6. Kept(r, s)
      BY <3>2, <3>4, <3>5
    <3> QED BY <3>1, <3>3, <3>6
  <2> HIDE DEF U
  <2> QED BY <2>1, <2>2, FoldKeeps
<1>8. FoldLeft(Resurrect, p, txs) = iter[1..n]
  BY Zenon DEF FoldLeft, MapThenFoldSet
<1>9. 1..n \in SUBSET (1..n)
  OBVIOUS
<1> HIDE DEF iter
<1> QED
  BY <1>7, <1>8, <1>9

\* Orphans with an exact mapOrphanTransactionsByPrev, all of them in S.
GoodOrphans(S) ==
  {q \in [tx : SUBSET S, byPrev : [Txs -> SUBSET Txs]] :
     \A p \in Txs : q.byPrev[p] = {o \in q.tx : p \in ToSet(vin[o])}}

\* EraseOrphanTx takes an orphan out of the lists of all its inputs.
LEMMA ErasedGood ==
  ASSUME NEW S \in SUBSET Txs, NEW q \in GoodOrphans(S), NEW tx
  PROVE  /\ EraseOrphanTx(q, tx) \in GoodOrphans(S)
         /\ EraseOrphanTx(q, tx).tx = q.tx \ {tx}
<1> DEFINE e == EraseOrphanTx(q, tx)
<1>0. q.tx \in SUBSET S /\ q.byPrev \in [Txs -> SUBSET Txs]
  BY DEF GoodOrphans
<1>1. CASE tx \notin q.tx
  BY <1>0, <1>1 DEF EraseOrphanTx
<1>2. CASE tx \in q.tx
  <2>1. /\ e.tx = q.tx \ {tx}
        /\ \A p \in Txs : e.byPrev[p] = IF p \in ToSet(vin[tx]) THEN q.byPrev[p] \ {tx}
                                         ELSE q.byPrev[p]
        /\ e \in [tx : SUBSET S, byPrev : [Txs -> SUBSET Txs]]
    BY <1>0, <1>2 DEF EraseOrphanTx
  <2>2. ASSUME NEW p \in Txs PROVE e.byPrev[p] = {o \in e.tx : p \in ToSet(vin[o])}
    <3>1. q.byPrev[p] = {o \in q.tx : p \in ToSet(vin[o])}
      BY DEF GoodOrphans
    <3> HIDE DEF e
    <3> QED BY <2>1, <3>1
  <2>3. \A p \in Txs : e.byPrev[p] = {o \in e.tx : p \in ToSet(vin[o])}
    BY <2>2
  <2> HIDE DEF e
  <2>4. e \in GoodOrphans(S)
    BY <2>1, <2>3, Zenon DEF GoodOrphans
  <2> QED BY <2>1, <2>4 DEF e
<1> QED
  BY <1>1, <1>2

\* AddOrphanTx enters an orphan under each of its inputs.
LEMMA AddedOrphanGood ==
  ASSUME NEW S \in SUBSET Txs, NEW q \in GoodOrphans(S), NEW tx \in S
  PROVE  /\ AddOrphanTx(q, tx) \in GoodOrphans(S)
         /\ AddOrphanTx(q, tx).tx \in {q.tx, q.tx \cup {tx}}
<1> DEFINE e == AddOrphanTx(q, tx)
<1>0. q.tx \in SUBSET S /\ q.byPrev \in [Txs -> SUBSET Txs]
  BY DEF GoodOrphans
<1>1. CASE tx \in q.tx \cup LargeTxs
  BY <1>0, <1>1 DEF AddOrphanTx
<1>2. CASE tx \notin q.tx \cup LargeTxs
  <2>1. /\ e.tx = q.tx \cup {tx}
        /\ \A p \in Txs : e.byPrev[p] = IF p \in ToSet(vin[tx]) THEN q.byPrev[p] \cup {tx}
                                         ELSE q.byPrev[p]
        /\ e \in [tx : SUBSET S, byPrev : [Txs -> SUBSET Txs]]
    BY <1>0, <1>2 DEF AddOrphanTx
  <2>2. ASSUME NEW p \in Txs PROVE e.byPrev[p] = {o \in e.tx : p \in ToSet(vin[o])}
    <3>1. q.byPrev[p] = {o \in q.tx : p \in ToSet(vin[o])}
      BY DEF GoodOrphans
    <3> HIDE DEF e
    <3> QED BY <2>1, <3>1
  <2>3. \A p \in Txs : e.byPrev[p] = {o \in e.tx : p \in ToSet(vin[o])}
    BY <2>2
  <2> HIDE DEF e
  <2>4. e \in GoodOrphans(S)
    BY <2>1, <2>3, Zenon DEF GoodOrphans
  <2> QED BY <2>1, <2>4 DEF e
<1> QED
  BY <1>1, <1>2

\* The orphans of vEraseQueue go, whatever it holds and however often, and no other.
LEMMA EraseAllGood ==
  ASSUME NEW S \in SUBSET Txs, NEW q \in GoodOrphans(S), NEW n \in Nat,
         NEW txs, DOMAIN txs = 1..n
  PROVE  /\ FoldLeft(EraseOrphanTx, q, txs) \in GoodOrphans(S)
         /\ FoldLeft(EraseOrphanTx, q, txs).tx = q.tx \ {txs[i] : i \in 1..n}
<1> DEFINE T == [s \in SUBSET (1..n) |-> GoodOrphans(S)]
           U == [s \in SUBSET (1..n) |-> {x \in GoodOrphans(S) : x.tx = q.tx \ {txs[i] : i \in s}}]
           F == [x \in GoodOrphans(S) \X (1..n) |-> EraseOrphanTx(x[1], txs[x[2]])]
           iter == CHOOSE f : f = [s \in SUBSET (1..n) |->
                     IF s = {} THEN q ELSE EraseOrphanTx(f[s \ {Max(s)}], txs[Max(s)])]
<1>1. \A x \in GoodOrphans(S), i \in 1..n :
        F[<<x, i>>] = EraseOrphanTx(x, txs[i]) /\ EraseOrphanTx(x, txs[i]) \in GoodOrphans(S)
  BY ErasedGood, Zenon
<1>2. \A s \in SUBSET (1..n) : T[s] = GoodOrphans(S) /\ s \ {Max(s)} \in SUBSET (1..n)
  OBVIOUS
<1>3. \A s \in SUBSET (1..n) : s # {} => Max(s) \in 1..n
  BY MaxIn
<1>4. PICK f : IsFold(f, 1..n, q, F) /\ \A s \in SUBSET (1..n) : f[s] \in T[s]
  <2> HIDE DEF T, F
  <2>1. q \in T[{}]
    BY <1>2
  <2>2. \A s \in SUBSET (1..n) : s # {} =>
          \A x \in T[s \ {Max(s)}] : F[<<x, Max(s)>>] \in T[s]
    BY <1>1, <1>2, <1>3
  <2> QED BY <2>1, <2>2, FoldExists
<1>5. f = [s \in SUBSET (1..n) |->
             IF s = {} THEN q ELSE EraseOrphanTx(f[s \ {Max(s)}], txs[Max(s)])]
  <2> HIDE DEF T, F
  <2>1. \A s \in SUBSET (1..n) : s # {} =>
          F[<<f[s \ {Max(s)}], Max(s)>>] = EraseOrphanTx(f[s \ {Max(s)}], txs[Max(s)])
    BY <1>1, <1>2, <1>3, <1>4
  <2>2. f = [s \in SUBSET (1..n) |-> IF s = {} THEN q ELSE F[<<f[s \ {Max(s)}], Max(s)>>]]
    BY <1>4, Zenon DEF IsFold
  <2> QED BY <2>1, <2>2
<1>6. iter = [s \in SUBSET (1..n) |->
                IF s = {} THEN q ELSE EraseOrphanTx(iter[s \ {Max(s)}], txs[Max(s)])]
  BY <1>5, Zenon
<1>7. iter[1..n] \in U[1..n]
  <2> HIDE DEF T, iter
  <2>1. iter[{}] \in U[{}]
    BY <1>6
  <2>2. ASSUME NEW s \in SUBSET (1..n), s # {}, iter[s \ {Max(s)}] \in U[s \ {Max(s)}]
        PROVE  iter[s] \in U[s]
    <3> DEFINE m == Max(s)
               x == iter[s \ {m}]
    <3>1. iter[s] = EraseOrphanTx(x, txs[m])
      BY <1>6, <2>2
    <3>2. x \in GoodOrphans(S) /\ x.tx = q.tx \ {txs[i] : i \in s \ {m}} /\ m \in s
      BY <1>2, <1>3, <2>2, MaxIn
    <3> HIDE DEF m, x
    <3>3. EraseOrphanTx(x, txs[m]) \in GoodOrphans(S) /\ EraseOrphanTx(x, txs[m]).tx = x.tx \ {txs[m]}
      BY <3>2, ErasedGood
    <3>4. EraseOrphanTx(x, txs[m]).tx = q.tx \ {txs[i] : i \in s}
      BY <3>2, <3>3
    <3> QED BY <3>1, <3>3, <3>4
  <2> HIDE DEF U
  <2> QED BY <2>1, <2>2, FoldKeeps
<1>8. FoldLeft(EraseOrphanTx, q, txs) = iter[1..n]
  BY Zenon DEF FoldLeft, MapThenFoldSet
<1>9. 1..n \in SUBSET (1..n)
  OBVIOUS
<1> HIDE DEF iter
<1> QED
  BY <1>7, <1>8, <1>9

\* The pools a tx message makes: nothing is lost, and what is new is not indexed.
NewPools == {p \in GoodPool : mapTx \subseteq p.tx /\ \A t \in p.tx \ mapTx : txIndex[t] = Absent}

\* One transaction is accepted.
LEMMA AddedNew ==
  ASSUME NEW p \in NewPools, NEW tx \in Txs, checkAccept(p, tx)
  PROVE  addUnchecked(p, tx) \in NewPools
<1>1. p \in GoodPool /\ tx \notin Coinbases /\ NoConflict(p, tx) /\ txIndex[tx] = Absent
  BY DEF NewPools, checkAccept, IsNew, Acceptable
<1>2. addUnchecked(p, tx) \in GoodPool
  BY <1>1, AddedGood
<1>3. addUnchecked(p, tx).tx = p.tx \cup {tx}
  BY DEF addUnchecked
<1> QED
  BY <1>1, <1>2, <1>3 DEF NewPools

\* What the loops of the tx message work on.
Work == [pool : NewPools, vWorkQueue : Seq(Txs), vEraseQueue : Seq(Txs)]

\* One orphan is tried.
LEMMA TriedGood ==
  ASSUME NEW w \in Work, NEW o \in Txs
  PROVE  TryOrphan(w, o) \in Work
<1>1. CASE checkAccept(w.pool, o)
  <2>1. w.pool \in NewPools
    BY DEF Work
  <2>2. addUnchecked(w.pool, o) \in NewPools
    BY <1>1, <2>1, AddedNew
  <2>3. Append(w.vWorkQueue, o) \in Seq(Txs) /\ Append(w.vEraseQueue, o) \in Seq(Txs)
    BY DEF Work
  <2> QED BY <1>1, <2>2, <2>3 DEF TryOrphan, Work
<1>2. CASE ~checkAccept(w.pool, o)
  <2>1. Append(w.vEraseQueue, o) \in Seq(Txs)
    BY DEF Work
  <2>2. [w EXCEPT !.vEraseQueue = Append(@, o)] \in Work
    BY <2>1 DEF Work
  <2> HIDE DEF Work
  <2> QED BY <1>2, <2>2 DEF TryOrphan
<1> QED
  BY <1>1, <1>2

\* The orphans that spend one transaction are tried one by one.
LEMMA TryAllSteps ==
  ASSUME NEW w \in Work, NEW txs \in Seq(Txs)
  PROVE  \E g \in [0..Len(txs) -> Work] :
           /\ g[0] = w /\ g[Len(txs)] = FoldLeft(TryOrphan, w, txs)
           /\ \A k \in 1..Len(txs) : g[k] = TryOrphan(g[k - 1], txs[k])
<1> DEFINE n == Len(txs)
           F == [x \in Work \X (1..n) |-> TryOrphan(x[1], txs[x[2]])]
           iter == CHOOSE f : f = [t \in SUBSET (1..n) |->
                     IF t = {} THEN w ELSE TryOrphan(f[t \ {Max(t)}], txs[Max(t)])]
<1>0. n \in Nat /\ DOMAIN txs = 1..n /\ \A i \in 1..n : txs[i] \in Txs
  OBVIOUS
<1>1. \A x \in Work, i \in 1..n : TryOrphan(x, txs[i]) \in Work
  BY <1>0, TriedGood, Zenon
<1>2. \A x \in Work, i \in 1..n : F[<<x, i>>] = TryOrphan(x, txs[i])
  BY <1>1, Zenon
<1> HIDE DEF F, n
<1>3. \A t \in SUBSET (1..n) : t \ {Max(t)} \in SUBSET (1..n) /\ (t # {} => Max(t) \in 1..n)
  BY <1>0, MaxIn
<1>f. \A x \in Work, i \in 1..n : F[<<x, i>>] \in Work
  BY <1>1, <1>2
<1>4. PICK f : IsFold(f, 1..n, w, F) /\ \A t \in SUBSET (1..n) : f[t] \in Work
  BY <1>0, <1>f, FoldExistsIn
<1>5. f = [t \in SUBSET (1..n) |->
             IF t = {} THEN w ELSE TryOrphan(f[t \ {Max(t)}], txs[Max(t)])]
  <2>1. \A t \in SUBSET (1..n) : t # {} =>
          F[<<f[t \ {Max(t)}], Max(t)>>] = TryOrphan(f[t \ {Max(t)}], txs[Max(t)])
    BY <1>2, <1>3, <1>4
  <2>2. f = [t \in SUBSET (1..n) |-> IF t = {} THEN w ELSE F[<<f[t \ {Max(t)}], Max(t)>>]]
    BY <1>4, Zenon DEF IsFold
  <2> QED BY <2>1, <2>2
<1>6. iter = [t \in SUBSET (1..n) |->
                IF t = {} THEN w ELSE TryOrphan(iter[t \ {Max(t)}], txs[Max(t)])]
  BY <1>5, Zenon
<1> HIDE DEF iter
<1>7. FoldsIn(iter, n, w, F, Work)
  <2>1. iter[{}] = w
    BY <1>6
  <2>2. ASSUME NEW t \in SUBSET (1..n), t # {}, iter[t \ {Max(t)}] \in Work
        PROVE  iter[t] = F[<<iter[t \ {Max(t)}], Max(t)>>]
    <3>1. iter[t] = TryOrphan(iter[t \ {Max(t)}], txs[Max(t)])
      BY <1>6, <2>2
    <3> QED BY <1>2, <1>3, <2>2, <3>1
  <2> QED BY <1>0, <1>f, <2>1, <2>2 DEF FoldsIn
<1>8. iter[1..n] = FoldLeft(TryOrphan, w, txs)
  BY <1>0, Zenon DEF FoldLeft, MapThenFoldSet, iter
<1>9. PICK g \in [0..n -> Work] : /\ g[0] = w /\ g[n] = iter[1..n]
                                  /\ \A k \in 1..n : g[k] = F[<<g[k - 1], k>>]
  BY <1>7, FoldSteps
<1>10. \A k \in 1..n : k - 1 \in 0..n
  BY <1>0
<1>11. \A k \in 1..n : g[k] = TryOrphan(g[k - 1], txs[k])
  BY <1>2, <1>9, <1>10
<1> QED
  BY <1>8, <1>9, <1>11, Zenon DEF n

\* They leave what the loops work on.
LEMMA TryAllGood ==
  ASSUME NEW w \in Work, NEW txs \in Seq(Txs)
  PROVE  FoldLeft(TryOrphan, w, txs) \in Work
<1>1. PICK g \in [0..Len(txs) -> Work] : g[Len(txs)] = FoldLeft(TryOrphan, w, txs)
  BY TryAllSteps
<1>2. Len(txs) \in 0..Len(txs)
  OBVIOUS
<1> QED
  BY <1>1, <1>2

\* The work queue after n entries, from what it is after n - 1.
Round(w, n) ==
  IF n > Len(w.vWorkQueue) THEN w
  ELSE FoldLeft(TryOrphan, w, SetToSeq(mapOrphanTransactionsByPrev[w.vWorkQueue[n]]))

\* One entry of the work queue of the tx handler keeps it well formed.
LEMMA RoundGood ==
  ASSUME mapOrphanTransactionsByPrev \in [Txs -> SUBSET Txs],
         NEW w \in Work, NEW n \in Nat \ {0}
  PROVE  Round(w, n) \in Work
<1>1. CASE n > Len(w.vWorkQueue)
  BY <1>1 DEF Round
<1>2. CASE ~(n > Len(w.vWorkQueue))
  <2> DEFINE S == mapOrphanTransactionsByPrev[w.vWorkQueue[n]]
  <2>1. w.vWorkQueue \in Seq(Txs)
    BY DEF Work
  <2>2. w.vWorkQueue[n] \in Txs
    BY <1>2, <2>1
  <2>3. S \in SUBSET Txs
    BY <2>2
  <2>4. IsFiniteSet(S)
    BY <2>3, TreeAssumption, FS_Subset
  <2>5. SetToSeq(S) \in Seq(S)
    BY <2>4, Listed
  <2>6. SetToSeq(S) \in Seq(Txs) /\ Len(SetToSeq(S)) \in Nat
    <3> HIDE DEF S
    <3> QED BY <2>3, <2>5
  <2>7. FoldLeft(TryOrphan, w, SetToSeq(S)) \in Work
    <3>1. \A q \in Seq(Txs) : FoldLeft(TryOrphan, w, q) \in Work
      BY TryAllGood
    <3> QED BY <2>6, <3>1
  <2> QED BY <1>2, <2>7 DEF Round
<1> QED
  BY <1>1, <1>2

\* The work queue is done in rounds, as many as there can be transactions.
LEMMA AdoptSteps ==
  ASSUME mapOrphanTransactionsByPrev \in [Txs -> SUBSET Txs],
         Pool \in GoodPool, NEW tx \in Txs, checkAccept(Pool, tx)
  PROVE  \E g \in [0..Cardinality(Txs) -> Work] :
           /\ g[0] = [pool |-> addUnchecked(Pool, tx), vWorkQueue |-> <<tx>>, vEraseQueue |-> <<tx>>]
           /\ g[Cardinality(Txs)] = Adopt(tx)
           /\ \A n \in 1..Cardinality(Txs) : g[n] = Round(g[n - 1], n)
<1> DEFINE N == Cardinality(Txs)
           base == [pool |-> addUnchecked(Pool, tx), vWorkQueue |-> <<tx>>,
                    vEraseQueue |-> <<tx>>]
           F == [x \in Work \X (1..N) |-> Round(x[1], x[2])]
           after == CHOOSE f : f = [n \in 0..N |-> IF n = 0 THEN base ELSE Round(f[n - 1], n)]
<1>1. N \in Nat /\ 0 <= N
  BY TreeAssumption, FS_CardinalityType
<1> HIDE DEF N
<1>2. base \in Work
  <2>1. Pool \in NewPools
    BY DEF NewPools, Pool
  <2>2. addUnchecked(Pool, tx) \in NewPools
    BY <2>1, AddedNew
  <2>3. <<tx>> \in Seq(Txs)
    OBVIOUS
  <2> QED BY <2>2, <2>3 DEF Work
<1>3. \A n \in (0 + 1)..N : n \in 1..N /\ n \in Nat \ {0} /\ n # 0 /\ n \in 0..N
  BY <1>1
<1>4. \A x \in Work, n \in 1..N : F[<<x, n>>] = Round(x, n) /\ Round(x, n) \in Work
  <2>1. \A n \in 1..N : n \in Nat \ {0}
    BY <1>1
  <2> QED BY <2>1, RoundGood, Zenon
<1> HIDE DEF base
<1>5. PICK f : IsRecursion(f, 0, N, base, F) /\ f \in [0..N -> Work]
  <2> HIDE DEF F
  <2>1. \A i \in (0 + 1)..N : \A x \in Work : F[<<x, i>>] \in Work
    BY <1>3, <1>4
  <2> QED BY <1>1, <1>2, <2>1, RecursionExists
<1>6. f = [n \in 0..N |-> IF n = 0 THEN base ELSE Round(f[n - 1], n)]
  <2> HIDE DEF F
  <2>1. f = [n \in 0..N |-> IF n = 0 THEN base ELSE F[<<f[n - 1], n>>]]
    BY <1>5, Zenon DEF IsRecursion
  <2>2. ASSUME NEW n \in 0..N, n # 0 PROVE F[<<f[n - 1], n>>] = Round(f[n - 1], n)
    <3>1. n - 1 \in 0..N /\ n \in 1..N
      BY <1>1, <2>2
    <3>2. f[n - 1] \in Work
      BY <1>5, <3>1
    <3> QED BY <1>4, <3>1, <3>2, Zenon
  <2> QED BY <2>1, <2>2
<1>7. after = [n \in 0..N |-> IF n = 0 THEN base ELSE Round(after[n - 1], n)]
  BY <1>6, Zenon
<1>8. Adopt(tx) = after[N]
  BY Zenon DEF Adopt, WorkQueue, Round, base, N
<1> HIDE DEF after
<1>9. after[0] = base /\ \A n \in 1..N : after[n] = Round(after[n - 1], n)
  <2>1. \A n \in 0..N : after[n] = IF n = 0 THEN base ELSE Round(after[n - 1], n)
    BY <1>7, Zenon
  <2>2. 0 \in 0..N /\ \A n \in 1..N : n \in 0..N /\ n # 0
    BY <1>1
  <2> QED BY <2>1, <2>2, Zenon
<1>10. \A n \in 0..N : after[n] \in Work
  <2> DEFINE H == {n \in 0..N : after[n] \in Work}
  <2>1. 0 \in H
    BY <1>1, <1>2, <1>9
  <2>2. ASSUME NEW n \in 0..N, n # N, n \in H PROVE n + 1 \in H
    <3>1. n + 1 \in 1..N /\ n + 1 \in 0..N /\ (n + 1) - 1 = n /\ n + 1 \in Nat \ {0}
      BY <1>1, <2>2
    <3>2. after[n + 1] = Round(after[n], n + 1)
      BY <1>9, <3>1
    <3> QED BY <2>2, <3>1, <3>2, RoundGood
  <2> HIDE DEF H
  <2>3. \A n \in 0..N : n \in H
    BY <1>1, <2>1, <2>2, UpTo
  <2> QED BY <2>3 DEF H
<1>11. after = [n \in 0..N |-> after[n]]
  BY <1>7, <1>9
<1>12. after \in [0..N -> Work]
  BY <1>10, <1>11
<1> QED
  BY <1>8, <1>9, <1>12 DEF N, base

\* After all rounds there are a good pool and two lists of transactions.
LEMMA AdoptedGood ==
  ASSUME mapOrphanTransactionsByPrev \in [Txs -> SUBSET Txs],
         Pool \in GoodPool, NEW tx \in Txs, checkAccept(Pool, tx)
  PROVE  Adopt(tx) \in Work
<1>1. PICK g \in [0..Cardinality(Txs) -> Work] : g[Cardinality(Txs)] = Adopt(tx)
  BY AdoptSteps
<1>2. Cardinality(Txs) \in 0..Cardinality(Txs)
  BY TreeAssumption, FS_CardinalityType
<1> QED
  BY <1>1, <1>2
-----------------------------------------------------------------------------
(***************************************************************************)
(* The tree of blocks.                                                     *)
(***************************************************************************)

\* f follows the recursion along Prev on a set A that has the block before each
\* of its blocks.
Follows(f, A, base, F) ==
  /\ A \subseteq Blocks
  /\ \A b \in A : b # Genesis => Prev[b] \in A
  /\ \A b \in A : f[b] = IF b = Genesis THEN base ELSE F[<<f[Prev[b]], b>>]

\* Two functions that follow it agree.
LEMMA FollowsSame ==
  ASSUME NEW base, NEW F, NEW f, NEW A, NEW g, NEW B,
         Follows(f, A, base, F), Follows(g, B, base, F)
  PROVE  \A b \in A \cap B : f[b] = g[b]
<1> DEFINE S == {b \in A \cap B : f[b] # g[b]}
<1> SUFFICES ASSUME S # {} PROVE FALSE
  OBVIOUS
<1>1. S \in SUBSET Blocks
  BY DEF Follows
<1>2. PICK b \in S : b = Genesis \/ Prev[b] \notin S
  <2> HIDE DEF S
  <2> QED BY <1>1, TreeAssumption
<1>3. b \in A /\ b \in B /\ f[b] # g[b]
  OBVIOUS
<1>4. CASE b = Genesis
  BY <1>3, <1>4 DEF Follows
<1>5. CASE b # Genesis
  <2>1. Prev[b] \in A \cap B
    BY <1>3, <1>5 DEF Follows
  <2>2. f[Prev[b]] = g[Prev[b]]
    BY <1>2, <1>5, <2>1
  <2> QED BY <1>3, <1>5, <2>2 DEF Follows
<1> QED
  BY <1>4, <1>5

\* A function on the blocks that is defined from the genesis block on exists.
LEMMA TreeRecursion ==
  ASSUME NEW T, NEW base \in T, NEW F,
         \A x \in T, b \in Blocks \ {Genesis} : F[<<x, b>>] \in T
  PROVE  \E f \in [Blocks -> T] : Follows(f, Blocks, base, F)
<1> DEFINE Has(b, f, A) == b \in A /\ A \in SUBSET Blocks /\ f \in [A -> T] /\ Follows(f, A, base, F)
           S == {b \in Blocks : ~\E A \in SUBSET Blocks : \E f \in [A -> T] : Has(b, f, A)}
<1>1. S = {}
  <2> SUFFICES ASSUME S # {} PROVE FALSE
    OBVIOUS
  <2>1. S \in SUBSET Blocks
    OBVIOUS
  <2>2. PICK b \in S : b = Genesis \/ Prev[b] \notin S
    <3> HIDE DEF S
    <3> QED BY <2>1, TreeAssumption
  <2>3. CASE b = Genesis
    <3> DEFINE A == {Genesis}
               f == [c \in A |-> base]
    <3>1. A \in SUBSET Blocks /\ f \in [A -> T] /\ b \in A
      BY <2>3, TreeAssumption
    <3>2. Follows(f, A, base, F)
      BY <3>1 DEF Follows
    <3>3. Has(b, f, A)
      BY <3>1, <3>2
    <3> HIDE DEF A, f, Has
    <3> QED BY <3>1, <3>3
  <2>4. CASE b # Genesis
    <3>1. b \in Blocks /\ Prev[b] \in Blocks /\ Prev[b] \notin S
      BY <2>2, <2>4, TreeAssumption
    <3>2. PICK A \in SUBSET Blocks : \E f \in [A -> T] : Has(Prev[b], f, A)
      BY <3>1
    <3>3. PICK f \in [A -> T] : Has(Prev[b], f, A)
      BY <3>2
    <3>4. b \notin A
      <4> SUFFICES ASSUME b \in A PROVE FALSE
        OBVIOUS
      <4>1. Has(b, f, A)
        BY <3>3
      <4> HIDE DEF Has
      <4> QED BY <4>1
    <3> DEFINE B == A \cup {b}
               g == [c \in B |-> IF c = b THEN F[<<f[Prev[b]], b>>] ELSE f[c]]
    <3>5. Prev[b] \in A /\ f[Prev[b]] \in T /\ F[<<f[Prev[b]], b>>] \in T
      BY <2>4, <3>1, <3>3
    <3>6. B \in SUBSET Blocks /\ g \in [B -> T] /\ b \in B
      BY <3>1, <3>5
    <3>7. \A c \in A : g[c] = f[c] /\ (c # Genesis => Prev[c] \in A /\ g[Prev[c]] = f[Prev[c]])
      BY <3>3, <3>4 DEF Follows
    <3>8. g[b] = F[<<g[Prev[b]], b>>]
      BY <3>4, <3>5
    <3>9. Follows(g, B, base, F)
      <4>1. \A c \in B : c # Genesis => Prev[c] \in B
        BY <3>5, <3>7
      <4>2. \A c \in A : f[c] = IF c = Genesis THEN base ELSE F[<<f[Prev[c]], c>>]
        BY <3>3 DEF Follows
      <4>3. \A c \in A : g[c] = IF c = Genesis THEN base ELSE F[<<g[Prev[c]], c>>]
        <5> HIDE DEF g
        <5> QED BY <3>7, <4>2
      <4> HIDE DEF g
      <4> QED BY <2>4, <3>6, <3>8, <4>1, <4>3 DEF Follows
    <3>10. Has(b, g, B)
      BY <3>6, <3>9
    <3> HIDE DEF B, g, Has
    <3> QED BY <3>6, <3>10
  <2> QED BY <2>3, <2>4
<1> DEFINE Dom(b) == CHOOSE A \in SUBSET Blocks : \E f \in [A -> T] : Has(b, f, A)
           Fun(b) == CHOOSE f \in [Dom(b) -> T] : Has(b, f, Dom(b))
           h == [b \in Blocks |-> Fun(b)[b]]
<1>2. ASSUME NEW b \in Blocks PROVE Has(b, Fun(b), Dom(b))
  <2>1. \E A \in SUBSET Blocks : \E f \in [A -> T] : Has(b, f, A)
    BY <1>1
  <2> HIDE DEF Has
  <2>2. \E f \in [Dom(b) -> T] : Has(b, f, Dom(b))
    BY <2>1
  <2> HIDE DEF Dom
  <2> QED BY <2>2
<1>3. \A b \in Blocks : b \in Dom(b) /\ Fun(b)[b] \in T /\ Follows(Fun(b), Dom(b), base, F)
  <2> HIDE DEF Fun, Dom
  <2> QED BY <1>2
<1> HIDE DEF Fun, Dom
<1>4. h \in [Blocks -> T]
  BY <1>3
<1>5. ASSUME NEW b \in Blocks
      PROVE  h[b] = IF b = Genesis THEN base ELSE F[<<h[Prev[b]], b>>]
  <2>1. Fun(b)[b] = IF b = Genesis THEN base ELSE F[<<Fun(b)[Prev[b]], b>>]
    BY <1>3 DEF Follows
  <2>2. CASE b = Genesis
    BY <2>1, <2>2
  <2>3. CASE b # Genesis
    <3>1. Prev[b] \in Blocks /\ Prev[b] \in Dom(b)
      BY <1>3, <2>3, TreeAssumption DEF Follows
    <3>2. Fun(b)[Prev[b]] = Fun(Prev[b])[Prev[b]]
      BY <1>3, <3>1, FollowsSame
    <3> QED BY <2>1, <2>3, <3>1, <3>2
  <2> QED BY <2>2, <2>3
<1>6. Follows(h, Blocks, base, F)
  <2> HIDE DEF h
  <2> QED BY <1>5, TreeAssumption DEF Follows
<1> HIDE DEF h
<1> QED
  BY <1>4, <1>6

\* A set of blocks with the block before each of them: what mapBlockIndex is.
Rooted(M) ==
  /\ M \in SUBSET Blocks /\ Genesis \in M
  /\ \A b \in M : b # Genesis => Prev[b] \in M

\* ChainTo is what its definition says.
LEMMA ChainToPath ==
  /\ ChainTo \in [Blocks -> Seq(Blocks)]
  /\ ChainTo[Genesis] = <<Genesis>>
  /\ \A b \in Blocks : b # Genesis => ChainTo[b] = Append(ChainTo[Prev[b]], b)
<1> DEFINE F == [x \in Seq(Blocks) \X Blocks |-> Append(x[1], x[2])]
<1>1. Genesis \in Blocks /\ <<Genesis>> \in Seq(Blocks)
  BY TreeAssumption
<1>2. \A x \in Seq(Blocks), b \in Blocks :
        F[<<x, b>>] = Append(x, b) /\ Append(x, b) \in Seq(Blocks)
  OBVIOUS
<1> HIDE DEF F
<1>3. PICK f \in [Blocks -> Seq(Blocks)] : Follows(f, Blocks, <<Genesis>>, F)
  <2>1. \A x \in Seq(Blocks), b \in Blocks \ {Genesis} : F[<<x, b>>] \in Seq(Blocks)
    BY <1>2
  <2> QED BY <1>1, <2>1, TreeRecursion
<1>4. f = [b \in Blocks |-> IF b = Genesis THEN <<b>> ELSE Append(f[Prev[b]], b)]
  <2>1. \A b \in Blocks : f[b] = IF b = Genesis THEN <<b>> ELSE Append(f[Prev[b]], b)
    BY <1>2, <1>3 DEF Follows
  <2>2. f = [b \in Blocks |-> f[b]]
    BY <1>3
  <2> QED BY <2>1, <2>2
<1>5. ChainTo = [b \in Blocks |-> IF b = Genesis THEN <<b>> ELSE Append(ChainTo[Prev[b]], b)]
  BY <1>4, Zenon DEF ChainTo
<1>6. \A b \in Blocks : ChainTo[b] \in Seq(Blocks)
  <2> DEFINE S == {b \in Blocks : ChainTo[b] \notin Seq(Blocks)}
  <2> SUFFICES ASSUME S # {} PROVE FALSE
    OBVIOUS
  <2>1. S \in SUBSET Blocks
    OBVIOUS
  <2>2. PICK b \in S : b = Genesis \/ Prev[b] \notin S
    <3> HIDE DEF S
    <3> QED BY <2>1, TreeAssumption
  <2>3. b \in Blocks /\ (b # Genesis => Prev[b] \in Blocks)
    BY TreeAssumption
  <2>4. ChainTo[b] = IF b = Genesis THEN <<b>> ELSE Append(ChainTo[Prev[b]], b)
    BY <1>5, <2>3
  <2> QED BY <1>1, <1>2, <2>2, <2>3, <2>4
<1> QED
  BY <1>1, <1>5, <1>6

\* The path to a block of such a set stays in the set; it starts with the genesis
\* block and ends with the block.
LEMMA PathIn ==
  ASSUME NEW M, Rooted(M), NEW b \in M
  PROVE  /\ ChainTo[b] \in Seq(M) /\ Len(ChainTo[b]) \in Nat \ {0}
         /\ ChainTo[b][1] = Genesis /\ ChainTo[b][Len(ChainTo[b])] = b
<1> DEFINE Fine(c) == /\ ChainTo[c] \in Seq(M) /\ Len(ChainTo[c]) \in Nat \ {0}
                      /\ ChainTo[c][1] = Genesis /\ ChainTo[c][Len(ChainTo[c])] = c
           S == {c \in M : ~Fine(c)}
<1> SUFFICES ASSUME S # {} PROVE FALSE
  OBVIOUS
<1>1. S \in SUBSET Blocks /\ M \in SUBSET Blocks
  BY DEF Rooted
<1>2. PICK c \in S : c = Genesis \/ Prev[c] \notin S
  <2> HIDE DEF S
  <2> QED BY <1>1, TreeAssumption
<1>3. CASE c = Genesis
  <2>1. ChainTo[c] = <<Genesis>> /\ Genesis \in M
    BY <1>3, ChainToPath DEF Rooted
  <2>2. <<Genesis>> \in Seq(M) /\ Len(<<Genesis>>) = 1 /\ <<Genesis>>[1] = Genesis
    BY <2>1
  <2>3. Fine(c)
    BY <1>3, <2>1, <2>2
  <2> QED BY <1>2, <2>3
<1>4. CASE c # Genesis
  <2>1. c \in M /\ Prev[c] \in M
    BY <1>4 DEF Rooted
  <2>2. Fine(Prev[c])
    BY <1>2, <1>4, <2>1
  <2>3. ChainTo[c] = Append(ChainTo[Prev[c]], c)
    BY <1>1, <1>4, <2>1, ChainToPath
  <2>4. \A q \in Seq(M) : Len(q) \in Nat \ {0} =>
          /\ Append(q, c) \in Seq(M) /\ Len(Append(q, c)) = Len(q) + 1
          /\ Append(q, c)[1] = q[1] /\ Append(q, c)[Len(q) + 1] = c
    BY <2>1
  <2>5. Fine(c)
    BY <2>2, <2>3, <2>4
  <2> QED BY <1>2, <2>5
<1> QED
  BY <1>3, <1>4

\* The blocks of one path that are not on another.
LEMMA BeyondIn ==
  ASSUME NEW M, Rooted(M), NEW a, NEW b \in M
  PROVE  Beyond(a, b) \in Seq(M)
<1> DEFINE common == {i \in DOMAIN ChainTo[b] : IsAncestor(ChainTo[b][i], a)}
           n == Len(ChainTo[b])
<1>1. ChainTo[b] \in Seq(M) /\ n \in Nat
  BY PathIn
<1>2. common \in SUBSET (1..n)
  BY <1>1
<1>3. Cardinality(common) \in Nat
  <2> HIDE DEF common
  <2>1. IsFiniteSet(1..n)
    BY <1>1, FS_Interval
  <2> QED BY <1>2, <2>1, FS_Subset, FS_CardinalityType
<1>4. \A k \in Nat : SubSeq(ChainTo[b], k + 1, n) \in Seq(M)
  BY <1>1
<1> QED
  BY <1>3, <1>4 DEF Beyond

\* The target of a reorganization and the blocks that are postponed are blocks of
\* the path to the new one, and where they stop the target is the new block.
LEMMA TargetIn ==
  ASSUME NEW M, Rooted(M), NEW best, NEW new \in M
  PROVE  /\ Intermediate(best, new) \in M
         /\ Postponed(best, new) \in Seq(M)
         /\ Intermediate(best, new) # new => Postponed(best, new) # <<>>
<1> DEFINE c == ChainTo[new]
           n == Len(c)
           S == {i \in DOMAIN c : i = 1 \/ bnChainTrust[c[i - 1]] <= bnChainTrust[best]}
<1>1. c \in Seq(M) /\ n \in Nat \ {0} /\ c[n] = new
  BY PathIn
<1>2. S \in SUBSET (1..n) /\ 1 \in S
  BY <1>1
<1>3. Max(S) \in 1..n
  <2> HIDE DEF S
  <2> QED BY <1>1, <1>2, MaxIn
<1>4. \A i \in 1..n : c[i] \in M /\ SubSeq(c, i + 1, n) \in Seq(M)
  BY <1>1
<1>5. \A i \in 1..n : i # n => Len(SubSeq(c, i + 1, n)) # 0
  BY <1>1
<1>6. IntermediateAt(best, new) = Max(S)
  BY DEF IntermediateAt
<1>7. Intermediate(best, new) = c[Max(S)] /\ Postponed(best, new) = SubSeq(c, Max(S) + 1, n)
  BY <1>6 DEF Intermediate, Postponed
<1>8. Max(S) # n => SubSeq(c, Max(S) + 1, n) # <<>>
  BY <1>3, <1>5
<1> HIDE DEF S, c, n
<1> QED
  BY <1>1, <1>3, <1>4, <1>7, <1>8

\* The transactions of a list of blocks are a list of transactions.
LEMMA TxsOfIn ==
  ASSUME NEW bs \in Seq(Blocks)
  PROVE  TxsOf(bs) \in Seq(Txs)
<1> DEFINE ss == [i \in DOMAIN bs |-> vtx[bs[i]]]
<1>1. \A i \in 1..Len(bs) : vtx[bs[i]] \in Seq(Txs)
  <2>1. vtx \in [Blocks -> Seq(Txs)] /\ \A i \in 1..Len(bs) : bs[i] \in Blocks
    BY TreeAssumption
  <2> QED BY <2>1
<1>2. ss \in Seq(Seq(Txs))
  <2>1. DOMAIN bs = 1..Len(bs) /\ Len(bs) \in Nat
    OBVIOUS
  <2> QED BY <1>1, <2>1
<1> HIDE DEF ss
<1>3. FlattenSeq(ss) \in Seq(Txs)
  BY <1>2, Flattened
<1> QED
  BY <1>3 DEF TxsOf, ss
-----------------------------------------------------------------------------
(***************************************************************************)
(* The invariant: the blocks an operation is about are known, the pool is  *)
(* indexed, and so are the orphans.                                        *)
(***************************************************************************)
BlocksInv ==
  /\ Rooted(mapBlockIndex)
  /\ pindexBest \in mapBlockIndex /\ hashBestChainDisk \in mapBlockIndex
  /\ op.at \in {"switch", "connect", "finish", "writecp"} => op.new \in mapBlockIndex
  /\ op.at = "connect" => op.todo \in Seq(mapBlockIndex) /\ op.todo # <<>>

\* The orphans are indexed by what they spend, and are not too many.
OrphanInv ==
  /\ Orphans \in GoodOrphans(Txs \ Coinbases)
  /\ Cardinality(mapOrphanTransactions) <= nMaxOrphans

\* All of it: an inductive invariant of the specification.
MempoolInv == BlocksInv /\ Pool \in GoodPool /\ OrphanInv

\* Pool and orphans are empty at the start.
LEMMA MempoolInit == Init => MempoolInv
<1> SUFFICES ASSUME Init PROVE MempoolInv
  OBVIOUS
<1>1. BlocksInv
  BY TreeAssumption DEF Init, BlocksInv, Rooted, Idle
<1>2. Pool \in GoodPool
  <2>1. \A o, u \in Txs : Pool.next[o] = u <=> (u \in Pool.tx /\ o \in ToSet(vin[u]))
    BY TreeAssumption DEF Init, Pool
  <2>2. Pool \in [tx : SUBSET (Txs \ Coinbases), next : [Txs -> Txs \cup {Absent}]]
    BY DEF Init, Pool
  <2> QED BY <2>1, <2>2, Zenon DEF GoodPool
<1>3. OrphanInv
  <2>1. \A p \in Txs : Orphans.byPrev[p] = {o \in Orphans.tx : p \in ToSet(vin[o])}
    BY DEF Init, Orphans
  <2>2. Orphans \in [tx : SUBSET (Txs \ Coinbases), byPrev : [Txs -> SUBSET Txs]]
    BY DEF Init, Orphans
  <2>3. Orphans \in GoodOrphans(Txs \ Coinbases)
    BY <2>1, <2>2, Zenon DEF GoodOrphans
  <2>4. Cardinality(mapOrphanTransactions) = 0
    BY FS_EmptySet DEF Init
  <2> QED BY <2>3, <2>4, BoundsAssumption DEF OrphanInv
<1> QED
  BY <1>1, <1>2, <1>3 DEF MempoolInv

\* An accepted transaction enters the pool.
LEMMA MempoolAccept ==
  ASSUME MempoolInv, NEW tx \in Txs, AcceptToMemoryPool(tx)
  PROVE  MempoolInv'
<1>1. BlocksInv'
  BY DEF MempoolInv, BlocksInv, AcceptToMemoryPool, chainVars, diskVars
<1>2. Pool' = addUnchecked(Pool, tx)
  BY DEF AcceptToMemoryPool, SetPool, Pool, addUnchecked
<1>3. addUnchecked(Pool, tx) \in GoodPool
  BY AddedGood DEF MempoolInv, AcceptToMemoryPool, checkAccept, IsNew, Acceptable
<1>4. OrphanInv'
  BY DEF MempoolInv, OrphanInv, Orphans, AcceptToMemoryPool, orphanVars
<1> QED
  BY <1>1, <1>2, <1>3, <1>4 DEF MempoolInv, GoodPool

\* A transaction whose infos cannot be processed leaves it.
LEMMA MempoolMiner ==
  ASSUME MempoolInv, NEW tx \in Txs, CreateNewBlock(tx)
  PROVE  MempoolInv'
<1>1. BlocksInv'
  BY DEF MempoolInv, BlocksInv, CreateNewBlock, chainVars, diskVars
<1>2. Pool' = PoolRemove(Pool, tx)
  BY DEF CreateNewBlock, SetPool, Pool, PoolRemove
<1>3. PoolRemove(Pool, tx) \in GoodPool
  BY RemovedGood DEF MempoolInv
<1>4. OrphanInv'
  BY DEF MempoolInv, OrphanInv, Orphans, CreateNewBlock, orphanVars
<1> QED
  BY <1>1, <1>2, <1>3, <1>4 DEF MempoolInv, GoodPool

\* The tx message: an accepted transaction takes the orphans that waited for it
\* along; one that misses an input becomes an orphan, and one of them may go.
LEMMA MempoolTx ==
  ASSUME MempoolInv, NEW tx \in Txs, TxMessage(tx)
  PROVE  MempoolInv'
<1>1. BlocksInv'
  BY DEF MempoolInv, BlocksInv, TxMessage, chainVars, diskVars
<1>2. /\ mapOrphanTransactionsByPrev \in [Txs -> SUBSET Txs]
      /\ mapOrphanTransactions \in SUBSET (Txs \ Coinbases)
      /\ Orphans.tx = mapOrphanTransactions
  BY DEF MempoolInv, OrphanInv, GoodOrphans, Orphans
<1>3. Pool \in GoodPool /\ nMaxOrphans \in Nat
  BY BoundsAssumption DEF MempoolInv
<1>4. IsFiniteSet(mapOrphanTransactions) /\ Cardinality(mapOrphanTransactions) \in Nat
  <2>1. IsFiniteSet(Txs)
    BY TreeAssumption
  <2>2. mapOrphanTransactions \in SUBSET Txs
    BY <1>2
  <2> QED BY <2>1, <2>2, FS_Subset, FS_CardinalityType
<1>5. Cardinality(mapOrphanTransactions) <= nMaxOrphans
  BY DEF MempoolInv, OrphanInv
<1>6. CASE /\ checkAccept(Pool, tx)
           /\ SetPool(Adopt(tx).pool)
           /\ SetOrphans(FoldLeft(EraseOrphanTx, Orphans, Adopt(tx).vEraseQueue))
  <2> DEFINE w == Adopt(tx)
             q == FoldLeft(EraseOrphanTx, Orphans, w.vEraseQueue)
             S == mapOrphanTransactions
  <2>1. w \in Work
    BY <1>2, <1>3, <1>6, AdoptedGood
  <2>2. w.pool \in GoodPool /\ w.vEraseQueue \in Seq(Txs)
    BY <2>1 DEF Work, NewPools
  <2>3. Orphans \in GoodOrphans(S) /\ S \in SUBSET Txs
    BY <1>2 DEF MempoolInv, OrphanInv, GoodOrphans, Orphans
  <2>4. q \in GoodOrphans(S)
    <3> HIDE DEF w, S
    <3>1. Len(w.vEraseQueue) \in Nat /\ DOMAIN w.vEraseQueue = 1..Len(w.vEraseQueue)
      BY <2>2
    <3> QED BY <2>3, <3>1, EraseAllGood
  <2> HIDE DEF w
  <2>5. /\ mapTx' = w.pool.tx /\ mapNextTx' = w.pool.next
        /\ mapOrphanTransactions' = q.tx /\ mapOrphanTransactionsByPrev' = q.byPrev
    BY <1>6 DEF SetPool, SetOrphans, w
  <2>6. Pool' = w.pool
    BY <2>2, <2>5 DEF Pool, GoodPool
  <2> HIDE DEF q
  <2>7. Orphans' = q
    BY <2>4, <2>5 DEF Orphans, GoodOrphans
  <2>8. q.tx \in SUBSET S /\ q \in GoodOrphans(Txs \ Coinbases)
    BY <1>2, <2>4 DEF GoodOrphans
  <2>9. Cardinality(q.tx) <= Cardinality(S)
    BY <1>4, <2>8, FS_Subset
  <2>10. Cardinality(q.tx) \in Nat
    BY <1>4, <2>8, FS_Subset, FS_CardinalityType
  <2>11. OrphanInv'
    BY <1>3, <1>4, <1>5, <2>5, <2>7, <2>8, <2>9, <2>10 DEF OrphanInv, GoodOrphans
  <2> QED BY <1>1, <2>2, <2>6, <2>11 DEF MempoolInv, GoodPool
<1>7. CASE /\ IsNew(Pool, tx)
           /\ SetPool(Pool)
           /\ \E q \in LimitOrphanTxSize(AddOrphanTx(Orphans, tx)) : SetOrphans(q)
  <2> DEFINE S == Txs \ Coinbases
             a == AddOrphanTx(Orphans, tx)
  <2>1. S \in SUBSET Txs /\ tx \in S /\ Orphans \in GoodOrphans(S)
    BY <1>7 DEF IsNew, Acceptable, MempoolInv, OrphanInv
  <2>2. a \in GoodOrphans(S) /\ a.tx \in {Orphans.tx, Orphans.tx \cup {tx}}
    <3> HIDE DEF S
    <3> QED BY <2>1, AddedOrphanGood
  <2>3. IsFiniteSet(a.tx) /\ Cardinality(a.tx) \in Nat /\ Cardinality(a.tx) <= nMaxOrphans + 1
    <3> HIDE DEF a
    <3>1. CASE a.tx = Orphans.tx
      BY <1>2, <1>3, <1>4, <1>5, <3>1
    <3>2. CASE a.tx = Orphans.tx \cup {tx}
      <4>1. /\ IsFiniteSet(mapOrphanTransactions \cup {tx})
            /\ Cardinality(mapOrphanTransactions \cup {tx})
                 \in {Cardinality(mapOrphanTransactions), Cardinality(mapOrphanTransactions) + 1}
        BY <1>4, FS_AddElement
      <4> QED BY <1>2, <1>3, <1>4, <1>5, <3>2, <4>1
    <3> QED BY <2>2, <3>1, <3>2
  <2> HIDE DEF a, S
  <2>4. PICK q \in LimitOrphanTxSize(a) : SetOrphans(q)
    BY <1>7 DEF a
  <2>5. q \in GoodOrphans(S) /\ Cardinality(q.tx) <= nMaxOrphans
    <3>1. CASE Cardinality(a.tx) > nMaxOrphans
      <4>1. PICK o \in a.tx : q = EraseOrphanTx(a, o)
        BY <2>4, <3>1 DEF LimitOrphanTxSize
      <4>2. q \in GoodOrphans(S) /\ q.tx = a.tx \ {o}
        BY <2>1, <2>2, <4>1, ErasedGood
      <4>3. Cardinality(q.tx) = Cardinality(a.tx) - 1
        BY <2>3, <4>1, <4>2, FS_RemoveElement
      <4> QED BY <1>3, <2>3, <4>2, <4>3
    <3>2. CASE ~(Cardinality(a.tx) > nMaxOrphans)
      <4>1. q = a
        BY <2>4, <3>2 DEF LimitOrphanTxSize
      <4> QED BY <1>3, <2>2, <2>3, <3>2, <4>1
    <3> QED BY <3>1, <3>2
  <2>6. mapOrphanTransactions' = q.tx /\ mapOrphanTransactionsByPrev' = q.byPrev
    BY <2>4 DEF SetOrphans
  <2>7. Orphans' = q
    BY <2>5, <2>6 DEF Orphans, GoodOrphans
  <2>8. OrphanInv'
    BY <2>5, <2>6, <2>7 DEF OrphanInv, GoodOrphans, S
  <2>9. Pool' = Pool
    BY <1>7 DEF SetPool, Pool
  <2> QED BY <1>1, <1>3, <2>8, <2>9 DEF MempoolInv, GoodPool
<1> QED
  BY <1>6, <1>7 DEF TxMessage

\* A block that is connected takes its transactions out of the pool.
LEMMA ExtendPool ==
  ASSUME Pool \in GoodPool, NEW b \in Blocks, SetPool(RemoveAll(Pool, vtx[b]))
  PROVE  Pool' \in GoodPool
<1>1. vtx[b] \in Seq(Txs)
  BY TreeAssumption
<1>2. Len(vtx[b]) \in Nat /\ DOMAIN vtx[b] = 1..Len(vtx[b])
  BY <1>1
<1>3. RemoveAll(Pool, vtx[b]) \in GoodPool
  BY <1>2, RemoveAllGood
<1>4. Pool' = RemoveAll(Pool, vtx[b])
  BY <1>3 DEF SetPool, Pool, GoodPool
<1> QED
  BY <1>3, <1>4 DEF GoodPool

\* The pool after a reorganization.
LEMMA ReorganizePool ==
  ASSUME Pool \in GoodPool, NEW M, Rooted(M), pindexBest \in M, NEW new \in M,
         SetPool(PoolAfter(new))
  PROVE  Pool' \in GoodPool
<1> DEFINE old == TxsOf(vDisconnect(pindexBest, new))
           add == TxsOf(vConnect(pindexBest, new))
           mid == FoldLeft(Resurrect, Pool, old)
<1>1. M \in SUBSET Blocks
  BY DEF Rooted
<1>2. Beyond(new, pindexBest) \in Seq(M) /\ Beyond(pindexBest, new) \in Seq(M)
  BY BeyondIn
<1>3. \A bs \in Seq(M) : bs \in Seq(Blocks) /\ Reverse(bs) \in Seq(Blocks)
  BY <1>1 DEF Reverse
<1>4. old \in Seq(Txs) /\ add \in Seq(Txs)
  BY <1>2, <1>3, TxsOfIn DEF vDisconnect, vConnect
<1> HIDE DEF old, add
<1>5. /\ Len(old) \in Nat /\ old \in [1..Len(old) -> Txs]
      /\ Len(add) \in Nat /\ DOMAIN add = 1..Len(add)
  BY <1>4
<1>6. mid \in GoodPool
  BY <1>5, ResurrectGood
<1> HIDE DEF mid
<1>7. RemoveAll(mid, add) \in GoodPool
  BY <1>5, <1>6, RemoveAllGood
<1>8. mapTx' = RemoveAll(mid, add).tx /\ mapNextTx' = RemoveAll(mid, add).next
  BY DEF SetPool, PoolAfter, mid, old, add
<1>9. Pool' = RemoveAll(mid, add)
  BY <1>7, <1>8 DEF Pool, GoodPool
<1> QED
  BY <1>7, <1>9 DEF GoodPool

\* SetBestChain: the steps for one block, the reorganization, the postponed
\* blocks, the failures and the end.
LEMMA MempoolSetBestChain ==
  ASSUME MempoolInv, SetBestChain
  PROVE  MempoolInv'
<1>0. /\ BlocksInv /\ Pool \in GoodPool /\ OrphanInv
      /\ mapBlockIndex \in SUBSET Blocks /\ Rooted(mapBlockIndex)
  BY DEF MempoolInv, BlocksInv, Rooted
<1>1. mapBlockIndex' = mapBlockIndex /\ OrphanInv'
  BY <1>0 DEF SetBestChain, SwitchExtend, SwitchExtendFails, SwitchReorganize,
              SwitchReorganizeFails, ConnectPostponed, ConnectPostponedFails,
              FinishSwitch, SetBestChainFails, poolVars, orphanVars, OrphanInv, Orphans
<1>2. Rooted(mapBlockIndex')
  BY <1>0, <1>1
<1>3. CASE SwitchExtend
  <2>1. op.new \in mapBlockIndex /\ op.new \in Blocks
    BY <1>0, <1>3 DEF SwitchExtend, BlocksInv
  <2>2. /\ pindexBest' = pindexBest /\ hashBestChainDisk' = op.new
        /\ op' = Finish(op.new, op.by)
    BY <1>3 DEF SwitchExtend, Extend, TxnCommit
  <2>3. op'.at = "finish" /\ op'.new = op.new
    BY <2>2 DEF Finish
  <2>4. BlocksInv'
    BY <1>0, <1>1, <1>2, <2>1, <2>2, <2>3 DEF BlocksInv
  <2>5. Pool' \in GoodPool
    BY <1>0, <1>3, <2>1, ExtendPool DEF SwitchExtend, Extend
  <2> QED BY <1>1, <2>4, <2>5 DEF MempoolInv, GoodPool
<1>4. CASE SwitchReorganize
  <2>1. op.new \in mapBlockIndex /\ pindexBest \in mapBlockIndex
    BY <1>0, <1>4 DEF SwitchReorganize, BlocksInv
  <2>2. /\ Target \in mapBlockIndex
        /\ Postponed(pindexBest, op.new) \in Seq(mapBlockIndex)
        /\ Target # op.new => Postponed(pindexBest, op.new) # <<>>
    BY <1>0, <2>1, TargetIn DEF Target
  <2>3. /\ pindexBest' = pindexBest /\ hashBestChainDisk' = Target
        /\ op' = IF Target = op.new THEN Finish(op.new, op.by)
                 ELSE Connect(op.new, op.by, Postponed(pindexBest, op.new))
    BY <1>4 DEF SwitchReorganize, TxnCommit
  <2>4. /\ op'.at \in {"finish", "connect"} /\ op'.new = op.new
        /\ op'.at = "connect" => /\ op'.todo = Postponed(pindexBest, op.new)
                                 /\ Target # op.new
    BY <2>3 DEF Finish, Connect
  <2>5. BlocksInv'
    BY <1>0, <1>1, <1>2, <2>1, <2>2, <2>3, <2>4 DEF BlocksInv
  <2>6. Pool' \in GoodPool
    BY <1>0, <1>4, <2>1, <2>2, ReorganizePool DEF SwitchReorganize
  <2> QED BY <1>1, <2>5, <2>6 DEF MempoolInv, GoodPool
<1>5. CASE ConnectPostponed
  <2>1. /\ op.new \in mapBlockIndex /\ pindexBest \in mapBlockIndex
        /\ op.todo \in Seq(mapBlockIndex) /\ op.todo # <<>>
    BY <1>0, <1>5 DEF ConnectPostponed, BlocksInv
  <2>2. /\ Head(op.todo) \in mapBlockIndex /\ Tail(op.todo) \in Seq(mapBlockIndex)
        /\ Len(op.todo) # 1 => Tail(op.todo) # <<>>
    <3> DEFINE q == op.todo
    <3>1. q \in Seq(mapBlockIndex) /\ q # <<>>
      BY <2>1
    <3> HIDE DEF q
    <3>2. /\ Head(q) \in mapBlockIndex /\ Tail(q) \in Seq(mapBlockIndex)
          /\ Len(Tail(q)) = Len(q) - 1 /\ Len(q) \in Nat \ {0}
      BY <3>1
    <3>3. Len(q) # 1 => Tail(q) # <<>>
      <4>1. Len(<<>>) = 0
        OBVIOUS
      <4>2. Len(q) # 1 => Len(Tail(q)) # 0
        BY <3>2
      <4> QED BY <4>1, <4>2, Zenon
    <3> QED BY <3>2, <3>3 DEF q
  <2>3. /\ pindexBest' = pindexBest /\ hashBestChainDisk' = Head(op.todo)
        /\ op' = IF Len(op.todo) = 1 THEN Finish(op.new, op.by)
                 ELSE Connect(op.new, op.by, Tail(op.todo))
    BY <1>5 DEF ConnectPostponed, Extend, TxnCommit
  <2>4. /\ op'.at \in {"finish", "connect"} /\ op'.new = op.new
        /\ op'.at = "connect" => op'.todo = Tail(op.todo) /\ Len(op.todo) # 1
    BY <2>3 DEF Finish, Connect
  <2>5. BlocksInv'
    BY <1>0, <1>1, <1>2, <2>1, <2>2, <2>3, <2>4 DEF BlocksInv
  <2>6. Pool' \in GoodPool
    BY <1>0, <1>5, <2>2, ExtendPool DEF ConnectPostponed, Extend
  <2> QED BY <1>1, <2>5, <2>6 DEF MempoolInv, GoodPool
<1>6. CASE SwitchExtendFails \/ SwitchReorganizeFails
  <2>1. /\ pindexBest' = pindexBest /\ hashBestChainDisk' = hashBestChainDisk
        /\ mapTx' = mapTx /\ mapNextTx' = mapNextTx
        /\ op' = IF op.by = "reset" THEN Down ELSE Idle
    BY <1>6 DEF SwitchExtendFails, SwitchReorganizeFails, SetBestChainFails, diskVars, poolVars
  <2>2. op'.at \in {"down", "idle"}
    BY <2>1 DEF Down, Idle
  <2>3. BlocksInv'
    BY <1>0, <1>1, <1>2, <2>1, <2>2 DEF BlocksInv
  <2>4. Pool' = Pool
    BY <2>1 DEF Pool
  <2> QED BY <1>0, <1>1, <2>3, <2>4 DEF MempoolInv, GoodPool
<1>7. CASE ConnectPostponedFails
  <2>1. /\ pindexBest' = pindexBest /\ hashBestChainDisk' = hashBestChainDisk
        /\ mapTx' = mapTx /\ mapNextTx' = mapNextTx
        /\ op.new \in mapBlockIndex /\ op' = Finish(op.new, op.by)
    BY <1>0, <1>7 DEF ConnectPostponedFails, diskVars, poolVars, BlocksInv
  <2>2. op'.at = "finish" /\ op'.new = op.new
    BY <2>1 DEF Finish
  <2>3. BlocksInv'
    BY <1>0, <1>1, <1>2, <2>1, <2>2 DEF BlocksInv
  <2>4. Pool' = Pool
    BY <2>1 DEF Pool
  <2> QED BY <1>0, <1>1, <2>3, <2>4 DEF MempoolInv, GoodPool
<1>8. CASE FinishSwitch
  <2>1. /\ pindexBest' = op.new /\ hashBestChainDisk' = hashBestChainDisk
        /\ mapTx' = mapTx /\ mapNextTx' = mapNextTx
        /\ op.new \in mapBlockIndex /\ op' \in {Pending, WriteReset, WriteCp(op.new)}
    BY <1>0, <1>8 DEF FinishSwitch, diskVars, poolVars, BlocksInv
  <2>2. op'.at \in {"pending", "writereset"} \/ (op'.at = "writecp" /\ op'.new = op.new)
    BY <2>1 DEF Pending, WriteReset, WriteCp
  <2>3. BlocksInv'
    BY <1>0, <1>1, <1>2, <2>1, <2>2 DEF BlocksInv
  <2>4. Pool' = Pool
    BY <2>1 DEF Pool
  <2> QED BY <1>0, <1>1, <2>3, <2>4 DEF MempoolInv, GoodPool
<1> QED
  BY <1>3, <1>4, <1>5, <1>6, <1>7, <1>8 DEF SetBestChain

\* The other steps leave the pool and the orphans alone, or empty them.
LEMMA MempoolNext ==
  ASSUME MempoolInv, [Next]_vars
  PROVE  MempoolInv'
<1>0. /\ BlocksInv /\ Pool \in GoodPool /\ OrphanInv
      /\ mapBlockIndex \in SUBSET Blocks /\ Rooted(mapBlockIndex)
  BY DEF MempoolInv, BlocksInv, Rooted
<1>a. ASSUME UNCHANGED poolVars PROVE Pool' = Pool /\ OrphanInv'
  BY <1>0, <1>a DEF poolVars, orphanVars, Pool, OrphanInv, Orphans
<1>1. CASE UNCHANGED vars
  <2>1. BlocksInv'
    BY <1>0, <1>1 DEF vars, diskVars, BlocksInv
  <2> QED BY <1>0, <1>1, <1>a, <2>1 DEF vars, MempoolInv, GoodPool
<1>2. ASSUME NEW tx \in Txs, AcceptToMemoryPool(tx) \/ TxMessage(tx) \/ CreateNewBlock(tx)
      PROVE  MempoolInv'
  BY <1>2, MempoolAccept, MempoolTx, MempoolMiner
<1>3. ASSUME NEW b \in Blocks \ {Genesis}, AcceptBlock(b) PROVE MempoolInv'
  <2>1. /\ mapBlockIndex' = mapBlockIndex \cup {b} /\ Prev[b] \in mapBlockIndex
        /\ pindexBest' = pindexBest /\ hashBestChainDisk' = hashBestChainDisk
        /\ op' \in {Switch(b, "accept"), Pending} /\ UNCHANGED poolVars
    BY <1>3 DEF AcceptBlock, diskVars
  <2>2. (op'.at = "switch" /\ op'.new = b) \/ op'.at = "pending"
    BY <2>1 DEF Switch, Pending
  <2>3. Rooted(mapBlockIndex')
    BY <1>0, <1>3, <2>1 DEF Rooted
  <2>4. BlocksInv'
    BY <1>0, <2>1, <2>2, <2>3 DEF BlocksInv
  <2> QED BY <1>0, <1>a, <2>1, <2>4 DEF MempoolInv, GoodPool
<1>4. CASE SetBestChain
  BY <1>4, MempoolSetBestChain
<1>b. ASSUME chainUnchanged, \/ op'.at \in {"idle", "writereset"} \/ op' = op
                             \/ op'.at \in {"switch", "writecp"} /\ op'.new \in mapBlockIndex
      PROVE  MempoolInv'
  <2>1. /\ mapBlockIndex' = mapBlockIndex /\ pindexBest' = pindexBest
        /\ hashBestChainDisk' = hashBestChainDisk /\ UNCHANGED poolVars
    BY <1>b DEF chainUnchanged, diskVars
  <2>2. BlocksInv'
    BY <1>0, <1>b, <2>1 DEF BlocksInv
  <2> QED BY <1>0, <1>a, <2>1, <2>2 DEF MempoolInv, GoodPool
<1>5. CASE AcceptPendingSyncCheckpoint
  <2>1. \/ op' = Idle
        \/ /\ hashPendingCheckpoint \in mapBlockIndex
           /\ op' \in {WriteCp(hashPendingCheckpoint), Switch(hashPendingCheckpoint, "pending")}
    BY <1>5 DEF AcceptPendingSyncCheckpoint
  <2> QED BY <1>5, <1>b, <2>1 DEF AcceptPendingSyncCheckpoint, Idle, WriteCp, Switch
<1>6. ASSUME NEW c \in SignedCheckpoints, ProcessSyncCheckpoint(c) PROVE MempoolInv'
  <2>1. \/ op' = op
        \/ c \in mapBlockIndex /\ op' \in {WriteCp(c), Switch(c, "process")}
    BY <1>6 DEF ProcessSyncCheckpoint
  <2> QED BY <1>6, <1>b, <2>1 DEF ProcessSyncCheckpoint, WriteCp, Switch
<1>7. CASE WriteSyncCheckpoint
  BY <1>7, <1>b DEF WriteSyncCheckpoint, Idle
<1>8. CASE ResetSyncCheckpoint
  <2>1. \/ op' = WriteReset
        \/ Last(Hardened) \in mapBlockIndex /\ op' = Switch(Last(Hardened), "reset")
    BY <1>8 DEF ResetSyncCheckpoint
  <2> QED BY <1>8, <1>b, <2>1 DEF ResetSyncCheckpoint, WriteReset, Switch
<1>9. CASE WriteResetCheckpoint
  BY <1>9, <1>b DEF WriteResetCheckpoint, Idle
<1>10. ASSUME NEW newKey \in BOOLEAN, Restart(newKey) PROVE MempoolInv'
  <2>1. /\ mapBlockIndex' = mapBlockIndex /\ pindexBest' = hashBestChainDisk
        /\ hashBestChainDisk' = hashBestChainDisk /\ op' \in {ResetCp, Idle}
        /\ mapTx' = {} /\ mapNextTx' = [o \in Txs |-> Absent]
        /\ mapOrphanTransactions' = {} /\ mapOrphanTransactionsByPrev' = [o \in Txs |-> {}]
    BY <1>10 DEF Restart, diskVars, SetPool, SetOrphans
  <2>2. op'.at \in {"reset", "idle"}
    BY <2>1 DEF ResetCp, Idle
  <2>3. BlocksInv'
    BY <1>0, <2>1, <2>2 DEF BlocksInv
  <2>4. Pool' \in GoodPool
    <3>1. \A o, u \in Txs : Pool'.next[o] = u <=> (u \in Pool'.tx /\ o \in ToSet(vin[u]))
      BY <2>1, TreeAssumption DEF Pool
    <3>2. Pool' \in [tx : SUBSET (Txs \ Coinbases), next : [Txs -> Txs \cup {Absent}]]
      BY <2>1 DEF Pool
    <3> QED BY <3>1, <3>2, Zenon DEF GoodPool
  <2>5. OrphanInv'
    <3>1. \A p \in Txs : Orphans'.byPrev[p] = {o \in Orphans'.tx : p \in ToSet(vin[o])}
      BY <2>1 DEF Orphans
    <3>2. Orphans' \in [tx : SUBSET (Txs \ Coinbases), byPrev : [Txs -> SUBSET Txs]]
      BY <2>1 DEF Orphans
    <3>3. Orphans' \in GoodOrphans(Txs \ Coinbases)
      BY <3>1, <3>2, Zenon DEF GoodOrphans
    <3>4. Cardinality(mapOrphanTransactions') = 0
      BY <2>1, FS_EmptySet
    <3> QED BY <3>3, <3>4, BoundsAssumption DEF OrphanInv, GoodOrphans
  <2> QED BY <2>3, <2>4, <2>5 DEF MempoolInv, GoodPool
<1> QED
  BY <1>1, <1>2, <1>3, <1>4, <1>5, <1>6, <1>7, <1>8, <1>9, <1>10 DEF Next

\* The memory pool, the orphan transactions and their indexes stay well formed in
\* every step: blocks connected and disconnected, reorganizations, messages and
\* restarts.
THEOREM MempoolInvariant == Spec => []MempoolInv
<1>1. Init => MempoolInv
  BY MempoolInit
<1>2. MempoolInv /\ [Next]_vars => MempoolInv'
  BY MempoolNext
<1> QED
  BY <1>1, <1>2, PTL DEF Spec

\* mapNextTx is exactly the inputs of the pool's transactions, in every behaviour:
\* after any order of accept, adoption, removal by a block and resurrection by a
\* reorganization, whatever the tree of blocks (CTxMemPool, Reorganize).
THEOREM PoolAlwaysIndexed == Spec => []PoolIndexed
<1>1. MempoolInv => PoolIndexed
  BY DEF MempoolInv, GoodPool, Pool, PoolIndexed
<1> QED
  BY <1>1, MempoolInvariant, PTL

\* mapOrphanTransactionsByPrev lists every orphan under each of its inputs and no
\* other, and there are never more than nMaxOrphans of them, whatever the tree of
\* orphans a tx message adopts, refuses or evicts (AddOrphanTx, EraseOrphanTx,
\* LimitOrphanTxSize and the work queue of the tx message).
THEOREM OrphansAlwaysIndexed == Spec => []OrphansIndexed
<1>1. MempoolInv => OrphansIndexed
  BY DEF MempoolInv, OrphanInv, GoodOrphans, Orphans, OrphansIndexed
<1> QED
  BY <1>1, MempoolInvariant, PTL

-----------------------------------------------------------------------------
(***************************************************************************)
(* The branches of the tree: a block, its ancestors, and the chain that    *)
(* ends in it.  LinksOf(b) is what hashNext has to be when b is the best   *)
(* block.                                                                  *)
(***************************************************************************)
\* All blocks together have the block before each of them.
LEMMA AllRooted == Rooted(Blocks)
  BY TreeAssumption DEF Rooted

\* The path to a block, as a function on its positions.
LEMMA PathParts ==
  ASSUME NEW b \in Blocks
  PROVE  /\ ChainTo[b] \in Seq(Blocks) /\ Len(ChainTo[b]) \in Nat \ {0}
         /\ DOMAIN ChainTo[b] = 1..Len(ChainTo[b])
         /\ ChainTo[b][1] = Genesis /\ ChainTo[b][Len(ChainTo[b])] = b
         /\ \A i \in 1..Len(ChainTo[b]) : ChainTo[b][i] \in Blocks
<1>1. /\ ChainTo[b] \in Seq(Blocks) /\ Len(ChainTo[b]) \in Nat \ {0}
      /\ ChainTo[b][1] = Genesis /\ ChainTo[b][Len(ChainTo[b])] = b
  BY AllRooted, PathIn
<1> DEFINE q == ChainTo[b]
<1> HIDE DEF q
<1>2. q \in Seq(Blocks) => DOMAIN q = 1..Len(q) /\ \A i \in 1..Len(q) : q[i] \in Blocks
  OBVIOUS
<1> QED
  BY <1>1, <1>2 DEF q

\* The path to a block is the path to the block before it and the block.
LEMMA PathStep ==
  ASSUME NEW b \in Blocks, b # Genesis
  PROVE  /\ Prev[b] \in Blocks
         /\ Len(ChainTo[b]) = Len(ChainTo[Prev[b]]) + 1
         /\ \A i \in 1..Len(ChainTo[Prev[b]]) : ChainTo[b][i] = ChainTo[Prev[b]][i]
<1>1. Prev[b] \in Blocks
  BY TreeAssumption
<1> DEFINE q == ChainTo[Prev[b]]
<1>2. q \in Seq(Blocks) /\ ChainTo[b] = Append(q, b)
  BY <1>1, ChainToPath
<1> HIDE DEF q
<1>3. Len(Append(q, b)) = Len(q) + 1 /\ \A i \in 1..Len(q) : Append(q, b)[i] = q[i]
  BY <1>2
<1> QED
  BY <1>1, <1>2, <1>3 DEF q

\* The path to a block of a path is its beginning.
LEMMA PathPrefix ==
  ASSUME NEW b \in Blocks, NEW i \in 1..Len(ChainTo[b])
  PROVE  /\ Len(ChainTo[ChainTo[b][i]]) = i
         /\ \A j \in 1..i : ChainTo[ChainTo[b][i]][j] = ChainTo[b][j]
<1> DEFINE Fine(c) == \A k \in 1..Len(ChainTo[c]) :
                        /\ Len(ChainTo[ChainTo[c][k]]) = k
                        /\ \A j \in 1..k : ChainTo[ChainTo[c][k]][j] = ChainTo[c][j]
           S == {c \in Blocks : ~Fine(c)}
<1> SUFFICES ASSUME S # {} PROVE FALSE
  OBVIOUS
<1>1. S \in SUBSET Blocks
  OBVIOUS
<1>2. PICK c \in S : c = Genesis \/ Prev[c] \notin S
  <2> HIDE DEF S
  <2> QED BY <1>1, TreeAssumption
<1>3. c \in Blocks /\ ~Fine(c)
  OBVIOUS
<1>4. Fine(c)
  <2> SUFFICES ASSUME NEW k \in 1..Len(ChainTo[c])
               PROVE  /\ Len(ChainTo[ChainTo[c][k]]) = k
                      /\ \A j \in 1..k : ChainTo[ChainTo[c][k]][j] = ChainTo[c][j]
    OBVIOUS
  <2>1. Len(ChainTo[c]) \in Nat \ {0} /\ ChainTo[c][Len(ChainTo[c])] = c
    BY <1>3, PathParts
  <2>2. CASE k = Len(ChainTo[c])
    BY <2>1, <2>2
  <2>3. CASE k # Len(ChainTo[c])
    <3>1. c # Genesis
      <4>1. ChainTo[Genesis] = <<Genesis>> /\ Len(<<Genesis>>) = 1
        BY ChainToPath
      <4>2. ASSUME c = Genesis PROVE FALSE
        <5>1. Len(ChainTo[c]) = 1
          BY <4>1, <4>2
        <5> HIDE DEF S
        <5> QED BY <2>3, <5>1
      <4> QED BY <4>2
    <3>2. Fine(Prev[c])
      BY <1>2, <1>3, <3>1, PathStep
    <3>3. /\ Len(ChainTo[c]) = Len(ChainTo[Prev[c]]) + 1
          /\ \A j \in 1..Len(ChainTo[Prev[c]]) : ChainTo[c][j] = ChainTo[Prev[c]][j]
          /\ Len(ChainTo[Prev[c]]) \in Nat
      BY <1>3, <3>1, PathStep, PathParts
    <3>4. k \in 1..Len(ChainTo[Prev[c]]) /\ ChainTo[c][k] = ChainTo[Prev[c]][k]
      BY <2>3, <3>3
    <3>5. \A j \in 1..k : j \in 1..Len(ChainTo[Prev[c]])
      BY <3>3, <3>4
    <3> QED BY <3>2, <3>3, <3>4, <3>5
  <2> QED BY <2>2, <2>3
<1> QED
  BY <1>3, <1>4

\* Along a path every block comes after the block before it.
LEMMA PathLinks ==
  ASSUME NEW b \in Blocks, NEW i \in 2..Len(ChainTo[b])
  PROVE  ChainTo[b][i] # Genesis /\ Prev[ChainTo[b][i]] = ChainTo[b][i - 1]
<1> DEFINE c == ChainTo[b][i]
<1>0. i \in 1..Len(ChainTo[b]) /\ i - 1 \in 1..i /\ c \in Blocks
  BY PathParts
<1>1. Len(ChainTo[c]) = i /\ ChainTo[c][i - 1] = ChainTo[b][i - 1]
  BY <1>0, PathPrefix
<1> HIDE DEF c
<1>2. c # Genesis
  <2>1. ChainTo[Genesis] = <<Genesis>> /\ Len(<<Genesis>>) = 1
    BY ChainToPath
  <2> QED BY <1>1, <2>1
<1>3. /\ Prev[c] \in Blocks /\ Len(ChainTo[c]) = Len(ChainTo[Prev[c]]) + 1
      /\ \A j \in 1..Len(ChainTo[Prev[c]]) : ChainTo[c][j] = ChainTo[Prev[c]][j]
      /\ Len(ChainTo[Prev[c]]) \in Nat \ {0}
      /\ ChainTo[Prev[c]][Len(ChainTo[Prev[c]])] = Prev[c]
  BY <1>0, <1>2, PathStep, PathParts
<1>4. Len(ChainTo[Prev[c]]) = i - 1
  BY <1>1, <1>3
<1>5. ChainTo[c][i - 1] = Prev[c]
  BY <1>3, <1>4
<1> QED
  BY <1>1, <1>2, <1>5 DEF c

\* An ancestor is where its own height says.
LEMMA AncestorAt ==
  ASSUME NEW b \in Blocks, NEW a
  PROVE  IsAncestor(a, b) <=> /\ a \in Blocks /\ Len(ChainTo[a]) \in 1..Len(ChainTo[b])
                              /\ ChainTo[b][Len(ChainTo[a])] = a
<1>1. ASSUME IsAncestor(a, b)
      PROVE  /\ a \in Blocks /\ Len(ChainTo[a]) \in 1..Len(ChainTo[b])
             /\ ChainTo[b][Len(ChainTo[a])] = a
  <2>1. PICK i \in 1..Len(ChainTo[b]) : ChainTo[b][i] = a
    BY <1>1, PathParts DEF IsAncestor
  <2>2. Len(ChainTo[a]) = i /\ a \in Blocks
    BY <2>1, PathPrefix, PathParts
  <2> QED BY <2>1, <2>2
<1>2. ASSUME a \in Blocks, Len(ChainTo[a]) \in 1..Len(ChainTo[b]),
             ChainTo[b][Len(ChainTo[a])] = a
      PROVE  IsAncestor(a, b)
  BY <1>2, PathParts DEF IsAncestor
<1> QED
  BY <1>1, <1>2

\* Every block and the genesis block are ancestors of the block.
LEMMA AncestorSelf ==
  ASSUME NEW b \in Blocks
  PROVE  IsAncestor(b, b) /\ IsAncestor(Genesis, b)
<1>1. Len(ChainTo[b]) \in 1..Len(ChainTo[b]) /\ 1 \in 1..Len(ChainTo[b])
  BY PathParts
<1> QED
  BY <1>1, PathParts DEF IsAncestor

\* The ancestors of a block are the block and those of the block before it.
LEMMA AncestorStep ==
  ASSUME NEW b \in Blocks, b # Genesis, NEW a
  PROVE  IsAncestor(a, b) <=> a = b \/ IsAncestor(a, Prev[b])
<1>1. /\ Prev[b] \in Blocks /\ Len(ChainTo[b]) = Len(ChainTo[Prev[b]]) + 1
      /\ \A i \in 1..Len(ChainTo[Prev[b]]) : ChainTo[b][i] = ChainTo[Prev[b]][i]
      /\ Len(ChainTo[Prev[b]]) \in Nat /\ ChainTo[b][Len(ChainTo[b])] = b
      /\ DOMAIN ChainTo[b] = 1..Len(ChainTo[b])
      /\ DOMAIN ChainTo[Prev[b]] = 1..Len(ChainTo[Prev[b]])
  BY PathStep, PathParts
<1>2. \A i \in 1..Len(ChainTo[b]) : i = Len(ChainTo[b]) \/ i \in 1..Len(ChainTo[Prev[b]])
  BY <1>1
<1>3. \A i \in 1..Len(ChainTo[Prev[b]]) : i \in 1..Len(ChainTo[b])
  BY <1>1
<1>4. Len(ChainTo[b]) \in 1..Len(ChainTo[b])
  BY <1>1
<1> QED
  BY <1>1, <1>2, <1>3, <1>4 DEF IsAncestor

\* Only the genesis block is an ancestor of the genesis block.
LEMMA AncestorGenesis ==
  ASSUME NEW a, IsAncestor(a, Genesis)
  PROVE  a = Genesis
<1>1. ChainTo[Genesis] = <<Genesis>>
  BY ChainToPath
<1>2. \A i \in DOMAIN <<Genesis>> : <<Genesis>>[i] = Genesis
  OBVIOUS
<1> QED
  BY <1>1, <1>2 DEF IsAncestor

\* The ancestors of an ancestor are ancestors; of two ancestors of a block the
\* lower one is an ancestor of the other.
LEMMA AncestorChain ==
  ASSUME NEW c \in Blocks, NEW b, IsAncestor(b, c), NEW a
  PROVE  /\ IsAncestor(a, b) => IsAncestor(a, c)
         /\ IsAncestor(a, c) /\ Len(ChainTo[a]) <= Len(ChainTo[b]) => IsAncestor(a, b)
<1>1. /\ b \in Blocks /\ Len(ChainTo[b]) \in 1..Len(ChainTo[c])
      /\ ChainTo[c][Len(ChainTo[b])] = b /\ Len(ChainTo[c]) \in Nat
  BY AncestorAt, PathParts
<1>2. \A j \in 1..Len(ChainTo[b]) : ChainTo[b][j] = ChainTo[c][j]
  BY <1>1, PathPrefix
<1>3. ASSUME IsAncestor(a, b) PROVE IsAncestor(a, c)
  <2>1. /\ a \in Blocks /\ Len(ChainTo[a]) \in 1..Len(ChainTo[b])
        /\ ChainTo[b][Len(ChainTo[a])] = a
    BY <1>1, <1>3, AncestorAt
  <2>2. Len(ChainTo[a]) \in 1..Len(ChainTo[c]) /\ ChainTo[c][Len(ChainTo[a])] = a
    BY <1>1, <1>2, <2>1
  <2> QED BY <2>1, <2>2, AncestorAt
<1>4. ASSUME IsAncestor(a, c), Len(ChainTo[a]) <= Len(ChainTo[b]) PROVE IsAncestor(a, b)
  <2>1. /\ a \in Blocks /\ Len(ChainTo[a]) \in 1..Len(ChainTo[c])
        /\ ChainTo[c][Len(ChainTo[a])] = a
    BY <1>4, AncestorAt
  <2>2. Len(ChainTo[a]) \in 1..Len(ChainTo[b]) /\ ChainTo[b][Len(ChainTo[a])] = a
    BY <1>1, <1>2, <1>4, <2>1
  <2> QED BY <1>1, <2>1, <2>2, AncestorAt
<1> QED
  BY <1>3, <1>4

\* No block of a path comes twice after the same block.
LEMMA OneSuccessor ==
  ASSUME NEW b \in Blocks, NEW c \in Blocks, NEW d \in Blocks, c # Genesis, d # Genesis,
         IsAncestor(c, b), IsAncestor(d, b), Prev[c] = Prev[d]
  PROVE  c = d
<1>1. Len(ChainTo[c]) = Len(ChainTo[d])
  BY PathStep
<1> QED
  BY <1>1, AncestorAt

\* The block before an ancestor is an ancestor, and lower.
LEMMA AncestorPrev ==
  ASSUME NEW b \in Blocks, NEW c \in Blocks, c # Genesis, IsAncestor(c, b)
  PROVE  IsAncestor(Prev[c], b) /\ ~IsAncestor(c, Prev[c])
<1>1. Prev[c] \in Blocks /\ Len(ChainTo[c]) = Len(ChainTo[Prev[c]]) + 1
  BY PathStep
<1>2. IsAncestor(Prev[c], c)
  BY <1>1, AncestorStep, AncestorSelf
<1>3. Len(ChainTo[Prev[c]]) \in Nat
  BY <1>1, PathParts
<1> QED
  BY <1>1, <1>2, <1>3, AncestorChain, AncestorAt

\* What LinksOf is: every link leads to a block of the path, from the one before.
LinksTo(f, best) ==
  /\ f \in [Blocks -> Blocks \cup {NoBlock}]
  /\ \A c \in Blocks \ {Genesis} : IsAncestor(c, best) => f[Prev[c]] = c
  /\ \A b \in Blocks : f[b] # NoBlock =>
       f[b] \in Blocks \ {Genesis} /\ IsAncestor(f[b], best) /\ Prev[f[b]] = b

\* LinksOf satisfies it.
LEMMA LinksOfLinks ==
  ASSUME NEW best \in Blocks
  PROVE  LinksTo(LinksOf(best), best)
<1> DEFINE f == LinksOf(best)
           After(b, c) == IsAncestor(c, best) /\ Prev[c] = b
<1>1. \A b \in Blocks : f[b] = IF \E c \in Blocks \ {Genesis} : After(b, c)
                               THEN CHOOSE c \in Blocks \ {Genesis} : After(b, c)
                               ELSE NoBlock
  BY DEF LinksOf
<1>2. DOMAIN f = Blocks /\ f = [b \in DOMAIN f |-> f[b]]
  BY DEF LinksOf
<1> HIDE DEF f
<1>3. ASSUME NEW b \in Blocks, NEW c \in Blocks \ {Genesis}, After(b, c)
      PROVE  f[b] = c
  <2>1. \E d \in Blocks \ {Genesis} : After(b, d)
    BY <1>3
  <2>2. f[b] \in Blocks \ {Genesis} /\ After(b, f[b])
    <3> HIDE DEF After
    <3> QED BY <1>1, <2>1
  <2> QED BY <1>3, <2>2, OneSuccessor
<1>4. ASSUME NEW b \in Blocks, f[b] # NoBlock
      PROVE  f[b] \in Blocks \ {Genesis} /\ After(b, f[b])
  <2> HIDE DEF After
  <2> QED BY <1>1, <1>4
<1>5. f \in [Blocks -> Blocks \cup {NoBlock}]
  BY <1>2, <1>4
<1>6. \A c \in Blocks \ {Genesis} : Prev[c] \in Blocks
  BY TreeAssumption
<1> QED
  BY <1>3, <1>4, <1>5, <1>6 DEF LinksTo, f

\* And no other function does.
LEMMA LinksUnique ==
  ASSUME NEW best \in Blocks, NEW f, LinksTo(f, best)
  PROVE  f = LinksOf(best)
<1> DEFINE g == LinksOf(best)
<1>1. LinksTo(g, best)
  BY LinksOfLinks
<1> HIDE DEF g
<1>2. ASSUME NEW b \in Blocks PROVE f[b] = g[b]
  <2>1. CASE f[b] # NoBlock
    BY <1>1, <2>1 DEF LinksTo
  <2>2. CASE g[b] # NoBlock
    BY <1>1, <2>2 DEF LinksTo
  <2> QED BY <2>1, <2>2
<1> QED
  BY <1>1, <1>2 DEF LinksTo, g

\* No link leaves a block that is not on the path, nor its end.
LEMMA NoLinkBeyond ==
  ASSUME NEW best \in Blocks, NEW b \in Blocks, ~IsAncestor(b, best) \/ b = best
  PROVE  LinksOf(best)[b] = NoBlock
<1> SUFFICES ASSUME LinksOf(best)[b] # NoBlock PROVE FALSE
  OBVIOUS
<1> DEFINE c == LinksOf(best)[b]
<1>1. c \in Blocks \ {Genesis} /\ IsAncestor(c, best) /\ Prev[c] = b
  BY LinksOfLinks DEF LinksTo
<1> HIDE DEF c
<1>2. IsAncestor(b, best) /\ ~IsAncestor(c, b)
  BY <1>1, AncestorPrev
<1> QED
  BY <1>1, <1>2

\* ConnectBlock and the loop after Reorganize add one link.
LEMMA LinkAdded ==
  ASSUME NEW b \in Blocks, b # Genesis
  PROVE  /\ [LinksOf(Prev[b]) EXCEPT ![Prev[b]] = b] = LinksOf(b)
         /\ [LinksOf(Prev[b]) EXCEPT ![b] = NoBlock, ![Prev[b]] = b] = LinksOf(b)
<1> DEFINE f == LinksOf(Prev[b])
           g == [f EXCEPT ![Prev[b]] = b]
<1>0. Prev[b] \in Blocks /\ Prev[b] # b /\ NoBlock \notin Blocks
  <2>1. IsAncestor(b, b)
    BY AncestorSelf
  <2> QED BY <2>1, AncestorPrev, TreeAssumption
<1>1. LinksTo(f, Prev[b])
  BY <1>0, LinksOfLinks
<1>2. f[b] = NoBlock /\ f[Prev[b]] = NoBlock
  <2>1. ~IsAncestor(b, Prev[b])
    BY AncestorPrev, AncestorSelf
  <2> QED BY <1>0, <2>1, NoLinkBeyond
<1> HIDE DEF f
<1>3. /\ g \in [Blocks -> Blocks \cup {NoBlock}]
      /\ \A c \in Blocks : g[c] = IF c = Prev[b] THEN b ELSE f[c]
  BY <1>0, <1>1 DEF LinksTo
<1>4. [f EXCEPT ![b] = NoBlock, ![Prev[b]] = b] = g
  <2> DEFINE h == [f EXCEPT ![b] = NoBlock]
  <2>1. f \in [Blocks -> Blocks \cup {NoBlock}]
    BY <1>1 DEF LinksTo
  <2>2. h = f
    BY <1>2, <2>1
  <2> QED BY <2>2
<1> HIDE DEF g
<1>5. ASSUME NEW c \in Blocks \ {Genesis}, IsAncestor(c, b) PROVE g[Prev[c]] = c
  <2>1. Prev[c] \in Blocks
    BY TreeAssumption
  <2>2. CASE c = b
    BY <1>0, <1>3, <2>2
  <2>3. CASE c # b
    <3>1. IsAncestor(c, Prev[b])
      BY <1>5, <2>3, AncestorStep
    <3>2. f[Prev[c]] = c
      BY <1>1, <3>1 DEF LinksTo
    <3>3. Prev[c] # Prev[b]
      BY <1>2, <3>2, <1>0
    <3> QED BY <1>3, <2>1, <3>2, <3>3
  <2> QED BY <2>2, <2>3
<1>6. ASSUME NEW c \in Blocks, g[c] # NoBlock
      PROVE  g[c] \in Blocks \ {Genesis} /\ IsAncestor(g[c], b) /\ Prev[g[c]] = c
  <2>1. CASE c = Prev[b]
    BY <1>3, <2>1, AncestorSelf
  <2>2. CASE c # Prev[b]
    <3>1. g[c] = f[c] /\ f[c] \in Blocks \ {Genesis} /\ IsAncestor(f[c], Prev[b]) /\ Prev[f[c]] = c
      BY <1>1, <1>3, <1>6, <2>2 DEF LinksTo
    <3> QED BY <3>1, AncestorStep
  <2> QED BY <2>1, <2>2
<1>7. LinksTo(g, b)
  BY <1>3, <1>5, <1>6 DEF LinksTo
<1>8. g = LinksOf(b)
  BY <1>7, LinksUnique
<1> QED
  BY <1>4, <1>8 DEF g, f

\* DisconnectBlock takes it away.
LEMMA LinkCut ==
  ASSUME NEW b \in Blocks, b # Genesis
  PROVE  [LinksOf(b) EXCEPT ![Prev[b]] = NoBlock] = LinksOf(Prev[b])
<1> DEFINE f == LinksOf(Prev[b])
<1>0. Prev[b] \in Blocks
  BY TreeAssumption
<1>1. LinksOf(b) = [f EXCEPT ![Prev[b]] = b]
  BY LinkAdded
<1>2. f \in [Blocks -> Blocks \cup {NoBlock}] /\ f[Prev[b]] = NoBlock
  BY <1>0, LinksOfLinks, NoLinkBeyond DEF LinksTo
<1> HIDE DEF f
<1>3. [LinksOf(b) EXCEPT ![Prev[b]] = NoBlock] = f
  BY <1>0, <1>1, <1>2
<1> QED
  BY <1>3 DEF f

\* Where two paths part.
Parts(a, b, k) ==
  /\ k \in 1..Len(ChainTo[b])
  /\ \A i \in 1..Len(ChainTo[b]) : i <= k <=> IsAncestor(ChainTo[b][i], a)

\* The blocks of one path that are not on the other are the rest of it.
LEMMA BeyondIs ==
  ASSUME NEW a \in Blocks, NEW b \in Blocks
  PROVE  \E k \in Nat : /\ Parts(a, b, k)
                        /\ Beyond(a, b) = SubSeq(ChainTo[b], k + 1, Len(ChainTo[b]))
<1> DEFINE q == ChainTo[b]
           n == Len(q)
           common == {i \in DOMAIN q : IsAncestor(q[i], a)}
<1>1. n \in Nat \ {0} /\ DOMAIN q = 1..n /\ q[1] = Genesis /\ \A i \in 1..n : q[i] \in Blocks
  BY PathParts
<1>2. 1 \in common /\ common \in SUBSET (1..n)
  BY <1>1, AncestorSelf
<1> DEFINE k == Max(common)
<1>3. k \in common /\ \A y \in common : y <= k
  <2> HIDE DEF common
  <2> QED BY <1>1, <1>2, MaxIn
<1> HIDE DEF k
<1>4. ASSUME NEW i \in 1..n, i <= k PROVE i \in common
  <2>1. k \in 1..n /\ q[k] \in Blocks /\ IsAncestor(q[k], a)
    BY <1>1, <1>3
  <2>2. Len(ChainTo[q[i]]) = i /\ Len(ChainTo[q[k]]) = k
    BY <2>1, PathPrefix
  <2>3. IsAncestor(q[i], b) /\ IsAncestor(q[k], b)
    BY <1>1, <2>1 DEF IsAncestor
  <2>4. IsAncestor(q[i], q[k])
    BY <1>4, <2>2, <2>3, AncestorChain
  <2>5. IsAncestor(q[i], a)
    BY <2>1, <2>4, AncestorChain
  <2> QED BY <1>1, <2>5
<1>5. k \in Nat /\ k \in 1..n /\ common = 1..k
  BY <1>1, <1>2, <1>3, <1>4
<1>6. Cardinality(common) = k
  <2> HIDE DEF common
  <2> QED BY <1>5, FS_Interval
<1>7. Parts(a, b, k)
  <2>1. \A i \in 1..n : i \in common <=> IsAncestor(q[i], a)
    BY <1>1
  <2> HIDE DEF common
  <2> QED BY <1>5, <2>1 DEF Parts
<1>8. Beyond(a, b) = SubSeq(q, k + 1, n)
  BY <1>6 DEF Beyond
<1> QED
  BY <1>5, <1>7, <1>8

\* They part at the same block, seen from either.
LEMMA SamePart ==
  ASSUME NEW a \in Blocks, NEW b \in Blocks, NEW j, NEW k, Parts(a, b, j), Parts(b, a, k)
  PROVE  j = k /\ ChainTo[a][k] = ChainTo[b][j]
<1>0. ASSUME NEW x \in Blocks, NEW y \in Blocks, NEW m, NEW n, Parts(x, y, m), Parts(y, x, n)
      PROVE  m <= n /\ ChainTo[x][m] = ChainTo[y][m]
  <2>1. m \in 1..Len(ChainTo[y]) /\ Len(ChainTo[y]) \in Nat /\ n \in 1..Len(ChainTo[x])
        /\ Len(ChainTo[x]) \in Nat
    BY <1>0, PathParts DEF Parts
  <2> DEFINE c == ChainTo[y][m]
  <2>2. IsAncestor(c, x) /\ Len(ChainTo[c]) = m /\ IsAncestor(c, y)
    <3>1. m <= m
      BY <2>1
    <3> QED BY <1>0, <2>1, <3>1, PathPrefix, PathParts DEF Parts, IsAncestor
  <2>3. m \in 1..Len(ChainTo[x]) /\ ChainTo[x][m] = c
    BY <2>2, AncestorAt
  <2>4. m <= n
    BY <1>0, <2>2, <2>3 DEF Parts
  <2> QED BY <2>3, <2>4
<1>1. j <= k /\ k <= j /\ ChainTo[a][j] = ChainTo[b][j]
  BY <1>0
<1>2. j \in Int /\ k \in Int
  BY PathParts DEF Parts
<1> QED
  BY <1>1, <1>2

\* As a set, they are the ancestors of one block that are not ancestors of the
\* other.
LEMMA BeyondSet ==
  ASSUME NEW a \in Blocks, NEW b \in Blocks
  PROVE  \A c : c \in ToSet(Beyond(a, b)) <=> IsAncestor(c, b) /\ ~IsAncestor(c, a)
<1>1. PICK k \in Nat : /\ Parts(a, b, k)
                       /\ Beyond(a, b) = SubSeq(ChainTo[b], k + 1, Len(ChainTo[b]))
  BY BeyondIs
<1> DEFINE q == ChainTo[b]
           n == Len(q)
           r == SubSeq(q, k + 1, n)
<1>2. q \in Seq(Blocks) /\ n \in Nat \ {0} /\ DOMAIN q = 1..n
  BY PathParts
<1>3. k \in 1..n /\ \A i \in 1..n : i <= k <=> IsAncestor(q[i], a)
  BY <1>1 DEF Parts
<1> HIDE DEF q
<1>4. /\ DOMAIN r = 1..(n - k)
      /\ \A i \in 1..(n - k) : r[i] = q[k + i] /\ k + i \in 1..n /\ ~(k + i <= k)
      /\ \A i \in 1..n : ~(i <= k) => i - k \in 1..(n - k) /\ r[i - k] = q[i]
  BY <1>2, <1>3
<1> HIDE DEF r
<1>5. ASSUME NEW c PROVE c \in ToSet(r) <=> IsAncestor(c, b) /\ ~IsAncestor(c, a)
  <2>1. c \in ToSet(r) <=> \E i \in 1..(n - k) : r[i] = c
    BY <1>4, Zenon DEF ToSet
  <2>2. IsAncestor(c, b) <=> \E i \in 1..n : q[i] = c
    BY <1>2 DEF IsAncestor, q
  <2> HIDE DEF n
  <2>3. ASSUME c \in ToSet(r) PROVE IsAncestor(c, b) /\ ~IsAncestor(c, a)
    <3>1. PICK i \in 1..(n - k) : r[i] = c
      BY <2>1, <2>3
    <3>2. c = q[k + i] /\ k + i \in 1..n /\ ~(k + i <= k)
      BY <1>4, <3>1
    <3> QED BY <1>3, <2>2, <3>2
  <2>4. ASSUME IsAncestor(c, b), ~IsAncestor(c, a) PROVE c \in ToSet(r)
    <3>1. PICK i \in 1..n : q[i] = c
      BY <2>2, <2>4
    <3>2. i - k \in 1..(n - k) /\ r[i - k] = c
      BY <1>3, <1>4, <2>4, <3>1
    <3> QED BY <2>1, <3>2
  <2> QED BY <2>3, <2>4
<1> QED
  BY <1>1, <1>5 DEF r, q

\* A list and its reverse hold the same.
LEMMA ReverseSet ==
  ASSUME NEW S, NEW q \in Seq(S)
  PROVE  ToSet(Reverse(q)) = ToSet(q)
<1>1. Len(q) \in Nat /\ DOMAIN q = 1..Len(q)
  OBVIOUS
<1>2. DOMAIN Reverse(q) = 1..Len(q) /\ \A i \in 1..Len(q) : Reverse(q)[i] = q[(Len(q) - i) + 1]
  BY DEF Reverse
<1>3. \A i \in 1..Len(q) : (Len(q) - i) + 1 \in 1..Len(q) /\ (Len(q) - ((Len(q) - i) + 1)) + 1 = i
  BY <1>1
<1>4. \A x : (\E i \in 1..Len(q) : q[i] = x) <=> (\E i \in 1..Len(q) : Reverse(q)[i] = x)
  BY <1>2, <1>3
<1>5. ToSet(q) = {q[i] : i \in 1..Len(q)} /\ ToSet(Reverse(q)) = {Reverse(q)[i] : i \in 1..Len(q)}
  BY <1>1, <1>2 DEF ToSet
<1>6. \A x : x \in ToSet(q) <=> \E i \in 1..Len(q) : q[i] = x
  BY <1>5, Zenon
<1>7. \A x : x \in ToSet(Reverse(q)) <=> \E i \in 1..Len(q) : Reverse(q)[i] = x
  BY <1>5, Zenon
<1> QED
  BY <1>4, <1>6, <1>7, Zenon

\* After Reorganize pnext leads to the target and nowhere else.
LEMMA RelinkedLinks ==
  ASSUME pindexBest \in Blocks, NEW new \in Blocks, pnext = LinksOf(pindexBest)
  PROVE  Relinked(new) = LinksOf(new)
<1> DEFINE gone  == ToSet(vDisconnect(pindexBest, new))
           added == ToSet(vConnect(pindexBest, new))
           f == Relinked(new)
<1>1. \A c : c \in gone <=> IsAncestor(c, pindexBest) /\ ~IsAncestor(c, new)
  <2>1. Beyond(new, pindexBest) \in Seq(Blocks)
    BY AllRooted, BeyondIn
  <2> QED BY <2>1, ReverseSet, BeyondSet DEF vDisconnect
<1>2. \A c : c \in added <=> IsAncestor(c, new) /\ ~IsAncestor(c, pindexBest)
  BY BeyondSet DEF vConnect
<1>3. \A b \in Blocks : f[b] = IF \E c \in added : Prev[c] = b
                               THEN CHOOSE c \in added : Prev[c] = b
                               ELSE IF \E c \in gone : Prev[c] = b THEN NoBlock ELSE pnext[b]
  BY DEF Relinked
<1>4. DOMAIN f = Blocks /\ f = [b \in DOMAIN f |-> f[b]]
  BY DEF Relinked
<1> HIDE DEF f, gone, added
<1>5. \A c : c \in added \/ c \in gone => c \in Blocks \ {Genesis}
  BY <1>1, <1>2, AncestorAt, AncestorSelf
<1>6. LinksTo(pnext, pindexBest) /\ NoBlock \notin Blocks
  BY LinksOfLinks, TreeAssumption
<1>7. ASSUME NEW c \in Blocks \ {Genesis}, IsAncestor(c, new) PROVE f[Prev[c]] = c
  <2>0. Prev[c] \in Blocks
    BY TreeAssumption
  <2>1. CASE c \in added
    <3>1. \E d \in added : Prev[d] = Prev[c]
      BY <2>1
    <3>2. f[Prev[c]] \in added /\ Prev[f[Prev[c]]] = Prev[c]
      BY <1>3, <2>0, <3>1
    <3> QED BY <1>2, <1>5, <1>7, <3>2, OneSuccessor
  <2>2. CASE c \notin added
    <3>1. IsAncestor(c, pindexBest) /\ pnext[Prev[c]] = c
      BY <1>2, <1>6, <1>7, <2>2 DEF LinksTo
    <3>2. ASSUME NEW d \in added, Prev[d] = Prev[c] PROVE FALSE
      <4>1. d = c
        BY <1>2, <1>5, <1>7, <3>2, OneSuccessor
      <4> QED BY <2>2, <4>1
    <3>3. ASSUME NEW d \in gone, Prev[d] = Prev[c] PROVE FALSE
      <4>1. d = c
        BY <1>1, <1>5, <3>1, <3>3, OneSuccessor
      <4> QED BY <1>1, <1>7, <4>1
    <3> QED BY <1>3, <2>0, <3>1, <3>2, <3>3
  <2> QED BY <2>1, <2>2
<1>8. ASSUME NEW b \in Blocks, f[b] # NoBlock
      PROVE  f[b] \in Blocks \ {Genesis} /\ IsAncestor(f[b], new) /\ Prev[f[b]] = b
  <2>1. CASE \E c \in added : Prev[c] = b
    <3>1. f[b] \in added /\ Prev[f[b]] = b
      BY <1>3, <2>1
    <3> QED BY <1>2, <1>5, <3>1
  <2>2. CASE ~\E c \in added : Prev[c] = b
    <3>1. f[b] = pnext[b] /\ ~\E c \in gone : Prev[c] = b
      BY <1>3, <1>8, <2>2
    <3>2. f[b] \in Blocks \ {Genesis} /\ IsAncestor(f[b], pindexBest) /\ Prev[f[b]] = b
      BY <1>6, <1>8, <3>1 DEF LinksTo
    <3> QED BY <1>1, <3>1, <3>2
  <2> QED BY <2>1, <2>2
<1>9. LinksTo(f, new)
  BY <1>4, <1>7, <1>8 DEF LinksTo
<1>10. f = LinksOf(new)
  BY <1>9, LinksUnique
<1> QED
  BY <1>10 DEF f

-----------------------------------------------------------------------------
(***************************************************************************)
(* What a database transaction does to the transaction index and the info  *)
(* table: one transaction, one block (ConnectBlock, DisconnectBlock).  A   *)
(* view is the value of the databases inside the transaction; ok is FALSE  *)
(* once a step has failed.                                                 *)
(***************************************************************************)
\* The records ConnectBlock and DisconnectBlock make of infos.
InfoRecords ==
  {InfoRecord(tx, j, <<b, n>>) : tx \in Txs, j \in Nat, b \in Blocks \cup {NoBlock}, n \in Nat}

\* The info tables, without regard to which records they hold.
Tables ==
  [row : UNION {[A -> InfoRecords] : A \in SUBSET Nat}, latest : SUBSET Nat, seq : Nat]

\* The links to the next block, on disk (hashNext) and in memory (pnext).
Links == [Blocks -> Blocks \cup {NoBlock}]

\* The values of a view.
Views ==
  [ok : BOOLEAN, tx : [Txs -> Txs \cup {Absent, Unspent}], next : Links, infos : Tables]

\* The views that differ from s in the infos only, and have not recovered.
SameIndex(s) ==
  {t \in Views : t.tx = s.tx /\ t.next = s.next /\ (t.ok => s.ok)}

\* An insert leaves a table.
LEMMA InsertedTable ==
  ASSUME NEW T \in Tables, NEW r \in InfoRecords
  PROVE  Inserted(T, r) \in Tables
<1> DEFINE id == T.seq + 1
           row == [i \in DOMAIN T.row \cup {id} |-> IF i = id THEN r ELSE T.row[i]]
<1>1. PICK A \in SUBSET Nat : T.row \in [A -> InfoRecords]
  BY DEF Tables
<1>2. T.latest \in SUBSET Nat /\ T.seq \in Nat /\ id \in Nat
  BY DEF Tables
<1> HIDE DEF id
<1>3. A \cup {id} \in SUBSET Nat /\ row \in [A \cup {id} -> InfoRecords]
  BY <1>1, <1>2
<1>4. (T.latest \ IdsOf(T.row, r.addr, r.key)) \cup {id} \in SUBSET Nat
  BY <1>2
<1>5. Inserted(T, r) = [row |-> row, latest |-> (T.latest \ IdsOf(T.row, r.addr, r.key)) \cup {id},
                        seq |-> id]
  BY DEF Inserted, id
<1> HIDE DEF row
<1>6. row \in UNION {[B -> InfoRecords] : B \in SUBSET Nat}
  BY <1>3
<1> QED
  BY <1>2, <1>4, <1>5, <1>6 DEF Tables

\* So does a delete.
LEMMA DeletedTable ==
  ASSUME NEW T \in Tables, NEW r
  PROVE  Deleted(T, r) \in Tables
<1> DEFINE row == RowsLeft(T, r)
           B == DOMAIN T.row \ Undoable(T, r)
<1>1. PICK A \in SUBSET Nat : T.row \in [A -> InfoRecords]
  BY DEF Tables
<1>2. T.latest \in SUBSET Nat /\ T.seq \in Nat
  BY DEF Tables
<1>3. B \in SUBSET Nat /\ row \in [B -> InfoRecords]
  BY <1>1 DEF RowsLeft
<1>4. NewestOf(row, r.addr, r.key) \in SUBSET Nat
  BY <1>3 DEF NewestOf, IdsOf
<1>5. row \in UNION {[C -> InfoRecords] : C \in SUBSET Nat}
  BY <1>3
<1>6. Deleted(T, r) = [row |-> row,
                       latest |-> (T.latest \ Undoable(T, r)) \cup NewestOf(row, r.addr, r.key),
                       seq |-> T.seq]
  BY DEF Deleted
<1> HIDE DEF row
<1> QED
  BY <1>2, <1>4, <1>5, <1>6 DEF Tables

\* A failure leaves the index as it is.
LEMMA FailSame ==
  ASSUME NEW s, NEW t \in SameIndex(s)
  PROVE  Fail(t) \in SameIndex(s) /\ ~Fail(t).ok
  BY DEF Fail, Views, SameIndex

\* An info that is processed and one that is undone leave the index as it is.
LEMMA InfoSteps ==
  ASSUME NEW s, NEW t \in SameIndex(s), NEW r \in InfoRecords
  PROVE  /\ ProcessInfo(t, r) \in SameIndex(s)
         /\ UndoInfo(t, r) \in SameIndex(s)
<1>1. t \in Views /\ t.tx = s.tx /\ t.next = s.next /\ (t.ok => s.ok)
  BY DEF SameIndex
<1>2. Fail(t) \in SameIndex(s)
  BY FailSame
<1>3. ASSUME NEW I \in Tables PROVE [t EXCEPT !.infos = I] \in SameIndex(s)
  BY <1>1, <1>3 DEF Views, SameIndex
<1>4. t.infos \in Tables
  BY <1>1 DEF Views
<1>5. ProcessInfo(t, r) \in SameIndex(s)
  <2>1. Inserted(t.infos, r) \in Tables
    BY <1>4, InsertedTable
  <2> QED BY <1>2, <1>3, <2>1 DEF ProcessInfo
<1>6. UndoInfo(t, r) \in SameIndex(s)
  <2>1. Deleted(t.infos, r) \in Tables
    BY <1>4, DeletedTable
  <2> QED BY <1>2, <1>3, <2>1 DEF UndoInfo
<1> QED
  BY <1>5, <1>6

\* ProcessTxInfos changes the infos only.
LEMMA ProcessTxInfosSame ==
  ASSUME NEW s, NEW v \in SameIndex(s), NEW disk, NEW tx \in Txs,
         NEW b \in Blocks \cup {NoBlock}, NEW m \in Nat
  PROVE  ProcessTxInfos(v, disk, tx, <<b, m>>) \in SameIndex(s)
<1> DEFINE src == <<b, m>>
           n == Len(infosOf[tx])
           ids == [i \in DOMAIN infosOf[tx] |-> i]
           V == SameIndex(s)
           F == [x \in V \X (1..n) |-> ProcessInfo(x[1], InfoRecord(tx, x[2], src))]
           iter == CHOOSE f : f = [t \in SUBSET (1..n) |->
                     IF t = {} THEN v
                     ELSE ProcessInfo(f[t \ {Max(t)}], InfoRecord(tx, ids[Max(t)], src))]
<1>0. n \in Nat /\ DOMAIN infosOf[tx] = 1..n /\ DOMAIN ids = 1..n
  BY TreeAssumption
<1>1. \A i \in 1..n : i \in Nat /\ InfoRecord(tx, i, src) \in InfoRecords /\ ids[i] = i
  BY <1>0 DEF InfoRecords
<1>2. \A x \in V, i \in 1..n : /\ F[<<x, i>>] = ProcessInfo(x, InfoRecord(tx, i, src))
                               /\ ProcessInfo(x, InfoRecord(tx, i, src)) \in V
  BY <1>1, InfoSteps, Zenon
<1>3. \A t \in SUBSET (1..n) : /\ t \ {Max(t)} \in SUBSET (1..n)
                               /\ t # {} => Max(t) \in 1..n /\ ids[Max(t)] = Max(t)
  BY <1>0, <1>1, MaxIn
<1> HIDE DEF F, n, ids, src, V
<1>4. PICK f : IsFold(f, 1..n, v, F) /\ \A t \in SUBSET (1..n) : f[t] \in V
  <2>1. v \in V
    BY DEF V
  <2>2. \A x \in V, i \in 1..n : F[<<x, i>>] \in V
    BY <1>2
  <2> QED BY <1>0, <2>1, <2>2, FoldExistsIn
<1>5. f = [t \in SUBSET (1..n) |->
             IF t = {} THEN v
             ELSE ProcessInfo(f[t \ {Max(t)}], InfoRecord(tx, ids[Max(t)], src))]
  <2>1. \A t \in SUBSET (1..n) : t # {} =>
          F[<<f[t \ {Max(t)}], Max(t)>>] = ProcessInfo(f[t \ {Max(t)}], InfoRecord(tx, ids[Max(t)], src))
    BY <1>2, <1>3, <1>4
  <2>2. f = [t \in SUBSET (1..n) |-> IF t = {} THEN v ELSE F[<<f[t \ {Max(t)}], Max(t)>>]]
    BY <1>4, Zenon DEF IsFold
  <2> QED BY <2>1, <2>2
<1>6. iter = [t \in SUBSET (1..n) |->
                IF t = {} THEN v
                ELSE ProcessInfo(iter[t \ {Max(t)}], InfoRecord(tx, ids[Max(t)], src))]
  BY <1>5, Zenon
<1> HIDE DEF iter
<1>7. iter[1..n] \in V
  <2>1. iter[{}] = v /\ v \in V
    BY <1>6 DEF V
  <2>2. ASSUME NEW t \in SUBSET (1..n), t # {}, iter[t \ {Max(t)}] \in V
        PROVE  iter[t] = F[<<iter[t \ {Max(t)}], Max(t)>>]
    <3>1. iter[t] = ProcessInfo(iter[t \ {Max(t)}], InfoRecord(tx, ids[Max(t)], src))
      BY <1>6, <2>2
    <3>2. Max(t) \in 1..n /\ ids[Max(t)] = Max(t)
      BY <1>3, <2>2
    <3> QED BY <1>2, <2>2, <3>1, <3>2
  <2>3. \A x \in V, i \in 1..n : F[<<x, i>>] \in V
    BY <1>2
  <2>4. FoldsIn(iter, n, v, F, V)
    BY <1>0, <2>1, <2>2, <2>3 DEF FoldsIn
  <2>5. PICK g \in [0..n -> V] : g[n] = iter[1..n]
    BY <2>4, FoldSteps
  <2> QED BY <1>0, <2>5
<1>8. FoldLeftDomain(LAMBDA t, j : ProcessInfo(t, InfoRecord(tx, j, src)), v, infosOf[tx]) = iter[1..n]
  BY <1>0, Zenon DEF FoldLeftDomain, FoldLeft, MapThenFoldSet, ids, iter
<1>10. Fail(v) \in V /\ v \in V
  BY FailSame DEF V
<1> QED
  BY <1>7, <1>8, <1>10 DEF ProcessTxInfos, src, V

\* The record of an info of a transaction of a block.
LEMMA RecordIn ==
  ASSUME NEW tx \in Txs, NEW j \in Nat, NEW b \in Blocks \cup {NoBlock}, NEW n \in Nat
  PROVE  InfoRecord(tx, j, <<b, n>>) \in InfoRecords
  BY DEF InfoRecords

\* UndoTxInfos changes the infos only.
LEMMA UndoTxInfosSame ==
  ASSUME NEW s, NEW v \in SameIndex(s), NEW tx \in Txs
  PROVE  UndoTxInfos(v, tx, NoSource) \in SameIndex(s)
<1> DEFINE n == Len(infosOf[tx])
           all == [j \in DOMAIN infosOf[tx] |-> j]
           ids == Reverse(all)
           V == SameIndex(s)
           F == [x \in V \X (1..n) |-> UndoInfo(x[1], InfoRecord(tx, ids[x[2]], NoSource))]
           iter == CHOOSE f : f = [t \in SUBSET (1..n) |->
                     IF t = {} THEN v
                     ELSE UndoInfo(f[t \ {Max(t)}], InfoRecord(tx, ids[Max(t)], NoSource))]
<1>0. n \in Nat /\ DOMAIN infosOf[tx] = 1..n /\ DOMAIN ids = 1..n /\ \A i \in 1..n : ids[i] \in 1..n
  <2>1. n \in Nat /\ DOMAIN infosOf[tx] = 1..n
    BY TreeAssumption
  <2> HIDE DEF n
  <2>2. all \in Seq(Nat) /\ Len(all) = n /\ \A i \in 1..n : all[i] = i
    BY <2>1
  <2>3. DOMAIN ids = 1..n /\ \A i \in 1..n : ids[i] = all[(n - i) + 1]
    BY <2>2 DEF Reverse
  <2>4. \A i \in 1..n : (n - i) + 1 \in 1..n
    BY <2>1
  <2> HIDE DEF all, ids
  <2> QED BY <2>1, <2>2, <2>3, <2>4
<1> HIDE DEF ids, all, n
<1>1. \A i \in 1..n : InfoRecord(tx, ids[i], NoSource) \in InfoRecords
  <2>1. NoBlock \in Blocks \cup {NoBlock} /\ 0 \in Nat /\ \A i \in 1..n : ids[i] \in Nat
    BY <1>0
  <2>2. \A i \in 1..n : InfoRecord(tx, ids[i], <<NoBlock, 0>>) \in InfoRecords
    BY <2>1, RecordIn
  <2> QED BY <2>2 DEF NoSource
<1>2. \A x \in V, i \in 1..n : /\ F[<<x, i>>] = UndoInfo(x, InfoRecord(tx, ids[i], NoSource))
                               /\ UndoInfo(x, InfoRecord(tx, ids[i], NoSource)) \in V
  BY <1>1, InfoSteps, Zenon
<1>3. \A t \in SUBSET (1..n) : t \ {Max(t)} \in SUBSET (1..n) /\ (t # {} => Max(t) \in 1..n)
  BY <1>0, MaxIn
<1> HIDE DEF F, V
<1>f. v \in V /\ \A x \in V, i \in 1..n : F[<<x, i>>] \in V
  BY <1>2 DEF V
<1>4. PICK f : IsFold(f, 1..n, v, F) /\ \A t \in SUBSET (1..n) : f[t] \in V
  BY <1>0, <1>f, FoldExistsIn
<1>5. f = [t \in SUBSET (1..n) |->
             IF t = {} THEN v
             ELSE UndoInfo(f[t \ {Max(t)}], InfoRecord(tx, ids[Max(t)], NoSource))]
  <2>1. \A t \in SUBSET (1..n) : t # {} =>
          F[<<f[t \ {Max(t)}], Max(t)>>] = UndoInfo(f[t \ {Max(t)}], InfoRecord(tx, ids[Max(t)], NoSource))
    BY <1>2, <1>3, <1>4
  <2>2. f = [t \in SUBSET (1..n) |-> IF t = {} THEN v ELSE F[<<f[t \ {Max(t)}], Max(t)>>]]
    BY <1>4, Zenon DEF IsFold
  <2> QED BY <2>1, <2>2
<1>6. iter = [t \in SUBSET (1..n) |->
                IF t = {} THEN v
                ELSE UndoInfo(iter[t \ {Max(t)}], InfoRecord(tx, ids[Max(t)], NoSource))]
  BY <1>5, Zenon
<1> HIDE DEF iter
<1>7. iter[1..n] \in V
  <2>1. iter[{}] = v
    BY <1>6
  <2>2. ASSUME NEW t \in SUBSET (1..n), t # {}, iter[t \ {Max(t)}] \in V
        PROVE  iter[t] = F[<<iter[t \ {Max(t)}], Max(t)>>]
    <3>1. iter[t] = UndoInfo(iter[t \ {Max(t)}], InfoRecord(tx, ids[Max(t)], NoSource))
      BY <1>6, <2>2
    <3> QED BY <1>2, <1>3, <2>2, <3>1
  <2>3. FoldsIn(iter, n, v, F, V)
    BY <1>0, <1>f, <2>1, <2>2 DEF FoldsIn
  <2>4. PICK g \in [0..n -> V] : g[n] = iter[1..n]
    BY <2>3, FoldSteps
  <2> QED BY <1>0, <2>4
<1>8. FoldLeft(LAMBDA t, j : UndoInfo(t, InfoRecord(tx, j, NoSource)), v,
               Reverse([j \in DOMAIN infosOf[tx] |-> j])) = iter[1..n]
  BY <1>0, Zenon DEF FoldLeft, MapThenFoldSet, ids, all, iter
<1>9. Fail(v) \in V /\ v \in V
  BY FailSame DEF V
<1> QED
  BY <1>7, <1>8, <1>9 DEF UndoTxInfos, V
-----------------------------------------------------------------------------
\* The transaction index of a set of transactions that holds the inputs of all of
\* them: they are indexed and no other, and each is spent by the one that spends it.
Indexes(f, C) ==
  \A t \in Txs : /\ f[t] = Absent <=> t \notin C
                 /\ \A u \in Txs : f[t] = u <=> (u \in C /\ t \in ToSet(vin[u]))

\* What u changes in the index when it is connected.
AddsTx(f, g, u) ==
  /\ \A o \in ToSet(vin[u]) : f[o] = Unspent
  /\ \A o \in Txs : g[o] = IF o = u THEN Unspent ELSE IF o \in ToSet(vin[u]) THEN u ELSE f[o]

\* The inverse, under DisconnectBlock.
TakesTx(f, g, u) ==
  \A o \in Txs : g[o] = IF o = u THEN Absent
                        ELSE IF o \in ToSet(vin[u]) THEN Unspent ELSE f[o]

\* ConnectInputs, the infos and the index record of one transaction.
LEMMA ConnectTxParts ==
  ASSUME NEW s \in Views, NEW disk, NEW b \in Blocks, NEW k \in 1..Len(vtx[b])
  PROVE  LET u == vtx[b][k]
             t == ConnectTx(s, disk, b, k)
         IN /\ t \in Views /\ t.next = s.next /\ u \in Txs
            /\ t.ok => s.ok /\ AddsTx(s.tx, t.tx, u)
<1> DEFINE u == vtx[b][k]
           c == ConnectInputs(s, u)
           p == ProcessTxInfos(c, disk, u, <<b, k>>)
           t == ConnectTx(s, disk, b, k)
<1>0. u \in Txs /\ k \in Nat /\ b \in Blocks \cup {NoBlock}
  BY TreeAssumption
<1> HIDE DEF u
<1>1. /\ c \in Views /\ c.next = s.next
      /\ c.ok => /\ s.ok /\ \A o \in ToSet(vin[u]) : s.tx[o] = Unspent
                 /\ \A o \in Txs : c.tx[o] = IF o \in ToSet(vin[u]) THEN u ELSE s.tx[o]
  <2>1. CASE s.ok /\ \A o \in ToSet(vin[u]) : s.tx[o] = Unspent
    <3> DEFINE x == [o \in Txs |-> IF o \in ToSet(vin[u]) THEN u ELSE s.tx[o]]
    <3>1. x \in [Txs -> Txs \cup {Absent, Unspent}]
      BY <1>0 DEF Views
    <3>2. c = [s EXCEPT !.tx = x]
      BY <2>1 DEF ConnectInputs
    <3>3. \A o \in Txs : x[o] = IF o \in ToSet(vin[u]) THEN u ELSE s.tx[o]
      OBVIOUS
    <3> HIDE DEF x
    <3>4. c \in Views /\ c.next = s.next /\ c.tx = x
      BY <3>1, <3>2 DEF Views
    <3> QED BY <2>1, <3>3, <3>4
  <2>2. CASE ~(s.ok /\ \A o \in ToSet(vin[u]) : s.tx[o] = Unspent)
    <3>1. c = Fail(s)
      BY <2>2 DEF ConnectInputs
    <3> QED BY <3>1 DEF Fail, Views
  <2> QED BY <2>1, <2>2
<1> HIDE DEF c
<1>2. p \in SameIndex(c)
  <2>1. c \in SameIndex(c)
    BY <1>1 DEF SameIndex
  <2> QED BY <1>0, <2>1, ProcessTxInfosSame
<1>3. p \in Views /\ p.tx = c.tx /\ p.next = c.next /\ (p.ok => c.ok)
  BY <1>2 DEF SameIndex
<1>4. t = IF p.ok THEN [p EXCEPT !.tx[u] = Unspent] ELSE p
  BY DEF ConnectTx, p, c, u
<1> HIDE DEF p, t
<1>5. CASE p.ok
  <2>1. t = [p EXCEPT !.tx = [p.tx EXCEPT ![u] = Unspent]]
    BY <1>4, <1>5
  <2>2. [p.tx EXCEPT ![u] = Unspent] \in [Txs -> Txs \cup {Absent, Unspent}]
    BY <1>0, <1>3 DEF Views
  <2>3. t \in Views /\ t.next = p.next /\ t.tx = [p.tx EXCEPT ![u] = Unspent]
    BY <1>3, <2>1, <2>2 DEF Views
  <2>4. p.tx \in [Txs -> Txs \cup {Absent, Unspent}]
    BY <1>3 DEF Views
  <2>5. \A o \in Txs : t.tx[o] = IF o = u THEN Unspent ELSE p.tx[o]
    BY <2>3, <2>4
  <2> QED BY <1>0, <1>1, <1>3, <1>5, <2>3, <2>5 DEF t, u, AddsTx
<1>6. CASE ~p.ok
  BY <1>0, <1>1, <1>3, <1>4, <1>6 DEF t, u
<1> QED
  BY <1>5, <1>6

\* The index with one transaction more.
LEMMA IndexAdded ==
  ASSUME NEW f \in [Txs -> Txs \cup {Absent, Unspent}], NEW C \in SUBSET Txs, Indexes(f, C),
         NEW u \in Txs, u \notin C, NEW g, AddsTx(f, g, u)
  PROVE  Indexes(g, C \cup {u}) /\ ToSet(vin[u]) \subseteq C
<1>0. Absent # Unspent /\ Absent \notin Txs /\ Unspent \notin Txs
  BY TreeAssumption
<1>1. ToSet(vin[u]) \subseteq Txs
  BY TreeAssumption DEF ToSet
<1>2. ToSet(vin[u]) \subseteq C
  BY <1>0, <1>1 DEF Indexes, AddsTx
<1>3. ASSUME NEW t \in Txs
      PROVE  /\ g[t] = Absent <=> t \notin C \cup {u}
             /\ \A w \in Txs : g[t] = w <=> (w \in C \cup {u} /\ t \in ToSet(vin[w]))
  <2>1. /\ f[t] = Absent <=> t \notin C
        /\ \A w \in Txs : f[t] = w <=> (w \in C /\ t \in ToSet(vin[w]))
    BY DEF Indexes
  <2>2. CASE t = u
    BY <1>0, <1>2, <2>1, <2>2 DEF AddsTx
  <2>3. CASE t # u /\ t \in ToSet(vin[u])
    BY <1>0, <1>2, <2>1, <2>3 DEF AddsTx
  <2>4. CASE t # u /\ t \notin ToSet(vin[u])
    BY <1>0, <1>2, <2>1, <2>4 DEF AddsTx
  <2> QED BY <2>2, <2>3, <2>4
<1> QED
  BY <1>2, <1>3 DEF Indexes

\* The index with one transaction less, which nothing spends.
LEMMA IndexTaken ==
  ASSUME NEW f \in [Txs -> Txs \cup {Absent, Unspent}], NEW C \in SUBSET Txs, Indexes(f, C),
         NEW u \in C, \A w \in C : u \notin ToSet(vin[w]), NEW g, TakesTx(f, g, u)
  PROVE  Indexes(g, C \ {u})
<1>0. Absent # Unspent /\ Absent \notin Txs /\ Unspent \notin Txs /\ u \in Txs
  BY TreeAssumption
<1>3. ASSUME NEW t \in Txs
      PROVE  /\ g[t] = Absent <=> t \notin C \ {u}
             /\ \A w \in Txs : g[t] = w <=> (w \in C \ {u} /\ t \in ToSet(vin[w]))
  <2>1. /\ f[t] = Absent <=> t \notin C
        /\ \A w \in Txs : f[t] = w <=> (w \in C /\ t \in ToSet(vin[w]))
    BY DEF Indexes
  <2>2. CASE t = u
    BY <1>0, <2>1, <2>2 DEF TakesTx
  <2>3. CASE t # u /\ t \in ToSet(vin[u])
    BY <1>0, <2>1, <2>3 DEF TakesTx
  <2>4. CASE t # u /\ t \notin ToSet(vin[u])
    BY <1>0, <2>1, <2>4 DEF TakesTx
  <2> QED BY <2>2, <2>3, <2>4
<1> QED
  BY <1>3 DEF Indexes

\* The loop over the transactions of a block that is connected.
LEMMA ConnectTxSteps ==
  ASSUME NEW s \in Views, NEW b \in Blocks
  PROVE  \E g \in [0..Len(vtx[b]) -> Views] :
           /\ g[0] = s
           /\ g[Len(vtx[b])] = FoldLeftDomain(LAMBDA t, n : ConnectTx(t, s.tx, b, n), s, vtx[b])
           /\ \A k \in 1..Len(vtx[b]) : g[k] = ConnectTx(g[k - 1], s.tx, b, k)
<1> DEFINE n == Len(vtx[b])
           ids == [i \in DOMAIN vtx[b] |-> i]
           F == [x \in Views \X (1..n) |-> ConnectTx(x[1], s.tx, b, x[2])]
           iter == CHOOSE f : f = [t \in SUBSET (1..n) |->
                     IF t = {} THEN s ELSE ConnectTx(f[t \ {Max(t)}], s.tx, b, ids[Max(t)])]
<1>0. n \in Nat /\ DOMAIN vtx[b] = 1..n /\ DOMAIN ids = 1..n /\ \A i \in 1..n : ids[i] = i
  BY TreeAssumption
<1>1. \A x \in Views, i \in 1..n : ConnectTx(x, s.tx, b, i) \in Views
  BY ConnectTxParts
<1>2. \A x \in Views, i \in 1..n : F[<<x, i>>] = ConnectTx(x, s.tx, b, i)
  BY <1>1, Zenon
<1> HIDE DEF F, n, ids
<1>3. \A t \in SUBSET (1..n) : /\ t \ {Max(t)} \in SUBSET (1..n)
                               /\ t # {} => Max(t) \in 1..n /\ ids[Max(t)] = Max(t)
  BY <1>0, MaxIn
<1>f. \A x \in Views, i \in 1..n : F[<<x, i>>] \in Views
  BY <1>1, <1>2
<1>4. PICK f : IsFold(f, 1..n, s, F) /\ \A t \in SUBSET (1..n) : f[t] \in Views
  BY <1>0, <1>f, FoldExistsIn
<1>5. f = [t \in SUBSET (1..n) |->
             IF t = {} THEN s ELSE ConnectTx(f[t \ {Max(t)}], s.tx, b, ids[Max(t)])]
  <2>1. \A t \in SUBSET (1..n) : t # {} =>
          F[<<f[t \ {Max(t)}], Max(t)>>] = ConnectTx(f[t \ {Max(t)}], s.tx, b, ids[Max(t)])
    <3> SUFFICES ASSUME NEW t \in SUBSET (1..n), t # {}
                 PROVE  F[<<f[t \ {Max(t)}], Max(t)>>]
                          = ConnectTx(f[t \ {Max(t)}], s.tx, b, ids[Max(t)])
      OBVIOUS
    <3> DEFINE m == Max(t)
               x == f[t \ {m}]
    <3>1. m \in 1..n /\ ids[m] = m /\ t \ {m} \in SUBSET (1..n)
      BY <1>3
    <3>2. x \in Views
      BY <1>4, <3>1
    <3> HIDE DEF m, x
    <3>3. F[<<x, m>>] = ConnectTx(x, s.tx, b, ids[m])
      BY <1>2, <3>1, <3>2
    <3> QED BY <3>3, Zenon DEF m, x
  <2>2. f = [t \in SUBSET (1..n) |-> IF t = {} THEN s ELSE F[<<f[t \ {Max(t)}], Max(t)>>]]
    BY <1>4, Zenon DEF IsFold
  <2> QED BY <2>1, <2>2
<1>6. iter = [t \in SUBSET (1..n) |->
                IF t = {} THEN s ELSE ConnectTx(iter[t \ {Max(t)}], s.tx, b, ids[Max(t)])]
  BY <1>5, Zenon
<1> HIDE DEF iter
<1>7. FoldsIn(iter, n, s, F, Views)
  <2>1. iter[{}] = s
    BY <1>6
  <2>2. ASSUME NEW t \in SUBSET (1..n), t # {}, iter[t \ {Max(t)}] \in Views
        PROVE  iter[t] = F[<<iter[t \ {Max(t)}], Max(t)>>]
    <3>1. iter[t] = ConnectTx(iter[t \ {Max(t)}], s.tx, b, ids[Max(t)])
      BY <1>6, <2>2
    <3> QED BY <1>2, <1>3, <2>2, <3>1
  <2> QED BY <1>0, <1>f, <2>1, <2>2 DEF FoldsIn
<1>8. iter[1..n] = FoldLeftDomain(LAMBDA t, m : ConnectTx(t, s.tx, b, m), s, vtx[b])
  BY <1>0, Zenon DEF FoldLeftDomain, FoldLeft, MapThenFoldSet, ids, iter
<1>9. PICK g \in [0..n -> Views] : /\ g[0] = s /\ g[n] = iter[1..n]
                                   /\ \A k \in 1..n : g[k] = F[<<g[k - 1], k>>]
  BY <1>7, FoldSteps
<1>10. \A k \in 1..n : k - 1 \in 0..n
  BY <1>0
<1>11. \A k \in 1..n : g[k] = ConnectTx(g[k - 1], s.tx, b, k)
  BY <1>2, <1>9, <1>10
<1> QED
  BY <1>8, <1>9, <1>11, Zenon DEF n

\* The transactions of the path to a block are those of the path to the block
\* before it and its own.
LEMMA ChainTxsStep ==
  ASSUME NEW b \in Blocks, b # Genesis
  PROVE  /\ ChainTxs(b) = ChainTxs(Prev[b]) \cup ToSet(vtx[b])
         /\ ChainTxs(b) \in SUBSET Txs /\ ChainTxs(Prev[b]) \in SUBSET Txs
<1>1. \A a \in Blocks : ToSet(vtx[a]) \subseteq Txs
  BY TreeAssumption DEF ToSet
<1>2. \A a : IsAncestor(a, b) <=> a = b \/ IsAncestor(a, Prev[b])
  BY AncestorStep
<1>3. \A c, t : t \in ChainTxs(c) <=> \E a \in Blocks \ {Genesis} : IsAncestor(a, c) /\ t \in ToSet(vtx[a])
  BY DEF ChainTxs
<1>4. \A t : t \in ChainTxs(b) <=> t \in ChainTxs(Prev[b]) \cup ToSet(vtx[b])
  BY <1>2, <1>3
<1>5. \A c : ChainTxs(c) \subseteq Txs
  BY <1>1, <1>3
<1> QED
  BY <1>4, <1>5

\* The transactions up to the k-th of block b.
TxsUpTo(b, k) == ChainTxs(Prev[b]) \cup {vtx[b][m] : m \in 1..k}

\* Every transaction of a block spends what comes before it.
Fits(b) == \A n \in 1..Len(vtx[b]) : ToSet(vin[vtx[b][n]]) \subseteq TxsUpTo(b, n - 1)

\* No transaction is twice on a path.
NoRepeats ==
  \A b \in Blocks \ {Genesis} : \A n \in 1..Len(vtx[b]) : vtx[b][n] \notin TxsUpTo(b, n - 1)

\* All transactions of a block.
LEMMA TxsUpToEnds ==
  ASSUME NEW b \in Blocks, b # Genesis
  PROVE  /\ TxsUpTo(b, 0) = ChainTxs(Prev[b])
         /\ TxsUpTo(b, Len(vtx[b])) = ChainTxs(b)
         /\ Len(vtx[b]) \in Nat
         /\ \A k \in 1..Len(vtx[b]) : /\ TxsUpTo(b, k) = TxsUpTo(b, k - 1) \cup {vtx[b][k]}
                                      /\ TxsUpTo(b, k - 1) \in SUBSET Txs /\ vtx[b][k] \in Txs
<1> DEFINE n == Len(vtx[b])
<1>1. n \in Nat /\ DOMAIN vtx[b] = 1..n /\ \A m \in 1..n : vtx[b][m] \in Txs
  BY TreeAssumption
<1> HIDE DEF n
<1>2. TxsUpTo(b, 0) = ChainTxs(Prev[b])
  <2>1. 1..0 = {}
    OBVIOUS
  <2> QED BY <2>1 DEF TxsUpTo
<1>3. TxsUpTo(b, n) = ChainTxs(b)
  <2>1. ToSet(vtx[b]) = {vtx[b][m] : m \in 1..n}
    BY <1>1 DEF ToSet
  <2> QED BY <2>1, ChainTxsStep DEF TxsUpTo
<1>4. ASSUME NEW k \in 1..n
      PROVE  /\ TxsUpTo(b, k) = TxsUpTo(b, k - 1) \cup {vtx[b][k]}
             /\ TxsUpTo(b, k - 1) \in SUBSET Txs
  <2>1. \A m : m \in 1..k <=> m \in 1..(k - 1) \/ m = k
    BY <1>1
  <2>2. \A m \in 1..(k - 1) : m \in 1..n
    BY <1>1
  <2>3. ChainTxs(Prev[b]) \in SUBSET Txs
    BY ChainTxsStep
  <2>4. TxsUpTo(b, k) = TxsUpTo(b, k - 1) \cup {vtx[b][k]}
    BY <2>1 DEF TxsUpTo
  <2>5. TxsUpTo(b, k - 1) \in SUBSET Txs
    BY <1>1, <2>2, <2>3 DEF TxsUpTo
  <2> QED BY <2>4, <2>5
<1> QED
  BY <1>1, <1>2, <1>3, <1>4 DEF n

\* ConnectBlock: the view it leaves, its links, and that it fails after a failure.
LEMMA ConnectBlockParts ==
  ASSUME NEW s \in Views, NEW b \in Blocks, b # Genesis, NEW p \in Links
  PROVE  LET t == ConnectBlock(s, b, p)
         IN /\ t \in Views
            /\ t.ok => s.ok /\ t.next = [s.next EXCEPT ![b] = p[b], ![Prev[b]] = b]
            /\ t.ok /\ NoRepeats /\ Indexes(s.tx, ChainTxs(Prev[b]))
                 => Indexes(t.tx, ChainTxs(b)) /\ Fits(b)
<1> DEFINE n == Len(vtx[b])
           txs == FoldLeftDomain(LAMBDA t, m : ConnectTx(t, s.tx, b, m), s, vtx[b])
           t == ConnectBlock(s, b, p)
<1>0. n \in Nat /\ Prev[b] \in Blocks
  BY TreeAssumption
<1>1. PICK g \in [0..n -> Views] :
             /\ g[0] = s /\ g[n] = txs
             /\ \A k \in 1..n : g[k] = ConnectTx(g[k - 1], s.tx, b, k)
  BY ConnectTxSteps, Zenon
<1>2. t = CASE ~s.ok -> s
            [] s.ok /\ \E tx \in ToSet(vtx[b]) : s.tx[tx] = Unspent -> Fail(s)
            [] OTHER -> IF txs.ok /\ b \notin BadBlocks
                        THEN [txs EXCEPT !.next[b] = p[b], !.next[Prev[b]] = b]
                        ELSE Fail(txs)
  BY Zenon DEF ConnectBlock
<1> HIDE DEF txs, t
<1>3. ASSUME NEW k \in 0..n, k # n
      PROVE  LET u == vtx[b][k + 1] IN
             /\ g[k] \in Views /\ g[k + 1] \in Views /\ u \in Txs
             /\ g[k + 1].next = g[k].next
             /\ g[k + 1].ok => g[k].ok /\ AddsTx(g[k].tx, g[k + 1].tx, u)
  <2>1. k + 1 \in 1..n /\ (k + 1) - 1 = k /\ k + 1 \in 0..n
    BY <1>0, <1>3
  <2>2. g[k + 1] = ConnectTx(g[k], s.tx, b, k + 1) /\ g[k] \in Views /\ g[k + 1] \in Views
    BY <1>1, <2>1
  <2> QED BY <2>1, <2>2, ConnectTxParts DEF n
<1>4. txs \in Views /\ txs.next = s.next
  <2> DEFINE H == {k \in 0..n : g[k].next = s.next}
  <2>1. 0 \in H
    BY <1>0, <1>1
  <2>2. ASSUME NEW k \in 0..n, k # n, k \in H PROVE k + 1 \in H
    BY <1>0, <1>3, <2>2
  <2>3. \A k \in 0..n : k \in H
    <3> HIDE DEF H
    <3> QED BY <1>0, <2>1, <2>2, UpTo
  <2> QED BY <1>0, <1>1, <2>3
<1>5. t \in Views /\ (t.ok => /\ s.ok /\ txs.ok
                              /\ t.next = [s.next EXCEPT ![b] = p[b], ![Prev[b]] = b]
                              /\ t.tx = txs.tx)
  <2>1. \A v \in Views : Fail(v) \in Views /\ ~Fail(v).ok
    BY DEF Fail, Views
  <2>2. CASE s.ok /\ ~(\E tx \in ToSet(vtx[b]) : s.tx[tx] = Unspent) /\ txs.ok /\ b \notin BadBlocks
    <3> DEFINE x == [txs.next EXCEPT ![b] = p[b], ![Prev[b]] = b]
    <3>1. t = [txs EXCEPT !.next = x]
      BY <1>2, <1>4, <2>2 DEF Views
    <3>2. x \in Links
      BY <1>0, <1>4 DEF Views, Links
    <3> HIDE DEF x
    <3>3. t \in Views /\ t.next = x /\ t.tx = txs.tx
      BY <1>4, <3>1, <3>2 DEF Views
    <3> QED BY <1>4, <2>2, <3>3 DEF x
  <2>3. CASE ~(s.ok /\ ~(\E tx \in ToSet(vtx[b]) : s.tx[tx] = Unspent) /\ txs.ok /\ b \notin BadBlocks)
    <3>1. t \in {Fail(s), Fail(txs)} \/ (t = s /\ ~s.ok)
      BY <1>2, <2>3
    <3> QED BY <1>4, <2>1, <3>1
  <2> QED BY <2>2, <2>3
<1>6. ASSUME t.ok, NoRepeats, Indexes(s.tx, ChainTxs(Prev[b]))
      PROVE  Indexes(t.tx, ChainTxs(b)) /\ Fits(b)
  <2> DEFINE Fine(k) == /\ Indexes(g[k].tx, TxsUpTo(b, k))
                        /\ \A m \in 1..k : ToSet(vin[vtx[b][m]]) \subseteq TxsUpTo(b, m - 1)
             H == {k \in 0..n : g[k].ok => Fine(k)}
  <2>1. 0 \in H
    <3>1. TxsUpTo(b, 0) = ChainTxs(Prev[b]) /\ 1..0 = {}
      BY TxsUpToEnds
    <3> QED BY <1>0, <1>1, <1>6, <3>1
  <2>2. ASSUME NEW k \in 0..n, k # n, k \in H PROVE k + 1 \in H
    <3> DEFINE u == vtx[b][k + 1]
               C == TxsUpTo(b, k)
    <3>1. k + 1 \in 1..n /\ (k + 1) - 1 = k /\ k + 1 \in 0..n
      BY <1>0, <2>2
    <3>2. TxsUpTo(b, k + 1) = C \cup {u} /\ C \in SUBSET Txs /\ u \in Txs /\ u \notin C
      BY <1>6, <3>1, TxsUpToEnds DEF NoRepeats, n
    <3> SUFFICES ASSUME g[k + 1].ok PROVE Fine(k + 1)
      BY <3>1
    <3> HIDE DEF u, C
    <3>3. /\ g[k].ok /\ AddsTx(g[k].tx, g[k + 1].tx, u)
          /\ g[k].tx \in [Txs -> Txs \cup {Absent, Unspent}]
      BY <1>3, <2>2 DEF u, Views
    <3>4. Fine(k)
      BY <2>2, <3>3
    <3>5. Indexes(g[k].tx, C)
      BY <3>4 DEF C
    <3>6. Indexes(g[k + 1].tx, C \cup {u}) /\ ToSet(vin[u]) \subseteq C
      BY <3>2, <3>3, <3>5, IndexAdded
    <3>7. \A m \in 1..(k + 1) : m \in 1..k \/ m = k + 1
      BY <3>1
    <3> QED BY <3>1, <3>2, <3>4, <3>6, <3>7 DEF u, C
  <2>3. \A k \in 0..n : k \in H
    <3> HIDE DEF H
    <3> QED BY <1>0, <2>1, <2>2, UpTo
  <2>4. n \in H /\ g[n].ok /\ t.tx = g[n].tx
    BY <1>0, <1>1, <1>5, <1>6, <2>3
  <2>5. Fine(n)
    BY <2>4
  <2> QED BY <2>4, <2>5, TxsUpToEnds DEF Fits, n
<1> QED
  BY <1>5, <1>6 DEF t

\* DisconnectInputs and UndoTxInfos of one transaction.
Disconnected(s, tx) == UndoTxInfos(DisconnectInputs(s, tx), tx, NoSource)

\* They take it out of the index.
LEMMA DisconnectedParts ==
  ASSUME NEW s \in Views, NEW u \in Txs
  PROVE  LET t == Disconnected(s, u)
         IN t \in Views /\ t.next = s.next /\ (t.ok => s.ok /\ TakesTx(s.tx, t.tx, u))
<1> DEFINE c == DisconnectInputs(s, u)
           t == Disconnected(s, u)
<1>1. /\ c \in Views /\ c.next = s.next
      /\ c.ok => s.ok /\ TakesTx(s.tx, c.tx, u)
  <2>1. CASE s.ok /\ \A o \in ToSet(vin[u]) : s.tx[o] # Absent
    <3> DEFINE x == [o \in Txs |-> IF o = u THEN Absent
                                   ELSE IF o \in ToSet(vin[u]) THEN Unspent ELSE s.tx[o]]
    <3>1. x \in [Txs -> Txs \cup {Absent, Unspent}] /\ TakesTx(s.tx, x, u)
      BY DEF Views, TakesTx
    <3>2. c = [s EXCEPT !.tx = x]
      BY <2>1 DEF DisconnectInputs
    <3> HIDE DEF x
    <3>3. c \in Views /\ c.next = s.next /\ c.tx = x
      BY <3>1, <3>2 DEF Views
    <3> QED BY <2>1, <3>1, <3>3
  <2>2. CASE ~(s.ok /\ \A o \in ToSet(vin[u]) : s.tx[o] # Absent)
    <3>1. c = Fail(s)
      BY <2>2 DEF DisconnectInputs
    <3> QED BY <3>1 DEF Fail, Views
  <2> QED BY <2>1, <2>2
<1> HIDE DEF c
<1>2. c \in SameIndex(c)
  BY <1>1 DEF SameIndex
<1>3. t \in SameIndex(c)
  BY <1>2, UndoTxInfosSame DEF Disconnected, c
<1> HIDE DEF t
<1>4. t \in Views /\ t.tx = c.tx /\ t.next = c.next /\ (t.ok => c.ok)
  BY <1>3 DEF SameIndex
<1>5. t \in Views /\ t.next = s.next /\ (t.ok => s.ok /\ TakesTx(s.tx, t.tx, u))
  BY <1>1, <1>4
<1> QED
  BY <1>5 DEF t

\* The loop over the transactions of a block that is disconnected.
LEMMA DisconnectTxSteps ==
  ASSUME NEW s \in Views, NEW q \in Seq(Txs)
  PROVE  \E g \in [0..Len(q) -> Views] :
           /\ g[0] = s
           /\ g[Len(q)] = FoldLeft(LAMBDA t, tx : UndoTxInfos(DisconnectInputs(t, tx), tx, NoSource), s, q)
           /\ \A k \in 1..Len(q) : g[k] = Disconnected(g[k - 1], q[k])
<1> DEFINE n == Len(q)
           F == [x \in Views \X (1..n) |-> Disconnected(x[1], q[x[2]])]
           iter == CHOOSE f : f = [t \in SUBSET (1..n) |->
                     IF t = {} THEN s
                     ELSE UndoTxInfos(DisconnectInputs(f[t \ {Max(t)}], q[Max(t)]), q[Max(t)], NoSource)]
<1>0. n \in Nat /\ DOMAIN q = 1..n /\ \A i \in 1..n : q[i] \in Txs
  OBVIOUS
<1>1. \A x \in Views, i \in 1..n : Disconnected(x, q[i]) \in Views
  BY <1>0, DisconnectedParts
<1>2. \A x \in Views, i \in 1..n : F[<<x, i>>] = Disconnected(x, q[i])
  BY <1>1, Zenon
<1> HIDE DEF F, n
<1>3. \A t \in SUBSET (1..n) : t \ {Max(t)} \in SUBSET (1..n) /\ (t # {} => Max(t) \in 1..n)
  BY <1>0, MaxIn
<1>f. \A x \in Views, i \in 1..n : F[<<x, i>>] \in Views
  BY <1>1, <1>2
<1>4. PICK f : IsFold(f, 1..n, s, F) /\ \A t \in SUBSET (1..n) : f[t] \in Views
  BY <1>0, <1>f, FoldExistsIn
<1>5. f = [t \in SUBSET (1..n) |->
             IF t = {} THEN s
             ELSE UndoTxInfos(DisconnectInputs(f[t \ {Max(t)}], q[Max(t)]), q[Max(t)], NoSource)]
  <2>1. \A t \in SUBSET (1..n) : t # {} =>
          F[<<f[t \ {Max(t)}], Max(t)>>] = Disconnected(f[t \ {Max(t)}], q[Max(t)])
    BY <1>2, <1>3, <1>4
  <2>2. f = [t \in SUBSET (1..n) |-> IF t = {} THEN s ELSE F[<<f[t \ {Max(t)}], Max(t)>>]]
    BY <1>4, Zenon DEF IsFold
  <2> QED BY <2>1, <2>2 DEF Disconnected
<1>6. iter = [t \in SUBSET (1..n) |->
                IF t = {} THEN s
                ELSE UndoTxInfos(DisconnectInputs(iter[t \ {Max(t)}], q[Max(t)]), q[Max(t)], NoSource)]
  BY <1>5, Zenon
<1> HIDE DEF iter
<1>7. FoldsIn(iter, n, s, F, Views)
  <2>1. iter[{}] = s
    BY <1>6
  <2>2. ASSUME NEW t \in SUBSET (1..n), t # {}, iter[t \ {Max(t)}] \in Views
        PROVE  iter[t] = F[<<iter[t \ {Max(t)}], Max(t)>>]
    <3>1. iter[t] = Disconnected(iter[t \ {Max(t)}], q[Max(t)])
      BY <1>6, <2>2 DEF Disconnected
    <3> QED BY <1>2, <1>3, <2>2, <3>1
  <2> QED BY <1>0, <1>f, <2>1, <2>2 DEF FoldsIn
<1>8. iter[1..n] = FoldLeft(LAMBDA t, tx : UndoTxInfos(DisconnectInputs(t, tx), tx, NoSource), s, q)
  BY <1>0, Zenon DEF FoldLeft, MapThenFoldSet, iter
<1>9. PICK g \in [0..n -> Views] : /\ g[0] = s /\ g[n] = iter[1..n]
                                   /\ \A k \in 1..n : g[k] = F[<<g[k - 1], k>>]
  BY <1>7, FoldSteps
<1>10. \A k \in 1..n : k - 1 \in 0..n
  BY <1>0
<1>11. \A k \in 1..n : g[k] = Disconnected(g[k - 1], q[k])
  BY <1>2, <1>9, <1>10
<1> QED
  BY <1>8, <1>9, <1>11, Zenon DEF n

\* Nothing on a path spends the last transaction of it.
LEMMA LastUnspent ==
  ASSUME NoRepeats, NEW b \in Blocks, b # Genesis, Fits(b), NEW k \in 1..Len(vtx[b]),
         \A w \in ChainTxs(Prev[b]) : ToSet(vin[w]) \subseteq ChainTxs(Prev[b])
  PROVE  /\ \A w \in TxsUpTo(b, k) : vtx[b][k] \notin ToSet(vin[w])
         /\ TxsUpTo(b, k) \ {vtx[b][k]} = TxsUpTo(b, k - 1)
<1> DEFINE u == vtx[b][k]
<1>0. Len(vtx[b]) \in Nat
  BY TxsUpToEnds
<1>1. u \notin TxsUpTo(b, k - 1) /\ TxsUpTo(b, k) = TxsUpTo(b, k - 1) \cup {u}
  BY TxsUpToEnds DEF NoRepeats
<1>2. ASSUME NEW w \in TxsUpTo(b, k) PROVE u \notin ToSet(vin[w])
  <2>1. CASE w \in ChainTxs(Prev[b])
    BY <1>1, <2>1 DEF TxsUpTo
  <2>2. CASE w \notin ChainTxs(Prev[b])
    <3>1. PICK m \in 1..k : w = vtx[b][m]
      BY <2>2 DEF TxsUpTo
    <3>2. m \in 1..Len(vtx[b]) /\ \A i \in 1..(m - 1) : i \in 1..(k - 1)
      BY <1>0
    <3>3. TxsUpTo(b, m - 1) \subseteq TxsUpTo(b, k - 1)
      BY <3>2 DEF TxsUpTo
    <3> QED BY <1>1, <3>1, <3>2, <3>3 DEF Fits
  <2> QED BY <2>1, <2>2
<1> QED
  BY <1>1, <1>2

\* DisconnectBlock: the view it leaves, its links, and that it fails after a
\* failure.
LEMMA DisconnectBlockParts ==
  ASSUME NEW s \in Views, NEW b \in Blocks, b # Genesis
  PROVE  LET t == DisconnectBlock(s, b)
         IN /\ t \in Views
            /\ t.ok => s.ok /\ t.next = [s.next EXCEPT ![Prev[b]] = NoBlock]
            /\ /\ t.ok /\ NoRepeats /\ Indexes(s.tx, ChainTxs(b)) /\ Fits(b)
               /\ \A w \in ChainTxs(Prev[b]) : ToSet(vin[w]) \subseteq ChainTxs(Prev[b])
               => Indexes(t.tx, ChainTxs(Prev[b]))
<1> DEFINE n == Len(vtx[b])
           q == Reverse(vtx[b])
           txs == FoldLeft(LAMBDA t, tx : UndoTxInfos(DisconnectInputs(t, tx), tx, NoSource), s, q)
           t == DisconnectBlock(s, b)
<1>0. n \in Nat /\ Prev[b] \in Blocks /\ \A m \in 1..n : vtx[b][m] \in Txs
  BY TreeAssumption
<1>1. q \in Seq(Txs) /\ Len(q) = n /\ \A k \in 1..n : q[k] = vtx[b][(n - k) + 1]
  <2>1. \A k \in 1..n : (n - k) + 1 \in 1..n
    BY <1>0
  <2> QED BY <1>0, <2>1 DEF Reverse
<1>2. t = IF txs.ok THEN [txs EXCEPT !.next[Prev[b]] = NoBlock] ELSE txs
  BY Zenon DEF DisconnectBlock
<1> HIDE DEF q, n
<1>3. PICK g \in [0..n -> Views] :
             g[0] = s /\ g[n] = txs /\ \A k \in 1..n : g[k] = Disconnected(g[k - 1], q[k])
  BY <1>0, <1>1, DisconnectTxSteps, Zenon
<1> HIDE DEF txs, t
<1>4. ASSUME NEW k \in 0..n, k # n
      PROVE  /\ g[k] \in Views /\ g[k + 1] \in Views /\ g[k + 1].next = g[k].next
             /\ g[k + 1].ok => g[k].ok /\ TakesTx(g[k].tx, g[k + 1].tx, vtx[b][n - k])
  <2>1. k + 1 \in 1..n /\ (k + 1) - 1 = k /\ k + 1 \in 0..n /\ (n - (k + 1)) + 1 = n - k
    BY <1>0, <1>4
  <2>2. g[k + 1] = Disconnected(g[k], vtx[b][n - k]) /\ g[k] \in Views /\ g[k + 1] \in Views
    <3>1. q[k + 1] = vtx[b][n - k]
      BY <1>1, <2>1
    <3>2. g[k + 1] = Disconnected(g[(k + 1) - 1], q[k + 1])
      BY <1>3, <2>1
    <3> QED BY <1>3, <2>1, <3>1, <3>2
  <2>3. vtx[b][n - k] \in Txs
    BY <1>0, <1>4
  <2> QED BY <2>2, <2>3, DisconnectedParts
<1>5. txs \in Views /\ txs.next = s.next
  <2> DEFINE H == {k \in 0..n : g[k].next = s.next}
  <2>1. 0 \in H
    BY <1>0, <1>3
  <2>2. ASSUME NEW k \in 0..n, k # n, k \in H PROVE k + 1 \in H
    BY <1>0, <1>4, <2>2
  <2>3. \A k \in 0..n : k \in H
    <3> HIDE DEF H
    <3> QED BY <1>0, <2>1, <2>2, UpTo
  <2> QED BY <1>0, <1>3, <2>3
<1>s. txs.ok => s.ok
  <2> DEFINE H == {k \in 0..n : g[k].ok => s.ok}
  <2>1. 0 \in H
    BY <1>0, <1>3
  <2>2. ASSUME NEW k \in 0..n, k # n, k \in H PROVE k + 1 \in H
    BY <1>0, <1>4, <2>2
  <2>3. \A k \in 0..n : k \in H
    <3> HIDE DEF H
    <3> QED BY <1>0, <2>1, <2>2, UpTo
  <2> QED BY <1>0, <1>3, <2>3
<1>6. t \in Views /\ (t.ok => /\ s.ok /\ txs.ok /\ t.next = [s.next EXCEPT ![Prev[b]] = NoBlock]
                              /\ t.tx = txs.tx)
  <2>1. CASE txs.ok
    <3> DEFINE x == [txs.next EXCEPT ![Prev[b]] = NoBlock]
    <3>1. t = [txs EXCEPT !.next = x]
      BY <1>2, <1>5, <2>1 DEF Views
    <3>2. x \in Links
      BY <1>0, <1>5 DEF Views, Links
    <3> HIDE DEF x
    <3>3. t \in Views /\ t.next = x /\ t.tx = txs.tx
      BY <1>5, <3>1, <3>2 DEF Views
    <3> QED BY <1>5, <1>s, <2>1, <3>3 DEF x
  <2>2. CASE ~txs.ok
    BY <1>2, <1>5, <2>2
  <2> QED BY <2>1, <2>2
<1>7. ASSUME t.ok, NoRepeats, Indexes(s.tx, ChainTxs(b)), Fits(b),
             \A w \in ChainTxs(Prev[b]) : ToSet(vin[w]) \subseteq ChainTxs(Prev[b])
      PROVE  Indexes(t.tx, ChainTxs(Prev[b]))
  <2> DEFINE H == {k \in 0..n : g[k].ok => Indexes(g[k].tx, TxsUpTo(b, n - k))}
  <2>1. 0 \in H
    <3>1. n - 0 = n /\ TxsUpTo(b, n) = ChainTxs(b)
      BY <1>0, TxsUpToEnds DEF n
    <3> QED BY <1>0, <1>3, <1>7, <3>1
  <2>2. ASSUME NEW k \in 0..n, k # n, k \in H PROVE k + 1 \in H
    <3> DEFINE m == n - k
               u == vtx[b][m]
               C == TxsUpTo(b, m)
    <3>1. m \in 1..n /\ n - (k + 1) = m - 1 /\ k + 1 \in 0..n
      BY <1>0, <2>2
    <3> SUFFICES ASSUME g[k + 1].ok PROVE Indexes(g[k + 1].tx, TxsUpTo(b, n - (k + 1)))
      BY <3>1
    <3>3. /\ g[k].ok /\ TakesTx(g[k].tx, g[k + 1].tx, u)
          /\ g[k].tx \in [Txs -> Txs \cup {Absent, Unspent}]
      BY <1>4, <2>2 DEF Views
    <3> HIDE DEF m
    <3>4. \A w \in C : u \notin ToSet(vin[w])
      BY <1>7, <3>1, LastUnspent DEF n
    <3>5. C \ {u} = TxsUpTo(b, m - 1)
      BY <1>7, <3>1, LastUnspent DEF n
    <3>6. C \in SUBSET Txs /\ u \in C
      BY <3>1, TxsUpToEnds DEF n
    <3>7. Indexes(g[k].tx, C)
      BY <2>2, <3>3 DEF m
    <3> HIDE DEF u, C
    <3>8. Indexes(g[k + 1].tx, C \ {u})
      BY <3>3, <3>4, <3>6, <3>7, IndexTaken
    <3> QED BY <3>1, <3>5, <3>8
  <2>3. \A k \in 0..n : k \in H
    <3> HIDE DEF H
    <3> QED BY <1>0, <2>1, <2>2, UpTo
  <2>4. n \in H /\ g[n].ok /\ t.tx = g[n].tx /\ n - n = 0
    BY <1>0, <1>3, <1>6, <1>7, <2>3
  <2> QED BY <2>4, TxsUpToEnds
<1> QED
  BY <1>6, <1>7 DEF t

-----------------------------------------------------------------------------
(***************************************************************************)
(* Reorganize: the fork, the blocks disconnected down to it, the blocks    *)
(* connected up to the target, and the postponed ones between the target   *)
(* and the new best block.                                                 *)
(***************************************************************************)
\* The loop of Reorganize over the blocks that are disconnected.
LEMMA DisconnectSteps ==
  ASSUME NEW s \in Views, NEW q \in Seq(Blocks \ {Genesis})
  PROVE  \E g \in [0..Len(q) -> Views] :
           /\ g[0] = s /\ g[Len(q)] = FoldLeft(DisconnectBlock, s, q)
           /\ \A k \in 1..Len(q) : g[k] = DisconnectBlock(g[k - 1], q[k])
<1> DEFINE n == Len(q)
           F == [x \in Views \X (1..n) |-> DisconnectBlock(x[1], q[x[2]])]
           iter == CHOOSE f : f = [t \in SUBSET (1..n) |->
                     IF t = {} THEN s ELSE DisconnectBlock(f[t \ {Max(t)}], q[Max(t)])]
<1>0. n \in Nat /\ DOMAIN q = 1..n /\ \A i \in 1..n : q[i] \in Blocks /\ q[i] # Genesis
  OBVIOUS
<1>1. \A x \in Views, i \in 1..n : DisconnectBlock(x, q[i]) \in Views
  BY <1>0, DisconnectBlockParts
<1>2. \A x \in Views, i \in 1..n : F[<<x, i>>] = DisconnectBlock(x, q[i])
  BY <1>1, Zenon
<1> HIDE DEF F, n
<1>3. \A t \in SUBSET (1..n) : t \ {Max(t)} \in SUBSET (1..n) /\ (t # {} => Max(t) \in 1..n)
  BY <1>0, MaxIn
<1>f. \A x \in Views, i \in 1..n : F[<<x, i>>] \in Views
  BY <1>1, <1>2
<1>4. PICK f : IsFold(f, 1..n, s, F) /\ \A t \in SUBSET (1..n) : f[t] \in Views
  BY <1>0, <1>f, FoldExistsIn
<1>5. f = [t \in SUBSET (1..n) |->
             IF t = {} THEN s ELSE DisconnectBlock(f[t \ {Max(t)}], q[Max(t)])]
  <2>1. \A t \in SUBSET (1..n) : t # {} =>
          F[<<f[t \ {Max(t)}], Max(t)>>] = DisconnectBlock(f[t \ {Max(t)}], q[Max(t)])
    BY <1>2, <1>3, <1>4
  <2>2. f = [t \in SUBSET (1..n) |-> IF t = {} THEN s ELSE F[<<f[t \ {Max(t)}], Max(t)>>]]
    BY <1>4, Zenon DEF IsFold
  <2> QED BY <2>1, <2>2
<1>6. iter = [t \in SUBSET (1..n) |->
                IF t = {} THEN s ELSE DisconnectBlock(iter[t \ {Max(t)}], q[Max(t)])]
  BY <1>5, Zenon
<1> HIDE DEF iter
<1>7. FoldsIn(iter, n, s, F, Views)
  <2>1. iter[{}] = s
    BY <1>6
  <2>2. ASSUME NEW t \in SUBSET (1..n), t # {}, iter[t \ {Max(t)}] \in Views
        PROVE  iter[t] = F[<<iter[t \ {Max(t)}], Max(t)>>]
    <3>1. iter[t] = DisconnectBlock(iter[t \ {Max(t)}], q[Max(t)])
      BY <1>6, <2>2
    <3> QED BY <1>2, <1>3, <2>2, <3>1
  <2> QED BY <1>0, <1>f, <2>1, <2>2 DEF FoldsIn
<1>8. iter[1..n] = FoldLeft(DisconnectBlock, s, q)
  BY <1>0, Zenon DEF FoldLeft, MapThenFoldSet, iter
<1>9. PICK g \in [0..n -> Views] : /\ g[0] = s /\ g[n] = iter[1..n]
                                   /\ \A k \in 1..n : g[k] = F[<<g[k - 1], k>>]
  BY <1>7, FoldSteps
<1>10. \A k \in 1..n : k - 1 \in 0..n
  BY <1>0
<1>11. \A k \in 1..n : g[k] = DisconnectBlock(g[k - 1], q[k])
  BY <1>2, <1>9, <1>10
<1> QED
  BY <1>8, <1>9, <1>11, Zenon DEF n

\* The loop over the blocks that are connected.
LEMMA ConnectSteps ==
  ASSUME NEW s \in Views, NEW q \in Seq(Blocks \ {Genesis}), NEW p \in Links
  PROVE  \E g \in [0..Len(q) -> Views] :
           /\ g[0] = s /\ g[Len(q)] = FoldLeft(LAMBDA t, b : ConnectBlock(t, b, p), s, q)
           /\ \A k \in 1..Len(q) : g[k] = ConnectBlock(g[k - 1], q[k], p)
<1> DEFINE n == Len(q)
           F == [x \in Views \X (1..n) |-> ConnectBlock(x[1], q[x[2]], p)]
           iter == CHOOSE f : f = [t \in SUBSET (1..n) |->
                     IF t = {} THEN s ELSE ConnectBlock(f[t \ {Max(t)}], q[Max(t)], p)]
<1>0. n \in Nat /\ DOMAIN q = 1..n /\ \A i \in 1..n : q[i] \in Blocks /\ q[i] # Genesis
  OBVIOUS
<1>1. \A x \in Views, i \in 1..n : ConnectBlock(x, q[i], p) \in Views
  BY <1>0, ConnectBlockParts
<1>2. \A x \in Views, i \in 1..n : F[<<x, i>>] = ConnectBlock(x, q[i], p)
  BY <1>1, Zenon
<1> HIDE DEF F, n
<1>3. \A t \in SUBSET (1..n) : t \ {Max(t)} \in SUBSET (1..n) /\ (t # {} => Max(t) \in 1..n)
  BY <1>0, MaxIn
<1>f. \A x \in Views, i \in 1..n : F[<<x, i>>] \in Views
  BY <1>1, <1>2
<1>4. PICK f : IsFold(f, 1..n, s, F) /\ \A t \in SUBSET (1..n) : f[t] \in Views
  BY <1>0, <1>f, FoldExistsIn
<1>5. f = [t \in SUBSET (1..n) |->
             IF t = {} THEN s ELSE ConnectBlock(f[t \ {Max(t)}], q[Max(t)], p)]
  <2>1. \A t \in SUBSET (1..n) : t # {} =>
          F[<<f[t \ {Max(t)}], Max(t)>>] = ConnectBlock(f[t \ {Max(t)}], q[Max(t)], p)
    BY <1>2, <1>3, <1>4
  <2>2. f = [t \in SUBSET (1..n) |-> IF t = {} THEN s ELSE F[<<f[t \ {Max(t)}], Max(t)>>]]
    BY <1>4, Zenon DEF IsFold
  <2> QED BY <2>1, <2>2
<1>6. iter = [t \in SUBSET (1..n) |->
                IF t = {} THEN s ELSE ConnectBlock(iter[t \ {Max(t)}], q[Max(t)], p)]
  BY <1>5, Zenon
<1> HIDE DEF iter
<1>7. FoldsIn(iter, n, s, F, Views)
  <2>1. iter[{}] = s
    BY <1>6
  <2>2. ASSUME NEW t \in SUBSET (1..n), t # {}, iter[t \ {Max(t)}] \in Views
        PROVE  iter[t] = F[<<iter[t \ {Max(t)}], Max(t)>>]
    <3>1. iter[t] = ConnectBlock(iter[t \ {Max(t)}], q[Max(t)], p)
      BY <1>6, <2>2
    <3> QED BY <1>2, <1>3, <2>2, <3>1
  <2> QED BY <1>0, <1>f, <2>1, <2>2 DEF FoldsIn
<1>8. iter[1..n] = FoldLeft(LAMBDA t, b : ConnectBlock(t, b, p), s, q)
  BY <1>0, Zenon DEF FoldLeft, MapThenFoldSet, iter
<1>9. PICK g \in [0..n -> Views] : /\ g[0] = s /\ g[n] = iter[1..n]
                                   /\ \A k \in 1..n : g[k] = F[<<g[k - 1], k>>]
  BY <1>7, FoldSteps
<1>10. \A k \in 1..n : k - 1 \in 0..n
  BY <1>0
<1>11. \A k \in 1..n : g[k] = ConnectBlock(g[k - 1], q[k], p)
  BY <1>2, <1>9, <1>10
<1> QED
  BY <1>8, <1>9, <1>11, Zenon DEF n

\* Every block of the path to c, but the genesis block, fits.
Ordered(c) == \A a \in Blocks \ {Genesis} : IsAncestor(a, c) => Fits(a)

\* A view whose transaction index is that of the path to c.
IndexedTo(v, c) == Indexes(v.tx, ChainTxs(c)) /\ Ordered(c)

\* Nothing on such a path spends what is not on it.
LEMMA OrderedCloses ==
  ASSUME NEW c \in Blocks, Ordered(c)
  PROVE  \A w \in ChainTxs(c) : ToSet(vin[w]) \subseteq ChainTxs(c)
<1> SUFFICES ASSUME NEW w \in ChainTxs(c) PROVE ToSet(vin[w]) \subseteq ChainTxs(c)
  OBVIOUS
<1>1. PICK a \in Blocks \ {Genesis} : IsAncestor(a, c) /\ w \in ToSet(vtx[a])
  BY DEF ChainTxs
<1>2. Len(vtx[a]) \in Nat /\ DOMAIN vtx[a] = 1..Len(vtx[a])
  BY TreeAssumption
<1>3. PICK n \in 1..Len(vtx[a]) : w = vtx[a][n]
  BY <1>1, <1>2 DEF ToSet
<1>4. ToSet(vin[w]) \subseteq TxsUpTo(a, n - 1)
  BY <1>1, <1>3 DEF Ordered, Fits
<1>5. TxsUpTo(a, n - 1) \subseteq ChainTxs(a)
  <2>1. TxsUpTo(a, Len(vtx[a])) = ChainTxs(a) /\ \A m \in 1..(n - 1) : m \in 1..Len(vtx[a])
    BY <1>2, TxsUpToEnds
  <2> QED BY <2>1 DEF TxsUpTo
<1>6. ChainTxs(a) \subseteq ChainTxs(c)
  <2>1. \A d : IsAncestor(d, a) => IsAncestor(d, c)
    BY <1>1, AncestorChain
  <2> QED BY <2>1 DEF ChainTxs
<1> QED
  BY <1>4, <1>5, <1>6

\* One block disconnected.
LEMMA DisconnectStep ==
  ASSUME NEW v \in Views, NEW b \in Blocks, b # Genesis, DisconnectBlock(v, b).ok
  PROVE  LET t == DisconnectBlock(v, b)
         IN /\ v.ok
            /\ Prev[b] # Genesis => t.next[Genesis] = v.next[Genesis]
            /\ v.next = LinksOf(b) => t.next = LinksOf(Prev[b])
            /\ NoRepeats /\ IndexedTo(v, b) => IndexedTo(t, Prev[b])
<1> DEFINE t == DisconnectBlock(v, b)
<1>0. Prev[b] \in Blocks /\ v.ok /\ t.next = [v.next EXCEPT ![Prev[b]] = NoBlock]
  BY TreeAssumption, DisconnectBlockParts
<1>a. Prev[b] # Genesis => t.next[Genesis] = v.next[Genesis]
  <2>1. v.next \in Links /\ Genesis \in Blocks
    BY TreeAssumption DEF Views
  <2> QED BY <1>0, <2>1 DEF Links
<1>1. v.next = LinksOf(b) => t.next = LinksOf(Prev[b])
  BY <1>0, LinkCut
<1>2. ASSUME NoRepeats, IndexedTo(v, b) PROVE IndexedTo(t, Prev[b])
  <2>1. Ordered(Prev[b]) /\ Fits(b)
    BY <1>2, AncestorStep, AncestorSelf DEF IndexedTo, Ordered
  <2>2. \A w \in ChainTxs(Prev[b]) : ToSet(vin[w]) \subseteq ChainTxs(Prev[b])
    BY <1>0, <2>1, OrderedCloses
  <2>3. Indexes(v.tx, ChainTxs(b))
    BY <1>2 DEF IndexedTo
  <2>4. Indexes(t.tx, ChainTxs(Prev[b]))
    BY <1>2, <2>1, <2>2, <2>3, DisconnectBlockParts
  <2> QED BY <2>1, <2>4 DEF IndexedTo
<1> QED
  BY <1>0, <1>1, <1>2, <1>a

\* One block connected.
LEMMA ConnectStep ==
  ASSUME NEW v \in Views, NEW b \in Blocks, b # Genesis, NEW p \in Links, ConnectBlock(v, b, p).ok
  PROVE  LET t == ConnectBlock(v, b, p)
         IN /\ v.ok
            /\ v.next = LinksOf(Prev[b]) /\ p[b] = NoBlock => t.next = LinksOf(b)
            /\ NoRepeats /\ IndexedTo(v, Prev[b]) => IndexedTo(t, b)
<1> DEFINE t == ConnectBlock(v, b, p)
<1>0. Prev[b] \in Blocks /\ v.ok /\ t.next = [v.next EXCEPT ![b] = p[b], ![Prev[b]] = b]
  <2>1. Prev[b] \in Blocks
    BY TreeAssumption
  <2> QED BY <2>1, ConnectBlockParts, SMTT(60)
<1>1. v.next = LinksOf(Prev[b]) /\ p[b] = NoBlock => t.next = LinksOf(b)
  BY <1>0, LinkAdded
<1>2. ASSUME NoRepeats, IndexedTo(v, Prev[b]) PROVE IndexedTo(t, b)
  <2>1. Indexes(t.tx, ChainTxs(b)) /\ Fits(b)
    BY <1>2, ConnectBlockParts DEF IndexedTo
  <2>2. Ordered(b)
    BY <1>2, <2>1, AncestorStep DEF IndexedTo, Ordered
  <2> QED BY <2>1, <2>2 DEF IndexedTo
<1> QED
  BY <1>0, <1>1, <1>2

\* A sequence is one over every set that holds its elements.
LEMMA SeqIn ==
  ASSUME NEW S, NEW T, NEW q \in Seq(S), \A i \in 1..Len(q) : q[i] \in T
  PROVE  q \in Seq(T)
<1>1. Len(q) \in Nat /\ q = [i \in 1..Len(q) |-> q[i]]
  OBVIOUS
<1>2. q \in [1..Len(q) -> T]
  BY <1>1
<1> QED
  BY <1>1, <1>2

\* The blocks Reorganize disconnects and connects, one by one: the paths part at
\* their k-th block.
LEMMA Branches ==
  ASSUME NEW best \in Blocks, NEW new \in Blocks
  PROVE  \E k \in Nat : LET m == Len(ChainTo[best])
                            n == Len(ChainTo[new])
                            gone == vDisconnect(best, new)
                            added == vConnect(best, new)
         IN /\ k \in 1..m /\ k \in 1..n /\ ChainTo[best][k] = ChainTo[new][k]
            /\ gone \in Seq(Blocks \ {Genesis}) /\ Len(gone) = m - k
            /\ added \in Seq(Blocks \ {Genesis}) /\ Len(added) = n - k
            /\ \A i \in 1..(m - k) : gone[i] = ChainTo[best][(m - i) + 1]
            /\ \A i \in 1..(n - k) : added[i] = ChainTo[new][k + i] /\ ~IsAncestor(added[i], best)
<1> DEFINE m == Len(ChainTo[best])
           n == Len(ChainTo[new])
           x == ChainTo[best]
           y == ChainTo[new]
<1>1. PICK k \in Nat : Parts(new, best, k) /\ Beyond(new, best) = SubSeq(x, k + 1, m)
  BY BeyondIs
<1>2. PICK j \in Nat : Parts(best, new, j) /\ Beyond(best, new) = SubSeq(y, j + 1, n)
  BY BeyondIs
<1>3. j = k /\ x[k] = y[k]
  BY <1>1, <1>2, SamePart
<1>4. m \in Nat /\ n \in Nat /\ k \in 1..m /\ k \in 1..n /\ x \in Seq(Blocks) /\ y \in Seq(Blocks)
  BY <1>1, <1>2, <1>3, PathParts DEF Parts
<1>5. /\ \A i \in 1..(m - k) : (m - i) + 1 \in 2..m
      /\ \A i \in 1..(n - k) : k + i \in 2..n /\ k + i \in 1..n /\ ~(k + i <= k)
  BY <1>4
<1>6. /\ \A i \in 2..m : x[i] \in Blocks \ {Genesis}
      /\ \A i \in 2..n : y[i] \in Blocks \ {Genesis}
  <2>1. (\A i \in 2..m : x[i] # Genesis) /\ (\A i \in 2..n : y[i] # Genesis)
    BY PathLinks
  <2>2. (\A i \in 2..m : x[i] \in Blocks) /\ (\A i \in 2..n : y[i] \in Blocks)
    BY <1>4
  <2> QED BY <2>1, <2>2
<1> DEFINE d == SubSeq(x, k + 1, m)
           a == SubSeq(y, k + 1, n)
           gone == Reverse(d)
<1>a. \A i \in 1..(n - k) : ~IsAncestor(y[k + i], best)
  BY <1>2, <1>3, <1>5 DEF Parts
<1>b. m = Len(x) /\ n = Len(y)
  OBVIOUS
<1> HIDE DEF m, n, x, y
<1>7. /\ Len(d) = m - k /\ DOMAIN d = 1..(m - k) /\ \A i \in 1..(m - k) : d[i] = x[k + i]
      /\ Len(a) = n - k /\ DOMAIN a = 1..(n - k) /\ \A i \in 1..(n - k) : a[i] = y[k + i]
      /\ d \in Seq(Blocks) /\ a \in Seq(Blocks)
  BY <1>4, <1>b
<1>8. a \in Seq(Blocks \ {Genesis})
  <2>1. \A i \in 1..Len(a) : a[i] \in Blocks \ {Genesis}
    BY <1>4, <1>5, <1>6, <1>7
  <2> HIDE DEF a
  <2> QED BY <1>7, <2>1, SeqIn
<1>9. Len(gone) = m - k /\ DOMAIN gone = 1..(m - k)
      /\ \A i \in 1..(m - k) : gone[i] = x[(m - i) + 1]
  <2> DEFINE l == m - k
  <2>1. l \in Nat /\ Len(d) = l
    BY <1>4, <1>7
  <2>2. \A i \in 1..l : (l - i) + 1 \in 1..l /\ k + ((l - i) + 1) = (m - i) + 1
    BY <1>4
  <2>e. \A i \in 1..l : d[i] = x[k + i]
    BY <1>7
  <2> HIDE DEF l, d
  <2>3. Len(gone) = l /\ DOMAIN gone = 1..l /\ \A i \in 1..l : gone[i] = d[(l - i) + 1]
    BY <2>1 DEF Reverse
  <2> HIDE DEF gone
  <2>4. ASSUME NEW i \in 1..l PROVE gone[i] = x[(m - i) + 1]
    <3> DEFINE r == (l - i) + 1
    <3>1. r \in 1..l /\ k + r = (m - i) + 1 /\ gone[i] = d[r]
      BY <2>2, <2>3
    <3> HIDE DEF r
    <3> QED BY <2>e, <3>1
  <2> QED BY <2>3, <2>4 DEF l
<1>10. gone \in Seq(Blocks \ {Genesis})
  <2>1. \A i \in 1..(m - k) : gone[i] \in Blocks \ {Genesis}
    BY <1>5, <1>6, <1>9
  <2>2. gone = [i \in 1..(m - k) |-> gone[i]] /\ m - k \in Nat
    BY <1>4, <1>7, <1>9 DEF Reverse
  <2> HIDE DEF gone
  <2> QED BY <2>1, <2>2
<1>11. vDisconnect(best, new) = gone /\ vConnect(best, new) = a
  BY <1>1, <1>2, <1>3 DEF vDisconnect, vConnect, m, n, x, y
<1> HIDE DEF d, a, gone
<1> QED
  BY <1>3, <1>4, <1>7, <1>8, <1>9, <1>10, <1>11, <1>a DEF m, n, x, y

\* The database part of Reorganize takes the view from one path to the other: its
\* links, its index, and that the genesis block keeps a successor.
LEMMA ReorganizedParts ==
  ASSUME NEW s \in Views, NEW best \in Blocks, NEW new \in Blocks, NEW p \in Links
  PROVE  LET t == Reorganized(s, best, new, p)
         IN /\ t \in Views
            /\ t.ok =>
                 /\ s.ok
                 /\ s.next = LinksOf(best) /\ p = LinksOf(best) => t.next = LinksOf(new)
                 /\ NoRepeats /\ IndexedTo(s, best) => IndexedTo(t, new)
                 /\ new # Genesis /\ (best = Genesis \/ s.next[Genesis] # NoBlock)
                      => t.next[Genesis] # NoBlock
<1> DEFINE m == Len(ChainTo[best])
           n == Len(ChainTo[new])
           x == ChainTo[best]
           y == ChainTo[new]
           gone == vDisconnect(best, new)
           added == vConnect(best, new)
           mid == FoldLeft(DisconnectBlock, s, gone)
           t == Reorganized(s, best, new, p)
<1>1. PICK k \in Nat :
             /\ k \in 1..m /\ k \in 1..n /\ x[k] = y[k]
             /\ gone \in Seq(Blocks \ {Genesis}) /\ Len(gone) = m - k
             /\ added \in Seq(Blocks \ {Genesis}) /\ Len(added) = n - k
             /\ \A i \in 1..(m - k) : gone[i] = x[(m - i) + 1]
             /\ \A i \in 1..(n - k) : added[i] = y[k + i] /\ ~IsAncestor(added[i], best)
  BY Branches
<1>2. m \in Nat /\ n \in Nat /\ x[m] = best /\ y[n] = new /\ x[1] = Genesis /\ y[1] = Genesis
      /\ (\A i \in 1..m : x[i] \in Blocks) /\ (\A i \in 1..n : y[i] \in Blocks)
  BY PathParts
<1>3. /\ \A i \in 2..m : x[i] # Genesis /\ Prev[x[i]] = x[i - 1]
      /\ \A i \in 2..n : y[i] # Genesis /\ Prev[y[i]] = y[i - 1]
  BY PathLinks
<1>4. t = FoldLeft(LAMBDA v, b : ConnectBlock(v, b, p), mid, added)
  BY Zenon DEF Reorganized
<1> DEFINE d == m - k
           e == n - k
<1>6. d \in Nat /\ e \in Nat /\ m - 0 = m /\ m - d = k /\ k + 0 = k /\ k + e = n
  BY <1>1, <1>2
<1>a. Len(gone) = d /\ Len(added) = e
  BY <1>1
<1>b. /\ k \in 1..m /\ k \in 1..n /\ x[k] = y[k] /\ d = m - k /\ e = n - k
      /\ gone \in Seq(Blocks \ {Genesis}) /\ added \in Seq(Blocks \ {Genesis})
      /\ \A i \in 1..d : gone[i] = x[(m - i) + 1]
      /\ \A i \in 1..e : added[i] = y[k + i] /\ ~IsAncestor(added[i], best)
  BY <1>1
<1>n. /\ k \in Nat /\ m \in Nat /\ n \in Nat /\ 1 <= k /\ k <= m /\ k <= n
      /\ d = m - k /\ e = n - k
  BY <1>2, <1>b
<1>c. best = Genesis => m = 1
  <2>1. ChainTo[Genesis] = <<Genesis>> /\ Len(<<Genesis>>) = 1
    BY ChainToPath
  <2> QED BY <2>1
<1> HIDE DEF d, e, m, n, x, y
<1>5. PICK g \in [0..Len(gone) -> Views] :
             /\ g[0] = s /\ g[Len(gone)] = mid
             /\ \A i \in 1..Len(gone) : g[i] = DisconnectBlock(g[i - 1], gone[i])
  <2> HIDE DEF gone
  <2> QED BY <1>b, DisconnectSteps
<1> HIDE DEF mid, gone, added, t
<1>7. g \in [0..d -> Views] /\ g[0] = s /\ g[d] = mid /\ mid \in Views
      /\ \A i \in 1..d : g[i] = DisconnectBlock(g[i - 1], gone[i])
  BY <1>5, <1>6, <1>a
<1>8. PICK h \in [0..e -> Views] :
             /\ h[0] = mid /\ h[e] = t
             /\ \A i \in 1..e : h[i] = ConnectBlock(h[i - 1], added[i], p)
  <2>1. \E h \in [0..Len(added) -> Views] :
             /\ h[0] = mid /\ h[Len(added)] = t
             /\ \A i \in 1..Len(added) : h[i] = ConnectBlock(h[i - 1], added[i], p)
    <3>1. mid \in Views /\ added \in Seq(Blocks \ {Genesis})
      BY <1>7, <1>b
    <3> QED BY <1>4, <3>1, ConnectSteps, ZenonT(60)
  <2> QED BY <1>a, <2>1
\* The disconnected blocks, last to first.
<1>9. ASSUME NEW i \in 0..d, i # d
      PROVE  LET b == x[m - i] IN
             /\ m - i \in 2..m /\ b \in Blocks /\ b # Genesis /\ Prev[b] = x[m - (i + 1)]
             /\ i + 1 \in 0..d
             /\ g[i] \in Views /\ g[i + 1] \in Views /\ g[i + 1] = DisconnectBlock(g[i], b)
  <2>1. m - i \in 2..m /\ m - i \in 1..m /\ (m - i) - 1 = m - (i + 1) /\ i + 1 \in 1..d
        /\ i + 1 \in 0..d /\ (i + 1) - 1 = i /\ (m - (i + 1)) + 1 = m - i
    BY <1>n, <1>9
  <2>2. gone[i + 1] = x[m - i]
    BY <1>b, <2>1
  <2> QED BY <1>2, <1>3, <1>7, <2>1, <2>2
<1>10. ASSUME NEW i \in 0..e, i # e
       PROVE  LET b == y[k + (i + 1)] IN
              /\ k + (i + 1) \in 2..n /\ b \in Blocks /\ b # Genesis /\ Prev[b] = y[k + i]
              /\ i + 1 \in 0..e /\ ~IsAncestor(b, best)
              /\ h[i] \in Views /\ h[i + 1] \in Views /\ h[i + 1] = ConnectBlock(h[i], b, p)
  <2>1. k + (i + 1) \in 2..n /\ k + (i + 1) \in 1..n /\ (k + (i + 1)) - 1 = k + i /\ i + 1 \in 1..e
        /\ i + 1 \in 0..e /\ (i + 1) - 1 = i
    BY <1>n, <1>10
  <2>2. added[i + 1] = y[k + (i + 1)] /\ ~IsAncestor(added[i + 1], best)
    BY <1>b, <2>1
  <2> QED BY <1>2, <1>3, <1>8, <2>1, <2>2
<1>11. t \in Views
  BY <1>6, <1>8
<1> SUFFICES ASSUME t.ok
             PROVE  /\ s.ok
                    /\ s.next = LinksOf(best) /\ p = LinksOf(best) => t.next = LinksOf(new)
                    /\ NoRepeats /\ IndexedTo(s, best) => IndexedTo(t, new)
                    /\ new # Genesis /\ (best = Genesis \/ s.next[Genesis] # NoBlock)
                         => t.next[Genesis] # NoBlock
  BY <1>11 DEF t
\* All views along the way are good when the last one is.
<1>13. ASSUME NEW i \in 0..e PROVE h[i].ok
  <2> DEFINE H == {j \in 0..e : h[e - j].ok}
  <2>1. 0 \in H
    BY <1>6, <1>8
  <2>2. ASSUME NEW j \in 0..e, j # e, j \in H PROVE j + 1 \in H
    <3> DEFINE l == e - (j + 1)
    <3>1. l \in 0..e /\ l # e /\ l + 1 = e - j /\ j + 1 \in 0..e
      BY <1>6, <2>2
    <3> HIDE DEF l
    <3>2. h[l + 1].ok
      BY <2>2, <3>1
    <3>3. h[l].ok
      BY <1>10, <3>1, <3>2, ConnectStep
    <3> QED BY <3>1, <3>3 DEF l
  <2>3. \A j \in 0..e : j \in H
    <3> HIDE DEF H
    <3> QED BY <1>6, <2>1, <2>2, UpTo
  <2>4. e - i \in 0..e /\ e - (e - i) = i
    BY <1>6
  <2> QED BY <2>3, <2>4
<1>14. ASSUME NEW i \in 0..d PROVE g[i].ok
  <2> DEFINE H == {j \in 0..d : g[d - j].ok}
  <2>1. 0 \in H
    <3>1. d - 0 = d /\ 0 \in 0..e /\ 0 \in 0..d
      BY <1>6
    <3> QED BY <1>7, <1>8, <1>13, <3>1
  <2>2. ASSUME NEW j \in 0..d, j # d, j \in H PROVE j + 1 \in H
    <3> DEFINE l == d - (j + 1)
    <3>1. l \in 0..d /\ l # d /\ l + 1 = d - j /\ j + 1 \in 0..d
      BY <1>6, <2>2
    <3> HIDE DEF l
    <3>2. g[l + 1].ok
      BY <2>2, <3>1
    <3>3. g[l].ok
      BY <1>9, <3>1, <3>2, DisconnectStep, SMTT(40)
    <3> QED BY <3>1, <3>3 DEF l
  <2>3. \A j \in 0..d : j \in H
    <3> HIDE DEF H
    <3> QED BY <1>6, <2>1, <2>2, UpTo
  <2>4. d - i \in 0..d /\ d - (d - i) = i
    BY <1>6
  <2> QED BY <2>3, <2>4
<1>15. s.ok
  BY <1>6, <1>7, <1>14
<1>16. ASSUME s.next = LinksOf(best), p = LinksOf(best) PROVE t.next = LinksOf(new)
  <2> DEFINE H == {i \in 0..d : g[i].next = LinksOf(x[m - i])}
             K == {i \in 0..e : h[i].next = LinksOf(y[k + i])}
  <2>1. 0 \in H
    BY <1>2, <1>6, <1>7, <1>16
  <2>2. ASSUME NEW i \in 0..d, i # d, i \in H PROVE i + 1 \in H
    <3>1. i + 1 \in 0..d /\ g[i + 1].ok /\ g[i].next = LinksOf(x[m - i])
      BY <1>9, <1>14, <2>2
    <3>2. g[i + 1].next = LinksOf(x[m - (i + 1)])
      BY <1>9, <2>2, <3>1, DisconnectStep
    <3> QED BY <3>1, <3>2
  <2>3. \A i \in 0..d : i \in H
    <3> HIDE DEF H
    <3> QED BY <1>6, <2>1, <2>2, UpTo
  <2>4. 0 \in K
    BY <1>b, <1>6, <1>7, <1>8, <2>3
  <2>5. ASSUME NEW i \in 0..e, i # e, i \in K PROVE i + 1 \in K
    <3> DEFINE b == y[k + (i + 1)]
    <3>1. i + 1 \in 0..e /\ h[i + 1].ok /\ h[i].next = LinksOf(Prev[b])
      BY <1>10, <1>13, <2>5
    <3>2. p[b] = NoBlock
      BY <1>10, <1>16, <2>5, NoLinkBeyond
    <3>3. h[i + 1].next = LinksOf(b)
      BY <1>10, <2>5, <3>1, <3>2, ConnectStep
    <3> QED BY <3>1, <3>3
  <2>6. \A i \in 0..e : i \in K
    <3> HIDE DEF K
    <3> QED BY <1>6, <2>4, <2>5, UpTo
  <2>7. e \in 0..e /\ y[k + e] = new
    BY <1>2, <1>6
  <2>8. h[e].next = LinksOf(y[k + e])
    BY <2>6, <2>7
  <2> QED BY <1>8, <2>7, <2>8
<1>17. ASSUME NoRepeats, IndexedTo(s, best) PROVE IndexedTo(t, new)
  <2> DEFINE H == {i \in 0..d : IndexedTo(g[i], x[m - i])}
             K == {i \in 0..e : IndexedTo(h[i], y[k + i])}
  <2>1. 0 \in H
    BY <1>2, <1>6, <1>7, <1>17
  <2>2. ASSUME NEW i \in 0..d, i # d, i \in H PROVE i + 1 \in H
    <3>1. i + 1 \in 0..d /\ g[i + 1].ok /\ IndexedTo(g[i], x[m - i])
      BY <1>9, <1>14, <2>2
    <3>2. IndexedTo(g[i + 1], x[m - (i + 1)])
      BY <1>9, <1>17, <2>2, <3>1, DisconnectStep
    <3> QED BY <3>1, <3>2
  <2>3. \A i \in 0..d : i \in H
    <3> HIDE DEF H
    <3> QED BY <1>6, <2>1, <2>2, UpTo
  <2>4. 0 \in K
    BY <1>b, <1>6, <1>7, <1>8, <2>3
  <2>5. ASSUME NEW i \in 0..e, i # e, i \in K PROVE i + 1 \in K
    <3> DEFINE b == y[k + (i + 1)]
    <3>1. i + 1 \in 0..e /\ h[i + 1].ok /\ IndexedTo(h[i], Prev[b])
      BY <1>10, <1>13, <2>5
    <3>3. IndexedTo(h[i + 1], b)
      BY <1>10, <1>17, <2>5, <3>1, ConnectStep
    <3> QED BY <3>1, <3>3
  <2>6. \A i \in 0..e : i \in K
    <3> HIDE DEF K
    <3> QED BY <1>6, <2>4, <2>5, UpTo
  <2>7. e \in 0..e /\ y[k + e] = new
    BY <1>2, <1>6
  <2>8. IndexedTo(h[e], y[k + e])
    BY <2>6, <2>7
  <2> QED BY <1>8, <2>7, <2>8
<1>18. ASSUME new # Genesis, best = Genesis \/ s.next[Genesis] # NoBlock
       PROVE  t.next[Genesis] # NoBlock
  <2>0. Genesis \in Blocks /\ NoBlock \notin Blocks
    BY TreeAssumption
  <2>1. ASSUME NEW i \in 0..e, i # e PROVE /\ h[i].next[Genesis] # NoBlock \/ y[k + i] = Genesis
                                               => h[i + 1].next[Genesis] # NoBlock
    <3> DEFINE b == y[k + (i + 1)]
    <3>1. h[i + 1].ok /\ b \in Blocks /\ b # Genesis /\ Prev[b] = y[k + i] /\ Prev[b] \in Blocks
          /\ h[i] \in Views /\ h[i + 1] = ConnectBlock(h[i], b, p)
      BY <1>10, <1>13, <2>1, TreeAssumption
    <3> HIDE DEF b
    <3>2. h[i + 1].next = [h[i].next EXCEPT ![b] = p[b], ![Prev[b]] = b]
      BY <3>1, ConnectBlockParts
    <3>3. h[i].next \in Links
      BY <3>1 DEF Views
    <3> QED BY <2>0, <3>1, <3>2, <3>3 DEF Links
  <2>2. CASE k = 1
    <3>1. e # 0
      BY <1>2, <1>18, <2>2
    <3> DEFINE K == {i \in 0..e : i # 0 => h[i].next[Genesis] # NoBlock}
    <3>2. 0 \in K
      BY <1>6
    <3>3. ASSUME NEW i \in 0..e, i # e, i \in K PROVE i + 1 \in K
      <4>1. i + 1 \in 0..e
        BY <1>10, <3>3
      <4>2. y[k + 0] = Genesis
        BY <1>2, <2>2
      <4> QED BY <2>1, <3>3, <4>1, <4>2
    <3>4. \A i \in 0..e : i \in K
      <4> HIDE DEF K
      <4> QED BY <1>6, <3>2, <3>3, UpTo
    <3> QED BY <1>6, <1>8, <3>1, <3>4
  <2>3. CASE k # 1
    <3>0. best # Genesis
      BY <1>b, <1>c, <2>3
    <3> DEFINE H == {i \in 0..d : g[i].next[Genesis] # NoBlock}
    <3>1. 0 \in H
      BY <1>6, <1>7, <1>18, <3>0
    <3>2. ASSUME NEW i \in 0..d, i # d, i \in H PROVE i + 1 \in H
      <4> DEFINE b == x[m - i]
      <4>1. /\ i + 1 \in 0..d /\ g[i + 1].ok /\ b \in Blocks /\ b # Genesis
            /\ Prev[b] = x[m - (i + 1)] /\ g[i] \in Views /\ g[i + 1] = DisconnectBlock(g[i], b)
        BY <1>9, <1>14, <3>2
      <4>2. m - (i + 1) \in 2..m
        BY <1>n, <2>3, <3>2
      <4>3. Prev[b] # Genesis /\ Prev[b] \in Blocks
        BY <1>3, <4>1, <4>2, TreeAssumption
      <4> HIDE DEF b
      <4>4. g[i + 1].next[Genesis] = g[i].next[Genesis]
        BY <4>1, <4>3, DisconnectStep
      <4> QED BY <3>2, <4>1, <4>4
    <3>3. \A i \in 0..d : i \in H
      <4> HIDE DEF H
      <4> QED BY <1>6, <3>1, <3>2, UpTo
    <3> DEFINE K == {i \in 0..e : h[i].next[Genesis] # NoBlock}
    <3>4. 0 \in K
      BY <1>6, <1>7, <1>8, <3>3
    <3>5. ASSUME NEW i \in 0..e, i # e, i \in K PROVE i + 1 \in K
      BY <1>10, <2>1, <3>5
    <3>6. \A i \in 0..e : i \in K
      <4> HIDE DEF K
      <4> QED BY <1>6, <3>4, <3>5, UpTo
    <3> QED BY <1>6, <1>8, <3>6
  <2> QED BY <2>2, <2>3
<1> QED
  BY <1>15, <1>16, <1>17, <1>18

\* bnChainTrust is what its definition says, and least for the genesis block.
LEMMA ChainTrust ==
  /\ bnChainTrust \in [Blocks -> Nat]
  /\ \A b \in Blocks : bnChainTrust[Genesis] <= bnChainTrust[b]
<1> DEFINE F == [x \in Nat \X Blocks |-> BlockTrust[x[2]] + x[1]]
           base == BlockTrust[Genesis]
<1>1. base \in Nat /\ Genesis \in Blocks /\ \A b \in Blocks : BlockTrust[b] \in Nat
  BY TreeAssumption
<1>2. \A x \in Nat, b \in Blocks : F[<<x, b>>] = BlockTrust[b] + x /\ BlockTrust[b] + x \in Nat
  BY <1>1
<1> HIDE DEF F, base
<1>3. PICK f \in [Blocks -> Nat] : Follows(f, Blocks, base, F)
  <2>1. \A x \in Nat, b \in Blocks \ {Genesis} : F[<<x, b>>] \in Nat
    BY <1>2
  <2> QED BY <1>1, <2>1, TreeRecursion
<1>4. f = [b \in Blocks |-> BlockTrust[b] + (IF b = Genesis THEN 0 ELSE f[Prev[b]])]
  <2>0. \A b \in Blocks : b # Genesis => Prev[b] \in Blocks
    BY TreeAssumption
  <2>1. ASSUME NEW b \in Blocks
        PROVE  f[b] = BlockTrust[b] + (IF b = Genesis THEN 0 ELSE f[Prev[b]])
    <3>1. f[b] = IF b = Genesis THEN base ELSE F[<<f[Prev[b]], b>>]
      BY <1>3 DEF Follows
    <3>2. CASE b = Genesis
      BY <1>1, <3>1, <3>2 DEF base
    <3>3. CASE b # Genesis
      BY <1>2, <1>3, <2>0, <3>1, <3>3
    <3> QED BY <3>2, <3>3
  <2>2. f = [b \in Blocks |-> f[b]]
    BY <1>3
  <2> QED BY <2>1, <2>2
<1>5. bnChainTrust = [b \in Blocks |->
                        BlockTrust[b] + (IF b = Genesis THEN 0 ELSE bnChainTrust[Prev[b]])]
  BY <1>4, Zenon DEF bnChainTrust
<1> DEFINE g == bnChainTrust
           Fine(b) == g[b] \in Nat /\ g[Genesis] <= g[b]
           S == {b \in Blocks : ~Fine(b)}
<1>6. \A b \in Blocks : g[b] = BlockTrust[b] + (IF b = Genesis THEN 0 ELSE g[Prev[b]])
  BY <1>5, Zenon
<1>7. DOMAIN g = Blocks /\ g = [b \in DOMAIN g |-> g[b]]
  BY <1>5
<1> HIDE DEF g
<1>8. S = {}
  <2> SUFFICES ASSUME S # {} PROVE FALSE
    OBVIOUS
  <2>1. S \in SUBSET Blocks
    OBVIOUS
  <2>2. PICK b \in S : b = Genesis \/ Prev[b] \notin S
    <3> HIDE DEF S
    <3> QED BY <2>1, TreeAssumption
  <2>3. b \in Blocks /\ (b # Genesis => Prev[b] \in Blocks) /\ BlockTrust[b] \in Nat
    BY <1>1, TreeAssumption
  <2>4. g[b] = BlockTrust[b] + (IF b = Genesis THEN 0 ELSE g[Prev[b]])
    BY <1>6, <2>3
  <2>5. CASE b = Genesis
    BY <2>2, <2>3, <2>4, <2>5
  <2>6. CASE b # Genesis
    <3>1. g[Prev[b]] \in Nat /\ g[Genesis] <= g[Prev[b]]
      BY <2>2, <2>3, <2>6
    <3>2. g[Genesis] \in Nat
      <4>1. g[Genesis] = BlockTrust[Genesis] + 0
        BY <1>1, <1>6
      <4> QED BY <1>1, <4>1
    <3> QED BY <2>2, <2>3, <2>4, <2>6, <3>1, <3>2
  <2> QED BY <2>5, <2>6
<1>9. \A b \in Blocks : Fine(b)
  BY <1>8
<1>10. g \in [Blocks -> Nat]
  BY <1>7, <1>9
<1> QED
  BY <1>9, <1>10 DEF g

\* The blocks that are still to be connected after b on the way to new.
Rest(q, b, new) ==
  /\ IsAncestor(b, new) /\ b # new
  /\ q = SubSeq(ChainTo[new], Len(ChainTo[b]) + 1, Len(ChainTo[new]))

\* The rest of a sequence.
LEMMA RestOf ==
  ASSUME NEW S, NEW y \in Seq(S), NEW k \in 1..Len(y)
  PROVE  /\ SubSeq(y, k + 1, Len(y)) \in Seq(S) /\ Len(SubSeq(y, k + 1, Len(y))) = Len(y) - k
         /\ \A i \in 1..(Len(y) - k) : SubSeq(y, k + 1, Len(y))[i] = y[k + i]
  OBVIOUS

\* Where SetBestChain stops walking back, and what it leaves for later.
LEMMA TargetIs ==
  ASSUME NEW best \in Blocks, NEW new \in Blocks, new # Genesis
  PROVE  /\ Intermediate(best, new) \in Blocks \ {Genesis}
         /\ IsAncestor(Intermediate(best, new), new)
         /\ Intermediate(best, new) # new => Rest(Postponed(best, new), Intermediate(best, new), new)
         /\ Postponed(best, new) \in Seq(Blocks \ {Genesis})
<1> DEFINE y == ChainTo[new]
           n == Len(y)
           S == {i \in DOMAIN y : i = 1 \/ bnChainTrust[y[i - 1]] <= bnChainTrust[best]}
           at == Max(S)
<1>1. /\ y \in Seq(Blocks) /\ n \in Nat \ {0} /\ DOMAIN y = 1..n /\ y[1] = Genesis /\ y[n] = new
      /\ \A i \in 1..n : y[i] \in Blocks
  BY PathParts
<1>2. n >= 2
  BY <1>1
<1>3. \A i \in 2..n : y[i] \in Blocks \ {Genesis}
  <2>1. \A i \in 2..n : y[i] # Genesis
    BY PathLinks
  <2> QED BY <1>1, <2>1
<1>4. 2 \in S /\ S \in SUBSET (1..n)
  <2>1. 2 \in DOMAIN y /\ y[2 - 1] = Genesis
    BY <1>1, <1>2
  <2> QED BY <1>1, <2>1, ChainTrust
<1>5. at \in S /\ 2 <= at
  <2> HIDE DEF S
  <2> QED BY <1>1, <1>4, MaxIn
<1>6. IntermediateAt(best, new) = at
  BY DEF IntermediateAt
<1>7. at \in 2..n /\ at \in 1..n
  BY <1>1, <1>4, <1>5
<1> HIDE DEF at, S
<1>8. Intermediate(best, new) = y[at] /\ Postponed(best, new) = SubSeq(y, at + 1, n)
  BY <1>6 DEF Intermediate, Postponed
<1>9. Len(ChainTo[y[at]]) = at /\ IsAncestor(y[at], new)
  BY <1>1, <1>7, PathPrefix DEF IsAncestor
<1>10. SubSeq(y, at + 1, n) \in Seq(Blocks \ {Genesis})
  <2> DEFINE q == SubSeq(y, at + 1, n)
  <2>1. q \in Seq(Blocks) /\ Len(q) = n - at /\ \A i \in 1..(n - at) : q[i] = y[at + i]
    BY <1>1, <1>7, RestOf
  <2>2. \A i \in 1..(n - at) : at + i \in 2..n
    BY <1>1, <1>7
  <2>3. \A i \in 1..Len(q) : q[i] \in Blocks \ {Genesis}
    BY <1>3, <2>1, <2>2
  <2> HIDE DEF q
  <2> QED BY <2>1, <2>3, SeqIn DEF q
<1> HIDE DEF y
<1> QED
  BY <1>3, <1>7, <1>8, <1>9, <1>10 DEF Rest, y

\* A link leaves the genesis block after Reorganize as well.
LEMMA RelinkedGenesis ==
  ASSUME pindexBest \in Blocks, NEW new \in Blocks, new # Genesis,
         pindexBest = Genesis \/ pnext[Genesis] # NoBlock
  PROVE  Relinked(new)[Genesis] # NoBlock
<1> DEFINE gone  == ToSet(vDisconnect(pindexBest, new))
           added == ToSet(vConnect(pindexBest, new))
           f == Relinked(new)
<1>1. \A c : c \in gone <=> IsAncestor(c, pindexBest) /\ ~IsAncestor(c, new)
  <2>1. Beyond(new, pindexBest) \in Seq(Blocks)
    BY AllRooted, BeyondIn
  <2> QED BY <2>1, ReverseSet, BeyondSet DEF vDisconnect
<1>2. \A c : c \in added <=> IsAncestor(c, new) /\ ~IsAncestor(c, pindexBest)
  BY BeyondSet DEF vConnect
<1>0. Genesis \in Blocks /\ NoBlock \notin Blocks
  BY TreeAssumption
<1>3. f[Genesis] = IF \E c \in added : Prev[c] = Genesis
                   THEN CHOOSE c \in added : Prev[c] = Genesis
                   ELSE IF \E c \in gone : Prev[c] = Genesis THEN NoBlock ELSE pnext[Genesis]
  BY <1>0 DEF Relinked
<1> HIDE DEF f, gone, added
<1> DEFINE d == ChainTo[new][2]
<1>4. d \in Blocks /\ d # Genesis /\ Prev[d] = Genesis /\ IsAncestor(d, new)
  <2> DEFINE n == Len(ChainTo[new])
  <2>1. n \in Nat \ {0} /\ ChainTo[new][1] = Genesis /\ ChainTo[new][n] = new /\ DOMAIN ChainTo[new] = 1..n
        /\ \A i \in 1..n : ChainTo[new][i] \in Blocks
    BY PathParts
  <2>2. 2 \in 2..n /\ 2 \in 1..n /\ 2 - 1 = 1
    BY <2>1
  <2>3. d # Genesis /\ Prev[d] = Genesis
    BY <2>1, <2>2, PathLinks
  <2> QED BY <2>1, <2>2, <2>3 DEF IsAncestor
<1> HIDE DEF d
<1>5. CASE \E c \in added : Prev[c] = Genesis
  <2>1. f[Genesis] \in added
    BY <1>3, <1>5
  <2>2. f[Genesis] \in Blocks
    BY <1>2, <2>1, AncestorAt
  <2> QED BY <1>0, <2>2 DEF f
<1>6. CASE ~\E c \in added : Prev[c] = Genesis
  <2>1. IsAncestor(d, pindexBest)
    BY <1>2, <1>4, <1>6
  <2>2. pindexBest # Genesis
    BY <1>4, <2>1, AncestorGenesis
  <2>3. ASSUME NEW c \in gone, Prev[c] = Genesis PROVE FALSE
    <3>1. c \in Blocks /\ IsAncestor(c, pindexBest) /\ ~IsAncestor(c, new)
      BY <1>1, AncestorAt
    <3>2. c # Genesis
      BY <3>1, AncestorSelf
    <3>3. c = d
      BY <1>4, <2>1, <2>3, <3>1, <3>2, OneSuccessor
    <3> QED BY <1>4, <3>1, <3>3
  <2> QED BY <1>3, <1>6, <2>2, <2>3 DEF f
<1> QED
  BY <1>5, <1>6

-----------------------------------------------------------------------------
(***************************************************************************)
(* Types, whatever fails: the invariant says too that no operation is      *)
(* about the genesis block and that a link leaves it from the first        *)
(* connected block on, which WriteResetCheckpoint needs to find a hardened *)
(* checkpoint.                                                             *)
(***************************************************************************)
ViewInv ==
  /\ hashNext \in Links /\ pnext \in Links
  /\ txIndex \in [Txs -> Txs \cup {Absent, Unspent}]
  /\ infoDb \in Tables /\ infoView \in Tables

\* The places an operation stands at between two of its commits.
Steps == {"idle", "down", "pending", "reset", "writereset", "switch", "connect",
          "finish", "writecp"}

\* What an operation is about, wherever it stands.
OpInv ==
  /\ hashSyncCheckpoint \in mapBlockIndex /\ hashPendingCheckpoint \in Blocks \cup {NoBlock}
  /\ restarts \in 0..MaxRestarts /\ keyChanges \in 0..MaxKeyChanges
  /\ op.at \in Steps
  /\ op.at \in {"switch", "connect", "finish"} => op.by \in Callers /\ op.new # Genesis
  /\ op.at = "connect" => op.todo \in Seq(Blocks \ {Genesis})

\* The genesis block has a successor, on disk and in memory.
Started == hashNext[Genesis] # NoBlock /\ pnext[Genesis] # NoBlock

\* It has one as soon as a block is connected.
StartInv ==
  \/ Started
  \/ hashBestChainDisk = Genesis /\ pindexBest = Genesis /\ op.at \notin {"connect", "finish"}

\* The inductive invariant of the types.
ChainInv == MempoolInv /\ ViewInv /\ OpInv /\ StartInv

\* The empty info table is one.
LEMMA EmptyIn == EmptyTable \in Tables
<1>1. [i \in {} |-> 0] \in [{} -> InfoRecords] /\ {} \in SUBSET Nat
  OBVIOUS
<1>2. [i \in {} |-> 0] \in UNION {[A -> InfoRecords] : A \in SUBSET Nat}
  BY <1>1
<1> HIDE <1>1
<1> DEFINE f == [i \in {} |-> 0]
<1> HIDE DEF f
<1>3. [row |-> f, latest |-> {}, seq |-> 0] \in Tables
  BY <1>2 DEF f, Tables
<1> QED
  BY <1>3 DEF EmptyTable, f

\* The node starts with the genesis block alone.
LEMMA ChainInit == Init => ChainInv
<1> SUFFICES ASSUME Init PROVE ChainInv
  OBVIOUS
<1>1. MempoolInv
  BY MempoolInit
<1>2. ViewInv
  BY EmptyIn DEF Init, ViewInv, Links
<1>3. OpInv
  BY BoundsAssumption, TreeAssumption DEF Init, OpInv, Idle, Steps
<1>4. StartInv
  BY DEF Init, StartInv, Idle
<1> QED
  BY <1>1, <1>2, <1>3, <1>4 DEF ChainInv

\* A database transaction starts from a view.
LEMMA DbViewIn ==
  ASSUME ViewInv
  PROVE  DbView \in Views
  BY DEF ViewInv, DbView, Views

\* One block on top of the best one, or a postponed one.
LEMMA ChainExtend ==
  ASSUME ViewInv, NEW b \in Blocks \ {Genesis}, Extended(b).ok, Extend(b)
  PROVE  /\ hashNext' \in Links /\ pnext' \in Links /\ infoView' \in Tables
         /\ txIndex' \in [Txs -> Txs \cup {Absent, Unspent}]
         /\ Started \/ Prev[b] = Genesis => Started'
<1> DEFINE t == Extended(b)
<1>0. Prev[b] \in Blocks /\ Genesis \in Blocks /\ NoBlock \notin Blocks
  BY TreeAssumption
<1>1. DbView \in Views /\ pnext \in Links /\ hashNext \in Links /\ DbView.next = hashNext
  BY DbViewIn DEF ViewInv, DbView
<1>2. t \in Views /\ t.next = [hashNext EXCEPT ![b] = pnext[b], ![Prev[b]] = b]
  BY <1>1, ConnectBlockParts DEF Extended
<1> HIDE DEF t
<1>3. /\ txIndex' = t.tx /\ hashNext' = t.next /\ infoView' = t.infos
      /\ pnext' = [pnext EXCEPT ![Prev[b]] = b]
  BY DEF Extend, TxnCommit, t
<1>4. t.tx \in [Txs -> Txs \cup {Absent, Unspent}] /\ t.next \in Links /\ t.infos \in Tables
  BY <1>2 DEF Views
<1>5. pnext' \in Links
  BY <1>0, <1>1, <1>3 DEF Links
<1>6. Started \/ Prev[b] = Genesis => Started'
  BY <1>0, <1>1, <1>2, <1>3 DEF Links, Started
<1> QED
  BY <1>3, <1>4, <1>5, <1>6

\* SetBestChain, step by step.
LEMMA ChainSetBestChain ==
  ASSUME ChainInv, SetBestChain
  PROVE  ViewInv' /\ OpInv' /\ StartInv'
<1>0. MempoolInv /\ BlocksInv /\ ViewInv /\ OpInv /\ StartInv /\ mapBlockIndex \subseteq Blocks
      /\ pindexBest \in Blocks
  BY DEF ChainInv, MempoolInv, BlocksInv, Rooted
<1>1. /\ mapBlockIndex' = mapBlockIndex /\ hashSyncCheckpoint' = hashSyncCheckpoint
      /\ hashPendingCheckpoint' = hashPendingCheckpoint /\ UNCHANGED boundVars
  BY DEF SetBestChain, SwitchExtend, SwitchExtendFails, SwitchReorganize,
         SwitchReorganizeFails, ConnectPostponed, ConnectPostponedFails,
         FinishSwitch, SetBestChainFails
<1>2. ASSUME op'.at \in Steps,
             op'.at \in {"switch", "connect", "finish"} => op'.by \in Callers /\ op'.new # Genesis,
             op'.at = "connect" => op'.todo \in Seq(Blocks \ {Genesis})
      PROVE  OpInv'
  BY <1>0, <1>1, <1>2 DEF OpInv, boundVars
<1>3. CASE SwitchExtend
  <2>1. /\ op.new \in Blocks \ {Genesis} /\ op.by \in Callers /\ Prev[op.new] = pindexBest
        /\ op.at = "switch"
    BY <1>0, <1>3 DEF SwitchExtend, BlocksInv, OpInv
  <2>2. /\ Extended(op.new).ok /\ Extend(op.new) /\ infoDb' = infoDb
        /\ op' = Finish(op.new, op.by)
    BY <1>3 DEF SwitchExtend
  <2>3. OpInv'
    BY <1>2, <2>1, <2>2 DEF Finish, Steps
  <2>4. ViewInv' /\ (Started \/ Prev[op.new] = Genesis => Started')
    BY <1>0, <2>1, <2>2, ChainExtend DEF ViewInv
  <2>5. StartInv'
    BY <1>0, <2>1, <2>4 DEF StartInv
  <2> QED BY <2>3, <2>4, <2>5
<1>4. CASE SwitchReorganize
  <2>1. op.new \in Blocks /\ op.new # Genesis /\ op.by \in Callers /\ op.at = "switch"
    BY <1>0, <1>4 DEF SwitchReorganize, BlocksInv, OpInv
  <2>2. Target \in Blocks \ {Genesis} /\ Postponed(pindexBest, op.new) \in Seq(Blocks \ {Genesis})
    BY <1>0, <2>1, TargetIs DEF Target
  <2>3. op' = IF Target = op.new THEN Finish(op.new, op.by)
              ELSE Connect(op.new, op.by, Postponed(pindexBest, op.new))
    BY <1>4 DEF SwitchReorganize
  <2>4. OpInv'
    BY <1>2, <2>1, <2>2, <2>3 DEF Finish, Connect, Steps
  <2> DEFINE t == Reorganization
  <2>5. /\ t.ok /\ txIndex' = t.tx /\ hashNext' = t.next /\ infoView' = t.infos
        /\ pnext' = Relinked(Target) /\ infoDb' = infoDb
    BY <1>4 DEF SwitchReorganize, TxnCommit
  <2>6. DbView \in Views /\ pnext \in Links /\ DbView.next = hashNext
    BY <1>0, DbViewIn DEF ViewInv, DbView
  <2>7. pindexBest = Genesis \/ Started
    BY <1>0 DEF StartInv
  <2>8. t \in Views /\ t.next[Genesis] # NoBlock
    BY <1>0, <2>2, <2>5, <2>6, <2>7, ReorganizedParts DEF Reorganization, Started
  <2> HIDE DEF t
  <2>9. t.tx \in [Txs -> Txs \cup {Absent, Unspent}] /\ t.next \in Links /\ t.infos \in Tables
    BY <2>8 DEF Views
  <2>10. Relinked(Target)[Genesis] # NoBlock
    BY <1>0, <2>2, <2>7, RelinkedGenesis DEF Started
  <2>11. Relinked(Target) \in Links
    <3> DEFINE gone  == ToSet(vDisconnect(pindexBest, Target))
               added == ToSet(vConnect(pindexBest, Target))
               f == Relinked(Target)
    <3>1. \A b \in Blocks : f[b] = IF \E c \in added : Prev[c] = b
                                   THEN CHOOSE c \in added : Prev[c] = b
                                   ELSE IF \E c \in gone : Prev[c] = b THEN NoBlock ELSE pnext[b]
      BY DEF Relinked
    <3>2. DOMAIN f = Blocks /\ f = [b \in DOMAIN f |-> f[b]]
      BY DEF Relinked
    <3>3. \A c \in added : c \in Blocks
      BY <1>0, <2>2, BeyondSet, AncestorAt DEF vConnect
    <3> HIDE DEF f, gone, added
    <3>4. ASSUME NEW b \in Blocks PROVE f[b] \in Blocks \cup {NoBlock}
      <4>1. CASE \E c \in added : Prev[c] = b
        BY <3>1, <3>3, <4>1
      <4>2. CASE ~\E c \in added : Prev[c] = b
        BY <2>6, <3>1, <4>2 DEF Links
      <4> QED BY <4>1, <4>2
    <3>5. f \in Links
      BY <3>2, <3>4 DEF Links
    <3> QED BY <3>5 DEF f
  <2>12. ViewInv'
    BY <1>0, <2>5, <2>9, <2>11 DEF ViewInv
  <2>13. StartInv'
    BY <2>5, <2>8, <2>10 DEF StartInv, Started
  <2> QED BY <2>4, <2>12, <2>13
<1>5. CASE ConnectPostponed
  <2> DEFINE q == op.todo
  <2>1. q \in Seq(Blocks \ {Genesis}) /\ q # <<>> /\ op.by \in Callers /\ op.new # Genesis
        /\ op.at = "connect"
    BY <1>0, <1>5 DEF ConnectPostponed, BlocksInv, OpInv
  <2>2. /\ Extended(Head(q)).ok /\ Extend(Head(q)) /\ infoDb' = infoDb
        /\ op' = IF Len(q) = 1 THEN Finish(op.new, op.by) ELSE Connect(op.new, op.by, Tail(q))
    BY <1>5 DEF ConnectPostponed
  <2> HIDE DEF q
  <2>3. Head(q) \in Blocks \ {Genesis} /\ Tail(q) \in Seq(Blocks \ {Genesis})
    BY <2>1
  <2>4. OpInv'
    BY <1>2, <2>1, <2>2, <2>3 DEF Finish, Connect, Steps
  <2>5. ViewInv' /\ (Started => Started')
    BY <1>0, <2>2, <2>3, ChainExtend DEF ViewInv
  <2>6. StartInv'
    BY <1>0, <2>1, <2>5 DEF StartInv
  <2> QED BY <2>4, <2>5, <2>6
<1>6. CASE SwitchExtendFails \/ SwitchReorganizeFails
  <2>1. /\ op' \in {Down, Idle} /\ infoView' = infoDb /\ infoDb' = infoDb
        /\ UNCHANGED <<diskVars, pindexBest, pnext>>
    BY <1>6 DEF SwitchExtendFails, SwitchReorganizeFails, SetBestChainFails
  <2>2. op'.at \in {"down", "idle"}
    BY <2>1 DEF Down, Idle
  <2>3. OpInv'
    BY <1>2, <2>2 DEF Steps
  <2>4. ViewInv'
    BY <1>0, <2>1 DEF ViewInv, diskVars
  <2>5. StartInv'
    BY <1>0, <2>1, <2>2 DEF StartInv, Started, diskVars
  <2> QED BY <2>3, <2>4, <2>5
<1>7. CASE ConnectPostponedFails
  <2> DEFINE q == op.todo
  <2>1. q \in Seq(Blocks \ {Genesis}) /\ q # <<>> /\ op.by \in Callers /\ op.new # Genesis
        /\ op.at = "connect"
    BY <1>0, <1>7 DEF ConnectPostponedFails, BlocksInv, OpInv
  <2>2. /\ infoView' = Extended(Head(q)).infos /\ infoDb' = infoDb
        /\ op' = Finish(op.new, op.by) /\ UNCHANGED <<diskVars, pindexBest, pnext>>
    BY <1>7 DEF ConnectPostponedFails
  <2> HIDE DEF q
  <2>3. Head(q) \in Blocks \ {Genesis}
    BY <2>1
  <2>4. DbView \in Views /\ pnext \in Links
    BY <1>0, DbViewIn DEF ViewInv
  <2>5. Extended(Head(q)) \in Views
    BY <2>3, <2>4, ConnectBlockParts DEF Extended
  <2>6. Extended(Head(q)).infos \in Tables
    BY <2>5 DEF Views
  <2>7. OpInv'
    BY <1>2, <2>1, <2>2 DEF Finish, Steps
  <2>8. ViewInv'
    BY <1>0, <2>2, <2>6 DEF ViewInv, diskVars
  <2>9. StartInv'
    BY <1>0, <2>1, <2>2 DEF StartInv, Started, diskVars
  <2> QED BY <2>7, <2>8, <2>9
<1>8. CASE FinishSwitch
  <2>1. /\ op.at = "finish" /\ op' \in {Pending, WriteReset, WriteCp(op.new)}
        /\ infoDb' = infoView /\ UNCHANGED <<diskVars, pnext, infoView>>
    BY <1>8 DEF FinishSwitch
  <2>2. op'.at \in {"pending", "writereset", "writecp"}
    BY <2>1 DEF Pending, WriteReset, WriteCp
  <2>3. OpInv'
    BY <1>2, <2>2 DEF Steps
  <2>4. ViewInv'
    BY <1>0, <2>1 DEF ViewInv, diskVars
  <2>5. StartInv'
    BY <1>0, <2>1 DEF StartInv, Started, diskVars
  <2> QED BY <2>3, <2>4, <2>5
<1> QED
  BY <1>3, <1>4, <1>5, <1>6, <1>7, <1>8 DEF SetBestChain

\* A checkpoint that ValidateSyncCheckpoint accepts is not the genesis block.
LEMMA ValidNotGenesis ==
  ASSUME hashSyncCheckpoint \in Blocks, NEW c \in Blocks, ValidateSyncCheckpoint(c)
  PROVE  c # Genesis
<1>1. Len(ChainTo[hashSyncCheckpoint]) \in Nat \ {0} /\ Len(ChainTo[c]) \in Nat
  BY PathParts
<1>2. ChainTo[Genesis] = <<Genesis>> /\ Len(<<Genesis>>) = 1
  BY ChainToPath
<1>3. Len(ChainTo[c]) - 1 > Len(ChainTo[hashSyncCheckpoint]) - 1
  BY DEF ValidateSyncCheckpoint, nHeight
<1>4. Len(ChainTo[c]) # 1
  <2>1. \A i \in Nat \ {0}, j \in Nat : j - 1 > i - 1 => j # 1
    OBVIOUS
  <2> QED BY <1>1, <1>3, <2>1, Zenon
<1> QED
  BY <1>2, <1>4

\* The other steps.
LEMMA ChainNext ==
  ASSUME ChainInv, [Next]_vars
  PROVE  ChainInv'
<1>0. /\ MempoolInv /\ BlocksInv /\ ViewInv /\ OpInv /\ StartInv /\ mapBlockIndex \subseteq Blocks
      /\ hashSyncCheckpoint \in Blocks /\ Genesis \in mapBlockIndex /\ pindexBest \in Blocks
  BY DEF ChainInv, MempoolInv, BlocksInv, Rooted, OpInv
<1>m. MempoolInv'
  BY <1>0, MempoolNext
<1>1. CASE UNCHANGED vars
  <2>1. ViewInv' /\ OpInv' /\ StartInv'
    BY <1>0, <1>1 DEF vars, diskVars, boundVars, ViewInv, OpInv, StartInv, Started
  <2> QED BY <1>m, <2>1 DEF ChainInv
<1>2. ASSUME NEW tx \in Txs, AcceptToMemoryPool(tx) \/ TxMessage(tx) \/ CreateNewBlock(tx)
      PROVE  ChainInv'
  <2>1. UNCHANGED chainVars
    BY <1>2 DEF AcceptToMemoryPool, TxMessage, CreateNewBlock
  <2>2. ViewInv' /\ OpInv' /\ StartInv'
    BY <1>0, <2>1 DEF chainVars, diskVars, boundVars, ViewInv, OpInv, StartInv, Started
  <2> QED BY <1>m, <2>2 DEF ChainInv
<1>3. ASSUME NEW b \in Blocks \ {Genesis}, AcceptBlock(b) PROVE ChainInv'
  <2>1. /\ mapBlockIndex' = mapBlockIndex \cup {b} /\ op' \in {Switch(b, "accept"), Pending}
        /\ UNCHANGED <<hashSyncCheckpoint, diskVars, infoDb, pindexBest, pnext, infoView,
                       hashPendingCheckpoint, boundVars>>
    BY <1>3 DEF AcceptBlock
  <2>2. op'.at = "pending" \/ (op'.at = "switch" /\ op'.new = b /\ op'.by = "accept")
    BY <2>1 DEF Switch, Pending
  <2>3. OpInv'
    BY <1>0, <1>3, <2>1, <2>2 DEF OpInv, Steps, Callers, boundVars
  <2>4. ViewInv' /\ StartInv'
    BY <1>0, <2>1, <2>2 DEF ViewInv, StartInv, Started, diskVars
  <2> QED BY <1>m, <2>3, <2>4 DEF ChainInv
<1>4. CASE SetBestChain
  BY <1>4, <1>m, ChainSetBestChain DEF ChainInv
<1>b. ASSUME chainUnchanged, hashSyncCheckpoint' \in mapBlockIndex,
             hashPendingCheckpoint' \in Blocks \cup {NoBlock},
             \/ op'.at \in {"idle", "writereset", "writecp"} \/ op' = op
             \/ op'.at = "switch" /\ op'.new # Genesis /\ op'.by \in Callers
      PROVE  ChainInv'
  <2>1. UNCHANGED <<mapBlockIndex, diskVars, infoDb, pindexBest, pnext, infoView, boundVars>>
    BY <1>b DEF chainUnchanged
  <2>2. OpInv'
    BY <1>0, <1>b, <2>1 DEF OpInv, Steps, boundVars
  <2>3. ViewInv' /\ StartInv'
    BY <1>0, <1>b, <2>1 DEF ViewInv, StartInv, Started, diskVars
  <2> QED BY <1>m, <2>2, <2>3 DEF ChainInv
<1>5. CASE AcceptPendingSyncCheckpoint
  <2> DEFINE c == hashPendingCheckpoint
  <2>1. /\ hashSyncCheckpoint' = hashSyncCheckpoint /\ chainUnchanged
        /\ hashPendingCheckpoint' \in {hashPendingCheckpoint, NoBlock}
        /\ \/ op' = Idle
           \/ c \in mapBlockIndex /\ ValidateSyncCheckpoint(c) /\ op' \in {WriteCp(c), Switch(c, "pending")}
    BY <1>5 DEF AcceptPendingSyncCheckpoint
  <2>2. c \in mapBlockIndex /\ ValidateSyncCheckpoint(c) => c # Genesis
    BY <1>0, ValidNotGenesis
  <2>3. hashSyncCheckpoint' \in mapBlockIndex /\ hashPendingCheckpoint' \in Blocks \cup {NoBlock}
    BY <1>0, <2>1 DEF OpInv
  <2>4. \/ op'.at \in {"idle", "writecp"}
        \/ op'.at = "switch" /\ op'.new # Genesis /\ op'.by \in Callers
    BY <2>1, <2>2 DEF Idle, WriteCp, Switch, Callers
  <2> QED BY <1>b, <2>1, <2>3, <2>4
<1>6. ASSUME NEW c \in SignedCheckpoints, ProcessSyncCheckpoint(c) PROVE ChainInv'
  <2>0. c \in Blocks
    BY BoundsAssumption
  <2>1. /\ hashSyncCheckpoint' = hashSyncCheckpoint /\ chainUnchanged
        /\ hashPendingCheckpoint' \in {hashPendingCheckpoint, c}
        /\ op' = op \/ (ValidateSyncCheckpoint(c) /\ op' \in {WriteCp(c), Switch(c, "process")})
    BY <1>6 DEF ProcessSyncCheckpoint
  <2>2. ValidateSyncCheckpoint(c) => c # Genesis
    BY <1>0, <2>0, ValidNotGenesis
  <2>3. hashSyncCheckpoint' \in mapBlockIndex /\ hashPendingCheckpoint' \in Blocks \cup {NoBlock}
    BY <1>0, <2>0, <2>1 DEF OpInv
  <2>4. \/ op' = op \/ op'.at = "writecp"
        \/ op'.at = "switch" /\ op'.new # Genesis /\ op'.by \in Callers
    BY <2>1, <2>2 DEF WriteCp, Switch, Callers
  <2> QED BY <1>b, <2>1, <2>3, <2>4
<1>7. CASE WriteSyncCheckpoint
  <2>1. /\ hashSyncCheckpoint' \in mapBlockIndex /\ hashPendingCheckpoint' = NoBlock
        /\ op' = Idle /\ chainUnchanged
    BY <1>0, <1>7 DEF WriteSyncCheckpoint, BlocksInv
  <2> QED BY <1>b, <2>1 DEF Idle
<1>8. CASE ResetSyncCheckpoint
  <2> DEFINE c == Last(Hardened)
  <2>0. c \in Blocks
    BY TreeAssumption DEF Last
  <2>1. /\ hashSyncCheckpoint' = hashSyncCheckpoint /\ chainUnchanged
        /\ hashPendingCheckpoint' \in {hashPendingCheckpoint, c}
        /\ op' = WriteReset \/ (~IsInMainChain(c) /\ op' = Switch(c, "reset"))
    BY <1>8 DEF ResetSyncCheckpoint
  <2>2. IsInMainChain(Genesis)
    BY <1>0 DEF IsInMainChain, StartInv, Started
  <2>3. hashSyncCheckpoint' \in mapBlockIndex /\ hashPendingCheckpoint' \in Blocks \cup {NoBlock}
    BY <1>0, <2>0, <2>1 DEF OpInv
  <2> HIDE DEF c
  <2>4. \/ op'.at = "writereset"
        \/ op'.at = "switch" /\ op'.new # Genesis /\ op'.by \in Callers
    BY <2>1, <2>2 DEF WriteReset, Switch, Callers
  <2> QED BY <1>b, <2>1, <2>3, <2>4
<1>9. CASE WriteResetCheckpoint
  <2> DEFINE S == {i \in DOMAIN Hardened : Hardened[i] \in mapBlockIndex /\ IsInMainChain(Hardened[i])}
  <2>1. /\ hashSyncCheckpoint' = Hardened[Max(S)] /\ hashPendingCheckpoint' = hashPendingCheckpoint
        /\ op' = Idle /\ chainUnchanged
    BY <1>9 DEF WriteResetCheckpoint
  <2>2. IsInMainChain(Genesis)
    BY <1>0 DEF IsInMainChain, StartInv, Started
  <2>3. Len(Hardened) \in Nat /\ DOMAIN Hardened = 1..Len(Hardened) /\ 1 \in DOMAIN Hardened
        /\ Hardened[1] = Genesis
    BY TreeAssumption
  <2>4. 1 \in S /\ S \in SUBSET (1..Len(Hardened))
    BY <1>0, <2>2, <2>3
  <2>5. Max(S) \in S
    <3> HIDE DEF S
    <3> QED BY <2>3, <2>4, MaxIn
  <2>6. hashSyncCheckpoint' \in mapBlockIndex
    <3> DEFINE i == Max(S)
    <3>1. i \in S
      BY <2>5
    <3> HIDE DEF i
    <3>2. Hardened[i] \in mapBlockIndex
      BY <3>1
    <3> QED BY <2>1, <3>2 DEF i
  <2> HIDE DEF S
  <2> QED BY <1>0, <1>b, <2>1, <2>6 DEF Idle, OpInv
<1>10. ASSUME NEW newKey \in BOOLEAN, Restart(newKey) PROVE ChainInv'
  <2>1. /\ pindexBest' = hashBestChainDisk /\ pnext' = hashNext /\ infoView' = infoDb
        /\ op' \in {ResetCp, Idle} /\ hashPendingCheckpoint' = NoBlock
        /\ UNCHANGED <<mapBlockIndex, hashSyncCheckpoint, diskVars, infoDb>>
    BY <1>10 DEF Restart
  <2>2. op'.at \in {"reset", "idle"}
    BY <2>1 DEF ResetCp, Idle
  <2>3. restarts' \in 0..MaxRestarts /\ keyChanges' \in 0..MaxKeyChanges
    <3>1. restarts \in 0..MaxRestarts /\ keyChanges \in 0..MaxKeyChanges
      BY <1>0 DEF OpInv
    <3>2. /\ restarts < MaxRestarts /\ restarts' = restarts + 1
          /\ keyChanges' = keyChanges \/ (keyChanges < MaxKeyChanges /\ keyChanges' = keyChanges + 1)
      BY <1>10 DEF Restart
    <3> QED BY <3>1, <3>2, BoundsAssumption
  <2>4. OpInv'
    BY <1>0, <2>1, <2>2, <2>3 DEF OpInv, Steps
  <2>5. ViewInv' /\ StartInv'
    BY <1>0, <2>1, <2>2 DEF ViewInv, StartInv, Started, diskVars
  <2> QED BY <1>m, <2>4, <2>5 DEF ChainInv
<1> QED
  BY <1>1, <1>2, <1>3, <1>4, <1>5, <1>6, <1>7, <1>8, <1>9, <1>10 DEF Next

\* Whatever fails, the databases hold well-formed values, an operation under way is
\* for a block other than the genesis block, and once a block has been connected a
\* link leaves the genesis block, so that the walk of ResetSyncCheckpoint starts
\* (SetBestChain, Reorganize, ResetSyncCheckpoint).
THEOREM ChainInvariant == Spec => []ChainInv
<1>1. Init => ChainInv
  BY ChainInit
<1>2. ChainInv /\ [Next]_vars => ChainInv'
  BY ChainNext
<1> QED
  BY <1>1, <1>2, PTL DEF Spec

\* Every variable has its type in every behaviour, the failing commits, restarts
\* and key changes included: no fold of ConnectBlock, DisconnectBlock or Reorganize
\* leaves its tables, and the checkpoint is always a block of mapBlockIndex.
THEOREM TypesAlwaysOK == Spec => []TypeOK
<1>1. ChainInv => TypeOK
  <2> SUFFICES ASSUME ChainInv PROVE TypeOK
    OBVIOUS
  <2>1. /\ mapTx \subseteq Txs \ Coinbases /\ mapNextTx \in [Txs -> Txs \cup {Absent}]
        /\ mapOrphanTransactions \subseteq Txs \ Coinbases
        /\ mapOrphanTransactionsByPrev \in [Txs -> SUBSET Txs]
    BY DEF ChainInv, MempoolInv, OrphanInv, GoodPool, GoodOrphans, Pool, Orphans
  <2>2. mapBlockIndex \subseteq Blocks /\ {hashSyncCheckpoint, hashBestChainDisk, pindexBest} \subseteq mapBlockIndex
    BY DEF ChainInv, MempoolInv, BlocksInv, Rooted, OpInv
  <2> QED BY <2>1, <2>2 DEF ChainInv, ViewInv, OpInv, Steps, Links, TypeOK
<1> QED
  BY <1>1, ChainInvariant, PTL

-----------------------------------------------------------------------------
(***************************************************************************)
(* One chain, on disk and in memory, as long as no postponed block fails.  *)
(***************************************************************************)

\* The next of the postponed blocks comes after b.
LEMMA RestStep ==
  ASSUME NEW new \in Blocks, NEW b, NEW q, Rest(q, b, new)
  PROVE  /\ Len(q) \in Nat \ {0} /\ Head(q) \in Blocks \ {Genesis} /\ Prev[Head(q)] = b
         /\ IF Len(q) = 1 THEN Head(q) = new ELSE Rest(Tail(q), Head(q), new)
<1> DEFINE y == ChainTo[new]
           n == Len(y)
           k == Len(ChainTo[b])
           c == y[k + 1]
<1>1. b \in Blocks /\ k \in 1..n /\ y[k] = b /\ b # new /\ q = SubSeq(y, k + 1, n)
  BY AncestorAt DEF Rest
<1>2. y \in Seq(Blocks) /\ n \in Nat /\ y[n] = new /\ \A i \in 1..n : y[i] \in Blocks
  BY PathParts
<1>3. k # n /\ k + 1 \in 2..n /\ k + 1 \in 1..n /\ (k + 1) - 1 = k
  BY <1>1, <1>2
<1>4. c \in Blocks /\ c # Genesis /\ Prev[c] = b
  BY <1>1, <1>2, <1>3, PathLinks
<1>5. Len(ChainTo[c]) = k + 1 /\ IsAncestor(c, new)
  <2>1. Len(ChainTo[c]) = k + 1
    BY <1>3, PathPrefix
  <2>2. IsAncestor(c, new)
    BY <1>3, <1>4, <2>1, AncestorAt
  <2> QED BY <2>1, <2>2
<1>n. n = Len(y)
  OBVIOUS
<1> HIDE DEF y, n, k
<1>6. /\ Len(q) = n - k /\ Head(q) = c /\ Tail(q) = SubSeq(y, (k + 1) + 1, n)
  <2>1. n \in (k + 1)..Len(y) /\ k + 1 \in 1..Len(y)
    BY <1>2, <1>3, <1>n
  <2>2. Head(q) = y[k + 1] /\ Tail(q) = SubSeq(y, (k + 1) + 1, n)
    BY <1>1, <1>2, <2>1, HeadTailOfSubSeq
  <2>3. Len(q) = n - k
    BY <1>1, <1>2, <1>n, RestOf
  <2> QED BY <2>2, <2>3
<1>7. Len(q) \in Nat \ {0} /\ (Len(q) = 1 <=> k + 1 = n)
  BY <1>1, <1>2, <1>3, <1>6
<1>8. CASE Len(q) = 1
  <2>1. Head(q) = new
    BY <1>2, <1>6, <1>7, <1>8
  <2> QED BY <1>4, <1>6, <1>7, <1>8, <2>1
<1>9. CASE Len(q) # 1
  <2>1. c # new
    BY <1>5, <1>7, <1>9 DEF n, y
  <2>2. Tail(q) = SubSeq(ChainTo[new], Len(ChainTo[c]) + 1, Len(ChainTo[new]))
    BY <1>5, <1>6, <1>7 DEF n, y
  <2>3. Rest(Tail(q), c, new)
    BY <1>5, <2>1, <2>2 DEF Rest
  <2> QED BY <1>4, <1>6, <1>7, <1>9, <2>3
<1> QED
  BY <1>8, <1>9

\* hashNext and pnext lead to hashBestChain, which is where the operation is, and the
\* sync-checkpoint is on the way.
LinkInv ==
  /\ hashNext = LinksOf(hashBestChainDisk) /\ pnext = hashNext
  /\ op.at \notin {"connect", "finish"} => pindexBest = hashBestChainDisk
  /\ op.at = "finish" => hashBestChainDisk = op.new
  /\ op.at = "connect" => Rest(op.todo, hashBestChainDisk, op.new)
  /\ IsAncestor(hashSyncCheckpoint, hashBestChainDisk)
  /\ op.at = "writecp" => IsAncestor(op.new, hashBestChainDisk)

\* The transaction index is that of the same chain.
IndexInv == IndexedTo(DbView, hashBestChainDisk)

\* One block on top of hashBestChain.
LEMMA LinkExtend ==
  ASSUME ViewInv, NEW b \in Blocks \ {Genesis}, Extended(b).ok, Extend(b),
         hashNext = LinksOf(Prev[b]), pnext = hashNext, Prev[b] = hashBestChainDisk
  PROVE  /\ hashNext' = LinksOf(b) /\ pnext' = LinksOf(b) /\ hashBestChainDisk' = b
         /\ IsAncestor(hashSyncCheckpoint, Prev[b]) => IsAncestor(hashSyncCheckpoint, b)
         /\ NoRepeats /\ IndexInv => IndexInv'
<1> DEFINE t == Extended(b)
<1>0. Prev[b] \in Blocks /\ ~IsAncestor(b, Prev[b])
  BY TreeAssumption, AncestorPrev, AncestorSelf
<1>1. DbView \in Views /\ pnext \in Links /\ DbView.next = hashNext
  BY DbViewIn DEF ViewInv, DbView
<1>2. pnext[b] = NoBlock
  BY <1>0, NoLinkBeyond
<1>3. /\ txIndex' = t.tx /\ hashNext' = t.next /\ hashBestChainDisk' = b
      /\ pnext' = [pnext EXCEPT ![Prev[b]] = b]
  BY DEF Extend, TxnCommit
<1>4. t.next = LinksOf(b) /\ (NoRepeats /\ IndexedTo(DbView, Prev[b]) => IndexedTo(t, b))
  BY <1>1, <1>2, ConnectStep DEF Extended
<1>5. pnext' = LinksOf(b)
  BY <1>3, LinkAdded
<1>6. IsAncestor(hashSyncCheckpoint, Prev[b]) => IsAncestor(hashSyncCheckpoint, b)
  BY AncestorStep
<1>7. IndexedTo(t, b) => IndexInv'
  <2>1. DbView'.tx = txIndex'
    BY DEF DbView
  <2> HIDE DEF t
  <2> QED BY <1>3, <2>1 DEF IndexInv, IndexedTo
<1> QED
  BY <1>3, <1>4, <1>5, <1>6, <1>7 DEF IndexInv

\* A block of the main chain, as IsInMainChain has it, is one.
LEMMA MainChainIs ==
  ASSUME pindexBest \in Blocks, pnext = LinksOf(pindexBest), NEW c \in Blocks, IsInMainChain(c)
  PROVE  IsAncestor(c, pindexBest)
<1>1. CASE c = pindexBest
  BY <1>1, AncestorSelf
<1>2. CASE c # pindexBest
  BY <1>2, NoLinkBeyond DEF IsInMainChain
<1> QED
  BY <1>1, <1>2

\* SetBestChain moves hashBestChain, hashNext, pnext and the index together.
LEMMA LinkSetBestChain ==
  ASSUME ChainInv, LinkInv, SetBestChain, ~ConnectPostponedFails
  PROVE  LinkInv' /\ (NoRepeats /\ IndexInv => IndexInv')
<1> DEFINE b0 == hashBestChainDisk
<1>0. /\ BlocksInv /\ ViewInv /\ OpInv /\ mapBlockIndex \subseteq Blocks
      /\ pindexBest \in Blocks /\ b0 \in Blocks
      /\ hashNext = LinksOf(b0) /\ pnext = hashNext /\ IsAncestor(hashSyncCheckpoint, b0)
  BY DEF ChainInv, MempoolInv, BlocksInv, Rooted, LinkInv
<1>1. hashSyncCheckpoint' = hashSyncCheckpoint
  BY DEF SetBestChain, SwitchExtend, SwitchExtendFails, SwitchReorganize,
         SwitchReorganizeFails, ConnectPostponed, ConnectPostponedFails,
         FinishSwitch, SetBestChainFails
<1>2. ASSUME UNCHANGED diskVars PROVE IndexInv => IndexInv'
  <2>1. DbView'.tx = DbView.tx /\ hashBestChainDisk' = hashBestChainDisk
    BY <1>2 DEF DbView, diskVars
  <2> QED BY <2>1 DEF IndexInv, IndexedTo
<1>3. CASE SwitchExtend
  <2>1. /\ op.new \in Blocks \ {Genesis} /\ Prev[op.new] = pindexBest /\ pindexBest = b0
    BY <1>0, <1>3 DEF SwitchExtend, BlocksInv, OpInv, LinkInv
  <2>2. /\ Extended(op.new).ok /\ Extend(op.new) /\ op' = Finish(op.new, op.by)
    BY <1>3 DEF SwitchExtend
  <2>3. /\ hashNext' = LinksOf(op.new) /\ pnext' = LinksOf(op.new) /\ hashBestChainDisk' = op.new
        /\ IsAncestor(hashSyncCheckpoint, op.new)
        /\ NoRepeats /\ IndexInv => IndexInv'
    BY <1>0, <2>1, <2>2, LinkExtend
  <2>4. op'.at = "finish" /\ op'.new = op.new
    BY <2>2 DEF Finish
  <2>5. LinkInv'
    BY <1>1, <2>3, <2>4 DEF LinkInv
  <2> QED BY <2>3, <2>5
<1>4. CASE SwitchReorganize
  <2>1. op.new \in Blocks /\ op.new # Genesis /\ pindexBest = b0
    BY <1>0, <1>4 DEF SwitchReorganize, BlocksInv, OpInv, LinkInv
  <2>2. /\ Target \in Blocks \ {Genesis}
        /\ Target # op.new => Rest(Postponed(pindexBest, op.new), Target, op.new)
    BY <1>0, <2>1, TargetIs DEF Target
  <2> DEFINE t == Reorganization
  <2>3. /\ t.ok /\ txIndex' = t.tx /\ hashNext' = t.next /\ hashBestChainDisk' = Target
        /\ pnext' = Relinked(Target) /\ CanDisconnect(Target)
        /\ op' = IF Target = op.new THEN Finish(op.new, op.by)
                 ELSE Connect(op.new, op.by, Postponed(pindexBest, op.new))
    BY <1>4 DEF SwitchReorganize, TxnCommit
  <2>4. DbView \in Views /\ pnext \in Links /\ DbView.next = hashNext
    BY <1>0, DbViewIn DEF ViewInv, DbView
  <2>5. t.next = LinksOf(Target) /\ (NoRepeats /\ IndexedTo(DbView, b0) => IndexedTo(t, Target))
    BY <1>0, <2>1, <2>2, <2>3, <2>4, ReorganizedParts DEF Reorganization
  <2>6. pnext' = LinksOf(Target)
    BY <1>0, <2>1, <2>2, <2>3, RelinkedLinks
  <2>7. IsAncestor(hashSyncCheckpoint, Target)
    <3>1. Beyond(Target, pindexBest) \in Seq(Blocks)
      BY <1>0, AllRooted, BeyondIn
    <3>2. ToSet(vDisconnect(pindexBest, Target)) = ToSet(Beyond(Target, pindexBest))
      BY <3>1, ReverseSet DEF vDisconnect
    <3>3. hashSyncCheckpoint \notin ToSet(Beyond(Target, pindexBest))
      BY <2>3, <3>2 DEF CanDisconnect
    <3> QED BY <1>0, <2>1, <2>2, <3>3, BeyondSet
  <2> HIDE DEF t
  <2>8. /\ op'.at \in {"finish", "connect"} /\ op'.new = op.new
        /\ op'.at = "finish" => Target = op.new
        /\ op'.at = "connect" => op'.todo = Postponed(pindexBest, op.new) /\ Target # op.new
    BY <2>3 DEF Finish, Connect
  <2>9. LinkInv'
    BY <1>1, <2>2, <2>3, <2>5, <2>6, <2>7, <2>8 DEF LinkInv
  <2>10. IndexedTo(t, Target) => IndexInv'
    <3>1. DbView'.tx = txIndex'
      BY DEF DbView
    <3> QED BY <2>3, <3>1 DEF IndexInv, IndexedTo
  <2> QED BY <2>5, <2>9, <2>10 DEF IndexInv
<1>5. CASE ConnectPostponed
  <2> DEFINE q == op.todo
  <2>1. Rest(q, b0, op.new) /\ op.new \in Blocks
    BY <1>0, <1>5 DEF ConnectPostponed, BlocksInv, LinkInv
  <2>2. /\ Extended(Head(q)).ok /\ Extend(Head(q))
        /\ op' = IF Len(q) = 1 THEN Finish(op.new, op.by) ELSE Connect(op.new, op.by, Tail(q))
    BY <1>5 DEF ConnectPostponed
  <2> HIDE DEF q
  <2>3. /\ Head(q) \in Blocks \ {Genesis} /\ Prev[Head(q)] = b0
        /\ IF Len(q) = 1 THEN Head(q) = op.new ELSE Rest(Tail(q), Head(q), op.new)
    BY <2>1, RestStep
  <2>4. /\ hashNext' = LinksOf(Head(q)) /\ pnext' = LinksOf(Head(q)) /\ hashBestChainDisk' = Head(q)
        /\ IsAncestor(hashSyncCheckpoint, Head(q))
        /\ NoRepeats /\ IndexInv => IndexInv'
    BY <1>0, <2>2, <2>3, LinkExtend
  <2>5. /\ op'.at \in {"finish", "connect"} /\ op'.new = op.new
        /\ op'.at = "finish" => Head(q) = op.new
        /\ op'.at = "connect" => Rest(op'.todo, Head(q), op.new)
    BY <2>2, <2>3 DEF Finish, Connect
  <2>6. LinkInv'
    BY <1>1, <2>4, <2>5 DEF LinkInv
  <2> QED BY <2>4, <2>6
<1>6. CASE SwitchExtendFails \/ SwitchReorganizeFails
  <2>1. /\ op.at = "switch" /\ op' \in {Down, Idle} /\ UNCHANGED <<diskVars, pindexBest, pnext>>
    BY <1>6 DEF SwitchExtendFails, SwitchReorganizeFails, SetBestChainFails
  <2>2. op'.at \in {"down", "idle"}
    BY <2>1 DEF Down, Idle
  <2>3. LinkInv'
    BY <1>1, <2>1, <2>2 DEF LinkInv, diskVars
  <2> QED BY <1>2, <2>1, <2>3
<1>8. CASE FinishSwitch
  <2>1. /\ op.at = "finish" /\ op' \in {Pending, WriteReset, WriteCp(op.new)}
        /\ pindexBest' = op.new /\ UNCHANGED <<diskVars, pnext>>
    BY <1>8 DEF FinishSwitch
  <2>2. op'.at \in {"pending", "writereset"} \/ (op'.at = "writecp" /\ op'.new = op.new)
    BY <2>1 DEF Pending, WriteReset, WriteCp
  <2>3. b0 = op.new /\ IsAncestor(op.new, b0)
    BY <1>0, <2>1, AncestorSelf DEF LinkInv
  <2>4. LinkInv'
    BY <1>0, <1>1, <2>1, <2>2, <2>3 DEF LinkInv, diskVars
  <2> QED BY <1>2, <2>1, <2>4
<1> QED
  BY <1>3, <1>4, <1>5, <1>6, <1>8 DEF SetBestChain

\* The other steps.
LEMMA LinkNext ==
  ASSUME ChainInv, LinkInv, [Next]_vars, ~(ConnectPostponedFails /\ vars' # vars)
  PROVE  LinkInv' /\ (NoRepeats /\ IndexInv => IndexInv')
<1>0. /\ BlocksInv /\ OpInv /\ mapBlockIndex \subseteq Blocks
      /\ pindexBest \in Blocks /\ hashBestChainDisk \in Blocks
  BY DEF ChainInv, MempoolInv, BlocksInv, Rooted
<1>2. ASSUME UNCHANGED diskVars PROVE IndexInv => IndexInv'
  <2>1. DbView'.tx = DbView.tx /\ hashBestChainDisk' = hashBestChainDisk
    BY <1>2 DEF DbView, diskVars
  <2> QED BY <2>1 DEF IndexInv, IndexedTo
<1>a. ASSUME UNCHANGED <<diskVars, pindexBest, pnext, hashSyncCheckpoint, op>>
      PROVE  LinkInv' /\ (NoRepeats /\ IndexInv => IndexInv')
  <2>1. LinkInv'
    BY <1>a DEF LinkInv, diskVars
  <2> QED BY <1>2, <1>a, <2>1
<1>1. CASE UNCHANGED vars
  BY <1>1, <1>a DEF vars
<1>3. ASSUME NEW tx \in Txs, AcceptToMemoryPool(tx) \/ TxMessage(tx) \/ CreateNewBlock(tx)
      PROVE  LinkInv' /\ (NoRepeats /\ IndexInv => IndexInv')
  BY <1>3, <1>a DEF AcceptToMemoryPool, TxMessage, CreateNewBlock, chainVars
<1>b. ASSUME UNCHANGED <<diskVars, pindexBest, pnext>>, op.at \notin {"connect", "finish"},
             IsAncestor(hashSyncCheckpoint', hashBestChainDisk),
             \/ op'.at \in {"idle", "writereset", "pending", "switch"}
             \/ op'.at = "writecp" /\ IsAncestor(op'.new, hashBestChainDisk)
      PROVE  LinkInv' /\ (NoRepeats /\ IndexInv => IndexInv')
  <2>1. LinkInv'
    BY <1>b DEF LinkInv, diskVars
  <2> QED BY <1>2, <1>b, <2>1
<1>c. ASSUME op.at \notin {"connect", "finish"}, NEW c \in Blocks, IsInMainChain(c)
      PROVE  IsAncestor(c, hashBestChainDisk)
  BY <1>0, <1>c, MainChainIs DEF LinkInv
<1>d. IsAncestor(hashSyncCheckpoint, hashBestChainDisk)
  BY DEF LinkInv
<1>4. ASSUME NEW b \in Blocks \ {Genesis}, AcceptBlock(b)
      PROVE  LinkInv' /\ (NoRepeats /\ IndexInv => IndexInv')
  <2>1. /\ op = Idle /\ op' \in {Switch(b, "accept"), Pending}
        /\ UNCHANGED <<hashSyncCheckpoint, diskVars, pindexBest, pnext>>
    BY <1>4 DEF AcceptBlock
  <2>2. op.at = "idle" /\ op'.at \in {"pending", "switch"}
    BY <2>1 DEF Switch, Pending, Idle
  <2> QED BY <1>b, <1>d, <2>1, <2>2
<1>5. CASE SetBestChain
  <2>1. CASE ConnectPostponedFails
    <3>1. UNCHANGED vars
      BY <2>1
    <3> QED BY <1>a, <3>1 DEF vars
  <2>2. CASE ~ConnectPostponedFails
    BY <1>5, <2>2, LinkSetBestChain
  <2> QED BY <2>1, <2>2
<1>6. CASE AcceptPendingSyncCheckpoint
  <2> DEFINE c == hashPendingCheckpoint
  <2>1. /\ op = Pending /\ hashSyncCheckpoint' = hashSyncCheckpoint
        /\ UNCHANGED <<diskVars, pindexBest, pnext>>
        /\ \/ op' \in {Idle, Switch(c, "pending")}
           \/ c \in mapBlockIndex /\ IsInMainChain(c) /\ op' = WriteCp(c)
    BY <1>6 DEF AcceptPendingSyncCheckpoint, chainUnchanged
  <2>2. op.at = "pending"
    BY <2>1 DEF Pending
  <2>3. c \in mapBlockIndex /\ IsInMainChain(c) => IsAncestor(c, hashBestChainDisk)
    BY <1>0, <1>c, <2>2
  <2>4. \/ op'.at \in {"idle", "switch"}
        \/ op'.at = "writecp" /\ IsAncestor(op'.new, hashBestChainDisk)
    BY <2>1, <2>3 DEF Idle, WriteCp, Switch
  <2> QED BY <1>b, <1>d, <2>1, <2>2, <2>4
<1>7. ASSUME NEW c \in SignedCheckpoints, ProcessSyncCheckpoint(c)
      PROVE  LinkInv' /\ (NoRepeats /\ IndexInv => IndexInv')
  <2>1. /\ op = Idle /\ hashSyncCheckpoint' = hashSyncCheckpoint
        /\ UNCHANGED <<diskVars, pindexBest, pnext>>
        /\ \/ op' = op \/ op' = Switch(c, "process")
           \/ c \in mapBlockIndex /\ IsInMainChain(c) /\ op' = WriteCp(c)
    BY <1>7 DEF ProcessSyncCheckpoint, chainUnchanged
  <2>2. op.at = "idle"
    BY <2>1 DEF Idle
  <2>3. c \in mapBlockIndex /\ IsInMainChain(c) => IsAncestor(c, hashBestChainDisk)
    BY <1>0, <1>c, <2>2
  <2>4. \/ op'.at \in {"idle", "switch"}
        \/ op'.at = "writecp" /\ IsAncestor(op'.new, hashBestChainDisk)
    BY <2>1, <2>2, <2>3 DEF WriteCp, Switch
  <2> QED BY <1>b, <1>d, <2>1, <2>2, <2>4
<1>8. CASE WriteSyncCheckpoint
  <2>1. /\ op.at = "writecp" /\ op' = Idle /\ hashSyncCheckpoint' = op.new
        /\ UNCHANGED <<diskVars, pindexBest, pnext>>
    BY <1>8 DEF WriteSyncCheckpoint, chainUnchanged
  <2>2. IsAncestor(op.new, hashBestChainDisk) /\ op'.at = "idle"
    BY <2>1 DEF LinkInv, Idle
  <2> QED BY <1>b, <2>1, <2>2
<1>9. CASE ResetSyncCheckpoint
  <2>1. /\ op = ResetCp /\ op' \in {Switch(Last(Hardened), "reset"), WriteReset}
        /\ hashSyncCheckpoint' = hashSyncCheckpoint /\ UNCHANGED <<diskVars, pindexBest, pnext>>
    BY <1>9 DEF ResetSyncCheckpoint, chainUnchanged
  <2>2. op.at = "reset" /\ op'.at \in {"switch", "writereset"}
    BY <2>1 DEF ResetCp, Switch, WriteReset
  <2> QED BY <1>b, <1>d, <2>1, <2>2
<1>10. CASE WriteResetCheckpoint
  <2> DEFINE S == {i \in DOMAIN Hardened : Hardened[i] \in mapBlockIndex /\ IsInMainChain(Hardened[i])}
  <2>1. /\ op = WriteReset /\ op' = Idle /\ hashSyncCheckpoint' = Hardened[Max(S)]
        /\ UNCHANGED <<diskVars, pindexBest, pnext>>
    BY <1>10 DEF WriteResetCheckpoint, chainUnchanged
  <2>2. op.at = "writereset" /\ op'.at = "idle"
    BY <2>1 DEF WriteReset, Idle
  <2>3. Len(Hardened) \in Nat /\ DOMAIN Hardened = 1..Len(Hardened) /\ 1 \in DOMAIN Hardened
        /\ Hardened[1] = Genesis /\ IsInMainChain(Genesis) /\ Genesis \in mapBlockIndex
    BY <1>0, TreeAssumption DEF ChainInv, StartInv, Started, IsInMainChain, BlocksInv, Rooted
  <2>4. 1 \in S /\ S \in SUBSET (1..Len(Hardened))
    BY <2>3
  <2> DEFINE i == Max(S)
  <2>5. i \in S
    <3> HIDE DEF S
    <3> QED BY <2>3, <2>4, MaxIn
  <2> HIDE DEF i
  <2>6. Hardened[i] \in Blocks /\ IsInMainChain(Hardened[i])
    BY <1>0, <2>5
  <2>7. IsAncestor(hashSyncCheckpoint', hashBestChainDisk)
    BY <1>c, <2>1, <2>2, <2>6 DEF i
  <2> HIDE DEF S
  <2> QED BY <1>b, <2>1, <2>2, <2>7
<1>11. ASSUME NEW newKey \in BOOLEAN, Restart(newKey)
       PROVE  LinkInv' /\ (NoRepeats /\ IndexInv => IndexInv')
  <2>1. /\ pindexBest' = hashBestChainDisk /\ pnext' = hashNext /\ op' \in {ResetCp, Idle}
        /\ UNCHANGED <<hashSyncCheckpoint, diskVars>>
    BY <1>11 DEF Restart
  <2>2. op'.at \in {"reset", "idle"}
    BY <2>1 DEF ResetCp, Idle
  <2>3. LinkInv'
    BY <2>1, <2>2 DEF LinkInv, diskVars
  <2> QED BY <1>2, <2>1, <2>3
<1> QED
  BY <1>1, <1>3, <1>4, <1>5, <1>6, <1>7, <1>8, <1>9, <1>10, <1>11 DEF Next

\* The node starts with one chain, that of the genesis block.
LEMMA LinkInit == Init => LinkInv /\ IndexInv
<1> SUFFICES ASSUME Init PROVE LinkInv /\ IndexInv
  OBVIOUS
<1>0. Genesis \in Blocks /\ op.at = "idle"
  BY TreeAssumption DEF Init, Idle
<1> DEFINE f == [b \in Blocks |-> NoBlock]
<1>1. LinksTo(f, Genesis)
  BY AncestorGenesis DEF LinksTo
<1>2. f = LinksOf(Genesis)
  BY <1>0, <1>1, LinksUnique
<1> HIDE DEF f
<1>3. LinkInv
  <2>1. hashNext = f /\ pnext = f
    BY DEF Init, f
  <2>2. IsAncestor(Genesis, Genesis)
    BY <1>0, AncestorSelf
  <2> QED BY <1>0, <1>2, <2>1, <2>2 DEF Init, LinkInv
<1>4. IndexInv
  <2>1. ChainTxs(Genesis) = {} /\ Ordered(Genesis)
    BY AncestorGenesis DEF ChainTxs, Ordered
  <2>2. DbView.tx = [t \in Txs |-> Absent] /\ hashBestChainDisk = Genesis
    BY DEF Init, DbView
  <2>3. Indexes([t \in Txs |-> Absent], {})
    BY TreeAssumption DEF Indexes
  <2> QED BY <2>1, <2>2, <2>3 DEF IndexInv, IndexedTo
<1> QED
  BY <1>3, <1>4

\* A behaviour in which every postponed block connects.
PostponedConnect == [][~ConnectPostponedFails]_vars

\* Then hashNext and pnext show one chain, to the best block, at every commit of
\* SetBestChain: while postponed blocks are still to be connected (vpindexSecondary)
\* they lead on from that block to the one the operation is for.
THEOREM LinkInvariant == Spec /\ PostponedConnect => []LinkInv
<1>1. Init => LinkInv
  BY LinkInit
<1>2. ChainInv /\ LinkInv /\ [Next]_vars /\ [~ConnectPostponedFails]_vars => LinkInv'
  BY LinkNext
<1> QED
  BY <1>1, <1>2, ChainInvariant, PTL DEF Spec, PostponedConnect

\* Between two operations pindexBest is hashBestChain and pnext is hashNext, and it
\* leads from the genesis block to pindexBest and nowhere else (Reorganize,
\* SetBestChainInner, LoadBlockIndex), unless a postponed block failed.
THEOREM MemoryAlwaysDisk == Spec /\ PostponedConnect => []MemoryIsDisk
<1>1. LinkInv => MemoryIsDisk
  BY DEF LinkInv, MemoryIsDisk, Idle
<1> QED
  BY <1>1, LinkInvariant, PTL

\* The sync-checkpoint is on the best chain on disk, at every commit, unless a
\* postponed block failed (Reorganize's test of vDisconnect, IsInMainChain).
THEOREM CheckpointAlwaysInMainChain == Spec /\ PostponedConnect => []CheckpointInMainChain
<1>1. LinkInv => CheckpointInMainChain
  BY DEF LinkInv, CheckpointInMainChain
<1> QED
  BY <1>1, LinkInvariant, PTL

\* What the index of a chain is.
LEMMA IndexMatches ==
  ASSUME ViewInv, IndexInv
  PROVE  TxIndexMatchesBest
<1> DEFINE C == ChainTxs(hashBestChainDisk)
           f == txIndex
<1>1. Indexes(f, C)
  BY DEF IndexInv, IndexedTo, DbView
<1>2. f \in [Txs -> Txs \cup {Absent, Unspent}] /\ C \subseteq Txs
  <2>1. \A a \in Blocks : ToSet(vtx[a]) \subseteq Txs
    BY TreeAssumption DEF ToSet
  <2> QED BY <2>1 DEF ViewInv, ChainTxs
<1> HIDE DEF C, f
<1>3. ASSUME NEW t \in Txs
      PROVE  LET S == {u \in C : t \in ToSet(vin[u])}
             IN CASE t \notin C            -> f[t] = Absent
                  [] t \in C /\ S = {}     -> f[t] = Unspent
                  [] OTHER                 -> S = {f[t]}
  <2> DEFINE S == {u \in C : t \in ToSet(vin[u])}
  <2>1. f[t] = Absent <=> t \notin C
    BY <1>1 DEF Indexes
  <2>2. \A u \in Txs : f[t] = u <=> u \in S
    BY <1>1 DEF Indexes
  <2>3. S \subseteq Txs
    BY <1>2
  <2> HIDE DEF S
  <2>4. ASSUME t \in C, S = {} PROVE f[t] = Unspent
    <3>1. f[t] \in Txs \cup {Absent, Unspent}
      BY <1>2
    <3> QED BY <2>1, <2>2, <2>4, <3>1
  <2>5. ASSUME S # {} PROVE S = {f[t]}
    <3>1. PICK u \in S : TRUE
      BY <2>5
    <3>2. f[t] = u /\ \A w \in S : f[t] = w
      BY <2>2, <2>3, <3>1
    <3> QED BY <3>1, <3>2
  <2> QED BY <2>1, <2>4, <2>5 DEF S
<1> QED
  BY <1>3 DEF TxIndexMatchesBest, Spenders, C, f

\* hashNext leads to hashBestChain, and the transaction index is that of its chain,
\* at every commit: exactly its transactions are indexed, each output is spent once
\* and by the transaction vSpent names (ConnectInputs, DisconnectInputs, Reorganize).
\* A block may repeat a transaction whose outputs are all spent, which the index has
\* no room for, so that the theorem is about trees where none does; and a postponed
\* block that fails leaves memory ahead of the disk.
THEOREM DiskAlwaysOneChain ==
  ASSUME NoRepeats
  PROVE  Spec /\ PostponedConnect => []DiskIsOneChain
<1>1. Init => IndexInv
  BY LinkInit
<1>2. ChainInv /\ LinkInv /\ IndexInv /\ [Next]_vars /\ [~ConnectPostponedFails]_vars => IndexInv'
  BY LinkNext
<1>3. ChainInv /\ LinkInv /\ IndexInv => DiskIsOneChain
  BY IndexMatches DEF ChainInv, LinkInv, DiskIsOneChain
<1> QED
  BY <1>1, <1>2, <1>3, ChainInvariant, LinkInvariant, PTL DEF Spec, PostponedConnect

-----------------------------------------------------------------------------
(***************************************************************************)
(* What is confirmed and what is in the pool.                              *)
(***************************************************************************)

\* A transaction of the path to b that is not, in the same block, on the path to a.
OnBranch(tx, b, a) ==
  \E c \in Blocks \ {Genesis} : IsAncestor(c, b) /\ ~IsAncestor(c, a) /\ tx \in ToSet(vtx[c])

\* The transactions of a list of blocks, as a set.
LEMMA TxsOfSet ==
  ASSUME NEW bs \in Seq(Blocks)
  PROVE  \A tx : tx \in ToSet(TxsOf(bs)) <=> \E c \in ToSet(bs) : tx \in ToSet(vtx[c])
<1> DEFINE ss == [i \in DOMAIN bs |-> vtx[bs[i]]]
<1>1. \A i \in 1..Len(bs) : vtx[bs[i]] \in Seq(Txs)
  <2>1. vtx \in [Blocks -> Seq(Txs)] /\ \A i \in 1..Len(bs) : bs[i] \in Blocks
    BY TreeAssumption
  <2> QED BY <2>1
<1>2. DOMAIN bs = 1..Len(bs) /\ Len(bs) \in Nat
  OBVIOUS
<1>3. ss \in Seq(Seq(Txs)) /\ Len(ss) = Len(bs) /\ \A i \in 1..Len(bs) : ss[i] = vtx[bs[i]]
  BY <1>1, <1>2
<1> HIDE DEF ss
<1>4. \A tx : tx \in ToSet(FlattenSeq(ss)) <=> \E i \in 1..Len(bs) : tx \in ToSet(vtx[bs[i]])
  <2>1. \A tx : tx \in ToSet(FlattenSeq(ss)) <=> \E i \in 1..Len(ss) : tx \in ToSet(ss[i])
    BY <1>3, FlattenedSet
  <2> QED BY <1>3, <2>1, Zenon
<1>5. ToSet(bs) = {bs[i] : i \in 1..Len(bs)}
  BY <1>2 DEF ToSet
<1>6. TxsOf(bs) = FlattenSeq(ss)
  BY DEF TxsOf, ss
<1> QED
  BY <1>4, <1>5, <1>6

\* Those that Reorganize disconnects or connects.
LEMMA BranchTxs ==
  ASSUME NEW a \in Blocks, NEW b \in Blocks
  PROVE  \A q \in {Beyond(a, b), Reverse(Beyond(a, b))} :
           q \in Seq(Blocks) /\ \A tx : tx \in ToSet(TxsOf(q)) <=> OnBranch(tx, b, a)
<1>1. Beyond(a, b) \in Seq(Blocks)
  BY AllRooted, BeyondIn
<1>2. Reverse(Beyond(a, b)) \in Seq(Blocks) /\ ToSet(Reverse(Beyond(a, b))) = ToSet(Beyond(a, b))
  <2>1. \A q \in Seq(Blocks) : Reverse(q) \in Seq(Blocks)
    BY DEF Reverse
  <2> QED BY <1>1, <2>1, ReverseSet
<1>3. \A c : c \in ToSet(Beyond(a, b)) <=> IsAncestor(c, b) /\ ~IsAncestor(c, a)
  BY BeyondSet
<1>4. \A c : IsAncestor(c, b) /\ ~IsAncestor(c, a) => c \in Blocks \ {Genesis}
  BY AncestorAt, AncestorSelf
<1>5. ASSUME NEW q \in {Beyond(a, b), Reverse(Beyond(a, b))}
      PROVE  q \in Seq(Blocks) /\ \A tx : tx \in ToSet(TxsOf(q)) <=> OnBranch(tx, b, a)
  <2>1. q \in Seq(Blocks) /\ ToSet(q) = ToSet(Beyond(a, b))
    BY <1>1, <1>2
  <2>2. \A tx : tx \in ToSet(TxsOf(q)) <=> \E c \in ToSet(q) : tx \in ToSet(vtx[c])
    BY <2>1, TxsOfSet
  <2> QED BY <1>3, <1>4, <2>1, <2>2 DEF OnBranch
<1> QED
  BY <1>5

\* The pool after a reorganization: the transactions of the old branch, or rivals of
\* theirs, have come, and the transactions of the new branch, and no other, have gone.
LEMMA ReorganizedPool ==
  ASSUME Pool \in GoodPool, pindexBest \in Blocks, NEW new \in Blocks, SetPool(PoolAfter(new))
  PROVE  \E r \in GoodPool :
           /\ mapTx \subseteq r.tx /\ \A tx \in r.tx : tx \in mapTx \/ OnBranch(tx, pindexBest, new)
           /\ \A tx : OnBranch(tx, pindexBest, new) => IsKept(r, tx)
           /\ \A tx : tx \in mapTx' <=> tx \in r.tx /\ ~OnBranch(tx, new, pindexBest)
<1> DEFINE old == TxsOf(vDisconnect(pindexBest, new))
           add == TxsOf(vConnect(pindexBest, new))
           r == FoldLeft(Resurrect, Pool, old)
<1>1. /\ vDisconnect(pindexBest, new) \in Seq(Blocks) /\ vConnect(pindexBest, new) \in Seq(Blocks)
      /\ \A tx : tx \in ToSet(old) <=> OnBranch(tx, pindexBest, new)
      /\ \A tx : tx \in ToSet(add) <=> OnBranch(tx, new, pindexBest)
  BY BranchTxs DEF vDisconnect, vConnect
<1>2. old \in Seq(Txs) /\ add \in Seq(Txs)
  BY <1>1, TxsOfIn
<1>3. mapTx' = RemoveAll(r, add).tx
  BY DEF SetPool, PoolAfter
<1> HIDE DEF old, add
<1>4. /\ Len(old) \in Nat /\ old \in [1..Len(old) -> Txs] /\ ToSet(old) = {old[i] : i \in 1..Len(old)}
      /\ Len(add) \in Nat /\ DOMAIN add = 1..Len(add) /\ ToSet(add) = {add[i] : i \in 1..Len(add)}
  BY <1>2 DEF ToSet
<1>5. /\ r \in GoodPool /\ Pool.tx \subseteq r.tx
      /\ r.tx \subseteq Pool.tx \cup {old[i] : i \in 1..Len(old)}
      /\ \A i \in 1..Len(old) : IsKept(r, old[i])
  BY <1>4, ResurrectGood
<1> HIDE DEF r
<1>6. RemoveAll(r, add).tx = r.tx \ {add[i] : i \in 1..Len(add)}
  BY <1>4, <1>5, RemoveAllGood
<1>7. Pool.tx = mapTx
  BY DEF Pool
<1>8. r.tx \subseteq mapTx \cup ToSet(old) /\ \A tx \in ToSet(old) : IsKept(r, tx)
  BY <1>4, <1>5, <1>7
<1>9. mapTx' = r.tx \ ToSet(add)
  BY <1>3, <1>4, <1>6
<1> QED
  BY <1>1, <1>5, <1>7, <1>8, <1>9

\* No transaction is in two blocks of one path.
LEMMA OneBlock ==
  ASSUME NoRepeats, NEW b \in Blocks, NEW c \in Blocks \ {Genesis}, NEW d \in Blocks \ {Genesis},
         IsAncestor(c, b), IsAncestor(d, b), NEW tx, tx \in ToSet(vtx[c]), tx \in ToSet(vtx[d])
  PROVE  c = d
<1>1. ASSUME NEW x \in Blocks \ {Genesis}, NEW y \in Blocks \ {Genesis}, IsAncestor(x, y),
             tx \in ToSet(vtx[x]), tx \in ToSet(vtx[y])
      PROVE  x = y
  <2> SUFFICES ASSUME x # y PROVE FALSE
    OBVIOUS
  <2>1. IsAncestor(x, Prev[y])
    BY <1>1, AncestorStep
  <2>2. tx \in ChainTxs(Prev[y])
    BY <1>1, <2>1 DEF ChainTxs
  <2>3. Len(vtx[y]) \in Nat /\ DOMAIN vtx[y] = 1..Len(vtx[y])
    BY TreeAssumption
  <2>4. PICK n \in 1..Len(vtx[y]) : tx = vtx[y][n]
    BY <1>1, <2>3 DEF ToSet
  <2> QED BY <2>2, <2>4 DEF NoRepeats, TxsUpTo
<1>2. Len(ChainTo[c]) \in Nat /\ Len(ChainTo[d]) \in Nat
  BY PathParts
<1>3. Len(ChainTo[c]) <= Len(ChainTo[d]) \/ Len(ChainTo[d]) <= Len(ChainTo[c])
  BY <1>2
<1>4. IsAncestor(c, d) \/ IsAncestor(d, c)
  BY <1>3, AncestorChain
<1> QED
  BY <1>1, <1>4

\* After a reorganization nothing of the pool is confirmed, and every payment is kept.
LEMMA ReorganizedPayments ==
  ASSUME Pool \in GoodPool, pindexBest \in Blocks, pindexBest = hashBestChainDisk,
         NEW new \in Blocks, SetPool(PoolAfter(new)), hashBestChainDisk' = new
  PROVE  /\ NoRepeats /\ mapTx \cap ChainTxs(hashBestChainDisk) = {}
              => mapTx' \cap ChainTxs(hashBestChainDisk') = {}
         /\ \A t \in (Payments \ Payments') \ NonStandardTxs : \E u \in Payments' : Rival(t, u)
<1> DEFINE b == pindexBest
<1>1. PICK r \in GoodPool :
             /\ mapTx \subseteq r.tx /\ \A tx \in r.tx : tx \in mapTx \/ OnBranch(tx, b, new)
             /\ \A tx : OnBranch(tx, b, new) => IsKept(r, tx)
             /\ \A tx : tx \in mapTx' <=> tx \in r.tx /\ ~OnBranch(tx, new, b)
  BY ReorganizedPool
<1>2. \A x \in Blocks : \A tx : tx \in ChainTxs(x)
                          <=> \E c \in Blocks \ {Genesis} : IsAncestor(c, x) /\ tx \in ToSet(vtx[c])
  BY DEF ChainTxs
<1> HIDE DEF b
<1>3. b \in Blocks
  BY DEF b
<1>4. ASSUME NoRepeats, mapTx \cap ChainTxs(b) = {}, NEW tx \in mapTx', tx \in ChainTxs(new)
      PROVE  FALSE
  <2>1. PICK c \in Blocks \ {Genesis} : IsAncestor(c, new) /\ tx \in ToSet(vtx[c])
    BY <1>2, <1>4
  <2>2. tx \in r.tx /\ IsAncestor(c, b)
    BY <1>1, <1>4, <2>1 DEF OnBranch
  <2>3. tx \in ChainTxs(b)
    BY <1>2, <1>3, <2>1, <2>2
  <2>4. OnBranch(tx, b, new)
    BY <1>1, <1>4, <2>2, <2>3
  <2>5. PICK d \in Blocks \ {Genesis} : IsAncestor(d, b) /\ ~IsAncestor(d, new) /\ tx \in ToSet(vtx[d])
    BY <2>4 DEF OnBranch
  <2>6. c = d
    BY <1>3, <1>4, <2>1, <2>2, <2>5, OneBlock
  <2> QED BY <2>1, <2>5, <2>6
<1>5. r.tx \subseteq Txs \ Coinbases
  BY DEF GoodPool
<1>6. Payments = mapTx \cup (ChainTxs(b) \ Coinbases)
  BY DEF Payments, b
<1>7. Payments' = mapTx' \cup (ChainTxs(new) \ Coinbases)
  BY DEF Payments
<1>8. \A tx \in r.tx : tx \in Payments'
  <2>1. \A tx : OnBranch(tx, new, b) => tx \in ChainTxs(new)
    BY <1>2 DEF OnBranch
  <2> QED BY <1>1, <1>5, <1>7, <2>1
<1>9. ASSUME NEW t \in Payments, t \notin Payments', t \notin NonStandardTxs
      PROVE  \E u \in Payments' : Rival(t, u)
  <2>1. t \notin r.tx
    BY <1>8, <1>9
  <2>2. t \in ChainTxs(b) /\ t \notin Coinbases /\ t \notin ChainTxs(new)
    BY <1>1, <1>6, <1>7, <1>9, <2>1
  <2>3. OnBranch(t, b, new)
    BY <1>2, <1>3, <2>2 DEF OnBranch
  <2>4. PICK u \in r.tx : Rival(t, u)
    BY <1>1, <1>9, <2>1, <2>2, <2>3 DEF IsKept
  <2> QED BY <1>8, <2>4
<1> QED
  BY <1>4, <1>9 DEF b

\* The same after one block on top of the best one.
LEMMA ExtendedPayments ==
  ASSUME Pool \in GoodPool, NEW b \in Blocks \ {Genesis}, Prev[b] = hashBestChainDisk, Extend(b)
  PROVE  /\ mapTx \cap ChainTxs(hashBestChainDisk) = {} => mapTx' \cap ChainTxs(hashBestChainDisk') = {}
         /\ Payments \subseteq Payments'
<1>1. ChainTxs(b) = ChainTxs(hashBestChainDisk) \cup ToSet(vtx[b])
  BY ChainTxsStep
<1>2. vtx[b] \in Seq(Txs)
  BY TreeAssumption
<1>3. Len(vtx[b]) \in Nat /\ DOMAIN vtx[b] = 1..Len(vtx[b]) /\ ToSet(vtx[b]) = {vtx[b][i] : i \in 1..Len(vtx[b])}
  BY <1>2 DEF ToSet
<1>4. RemoveAll(Pool, vtx[b]).tx = Pool.tx \ ToSet(vtx[b])
  BY <1>3, RemoveAllGood
<1>5. mapTx' = mapTx \ ToSet(vtx[b]) /\ hashBestChainDisk' = b
  BY <1>4 DEF Extend, SetPool, TxnCommit, Pool
<1>6. mapTx \subseteq Txs \ Coinbases
  BY DEF GoodPool, Pool
<1> QED
  BY <1>1, <1>5, <1>6 DEF Payments

\* No payment is lost in a step of SetBestChain, and what was confirmed is not in the
\* pool.
LEMMA PaymentsSetBestChain ==
  ASSUME ChainInv, LinkInv, SetBestChain
  PROVE  /\ NoRepeats /\ mapTx \cap ChainTxs(hashBestChainDisk) = {}
              => mapTx' \cap ChainTxs(hashBestChainDisk') = {}
         /\ \A t \in (Payments \ Payments') \ NonStandardTxs : \E u \in Payments' : Rival(t, u)
<1>0. /\ Pool \in GoodPool /\ BlocksInv /\ OpInv /\ mapBlockIndex \subseteq Blocks
      /\ pindexBest \in Blocks /\ hashBestChainDisk \in Blocks
  BY DEF ChainInv, MempoolInv, BlocksInv, Rooted
<1>1. CASE SwitchExtend
  <2>1. /\ op.new \in Blocks \ {Genesis} /\ Prev[op.new] = hashBestChainDisk /\ Extend(op.new)
    BY <1>0, <1>1 DEF SwitchExtend, BlocksInv, OpInv, LinkInv
  <2> QED BY <1>0, <2>1, ExtendedPayments
<1>2. CASE SwitchReorganize
  <2>1. op.new \in Blocks /\ op.new # Genesis /\ pindexBest = hashBestChainDisk
    BY <1>0, <1>2 DEF SwitchReorganize, BlocksInv, OpInv, LinkInv
  <2>2. Target \in Blocks
    BY <1>0, <2>1, TargetIs DEF Target
  <2>3. hashBestChainDisk' = Target /\ SetPool(PoolAfter(Target))
    BY <1>2 DEF SwitchReorganize, TxnCommit
  <2> QED BY <1>0, <2>1, <2>2, <2>3, ReorganizedPayments
<1>3. CASE ConnectPostponed
  <2>1. Rest(op.todo, hashBestChainDisk, op.new) /\ op.new \in Blocks /\ Extend(Head(op.todo))
    BY <1>0, <1>3 DEF ConnectPostponed, BlocksInv, LinkInv
  <2>2. Head(op.todo) \in Blocks \ {Genesis} /\ Prev[Head(op.todo)] = hashBestChainDisk
    BY <2>1, RestStep
  <2> QED BY <1>0, <2>1, <2>2, ExtendedPayments
<1>4. CASE SwitchExtendFails \/ SwitchReorganizeFails \/ ConnectPostponedFails \/ FinishSwitch
  <2>1. UNCHANGED <<mapTx, hashBestChainDisk>>
    BY <1>4 DEF SwitchExtendFails, SwitchReorganizeFails, SetBestChainFails,
                ConnectPostponedFails, FinishSwitch, diskVars, poolVars
  <2> QED BY <2>1 DEF Payments
<1> QED
  BY <1>1, <1>2, <1>3, <1>4 DEF SetBestChain

\* A tx message, or the wallet, adds what is not indexed.
LEMMA PaymentsAccept ==
  ASSUME ChainInv, NEW tx \in Txs, AcceptToMemoryPool(tx) \/ TxMessage(tx)
  PROVE  /\ mapTx \subseteq mapTx' /\ hashBestChainDisk' = hashBestChainDisk
         /\ \A t \in mapTx' \ mapTx : txIndex[t] = Absent
<1>0. /\ Pool \in GoodPool /\ OrphanInv /\ Pool.tx = mapTx
      /\ mapOrphanTransactionsByPrev \in [Txs -> SUBSET Txs]
  BY DEF ChainInv, MempoolInv, OrphanInv, GoodOrphans, Orphans, Pool
<1>1. hashBestChainDisk' = hashBestChainDisk
  BY DEF AcceptToMemoryPool, TxMessage, chainVars, diskVars
<1>2. Pool \in NewPools
  BY <1>0 DEF NewPools
<1>3. ASSUME NEW p \in NewPools, SetPool(p)
      PROVE  mapTx \subseteq mapTx' /\ \A t \in mapTx' \ mapTx : txIndex[t] = Absent
  BY <1>3 DEF NewPools, SetPool
<1>4. CASE AcceptToMemoryPool(tx)
  <2>1. addUnchecked(Pool, tx) \in NewPools /\ SetPool(addUnchecked(Pool, tx))
    BY <1>2, <1>4, AddedNew DEF AcceptToMemoryPool
  <2> QED BY <1>1, <1>3, <2>1
<1>5. CASE TxMessage(tx)
  <2>1. CASE checkAccept(Pool, tx) /\ SetPool(Adopt(tx).pool)
    <3>1. Adopt(tx).pool \in NewPools
      BY <1>0, <2>1, AdoptedGood DEF Work
    <3> QED BY <1>1, <1>3, <2>1, <3>1
  <2>2. CASE SetPool(Pool)
    BY <1>1, <1>2, <1>3, <2>2
  <2> QED BY <1>5, <2>1, <2>2 DEF TxMessage
<1> QED
  BY <1>4, <1>5

\* The other steps leave the pool and the chain alone, or empty the pool.
LEMMA PaymentsNext ==
  ASSUME ChainInv, LinkInv, Next
  PROVE  /\ NoRepeats /\ IndexInv /\ mapTx \cap ChainTxs(hashBestChainDisk) = {}
              => mapTx' \cap ChainTxs(hashBestChainDisk') = {}
         /\ restarts' = restarts => \A t \in (Payments \ Payments') \ NonStandardTxs :
                                      (\E u \in Payments' : Rival(t, u)) \/ CreateNewBlock(t)
<1>1. ASSUME NEW tx \in Txs, AcceptToMemoryPool(tx) \/ TxMessage(tx)
      PROVE  /\ IndexInv /\ mapTx \cap ChainTxs(hashBestChainDisk) = {}
                  => mapTx' \cap ChainTxs(hashBestChainDisk') = {}
             /\ Payments \subseteq Payments'
  <2>1. /\ mapTx \subseteq mapTx' /\ hashBestChainDisk' = hashBestChainDisk
        /\ \A t \in mapTx' \ mapTx : txIndex[t] = Absent
    BY <1>1, PaymentsAccept
  <2>2. ASSUME IndexInv, NEW t \in ChainTxs(hashBestChainDisk) PROVE txIndex[t] # Absent
    <3>1. t \in Txs
      <4>1. \A a \in Blocks : ToSet(vtx[a]) \subseteq Txs
        BY TreeAssumption DEF ToSet
      <4> QED BY <4>1, <2>2 DEF ChainTxs
    <3> QED BY <2>2, <3>1 DEF IndexInv, IndexedTo, Indexes, DbView
  <2>3. Payments \subseteq Payments'
    BY <2>1 DEF Payments
  <2> QED BY <2>1, <2>2, <2>3
<1>2. ASSUME UNCHANGED <<diskVars, poolVars>>
      PROVE  /\ mapTx' = mapTx /\ hashBestChainDisk' = hashBestChainDisk /\ Payments' = Payments
  BY <1>2 DEF diskVars, poolVars, Payments
<1>3. ASSUME NEW b \in Blocks \ {Genesis}, AcceptBlock(b) PROVE UNCHANGED <<diskVars, poolVars>>
  BY <1>3 DEF AcceptBlock
<1>4. CASE \/ AcceptPendingSyncCheckpoint \/ (\E c \in SignedCheckpoints : ProcessSyncCheckpoint(c))
           \/ WriteSyncCheckpoint \/ ResetSyncCheckpoint \/ WriteResetCheckpoint
  <2>1. UNCHANGED <<diskVars, poolVars>>
    BY <1>4 DEF AcceptPendingSyncCheckpoint, ProcessSyncCheckpoint, WriteSyncCheckpoint,
                ResetSyncCheckpoint, WriteResetCheckpoint, chainUnchanged
  <2> QED BY <1>2, <2>1
<1>6. ASSUME NEW tx \in Txs, CreateNewBlock(tx)
      PROVE  /\ mapTx' = mapTx \ {tx} /\ hashBestChainDisk' = hashBestChainDisk
             /\ \A t \in Payments \ Payments' : t = tx
  <2>1. mapTx' = mapTx \ {tx}
    BY <1>6 DEF CreateNewBlock, SetPool, PoolRemove, Pool
  <2>2. hashBestChainDisk' = hashBestChainDisk
    BY <1>6 DEF CreateNewBlock, chainVars, diskVars
  <2> QED BY <2>1, <2>2 DEF Payments
<1>5. ASSUME NEW newKey \in BOOLEAN, Restart(newKey)
      PROVE  mapTx' = {} /\ restarts' # restarts
  <2>1. restarts \in Nat
    BY BoundsAssumption DEF ChainInv, OpInv
  <2> QED BY <1>5, <2>1 DEF Restart, SetPool
<1> QED
  <2>1. CASE \E tx \in Txs : CreateNewBlock(tx)
    BY <1>6, <2>1
  <2>2. CASE ~\E tx \in Txs : CreateNewBlock(tx)
    BY <1>1, <1>2, <1>3, <1>4, <1>5, <2>2, PaymentsSetBestChain DEF Next
  <2> QED BY <2>1, <2>2

\* A payment that was confirmed or in the pool is confirmed or in the pool after every
\* step that is not a restart, or a rival of it is: Reorganize resurrects the
\* transactions of the blocks it disconnects before it removes those of the blocks it
\* connects, and a switch that fails half-way changes neither.  Two things do lose one:
\* a reorganization, when accept refuses the payment for its nLockTime or as not
\* standard, and CreateNewBlock, when the payment's infos cannot be processed.
THEOREM PaymentsAlwaysKept == Spec /\ PostponedConnect => PaymentsKept
<1>1. ChainInv /\ LinkInv /\ [Next]_vars
        => [restarts' = restarts => \A t \in (Payments \ Payments') \ NonStandardTxs :
                                      (\E u \in Payments' : Rival(t, u)) \/ CreateNewBlock(t)]_vars
  BY PaymentsNext
<1> QED
  BY <1>1, ChainInvariant, LinkInvariant, PTL DEF Spec, PaymentsKept

\* No transaction of the pool is confirmed, at every commit, and mapNextTx is exact:
\* checkAccept looks the transaction up in the index, SetBestChainInner and Reorganize
\* remove what they connect, what has just been resurrected included.  As in
\* DiskAlwaysOneChain no path repeats a transaction.
THEOREM PoolAlwaysFollowsChain ==
  ASSUME NoRepeats
  PROVE  Spec /\ PostponedConnect => []PoolFollowsChain
<1> DEFINE Apart == mapTx \cap ChainTxs(hashBestChainDisk) = {}
<1>1. Init => IndexInv /\ Apart
  BY LinkInit DEF Init
<1>2. ChainInv /\ LinkInv /\ IndexInv /\ Apart /\ [Next]_vars /\ [~ConnectPostponedFails]_vars
        => IndexInv' /\ Apart'
  <2>1. ChainInv /\ LinkInv /\ IndexInv /\ [Next]_vars /\ [~ConnectPostponedFails]_vars => IndexInv'
    BY LinkNext
  <2>2. CASE UNCHANGED vars
    BY <2>1, <2>2 DEF vars, diskVars, poolVars
  <2>3. CASE Next
    BY <2>1, <2>3, PaymentsNext
  <2> QED BY <2>2, <2>3
<1>3. Apart /\ PoolIndexed => PoolFollowsChain
  BY DEF PoolFollowsChain
<1> QED
  BY <1>1, <1>2, <1>3, ChainInvariant, LinkInvariant, PoolAlwaysIndexed, PTL DEF Spec, PostponedConnect

-----------------------------------------------------------------------------
(***************************************************************************)
(* The work queue of the tx message.  Every transaction that is accepted   *)
(* enters it once, so that as many rounds as there are transactions empty  *)
(* it; an orphan that was tried is erased, or misses an input, or will be  *)
(* tried again because one of its inputs is in the queue.                  *)
(***************************************************************************)

\* The pool has grown by the entries of the queue, each of which entered it once.
Queued(w) ==
  /\ w.pool.tx = mapTx \cup ToSet(w.vWorkQueue)
  /\ \A i, j \in 1..Len(w.vWorkQueue) : w.vWorkQueue[i] = w.vWorkQueue[j] => i = j

\* o is to be erased, or misses an input, or spends an entry after the n-th.
Waits(w, o, n) ==
  \/ o \in ToSet(w.vEraseQueue) \/ MissesInput(w.pool, o)
  \/ \E j \in 1..Len(w.vWorkQueue) : n < j /\ w.vWorkQueue[j] \in ToSet(vin[o])

\* The orphans that spend one of the first n entries.
Tried(w, n) ==
  {o \in mapOrphanTransactions :
     \E j \in 1..Len(w.vWorkQueue) : j <= n /\ w.vWorkQueue[j] \in ToSet(vin[o])}

\* The queue only grows at its end.
Longer(v, w) ==
  /\ Len(w.vWorkQueue) <= Len(v.vWorkQueue)
  /\ \A i \in 1..Len(w.vWorkQueue) : v.vWorkQueue[i] = w.vWorkQueue[i]

\* What Append does to a sequence.
LEMMA AppendParts ==
  ASSUME NEW S, NEW q \in Seq(S), NEW x \in S
  PROVE  /\ Append(q, x) \in Seq(S) /\ Len(q) \in Nat /\ Len(Append(q, x)) = Len(q) + 1
         /\ \A i \in 1..Len(q) : i \in 1..(Len(q) + 1) /\ Append(q, x)[i] = q[i]
         /\ Len(q) + 1 \in 1..(Len(q) + 1) /\ Append(q, x)[Len(q) + 1] = x
         /\ \A i \in 1..(Len(q) + 1) : i = Len(q) + 1 \/ i \in 1..Len(q)
         /\ ToSet(Append(q, x)) = ToSet(q) \cup {x}
<1>1. /\ Append(q, x) \in Seq(S) /\ Len(q) \in Nat /\ Len(Append(q, x)) = Len(q) + 1
      /\ \A i \in 1..Len(q) : i \in 1..(Len(q) + 1) /\ Append(q, x)[i] = q[i]
      /\ Len(q) + 1 \in 1..(Len(q) + 1) /\ Append(q, x)[Len(q) + 1] = x
      /\ DOMAIN q = 1..Len(q) /\ DOMAIN Append(q, x) = 1..(Len(q) + 1)
  OBVIOUS
<1>2. \A i \in 1..(Len(q) + 1) : i = Len(q) + 1 \/ i \in 1..Len(q)
  BY <1>1
<1> DEFINE r == Append(q, x)
           m == Len(q)
<1> HIDE DEF r, m
<1>3. /\ DOMAIN q = 1..m /\ DOMAIN r = 1..(m + 1) /\ r[m + 1] = x /\ m + 1 \in 1..(m + 1)
      /\ \A i \in 1..m : i \in 1..(m + 1) /\ r[i] = q[i]
      /\ \A i \in 1..(m + 1) : i = m + 1 \/ i \in 1..m
  BY <1>1, <1>2 DEF r, m
<1>4. ToSet(r) = ToSet(q) \cup {x}
  <2>1. \A v : (\E i \in 1..(m + 1) : v = r[i]) <=> (\E i \in 1..m : v = q[i]) \/ v = x
    BY <1>3
  <2>2. ToSet(r) = {r[i] : i \in 1..(m + 1)} /\ ToSet(q) = {q[i] : i \in 1..m}
    BY <1>3, Zenon DEF ToSet
  <2> QED BY <2>1, <2>2
<1> QED
  BY <1>1, <1>2, <1>4 DEF r

\* One orphan is tried: it need not be tried again, and neither need those before it.
LEMMA TriedStep ==
  ASSUME NEW w \in Work, Queued(w), NEW o \in Txs, NEW n \in Nat, n <= Len(w.vWorkQueue),
         NEW D, \A d \in D : Waits(w, d, n)
  PROVE  LET v == TryOrphan(w, o)
         IN Queued(v) /\ Longer(v, w) /\ \A d \in D \cup {o} : Waits(v, d, n)
<1> DEFINE v == TryOrphan(w, o)
           q == w.vWorkQueue
           e == w.vEraseQueue
<1>0. q \in Seq(Txs) /\ e \in Seq(Txs) /\ Len(q) \in Nat
  BY DEF Work
<1>1. CASE checkAccept(w.pool, o)
  <2>1. v.pool = addUnchecked(w.pool, o) /\ v.vWorkQueue = Append(q, o) /\ v.vEraseQueue = Append(e, o)
    BY <1>1 DEF TryOrphan
  <2>2. v.pool.tx = w.pool.tx \cup {o} /\ o \notin w.pool.tx
    BY <1>1, <2>1 DEF addUnchecked, checkAccept, IsNew, NoConflict
  <2> HIDE DEF v, q, e
  <2> DEFINE r == v.vWorkQueue
  <2>3. /\ Len(r) = Len(q) + 1 /\ \A i \in 1..Len(q) : i \in 1..(Len(q) + 1) /\ r[i] = q[i]
        /\ Len(q) + 1 \in 1..(Len(q) + 1) /\ r[Len(q) + 1] = o
        /\ \A i \in 1..(Len(q) + 1) : i = Len(q) + 1 \/ i \in 1..Len(q)
        /\ ToSet(r) = ToSet(q) \cup {o} /\ ToSet(v.vEraseQueue) = ToSet(e) \cup {o}
    BY <1>0, <2>1, AppendParts
  <2> HIDE DEF r
  <2>4. w.pool.tx = mapTx \cup ToSet(q) /\ \A i, j \in 1..Len(q) : q[i] = q[j] => i = j
    BY DEF Queued, q
  <2>5. v.pool.tx = mapTx \cup ToSet(r)
    BY <2>2, <2>3, <2>4
  <2>6. ASSUME NEW i \in 1..Len(r), NEW j \in 1..Len(r), r[i] = r[j] PROVE i = j
    <3>1. \A k \in 1..Len(q) : q[k] # o
      BY <1>0, <2>2, <2>4 DEF ToSet
    <3> QED BY <2>3, <2>4, <2>6, <3>1
  <2>7. Queued(v)
    BY <2>5, <2>6 DEF Queued, r
  <2>8. Longer(v, w)
    BY <1>0, <2>3 DEF Longer, r, q
  <2>9. ASSUME NEW d \in D \cup {o} PROVE Waits(v, d, n)
    <3>1. CASE d = o \/ d \in ToSet(e)
      BY <2>3, <3>1 DEF Waits
    <3>2. CASE d # o /\ MissesInput(w.pool, d)
      <4>1. PICK x \in ToSet(vin[d]) : txIndex[x] = Absent /\ x \notin w.pool.tx
        BY <3>2 DEF MissesInput
      <4>2. CASE x = o
        <5>1. n < Len(q) + 1
          BY <1>0 DEF q
        <5> QED BY <2>3, <4>1, <4>2, <5>1 DEF Waits, r
      <4>3. CASE x # o
        BY <2>2, <4>1, <4>3 DEF Waits, MissesInput
      <4> QED BY <4>2, <4>3
    <3>3. CASE \E j \in 1..Len(q) : n < j /\ q[j] \in ToSet(vin[d])
      <4>1. PICK j \in 1..Len(q) : n < j /\ q[j] \in ToSet(vin[d])
        BY <3>3
      <4> QED BY <2>3, <4>1 DEF Waits, r
    <3>4. d # o => Waits(w, d, n)
      BY <2>9
    <3> QED BY <3>1, <3>2, <3>3, <3>4 DEF Waits, q, e
  <2> QED BY <2>7, <2>8, <2>9 DEF v
<1>2. CASE ~checkAccept(w.pool, o) /\ IsNew(w.pool, o) /\ MissesInput(w.pool, o)
  <2>1. v = w
    BY <1>2 DEF TryOrphan
  <2>2. Longer(w, w)
    BY <1>0 DEF Longer
  <2>3. Waits(w, o, n)
    BY <1>2 DEF Waits
  <2> HIDE DEF v
  <2> QED BY <2>1, <2>2, <2>3 DEF v
<1>3. CASE ~checkAccept(w.pool, o) /\ ~(IsNew(w.pool, o) /\ MissesInput(w.pool, o))
  <2>1. v.pool = w.pool /\ v.vWorkQueue = q /\ v.vEraseQueue = Append(e, o)
    BY <1>3 DEF TryOrphan, Work
  <2> HIDE DEF v, e
  <2>2. ToSet(v.vEraseQueue) = ToSet(e) \cup {o}
    BY <1>0, <2>1, AppendParts
  <2>3. Queued(v) /\ Longer(v, w)
    BY <1>0, <2>1 DEF Queued, Longer
  <2>4. ASSUME NEW d \in D \cup {o} PROVE Waits(v, d, n)
    BY <2>1, <2>2, <2>4 DEF Waits, e
  <2> QED BY <2>3, <2>4 DEF v
<1> QED
  BY <1>1, <1>2, <1>3

\* One round: the orphans that spend the n-th entry are tried, those among the earlier
\* ones that wait for it included.
LEMMA RoundStep ==
  ASSUME \A p \in Txs : mapOrphanTransactionsByPrev[p]
                          = {o \in mapOrphanTransactions : p \in ToSet(vin[o])},
         mapOrphanTransactions \subseteq Txs, NEW w \in Work, Queued(w), NEW n \in Nat \ {0},
         \A d \in Tried(w, n - 1) : Waits(w, d, n - 1)
  PROVE  Queued(Round(w, n)) /\ \A d \in Tried(Round(w, n), n) : Waits(Round(w, n), d, n)
<1> DEFINE q == w.vWorkQueue
<1>0. q \in Seq(Txs) /\ Len(q) \in Nat /\ \A i \in 1..Len(q) : q[i] \in Txs
  BY DEF Work
<1>1. CASE n > Len(q)
  <2>1. Round(w, n) = w
    BY <1>1 DEF Round
  <2>2. \A j \in 1..Len(q) : j <= n - 1 /\ ~(n - 1 < j)
    BY <1>0, <1>1
  <2>3. ASSUME NEW d \in Tried(w, n) PROVE Waits(w, d, n)
    <3>1. d \in Tried(w, n - 1)
      BY <2>2, <2>3 DEF Tried
    <3>2. Waits(w, d, n - 1)
      BY <3>1
    <3> QED BY <2>2, <3>2 DEF Waits
  <2> QED BY <2>1, <2>3
<1>2. CASE ~(n > Len(q))
  <2> DEFINE S == mapOrphanTransactionsByPrev[q[n]]
             l == SetToSeq(S)
             m == Len(l)
             v == Round(w, n)
             E == Tried(w, n - 1) \ S
  <2>1. n \in 1..Len(q) /\ q[n] \in Txs /\ n <= Len(w.vWorkQueue)
    BY <1>0, <1>2
  <2>2. S = {o \in mapOrphanTransactions : q[n] \in ToSet(vin[o])} /\ S \in SUBSET Txs
    BY <2>1
  <2>3. v = FoldLeft(TryOrphan, w, l)
    BY <1>2 DEF Round
  <2> HIDE DEF S
  <2>4. IsFiniteSet(S)
    BY <2>2, TreeAssumption, FS_Subset
  <2>5. l \in Seq(S) /\ IsListing(l, Cardinality(S), S)
    BY <2>4, Listed, ListedOnce
  <2> HIDE DEF l
  <2>6. /\ l \in Seq(Txs) /\ m \in Nat /\ \A i \in 1..m : l[i] \in Txs
        /\ \A o \in S : \E i \in 1..m : l[i] = o
    <3>1. m = Cardinality(S) /\ m \in Nat
      <4>1. DOMAIN l = 1..m /\ m \in Nat /\ DOMAIN l = 1..Cardinality(S) /\ Cardinality(S) \in Nat
        BY <2>5 DEF IsListing
      <4> HIDE DEF m
      <4> QED BY <4>1
    <3>2. l \in Seq(Txs) /\ \A i \in 1..m : l[i] \in Txs
      BY <2>2, <2>5
    <3> QED BY <2>5, <3>1, <3>2 DEF IsListing
  <2>7. PICK g \in [0..m -> Work] : /\ g[0] = w /\ g[m] = v
                                    /\ \A k \in 1..m : g[k] = TryOrphan(g[k - 1], l[k])
    <3>1. l \in Seq(Txs)
      BY <2>6
    <3>2. \E g \in [0..Len(l) -> Work] :
             /\ g[0] = w /\ g[Len(l)] = FoldLeft(TryOrphan, w, l)
             /\ \A k \in 1..Len(l) : g[k] = TryOrphan(g[k - 1], l[k])
      BY <3>1, TryAllSteps, Zenon
    <3> HIDE DEF v
    <3> QED BY <2>3, <3>2, Zenon
  <2> HIDE DEF m, v
  <2> DEFINE Done(k) == E \cup {l[i] : i \in 1..k}
             H == {k \in 0..m : /\ Queued(g[k]) /\ Longer(g[k], w)
                                /\ \A d \in Done(k) : Waits(g[k], d, n)}
  <2>8. 0 \in H
    <3>1. Done(0) = E
      <4>1. 1..0 = {}
        OBVIOUS
      <4> QED BY <4>1
    <3>2. ASSUME NEW d \in E PROVE Waits(w, d, n)
      <4>1. Waits(w, d, n - 1) /\ d \in mapOrphanTransactions /\ d \notin S
        BY <3>2 DEF Tried
      <4>2. \A j \in 1..Len(q) : n - 1 < j => j = n \/ n < j
        BY <1>0
      <4> QED BY <2>2, <4>1, <4>2 DEF Waits
    <3>3. Longer(w, w)
      BY <1>0 DEF Longer
    <3> HIDE DEF E, Done
    <3> QED BY <2>6, <2>7, <3>1, <3>2, <3>3
  <2>9. ASSUME NEW k \in 0..m, k # m, k \in H PROVE k + 1 \in H
    <3>1. k + 1 \in 1..m /\ k + 1 \in 0..m /\ (k + 1) - 1 = k
      BY <2>6, <2>9
    <3> DEFINE x == g[k]
               y == g[k + 1]
    <3>2. y = TryOrphan(x, l[k + 1]) /\ x \in Work /\ y \in Work /\ l[k + 1] \in Txs
      BY <2>6, <2>7, <3>1
    <3>3. Queued(x) /\ Longer(x, w) /\ \A d \in Done(k) : Waits(x, d, n)
      BY <2>9
    <3>4. Done(k + 1) = Done(k) \cup {l[k + 1]}
      <4>1. /\ \A i \in 1..(k + 1) : i \in 1..k \/ i = k + 1
            /\ \A i \in 1..k : i \in 1..(k + 1)
            /\ k + 1 \in 1..(k + 1)
        BY <2>6
      <4> QED BY <4>1
    <3> HIDE DEF Done, x, y
    <3>5. /\ x.vWorkQueue \in Seq(Txs) /\ Len(x.vWorkQueue) \in Nat
          /\ y.vWorkQueue \in Seq(Txs) /\ Len(y.vWorkQueue) \in Nat
      BY <3>2 DEF Work
    <3>6. n <= Len(x.vWorkQueue)
      BY <1>0, <2>1, <3>3, <3>5 DEF Longer
    <3>7. Queued(y) /\ Longer(y, x) /\ \A d \in Done(k) \cup {l[k + 1]} : Waits(y, d, n)
      BY <3>2, <3>3, <3>6, TriedStep
    <3>8. Longer(y, w)
      <4>1. \A i \in 1..Len(q) : i \in 1..Len(x.vWorkQueue)
        BY <1>0, <3>3, <3>5 DEF Longer
      <4> QED BY <1>0, <3>3, <3>5, <3>7, <4>1 DEF Longer
    <3> QED BY <3>1, <3>4, <3>7, <3>8 DEF y
  <2>10. \A k \in 0..m : k \in H
    <3> HIDE DEF H
    <3> QED BY <2>6, <2>8, <2>9, UpTo
  <2>11. Queued(v) /\ Longer(v, w) /\ \A d \in Done(m) : Waits(v, d, n)
    <3>1. m \in 0..m
      BY <2>6
    <3> HIDE DEF Done
    <3> QED BY <2>7, <2>10, <3>1
  <2>12. ASSUME NEW d \in Tried(v, n) PROVE d \in Done(m)
    <3>1. PICK j \in 1..Len(v.vWorkQueue) : j <= n /\ v.vWorkQueue[j] \in ToSet(vin[d])
      BY <2>12 DEF Tried
    <3>2. v \in Work /\ Len(v.vWorkQueue) \in Nat
      <4>1. m \in 0..m
        BY <2>6
      <4>2. v \in Work
        BY <2>7, <4>1
      <4>3. v.vWorkQueue \in Seq(Txs)
        BY <4>2 DEF Work
      <4> QED BY <4>2, <4>3
    <3>3. j \in 1..Len(q) /\ v.vWorkQueue[j] = q[j] /\ (j = n \/ j <= n - 1)
      <4>1. j \in 1..Len(q) /\ (j = n \/ j <= n - 1)
        BY <1>0, <2>1, <3>1, <3>2
      <4> QED BY <2>11, <4>1 DEF Longer
    <3>4. d \in mapOrphanTransactions /\ q[j] \in ToSet(vin[d])
      BY <2>12, <3>1, <3>3 DEF Tried
    <3>5. d \in S \/ d \in Tried(w, n - 1)
      BY <2>2, <3>3, <3>4 DEF Tried
    <3>6. d \in S => d \in {l[i] : i \in 1..m}
      BY <2>6
    <3> QED BY <3>5, <3>6
  <2> HIDE DEF Done
  <2>13. \A d \in Tried(v, n) : Waits(v, d, n)
    BY <2>11, <2>12
  <2> QED BY <2>11, <2>13 DEF v
<1> QED
  BY <1>1, <1>2

\* After the last round nothing is left to be tried.
LEMMA AdoptedAll ==
  ASSUME MempoolInv, NEW tx \in Txs, checkAccept(Pool, tx)
  PROVE  LET w == Adopt(tx)
         IN /\ w.pool.tx = mapTx \cup ToSet(w.vWorkQueue)
            /\ \A o \in mapOrphanTransactions :
                 ToSet(vin[o]) \cap ToSet(w.vWorkQueue) # {}
                   => o \in ToSet(w.vEraseQueue) \/ MissesInput(w.pool, o)
<1> DEFINE N == Cardinality(Txs)
           w == Adopt(tx)
<1>0. /\ mapOrphanTransactionsByPrev \in [Txs -> SUBSET Txs] /\ Pool \in GoodPool
      /\ mapOrphanTransactions \subseteq Txs
      /\ \A p \in Txs : mapOrphanTransactionsByPrev[p]
                          = {o \in mapOrphanTransactions : p \in ToSet(vin[o])}
  BY DEF MempoolInv, OrphanInv, GoodOrphans, Orphans
<1>1. N \in Nat
  BY TreeAssumption, FS_CardinalityType
<1>2. PICK g \in [0..N -> Work] :
        /\ g[0] = [pool |-> addUnchecked(Pool, tx), vWorkQueue |-> <<tx>>, vEraseQueue |-> <<tx>>]
        /\ g[N] = w /\ \A n \in 1..N : g[n] = Round(g[n - 1], n)
  BY <1>0, AdoptSteps
<1> HIDE DEF N, w
<1> DEFINE H == {n \in 0..N : Queued(g[n]) /\ \A d \in Tried(g[n], n) : Waits(g[n], d, n)}
<1>3. 0 \in H
  <2> DEFINE x == g[0]
  <2>1. x.pool.tx = mapTx \cup {tx} /\ x.vWorkQueue = <<tx>>
    BY <1>2 DEF addUnchecked, Pool
  <2> HIDE DEF x
  <2>2. Len(<<tx>>) = 1 /\ ToSet(<<tx>>) = {tx} /\ 1..1 = {1}
    BY DEF ToSet
  <2>3. Queued(x)
    BY <2>1, <2>2 DEF Queued
  <2>4. Tried(x, 0) = {}
    <3>1. \A j \in 1..1 : ~(j <= 0)
      OBVIOUS
    <3> QED BY <2>1, <2>2, <3>1 DEF Tried
  <2> QED BY <1>1, <2>3, <2>4 DEF x
<1>4. ASSUME NEW n \in 0..N, n # N, n \in H PROVE n + 1 \in H
  <2>1. n + 1 \in 1..N /\ n + 1 \in 0..N /\ (n + 1) - 1 = n /\ n + 1 \in Nat \ {0}
    BY <1>1, <1>4
  <2> DEFINE x == g[n]
             y == g[n + 1]
  <2>2. y = Round(x, n + 1) /\ x \in Work
    BY <1>2, <2>1
  <2>3. Queued(x) /\ \A d \in Tried(x, (n + 1) - 1) : Waits(x, d, (n + 1) - 1)
    BY <1>4, <2>1
  <2> HIDE DEF x, y
  <2>4. Queued(y) /\ \A d \in Tried(y, n + 1) : Waits(y, d, n + 1)
    BY <1>0, <2>1, <2>2, <2>3, RoundStep
  <2> QED BY <2>1, <2>4 DEF y
<1>5. \A n \in 0..N : n \in H
  <2> HIDE DEF H
  <2> QED BY <1>1, <1>3, <1>4, UpTo
<1>6. w \in Work /\ Queued(w) /\ \A d \in Tried(w, N) : Waits(w, d, N)
  <2>1. N \in 0..N
    BY <1>1
  <2> QED BY <1>2, <1>5, <2>1
<1> DEFINE q == w.vWorkQueue
<1>7. q \in Seq(Txs) /\ Len(q) \in Nat /\ DOMAIN q = 1..Len(q)
  BY <1>6 DEF Work
<1> HIDE DEF q
<1>8. Len(q) <= N
  <2>1. q \in [1..Len(q) -> Txs] /\ \A i, j \in 1..Len(q) : q[i] = q[j] => i = j
    BY <1>6, <1>7 DEF Queued, q
  <2>2. q \in Injection(1..Len(q), Txs)
    BY <2>1 DEF Injection, IsInjective
  <2>3. Cardinality(1..Len(q)) <= N
    BY <2>2, FS_Injection, TreeAssumption DEF N
  <2>4. Cardinality(1..Len(q)) = Len(q)
    <3> DEFINE k == Len(q)
    <3>1. k \in Nat
      BY <1>7
    <3> HIDE DEF k
    <3>2. 1 \in Int /\ k \in Int /\ (1 > k => k = 0) /\ (k - 1) + 1 = k
      BY <3>1
    <3>3. Cardinality(1..k) = IF 1 > k THEN 0 ELSE k - 1 + 1
      BY <3>2, FS_Interval, Zenon
    <3>4. Cardinality(1..k) = k
      BY <3>2, <3>3
    <3> QED BY <3>4 DEF k
  <2> QED BY <2>3, <2>4
<1>9. ASSUME NEW o \in mapOrphanTransactions, ToSet(vin[o]) \cap ToSet(q) # {}
      PROVE  o \in ToSet(w.vEraseQueue) \/ MissesInput(w.pool, o)
  <2>1. PICK j \in 1..Len(q) : q[j] \in ToSet(vin[o])
    BY <1>7, <1>9 DEF ToSet
  <2>2. \A i \in 1..Len(q) : i <= N /\ ~(N < i)
    BY <1>1, <1>7, <1>8
  <2>3. o \in Tried(w, N)
    BY <2>1, <2>2 DEF Tried, q
  <2>4. Waits(w, o, N)
    BY <1>6, <2>3
  <2> QED BY <2>2, <2>4 DEF Waits, q
<1> QED
  BY <1>6, <1>9 DEF Queued, q, w

\* After a tx message every orphan that spends something it has brought into the pool,
\* at any depth, is in the pool or gone, or misses another input: the work queue of the
\* tx message ("Recursively process any orphan transactions that depended on this
\* one") is empty when the loop ends, whatever the graph of the orphans.
THEOREM OrphansAlwaysAdopted == Spec => OrphansAdopted
<1> DEFINE Adopted == \A tx \in mapTx' \ mapTx : TxMessage(tx) =>
                        \A o \in mapOrphanTransactions' :
                          ToSet(vin[o]) \cap (mapTx' \ mapTx) # {} => MissesInput(Pool, o)'
<1>1. MempoolInv /\ MempoolInv' /\ [Next]_vars => [Adopted]_vars
  <2> SUFFICES ASSUME MempoolInv, MempoolInv', NEW tx \in mapTx' \ mapTx, TxMessage(tx),
                      NEW o \in mapOrphanTransactions', ToSet(vin[o]) \cap (mapTx' \ mapTx) # {}
               PROVE  MissesInput(Pool, o)'
    OBVIOUS
  <2> DEFINE w == Adopt(tx)
             q == Orphans
             r == FoldLeft(EraseOrphanTx, q, w.vEraseQueue)
  <2>0. mapTx' \subseteq Txs
    BY DEF MempoolInv, GoodPool, Pool
  <2>1. tx \in Txs
    BY <2>0
  <2>2. /\ checkAccept(Pool, tx) /\ SetPool(w.pool) /\ SetOrphans(r) /\ txIndex' = txIndex
    BY DEF TxMessage, SetPool, Pool, chainVars, diskVars
  <2>3. /\ mapOrphanTransactionsByPrev \in [Txs -> SUBSET Txs] /\ Pool \in GoodPool
        /\ q \in GoodOrphans(Txs \ Coinbases) /\ q.tx = mapOrphanTransactions
    BY DEF MempoolInv, OrphanInv, GoodOrphans, Orphans
  <2>4. w \in Work
    BY <2>1, <2>2, <2>3, AdoptedGood
  <2>5. /\ w.pool.tx = mapTx \cup ToSet(w.vWorkQueue)
        /\ \A d \in mapOrphanTransactions :
             ToSet(vin[d]) \cap ToSet(w.vWorkQueue) # {}
               => d \in ToSet(w.vEraseQueue) \/ MissesInput(w.pool, d)
    BY <2>1, <2>2, AdoptedAll
  <2>6. mapTx' = w.pool.tx /\ mapOrphanTransactions' = r.tx
    BY <2>2 DEF SetPool, SetOrphans
  <2> HIDE DEF w, q
  <2> DEFINE e == w.vEraseQueue
  <2>7. e \in Seq(Txs) /\ Len(e) \in Nat /\ DOMAIN e = 1..Len(e) /\ ToSet(e) = {e[i] : i \in 1..Len(e)}
    <3>1. e \in Seq(Txs)
      BY <2>4 DEF Work
    <3> HIDE DEF e
    <3> QED BY <3>1 DEF ToSet
  <2> HIDE DEF e
  <2>8. r.tx = q.tx \ ToSet(e)
    <3>1. Txs \ Coinbases \in SUBSET Txs
      OBVIOUS
    <3> QED BY <2>3, <2>7, <3>1, EraseAllGood DEF e
  <2>9. o \in mapOrphanTransactions /\ o \notin ToSet(w.vEraseQueue)
    BY <2>3, <2>6, <2>8 DEF e
  <2>10. ToSet(vin[o]) \cap ToSet(w.vWorkQueue) # {}
    BY <2>5, <2>6
  <2>11. MissesInput(w.pool, o)
    BY <2>5, <2>9, <2>10
  <2>12. Pool'.tx = w.pool.tx
    BY <2>6 DEF Pool
  <2> QED BY <2>2, <2>11, <2>12 DEF MissesInput
<1> QED
  BY <1>1, MempoolInvariant, PTL DEF Spec, OrphansAdopted
=============================================================================
