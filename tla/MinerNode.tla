------------------------------ MODULE MinerNode ------------------------------
(***************************************************************************)
(* The threads of one node around the thread pool: BitcoinMiner mining     *)
(* (Miners) and minting (Minters), and the message and RPC threads that    *)
(* check blocks.  Every check of a hash is made with cs_main held, so a    *)
(* check that never ends stops the whole node.  fNeedCheckBlock turns the  *)
(* miners away from the pool while a check is under way: the semaphore of  *)
(* the pool is polled (CSemaphore::wait sleeps between two looks), and     *)
(* gives a waiting thread no other precedence.                             *)
(*                                                                         *)
(* The miner's own reads of pindexBest, in BitcoinMiner, in CreateNewBlock *)
(* and in ramhog(), are made without cs_main and are separate steps.       *)
(***************************************************************************)
EXTENDS RamhogPool

CONSTANTS Miners,    \* threads of BitcoinMiner(pwallet, false)
          Minters,   \* threads of BitcoinMiner(pwallet, true)
          NoThread   \* the holder of a free cs_main

ASSUME NodeAssumption ==
  /\ Miners \subseteq Threads
  /\ Minters \subseteq Threads \ Miners
  /\ NoThread \notin Threads

Others  == Threads \ (Miners \cup Minters)
NoBlock == MaxBest + 1

VARIABLES
  csMain,        \* the thread that holds cs_main
  npc,           \* where each thread is outside ramhog()
  pindexPrev,    \* BitcoinMiner's own copy of pindexBest
  hashPrevBlock  \* the parent of the block a thread builds or submits

nodeVars == <<csMain, npc, pindexPrev, hashPrevBlock>>
allVars  == <<vars, nodeVars>>

\* Where a thread that checks a hash is: before ramhog(), or inside it.
Flagged    == {"check", "checking", "signcheck", "signing"}
Submitting == {"process", "check", "checking", "accept"}
Held       == Flagged \cup {"rpc", "rpchash", "process", "accept", "accepted",
                            "checkpoint", "sign"}
NPC        == Held \cup {"loop", "create", "fill", "search", "searching",
                         "found"}

NodeInit ==
  /\ Init
  /\ csMain = NoThread
  /\ npc = [t \in Threads |-> "loop"]
  /\ pindexPrev = [t \in Threads |-> 0]
  /\ hashPrevBlock = [t \in Threads |-> NoBlock]

Step(t, from, to) == npc[t] = from /\ npc' = [npc EXCEPT ![t] = to]

\* The thread is back in its loop; its block and its pindexPrev are gone.
Drop(t, from) ==
  /\ Step(t, from, "loop")
  /\ pindexPrev' = [pindexPrev EXCEPT ![t] = 0]
  /\ hashPrevBlock' = [hashPrevBlock EXCEPT ![t] = NoBlock]

\* It also leaves the scope of LOCK(cs_main).
Release(t, from) == Drop(t, from) /\ csMain' = NoThread

(***************************************************************************)
(* BitcoinMiner.                                                           *)
(***************************************************************************)

\* BitcoinMiner reads pindexBest.
ReadTip(t) ==
  /\ t \in Miners \cup Minters
  /\ Step(t, "loop", "create")
  /\ pindexPrev' = [pindexPrev EXCEPT ![t] = pindexBest]
  /\ UNCHANGED <<vars, csMain, hashPrevBlock>>

\* CreateNewBlock reads pindexBest again, for the parent of the block.
CreateNewBlock(t) ==
  /\ Step(t, "create", "fill")
  /\ hashPrevBlock' = [hashPrevBlock EXCEPT ![t] = pindexBest]
  /\ UNCHANGED <<vars, csMain, pindexPrev>>

\* It collects transactions under cs_main; a minter then submits its block,
\* or has found no stake and starts again.
CollectTransactions(t) ==
  /\ csMain = NoThread
  /\ \/ /\ t \in Miners /\ Step(t, "fill", "search")
        /\ UNCHANGED <<pindexPrev, hashPrevBlock>>
     \/ /\ t \in Minters /\ Step(t, "fill", "found")
        /\ UNCHANGED <<pindexPrev, hashPrevBlock>>
     \/ t \in Minters /\ Drop(t, "fill")
  /\ UNCHANGED <<vars, csMain>>

\* MinerGetPoWHash: the call enters the pool.
MinerGetPoWHash(t) ==
  /\ Step(t, "search", "searching")
  /\ Call(t, TRUE)
  /\ UNCHANGED <<envVars, csMain, pindexPrev, hashPrevBlock>>

\* MinerGetPoWHash returns false at once, and the miner builds a new block.
MinerRefused(t) ==
  /\ Drop(t, "search")
  /\ Refuse(t, TRUE)
  /\ UNCHANGED <<envVars, csMain>>

\* ramhog() has returned.  A failed call or a new tip ends the search; else
\* the hash meets the target, or the next nonce is tried, or one of the other
\* conditions (new transactions, no peers, the clock) ends the search.
MinerHashed(t) ==
  /\ pc[t] = "idle"
  /\ \/ /\ result[t] = "ok" /\ pindexPrev[t] = pindexBest
        /\ \E to \in {"found", "search"} : Step(t, "searching", to)
        /\ UNCHANGED <<pindexPrev, hashPrevBlock>>
     \/ Drop(t, "searching")
  /\ UNCHANGED <<vars, csMain>>

\* Mutated form of CheckWork: the block is submitted without a look at the tip.
CheckWorkUnchecked(t) ==
  /\ csMain = NoThread
  /\ \/ /\ Step(t, "found", "process")
        /\ csMain' = t
        /\ UNCHANGED <<pindexPrev, hashPrevBlock>>
     \/ /\ hashPrevBlock[t] # pindexBest
        /\ Drop(t, "found")
        /\ UNCHANGED csMain
  /\ UNCHANGED vars

\* CheckWork of a mined block takes cs_main, drops a stale block, and goes on
\* to ProcessBlock with cs_main held.
CheckWork(t) ==
  /\ csMain = NoThread
  /\ \/ /\ hashPrevBlock[t] = pindexBest
        /\ Step(t, "found", "process")
        /\ csMain' = t
        /\ UNCHANGED <<pindexPrev, hashPrevBlock>>
     \/ /\ hashPrevBlock[t] # pindexBest
        /\ Drop(t, "found")
        /\ UNCHANGED csMain
  /\ UNCHANGED vars

(***************************************************************************)
(* The message and RPC threads.                                            *)
(***************************************************************************)

\* ProcessMessages takes cs_main for one message: a block, a request for a
\* signed hash, or a sync-checkpoint that moves the best chain.
LockForMessage(t) ==
  /\ t \in Others
  /\ csMain = NoThread
  /\ csMain' = t
  /\ \E stage \in {"process", "sign", "checkpoint"} : Step(t, "loop", stage)
  /\ UNCHANGED <<vars, pindexPrev, hashPrevBlock>>

\* An RPC thread takes cs_main for getwork or submitblock, whose block was
\* built on the tip of some earlier time.
LockForRPC(t) ==
  /\ t \in Others
  /\ csMain = NoThread
  /\ csMain' = t
  /\ Step(t, "loop", "rpc")
  /\ \E h \in 0..pindexBest : hashPrevBlock' = [hashPrevBlock EXCEPT ![t] = h]
  /\ UNCHANGED <<vars, pindexPrev>>

\* GetPoWHash does not find the hash in the caches and calls ramhog().
GetPoWHash(t, from, to) ==
  /\ Step(t, from, to)
  /\ Call(t, FALSE) \/ Refuse(t, FALSE)
  /\ UNCHANGED <<envVars, csMain, pindexPrev, hashPrevBlock>>

\* CheckWork of the RPC thread has the hash of its block, from the caches or
\* from the pool, and goes on to ProcessBlock if the block is good and is not
\* stale.  No flag keeps the miners away from this hash.
RPCHashed(t, from) ==
  /\ \/ /\ hashPrevBlock[t] = pindexBest
        /\ Step(t, from, "process")
        /\ UNCHANGED <<csMain, pindexPrev, hashPrevBlock>>
     \/ Release(t, from)
  /\ UNCHANGED vars

RPCStep(t) ==
  \/ RPCHashed(t, "rpc")
  \/ GetPoWHash(t, "rpc", "rpchash")
  \/ pc[t] = "idle" /\ result[t] = "ok" /\ RPCHashed(t, "rpchash")
  \/ pc[t] = "idle" /\ Release(t, "rpchash") /\ UNCHANGED vars

(***************************************************************************)
(* ProcessBlock and SendSignedHash, with cs_main held.                     *)
(***************************************************************************)

\* An early return of ProcessBlock: a duplicate, or a preliminary check.
ProcessBlockRefused(t) == Release(t, "process") /\ UNCHANGED vars

\* Mutated form of RaiseFlag: the miners are not turned away.
RaiseFlagNot(t, from, to) ==
  /\ Step(t, from, to)
  /\ UNCHANGED <<vars, csMain, pindexPrev, hashPrevBlock>>

\* SetNeedCheckBlock(true)
RaiseFlag(t, from, to) ==
  /\ Step(t, from, to)
  /\ SetNeedCheckBlock(TRUE)
  /\ UNCHANGED <<csMain, pindexPrev, hashPrevBlock>>

\* Mutated form of BlockChecked: a failed check returns with the flag set.
BlockCheckedFlagKept(t, from) ==
  \/ /\ Step(t, from, "accept")
     /\ SetNeedCheckBlock(FALSE)
     /\ UNCHANGED <<csMain, pindexPrev, hashPrevBlock>>
  \/ Release(t, from) /\ UNCHANGED vars

\* SetNeedCheckBlock(false), and fBlockOk decides.
BlockChecked(t, from) ==
  /\ SetNeedCheckBlock(FALSE)
  /\ \/ /\ Step(t, from, "accept")
        /\ UNCHANGED <<csMain, pindexPrev, hashPrevBlock>>
     \/ Release(t, from)

\* CheckBlock decides without the pool (a proof-of-stake block, a block that
\* fails an earlier check, a known hash), or with it.
CheckBlockStep(t) ==
  \/ RaiseFlag(t, "process", "check")
  \/ BlockChecked(t, "check")
  \/ GetPoWHash(t, "check", "checking")
  \/ pc[t] = "idle" /\ result[t] = "ok" /\ BlockChecked(t, "checking")
  \/ pc[t] = "idle" /\ Release(t, "checking") /\ SetNeedCheckBlock(FALSE)

\* AcceptBlock: the block becomes the new tip or a fork.  ProcessBlock returns
\* when it is refused, or kept as an orphan.
AcceptBlock(t) ==
  \/ /\ Step(t, "accept", "accepted")
     /\ NewBest \/ UNCHANGED vars
     /\ UNCHANGED <<csMain, pindexPrev, hashPrevBlock>>
  \/ Release(t, "accept") /\ UNCHANGED vars

\* The orphans that waited for it, and a pending sync-checkpoint, are accepted
\* in turn and may move the tip further.
AcceptOrphan(t) ==
  /\ Step(t, "accepted", "accepted")
  /\ NewBest
  /\ UNCHANGED <<csMain, pindexPrev, hashPrevBlock>>

\* The end of ProcessBlock: a node with the signing key signs the hash.
ProcessBlockEnd(t) ==
  /\ \/ Release(t, "accepted")
     \/ /\ Step(t, "accepted", "sign")
        /\ UNCHANGED <<csMain, pindexPrev, hashPrevBlock>>
  /\ UNCHANGED vars

\* The branch of a received sync-checkpoint becomes the best chain, or the tip
\* is left alone.
ProcessSyncCheckpoint(t) ==
  /\ Release(t, "checkpoint")
  /\ NewBest \/ UNCHANGED vars

\* SendSignedHash
SendSignedHash(t) ==
  \/ RaiseFlag(t, "sign", "signcheck")
  \/ Release(t, "signcheck") /\ SetNeedCheckBlock(FALSE)
  \/ GetPoWHash(t, "signcheck", "signing")
  \/ pc[t] = "idle" /\ Release(t, "signing") /\ SetNeedCheckBlock(FALSE)

(***************************************************************************)
(* The specification.                                                      *)
(***************************************************************************)

MinerStep(t) ==
  \/ ReadTip(t) \/ CreateNewBlock(t) \/ CollectTransactions(t)
  \/ MinerGetPoWHash(t) \/ MinerRefused(t) \/ MinerHashed(t) \/ CheckWork(t)

HolderStep(t) ==
  \/ RPCStep(t) \/ ProcessBlockRefused(t) \/ CheckBlockStep(t)
  \/ AcceptBlock(t) \/ AcceptOrphan(t) \/ ProcessBlockEnd(t)
  \/ ProcessSyncCheckpoint(t) \/ SendSignedHash(t)

InPool(step) == step /\ UNCHANGED <<envVars, nodeVars>>

NodeNext ==
  \/ \E t \in Threads : MinerStep(t)
  \/ \E t \in Threads : LockForMessage(t) \/ LockForRPC(t)
  \/ \E t \in Threads : HolderStep(t)
  \/ InPool(PoolNext)

\* Every thread that can go on does, the pool's threads serve their queues,
\* and the holder of cs_main runs to the end of its scope.  Nothing is assumed
\* of who gets cs_main or a unit of waitPads, nor of the miners' loop.
NodeFairness ==
  /\ \A t \in Threads :
       /\ WF_allVars(InPool(CallerStep(t)))
       /\ WF_allVars(InPool(CommandFinish(t)))
       /\ WF_allVars(HolderStep(t))
       /\ \A p \in Pads, i \in PadIdx :
            WF_allVars(InPool(WorkerFinish(<<t, p, i>>)))
  /\ WF_allVars(InPool(CommandAbort \/ CommandStart))
  /\ WF_allVars(InPool(WorkerAbort \/ WorkerStart))

NodeSpec == NodeInit /\ [][NodeNext]_allVars /\ NodeFairness

(***************************************************************************)
(* Properties.                                                             *)
(***************************************************************************)

\* A thread is inside a scope of cs_main exactly when it holds it, and
\* fNeedCheckBlock is set exactly while the holder has a hash to check: no
\* early return leaves it set, which would turn the miners away for ever.
FlagOwned ==
  /\ \A t \in Threads : csMain = t <=> npc[t] \in Held
  /\ fNeedCheckBlock <=> \E t \in Threads : npc[t] \in Flagged

\* A block this node mined or minted, or got from getwork, is still on top of
\* the best chain when AcceptBlock runs, although its parent was read without
\* cs_main and the tip moved in any way before CheckWork took the lock.
NoStaleMined ==
  \A t \in Threads :
    npc[t] \in Submitting /\ hashPrevBlock[t] # NoBlock =>
      hashPrevBlock[t] = pindexBest

\* ProcessBlock and SendSignedHash end, and cs_main is free again, however
\* the miners compete for the scratchpads.
CheckCompletes ==
  \A t \in Threads :
    csMain = t /\ npc[t] \notin {"rpc", "rpchash"} ~> csMain # t
==============================================================================
