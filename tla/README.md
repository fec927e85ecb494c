# Shinycoin: a TLA+ verification project

Shinycoin is a peer-to-peer currency derived from PPCoin (and so from Bitcoin
0.6): blocks are proof-of-work or proof-of-stake, the proof of work is the
memory-hard hash *ramhog*, computed by a pool of threads over large
scratchpads, and a transaction can carry *infos*, key/value records that are
kept per address in an SQLite table. This directory models the parts of the node
whose correctness depends on ordering: of threads, of commits and crashes, of
messages, of undo and redo. All paths below are relative to the repository; the
code is in `src/`.

## 1. Inventory of the system

| Component | State | Operations | Hard behaviour |
|---|---|---|---|
| ramhog thread pool (`hashblock/ramhog_mt.cpp`) | semaphore `waitPads`, `fPadUsed`, two job queues with their threads, promises on the callers' stacks, the scratchpads, `fNeedCheckBlock` | `ramhog()`, `ramhog_mt`, `ramhog_gen_pad_mt`, `SetNeedCheckBlock` | many threads; `pindexBest` read without a lock; interruption |
| miner and minter (`main.cpp`, `BitcoinMiner`) | the block under construction, its own `pindexPrev` | `CreateNewBlock`, `MinerGetPoWHash`, `CheckWork` | three unlocked reads of the tip; competition with block checks |
| transaction info store (`txinfo.cpp`) | one SQLite table with `is_latest`, one open transaction | `Process`, `Undo`, `IsValid`, `BeginTransaction`, `Commit`, `Rollback`, `Reset` | undo in any order the chain asks for; two ways to find the current value |
| block chain (`main.cpp`, `db.cpp`) | block index, transaction index, `hashBestChain`, `pnext`, `pindexBest` | `AcceptBlock`, `AddToBlockIndex`, `SetBestChain`, `Reorganize`, `ConnectBlock`, `DisconnectBlock`, `LoadBlockIndex` | several commits per operation in two databases; crash in between; failure half-way |
| memory pool (`main.cpp`) | `mapTx`, `mapNextTx` | `accept`, `addUnchecked`, `remove`, resurrection by `Reorganize`, removal by `CreateNewBlock` | follows every change of the best chain; `accept` refuses what a block may contain |
| sync-checkpoints (`checkpoints.cpp`) | `hashSyncCheckpoint`, `hashPendingCheckpoint`, `hashInvalidCheckpoint` | validate, process, accept pending, write, reset | may force a reorganization; own commit |
| block intake (`ProcessBlock`) | `mapOrphanBlocks`, `mapOrphanBlocksByPrev`, `setStakeSeen`, `setStakeSeenOrphan` | the `block` message, orphan work queue | blocks in any order, duplicates |
| signed hashes (`signedhash.cpp`) | `mapSigCache`, `mapPoWCache`, `mapInvSignedHash` | request, sign, relay, load | block and hash arrive in either order |
| transaction relay, orphan transactions (`main.cpp`) | `mapOrphanTransactions` and its index by previous transaction | the `tx` message, `AddOrphanTx`, `EraseOrphanTx`, `LimitOrphanTxSize` | transactions in any order; two maps that must agree, eviction |
| stake kernel, stake modifier (`kernel.cpp`) | block index | `ComputeNextStakeModifier`, `CheckStakeKernelHash` | selection over a window; wide arithmetic |
| difficulty, timestamps and rewards (`main.cpp`, `ConnectBlock`) | `nBits`, `nTime`, `nPoWHeight`, `nMoneySupply`, `nPoSDebt` of the block index | `GetNextTargetRequired`, `GetMedianTimePast`, `GetNextProofOfWorkReward`, the sums of `ConnectBlock` | rounding, spans that are zero or negative, a debt carried through a long chain |
| peer connections (`net.cpp`) | `vNodes`, `vNodesDisconnected`, reference counts, buffers, `mapAlreadyAskedFor` | socket, message, open-connection and DNS threads | many threads, many locks, TRY_LOCK |
| address manager (`addrman.cpp`) | `mapInfo`, `mapAddr`, `vRandom`, new and tried tables | `Add_`, `Good_`, `Attempt_`, `Select_`, `Connected_` | counts and positions that must agree |
| alerts (`alert.cpp`) | `mapAlerts` | process, cancel, expire | order of arrival |
| wallet (`wallet.cpp`, `walletdb.cpp`, `keystore.cpp`, `crypter.cpp`) | `mapWallet`, spent flags, key pool, master keys, encrypted keys; `wallet.dat` | add, spend, erase, rescan, reserve/keep/return key, lock, encrypt | disk and memory must agree across a crash |
| script interpreter (`script.cpp`) | two stacks, the conditional stack | `EvalScript`, `Solver`, `VerifyScript` | sequential |
| RPC server, GUI, start-up and shutdown, utilities | little of their own | | order of shutdown |

How they interact: every operation on the chain, the pool of transactions, the
checkpoints and the info store runs with `cs_main` held, by the message thread,
an RPC thread or a miner that found a block. `SetBestChain` is the only writer
of `pindexBest`; the miner and the ramhog pool read it without the lock.
`ConnectBlock` and `DisconnectBlock` drive the info store through one
`CTxInfoView`, whose SQLite transaction is committed after the Berkeley DB
transaction of the same operation. `ProcessBlock` sets `fNeedCheckBlock`
while it waits for a hash, which keeps miners out of the ramhog pool.

## 2. Modules

```
RamhogPool <--- MinerNode                TxInfoTable <--- TxInfoStore ---> TxInfoHistory
                    |                         |               |        (TxInfoRefinement)
            RamhogPoolProofs              BlockTree      TxInfoStoreProofs
                                              |
                                          ChainState <--- ChainStateProofs

BlockSync <--- BlockSyncProofs                 NetNodes, AddrMan <--- PeersProofs
WalletKeys <--- WalletKeysProofs               BlockRules <--- BlockRulesProofs

FoldLemmas: what the folds of the community modules and functions defined by recursion
return, used by ChainStateProofs, BlockSyncProofs, BlockRulesProofs and PeersProofs
```

**RamhogPool** models `CRamhogThreadPool` with one action per step at which
another thread can interfere: entering `ramhog()` (`Refuse`, `Call`), the
semaphore, the second look at the tip, picking a pad, posting, waiting for the
future, freeing the pad, posting the semaphore; the command threads
(`CommandAbort`, `CommandStart`, `CommandFinish`) and the worker threads. A
scratchpad's content is the thread whose current input it was generated from,
or `Stale`. The environment is open: any thread may call at any time, the tip
and `fNeedCheckBlock` change at any step. `pindexBest` is a version number: it
never returns to an old value, which is the worse case for the comparisons made
with it.

**MinerNode** closes that environment with the code that calls the pool: the
loop of `BitcoinMiner` for miners and minters, with its three unlocked reads of
`pindexBest` as separate steps; `CheckWork`; `ProcessMessages` and the RPC
dispatcher, which take `cs_main`; `ProcessBlock` around `SetNeedCheckBlock`;
`SendSignedHash`. What a block contains is left out; whether it is accepted,
moves the tip, is an orphan or is refused is any choice.

**TxInfoTable** holds the info table as a value and the operators on it
(`IsValid`, `Inserted`, `Deleted`, the two lookups). **TxInfoStore** is the
store with its SQLite transaction, auto-commit, rollback and restart.
**TxInfoHistory** is the abstract specification: for every address and key a
stack of values, pushed by `Process` and popped by `Undo`; **TxInfoRefinement**
states that the store implements it.

**BlockTree** gives the blocks that exist as constants and the operators on
database states: connecting and disconnecting inputs, infos and blocks, the fork
point, the list of postponed blocks. **ChainState** is the state machine. All
its operations run under `cs_main`, so what interleaves with them is a crash:
each operation is cut at its commits (`op` says where it is), and `Restart` may
happen at any of them. Memory that is changed between two commits is changed in
the step of the first. The memory pool and the orphan transactions are part of
it: `TxMessage` is the whole handler of a `tx` message, with its work queue over
the orphans (`Adopt`) and the limit on their number; `AcceptToMemoryPool` is the
way in from the wallet and `sendrawtransaction`, which looks at no orphan.
`CreateNewBlock` is one round of the loop in which a miner collects the pool and
drops from it a transaction whose infos can no longer be processed. Transactions
that `accept` refuses whatever the chain (an `nLockTime` beyond 2038, not standard)
and that a block may nevertheless contain are a set, `NonStandardTxs`: they enter
neither the pool nor the orphans, and do not return when their block is disconnected.

**BlockSync** composes two nodes and the connection between them: `ProcessBlock`
with its orphans and their stakes, the handlers of `version`, `inv`, `getdata`,
`getblocks`, `block`, `getsigpowhas` and `sigpowhash`, `AskFor` with its delayed
requests, `PushGetBlocks` with the suppressed repetition, the signed-hash caches
of a node that cannot compute the proof of work, and the loss of the
connection. The work queue of `ProcessBlock` over the orphans is run as the code
runs it, one accepted block at a time (`ProcessOrphans`). A message is taken by `ProcessMessage(n)`, which is the whole
handler; `SendMessages(n)` is one pass of the function of that name; blocks and
signed hashes that come from the rest of the network enter by
`BlockFromElsewhere` and `HashFromElsewhere`. What a block contains is its
parent and its stake; `ChainState` has what is inside.

**NetNodes** models the life of a `CNode`: `vNodes`, the pool of disconnected
nodes, `nRefCount`, the release time and the grants of `semOutbound`, with the
socket handler, the message handler and the threads that open connections as
actors. A pass that holds `cs_vNodes` is one action; what `ConnectNode` and
`OpenNetworkConnection` do outside it is one action per access. `nRefCount++` on a
node that `ConnectNode` finds is such an access: it is a read (`AddRefRead`) and a
write (`AddRefWrite`), between which the other threads may update the count any
number of times, or a write that is itself lost (`AddRefOverwritten`); the ghost
`races` counts, for each node, the writes that wrote over something. The unlocked
walk over `vNodes` that relays a pending checkpoint (checkpoints.cpp:189-193) is
`RelayStart` and `RelayEnd`, with the nodes it may be at in `walk`.

**AddrMan** is `CAddrMan`: the object is one record, every public method that
changes an index (`Add`, `Good`, `GetAddr`) one action, as each holds `cs` from
its first to its last access, and the helpers (`Create`, `SwapRandom`, `Delete`,
`ShrinkNew`, `MakeTried`) operators from the object to the object it leaves. A
random number, and an order of times, is any choice. `LoadAddresses` writes
`addr.dat` and reads it back, which renumbers every entry and rebuilds two of
the four indexes.

**WalletKeys** models the keys of the wallet: `setKeyPool` in memory, the key
and pool records in `wallet.dat`, the `CReserveKey` objects, `Lock`, `Unlock`
and `EncryptWallet` with its transaction, its `NewKeyPool` and its `CDB::Rewrite`,
which may also find the program shutting down (`RewriteSkipped`) or fail at any of
its stages (`RewriteFails`, `RenameFails`); `EncryptWallet` does not look at its
result. The ghost `skipped` says that `EncryptWallet` has ended without the file
having been rewritten. An operation that holds `cs_wallet` is cut at its commits;
`KeepKey`, the lock timer and `Shutdown` come in between, and `Restart` at any of them.

**BlockRules** models what a branch demands of its next block and what
`ConnectBlock` books for it: target, timestamp, reward, money supply and debt.
All of it is a function of the block's ancestors, so the state is one branch,
and the two actions append a block of either kind, with any of the timestamps,
fees, unclaimed rewards and stakes of the instance.

`MC*.tla` are the instances; the `.cfg` files give the bounds.

`PROJECT.json` maps every definition to the lines it stands for.

## 3. Runs

| Run | Question | Bounds, and why they are enough |
|---|---|---|
| `ramhog_pool` | Are pads exclusive, does the semaphore agree with the pad table, does no job outlive its call, is a reported hash the hash of the caller's own input, and is only a miner's call ever cut short? | 3 threads for 2 pads (one must wait), 2 scratchpads per pad (one complete while the other is interrupted), 2 workers, one move of the tip (each comparison sees it before or after). Threads are symmetric. The theorems of section 5 remove the bounds. |
| `miner_node` | Does every check of a block end although the semaphore is not fair, is `fNeedCheckBlock` always taken back, is a mined block never submitted on an old tip? | One miner, one minter, one message/RPC thread and one pad: the smallest node in which a check has to compete; 2 scratchpads, 1 worker; one move of the tip. |
| `txinfo_store` | Do `Get` and `AddressesWithValue` agree, are unique values unique, are write-once values written once, does undo invert process, does the store implement a stack per key? | Two addresses, an id key and a normal key, values valid and invalid for each, any sequence of operations with restarts. |
| `chain_forks` | After any order of arrival of ten blocks on three branches, three of them invalid in different ways: is the node on the most trusted valid branch, and are index, infos, links and memory pool those of that branch? With transactions that arrive before those they spend: does no change of the chain lose a payment that is still possible and that the pool takes (`PaymentsKept`), does a message that accepts a transaction reach every orphan it makes acceptable (`OrphansAdopted`), is the index of the orphans exact and their number bounded (`OrphansIndexed`)? | Three branches from two fork points, so that a reorganization can fail before, at and after its first commit; a chain of dependent transactions and two that conflict, one with infos that a reorganization makes impossible to process, so that `CreateNewBlock` drops it, one that is confirmed and not standard; at most two orphans, so that one is evicted; no crash. |
| `chain_checkpoints` | With signed checkpoints on rival branches, a block that cannot be connected, two kills at any commit and a change of the master key: are the transaction index and the links on disk always those of one chain, which contains the checkpoint, and do checkpoints only move to descendants? | Two restarts: a crash in the recovery of a crash. The invalid block is reached as an extension, in a reorganization and as a postponed block. |
| `sync` | A node without scratchpads that is on a rival block, and a peer with them: does it catch up with whatever the peer gets, although blocks are dropped for want of a hash, requests are delayed and the connection may break; is no block kept whose hash was not signed? | Two nodes, four blocks, of which two share a stake and a parent; one block per `inv` answer to `getblocks` (`nLimit` 1), so that the continuation is needed; one loss of the connection. For the signed hashes and the orphans the theorems remove the bounds. |
| `sync_twins` | Two blocks of one stake, one of which the node fails to connect, arrive before their parent: does no orphan and no orphan's stake stay behind, and is the other twin asked for again? | Five blocks, two per answer, no loss of the connection. |
| `net_nodes` | Does no opener, no relay and, unless an unlocked increment wrote over other updates, no handler have a node that was deleted; how far below its users can such increments bring a count; is no outbound grant posted twice? | Two connections, one address, so that the two openers find each other's nodes and both increment the count of one, against both handlers; two outbound grants, one inbound slot. Connections and openers are symmetric. The instance reaches two races on one node, a count below its users and, after a race, a handler with a deleted node. The theorems remove the bounds. |
| `addrman` | After any sequence of addresses heard of, connections made, `getaddr` answers and restarts: do the conditions of `Check_` hold, are the buckets within their sizes, does `addr.dat` load back what was in memory? | Four peers at three addresses (two ports of one), three sources and new buckets, buckets of one entry, so that every insertion evicts and an entry can be in two buckets; three ids between two loads. The theorems remove the bounds. |
| `wallet_keys` | With two reservations, direct requests, refills, encryption, the lock timer, a shutdown, a `Rewrite` that fails and a kill at any commit: is no key handed out twice, is no key lost that was handed out or is in the pool, is no unencrypted key left after encryption unless `Rewrite` did not do its work? | A pool of 2 and 7 keys: the pool is emptied and refilled and, after the encryption, refilled again. The two reservations are symmetric. The theorems remove the bounds. |
| `block_rules` | On every branch: do supply, schedule and debt balance, do miners never bring the supply above the schedule, is the next target positive, within the limit and its factor of the past ones, and no harder for a later timestamp; does the median time never go back? | 7 blocks of both kinds with windows of 3, so that windows fill and slide; gaps that run back, are short and are long; a schedule that climbs, is capped and falls; the switch of the limit inside the branch. `TargetFollowsTime` recomputes the target with other timestamps in every state. |
| `chain_info_fork` | The finding of section 4. | |

Deadlock is checked in the pool, node, store, address-manager and wallet runs. The
others set `CHECK_DEADLOCK FALSE`: when every block of the instance has arrived,
the branch has its length, or every connection of the instance was used, there is
nothing left to do.

Fairness is assumed in two specifications. In `BlockSync` (`Fairness`) it is weak
fairness of each node's message thread (a message that stays to be processed is,
a node with something to send calls `SendMessages`) and of the rest of the
network towards the upstream node (a block or a hash that stays to come comes).
It is written out as "infinitely often nothing to do, or infinitely often done"
instead of with `WF`, which says the same and spares TLC the evaluation of
`ENABLED`. Delayed requests become due in any order and a connection need not
break.

In `miner_node` (`NodeFairness`): a thread inside
`ramhog()` that can go on does, the threads of the two boost services serve
their queues, and the holder of `cs_main` reaches the end of its scope. The
code justifies each by an operating-system thread that runs, and nothing more:
all of it is weak fairness. Nothing is assumed of who gets `cs_main`, of who
gets a unit of `waitPads` (`CSemaphore::wait` polls and sleeps, a waiting thread
has no place in a queue), or of the miner's loop. Under these assumptions
`CheckCompletes` holds because of `fNeedCheckBlock`, and fails when the flag is
not raised. It leaves out one stage: `getwork` and `submitblock` compute the
hash of the submitted block with `cs_main` held and *without* raising the flag,
and can be kept waiting by local miners for any length of time.

## 4. Findings

`chain_info_fork` (main.cpp:1592). `DisconnectBlock` calls `UndoTxInfos` without
the block hash and the transaction's place that `ConnectBlock` stored; `_Undo`
finds no row and fails, so a block with an info can never be disconnected and the
node stays on a less trusted branch. `chain_forks` therefore has infos only in
blocks that are never disconnected successfully.

Met while modelling, without a run of its own:

* main.cpp:1938. `Reorganize` switches to the first block of the new branch; the
  blocks after it are connected one by one. When one of these fails,
  `SetBestChain` leaves the loop but goes on to set `pindexBest` to the last
  block of the branch, while the database stays at the block before the failure.
  The case needs index records of blocks that survived a crash before they were
  connected; `chain_checkpoints` reaches it, and checks the database only
  (`DiskIsOneChain`). `MemoryIsDisk` fails there.
* main.cpp:1951. A crash between the commit of the block database and the commit
  of the info store loses the infos of the block: `DatabasesMatchBest` fails when
  an instance has both infos and restarts.
* main.cpp:2373. When `AcceptBlock` fails after the block has entered
  `mapBlockIndex`, `ProcessBlock` returns before its work queue and the orphans
  above that block stay until a restart. `OrphansConsistent` therefore excepts the
  orphans of a block that cannot be connected (`Connectable`), and says that no
  others stay.
* net.cpp:1336. `ConnectNode` publishes a node before `OpenNetworkConnection` sets
  `fHasGrant` and `fNetworkNode`. When the socket handler disconnects the node in
  between, it neither posts the grant nor releases the opener's reference: the
  node is never deleted and an outbound slot is lost.
* wallet.cpp:1742 and 1717. Indexes of the key pool are used again: by
  `TopUpKeyPool` when the pool is empty, by `NewKeyPool` always from 1. A
  reservation that holds such an index then keeps or returns the record of
  another key. `HandedOutOnce` is stated for behaviours in which that has not
  happened (`overlapped`), and fails without the condition.
* net.cpp:321 against net.cpp:529 ("hold in disconnected pool until all refs are
  released") and 541 ("wait until threads are done using it"). `ConnectNode`
  increments `nRefCount` of an existing node outside `cs_vNodes`. It may read 1, both
  handlers may copy `vNodes` and raise the count to 3, and it writes 2, one less than
  vNodes and its two users have. When the node is disconnected and one handler
  finishes, the count is 0 while the other still has the node, and 15 minutes later
  the node is deleted under it: with a round of the message handler that takes this
  long, a use after `delete`. `RefsCovered` says how much such races can cost,
  one reference each; `NoUseAfterDelete` is stated of handlers for nodes without a
  race, and fails without that condition.
* checkpoints.cpp:192. `AcceptPendingSyncCheckpoint` walks `vNodes` without
  `cs_vNodes`. The nodes it reaches are not deleted before their 15 minutes are over
  (`NoUseAfterDelete`); that the vector itself may be changed, or moved, under the
  iterator is undefined behaviour and not modelled.
* db.cpp:282. `CDB::Rewrite` removes `wallet.dat` and then renames the copy: a kill
  in between, or a rename that fails, leaves no `wallet.dat`, and the next start
  makes a new wallet (the copy is still there). A kill between the commit of
  `EncryptWallet` and `Rewrite` leaves the bytes of unencrypted keys in the file, and
  the next start does not try again. The model ends there (`Restart` and `Begin` need
  the file), and `KeysNotLost` counts the copy as saved.
* wallet.cpp:283 against wallet.cpp:281 ("Need to completely rewrite the wallet file;
  if we don't, bdb might keep bits of the unencrypted private key in slack space").
  `CDB::Rewrite` returns false at once when `fShutdown` is set (db.cpp:206, 295), and
  when it fails (db.cpp:288-290). `EncryptWallet` ignores the result and returns true:
  the user is told that the wallet is encrypted, and the file has the bytes. `PlainGone`
  therefore excepts encryptions without a rewrite (`skipped`); without the exception it
  fails.
* main.cpp:1831 against main.cpp:1829 ("Resurrect memory transactions that were in the
  disconnected branch"). `accept` refuses an `nLockTime` beyond 2038 and, on the main
  net, a transaction that is not standard, with `fCheckInputs` false too
  (main.cpp:565-571), and `ConnectBlock` asks for neither: such a payment, once
  confirmed, is in neither chain nor pool after a reorganization. `PaymentsKept` excepts
  these (`NonStandardTxs`), and fails without the exception.
* main.cpp:4044. `CreateNewBlock` removes from the pool, without a word to anyone, a
  transaction whose infos cannot be processed on top of those it has collected, also
  when only its order behind another made it so, or when its first input went back from
  the chain to the pool in a reorganization. It then starts over with the
  transactions and fees of the first round still in the block, so that the block has
  them twice. What the block contains is not modelled.
* addrman.cpp:142. `SelectTried` means to return the least recently tried of a few
  entries; the position it keeps is not the one the entry has after the swap, so
  another may be given up. The model lets it be any of them.
* main.cpp:961. `doc/whitepaper.md:30` says "The reward is capped at 400". The full
  subsidy is; a negative debt (rewards not claimed, or stakes that burn more than
  they mint) is paid out on top of it. `SupplyBounded` is what does hold.
* main.cpp:1120. The factor `dMaxAdjust` is a double: where the product is an
  integer, the cast may give one less, depending on the build. The model takes
  either (`lost`); two builds that differ would disagree on `nBits`.

* main.cpp:3294. The work queue of the `tx` handler reads
  `mapOrphanTransactionsByPrev[hashPrev]`, which leaves an empty entry for every
  transaction accepted; the limit on orphans does not count these.
* main.cpp:3294. Only a `tx` message looks at the orphans: one whose parent is
  confirmed by a block, or sent by the node's own wallet, stays an orphan until it
  is evicted or sent again. `OrphansAdopted` is stated of the message.

## 5. Theorems

Proved by TLAPS for all values of the constants, from the named assumptions of
the modules: the constants have their types, special values are distinct, bounds are
natural numbers, and

* `PoolAssumption`, `NetAssumption`: finitely many threads, finitely many openers;
  `SyncAssumption`: two nodes;
* `TreeAssumption`: finitely many transactions, and going from a block to its
  parent always ends at the genesis block (a block contains the hash of its parent);
  the infos of a transaction are a sequence of records;
* `ScheduledAssumption`: the table of what the schedule has paid is the sum of its
  subsidies; `TimesAssumption`: gaps are integers and the window of the median is
  not empty;
* `WalletKeysAssumption`: the pool has room for at least one key, and the instance
  has enough keys to fill it;
* `AddrManAssumption`: finitely many buckets, none of size 0, and at most a hundred
  percent of the addresses in an answer.

No theorem assumes finitely many blocks, connections, addresses, records or keys.

* **RamhogPoolProofs**, the pool: `TypeCorrect`, `PadsAreSound` (from `PadsExclusive`
  and `PadMismatchImpossible`), `NoStrayJobs`, `HashesAreOwn`, `ChecksComplete`. The
  properties are not inductive. The invariant `IInv` adds: `SemaphoreInv`, the
  semaphore counts exactly the threads that do not hold a unit; `PadInv`, a pad is
  marked exactly when one thread owns it; `CommandInv`, a thread waits for its
  future exactly when its command job is queued, running or done, and only one of
  these; `WorkerInv`, for a running command job each scratchpad's promise is pending
  exactly when its worker job is queued or running, once. `PadMismatchImpossible`
  then is a counting argument: a thread at the pick holds a unit and no pad, so
  fewer than `numSimultaneous` pads are marked. `HashesAreOwn` adds `HashInv`: a
  promise that is set to ok belongs to a scratchpad generated for that thread.
  `ChecksComplete` adds `CheckInv`, which follows the failure backwards: a call that
  is not a miner's has no interrupted scratchpad, so its command job does not fail.
* **RamhogPoolProofs**, the node: `NodeImplementsPool` (every step of the node is a
  step of the open pool, so the theorems above hold of the node), `FlagAlwaysOwned`
  and `MinedOnTip`, from `NodeInv`: whoever is in a scope of `cs_main` is its only
  holder, and a thread in its loop has no block.
* **TxInfoStoreProofs**: `StoreTypeCorrect`, `LatestRowsAreNewest`,
  `KeyRulesHold` (from `UniqueAddresses` and `NeverOverwritten`), `UndoIsInverse`,
  for any number of rows, over the open and the committed table; and
  `StoreImplementsHistory`, the refinement. The abstract stack of an address and key
  is its rows in the order of their ids; the proof numbers finite sets of ids by
  rank and shows that adding an id above all others appends to the numbering, and
  that deleting the highest id drops its last member. `Undo` deletes the highest
  because `is_latest` marks it (`LatestIsNewest`).
* **ChainStateProofs**: `CheckpointsAdvance`: in every step the sync-checkpoint
  stays, moves to a descendant, or is reset by a change of the master key. The
  invariant `Carried` says that the block an operation is about to write as a
  checkpoint was validated against the current one, and that no step in between
  changes the current one.
* **ChainStateProofs**, the pool: `PoolAlwaysIndexed` (`mapNextTx` is exactly the
  index of the inputs of `mapTx`, so no two transactions of the pool spend one
  output) and `OrphansAlwaysIndexed` (the index of the orphans by previous
  transaction is exact, and their number stays within the limit), over every block,
  reorganization, `tx` message, crash and restart. `MempoolInv` adds that the block
  index is closed under parents and that what an operation has still to connect is
  in it. The operators on the pool are folds over sequences and sets; `FoldLemmas`
  shows that a fold whose step keeps a property keeps it, by looking at the least
  step that would not.
* **ChainStateProofs**, the databases: `TypesAlwaysOK`, `MemoryAlwaysDisk`,
  `CheckpointAlwaysInMainChain` and `DiskAlwaysOneChain`. For the types, `ChainInv`
  adds to `MempoolInv` where an operation can stand and what it is about (`OpInv`), and
  that a link leaves the genesis block once a block was connected (`StartInv`):
  without it `ResetSyncCheckpoint` would look for a hardened checkpoint on no chain.
  For the other three, `LinkInv` says what disk and memory show *during* an operation:
  while postponed blocks are to be connected, `hashNext` ends at the block connected
  last and the postponed blocks lead on from there to the block of the operation, each
  the parent of the next; and the checkpoint is an ancestor of `hashBestChain`. `IndexInv`
  says that the transaction index is that of the transactions up to `hashBestChain`.
  The proof goes block by block: connecting a block takes the index of its
  parent's chain to the index of its own, disconnecting it takes it back
  (`Indexes`, `AddsTx`, `TakesTx`), and `Reorganize` is a descent from the old best
  block to the fork and an ascent to the new one. The hypotheses:
  `PostponedConnect`, no postponed block fails, since after such a failure
  `pindexBest` is ahead of the disk (section 4) and the next block is connected to a
  chain the disk does not have; the run `chain_checkpoints` checks the disk with
  such failures in a small tree. `NoRepeats`, no path of the tree has a
  transaction twice: the code lets a block repeat one whose outputs are all spent, and
  the index has one record for the two. Only `DiskAlwaysOneChain` and
  `PoolAlwaysFollowsChain` assume it; the trees of the runs satisfy it.
* **ChainStateProofs**, the pool against the chain: `PaymentsAlwaysKept`,
  `PoolAlwaysFollowsChain`, `OrphansAlwaysAdopted`. A payment is kept (`IsKept`) when
  it or a rival is in the pool, or when it is of a kind that `accept` always refuses;
  resurrection, in order, keeps every transaction of the disconnected blocks
  (`ResurrectedKeeps`), since what else `accept` refuses spends what a transaction of
  the pool spends, or is in the pool; what the new branch removes is in the new branch,
  or conflicts with it. `CreateNewBlock` drops one transaction and nothing else. `PoolFollowsChain` needs the index: `checkAccept`
  refuses a confirmed transaction because it is indexed, and a resurrected
  one is in no block that stays connected (`OneBlock`, from `NoRepeats`). For the orphans, the loop of the
  `tx` message: each transaction enters the work queue at most once, since it must be
  new to the pool (`Queued`), so as many rounds as there are transactions empty the
  queue; and an orphan that was tried is erased, misses an input, or spends an entry
  still in the queue (`Waits`) and will be tried again.
* **BlockSyncProofs**: `SignedAlways` and `OrphansAlwaysConsistent`, for any tree of
  blocks, any stakes and any blocks that cannot be connected. `SyncInv` has, for
  every node, that the orphans are finitely many, are not in the index, and wait for
  a parent that is not in the index or cannot be connected; and, for a node without
  scratchpads, that it computed no hash itself and everything it keeps was signed.
  The work queue is the difficulty: between its steps orphans of accepted blocks
  are still there. `Progress` says that their parents are in the queue, and counts:
  each orphan that enters the queue leaves the orphans, so that the queue is empty
  after one step more than there were orphans.
* **PeersProofs**, the connections: `NeverUsedAfterDelete` and `CountsCover`, for any number of
  connections, addresses and openers, and whatever falls between an opener's read of a
  count and its write. Neither property is inductive. The invariant adds `PoolsLive`
  (`vNodes` and the pool are disjoint and all alive), `CopiesPooled` (what a handler
  works on is in one of them), `OpenersPooled` and `WalkPooled` (what an opener or a
  relay works on, without a reference, is in `vNodes`, or in the pool with its time not
  over). `ReadsCovered` is what makes the split increment provable: the count an opener
  has read, with the races so far, still covers the node in `vNodes`, or the users that
  are left once it is disconnected (no handler can join them any more), but for
  one reference; so a write that is late falls short by at most one, which is then
  counted in `races`. A node to be deleted has a count of at most 0, so by
  `RefsCovered` no handler uses it unless it had a race, and its time is over, so
  no opener and no relay has it. That no opener needs 15 minutes between getting a node
  and setting its last flag, and no relay that long along `vNodes`, is the guard of
  `ReleaseTimePassed`, and the only thing that protects them. `NoGrantTwice` is the counting of
  `semOutbound`: its value and the grants of nodes and openers together never
  exceed `nMaxOutbound` (`GrantInv`).
* **PeersProofs**, the addresses: `AddrManChecks` and `AddressesLoadBack`, for all
  peers, any buckets and bucket sizes, any hashes and any number of ids. `ManInv` says
  what the members of the object have to do with each other: `mapAddr` has the address
  of every entry and no other (`AddrInv`), `vRandom` and `nRandomPos` are inverse to
  each other (`RandomInv`), `nRefCount` counts new buckets (`NewInv`), a tried bucket
  lists each tried entry that hashes to it once (`TriedInv`). `CheckPasses` alone is not
  inductive: it does not say that a tried entry is in the bucket of its own address,
  which is what makes the file load back. Inside `Add_`, after
  `nRefCount` was raised and before the bucket has the entry, `ShrinkNew` runs on an
  object whose counts are off by one: `NewInv` has a parameter for the entry that is
  owed a bucket, and the proof shows that `ShrinkNew` cannot delete that entry.
  Eviction from a full tried bucket (`EvictKeeps`) rests on the bucket it falls back
  to: the entry that becomes tried has just left it, so there is room. For the restart,
  the file numbers new and tried entries by rank, a bijection (`Ranked`); `LoadInv`
  describes the object while tried entries are loaded, and no tried entry is dropped
  because its bucket holds an injective image of fewer entries than it held before
  (`LoadRoom`). The loops of `GetAddr_` and `Unserialize` are functions defined by
  recursion; `FoldLemmas` shows that they exist and what they keep.
* **WalletKeysProofs**: `KeysHandedOutOnce`, `NoKeyLost` and `NoPlainKeyLeft`, for any
  number of reservations and keys and a pool of any size. The invariant: memory has
  the keys of `wallet.dat`, which has every key ever generated, and bytes of unencrypted
  keys only while they are being encrypted or after a rewrite was skipped (`KeysInv`); the key
  about to be written to the pool is nobody's, and no two records have one key
  (`FreshInv`); as long as no index was used again, a pool record has one user
  (`PoolInv`); and where the operation that holds `cs_wallet` can be (`OpInv`).
* **BlockRulesProofs**: `LedgerAlwaysBalances` and `SupplyNeverAbove`, for every
  schedule, all fees, unclaimed rewards and stakes, and every length of the
  branch. `SupplyBounded` is not inductive; the invariant adds that the debt is
  at most what proof-of-stake blocks minted (`DebtInv`), and that the branch is
  not empty and counts its proof-of-work blocks (`BranchInv`). A proof-of-work
  block either pays back all of the debt, so that none is left, or is paid at
  most a quarter of its subsidy, so that the debt shrinks; the one fact about
  the schedule that is needed is that no subsidy is negative
  (`FullSubsidyNat`). `MedianNeverBack`, for every length of the window: the median
  is characterised by how many timestamps of the window are below it and how many
  are not above it, and a window that drops its oldest timestamp for one later than
  its median cannot have a smaller one.

Only model-checked:

* liveness (`CheckCompletes`, `CatchesUp`), which the prover cannot state;
* `DatabasesMatchBest` of `ChainState`. Its half about the transaction index follows
  from `IndexInv`, as in `DiskAlwaysOneChain`; the other half compares the rows of the
  info store, in the order of their ids, with the infos of the whole branch, and the
  order of a concatenation along a branch is an induction over data;
* `MostTrusted` of `ChainState`, which is about what connecting a whole branch from the
  genesis block computes (`Connectable`), and does not hold with checkpoints;
* `TargetFollowsTime` of `BlockRules`: integer division along a recursion over the
  branch.

## 6. Abstractions

* Chain: a transaction has one output and is valid unless an input is spent or
  missing; scripts, amounts, maturity and the proofs of a block are the opaque
  reason of `BadBlocks`. Infos belong to the address of the first input. A
  coinbase carries no infos. Disk errors, and an operating-system crash that
  loses commits made with `DB_TXN_WRITE_NOSYNC`, are not modelled: a crash is
  the death of the process. The first start has finished. The size limit of an
  orphan transaction is a set (`LargeTxs`), the order of the orphans by hash any
  fixed one. Transactions that are not standard in themselves are a set
  (`NonStandardTxs`); fees, the rate limit and the standardness of inputs, which only
  keep a new transaction out, are left out, as is relaying (`mapRelay`, `AlreadyHave`).
  `CreateNewBlock` may pass over any transaction, as sizes, fees, times and priorities do.
* Info store: strings are opaque values; `byteEstimate` is never read and is
  left out.
* Pool: the hash itself is which inputs its scratchpads came from.
* Node: `IncrementExtraNonce`'s shared static and the hash meter are left out:
  each thread has its own key, so two threads never build the same block.
* Synchronization: height stands for chain trust; the stake of an orphan checks;
  the node is past its initial download; the bound of the `mruset`s, the byte
  limit of `getblocks` and the 20 blocks of `getsigpowhas` are not reached;
  `WantedByPendingSyncCheckpoint` is left out; a locator is exact, as it is for
  chains of fewer than ten blocks; a broken connection is replaced in one step;
  a node with several peers may or may not ask a new one for blocks.
* Connections: a pass of the socket handler over `vNodes` is atomic, as the lock
  makes it; a vector that is changed under the unlocked walk of
  checkpoints.cpp:192 is undefined and not modelled; bans, refusals and the contents of buffers are any choice; descriptors and the
  end of the threads are left out.

* Address manager: `Attempt_` and `Connected_` change only times, which are any
  choice; the hashes that choose a bucket are constants; a change of the number
  of buckets between two versions of `addr.dat` is left out.
* Wallet: a passphrase is right or `Unlock` changes nothing, and a change of
  passphrase rewrites one record; the write of the minimum version is left out; a
  record's write to `wallet.dat` does not fail, and after a rewrite that left no
  `wallet.dat` no further operation on keys is modelled. What a locked wallet with an empty pool hands out, the default key, is
  meant to be used again and is not counted.
* Block rules: the numbers of the code are constants with small values, chosen
  with their order; the timestamp's upper bound against the clock is the largest
  gap; coin age, and with it the reward of a stake, is any amount of the
  instance; the overflow of `GetProofOfStakeReward` beyond about 2.8e13
  coin-seconds is not reached.

## 7. What is not modelled, and the plan

Modelled so far, in this order: the ramhog pool and its callers, the info store,
the chain with its crashes, its memory pool and its orphan transactions,
synchronization, the life of a connection, the address manager, the wallet's keys,
the rules of the next block. What is left, in the order
of its weight:

1. **More proofs**: the info half of `DatabasesMatchBest`, and `DiskIsOneChain` up to the
   restart that follows a failed postponed block.
2. **Wallet coins**: `mapWallet` and the spent flags against connect and disconnect.
3. **Relay**: `mapRelay` and its expiry, `AlreadyHave`; alerts.
4. **Databases and shutdown**: the use counts of open files, `Flush` and the order
   in which `Shutdown` stops the threads.
5. **Stake kernel**: the stake modifier as a function over bounded inputs, against a
   reference definition.
6. **Script**: the stacks and conditionals of the interpreter.

Not planned: the RPC server's formatting, the GUI, serialization and big numbers,
the cryptography, SQLite and Berkeley DB themselves.
