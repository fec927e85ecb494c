----------------------------- MODULE RamhogPool -----------------------------
(***************************************************************************)
(* CRamhogThreadPool (hashblock/ramhog_mt.cpp): the pool that computes the *)
(* memory-hard proof-of-work hash.  A caller of ramhog() waits on the      *)
(* semaphore waitPads, picks a set of scratchpads (a "pad" below) under    *)
(* cs_pickPad, posts one command job, and blocks on its future.  The       *)
(* command job posts N worker jobs, one per scratchpad of the pad, waits   *)
(* for all their promises and runs the iterations over the pad.            *)
(*                                                                         *)
(* A call made by the miner (fForMiner) is refused while a received block  *)
(* has to be checked, and is interrupted when pindexBest has moved since   *)
(* the call began; pindexBest is read without a lock at four places.       *)
(*                                                                         *)
(* The environment is open: any thread may call ramhog() when it is idle,  *)
(* pindexBest may move and fNeedCheckBlock may be set or reset at any      *)
(* step.  MinerNode closes it with the callers' own control.               *)
(***************************************************************************)
EXTENDS Integers, Sequences, FiniteSets

CONSTANTS Threads,          \* the threads that call ramhog()
          numSimultaneous,  \* -ramhogthreads: pads, and command threads
          numWorkers,       \* -ramhogworkers: worker threads
          N,                \* nShinyScratchpads: scratchpads per pad
          Stale,            \* content of a scratchpad no current call generated
          MaxBest           \* bound: how often pindexBest may move

ASSUME PoolAssumption ==
  /\ IsFiniteSet(Threads)
  /\ numSimultaneous \in Nat
  /\ numWorkers \in Nat
  /\ N \in Nat \ {0}
  /\ Stale \notin Threads
  /\ MaxBest \in Nat

Pads    == 1..numSimultaneous
PadIdx  == 1..N
NoPad   == 0

\* A worker job holds the reference to its promise (thread, scratchpad) and
\* the pad it was given.
Jobs == Threads \X Pads \X PadIdx

\* A scratchpad is generated from the input of some call.  Every call hashes
\* another header, so all that matters is whose current call that is: Stale
\* is the content after malloc() or left by a call that gave the pad back.
Contents == Threads \cup {Stale}

VARIABLES
  pindexBest,       \* the tip of the best chain, written by SetBestChain
  fNeedCheckBlock,  \* a received block is waiting for its hash
  pc,               \* where each thread is in ramhog()
  fForMiner,        \* the argument of each thread's call
  pindexForBest,    \* the tip each thread saw when its call began
  waitPads,         \* the semaphore
  fPadUsed,         \* which pads are taken, guarded by cs_pickPad
  whichPad,         \* the pad each thread picked
  commandQueue,     \* commandService: posted ramhog_mt jobs
  commandRun,       \* the jobs the command threads are running
  workerQueue,      \* workerService: posted ramhog_gen_pad_mt jobs
  workerRun,        \* the jobs the worker threads are running
  padDone,          \* pad_dones of each thread's command job
  ramhogDone,       \* ramhog_done of each thread's call
  scratchpads,      \* what each scratchpad was generated from
  output,           \* what each thread's iterations were run over
  result            \* what ramhog() last returned to each thread

callVars == <<pc, fForMiner, pindexForBest, whichPad, result>>
padVars  == <<waitPads, fPadUsed>>
jobVars  == <<commandQueue, commandRun, workerQueue, workerRun, padDone,
              ramhogDone, scratchpads, output>>
envVars  == <<pindexBest, fNeedCheckBlock>>
poolVars == <<callVars, padVars, jobVars>>
vars     == <<envVars, poolVars>>

PC == {"idle", "wait", "recheck", "pick", "post", "await", "free", "signal"}

TypeOK ==
  /\ pindexBest \in 0..MaxBest
  /\ fNeedCheckBlock \in BOOLEAN
  /\ pc \in [Threads -> PC]
  /\ fForMiner \in [Threads -> BOOLEAN]
  /\ pindexForBest \in [Threads -> 0..MaxBest]
  /\ waitPads \in 0..numSimultaneous
  /\ fPadUsed \in [Pads -> BOOLEAN]
  /\ whichPad \in [Threads -> Pads \cup {NoPad}]
  /\ commandQueue \in Seq(Threads)
  /\ commandRun \in SUBSET Threads
  /\ workerQueue \in Seq(Jobs)
  /\ workerRun \in SUBSET Jobs
  /\ padDone \in [Threads -> [PadIdx -> {"pending", "ok", "interrupted"}]]
  /\ ramhogDone \in [Threads -> {"pending", "ok", "fail"}]
  /\ scratchpads \in [Pads -> [PadIdx -> Contents]]
  /\ output \in [Threads -> SUBSET Contents]
  /\ result \in [Threads -> {"none", "ok", "fail"}]

PoolInit ==
  /\ pc = [t \in Threads |-> "idle"]
  /\ fForMiner = [t \in Threads |-> FALSE]
  /\ pindexForBest = [t \in Threads |-> 0]
  /\ waitPads = numSimultaneous
  /\ fPadUsed = [p \in Pads |-> FALSE]
  /\ whichPad = [t \in Threads |-> NoPad]
  /\ commandQueue = <<>>
  /\ commandRun = {}
  /\ workerQueue = <<>>
  /\ workerRun = {}
  /\ padDone = [t \in Threads |-> [i \in PadIdx |-> "pending"]]
  /\ ramhogDone = [t \in Threads |-> "pending"]
  /\ scratchpads = [p \in Pads |-> [i \in PadIdx |-> Stale]]
  /\ output = [t \in Threads |-> {}]
  /\ result = [t \in Threads |-> "none"]

Init == pindexBest = 0 /\ fNeedCheckBlock = FALSE /\ PoolInit

Goto(t, from, to) == pc[t] = from /\ pc' = [pc EXCEPT ![t] = to]

\* Mutated form of Interrupted: the check is made for every caller.
InterruptedForAll(t) == pindexForBest[t] # pindexBest

\* The test "fForMiner && pindexForBest != pindexBest".
Interrupted(t) == fForMiner[t] /\ pindexForBest[t] # pindexBest

NoWorkers == numSimultaneous = 0 \/ numWorkers = 0

(***************************************************************************)
(* The caller's side: CRamhogThreadPool::ramhog.                           *)
(***************************************************************************)

\* ramhog() returns false at once: no workers, or a miner's call while a
\* block waits for its check.
Refuse(t, miner) ==
  /\ pc[t] = "idle"
  /\ NoWorkers \/ (fNeedCheckBlock /\ miner)
  /\ result' = [result EXCEPT ![t] = "fail"]
  /\ fForMiner' = [fForMiner EXCEPT ![t] = miner]
  /\ UNCHANGED <<pc, pindexForBest, whichPad, padVars, jobVars>>

\* ramhog() passes its guards and remembers pindexBest.
Call(t, miner) ==
  /\ Goto(t, "idle", "wait")
  /\ ~NoWorkers
  /\ ~(fNeedCheckBlock /\ miner)
  /\ fForMiner' = [fForMiner EXCEPT ![t] = miner]
  /\ pindexForBest' = [pindexForBest EXCEPT ![t] = pindexBest]
  /\ result' = [result EXCEPT ![t] = "none"]
  /\ UNCHANGED <<whichPad, padVars, jobVars>>

\* Mutated form of WaitPads: the semaphore is tested but not taken.
WaitPadsNoTake(t) ==
  /\ Goto(t, "wait", "recheck")
  /\ waitPads > 0
  /\ UNCHANGED <<fForMiner, pindexForBest, whichPad, result, padVars,
                 jobVars>>

\* waitPads.wait()
WaitPads(t) ==
  /\ Goto(t, "wait", "recheck")
  /\ waitPads > 0
  /\ waitPads' = waitPads - 1
  /\ UNCHANGED <<fForMiner, pindexForBest, whichPad, result, fPadUsed,
                 jobVars>>

\* The tip moved while the miner waited: give the semaphore back and fail.
GiveUp(t) ==
  /\ Goto(t, "recheck", "idle")
  /\ Interrupted(t)
  /\ waitPads' = waitPads + 1
  /\ pindexForBest' = [pindexForBest EXCEPT ![t] = 0]
  /\ result' = [result EXCEPT ![t] = "fail"]
  /\ UNCHANGED <<fForMiner, whichPad, fPadUsed, jobVars>>

Proceed(t) ==
  /\ Goto(t, "recheck", "pick")
  /\ ~Interrupted(t)
  /\ UNCHANGED <<fForMiner, pindexForBest, whichPad, result, padVars,
                 jobVars>>

\* The scan under cs_pickPad takes the first pad that is not used.
PickPad(t) ==
  /\ Goto(t, "pick", "post")
  /\ \E p \in Pads :
       /\ ~fPadUsed[p]
       /\ \A q \in Pads : q < p => fPadUsed[q]
       /\ fPadUsed' = [fPadUsed EXCEPT ![p] = TRUE]
       /\ whichPad' = [whichPad EXCEPT ![t] = p]
  /\ UNCHANGED <<fForMiner, pindexForBest, result, waitPads, jobVars>>

\* A fresh promise, and commandService.post(ramhog_mt).
PostCommand(t) ==
  /\ Goto(t, "post", "await")
  /\ ramhogDone' = [ramhogDone EXCEPT ![t] = "pending"]
  /\ commandQueue' = Append(commandQueue, t)
  /\ UNCHANGED <<fForMiner, pindexForBest, whichPad, result, padVars,
                 commandRun, workerQueue, workerRun, padDone, scratchpads,
                 output>>

\* ramhog_done.get_future().get()
GetDone(t) ==
  /\ Goto(t, "await", "free")
  /\ ramhogDone[t] # "pending"
  /\ result' = [result EXCEPT ![t] = ramhogDone[t]]
  /\ UNCHANGED <<fForMiner, pindexForBest, whichPad, padVars, jobVars>>

\* Mutated form of FreePad: the pad stays marked as used.
FreePadKept(t) ==
  /\ Goto(t, "free", "signal")
  /\ UNCHANGED <<fForMiner, pindexForBest, whichPad, result, padVars,
                 jobVars>>

FreePad(t) ==
  /\ Goto(t, "free", "signal")
  /\ fPadUsed' = [fPadUsed EXCEPT ![whichPad[t]] = FALSE]
  /\ scratchpads' = [scratchpads EXCEPT ![whichPad[t]] = [i \in PadIdx |-> Stale]]
  /\ UNCHANGED <<fForMiner, pindexForBest, whichPad, result, waitPads,
                 commandQueue, commandRun, workerQueue, workerRun, padDone,
                 ramhogDone, output>>

\* waitPads.post(), and ramhog() returns: its locals, the promises among
\* them, go out of scope.
PostPads(t) ==
  /\ Goto(t, "signal", "idle")
  /\ waitPads' = waitPads + 1
  /\ pindexForBest' = [pindexForBest EXCEPT ![t] = 0]
  /\ whichPad' = [whichPad EXCEPT ![t] = NoPad]
  /\ ramhogDone' = [ramhogDone EXCEPT ![t] = "pending"]
  /\ output' = [output EXCEPT ![t] = {}]
  /\ UNCHANGED <<fForMiner, result, fPadUsed, commandQueue, commandRun,
                 workerQueue, workerRun, padDone, scratchpads>>

(***************************************************************************)
(* The command threads: ramhog_mt.                                         *)
(***************************************************************************)

CommandFree == Cardinality(commandRun) < numSimultaneous

\* A command thread takes a job whose miner was overtaken: it fails at once.
CommandAbort ==
  /\ commandQueue # <<>> /\ CommandFree
  /\ LET t == Head(commandQueue) IN
       /\ Interrupted(t)
       /\ ramhogDone' = [ramhogDone EXCEPT ![t] = "fail"]
  /\ commandQueue' = Tail(commandQueue)
  /\ UNCHANGED <<callVars, padVars, commandRun, workerQueue, workerRun,
                 padDone, scratchpads, output>>

\* It posts one worker job for every scratchpad of the pad.
CommandStart ==
  /\ commandQueue # <<>> /\ CommandFree
  /\ LET t == Head(commandQueue) IN
       /\ ~Interrupted(t)
       /\ commandRun' = commandRun \cup {t}
       /\ workerQueue' = workerQueue \o [i \in PadIdx |-> <<t, whichPad[t], i>>]
  /\ commandQueue' = Tail(commandQueue)
  /\ UNCHANGED <<callVars, padVars, workerRun, padDone, ramhogDone,
                 scratchpads, output>>

\* Mutated form of AllSet: the job stops waiting at the first interruption.
AllSetOrInterrupted(t) ==
  \/ \A i \in PadIdx : padDone[t][i] # "pending"
  \/ \E i \in PadIdx : padDone[t][i] = "interrupted"

\* The loop over pad_dones has seen every promise set.
AllSet(t) == \A i \in PadIdx : padDone[t][i] # "pending"

\* Mutated form of PadsOk: only the first promise's value counts.
FirstPadOk(t) == padDone[t][1] = "ok"

\* fSuccess after the loop.
PadsOk(t) == \A i \in PadIdx : padDone[t][i] = "ok"

\* All promises are set: the job fails if one was interrupted, and else runs
\* the iterations, which read every scratchpad of the pad.  Its promises are
\* gone when it returns.
CommandFinish(t) ==
  /\ t \in commandRun
  /\ AllSet(t)
  /\ IF PadsOk(t)
     THEN /\ output' = [output EXCEPT ![t] =
                          {scratchpads[whichPad[t]][i] : i \in PadIdx}]
          /\ ramhogDone' = [ramhogDone EXCEPT ![t] = "ok"]
     ELSE /\ ramhogDone' = [ramhogDone EXCEPT ![t] = "fail"]
          /\ UNCHANGED output
  /\ commandRun' = commandRun \ {t}
  /\ padDone' = [padDone EXCEPT ![t] = [i \in PadIdx |-> "pending"]]
  /\ UNCHANGED <<callVars, padVars, commandQueue, workerQueue, workerRun,
                 scratchpads>>

(***************************************************************************)
(* The worker threads: ramhog_gen_pad_mt.                                  *)
(***************************************************************************)

WorkerFree == Cardinality(workerRun) < numWorkers

WorkerAbort ==
  /\ workerQueue # <<>> /\ WorkerFree
  /\ LET t == Head(workerQueue)[1] IN
       /\ Interrupted(t)
       /\ padDone' = [padDone EXCEPT ![t][Head(workerQueue)[3]] = "interrupted"]
  /\ workerQueue' = Tail(workerQueue)
  /\ UNCHANGED <<callVars, padVars, commandQueue, commandRun, workerRun,
                 ramhogDone, scratchpads, output>>

WorkerStart ==
  /\ workerQueue # <<>> /\ WorkerFree
  /\ ~Interrupted(Head(workerQueue)[1])
  /\ workerRun' = workerRun \cup {Head(workerQueue)}
  /\ workerQueue' = Tail(workerQueue)
  /\ UNCHANGED <<callVars, padVars, commandQueue, commandRun, padDone,
                 ramhogDone, scratchpads, output>>

\* ramhog_gen_pad writes the scratchpad, then the promise is set.
WorkerFinish(job) ==
  /\ job \in workerRun
  /\ scratchpads' = [scratchpads EXCEPT ![job[2]][job[3]] = job[1]]
  /\ padDone' = [padDone EXCEPT ![job[1]][job[3]] = "ok"]
  /\ workerRun' = workerRun \ {job}
  /\ UNCHANGED <<callVars, padVars, commandQueue, commandRun, workerQueue,
                 ramhogDone, output>>

(***************************************************************************)
(* The environment, and the specification.                                 *)
(***************************************************************************)

\* SetBestChain assigns pindexBest.
NewBest ==
  /\ pindexBest < MaxBest
  /\ pindexBest' = pindexBest + 1
  /\ UNCHANGED <<fNeedCheckBlock, poolVars>>

SetNeedCheckBlock(fNew) ==
  /\ fNeedCheckBlock' = fNew
  /\ UNCHANGED <<pindexBest, poolVars>>

CallerStep(t) ==
  \/ WaitPads(t) \/ GiveUp(t) \/ Proceed(t) \/ PickPad(t) \/ PostCommand(t)
  \/ GetDone(t) \/ FreePad(t) \/ PostPads(t)

ServiceStep ==
  \/ CommandAbort \/ CommandStart \/ \E t \in Threads : CommandFinish(t)
  \/ WorkerAbort \/ WorkerStart \/ \E job \in workerRun : WorkerFinish(job)

PoolNext ==
  \/ \E t \in Threads : CallerStep(t)
  \/ ServiceStep

Next ==
  \/ \E t \in Threads, miner \in BOOLEAN : Refuse(t, miner) /\ UNCHANGED envVars
  \/ \E t \in Threads, miner \in BOOLEAN : Call(t, miner) /\ UNCHANGED envVars
  \/ PoolNext /\ UNCHANGED envVars
  \/ NewBest
  \/ \E fNew \in BOOLEAN : SetNeedCheckBlock(fNew)

Spec == Init /\ [][Next]_vars
(***************************************************************************)
(* Safety.                                                                 *)
(***************************************************************************)

\* The threads that hold one unit of waitPads, and those that own a pad.
HoldsUnit(t) == pc[t] \in {"recheck", "pick", "post", "await", "free", "signal"}
OwnsPad(t)   == pc[t] \in {"post", "await", "free"}

\* The exception "waitPads/fPadUsed mismatch" of ramhog() is never thrown: a
\* thread that got through the semaphore always finds a pad that is not used,
\* although the pad and the semaphore are given back in two separate steps.
NoPadMismatch ==
  \A t \in Threads : pc[t] = "pick" => \E p \in Pads : ~fPadUsed[p]

\* Two calls of ramhog() never own the same scratchpads at the same time.
PadExclusive ==
  \A t, u \in Threads :
    OwnsPad(t) /\ OwnsPad(u) /\ whichPad[t] = whichPad[u] => t = u

\* The pads are handed out soundly: two calls never share one, and a call that
\* passed the semaphore finds one.
PadsSound == NoPadMismatch /\ PadExclusive

\* No ramhog_gen_pad_mt job outlives its call: a queued or running job writes
\* into the pad its caller still owns, and sets a promise that still exists
\* (pad_dones is on the stack of ramhog_mt).
JobsBelong ==
  \A job \in workerRun \cup {workerQueue[i] : i \in DOMAIN workerQueue} :
    /\ pc[job[1]] = "await"
    /\ whichPad[job[1]] = job[2]
    /\ job[1] \in commandRun

\* A hash that ramhog() reports as computed was computed from scratchpads that
\* were all generated from the caller's own input, never from what an earlier
\* or an interrupted call left in the pad.
HashFromOwnInput ==
  \A t \in Threads :
    pc[t] = "await" /\ ramhogDone[t] = "ok" => output[t] = {t}

\* Only the miner is interrupted by a new best block or turned away by
\* fNeedCheckBlock: the check of a received block (GetPoWHash) fails only when
\* the node has no workers.
CheckNeverInterrupted ==
  \A t \in Threads : result[t] = "fail" /\ ~fForMiner[t] /\ pc[t] = "idle" => NoWorkers
=============================================================================
