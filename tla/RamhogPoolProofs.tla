-------------------------- MODULE RamhogPoolProofs --------------------------
(***************************************************************************)
(* Proofs about RamhogPool, for every number of threads, pads, workers and *)
(* scratchpads.  The inductive invariant has four parts: the semaphore     *)
(* counts the threads that may own a pad, fPadUsed records exactly who     *)
(* owns one, a command job stands for exactly one caller that waits for    *)
(* it, and a worker job for exactly one promise that is still pending.     *)
(*                                                                         *)
(* At the end, proofs about MinerNode: its node uses the pool as           *)
(* RamhogPool allows, so that every theorem about the pool holds of it,    *)
(* and its two safety properties hold for any number of threads.           *)
(***************************************************************************)
EXTENDS MinerNode, FiniteSetTheorems, SequenceTheorems, TLAPS

Units  == {t \in Threads : HoldsUnit(t)}
Owners == {t \in Threads : OwnsPad(t)}

\* waitPads and the threads past waitPads.wait() add up to the pads.
SemaphoreInv == waitPads + Cardinality(Units) = numSimultaneous

\* A pad is marked as used exactly when one thread owns it.
PadInv ==
  /\ \A t \in Owners : whichPad[t] \in Pads /\ fPadUsed[whichPad[t]]
  /\ \A p \in Pads : fPadUsed[p] => \E t \in Owners : whichPad[t] = p
  /\ PadExclusive

\* A command job belongs to one caller, which awaits a pending promise.
CommandInv ==
  /\ \A i, j \in 1..Len(commandQueue) : commandQueue[i] = commandQueue[j] => i = j
  /\ \A i \in 1..Len(commandQueue) :
       /\ commandQueue[i] \notin commandRun
       /\ pc[commandQueue[i]] = "await"
       /\ ramhogDone[commandQueue[i]] = "pending"
  /\ \A t \in commandRun : pc[t] = "await" /\ ramhogDone[t] = "pending"

\* The promise a worker job sets, and the pad it writes, are those of a
\* command job that still runs.
Pending(job) ==
  /\ job[1] \in commandRun
  /\ whichPad[job[1]] = job[2]
  /\ padDone[job[1]][job[3]] = "pending"

WorkerInv ==
  /\ \A i, j \in 1..Len(workerQueue) : workerQueue[i] = workerQueue[j] => i = j
  /\ \A i \in 1..Len(workerQueue) : workerQueue[i] \notin workerRun
  /\ \A i \in 1..Len(workerQueue) : Pending(workerQueue[i])
  /\ \A job \in workerRun : Pending(job)
  /\ \A t \in Threads \ commandRun : \A i \in PadIdx : padDone[t][i] = "pending"

IInv == TypeOK /\ SemaphoreInv /\ PadInv /\ CommandInv /\ WorkerInv
-----------------------------------------------------------------------------
(***************************************************************************)
(* Frame lemmas: what each part of the invariant depends on.               *)
(***************************************************************************)

\* The sets of threads counted by the invariant are finite.
LEMMA UnitsFinite ==
  ASSUME TypeOK
  PROVE  /\ IsFiniteSet(Units) /\ Cardinality(Units) \in Nat
         /\ IsFiniteSet(Owners) /\ Cardinality(Owners) \in Nat
  BY PoolAssumption, FS_Subset, FS_CardinalityType DEF Units, Owners

\* A step that keeps the holders of a unit keeps SemaphoreInv.
LEMMA SemaphoreFrame ==
  ASSUME SemaphoreInv, Units' = Units, waitPads' = waitPads
  PROVE  SemaphoreInv'
  BY DEF SemaphoreInv

\* waitPads.wait() by a thread that held no unit.
LEMMA SemaphoreTake ==
  ASSUME TypeOK, SemaphoreInv, NEW t \in Threads, t \notin Units,
         Units' = Units \cup {t}, waitPads' = waitPads - 1
  PROVE  SemaphoreInv'
  <1>1. Cardinality(Units \cup {t}) = Cardinality(Units) + 1
    BY UnitsFinite, FS_AddElement
  <1>2. waitPads \in Int /\ Cardinality(Units) \in Int /\ numSimultaneous \in Int
    BY UnitsFinite, PoolAssumption DEF TypeOK
  <1>3. Cardinality(Units') = Cardinality(Units) + 1
    BY <1>1
  <1> QED BY <1>2, <1>3 DEF SemaphoreInv

\* waitPads.post() by a thread that held a unit: the count stays in range.
LEMMA SemaphoreGive ==
  ASSUME TypeOK, SemaphoreInv, NEW t \in Threads, t \in Units,
         Units' = Units \ {t}, waitPads' = waitPads + 1
  PROVE  SemaphoreInv' /\ waitPads' \in 0..numSimultaneous
  <1>1. Cardinality(Units \ {t}) = Cardinality(Units) - 1
    BY UnitsFinite, FS_RemoveElement
  <1>2. Cardinality(Units \ {t}) \in Nat
    BY UnitsFinite, FS_RemoveElement, FS_CardinalityType
  <1>3. /\ waitPads \in 0..numSimultaneous
        /\ Cardinality(Units) \in Int /\ numSimultaneous \in Int
    BY UnitsFinite, PoolAssumption DEF TypeOK
  <1>4. /\ Cardinality(Units') = Cardinality(Units) - 1
        /\ Cardinality(Units') \in Nat
    BY <1>1, <1>2
  <1> QED BY <1>3, <1>4 DEF SemaphoreInv

\* A step that keeps the owners and their pads keeps PadInv.
LEMMA PadFrame ==
  ASSUME PadInv, Owners' = Owners, fPadUsed' = fPadUsed,
         \A u \in Owners : whichPad'[u] = whichPad[u]
  PROVE  PadInv'
  BY DEF PadInv, PadExclusive, Owners

\* A step that leaves the commands and the callers they serve alone keeps
\* CommandInv.
LEMMA CommandFrame ==
  ASSUME CommandInv, UNCHANGED <<commandQueue, commandRun>>,
         \A u \in Threads : pc[u] = "await" /\ ramhogDone[u] = "pending"
                              => pc'[u] = "await" /\ ramhogDone'[u] = "pending",
         TypeOK
  PROVE  CommandInv'
  <1>1. \A i \in 1..Len(commandQueue) : commandQueue[i] \in Threads
    BY DEF TypeOK
  <1> QED BY <1>1 DEF CommandInv, TypeOK

\* A step that leaves the worker jobs and their promises alone keeps WorkerInv.
LEMMA WorkerFrame ==
  ASSUME WorkerInv, UNCHANGED <<commandRun, workerQueue, workerRun, padDone>>,
         \A u \in commandRun : whichPad'[u] = whichPad[u]
  PROVE  WorkerInv'
  BY DEF WorkerInv, Pending

-----------------------------------------------------------------------------
(***************************************************************************)
(* The invariant holds initially and is preserved by every action.         *)
(***************************************************************************)

\* The pool is idle at the start.
LEMMA InitIInv == Init => IInv
  <1> SUFFICES ASSUME Init PROVE IInv
    OBVIOUS
  <1> USE PoolAssumption DEF Init, PoolInit
  <1>1. TypeOK
    <2>1. /\ pindexBest \in 0..MaxBest /\ pindexForBest \in [Threads -> 0..MaxBest]
          /\ waitPads \in 0..numSimultaneous
      OBVIOUS
    <2>2. /\ pc \in [Threads -> PC] /\ fForMiner \in [Threads -> BOOLEAN]
          /\ fPadUsed \in [Pads -> BOOLEAN]
          /\ whichPad \in [Threads -> Pads \cup {NoPad}]
          /\ fNeedCheckBlock \in BOOLEAN
      BY DEF PC
    <2>3. commandQueue \in Seq(Threads) /\ workerQueue \in Seq(Jobs)
      OBVIOUS
    <2>4. padDone \in [Threads -> [PadIdx -> {"pending", "ok", "interrupted"}]]
      OBVIOUS
    <2>5. scratchpads \in [Pads -> [PadIdx -> Contents]]
      BY DEF Contents
    <2>6. /\ commandRun \in SUBSET Threads /\ workerRun \in SUBSET Jobs
          /\ ramhogDone \in [Threads -> {"pending", "ok", "fail"}]
          /\ output \in [Threads -> SUBSET Contents]
          /\ result \in [Threads -> {"none", "ok", "fail"}]
      OBVIOUS
    <2> QED BY <2>1, <2>2, <2>3, <2>4, <2>5, <2>6 DEF TypeOK
  <1>2. SemaphoreInv
    <2>1. Units = {}
      BY DEF Units, HoldsUnit
    <2> QED BY <2>1, FS_EmptySet DEF SemaphoreInv
  <1>3. PadInv
    BY DEF PadInv, PadExclusive, Owners, OwnsPad
  <1>4. CommandInv
    BY DEF CommandInv
  <1>5. WorkerInv
    BY DEF WorkerInv, Pending
  <1> QED BY <1>1, <1>2, <1>3, <1>4, <1>5 DEF IInv

\* A refused call touches no pad and no job.
LEMMA RefuseInv ==
  ASSUME IInv, NEW t \in Threads, NEW miner \in BOOLEAN, Refuse(t, miner), UNCHANGED envVars
  PROVE  IInv'
  <1> USE DEF IInv
  <1>1. TypeOK'
    BY PoolAssumption DEF TypeOK, Refuse, Goto, callVars, padVars, jobVars, envVars
  <1>2. SemaphoreInv'
    <2>1. Units' = Units /\ waitPads' = waitPads
      BY DEF TypeOK, Units, HoldsUnit, Refuse, Goto, callVars, padVars, jobVars, envVars
    <2> QED BY <2>1, SemaphoreFrame
  <1>3. PadInv'
    <2>1. Owners' = Owners /\ fPadUsed' = fPadUsed
      BY DEF TypeOK, Owners, OwnsPad, Refuse, Goto, callVars, padVars, jobVars, envVars
    <2>2. \A u \in Owners : whichPad'[u] = whichPad[u]
      BY DEF TypeOK, Owners, OwnsPad, Refuse, Goto, callVars, padVars, jobVars, envVars
    <2> QED BY <2>1, <2>2, PadFrame
  <1>4. CommandInv'
    <2>1. UNCHANGED <<commandQueue, commandRun>>
      BY DEF Refuse, callVars, padVars, jobVars, envVars
    <2>2. \A u \in Threads : pc[u] = "await" /\ ramhogDone[u] = "pending"
                               => pc'[u] = "await" /\ ramhogDone'[u] = "pending"
      BY DEF TypeOK, Refuse, Goto, callVars, padVars, jobVars, envVars
    <2> QED BY <2>1, <2>2, CommandFrame
  <1>5. WorkerInv'
    <2>1. UNCHANGED <<commandRun, workerQueue, workerRun, padDone>>
      BY DEF Refuse, callVars, padVars, jobVars, envVars
    <2>2. \A u \in commandRun : whichPad'[u] = whichPad[u]
      BY DEF TypeOK, CommandInv, Refuse, Goto, callVars, padVars, jobVars, envVars
    <2> QED BY <2>1, <2>2, WorkerFrame
  <1> QED BY <1>1, <1>2, <1>3, <1>4, <1>5

\* A call that begins holds no unit and no pad yet.
LEMMA CallInv ==
  ASSUME IInv, NEW t \in Threads, NEW miner \in BOOLEAN, Call(t, miner), UNCHANGED envVars
  PROVE  IInv'
  <1> USE DEF IInv
  <1>1. TypeOK'
    BY PoolAssumption DEF TypeOK, Call, Goto, callVars, padVars, jobVars, envVars, PC
  <1>2. SemaphoreInv'
    <2>1. Units' = Units /\ waitPads' = waitPads
      BY DEF TypeOK, Units, HoldsUnit, Call, Goto, callVars, padVars, jobVars, envVars
    <2> QED BY <2>1, SemaphoreFrame
  <1>3. PadInv'
    <2>1. Owners' = Owners /\ fPadUsed' = fPadUsed
      BY DEF TypeOK, Owners, OwnsPad, Call, Goto, callVars, padVars, jobVars, envVars
    <2>2. \A u \in Owners : whichPad'[u] = whichPad[u]
      BY DEF TypeOK, Owners, OwnsPad, Call, Goto, callVars, padVars, jobVars, envVars
    <2> QED BY <2>1, <2>2, PadFrame
  <1>4. CommandInv'
    <2>1. UNCHANGED <<commandQueue, commandRun>>
      BY DEF Call, callVars, padVars, jobVars, envVars
    <2>2. \A u \in Threads : pc[u] = "await" /\ ramhogDone[u] = "pending"
                               => pc'[u] = "await" /\ ramhogDone'[u] = "pending"
      BY DEF TypeOK, Call, Goto, callVars, padVars, jobVars, envVars
    <2> QED BY <2>1, <2>2, CommandFrame
  <1>5. WorkerInv'
    <2>1. UNCHANGED <<commandRun, workerQueue, workerRun, padDone>>
      BY DEF Call, callVars, padVars, jobVars, envVars
    <2>2. \A u \in commandRun : whichPad'[u] = whichPad[u]
      BY DEF TypeOK, CommandInv, Call, Goto, callVars, padVars, jobVars, envVars
    <2> QED BY <2>1, <2>2, WorkerFrame
  <1> QED BY <1>1, <1>2, <1>3, <1>4, <1>5

\* Passing the semaphore takes one unit.
LEMMA WaitPadsInv ==
  ASSUME IInv, NEW t \in Threads, WaitPads(t), UNCHANGED envVars
  PROVE  IInv'
  <1> USE DEF IInv
  <1>1. TypeOK'
    BY PoolAssumption DEF TypeOK, WaitPads, Goto, callVars, padVars, jobVars, envVars, PC
  <1>2. SemaphoreInv'
    <2>1. Units' = Units \cup {t} /\ t \notin Units /\ waitPads' = waitPads - 1
      BY DEF TypeOK, Units, HoldsUnit, WaitPads, Goto, callVars, padVars, jobVars, envVars
    <2> QED BY <2>1, SemaphoreTake
  <1>3. PadInv'
    <2>1. Owners' = Owners /\ fPadUsed' = fPadUsed
      BY DEF TypeOK, Owners, OwnsPad, WaitPads, Goto, callVars, padVars, jobVars, envVars
    <2>2. \A u \in Owners : whichPad'[u] = whichPad[u]
      BY DEF TypeOK, Owners, OwnsPad, WaitPads, Goto, callVars, padVars, jobVars, envVars
    <2> QED BY <2>1, <2>2, PadFrame
  <1>4. CommandInv'
    <2>1. UNCHANGED <<commandQueue, commandRun>>
      BY DEF WaitPads, callVars, padVars, jobVars, envVars
    <2>2. \A u \in Threads : pc[u] = "await" /\ ramhogDone[u] = "pending"
                               => pc'[u] = "await" /\ ramhogDone'[u] = "pending"
      BY DEF TypeOK, WaitPads, Goto, callVars, padVars, jobVars, envVars
    <2> QED BY <2>1, <2>2, CommandFrame
  <1>5. WorkerInv'
    <2>1. UNCHANGED <<commandRun, workerQueue, workerRun, padDone>>
      BY DEF WaitPads, callVars, padVars, jobVars, envVars
    <2>2. \A u \in commandRun : whichPad'[u] = whichPad[u]
      BY DEF TypeOK, CommandInv, WaitPads, Goto, callVars, padVars, jobVars, envVars
    <2> QED BY <2>1, <2>2, WorkerFrame
  <1> QED BY <1>1, <1>2, <1>3, <1>4, <1>5

\* An overtaken miner gives its unit back.
LEMMA GiveUpInv ==
  ASSUME IInv, NEW t \in Threads, GiveUp(t), UNCHANGED envVars
  PROVE  IInv'
  <1> USE DEF IInv
  <1>2. SemaphoreInv' /\ waitPads' \in 0..numSimultaneous
    <2>1. Units' = Units \ {t} /\ t \in Units /\ waitPads' = waitPads + 1
      BY DEF TypeOK, Units, HoldsUnit, GiveUp, Goto, callVars, padVars, jobVars, envVars
    <2> QED BY <2>1, SemaphoreGive
  <1>1. TypeOK'
    BY <1>2, PoolAssumption DEF TypeOK, GiveUp, Goto, callVars, padVars, jobVars, envVars, PC, NoPad
  <1>3. PadInv'
    <2>1. Owners' = Owners /\ fPadUsed' = fPadUsed
      BY DEF TypeOK, Owners, OwnsPad, GiveUp, Goto, callVars, padVars, jobVars, envVars
    <2>2. \A u \in Owners : whichPad'[u] = whichPad[u]
      BY DEF TypeOK, Owners, OwnsPad, GiveUp, Goto, callVars, padVars, jobVars, envVars
    <2> QED BY <2>1, <2>2, PadFrame
  <1>4. CommandInv'
    <2>1. UNCHANGED <<commandQueue, commandRun>>
      BY DEF GiveUp, callVars, padVars, jobVars, envVars
    <2>2. \A u \in Threads : pc[u] = "await" /\ ramhogDone[u] = "pending"
                               => pc'[u] = "await" /\ ramhogDone'[u] = "pending"
      BY DEF TypeOK, GiveUp, Goto, callVars, padVars, jobVars, envVars
    <2> QED BY <2>1, <2>2, CommandFrame
  <1>5. WorkerInv'
    <2>1. UNCHANGED <<commandRun, workerQueue, workerRun, padDone>>
      BY DEF GiveUp, callVars, padVars, jobVars, envVars
    <2>2. \A u \in commandRun : whichPad'[u] = whichPad[u]
      BY DEF TypeOK, CommandInv, GiveUp, Goto, callVars, padVars, jobVars, envVars
    <2> QED BY <2>1, <2>2, WorkerFrame
  <1> QED BY <1>1, <1>2, <1>3, <1>4, <1>5

\* Going on to the scan changes nothing that is counted.
LEMMA ProceedInv ==
  ASSUME IInv, NEW t \in Threads, Proceed(t), UNCHANGED envVars
  PROVE  IInv'
  <1> USE DEF IInv
  <1>1. TypeOK'
    BY PoolAssumption DEF TypeOK, Proceed, Goto, callVars, padVars, jobVars, envVars, PC
  <1>2. SemaphoreInv'
    <2>1. Units' = Units /\ waitPads' = waitPads
      BY DEF TypeOK, Units, HoldsUnit, Proceed, Goto, callVars, padVars, jobVars, envVars
    <2> QED BY <2>1, SemaphoreFrame
  <1>3. PadInv'
    <2>1. Owners' = Owners /\ fPadUsed' = fPadUsed
      BY DEF TypeOK, Owners, OwnsPad, Proceed, Goto, callVars, padVars, jobVars, envVars
    <2>2. \A u \in Owners : whichPad'[u] = whichPad[u]
      BY DEF TypeOK, Owners, OwnsPad, Proceed, Goto, callVars, padVars, jobVars, envVars
    <2> QED BY <2>1, <2>2, PadFrame
  <1>4. CommandInv'
    <2>1. UNCHANGED <<commandQueue, commandRun>>
      BY DEF Proceed, callVars, padVars, jobVars, envVars
    <2>2. \A u \in Threads : pc[u] = "await" /\ ramhogDone[u] = "pending"
                               => pc'[u] = "await" /\ ramhogDone'[u] = "pending"
      BY DEF TypeOK, Proceed, Goto, callVars, padVars, jobVars, envVars
    <2> QED BY <2>1, <2>2, CommandFrame
  <1>5. WorkerInv'
    <2>1. UNCHANGED <<commandRun, workerQueue, workerRun, padDone>>
      BY DEF Proceed, callVars, padVars, jobVars, envVars
    <2>2. \A u \in commandRun : whichPad'[u] = whichPad[u]
      BY DEF TypeOK, CommandInv, Proceed, Goto, callVars, padVars, jobVars, envVars
    <2> QED BY <2>1, <2>2, WorkerFrame
  <1> QED BY <1>1, <1>2, <1>3, <1>4, <1>5

\* The picked pad was free, so it has one owner afterwards.
LEMMA PickPadInv ==
  ASSUME IInv, NEW t \in Threads, PickPad(t), UNCHANGED envVars
  PROVE  IInv'
  <1> USE DEF IInv
  <1>0. PICK p \in Pads : /\ ~fPadUsed[p]
                         /\ fPadUsed' = [fPadUsed EXCEPT ![p] = TRUE]
                         /\ whichPad' = [whichPad EXCEPT ![t] = p]
    BY DEF PickPad
  <1>1. TypeOK'
    BY <1>0, PoolAssumption DEF TypeOK, PickPad, Goto, callVars, padVars, jobVars, envVars, PC
  <1>2. SemaphoreInv'
    <2>1. Units' = Units /\ waitPads' = waitPads
      BY DEF TypeOK, Units, HoldsUnit, PickPad, Goto, callVars, padVars, jobVars, envVars
    <2> QED BY <2>1, SemaphoreFrame
  <1>3. PadInv'
    <2>1. Owners' = Owners \cup {t} /\ t \notin Owners
      BY DEF TypeOK, Owners, OwnsPad, PickPad, Goto
    <2>2. \A u \in Owners : whichPad'[u] = whichPad[u] /\ whichPad[u] # p
      BY <1>0, <2>1 DEF TypeOK, PadInv, Owners
    <2>3. whichPad'[t] = p
      BY <1>0 DEF TypeOK
    <2>4. fPadUsed'[p] /\ \A q \in Pads : q # p => fPadUsed'[q] = fPadUsed[q]
      BY <1>0 DEF TypeOK
    <2>5. \A u \in Owners' : whichPad'[u] \in Pads /\ fPadUsed'[whichPad'[u]]
      BY <1>0, <2>1, <2>2, <2>3, <2>4 DEF PadInv
    <2>6. \A q \in Pads : fPadUsed'[q] => \E u \in Owners' : whichPad'[u] = q
      BY <1>0, <2>1, <2>2, <2>3, <2>4 DEF PadInv
    <2>7. PadExclusive'
      BY <2>1, <2>2, <2>3 DEF PadInv, PadExclusive, Owners
    <2> QED BY <2>5, <2>6, <2>7 DEF PadInv
  <1>4. CommandInv'
    <2>1. UNCHANGED <<commandQueue, commandRun>>
      BY DEF PickPad, callVars, padVars, jobVars, envVars
    <2>2. \A u \in Threads : pc[u] = "await" /\ ramhogDone[u] = "pending"
                               => pc'[u] = "await" /\ ramhogDone'[u] = "pending"
      BY DEF TypeOK, PickPad, Goto, callVars, padVars, jobVars, envVars
    <2> QED BY <2>1, <2>2, CommandFrame
  <1>5. WorkerInv'
    <2>1. UNCHANGED <<commandRun, workerQueue, workerRun, padDone>>
      BY DEF PickPad, callVars, padVars, jobVars, envVars
    <2>2. \A u \in commandRun : whichPad'[u] = whichPad[u]
      BY <1>0 DEF TypeOK, CommandInv, PickPad, Goto
    <2> QED BY <2>1, <2>2, WorkerFrame
  <1> QED BY <1>1, <1>2, <1>3, <1>4, <1>5

\* The posted command job is the only one of its caller.
LEMMA PostCommandInv ==
  ASSUME IInv, NEW t \in Threads, PostCommand(t), UNCHANGED envVars
  PROVE  IInv'
  <1> USE DEF IInv
  <1>1. TypeOK'
    BY PoolAssumption DEF TypeOK, PostCommand, Goto, callVars, padVars, jobVars, envVars, PC
  <1>2. SemaphoreInv'
    <2>1. Units' = Units /\ waitPads' = waitPads
      BY DEF TypeOK, Units, HoldsUnit, PostCommand, Goto, callVars, padVars, jobVars, envVars
    <2> QED BY <2>1, SemaphoreFrame
  <1>3. PadInv'
    <2>1. Owners' = Owners /\ fPadUsed' = fPadUsed
      BY DEF TypeOK, Owners, OwnsPad, PostCommand, Goto, callVars, padVars, jobVars, envVars
    <2>2. \A u \in Owners : whichPad'[u] = whichPad[u]
      BY DEF TypeOK, Owners, OwnsPad, PostCommand, Goto, callVars, padVars, jobVars, envVars
    <2> QED BY <2>1, <2>2, PadFrame
  <1>4. CommandInv'
    <2>1. /\ commandQueue' = Append(commandQueue, t) /\ commandRun' = commandRun
          /\ pc[t] = "post" /\ pc' = [pc EXCEPT ![t] = "await"]
          /\ ramhogDone' = [ramhogDone EXCEPT ![t] = "pending"]
      BY DEF PostCommand, Goto
    <2>2. /\ Len(commandQueue') = Len(commandQueue) + 1
          /\ Len(commandQueue) \in Nat
          /\ commandQueue'[Len(commandQueue) + 1] = t
          /\ \A i \in 1..Len(commandQueue) : /\ commandQueue'[i] = commandQueue[i]
                                              /\ commandQueue[i] \in Threads
      BY <2>1 DEF TypeOK
    <2>3. /\ t \notin commandRun
          /\ \A i \in 1..Len(commandQueue) : commandQueue[i] # t
      BY <2>1 DEF CommandInv
    <2>4. \A u \in Threads \ {t} : pc'[u] = pc[u] /\ ramhogDone'[u] = ramhogDone[u]
      BY <2>1 DEF TypeOK
    <2>5. pc'[t] = "await" /\ ramhogDone'[t] = "pending"
      BY <2>1 DEF TypeOK
    <2>6. \A i, j \in 1..Len(commandQueue') : commandQueue'[i] = commandQueue'[j] => i = j
      BY <2>2, <2>3 DEF CommandInv
    <2>7. \A i \in 1..Len(commandQueue') :
            /\ commandQueue'[i] \notin commandRun'
            /\ pc'[commandQueue'[i]] = "await"
            /\ ramhogDone'[commandQueue'[i]] = "pending"
      BY <2>1, <2>2, <2>3, <2>4, <2>5 DEF CommandInv
    <2>8. \A u \in commandRun' : pc'[u] = "await" /\ ramhogDone'[u] = "pending"
      BY <2>1, <2>3, <2>4 DEF CommandInv, TypeOK
    <2> QED BY <2>6, <2>7, <2>8 DEF CommandInv
  <1>5. WorkerInv'
    <2>1. UNCHANGED <<commandRun, workerQueue, workerRun, padDone>>
      BY DEF PostCommand, callVars, padVars, jobVars, envVars
    <2>2. \A u \in commandRun : whichPad'[u] = whichPad[u]
      BY DEF TypeOK, CommandInv, PostCommand, Goto, callVars, padVars, jobVars, envVars
    <2> QED BY <2>1, <2>2, WorkerFrame
  <1> QED BY <1>1, <1>2, <1>3, <1>4, <1>5

\* A caller whose promise is set has no command job left.
LEMMA GetDoneInv ==
  ASSUME IInv, NEW t \in Threads, GetDone(t), UNCHANGED envVars
  PROVE  IInv'
  <1> USE DEF IInv
  <1>1. TypeOK'
    BY PoolAssumption DEF TypeOK, GetDone, Goto, callVars, padVars, jobVars, envVars, PC
  <1>2. SemaphoreInv'
    <2>1. Units' = Units /\ waitPads' = waitPads
      BY DEF TypeOK, Units, HoldsUnit, GetDone, Goto, callVars, padVars, jobVars, envVars
    <2> QED BY <2>1, SemaphoreFrame
  <1>3. PadInv'
    <2>1. Owners' = Owners /\ fPadUsed' = fPadUsed
      BY DEF TypeOK, Owners, OwnsPad, GetDone, Goto, callVars, padVars, jobVars, envVars
    <2>2. \A u \in Owners : whichPad'[u] = whichPad[u]
      BY DEF TypeOK, Owners, OwnsPad, GetDone, Goto, callVars, padVars, jobVars, envVars
    <2> QED BY <2>1, <2>2, PadFrame
  <1>4. CommandInv'
    <2>1. UNCHANGED <<commandQueue, commandRun>>
      BY DEF GetDone, callVars, padVars, jobVars, envVars
    <2>2. \A u \in Threads : pc[u] = "await" /\ ramhogDone[u] = "pending"
                               => pc'[u] = "await" /\ ramhogDone'[u] = "pending"
      BY DEF TypeOK, GetDone, Goto, callVars, padVars, jobVars, envVars
    <2> QED BY <2>1, <2>2, CommandFrame
  <1>5. WorkerInv'
    <2>1. UNCHANGED <<commandRun, workerQueue, workerRun, padDone>>
      BY DEF GetDone, callVars, padVars, jobVars, envVars
    <2>2. \A u \in commandRun : whichPad'[u] = whichPad[u]
      BY DEF TypeOK, CommandInv, GetDone, Goto, callVars, padVars, jobVars, envVars
    <2> QED BY <2>1, <2>2, WorkerFrame
  <1> QED BY <1>1, <1>2, <1>3, <1>4, <1>5

\* Only the pad of the caller itself becomes free.
LEMMA FreePadInv ==
  ASSUME IInv, NEW t \in Threads, FreePad(t), UNCHANGED envVars
  PROVE  IInv'
  <1> USE DEF IInv
  <1>0. whichPad[t] \in Pads /\ t \in Owners
    BY DEF FreePad, Goto, PadInv, Owners, OwnsPad
  <1>1. TypeOK'
    BY <1>0, PoolAssumption DEF TypeOK, FreePad, Goto, callVars, padVars, jobVars, envVars, PC, Contents
  <1>2. SemaphoreInv'
    <2>1. Units' = Units /\ waitPads' = waitPads
      BY DEF TypeOK, Units, HoldsUnit, FreePad, Goto, callVars, padVars, jobVars, envVars
    <2> QED BY <2>1, SemaphoreFrame
  <1>3. PadInv'
    <2>1. Owners' = Owners \ {t}
      BY DEF TypeOK, Owners, OwnsPad, FreePad, Goto
    <2>2. whichPad' = whichPad
      BY DEF FreePad
    <2>3. \A q \in Pads : fPadUsed'[q] <=> (fPadUsed[q] /\ q # whichPad[t])
      BY <1>0 DEF TypeOK, FreePad
    <2>4. \A u \in Owners : u # t => whichPad[u] # whichPad[t]
      BY <1>0 DEF PadInv, PadExclusive, Owners
    <2>5. PadExclusive'
      BY <2>1, <2>2 DEF PadInv, PadExclusive, Owners
    <2>6. \A u \in Owners' : whichPad'[u] \in Pads /\ fPadUsed'[whichPad'[u]]
      BY <2>1, <2>2, <2>3, <2>4 DEF PadInv
    <2>7. \A q \in Pads : fPadUsed'[q] => \E u \in Owners' : whichPad'[u] = q
      BY <2>1, <2>2, <2>3 DEF PadInv
    <2> QED BY <2>5, <2>6, <2>7 DEF PadInv
  <1>4. CommandInv'
    <2>1. UNCHANGED <<commandQueue, commandRun>>
      BY DEF FreePad, callVars, padVars, jobVars, envVars
    <2>2. \A u \in Threads : pc[u] = "await" /\ ramhogDone[u] = "pending"
                               => pc'[u] = "await" /\ ramhogDone'[u] = "pending"
      BY DEF TypeOK, FreePad, Goto, callVars, padVars, jobVars, envVars
    <2> QED BY <2>1, <2>2, CommandFrame
  <1>5. WorkerInv'
    <2>1. UNCHANGED <<commandRun, workerQueue, workerRun, padDone>>
      BY DEF FreePad, callVars, padVars, jobVars, envVars
    <2>2. \A u \in commandRun : whichPad'[u] = whichPad[u]
      BY DEF TypeOK, CommandInv, FreePad, Goto, callVars, padVars, jobVars, envVars
    <2> QED BY <2>1, <2>2, WorkerFrame
  <1> QED BY <1>1, <1>2, <1>3, <1>4, <1>5

\* The returning caller gives its unit back.
LEMMA PostPadsInv ==
  ASSUME IInv, NEW t \in Threads, PostPads(t), UNCHANGED envVars
  PROVE  IInv'
  <1> USE DEF IInv
  <1>2. SemaphoreInv' /\ waitPads' \in 0..numSimultaneous
    <2>1. Units' = Units \ {t} /\ t \in Units /\ waitPads' = waitPads + 1
      BY DEF TypeOK, Units, HoldsUnit, PostPads, Goto, callVars, padVars, jobVars, envVars
    <2> QED BY <2>1, SemaphoreGive
  <1>1. TypeOK'
    BY <1>2, PoolAssumption DEF TypeOK, PostPads, Goto, callVars, padVars, jobVars, envVars, PC, NoPad
  <1>3. PadInv'
    <2>1. Owners' = Owners /\ fPadUsed' = fPadUsed
      BY DEF TypeOK, Owners, OwnsPad, PostPads, Goto, callVars, padVars, jobVars, envVars
    <2>2. \A u \in Owners : whichPad'[u] = whichPad[u]
      BY DEF TypeOK, Owners, OwnsPad, PostPads, Goto, callVars, padVars, jobVars, envVars
    <2> QED BY <2>1, <2>2, PadFrame
  <1>4. CommandInv'
    <2>1. UNCHANGED <<commandQueue, commandRun>>
      BY DEF PostPads, callVars, padVars, jobVars, envVars
    <2>2. \A u \in Threads : pc[u] = "await" /\ ramhogDone[u] = "pending"
                               => pc'[u] = "await" /\ ramhogDone'[u] = "pending"
      BY DEF TypeOK, PostPads, Goto, callVars, padVars, jobVars, envVars
    <2> QED BY <2>1, <2>2, CommandFrame
  <1>5. WorkerInv'
    <2>1. UNCHANGED <<commandRun, workerQueue, workerRun, padDone>>
      BY DEF PostPads, callVars, padVars, jobVars, envVars
    <2>2. \A u \in commandRun : whichPad'[u] = whichPad[u]
      BY DEF TypeOK, CommandInv, PostPads, Goto, callVars, padVars, jobVars, envVars
    <2> QED BY <2>1, <2>2, WorkerFrame
  <1> QED BY <1>1, <1>2, <1>3, <1>4, <1>5

\* An aborted command job leaves the queue, and its promise is set once.
LEMMA CommandAbortInv ==
  ASSUME IInv, CommandAbort, UNCHANGED envVars
  PROVE  IInv'
  <1> USE DEF IInv
  <1> DEFINE t == commandQueue[1]
  <1>0. /\ commandQueue # <<>> /\ commandQueue' = Tail(commandQueue)
        /\ ramhogDone' = [ramhogDone EXCEPT ![Head(commandQueue)] = "fail"]
        /\ UNCHANGED <<callVars, padVars, commandRun, workerQueue, workerRun,
                       padDone, scratchpads, output>>
    BY DEF CommandAbort
  <1>1. TypeOK'
    BY <1>0 DEF TypeOK, callVars, padVars, jobVars, envVars
  <1>2. SemaphoreInv'
    BY <1>0, SemaphoreFrame DEF Units, HoldsUnit, callVars, padVars
  <1>3. PadInv'
    BY <1>0, PadFrame DEF Owners, OwnsPad, callVars, padVars
  <1>4. CommandInv'
    <2>1. /\ Len(commandQueue) \in Nat \ {0} /\ Head(commandQueue) = commandQueue[1] /\ commandQueue[1] \in Threads
          /\ Len(commandQueue') = Len(commandQueue) - 1
          /\ \A i \in 1..Len(commandQueue') : commandQueue'[i] = commandQueue[i + 1]
          /\ \A i \in 1..Len(commandQueue) : commandQueue[i] \in Threads
      BY <1>0 DEF TypeOK
    <2>2. \A i \in 2..Len(commandQueue) : commandQueue[i] # t
      BY <2>1 DEF CommandInv
    <2>3. t \notin commandRun
      BY <2>1 DEF CommandInv
    <2>4. \A u \in Threads : u # t => ramhogDone'[u] = ramhogDone[u]
      BY <1>0, <2>1 DEF TypeOK
    <2>5. pc' = pc /\ commandRun' = commandRun
      BY <1>0 DEF callVars
    <2>6. \A i, j \in 1..Len(commandQueue') : commandQueue'[i] = commandQueue'[j] => i = j
      BY <2>1 DEF CommandInv
    <2>7. \A i \in 1..Len(commandQueue') :
            /\ commandQueue'[i] \notin commandRun'
            /\ pc'[commandQueue'[i]] = "await"
            /\ ramhogDone'[commandQueue'[i]] = "pending"
      <3> SUFFICES ASSUME NEW i \in 1..Len(commandQueue')
                   PROVE  /\ commandQueue'[i] \notin commandRun'
                          /\ pc'[commandQueue'[i]] = "await"
                          /\ ramhogDone'[commandQueue'[i]] = "pending"
        OBVIOUS
      <3>1. i + 1 \in 2..Len(commandQueue) /\ commandQueue'[i] = commandQueue[i + 1]
        BY <2>1
      <3> QED BY <2>1, <2>2, <2>4, <2>5, <3>1 DEF CommandInv
    <2>8. \A u \in commandRun' : pc'[u] = "await" /\ ramhogDone'[u] = "pending"
      BY <2>3, <2>4, <2>5 DEF CommandInv, TypeOK
    <2> QED BY <2>6, <2>7, <2>8 DEF CommandInv
  <1>5. WorkerInv'
    BY <1>0, WorkerFrame DEF callVars
  <1> QED BY <1>1, <1>2, <1>3, <1>4, <1>5

\* The worker jobs of a started command are new, and all their promises pending.
LEMMA CommandStartInv ==
  ASSUME IInv, CommandStart, UNCHANGED envVars
  PROVE  IInv'
  <1> USE DEF IInv
  <1> DEFINE t == commandQueue[1]
             new == [i \in PadIdx |-> <<t, whichPad[t], i>>]
  <1>0. /\ commandQueue # <<>> /\ commandQueue' = Tail(commandQueue)
        /\ commandRun' = commandRun \cup {Head(commandQueue)}
        /\ UNCHANGED <<callVars, padVars, workerRun, padDone, ramhogDone,
                       scratchpads, output>>
    BY DEF CommandStart
  <1>a. /\ Len(commandQueue) \in Nat \ {0} /\ Head(commandQueue) = commandQueue[1] /\ commandQueue[1] \in Threads
        /\ Len(commandQueue') = Len(commandQueue) - 1
        /\ \A i \in 1..Len(commandQueue') : commandQueue'[i] = commandQueue[i + 1]
        /\ \A i \in 1..Len(commandQueue) : commandQueue[i] \in Threads
    BY <1>0 DEF TypeOK
  <1>b. workerQueue' = workerQueue \o new
    BY <1>a DEF CommandStart
  <1>c. t \in Threads /\ t \notin commandRun /\ pc[t] = "await" /\ whichPad[t] \in Pads
    BY <1>a DEF CommandInv, PadInv, Owners, OwnsPad
  <1>d. /\ new \in Seq(Jobs) /\ Len(new) = N /\ N \in Nat
        /\ \A i \in PadIdx : new[i] = <<t, whichPad[t], i>>
    BY <1>c, PoolAssumption DEF Jobs, PadIdx
  <1>e. /\ Len(workerQueue) \in Nat /\ Len(workerQueue') = Len(workerQueue) + N
        /\ workerQueue' \in Seq(Jobs)
        /\ \A i \in 1..Len(workerQueue) : workerQueue'[i] = workerQueue[i]
        /\ \A i \in PadIdx : workerQueue'[Len(workerQueue) + i] = <<t, whichPad[t], i>>
    BY <1>b, <1>d, SMTT(60) DEF TypeOK, PadIdx
  <1> HIDE DEF new
  <1>1. TypeOK'
    BY <1>0, <1>a, <1>c, <1>e DEF TypeOK, callVars, padVars, jobVars, envVars
  <1>2. SemaphoreInv'
    BY <1>0, SemaphoreFrame DEF Units, HoldsUnit, callVars, padVars
  <1>3. PadInv'
    BY <1>0, PadFrame DEF Owners, OwnsPad, callVars, padVars
  <1>4. CommandInv'
    <2>1. UNCHANGED <<pc, ramhogDone>> /\ commandRun' = commandRun \cup {t}
      BY <1>0, <1>a DEF callVars
    <2>2. \A i \in 2..Len(commandQueue) : commandQueue[i] # t
      BY <1>a DEF CommandInv
    <2>3. \A i, j \in 1..Len(commandQueue') : commandQueue'[i] = commandQueue'[j] => i = j
      BY <1>a DEF CommandInv
    <2>4. \A i \in 1..Len(commandQueue') :
            /\ commandQueue'[i] \notin commandRun'
            /\ pc'[commandQueue'[i]] = "await"
            /\ ramhogDone'[commandQueue'[i]] = "pending"
      <3> SUFFICES ASSUME NEW i \in 1..Len(commandQueue')
                   PROVE  /\ commandQueue'[i] \notin commandRun'
                          /\ pc'[commandQueue'[i]] = "await"
                          /\ ramhogDone'[commandQueue'[i]] = "pending"
        OBVIOUS
      <3>1. i + 1 \in 2..Len(commandQueue) /\ commandQueue'[i] = commandQueue[i + 1]
        BY <1>a
      <3> QED BY <1>a, <2>1, <2>2, <3>1 DEF CommandInv
    <2>5. \A u \in commandRun' : pc'[u] = "await" /\ ramhogDone'[u] = "pending"
      BY <1>a, <2>1 DEF CommandInv
    <2> QED BY <2>3, <2>4, <2>5 DEF CommandInv
  <1>5. WorkerInv'
    <2>1. UNCHANGED <<whichPad, padDone, workerRun>> /\ commandRun' = commandRun \cup {t}
      BY <1>0, <1>a DEF callVars
    <2>2. \A i \in 1..Len(workerQueue') :
            \/ i \in 1..Len(workerQueue) /\ workerQueue'[i] = workerQueue[i]
            \/ /\ i \notin 1..Len(workerQueue) /\ i - Len(workerQueue) \in PadIdx
               /\ workerQueue'[i] = <<t, whichPad[t], i - Len(workerQueue)>>
      <3> SUFFICES ASSUME NEW i \in 1..Len(workerQueue'), i \notin 1..Len(workerQueue)
                   PROVE  /\ i - Len(workerQueue) \in PadIdx
                          /\ workerQueue'[i] = <<t, whichPad[t], i - Len(workerQueue)>>
        BY <1>e
      <3>1. i - Len(workerQueue) \in PadIdx
        BY <1>e, <1>d DEF PadIdx
      <3>2. i = Len(workerQueue) + (i - Len(workerQueue))
        BY <1>e
      <3> QED BY <1>e, <3>1, <3>2
    <2>3. \A i \in 1..Len(workerQueue) : workerQueue[i][1] \in commandRun
      BY DEF WorkerInv, Pending
    <2>4. \A i \in PadIdx : padDone[t][i] = "pending"
      BY <1>c DEF WorkerInv
    <2>5. \A i, j \in 1..Len(workerQueue') : workerQueue'[i] = workerQueue'[j] => i = j
      BY <1>c, <1>e, <2>2, <2>3 DEF WorkerInv
    <2>6. \A i \in 1..Len(workerQueue') : workerQueue'[i] \notin workerRun'
      BY <1>c, <2>1, <2>2 DEF WorkerInv, Pending
    <2>7. \A i \in 1..Len(workerQueue') : Pending(workerQueue[i])'
      BY <2>1, <2>2, <2>4 DEF WorkerInv, Pending
    <2>8. \A job \in workerRun' : Pending(job)'
      BY <2>1 DEF WorkerInv, Pending
    <2>9. \A u \in Threads \ commandRun' : \A i \in PadIdx : padDone'[u][i] = "pending"
      BY <2>1 DEF WorkerInv
    <2> QED BY <2>5, <2>6, <2>7, <2>8, <2>9 DEF WorkerInv
  <1> QED BY <1>1, <1>2, <1>3, <1>4, <1>5

\* A command job that ends has no worker job left: all its promises were set.
LEMMA CommandFinishInv ==
  ASSUME IInv, NEW t \in Threads, CommandFinish(t), UNCHANGED envVars
  PROVE  IInv'
  <1> USE DEF IInv
  <1>0. /\ t \in commandRun /\ AllSet(t) /\ commandRun' = commandRun \ {t}
        /\ padDone' = [padDone EXCEPT ![t] = [i \in PadIdx |-> "pending"]]
        /\ UNCHANGED <<callVars, padVars, commandQueue, workerQueue, workerRun,
                       scratchpads>>
    BY DEF CommandFinish
  <1>a. /\ pc[t] = "await" /\ whichPad[t] \in Pads
        /\ \E r \in {"ok", "fail"} : ramhogDone' = [ramhogDone EXCEPT ![t] = r]
    BY <1>0 DEF CommandFinish, CommandInv, PadInv, Owners, OwnsPad
  <1>b. output' \in [Threads -> SUBSET Contents]
    <2>1. {scratchpads[whichPad[t]][i] : i \in PadIdx} \in SUBSET Contents
      BY <1>a DEF TypeOK
    <2> QED BY <2>1 DEF TypeOK, CommandFinish
  <1>1. TypeOK'
    <2>1. padDone' \in [Threads -> [PadIdx -> {"pending", "ok", "interrupted"}]]
      BY <1>0 DEF TypeOK
    <2> QED BY <1>0, <1>a, <1>b, <2>1 DEF TypeOK, callVars, padVars, jobVars, envVars
  <1>2. SemaphoreInv'
    BY <1>0, SemaphoreFrame DEF Units, HoldsUnit, callVars, padVars
  <1>3. PadInv'
    BY <1>0, PadFrame DEF Owners, OwnsPad, callVars, padVars
  <1>4. CommandInv'
    <2>1. /\ UNCHANGED <<pc, commandQueue>>
          /\ \A u \in Threads : u # t => ramhogDone'[u] = ramhogDone[u]
      BY <1>0, <1>a DEF callVars, TypeOK
    <2>2. \A i \in 1..Len(commandQueue) : commandQueue[i] \in Threads /\ commandQueue[i] # t
      BY <1>0 DEF CommandInv, TypeOK
    <2> QED BY <1>0, <2>1, <2>2 DEF CommandInv, TypeOK
  <1>5. WorkerInv'
    <2>1. UNCHANGED <<whichPad, workerQueue, workerRun>>
      BY <1>0 DEF callVars
    <2>2. \A job \in Jobs : job[1] = t => ~Pending(job)
      BY <1>0 DEF Pending, AllSet, Jobs
    <2>3. \A job \in Jobs : Pending(job) => Pending(job)'
      <3> SUFFICES ASSUME NEW job \in Jobs, Pending(job) PROVE Pending(job)'
        OBVIOUS
      <3>1. job[1] # t /\ job[1] \in Threads
        BY <2>2 DEF Jobs
      <3> QED BY <1>0, <2>1, <3>1 DEF Pending, TypeOK
    <2>4. \A i \in 1..Len(workerQueue) : workerQueue[i] \in Jobs
      BY DEF TypeOK
    <2>5. \A u \in Threads \ commandRun' : \A i \in PadIdx : padDone'[u][i] = "pending"
      BY <1>0 DEF WorkerInv, TypeOK
    <2>6. \A i \in 1..Len(workerQueue') : Pending(workerQueue[i])'
      BY <2>1, <2>3, <2>4 DEF WorkerInv
    <2>7. \A job \in workerRun' : Pending(job)'
      BY <2>1, <2>3 DEF WorkerInv, TypeOK
    <2> QED BY <2>1, <2>5, <2>6, <2>7 DEF WorkerInv
  <1> QED BY <1>1, <1>2, <1>3, <1>4, <1>5

\* An interrupted worker job leaves the queue and sets its own promise only.
LEMMA WorkerAbortInv ==
  ASSUME IInv, WorkerAbort, UNCHANGED envVars
  PROVE  IInv'
  <1> USE DEF IInv
  <1>0. /\ workerQueue # <<>> /\ workerQueue' = Tail(workerQueue)
        /\ UNCHANGED <<callVars, padVars, commandQueue, commandRun, workerRun,
                       ramhogDone, scratchpads, output>>
    BY DEF WorkerAbort
  <1>a. /\ Len(workerQueue) \in Nat \ {0} /\ Head(workerQueue) = workerQueue[1]
        /\ \A i \in 1..Len(workerQueue) : workerQueue[i] \in Jobs
        /\ Len(workerQueue') = Len(workerQueue) - 1 /\ workerQueue' \in Seq(Jobs)
        /\ \A i \in 1..Len(workerQueue') : i + 1 \in 1..Len(workerQueue)
        /\ \A i \in 1..Len(workerQueue') : workerQueue'[i] = workerQueue[i + 1]
    BY <1>0 DEF TypeOK
  <1> DEFINE job == workerQueue[1]
  <1>b. job \in Jobs /\ Pending(job) /\ job \notin workerRun
    BY <1>a DEF WorkerInv
  <1>c. \A i \in 1..Len(workerQueue') : workerQueue'[i] # job
    BY <1>a DEF WorkerInv
  <1>d. padDone' = [padDone EXCEPT ![job[1]][job[3]] = "interrupted"]
    BY <1>a DEF WorkerAbort
  <1> HIDE DEF job
  <1>1. TypeOK'
    BY <1>0, <1>a, <1>b, <1>d DEF TypeOK, callVars, padVars, jobVars, envVars, Jobs
  <1>2. SemaphoreInv'
    BY <1>0, SemaphoreFrame DEF Units, HoldsUnit, callVars, padVars
  <1>3. PadInv'
    BY <1>0, PadFrame DEF Owners, OwnsPad, callVars, padVars
  <1>4. CommandInv'
    BY <1>0, CommandFrame DEF callVars
  <1>5. WorkerInv'
    <2>0. UNCHANGED <<whichPad, commandRun, workerRun>>
      BY <1>0 DEF callVars
    <2>1. padDone' = [padDone EXCEPT ![job[1]][job[3]] = "interrupted"]
      BY <1>d
    <2>2. \A k \in Jobs : k # job /\ Pending(k) => Pending(k)'
      <3> SUFFICES ASSUME NEW k \in Jobs, k # job, Pending(k) PROVE Pending(k)'
        OBVIOUS
      <3>1. /\ k[1] \in Threads /\ k[3] \in PadIdx
            /\ job[1] \in Threads /\ job[3] \in PadIdx
            /\ k = <<k[1], k[2], k[3]>> /\ job = <<job[1], job[2], job[3]>>
        BY <1>b DEF Jobs
      <3>2. k[1] # job[1] \/ k[3] # job[3]
        BY <3>1, <1>b DEF Pending
      <3>3. padDone'[k[1]][k[3]] = padDone[k[1]][k[3]]
        BY <2>1, <3>1, <3>2 DEF TypeOK
      <3> QED BY <2>0, <3>3 DEF Pending
    <2>3. \A u \in Threads \ commandRun' : \A i \in PadIdx : padDone'[u][i] = "pending"
      BY <1>b, <2>0, <2>1 DEF WorkerInv, Pending, TypeOK
    <2>4. \A i, j \in 1..Len(workerQueue') : workerQueue'[i] = workerQueue'[j] => i = j
      BY <1>a, SMTT(60) DEF WorkerInv
    <2>5. \A i \in 1..Len(workerQueue') : /\ workerQueue'[i] \notin workerRun'
                                          /\ Pending(workerQueue[i])'
      BY <1>a, <1>c, <2>0, <2>2 DEF WorkerInv
    <2>6. \A k \in workerRun' : Pending(k)'
      BY <1>b, <2>0, <2>2 DEF WorkerInv, TypeOK
    <2> QED BY <2>3, <2>4, <2>5, <2>6 DEF WorkerInv
  <1> QED BY <1>1, <1>2, <1>3, <1>4, <1>5

\* A worker job moves from the queue to a worker thread.
LEMMA WorkerStartInv ==
  ASSUME IInv, WorkerStart, UNCHANGED envVars
  PROVE  IInv'
  <1> USE DEF IInv
  <1>0. /\ workerQueue # <<>> /\ workerQueue' = Tail(workerQueue)
        /\ UNCHANGED <<callVars, padVars, commandQueue, commandRun, padDone,
                       ramhogDone, scratchpads, output>>
    BY DEF WorkerStart
  <1>a. /\ Len(workerQueue) \in Nat \ {0} /\ Head(workerQueue) = workerQueue[1]
        /\ \A i \in 1..Len(workerQueue) : workerQueue[i] \in Jobs
        /\ Len(workerQueue') = Len(workerQueue) - 1 /\ workerQueue' \in Seq(Jobs)
        /\ \A i \in 1..Len(workerQueue') : i + 1 \in 1..Len(workerQueue)
        /\ \A i \in 1..Len(workerQueue') : workerQueue'[i] = workerQueue[i + 1]
    BY <1>0 DEF TypeOK
  <1> DEFINE job == workerQueue[1]
  <1>b. job \in Jobs /\ Pending(job) /\ job \notin workerRun
    BY <1>a DEF WorkerInv
  <1>c. \A i \in 1..Len(workerQueue') : workerQueue'[i] # job
    BY <1>a DEF WorkerInv
  <1>d. workerRun' = workerRun \cup {job}
    BY <1>a DEF WorkerStart
  <1> HIDE DEF job
  <1>1. TypeOK'
    BY <1>0, <1>a, <1>b, <1>d DEF TypeOK, callVars, padVars, jobVars, envVars
  <1>2. SemaphoreInv'
    BY <1>0, SemaphoreFrame DEF Units, HoldsUnit, callVars, padVars
  <1>3. PadInv'
    BY <1>0, PadFrame DEF Owners, OwnsPad, callVars, padVars
  <1>4. CommandInv'
    BY <1>0, CommandFrame DEF callVars
  <1>5. WorkerInv'
    <2>1. UNCHANGED <<whichPad, commandRun, padDone>>
      BY <1>0 DEF callVars
    <2>2. \A k : Pending(k) => Pending(k)'
      BY <2>1 DEF Pending
    <2>4. \A i, j \in 1..Len(workerQueue') : workerQueue'[i] = workerQueue'[j] => i = j
      BY <1>a, SMTT(60) DEF WorkerInv
    <2>5. \A i \in 1..Len(workerQueue') : /\ workerQueue'[i] \notin workerRun'
                                          /\ Pending(workerQueue[i])'
      BY <1>a, <1>c, <1>d, <2>2 DEF WorkerInv
    <2>6. \A k \in workerRun' : Pending(k)'
      BY <1>b, <1>d, <2>2 DEF WorkerInv
    <2>7. \A u \in Threads \ commandRun' : \A i \in PadIdx : padDone'[u][i] = "pending"
      BY <2>1 DEF WorkerInv
    <2> QED BY <2>4, <2>5, <2>6, <2>7 DEF WorkerInv
  <1> QED BY <1>1, <1>2, <1>3, <1>4, <1>5

\* A finished worker job sets its own promise and no other.
LEMMA WorkerFinishInv ==
  ASSUME IInv, NEW job \in workerRun, WorkerFinish(job), UNCHANGED envVars
  PROVE  IInv'
  <1> USE DEF IInv
  <1>0. /\ padDone' = [padDone EXCEPT ![job[1]][job[3]] = "ok"]
        /\ workerRun' = workerRun \ {job}
        /\ scratchpads' = [scratchpads EXCEPT ![job[2]][job[3]] = job[1]]
        /\ UNCHANGED <<callVars, padVars, commandQueue, commandRun, workerQueue,
                       ramhogDone, output>>
    BY DEF WorkerFinish
  <1>b. job \in Jobs /\ Pending(job)
    BY DEF WorkerInv, TypeOK
  <1>1. TypeOK'
    <2>1. job[1] \in Threads /\ job[2] \in Pads /\ job[3] \in PadIdx
      BY <1>b DEF Jobs
    <2>2. scratchpads' \in [Pads -> [PadIdx -> Contents]]
      BY <1>0, <2>1 DEF TypeOK, Contents
    <2>3. padDone' \in [Threads -> [PadIdx -> {"pending", "ok", "interrupted"}]]
      BY <1>0, <2>1 DEF TypeOK
    <2> QED BY <1>0, <2>2, <2>3 DEF TypeOK, callVars, padVars, jobVars, envVars
  <1>2. SemaphoreInv'
    BY <1>0, SemaphoreFrame DEF Units, HoldsUnit, callVars, padVars
  <1>3. PadInv'
    BY <1>0, PadFrame DEF Owners, OwnsPad, callVars, padVars
  <1>4. CommandInv'
    BY <1>0, CommandFrame DEF callVars
  <1>5. WorkerInv'
    <2>0. UNCHANGED <<whichPad, commandRun, workerQueue>>
      BY <1>0 DEF callVars
    <2>1. padDone' = [padDone EXCEPT ![job[1]][job[3]] = "ok"]
      BY <1>0
    <2>2. \A k \in Jobs : k # job /\ Pending(k) => Pending(k)'
      <3> SUFFICES ASSUME NEW k \in Jobs, k # job, Pending(k) PROVE Pending(k)'
        OBVIOUS
      <3>1. /\ k[1] \in Threads /\ k[3] \in PadIdx
            /\ job[1] \in Threads /\ job[3] \in PadIdx
            /\ k = <<k[1], k[2], k[3]>> /\ job = <<job[1], job[2], job[3]>>
        BY <1>b DEF Jobs
      <3>2. k[1] # job[1] \/ k[3] # job[3]
        BY <3>1, <1>b DEF Pending
      <3>3. padDone'[k[1]][k[3]] = padDone[k[1]][k[3]]
        BY <2>1, <3>1, <3>2 DEF TypeOK
      <3> QED BY <2>0, <3>3 DEF Pending
    <2>3. \A u \in Threads \ commandRun' : \A i \in PadIdx : padDone'[u][i] = "pending"
      BY <1>b, <2>0, <2>1 DEF WorkerInv, Pending, TypeOK
    <2>4. \A i \in 1..Len(workerQueue) : workerQueue[i] \in Jobs /\ workerQueue[i] # job
      BY DEF WorkerInv, TypeOK
    <2>5. \A i \in 1..Len(workerQueue') : /\ workerQueue'[i] \notin workerRun'
                                          /\ Pending(workerQueue[i])'
      BY <1>0, <2>0, <2>2, <2>4 DEF WorkerInv
    <2>6. \A k \in workerRun' : Pending(k)'
      BY <1>0, <2>2 DEF WorkerInv, TypeOK
    <2> QED BY <2>0, <2>3, <2>5, <2>6 DEF WorkerInv
  <1> QED BY <1>1, <1>2, <1>3, <1>4, <1>5

\* Every step of the pool and of its environment preserves the invariant.
LEMMA NextIInv == IInv /\ [Next]_vars => IInv'
  <1> SUFFICES ASSUME IInv, [Next]_vars PROVE IInv'
    OBVIOUS
  <1>1. ASSUME NEW t \in Threads, NEW miner \in BOOLEAN, Refuse(t, miner), UNCHANGED envVars
        PROVE  IInv'
    BY <1>1, RefuseInv
  <1>2. ASSUME NEW t \in Threads, NEW miner \in BOOLEAN, Call(t, miner), UNCHANGED envVars
        PROVE  IInv'
    BY <1>2, CallInv
  <1>3. ASSUME NEW t \in Threads, CallerStep(t), UNCHANGED envVars
        PROVE  IInv'
    BY <1>3, WaitPadsInv, GiveUpInv, ProceedInv, PickPadInv, PostCommandInv,
       GetDoneInv, FreePadInv, PostPadsInv DEF CallerStep
  <1>4. ASSUME ServiceStep, UNCHANGED envVars
        PROVE  IInv'
    BY <1>4, CommandAbortInv, CommandStartInv, CommandFinishInv, WorkerAbortInv,
       WorkerStartInv, WorkerFinishInv DEF ServiceStep
  <1>5. ASSUME UNCHANGED poolVars, pindexBest' \in 0..MaxBest, fNeedCheckBlock' \in BOOLEAN
        PROVE  IInv'
    <2>1. UNCHANGED callVars /\ UNCHANGED padVars /\ UNCHANGED jobVars
      BY <1>5 DEF poolVars
    <2>2. TypeOK'
      BY <1>5, <2>1 DEF IInv, TypeOK, callVars, padVars, jobVars
    <2>3. SemaphoreInv'
      BY <2>1, SemaphoreFrame DEF IInv, Units, HoldsUnit, callVars, padVars
    <2>4. PadInv'
      BY <2>1, PadFrame DEF IInv, Owners, OwnsPad, callVars, padVars
    <2>5. CommandInv'
      BY <2>1, CommandFrame DEF IInv, callVars, jobVars
    <2>6. WorkerInv'
      BY <2>1, WorkerFrame DEF IInv, callVars, jobVars
    <2> QED BY <2>2, <2>3, <2>4, <2>5, <2>6 DEF IInv
  <1>6. ASSUME NewBest PROVE IInv'
    BY <1>5, <1>6, PoolAssumption DEF NewBest, IInv, TypeOK
  <1>7. ASSUME NEW fNew \in BOOLEAN, SetNeedCheckBlock(fNew) PROVE IInv'
    BY <1>5, <1>7 DEF SetNeedCheckBlock, IInv, TypeOK
  <1>8. ASSUME UNCHANGED vars PROVE IInv'
    BY <1>5, <1>8 DEF vars, envVars, IInv, TypeOK
  <1> QED BY <1>1, <1>2, <1>3, <1>4, <1>6, <1>7, <1>8 DEF Next, PoolNext

\* Whatever the callers, the workers and the best block do, the semaphore, the
\* pad table and the two job queues stay consistent with each other.
THEOREM PoolInvariant == Spec => []IInv
  BY InitIInv, NextIInv, PTL DEF Spec

-----------------------------------------------------------------------------
(***************************************************************************)
(* The consequences the code relies on.                                    *)
(***************************************************************************)

\* Type correctness: in particular waitPads never exceeds the number of pads,
\* although every return path of ramhog() posts it.
THEOREM TypeCorrect == Spec => []TypeOK
  BY PoolInvariant, PTL DEF IInv

\* No two calls of ramhog() ever share scratchpads.
THEOREM PadsExclusive == Spec => []PadExclusive
  <1>1. IInv => PadExclusive
    BY DEF IInv, PadInv
  <1> QED BY <1>1, PoolInvariant, PTL

\* ramhog() never throws "waitPads/fPadUsed mismatch".  If all pads were used,
\* their owners and the thread that scans them would hold more units than
\* there are.
THEOREM PadMismatchImpossible == Spec => []NoPadMismatch
  <1>1. IInv => NoPadMismatch
    <2> SUFFICES ASSUME IInv, NEW t \in Threads, pc[t] = "pick",
                        \A p \in Pads : fPadUsed[p]
                 PROVE  FALSE
      BY DEF NoPadMismatch
    <2> DEFINE f == [u \in Owners |-> whichPad[u]]
    <2>1. f \in Surjection(Owners, Pads)
      BY DEF IInv, PadInv, Surjection
    <2>2. Cardinality(Pads) <= Cardinality(Owners)
      BY <2>1, UnitsFinite, FS_Surjection DEF IInv
    <2>3. Cardinality(Pads) = numSimultaneous
      BY FS_Interval, PoolAssumption DEF Pads
    <2>4. t \notin Owners /\ Owners \cup {t} \subseteq Units
      BY DEF Owners, OwnsPad, Units, HoldsUnit
    <2>5. Cardinality(Owners \cup {t}) = Cardinality(Owners) + 1
      BY <2>4, UnitsFinite, FS_AddElement DEF IInv
    <2>6. Cardinality(Owners \cup {t}) <= Cardinality(Units)
      BY <2>4, UnitsFinite, FS_Subset DEF IInv
    <2>7. waitPads \in Nat /\ waitPads + Cardinality(Units) = numSimultaneous
      BY PoolAssumption DEF IInv, TypeOK, SemaphoreInv
    <2>8. Cardinality(Units) \in Nat /\ Cardinality(Owners) \in Nat /\ numSimultaneous \in Nat
      BY UnitsFinite, PoolAssumption DEF IInv
    <2> QED BY <2>2, <2>3, <2>5, <2>6, <2>7, <2>8
  <1> QED BY <1>1, PoolInvariant, PTL

\* ramhog() hands out its pads soundly.
THEOREM PadsAreSound == Spec => []PadsSound
  BY PadsExclusive, PadMismatchImpossible, PTL DEF PadsSound

\* No worker job outlives the call, and so the stack frame, it belongs to.
THEOREM NoStrayJobs == Spec => []JobsBelong
  <1>1. IInv => JobsBelong
    <2> SUFFICES ASSUME IInv,
                        NEW job \in workerRun \cup {workerQueue[i] : i \in DOMAIN workerQueue}
                 PROVE  pc[job[1]] = "await" /\ whichPad[job[1]] = job[2] /\ job[1] \in commandRun
      BY DEF JobsBelong
    <2>1. DOMAIN workerQueue = 1..Len(workerQueue)
      BY DEF IInv, TypeOK
    <2>2. Pending(job)
      BY <2>1 DEF IInv, WorkerInv
    <2> QED BY <2>2 DEF IInv, Pending, CommandInv
  <1> QED BY <1>1, PoolInvariant, PTL

-----------------------------------------------------------------------------
(***************************************************************************)
(* What a reported hash was computed from.                                 *)
(***************************************************************************)

\* A set promise stands for a scratchpad generated from the caller's input,
\* and a successful call read nothing else.
HashInv ==
  /\ \A t \in commandRun : \A i \in PadIdx :
       padDone[t][i] = "ok" => scratchpads[whichPad[t]][i] = t
  /\ \A t \in Threads : ramhogDone[t] = "ok" => output[t] = {t}

\* A step that leaves the running commands' pads and results alone keeps HashInv.
LEMMA HashFrame ==
  ASSUME HashInv, UNCHANGED <<commandRun, padDone, ramhogDone, output>>,
         \A u \in commandRun : /\ whichPad'[u] = whichPad[u]
                               /\ scratchpads'[whichPad[u]] = scratchpads[whichPad[u]]
  PROVE  HashInv'
  BY DEF HashInv

\* A pad that is given back is no running command's pad; a generated
\* scratchpad is the one its own command waits for.
LEMMA NextHashInv == IInv /\ HashInv /\ [Next]_vars => HashInv'
  <1> SUFFICES ASSUME IInv, HashInv, [Next]_vars PROVE HashInv'
    OBVIOUS
  <1>0. \A u \in commandRun : /\ u \in Threads /\ pc[u] = "await" /\ u \in Owners
                              /\ whichPad[u] \in Pads /\ ramhogDone[u] = "pending"
    BY DEF IInv, TypeOK, CommandInv, PadInv, Owners, OwnsPad
  <1>1. ASSUME NEW t \in Threads, NEW miner \in BOOLEAN, Refuse(t, miner) PROVE HashInv'
    BY <1>1, HashFrame DEF Refuse, jobVars
  <1>2. ASSUME NEW t \in Threads, NEW miner \in BOOLEAN, Call(t, miner) PROVE HashInv'
    BY <1>2, HashFrame DEF Call, jobVars
  <1>3. ASSUME NEW t \in Threads, CallerStep(t) PROVE HashInv'
    <2>1. CASE WaitPads(t) \/ GiveUp(t) \/ Proceed(t) \/ GetDone(t)
      BY <2>1, HashFrame DEF WaitPads, GiveUp, Proceed, GetDone, jobVars
    <2>2. CASE PickPad(t)
      <3>1. \A u \in commandRun : u # t
        BY <1>0, <2>2 DEF PickPad, Goto
      <3>2. UNCHANGED jobVars /\ \A u \in commandRun : whichPad'[u] = whichPad[u]
        BY <1>0, <2>2, <3>1 DEF PickPad, IInv, TypeOK
      <3> QED BY <3>2, HashFrame DEF jobVars
    <2>3. CASE PostCommand(t)
      BY <1>0, <2>3 DEF PostCommand, HashInv, IInv, TypeOK
    <2>4. CASE FreePad(t)
      <3>1. t \in Owners /\ t \notin commandRun /\ whichPad[t] \in Pads
        BY <1>0, <2>4 DEF FreePad, Goto, Owners, OwnsPad, IInv, PadInv
      <3>2. \A u \in commandRun : whichPad[u] # whichPad[t]
        BY <1>0, <3>1 DEF IInv, PadInv, PadExclusive, Owners
      <3>3. \A u \in commandRun : scratchpads'[whichPad[u]] = scratchpads[whichPad[u]]
        BY <1>0, <2>4, <3>1, <3>2 DEF FreePad, IInv, TypeOK
      <3> QED BY <2>4, <3>3, HashFrame DEF FreePad
    <2>5. CASE PostPads(t)
      <3>1. \A u \in commandRun : u # t
        BY <1>0, <2>5 DEF PostPads, Goto
      <3>2. \A u \in commandRun : whichPad'[u] = whichPad[u]
        BY <1>0, <2>5, <3>1 DEF PostPads, IInv, TypeOK
      <3>3. \A u \in Threads : ramhogDone'[u] = "ok" => output'[u] = {u}
        BY <2>5 DEF PostPads, HashInv, IInv, TypeOK
      <3> QED BY <2>5, <3>2, <3>3 DEF PostPads, HashInv
    <2> QED BY <1>3, <2>1, <2>2, <2>3, <2>4, <2>5 DEF CallerStep
  <1>4. ASSUME ServiceStep PROVE HashInv'
    <2>1. CASE CommandAbort
      <3>1. Head(commandQueue) \in Threads
        BY <2>1 DEF CommandAbort, IInv, TypeOK
      <3> QED BY <2>1, <3>1 DEF CommandAbort, HashInv, IInv, TypeOK, callVars
    <2>2. CASE CommandStart
      <3> DEFINE h == Head(commandQueue)
      <3>1. h = commandQueue[1] /\ 1 \in 1..Len(commandQueue) /\ h \in Threads
        BY <2>2 DEF CommandStart, IInv, TypeOK
      <3>2. \A i \in PadIdx : padDone[h][i] = "pending"
        BY <3>1 DEF IInv, CommandInv, WorkerInv
      <3>3. commandRun' = commandRun \cup {h}
        BY <2>2 DEF CommandStart
      <3>4. UNCHANGED <<whichPad, padDone, ramhogDone, scratchpads, output>>
        BY <2>2 DEF CommandStart, callVars
      <3> QED BY <3>2, <3>3, <3>4 DEF HashInv
    <2>3. ASSUME NEW t \in Threads, CommandFinish(t) PROVE HashInv'
      <3>1. t \in commandRun /\ commandRun' = commandRun \ {t}
        BY <2>3 DEF CommandFinish
      <3>2. UNCHANGED <<whichPad, scratchpads>>
            /\ \A u \in commandRun' : padDone'[u] = padDone[u]
        BY <2>3, <3>1 DEF CommandFinish, callVars, IInv, TypeOK
      <3>3. CASE PadsOk(t)
        <4>1. \A i \in PadIdx : scratchpads[whichPad[t]][i] = t
          BY <3>1, <3>3 DEF PadsOk, HashInv
        <4>2. {scratchpads[whichPad[t]][i] : i \in PadIdx} = {t}
          <5>1. 1 \in PadIdx
            BY PoolAssumption DEF PadIdx
          <5> QED BY <4>1, <5>1
        <4>3. /\ output' = [output EXCEPT ![t] = {t}]
              /\ ramhogDone' = [ramhogDone EXCEPT ![t] = "ok"]
          BY <2>3, <3>3, <4>2 DEF CommandFinish
        <4>4. \A u \in Threads : ramhogDone'[u] = "ok" => output'[u] = {u}
          BY <4>3 DEF HashInv, IInv, TypeOK
        <4> QED BY <3>1, <3>2, <4>4 DEF HashInv
      <3>4. CASE ~PadsOk(t)
        <4>1. /\ output' = output
              /\ ramhogDone' = [ramhogDone EXCEPT ![t] = "fail"]
          BY <2>3, <3>4 DEF CommandFinish
        <4>2. \A u \in Threads : ramhogDone'[u] = "ok" => output'[u] = {u}
          BY <4>1 DEF HashInv, IInv, TypeOK
        <4> QED BY <3>1, <3>2, <4>2 DEF HashInv
      <3> QED BY <3>3, <3>4
    <2>4. CASE WorkerAbort
      <3>1. Head(workerQueue) \in Jobs
        BY <2>4 DEF WorkerAbort, IInv, TypeOK
      <3>2. /\ padDone' = [padDone EXCEPT ![Head(workerQueue)[1]][Head(workerQueue)[3]] = "interrupted"]
            /\ UNCHANGED <<whichPad, commandRun, ramhogDone, scratchpads, output>>
        BY <2>4 DEF WorkerAbort, callVars
      <3>3. \A u \in Threads : \A i \in PadIdx :
              padDone'[u][i] = "ok" => padDone[u][i] = "ok"
        BY <3>1, <3>2 DEF IInv, TypeOK, Jobs
      <3> QED BY <1>0, <3>2, <3>3 DEF HashInv
    <2>5. CASE WorkerStart
      BY <2>5, HashFrame DEF WorkerStart, callVars
    <2>6. ASSUME NEW job \in workerRun, WorkerFinish(job) PROVE HashInv'
      <3>1. /\ job[1] \in Threads /\ job[2] \in Pads /\ job[3] \in PadIdx
            /\ Pending(job)
        BY DEF IInv, TypeOK, Jobs, WorkerInv
      <3>2. /\ scratchpads' = [scratchpads EXCEPT ![job[2]][job[3]] = job[1]]
            /\ padDone' = [padDone EXCEPT ![job[1]][job[3]] = "ok"]
            /\ UNCHANGED <<whichPad, commandRun, ramhogDone, output>>
        BY <2>6 DEF WorkerFinish, callVars
      <3>3. \A u \in commandRun : whichPad[u] = job[2] => u = job[1]
        BY <1>0, <3>1 DEF Pending, IInv, PadInv, PadExclusive, Owners
      <3>4. ASSUME NEW u \in commandRun, NEW i \in PadIdx, padDone'[u][i] = "ok"
            PROVE  scratchpads'[whichPad[u]][i] = u
        <4>1. CASE u = job[1] /\ i = job[3]
          BY <3>1, <3>2, <4>1 DEF Pending, IInv, TypeOK
        <4>2. CASE ~(u = job[1] /\ i = job[3])
          <5>1. padDone[u][i] = "ok"
            BY <1>0, <3>1, <3>2, <3>4, <4>2 DEF IInv, TypeOK
          <5>2. scratchpads[whichPad[u]][i] = u
            BY <5>1 DEF HashInv
          <5>3. scratchpads'[whichPad[u]][i] = scratchpads[whichPad[u]][i]
            BY <1>0, <3>1, <3>2, <3>3, <4>2 DEF IInv, TypeOK
          <5> QED BY <5>2, <5>3
        <4> QED BY <4>1, <4>2
      <3> QED BY <3>2, <3>4 DEF HashInv
    <2> QED BY <1>4, <2>1, <2>2, <2>3, <2>4, <2>5, <2>6 DEF ServiceStep
  <1>5. ASSUME UNCHANGED poolVars PROVE HashInv'
    BY <1>5, HashFrame DEF poolVars, callVars, jobVars
  <1> QED BY <1>1, <1>2, <1>3, <1>4, <1>5 DEF Next, PoolNext, NewBest,
       SetNeedCheckBlock, vars

\* A hash that ramhog() reports as computed is the hash of the caller's own
\* header: every scratchpad it was read from was generated for this call.
THEOREM HashesAreOwn == Spec => []HashFromOwnInput
  <1>1. Init => HashInv
    BY DEF Init, PoolInit, HashInv
  <1>2. Spec => []HashInv
    BY <1>1, NextHashInv, PoolInvariant, PTL DEF Spec
  <1>3. HashInv => HashFromOwnInput
    BY DEF HashInv, HashFromOwnInput
  <1> QED BY <1>2, <1>3, PTL
-----------------------------------------------------------------------------
(***************************************************************************)
(* Whose calls fail.                                                       *)
(***************************************************************************)

\* No promise of a call that is not the miner's is ever broken, and a call
\* starts with promises that say nothing, whatever the thread's last call was.
CheckInv ==
  \A t \in Threads :
    /\ pc[t] \notin {"await", "free", "signal"} => ramhogDone[t] = "pending"
    /\ ~fForMiner[t] =>
         /\ ramhogDone[t] # "fail"
         /\ \A i \in PadIdx : padDone[t][i] # "interrupted"
         /\ pc[t] \in {"free", "signal"} => result[t] # "fail"
         /\ pc[t] = "idle" /\ result[t] = "fail" => NoWorkers

\* A caller that is not in ramhog(), or has not posted its job yet, has no
\* command job: its promises are pending.
LEMMA NotAwaiting ==
  ASSUME IInv, NEW t \in Threads, pc[t] # "await"
  PROVE  t \notin commandRun /\ \A i \in PadIdx : padDone[t][i] = "pending"
<1>1. t \notin commandRun
  BY DEF IInv, CommandInv
<1> QED BY <1>1 DEF IInv, WorkerInv

\* Every step keeps it.
LEMMA NextCheckInv == IInv /\ CheckInv /\ [Next]_vars => CheckInv'
<1> SUFFICES ASSUME IInv, CheckInv, [Next]_vars PROVE CheckInv'
  OBVIOUS
<1>t. /\ pc \in [Threads -> PC] /\ fForMiner \in [Threads -> BOOLEAN]
      /\ padDone \in [Threads -> [PadIdx -> {"pending", "ok", "interrupted"}]]
      /\ ramhogDone \in [Threads -> {"pending", "ok", "fail"}]
      /\ result \in [Threads -> {"none", "ok", "fail"}]
  BY DEF IInv, TypeOK
<1>1. ASSUME NEW t \in Threads, NEW miner \in BOOLEAN, Refuse(t, miner) PROVE CheckInv'
  <2>1. /\ pc[t] = "idle" /\ (NoWorkers \/ miner)
        /\ result' = [result EXCEPT ![t] = "fail"]
        /\ fForMiner' = [fForMiner EXCEPT ![t] = miner]
        /\ UNCHANGED <<pc, padDone, ramhogDone>>
    BY <1>1 DEF Refuse, jobVars
  <2>2. \A i \in PadIdx : padDone[t][i] = "pending"
    BY <2>1, NotAwaiting
  <2> QED BY <1>t, <2>1, <2>2 DEF CheckInv, NoWorkers
<1>2. ASSUME NEW t \in Threads, NEW miner \in BOOLEAN, Call(t, miner) PROVE CheckInv'
  <2>1. /\ pc[t] = "idle" /\ pc' = [pc EXCEPT ![t] = "wait"]
        /\ result' = [result EXCEPT ![t] = "none"]
        /\ fForMiner' = [fForMiner EXCEPT ![t] = miner]
        /\ UNCHANGED <<padDone, ramhogDone>>
    BY <1>2 DEF Call, Goto, jobVars
  <2>2. \A i \in PadIdx : padDone[t][i] = "pending"
    BY <2>1, NotAwaiting
  <2> QED BY <1>t, <2>1, <2>2 DEF CheckInv, NoWorkers
<1>3. ASSUME NEW t \in Threads, CallerStep(t) PROVE CheckInv'
  <2>1. CASE WaitPads(t) \/ Proceed(t) \/ PickPad(t)
    <3>1. /\ pc[t] \in {"wait", "recheck", "pick"}
          /\ \E to \in {"recheck", "pick", "post"} : pc' = [pc EXCEPT ![t] = to]
          /\ UNCHANGED <<fForMiner, result, padDone, ramhogDone>>
      BY <2>1 DEF WaitPads, Proceed, PickPad, Goto, jobVars
    <3> QED BY <1>t, <3>1 DEF CheckInv, NoWorkers
  <2>2. CASE GiveUp(t)
    <3>1. /\ pc[t] = "recheck" /\ pc' = [pc EXCEPT ![t] = "idle"] /\ fForMiner[t]
          /\ result' = [result EXCEPT ![t] = "fail"]
          /\ UNCHANGED <<fForMiner, padDone, ramhogDone>>
      BY <2>2 DEF GiveUp, Goto, Interrupted, jobVars
    <3> QED BY <1>t, <3>1 DEF CheckInv, NoWorkers
  <2>3. CASE PostCommand(t)
    <3>1. /\ pc' = [pc EXCEPT ![t] = "await"] /\ ramhogDone' = [ramhogDone EXCEPT ![t] = "pending"]
          /\ UNCHANGED <<fForMiner, result, padDone>>
      BY <2>3 DEF PostCommand, Goto
    <3> QED BY <1>t, <3>1 DEF CheckInv, NoWorkers
  <2>4. CASE GetDone(t)
    <3>1. /\ pc' = [pc EXCEPT ![t] = "free"] /\ result' = [result EXCEPT ![t] = ramhogDone[t]]
          /\ UNCHANGED <<fForMiner, ramhogDone, padDone>>
      BY <2>4 DEF GetDone, Goto, jobVars
    <3> QED BY <1>t, <3>1 DEF CheckInv, NoWorkers
  <2>5. CASE FreePad(t)
    <3>1. /\ pc[t] = "free" /\ pc' = [pc EXCEPT ![t] = "signal"]
          /\ UNCHANGED <<fForMiner, result, ramhogDone, padDone>>
      BY <2>5 DEF FreePad, Goto
    <3> QED BY <1>t, <3>1 DEF CheckInv, NoWorkers
  <2>6. CASE PostPads(t)
    <3>1. /\ pc[t] = "signal" /\ pc' = [pc EXCEPT ![t] = "idle"]
          /\ ramhogDone' = [ramhogDone EXCEPT ![t] = "pending"]
          /\ UNCHANGED <<fForMiner, result, padDone>>
      BY <2>6 DEF PostPads, Goto
    <3> QED BY <1>t, <3>1 DEF CheckInv, NoWorkers
  <2> QED BY <1>3, <2>1, <2>2, <2>3, <2>4, <2>5, <2>6 DEF CallerStep
<1>4. ASSUME ServiceStep PROVE CheckInv'
  <2>0. UNCHANGED <<pc, fForMiner, result>>
    BY <1>4 DEF ServiceStep, CommandAbort, CommandStart, CommandFinish, WorkerAbort,
                WorkerStart, WorkerFinish, callVars
  <2>1. CASE CommandAbort
    <3> DEFINE h == Head(commandQueue)
    <3>1. h = commandQueue[1] /\ 1 \in 1..Len(commandQueue) /\ h \in Threads
      BY <2>1 DEF CommandAbort, IInv, TypeOK
    <3>2. pc[h] = "await" /\ fForMiner[h]
      BY <2>1, <3>1 DEF IInv, CommandInv, CommandAbort, Interrupted
    <3>3. ramhogDone' = [ramhogDone EXCEPT ![h] = "fail"] /\ padDone' = padDone
      BY <2>1 DEF CommandAbort
    <3> HIDE DEF h
    <3> QED BY <1>t, <2>0, <3>1, <3>2, <3>3 DEF CheckInv, NoWorkers
  <2>2. CASE CommandStart
    BY <2>0, <2>2 DEF CommandStart, CheckInv, NoWorkers
  <2>3. ASSUME NEW t \in Threads, CommandFinish(t) PROVE CheckInv'
    <3>1. t \in commandRun /\ pc[t] = "await"
      BY <2>3 DEF CommandFinish, IInv, CommandInv
    <3>2. ~PadsOk(t) => fForMiner[t]
      BY <1>t, <2>3 DEF CheckInv, PadsOk, AllSet, CommandFinish
    <3>3. ramhogDone' = [ramhogDone EXCEPT ![t] = IF PadsOk(t) THEN "ok" ELSE "fail"]
      BY <2>3 DEF CommandFinish
    <3>4. padDone' = [padDone EXCEPT ![t] = [i \in PadIdx |-> "pending"]]
      BY <2>3 DEF CommandFinish
    <3> QED BY <1>t, <2>0, <3>1, <3>2, <3>3, <3>4 DEF CheckInv, NoWorkers
  <2>4. CASE WorkerAbort
    <3> DEFINE u == Head(workerQueue)[1]
               j == Head(workerQueue)[3]
    <3>1. u \in Threads /\ j \in PadIdx
      <4>1. Head(workerQueue) \in Jobs
        BY <2>4 DEF WorkerAbort, IInv, TypeOK
      <4> QED BY <4>1 DEF Jobs
    <3>2. fForMiner[u] /\ ramhogDone' = ramhogDone
      BY <2>4 DEF WorkerAbort, Interrupted
    <3>3. padDone' = [padDone EXCEPT ![u][j] = "interrupted"]
      BY <2>4 DEF WorkerAbort
    <3> HIDE DEF u, j
    <3>4. \A t \in Threads : t # u => padDone'[t] = padDone[t]
      BY <1>t, <3>1, <3>3
    <3> QED BY <1>t, <2>0, <3>1, <3>2, <3>4 DEF CheckInv, NoWorkers
  <2>5. CASE WorkerStart
    BY <2>0, <2>5 DEF WorkerStart, CheckInv, NoWorkers
  <2>6. ASSUME NEW job \in workerRun, WorkerFinish(job) PROVE CheckInv'
    <3>1. job[1] \in Threads /\ job[3] \in PadIdx
      BY DEF IInv, TypeOK, Jobs
    <3>2. padDone' = [padDone EXCEPT ![job[1]][job[3]] = "ok"] /\ ramhogDone' = ramhogDone
      BY <2>6 DEF WorkerFinish
    <3>3. \A t \in Threads : \A i \in PadIdx : padDone'[t][i] \in {padDone[t][i], "ok"}
      BY <1>t, <3>1, <3>2
    <3> QED BY <1>t, <2>0, <3>2, <3>3 DEF CheckInv, NoWorkers
  <2> QED BY <1>4, <2>1, <2>2, <2>3, <2>4, <2>5, <2>6 DEF ServiceStep
<1>5. ASSUME UNCHANGED poolVars PROVE CheckInv'
  BY <1>5 DEF poolVars, callVars, jobVars, CheckInv, NoWorkers
<1> QED BY <1>1, <1>2, <1>3, <1>4, <1>5 DEF Next, PoolNext, NewBest,
     SetNeedCheckBlock, vars

\* The check of a received block is never interrupted by a new best block and never
\* turned away by fNeedCheckBlock, although it shares the threads, the queues and the
\* pads with the miner's calls, and its thread may have called for the miner before.
THEOREM ChecksComplete == Spec => []CheckNeverInterrupted
<1>1. Init => CheckInv
  BY DEF Init, PoolInit, CheckInv
<1>2. Spec => []CheckInv
  BY <1>1, NextCheckInv, PoolInvariant, PTL DEF Spec
<1>3. CheckInv => CheckNeverInterrupted
  BY DEF CheckInv, CheckNeverInterrupted
<1> QED BY <1>2, <1>3, PTL
-----------------------------------------------------------------------------
(***************************************************************************)
(* The node of MinerNode.                                                  *)
(***************************************************************************)

\* Every step of the node is a step of the pool with its open environment, or
\* leaves the pool alone.
LEMMA NodeStepIsPoolStep ==
  NodeNext => [Next]_vars
<1> SUFFICES ASSUME NodeNext PROVE Next \/ UNCHANGED vars
  OBVIOUS
<1>1. ASSUME NEW t \in Threads, MinerStep(t) PROVE Next \/ UNCHANGED vars
  <2>1. CASE MinerGetPoWHash(t)
    BY <2>1 DEF MinerGetPoWHash, Next
  <2>2. CASE MinerRefused(t)
    BY <2>2 DEF MinerRefused, Next
  <2>3. CASE ReadTip(t) \/ CreateNewBlock(t) \/ CollectTransactions(t)
             \/ MinerHashed(t) \/ CheckWork(t)
    BY <2>3 DEF ReadTip, CreateNewBlock, CollectTransactions, MinerHashed,
                CheckWork, vars
  <2> QED
    BY <1>1, <2>1, <2>2, <2>3 DEF MinerStep
<1>2. ASSUME NEW t \in Threads, LockForMessage(t) \/ LockForRPC(t)
      PROVE  UNCHANGED vars
  BY <1>2 DEF LockForMessage, LockForRPC, vars
<1>3. ASSUME NEW t \in Threads, HolderStep(t) PROVE Next \/ UNCHANGED vars
  <2>0. ASSUME NEW from, NEW to, GetPoWHash(t, from, to) PROVE Next
    BY <2>0 DEF GetPoWHash, Next
  <2>00. ASSUME NEW fNew \in BOOLEAN, SetNeedCheckBlock(fNew) PROVE Next
    BY <2>00 DEF Next
  <2>1. CASE RPCStep(t)
    BY <2>1, <2>0 DEF RPCStep, RPCHashed
  <2>2. CASE ProcessBlockRefused(t)
    BY <2>2 DEF ProcessBlockRefused
  <2>3. CASE CheckBlockStep(t)
    BY <2>3, <2>0, <2>00 DEF CheckBlockStep, RaiseFlag, BlockChecked
  <2>4. CASE AcceptBlock(t)
    BY <2>4 DEF AcceptBlock, Next
  <2>5. CASE AcceptOrphan(t)
    BY <2>5 DEF AcceptOrphan, Next
  <2>6. CASE ProcessBlockEnd(t)
    BY <2>6 DEF ProcessBlockEnd
  <2>7. CASE SendSignedHash(t)
    BY <2>7, <2>0, <2>00 DEF SendSignedHash, RaiseFlag
  <2>8. CASE ProcessSyncCheckpoint(t)
    BY <2>8 DEF ProcessSyncCheckpoint, Next
  <2> QED
    BY <1>3, <2>1, <2>2, <2>3, <2>4, <2>5, <2>6, <2>7, <2>8 DEF HolderStep
<1>4. CASE InPool(PoolNext)
  BY <1>4 DEF InPool, Next
<1> QED
  BY <1>1, <1>2, <1>3, <1>4 DEF NodeNext

\* The threads of the node, with their lock, their unlocked reads and their
\* flag, implement the open specification of the pool: what is proved of
\* RamhogPool for any callers holds of these callers.
THEOREM NodeImplementsPool ==
  NodeSpec => Spec
<1>1. NodeInit => Init
  BY DEF NodeInit
<1>2. [NodeNext]_allVars => [Next]_vars
  BY NodeStepIsPoolStep DEF allVars
<1> QED
  BY <1>1, <1>2, PTL DEF NodeSpec, Spec

\* No pad is ever shared by two calls of the node's threads.
THEOREM NodePadsExclusive ==
  NodeSpec => []PadExclusive
  BY NodeImplementsPool, PadsExclusive, PTL

(***************************************************************************)
(* The inductive invariant.  cs_main tells which thread may be in a scope  *)
(* of the lock, so a step of one holder leaves all other threads outside,  *)
(* and a tip that moves moves under a holder that has no block to submit   *)
(* any more.  The types of the pool's variables are TypeCorrect's.         *)
(***************************************************************************)

NodeTypes ==
  /\ csMain \in Threads \cup {NoThread}
  /\ npc \in [Threads -> NPC]
  /\ pindexPrev \in [Threads -> 0..MaxBest]
  /\ hashPrevBlock \in [Threads -> 0..NoBlock]

\* A thread in its loop has no block.
LoopForgets ==
  \A t \in Threads : npc[t] = "loop" => hashPrevBlock[t] = NoBlock

NodeInv == NodeTypes /\ LoopForgets /\ FlagOwned /\ NoStaleMined

\* No thread holds cs_main at the start.
LEMMA InitNodeInv == NodeInit => NodeInv
  BY PoolAssumption, NodeAssumption
  DEF NodeInit, Init, NodeInv, NodeTypes, LoopForgets, FlagOwned,
      NoStaleMined, NPC, Held, Flagged, Submitting, NoBlock

\* A step that leaves the variables of the invariant alone preserves it.
LEMMA NodeFrame ==
  ASSUME NodeInv, UNCHANGED <<nodeVars, envVars>>
  PROVE  NodeInv'
  BY DEF NodeInv, NodeTypes, LoopForgets, FlagOwned, NoStaleMined, nodeVars,
         envVars

\* The loop of a miner or minter.
LEMMA MinerStepInv ==
  ASSUME TypeOK, NodeInv, NEW t \in Threads, MinerStep(t)
  PROVE  NodeInv'
<1> USE PoolAssumption, NodeAssumption
    DEF NodeInv, NodeTypes, LoopForgets, FlagOwned, NoStaleMined, NPC, Held,
        Flagged, Submitting, NoBlock, Step, Drop, vars, envVars
<1>0. pindexBest \in 0..MaxBest
  BY DEF TypeOK
<1>1. CASE ReadTip(t)
  BY <1>0, <1>1 DEF ReadTip
<1>2. CASE CreateNewBlock(t)
  BY <1>0, <1>2 DEF CreateNewBlock
<1>3. CASE CollectTransactions(t)
  BY <1>0, <1>3 DEF CollectTransactions
<1>4. CASE MinerGetPoWHash(t)
  BY <1>0, <1>4 DEF MinerGetPoWHash
<1>5. CASE MinerRefused(t)
  BY <1>0, <1>5 DEF MinerRefused
<1>6. CASE MinerHashed(t)
  BY <1>0, <1>6 DEF MinerHashed
<1>7. CASE CheckWork(t)
  BY <1>0, <1>7 DEF CheckWork
<1> QED
  BY <1>1, <1>2, <1>3, <1>4, <1>5, <1>6, <1>7 DEF MinerStep

\* cs_main is taken by one thread.
LEMMA LockInv ==
  ASSUME TypeOK, NodeInv, NEW t \in Threads,
         LockForMessage(t) \/ LockForRPC(t)
  PROVE  NodeInv'
<1> USE PoolAssumption, NodeAssumption
    DEF NodeInv, NodeTypes, LoopForgets, FlagOwned, NoStaleMined, NPC, Held,
        Flagged, Submitting, NoBlock, Step, vars, envVars
<1>0. pindexBest \in 0..MaxBest
  BY DEF TypeOK
<1>1. CASE LockForMessage(t)
  BY <1>0, <1>1 DEF LockForMessage
<1>2. CASE LockForRPC(t)
  BY <1>0, <1>2 DEF LockForRPC
<1> QED
  BY <1>1, <1>2

\* The steps of the holder of cs_main.
LEMMA HolderStepInv ==
  ASSUME TypeOK, NodeInv, NEW t \in Threads, HolderStep(t)
  PROVE  NodeInv'
<1> USE PoolAssumption, NodeAssumption
    DEF NodeInv, NodeTypes, LoopForgets, FlagOwned, NoStaleMined, NPC, Held,
        Flagged, Submitting, NoBlock, Step, Drop, Release, vars, envVars
<1>0. pindexBest \in 0..MaxBest /\ fNeedCheckBlock \in BOOLEAN
  BY DEF TypeOK
<1>1. CASE RPCStep(t)
  <2>1. CASE RPCHashed(t, "rpc")
    BY <1>0, <2>1 DEF RPCHashed
  <2>2. CASE GetPoWHash(t, "rpc", "rpchash")
    BY <1>0, <2>2 DEF GetPoWHash
  <2>3. CASE RPCHashed(t, "rpchash")
    BY <1>0, <2>3 DEF RPCHashed
  <2>4. CASE Release(t, "rpchash") /\ UNCHANGED vars
    BY <1>0, <2>4
  <2> QED
    BY <1>1, <2>1, <2>2, <2>3, <2>4 DEF RPCStep
<1>2. CASE ProcessBlockRefused(t)
  BY <1>0, <1>2 DEF ProcessBlockRefused
<1>3. CASE CheckBlockStep(t)
  <2>1. CASE RaiseFlag(t, "process", "check")
    BY <1>0, <2>1 DEF RaiseFlag, SetNeedCheckBlock
  <2>2. CASE BlockChecked(t, "check")
    BY <1>0, <2>2 DEF BlockChecked, SetNeedCheckBlock
  <2>3. CASE GetPoWHash(t, "check", "checking")
    BY <1>0, <2>3 DEF GetPoWHash
  <2>4. CASE BlockChecked(t, "checking")
    BY <1>0, <2>4 DEF BlockChecked, SetNeedCheckBlock
  <2>5. CASE Release(t, "checking") /\ SetNeedCheckBlock(FALSE)
    BY <1>0, <2>5 DEF SetNeedCheckBlock
  <2> QED
    BY <1>3, <2>1, <2>2, <2>3, <2>4, <2>5 DEF CheckBlockStep
<1>4. CASE AcceptBlock(t)
  BY <1>0, <1>4 DEF AcceptBlock, NewBest
<1>5. CASE AcceptOrphan(t)
  BY <1>0, <1>5 DEF AcceptOrphan, NewBest
<1>6. CASE ProcessBlockEnd(t)
  BY <1>0, <1>6 DEF ProcessBlockEnd
<1>7. CASE SendSignedHash(t)
  <2>1. CASE RaiseFlag(t, "sign", "signcheck")
    BY <1>0, <2>1 DEF RaiseFlag, SetNeedCheckBlock
  <2>2. CASE Release(t, "signcheck") /\ SetNeedCheckBlock(FALSE)
    BY <1>0, <2>2 DEF SetNeedCheckBlock
  <2>3. CASE GetPoWHash(t, "signcheck", "signing")
    BY <1>0, <2>3 DEF GetPoWHash
  <2>4. CASE Release(t, "signing") /\ SetNeedCheckBlock(FALSE)
    BY <1>0, <2>4 DEF SetNeedCheckBlock
  <2> QED
    BY <1>7, <2>1, <2>2, <2>3, <2>4 DEF SendSignedHash
<1>8. CASE ProcessSyncCheckpoint(t)
  BY <1>0, <1>8 DEF ProcessSyncCheckpoint, NewBest
<1> QED
  BY <1>1, <1>2, <1>3, <1>4, <1>5, <1>6, <1>7, <1>8 DEF HolderStep

\* Every step of the node keeps the invariant.
LEMMA NextNodeInv ==
  ASSUME TypeOK, NodeInv, [NodeNext]_allVars
  PROVE  NodeInv'
<1>1. CASE \E t \in Threads : MinerStep(t)
  BY <1>1, MinerStepInv
<1>2. CASE \E t \in Threads : LockForMessage(t) \/ LockForRPC(t)
  BY <1>2, LockInv
<1>3. CASE \E t \in Threads : HolderStep(t)
  BY <1>3, HolderStepInv
<1>4. CASE InPool(PoolNext)
  BY <1>4, NodeFrame DEF InPool
<1>5. CASE UNCHANGED allVars
  BY <1>5, NodeFrame DEF allVars, vars
<1> QED
  BY <1>1, <1>2, <1>3, <1>4, <1>5 DEF NodeNext

\* The invariant holds in every reachable state of the node.
THEOREM NodeInvariant == NodeSpec => []NodeInv
<1>1. NodeSpec => []TypeOK
  BY NodeImplementsPool, TypeCorrect, PTL
<1>2. TypeOK /\ NodeInv /\ [NodeNext]_allVars => NodeInv'
  BY NextNodeInv
<1> QED
  BY <1>1, <1>2, InitNodeInv, PTL DEF NodeSpec

\* fNeedCheckBlock is set exactly while the holder of cs_main has a hash to
\* check: whatever exit ProcessBlock or SendSignedHash takes, the miners are
\* let in again.
THEOREM FlagAlwaysOwned == NodeSpec => []FlagOwned
<1>1. NodeInv => FlagOwned
  BY DEF NodeInv
<1> QED
  BY <1>1, NodeInvariant, PTL

\* No block of the node's own is submitted to ProcessBlock on a tip that was
\* overtaken, for any number of threads that read pindexBest without cs_main.
THEOREM MinedOnTip == NodeSpec => []NoStaleMined
<1>1. NodeInv => NoStaleMined
  BY DEF NodeInv
<1> QED
  BY <1>1, NodeInvariant, PTL
=============================================================================
