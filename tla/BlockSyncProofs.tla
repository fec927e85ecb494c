--------------------------- MODULE BlockSyncProofs ---------------------------
(***************************************************************************)
(* A node without scratchpads keeps only blocks whose hash was signed, for *)
(* every tree of blocks and any number of broken connections.  The check   *)
(* is made once, when a block message arrives; an orphan is accepted later *)
(* without it.  The proof needs that the work queue of ProcessBlock takes  *)
(* nothing but orphans into the index, and that a node without scratchpads *)
(* never fills its cache of computed hashes, which the check also reads.   *)
(*                                                                         *)
(* And no orphan is left behind, nor its stake: the work queue comes to    *)
(* every orphan whose parent was accepted. It is counted: each orphan that *)
(* enters the queue leaves the orphans, so the queue ends in time.         *)
(***************************************************************************)
EXTENDS BlockSync, FoldLemmas

\* The fields of a node's chain.
IsChain(s) ==
  s = [mapBlockIndex |-> s.mapBlockIndex, pindexBest |-> s.pindexBest,
       mapOrphanBlocks |-> s.mapOrphanBlocks, setStakeSeenOrphan |-> s.setStakeSeenOrphan]

\* The fields after AcceptBlock,
LEMMA IndexFields ==
  ASSUME NEW s, IsChain(s), NEW b, NEW tip
  PROVE  [s EXCEPT !.mapBlockIndex = @ \cup {b}, !.pindexBest = IF tip THEN b ELSE @] =
           [mapBlockIndex |-> s.mapBlockIndex \cup {b},
            pindexBest |-> IF tip THEN b ELSE s.pindexBest,
            mapOrphanBlocks |-> s.mapOrphanBlocks,
            setStakeSeenOrphan |-> s.setStakeSeenOrphan]
<1> DEFINE r == [mapBlockIndex |-> s.mapBlockIndex, pindexBest |-> s.pindexBest,
                 mapOrphanBlocks |-> s.mapOrphanBlocks,
                 setStakeSeenOrphan |-> s.setStakeSeenOrphan]
           I == s.mapBlockIndex \cup {b}
           t == IF tip THEN b ELSE s.pindexBest
<1>1. s = r
  BY DEF IsChain
<1>2. [s EXCEPT !.mapBlockIndex = @ \cup {b}, !.pindexBest = IF tip THEN b ELSE @]
        = [r EXCEPT !.mapBlockIndex = I, !.pindexBest = t]
  <2>1. r.mapBlockIndex = s.mapBlockIndex /\ r.pindexBest = s.pindexBest
    OBVIOUS
  <2>2. [r EXCEPT !.mapBlockIndex = @ \cup {b}, !.pindexBest = IF tip THEN b ELSE @]
          = [r EXCEPT !.mapBlockIndex = I, !.pindexBest = t]
    OBVIOUS
  <2>3. [s EXCEPT !.mapBlockIndex = @ \cup {b}, !.pindexBest = IF tip THEN b ELSE @]
          = [r EXCEPT !.mapBlockIndex = @ \cup {b}, !.pindexBest = IF tip THEN b ELSE @]
    BY <1>1, Zenon
  <2> HIDE DEF r, I, t
  <2> QED BY <2>2, <2>3, Zenon
<1>3. [r EXCEPT !.mapBlockIndex = I, !.pindexBest = t] =
        [mapBlockIndex |-> I, pindexBest |-> t, mapOrphanBlocks |-> s.mapOrphanBlocks,
         setStakeSeenOrphan |-> s.setStakeSeenOrphan]
  <2> SUFFICES ASSUME NEW c, c = [r EXCEPT !.mapBlockIndex = I, !.pindexBest = t]
               PROVE  c = [mapBlockIndex |-> I, pindexBest |-> t,
                           mapOrphanBlocks |-> s.mapOrphanBlocks,
                           setStakeSeenOrphan |-> s.setStakeSeenOrphan]
    BY Zenon
  <2> HIDE DEF I, t
  <2> QED OBVIOUS
<1> HIDE DEF r
<1> QED
  BY <1>2, <1>3, Zenon

\* and after an orphan is added or erased.
LEMMA OrphanFields ==
  ASSUME NEW s, IsChain(s), NEW O, NEW Q
  PROVE  [s EXCEPT !.mapOrphanBlocks = O, !.setStakeSeenOrphan = Q] =
           [mapBlockIndex |-> s.mapBlockIndex, pindexBest |-> s.pindexBest,
            mapOrphanBlocks |-> O, setStakeSeenOrphan |-> Q]
<1> DEFINE r == [mapBlockIndex |-> s.mapBlockIndex, pindexBest |-> s.pindexBest,
                 mapOrphanBlocks |-> s.mapOrphanBlocks,
                 setStakeSeenOrphan |-> s.setStakeSeenOrphan]
<1>1. [s EXCEPT !.mapOrphanBlocks = O, !.setStakeSeenOrphan = Q]
        = [r EXCEPT !.mapOrphanBlocks = O, !.setStakeSeenOrphan = Q]
  BY Zenon DEF IsChain
<1>2. ASSUME NEW c, c = [r EXCEPT !.mapOrphanBlocks = O, !.setStakeSeenOrphan = Q]
      PROVE  c = [mapBlockIndex |-> s.mapBlockIndex, pindexBest |-> s.pindexBest,
                  mapOrphanBlocks |-> O, setStakeSeenOrphan |-> Q]
  BY <1>2
<1> HIDE DEF r
<1> QED
  BY <1>1, <1>2, Zenon

\* What ProcessBlock works on when it started with the orphans O: the index stays
\* within K, and the orphans become fewer.  P and Q are for the parts that do
\* not matter.
Work(K, O, P, Q) ==
  [s     : [mapBlockIndex : SUBSET K, pindexBest : K \cup P,
            mapOrphanBlocks : SUBSET O, setStakeSeenOrphan : SUBSET Q],
   queue : Seq(K),
   vInv  : Seq({BlockInv(b) : b \in K})]

\* AcceptBlock takes one more block into the index.
LEMMA AcceptedWork ==
  ASSUME NEW n, NEW K, NEW O, NEW P, NEW Q, NEW a \in Work(K, O, P, Q), NEW b \in K
  PROVE  AcceptBlock(n, a, b) \in Work(K, O, P, Q)
<1> DEFINE tip == nHeight(b) > nHeight(a.s.pindexBest) /\ Connects(n, a.s, b)
           t == [a.s EXCEPT !.mapBlockIndex = @ \cup {b},
                            !.pindexBest = IF tip THEN b ELSE @]
           V == {BlockInv(c) : c \in K}
           C == [mapBlockIndex : SUBSET K, pindexBest : K \cup P,
                 mapOrphanBlocks : SUBSET O, setStakeSeenOrphan : SUBSET Q]
<1>1. a.s \in C /\ a.queue \in Seq(K) /\ a.vInv \in Seq(V)
  BY DEF Work
<1>2. t \in C
  <2> HIDE DEF tip
  <2> QED BY <1>1
<1>3. Append(a.queue, b) \in Seq(K)
  BY <1>1
<1>4. Append(a.vInv, BlockInv(b)) \in Seq(V)
  <2>1. BlockInv(b) \in V
    OBVIOUS
  <2> HIDE DEF V
  <2> QED BY <1>1, <2>1
<1>5. AcceptBlock(n, a, b) =
        [s |-> t, queue |-> IF Connects(n, a.s, b) THEN Append(a.queue, b) ELSE a.queue,
         vInv |-> IF tip THEN Append(a.vInv, BlockInv(b)) ELSE a.vInv]
  BY Zenon DEF AcceptBlock
<1>6. Work(K, O, P, Q) = [s : C, queue : Seq(K), vInv : Seq(V)]
  BY DEF Work
<1> HIDE DEF C, V, t, tip
<1> QED
  BY <1>1, <1>2, <1>3, <1>4, <1>5, <1>6

\* An orphan is taken into the index and forgotten.
LEMMA OrphanWork ==
  ASSUME NEW n, NEW K, NEW O, NEW P, NEW Q, NEW a \in Work(K, O, P, Q), NEW o \in K
  PROVE  ProcessOrphan(n, a, o) \in Work(K, O, P, Q)
<1> DEFINE d == AcceptBlock(n, a, o)
           C == [mapBlockIndex : SUBSET K, pindexBest : K \cup P,
                 mapOrphanBlocks : SUBSET O, setStakeSeenOrphan : SUBSET Q]
<1>1. d \in Work(K, O, P, Q)
  BY AcceptedWork
<1> HIDE DEF d
<1>2. d.s \in C
  BY <1>1 DEF Work
<1>3. EraseOrphan(d.s, o) \in C
  BY <1>2 DEF EraseOrphan
<1>4. [d EXCEPT !.s = EraseOrphan(@, o)] = [d EXCEPT !.s = EraseOrphan(d.s, o)]
  BY <1>1 DEF Work
<1> HIDE DEF C
<1>5. [d EXCEPT !.s = EraseOrphan(d.s, o)] \in Work(K, O, P, Q)
  BY <1>1, <1>3 DEF Work, C
<1> QED
  BY <1>4, <1>5 DEF ProcessOrphan, d

\* A list of orphans is processed.
Children(n, a, os) == FoldLeft(LAMBDA c, o : ProcessOrphan(n, c, o), a, os)

\* It is what a function on the sets of positions, defined along their greatest
\* elements, has for all positions.
IsChildren(f, n, a, os, m) ==
  f = [s \in SUBSET (1..m) |->
         IF s = {} THEN a ELSE ProcessOrphan(n, f[s \ {Max(s)}], os[Max(s)])]

\* Such a function exists, and Children is its value for all positions.
LEMMA ChildrenFold ==
  ASSUME NEW n, NEW K, NEW O, NEW P, NEW Q, NEW a \in Work(K, O, P, Q),
         NEW m \in Nat, NEW os \in [1..m -> K]
  PROVE  \E f : IsChildren(f, n, a, os, m) /\ Children(n, a, os) = f[1..m]
<1> DEFINE T == [s \in SUBSET (1..m) |-> Work(K, O, P, Q)]
           F == [x \in Work(K, O, P, Q) \X (1..m) |-> ProcessOrphan(n, x[1], os[x[2]])]
           iter == CHOOSE f : f = [s \in SUBSET (1..m) |->
                     IF s = {} THEN a ELSE ProcessOrphan(n, f[s \ {Max(s)}], os[Max(s)])]
<1>0. \A i \in 1..m : os[i] \in K
  OBVIOUS
<1>1. ASSUME NEW x \in Work(K, O, P, Q), NEW i \in 1..m
      PROVE  F[<<x, i>>] = ProcessOrphan(n, x, os[i]) /\ F[<<x, i>>] \in Work(K, O, P, Q)
  BY <1>0, OrphanWork, Zenon
<1>2. \A s \in SUBSET (1..m) : T[s] = Work(K, O, P, Q) /\ s \ {Max(s)} \in SUBSET (1..m)
  OBVIOUS
<1>3. \A s \in SUBSET (1..m) : s # {} => Max(s) \in 1..m
  BY MaxIn
<1>4. PICK f : IsFold(f, 1..m, a, F) /\ \A s \in SUBSET (1..m) : f[s] \in T[s]
  <2> HIDE DEF T, F
  <2>1. a \in T[{}]
    BY <1>2
  <2>2. \A s \in SUBSET (1..m) : s # {} =>
          \A x \in T[s \ {Max(s)}] : F[<<x, Max(s)>>] \in T[s]
    BY <1>1, <1>2, <1>3
  <2> QED BY <2>1, <2>2, FoldExists
<1>5. f = [s \in SUBSET (1..m) |->
             IF s = {} THEN a ELSE ProcessOrphan(n, f[s \ {Max(s)}], os[Max(s)])]
  <2> HIDE DEF T, F
  <2>1. \A s \in SUBSET (1..m) : s # {} =>
          F[<<f[s \ {Max(s)}], Max(s)>>] = ProcessOrphan(n, f[s \ {Max(s)}], os[Max(s)])
    BY <1>1, <1>2, <1>3, <1>4, ZenonT(60)
  <2>2. f = [s \in SUBSET (1..m) |-> IF s = {} THEN a ELSE F[<<f[s \ {Max(s)}], Max(s)>>]]
    BY <1>4, Zenon DEF IsFold
  <2> QED BY <2>1, <2>2
<1>6. IsChildren(iter, n, a, os, m)
  BY <1>5, Zenon DEF IsChildren
<1>7. Children(n, a, os) = iter[1..m]
  BY Zenon DEF Children, FoldLeft, MapThenFoldSet
<1> QED
  BY <1>6, <1>7

\* The orphans that wait for one block.
LEMMA ChildrenWork ==
  ASSUME NEW n, NEW K, NEW O, IsFiniteSet(O), O \subseteq K, NEW P, NEW Q,
         NEW a \in Work(K, O, P, Q), NEW p
  PROVE  ProcessChildren(n, a, p) \in Work(K, O, P, Q)
<1> DEFINE S == {o \in a.s.mapOrphanBlocks : Prev[o] = p}
           m == Cardinality(S)
           os == SetToSeq(S)
           T == [s \in SUBSET (1..m) |-> Work(K, O, P, Q)]
<1>1. S \in SUBSET O
  BY DEF Work
<1>2. IsFiniteSet(S)
  BY <1>1, FS_Subset
<1>3. m \in Nat /\ os \in [1..m -> S]
  BY <1>2, ListedOnce, Zenon DEF IsListing
<1>4. ProcessChildren(n, a, p) = Children(n, a, os)
  BY Zenon DEF ProcessChildren, Children
<1> HIDE DEF S, m, os
<1>5. os \in [1..m -> K]
  BY <1>1, <1>3
<1>6. PICK f : IsChildren(f, n, a, os, m) /\ Children(n, a, os) = f[1..m]
  BY <1>3, <1>5, ChildrenFold
<1>7. f[{}] = a /\ \A s \in SUBSET (1..m) : s # {} =>
                     f[s] = ProcessOrphan(n, f[s \ {Max(s)}], os[Max(s)])
  BY <1>6 DEF IsChildren
<1>8. ASSUME NEW s \in SUBSET (1..m), s # {}, f[s \ {Max(s)}] \in T[s \ {Max(s)}]
      PROVE  f[s] \in T[s]
  <2>1. f[s \ {Max(s)}] \in Work(K, O, P, Q)
    BY <1>8
  <2>2. os[Max(s)] \in K
    BY <1>3, <1>5, <1>8, MaxIn
  <2>3. f[s] \in Work(K, O, P, Q)
    BY <1>7, <1>8, <2>1, <2>2, OrphanWork
  <2> QED BY <2>3
<1>9. f[{}] \in T[{}]
  BY <1>7
<1>10. f[1..m] \in T[1..m]
  <2> HIDE DEF T
  <2> QED BY <1>3, <1>8, <1>9, FoldKeeps
<1> QED
  BY <1>4, <1>6, <1>10

(***************************************************************************)
(* What holds of the work after the first i entries of the queue, while    *)
(* the orphans S have yet to be processed: the orphans and the index have  *)
(* no block in common and no stake stays behind, an orphan whose parent is *)
(* in the index is in S or waits for a later entry, unless the parent      *)
(* cannot be connected, and the queue and the orphans that are left are no *)
(* more than N.                                                            *)
(***************************************************************************)

Apart(s) ==
  /\ s.mapOrphanBlocks \cap s.mapBlockIndex = {}
  /\ s.setStakeSeenOrphan \subseteq {Stake[o] : o \in s.mapOrphanBlocks}

Queued(c, i, p) == \E j \in (i + 1)..Len(c.queue) : c.queue[j] = p

Attended(n, c, i, S) ==
  \A o \in c.s.mapOrphanBlocks :
    Prev[o] \in c.s.mapBlockIndex =>
      ~Connectable(n, Prev[o]) \/ Queued(c, i, Prev[o]) \/ o \in S

Progress(n, c, i, S, N) ==
  /\ Apart(c.s) /\ Attended(n, c, i, S)
  /\ Len(c.queue) + Cardinality(c.s.mapOrphanBlocks) <= N

\* What processing one orphan does to each part of the work.
Processed(n, c, o, d) ==
  /\ d.s.mapBlockIndex = c.s.mapBlockIndex \cup {o}
  /\ d.s.mapOrphanBlocks = c.s.mapOrphanBlocks \ {o}
  /\ d.s.setStakeSeenOrphan = c.s.setStakeSeenOrphan \ {Stake[o]}
  /\ d.queue = IF Connects(n, c.s, o) THEN Append(c.queue, o) ELSE c.queue

\* These are all of them.
LEMMA OrphanParts ==
  ASSUME NEW n, NEW K, NEW O, NEW P, NEW Q, NEW c \in Work(K, O, P, Q), NEW o \in K
  PROVE  Processed(n, c, o, ProcessOrphan(n, c, o))
<1> DEFINE e == AcceptBlock(n, c, o)
           tip == nHeight(o) > nHeight(c.s.pindexBest) /\ Connects(n, c.s, o)
           best == IF tip THEN o ELSE c.s.pindexBest
           q == IF Connects(n, c.s, o) THEN Append(c.queue, o) ELSE c.queue
           r == [mapBlockIndex |-> c.s.mapBlockIndex \cup {o}, pindexBest |-> best,
                 mapOrphanBlocks |-> c.s.mapOrphanBlocks,
                 setStakeSeenOrphan |-> c.s.setStakeSeenOrphan]
<1>1. IsChain(c.s)
  BY DEF Work, IsChain
<1>2. [c.s EXCEPT !.mapBlockIndex = @ \cup {o}, !.pindexBest = IF tip THEN o ELSE @] = r
  BY <1>1, IndexFields
<1>3. e.s = r /\ e.queue = q
  BY <1>2 DEF AcceptBlock
<1>4. e \in Work(K, O, P, Q)
  BY AcceptedWork
<1> HIDE DEF e, tip, q, best
<1>5. [e EXCEPT !.s = EraseOrphan(@, o)].queue = e.queue
  BY <1>4 DEF Work
<1>6. [e EXCEPT !.s = EraseOrphan(@, o)].s = EraseOrphan(e.s, o)
  BY <1>4 DEF Work
<1>7. EraseOrphan(r, o) =
        [mapBlockIndex |-> c.s.mapBlockIndex \cup {o}, pindexBest |-> best,
         mapOrphanBlocks |-> c.s.mapOrphanBlocks \ {o},
         setStakeSeenOrphan |-> c.s.setStakeSeenOrphan \ {Stake[o]}]
  <2>1. IsChain(r) /\ r.mapBlockIndex = c.s.mapBlockIndex \cup {o} /\ r.pindexBest = best
    BY DEF IsChain
  <2>2. EraseOrphan(r, o) =
          [r EXCEPT !.mapOrphanBlocks = c.s.mapOrphanBlocks \ {o},
                    !.setStakeSeenOrphan = c.s.setStakeSeenOrphan \ {Stake[o]}]
    BY DEF EraseOrphan
  <2> HIDE DEF r
  <2> QED BY <2>1, <2>2, OrphanFields
<1>8. /\ EraseOrphan(e.s, o).mapBlockIndex = c.s.mapBlockIndex \cup {o}
      /\ EraseOrphan(e.s, o).mapOrphanBlocks = c.s.mapOrphanBlocks \ {o}
      /\ EraseOrphan(e.s, o).setStakeSeenOrphan = c.s.setStakeSeenOrphan \ {Stake[o]}
  <2>1. EraseOrphan(e.s, o) = EraseOrphan(r, o)
    BY <1>3
  <2> QED BY <1>7, <2>1
<1>9. ProcessOrphan(n, c, o) = [e EXCEPT !.s = EraseOrphan(@, o)]
  BY Zenon DEF ProcessOrphan, e
<1> QED
  BY <1>3, <1>5, <1>6, <1>8, <1>9 DEF q, Processed

\* An orphan that has yet to be processed is.
LEMMA OrphanProgress ==
  ASSUME NEW n, NEW K, NEW O, IsFiniteSet(O), O \subseteq K, NEW P, NEW Q,
         NEW c \in Work(K, O, P, Q), NEW N \in Nat, NEW S, NEW i \in 1..Len(c.queue),
         NEW o \in c.s.mapOrphanBlocks, Progress(n, c, i, S, N)
  PROVE  /\ ProcessOrphan(n, c, o) \in Work(K, O, P, Q)
         /\ Progress(n, ProcessOrphan(n, c, o), i, S \ {o}, N)
         /\ i \in 1..Len(ProcessOrphan(n, c, o).queue)
         /\ Processed(n, c, o, ProcessOrphan(n, c, o))
<1> DEFINE d == ProcessOrphan(n, c, o)
           B == c.s.mapOrphanBlocks
<1>0. B \in SUBSET O /\ o \in K /\ c.queue \in Seq(K) /\ Len(c.queue) \in Nat
  BY DEF Work
<1>1. d \in Work(K, O, P, Q)
  BY <1>0, OrphanWork
<1>2. /\ d.s.mapBlockIndex = c.s.mapBlockIndex \cup {o}
      /\ d.s.mapOrphanBlocks = B \ {o}
      /\ d.s.setStakeSeenOrphan = c.s.setStakeSeenOrphan \ {Stake[o]}
      /\ d.queue = IF Connects(n, c.s, o) THEN Append(c.queue, o) ELSE c.queue
  <2>1. Processed(n, c, o, d)
    BY <1>0, OrphanParts
  <2> HIDE DEF d
  <2> QED BY <2>1 DEF Processed
<1> HIDE DEF d
<1>3. Apart(d.s)
  BY <1>2 DEF Progress, Apart
<1>4. IsFiniteSet(B) /\ Cardinality(B) \in Nat /\ Cardinality(B \ {o}) = Cardinality(B) - 1
  BY <1>0, FS_Subset, FS_CardinalityType, FS_RemoveElement, SMTT(60)
<1>5. /\ Len(c.queue) <= Len(d.queue) /\ Len(d.queue) <= Len(c.queue) + 1
      /\ Len(d.queue) \in Nat
      /\ \A j \in 1..Len(c.queue) : d.queue[j] = c.queue[j]
      /\ Connects(n, c.s, o) => Len(d.queue) = Len(c.queue) + 1 /\ d.queue[Len(d.queue)] = o
  <2> HIDE DEF B
  <2> QED BY <1>0, <1>2
<1>6. Len(d.queue) + Cardinality(d.s.mapOrphanBlocks) <= N
  BY <1>0, <1>2, <1>4, <1>5 DEF Progress
<1>7. ASSUME NEW x \in d.s.mapOrphanBlocks, Prev[x] \in d.s.mapBlockIndex
      PROVE  ~Connectable(n, Prev[x]) \/ Queued(d, i, Prev[x]) \/ x \in S \ {o}
  <2>1. x \in B /\ x # o
    BY <1>2
  <2>2. CASE Prev[x] \in c.s.mapBlockIndex
    <3>1. ~Connectable(n, Prev[x]) \/ Queued(c, i, Prev[x]) \/ x \in S
      BY <2>1, <2>2 DEF Progress, Attended
    <3>2. Queued(c, i, Prev[x]) => Queued(d, i, Prev[x])
      BY <1>0, <1>5 DEF Queued
    <3> QED BY <2>1, <3>1, <3>2
  <2>3. CASE Prev[x] = o
    <3>1. CASE Connects(n, c.s, o)
      <4>1. Len(d.queue) \in (i + 1)..Len(d.queue)
        BY <1>0, <1>5, <3>1
      <4> QED BY <1>5, <2>3, <3>1, <4>1 DEF Queued
    <3>2. CASE ~Connects(n, c.s, o)
      BY <2>3, <3>2 DEF Connects
    <3> QED BY <3>1, <3>2
  <2> QED BY <1>2, <1>7, <2>2, <2>3
<1>8. i \in 1..Len(d.queue)
  BY <1>0, <1>5
<1> QED
  BY <1>0, <1>1, <1>3, <1>6, <1>7, <1>8, OrphanParts DEF d, Progress, Attended

\* All the orphans that wait for an entry of the queue are processed: each is
\* still an orphan when its turn comes, since none of them is listed twice.
LEMMA ChildrenProgress ==
  ASSUME NEW n, NEW K, NEW O, IsFiniteSet(O), O \subseteq K, NEW P, NEW Q,
         NEW a \in Work(K, O, P, Q), NEW N \in Nat, NEW i \in 1..Len(a.queue),
         NEW S, S = {o \in a.s.mapOrphanBlocks : Prev[o] = a.queue[i]},
         Progress(n, a, i, S, N)
  PROVE  /\ ProcessChildren(n, a, a.queue[i]) \in Work(K, O, P, Q)
         /\ Progress(n, ProcessChildren(n, a, a.queue[i]), i, {}, N)
<1> DEFINE m == Cardinality(S)
           os == SetToSeq(S)
           Left(s) == {os[j] : j \in (1..m) \ s}
           T == [s \in SUBSET (1..m) |->
                   {c \in Work(K, O, P, Q) :
                      /\ Progress(n, c, i, Left(s), N) /\ i \in 1..Len(c.queue)
                      /\ Left(s) \subseteq c.s.mapOrphanBlocks}]
<1>1. S \in SUBSET O /\ S \subseteq a.s.mapOrphanBlocks
  BY DEF Work
<1>2. IsFiniteSet(S)
  BY <1>1, FS_Subset
<1>3. /\ m \in Nat /\ os \in [1..m -> S]
      /\ \A j, k \in 1..m : os[j] = os[k] => j = k
      /\ \A x \in S : \E j \in 1..m : os[j] = x
  <2>1. IsListing(os, m, S)
    BY <1>2, ListedOnce
  <2> HIDE DEF os, m
  <2> QED BY <2>1, Zenon DEF IsListing
<1>4. ProcessChildren(n, a, a.queue[i]) = Children(n, a, os)
  BY Zenon DEF ProcessChildren, Children
<1> HIDE DEF m, os
<1>5. os \in [1..m -> K]
  BY <1>1, <1>3
<1>6. PICK f : IsChildren(f, n, a, os, m) /\ Children(n, a, os) = f[1..m]
  BY <1>3, <1>5, ChildrenFold
<1>7. f[{}] = a /\ \A s \in SUBSET (1..m) : s # {} =>
                     f[s] = ProcessOrphan(n, f[s \ {Max(s)}], os[Max(s)])
  BY <1>6 DEF IsChildren
<1>8. f[{}] \in T[{}]
  <2>1. Left({}) = S
    BY <1>3
  <2> HIDE DEF Left
  <2> QED BY <1>1, <1>7, <2>1
<1>9. ASSUME NEW s \in SUBSET (1..m), s # {}, f[s \ {Max(s)}] \in T[s \ {Max(s)}]
      PROVE  f[s] \in T[s]
  <2> DEFINE c == f[s \ {Max(s)}]
             o == os[Max(s)]
             L == Left(s \ {Max(s)})
  <2>1. Max(s) \in s /\ Max(s) \in 1..m
    BY <1>3, <1>9, MaxIn
  <2>2. o \in L /\ Left(s) = L \ {o}
    BY <1>3, <2>1
  <2>3. /\ c \in Work(K, O, P, Q) /\ Progress(n, c, i, L, N)
        /\ i \in 1..Len(c.queue) /\ L \subseteq c.s.mapOrphanBlocks
    <3> HIDE DEF Left
    <3> QED BY <1>9
  <2>4. f[s] = ProcessOrphan(n, c, o)
    BY <1>7, <1>9
  <2> HIDE DEF c, o, L, Left
  <2>5. o \in c.s.mapOrphanBlocks
    BY <2>2, <2>3
  <2>6. /\ f[s] \in Work(K, O, P, Q) /\ Progress(n, f[s], i, Left(s), N)
        /\ i \in 1..Len(f[s].queue) /\ f[s].s.mapOrphanBlocks = c.s.mapOrphanBlocks \ {o}
    <3>1. LET d == ProcessOrphan(n, c, o) IN
            /\ d \in Work(K, O, P, Q) /\ Progress(n, d, i, L \ {o}, N)
            /\ i \in 1..Len(d.queue) /\ Processed(n, c, o, d)
      BY <2>3, <2>5, OrphanProgress, Zenon
    <3>2. /\ f[s] \in Work(K, O, P, Q) /\ Progress(n, f[s], i, L \ {o}, N)
          /\ i \in 1..Len(f[s].queue) /\ Processed(n, c, o, f[s])
      BY <2>4, <3>1, Zenon
    <3> QED BY <2>2, <3>2 DEF Processed
  <2>7. Left(s) \subseteq f[s].s.mapOrphanBlocks
    BY <2>2, <2>3, <2>6
  <2> QED BY <2>6, <2>7
<1>10. f[1..m] \in T[1..m]
  <2> HIDE DEF T
  <2> QED BY <1>3, <1>8, <1>9, FoldKeeps
<1>11. Left(1..m) = {}
  OBVIOUS
<1> HIDE DEF Left
<1> QED
  BY <1>4, <1>6, <1>10, <1>11

\* One entry of the work queue.
Entry(n, c, i) == IF i > Len(c.queue) THEN c ELSE ProcessChildren(n, c, c.queue[i])

\* An entry leaves no orphan behind that waits for it.
LEMMA EntryProgress ==
  ASSUME NEW n, NEW K, NEW O, IsFiniteSet(O), O \subseteq K, NEW P, NEW Q,
         NEW c \in Work(K, O, P, Q), NEW N \in Nat, NEW i \in Nat \ {0},
         Progress(n, c, i - 1, {}, N)
  PROVE  Entry(n, c, i) \in Work(K, O, P, Q) /\ Progress(n, Entry(n, c, i), i, {}, N)
<1>0. Len(c.queue) \in Nat
  BY DEF Work
<1>1. CASE i > Len(c.queue)
  <2>1. Entry(n, c, i) = c
    BY <1>1 DEF Entry
  <2>2. \A p : Queued(c, i - 1, p) => FALSE
    BY <1>0, <1>1 DEF Queued
  <2> QED BY <2>1, <2>2 DEF Progress, Attended
<1>2. CASE ~(i > Len(c.queue))
  <2> DEFINE S == {o \in c.s.mapOrphanBlocks : Prev[o] = c.queue[i]}
  <2>1. i \in 1..Len(c.queue)
    BY <1>0, <1>2
  <2>2. \A p : Queued(c, i - 1, p) => Queued(c, i, p) \/ p = c.queue[i]
    BY <1>0, <2>1 DEF Queued
  <2>3. Attended(n, c, i, S)
    BY <2>2 DEF Progress, Attended
  <2>4. Progress(n, c, i, S, N)
    <3> HIDE DEF S
    <3> QED BY <2>3 DEF Progress
  <2>5. Entry(n, c, i) = ProcessChildren(n, c, c.queue[i])
    BY <1>2 DEF Entry
  <2> QED BY <2>1, <2>4, <2>5, ChildrenProgress
<1> QED
  BY <1>1, <1>2

\* The whole work queue.  It is never longer than the bound, so none of its
\* entries is left.
LEMMA QueueProgress ==
  ASSUME NEW n, NEW K, NEW O, IsFiniteSet(O), O \subseteq K, NEW P, NEW Q,
         NEW a \in Work(K, O, P, Q), a.s.mapOrphanBlocks = O,
         Progress(n, a, 0, {}, 1 + Cardinality(O))
  PROVE  LET c == ProcessOrphans(n, a) IN
           /\ c \in Work(K, O, P, Q) /\ Apart(c.s)
           /\ \A o \in c.s.mapOrphanBlocks :
                Prev[o] \in c.s.mapBlockIndex => ~Connectable(n, Prev[o])
<1> DEFINE N == 1 + Cardinality(O)
           W == Work(K, O, P, Q)
           F == [x \in W \X (1..N) |-> Entry(n, x[1], x[2])]
           after == CHOOSE f : f = [i \in 0..N |-> IF i = 0 THEN a ELSE Entry(n, f[i - 1], i)]
           H == {i \in 0..N : after[i] \in W /\ Progress(n, after[i], i, {}, N)}
<1>1. N \in Nat /\ 0 <= N
  BY FS_CardinalityType
<1>2. Progress(n, a, 0, {}, N)
  OBVIOUS
<1>3. ProcessOrphans(n, a) = after[N]
  BY Zenon DEF ProcessOrphans, Entry
<1> HIDE DEF N
<1>4. \A c \in W, i \in 1..N : Entry(n, c, i) \in W
  BY ChildrenWork DEF Entry
<1>5. a \in W
  OBVIOUS
<1> HIDE DEF W
<1>6. \A c \in W, i \in 1..N : F[<<c, i>>] = Entry(n, c, i) /\ F[<<c, i>>] \in W
  BY <1>4, Zenon
<1>7. \A i \in (0 + 1)..N : i \in 1..N /\ i # 0 /\ i \in 0..N
  BY <1>1
<1>8. PICK f : IsRecursion(f, 0, N, a, F) /\ f \in [0..N -> W]
  <2> HIDE DEF F
  <2>1. \A i \in (0 + 1)..N : \A x \in W : F[<<x, i>>] \in W
    BY <1>6, <1>7
  <2> QED BY <1>1, <1>5, <2>1, RecursionExists
<1>9. f = [i \in 0..N |-> IF i = 0 THEN a ELSE Entry(n, f[i - 1], i)]
  <2> HIDE DEF F
  <2>1. f = [i \in 0..N |-> IF i = 0 THEN a ELSE F[<<f[i - 1], i>>]]
    BY <1>8, Zenon DEF IsRecursion
  <2>2. ASSUME NEW i \in 0..N, i # 0 PROVE F[<<f[i - 1], i>>] = Entry(n, f[i - 1], i)
    <3>1. i - 1 \in 0..N /\ i \in 1..N
      BY <1>1, <2>2
    <3>2. f[i - 1] \in W
      BY <1>8, <3>1
    <3> QED BY <1>6, <3>1, <3>2, Zenon
  <2> QED BY <2>1, <2>2
<1>10. after = [i \in 0..N |-> IF i = 0 THEN a ELSE Entry(n, after[i - 1], i)]
  BY <1>9, Zenon
<1> HIDE DEF after
<1>11. 0 \in H
  BY <1>1, <1>2, <1>5, <1>10
<1>12. ASSUME NEW k \in 0..N, k # N, k \in H PROVE k + 1 \in H
  <2>1. k + 1 \in 0..N /\ k + 1 \in Nat \ {0} /\ (k + 1) - 1 = k
    BY <1>1, <1>12
  <2>2. after[k + 1] = Entry(n, after[k], k + 1)
    BY <1>10, <2>1
  <2>3. after[k] \in W /\ Progress(n, after[k], (k + 1) - 1, {}, N)
    BY <1>12, <2>1
  <2>4. after[k + 1] \in W /\ Progress(n, after[k + 1], k + 1, {}, N)
    <3>1. /\ Entry(n, after[k], k + 1) \in W
          /\ Progress(n, Entry(n, after[k], k + 1), k + 1, {}, N)
      BY <1>1, <2>1, <2>3, EntryProgress, Zenon DEF W
    <3> QED BY <2>2, <3>1
  <2> QED BY <2>1, <2>4
<1>13. N \in H
  <2> HIDE DEF H
  <2> QED BY <1>1, <1>11, <1>12, UpTo
<1> DEFINE c == after[N]
<1>14. c \in W /\ Progress(n, c, N, {}, N)
  BY <1>13
<1> HIDE DEF c, H
<1>15. Len(c.queue) \in Nat /\ Cardinality(c.s.mapOrphanBlocks) \in Nat
  <2>1. c.queue \in Seq(K) /\ c.s.mapOrphanBlocks \in SUBSET O
    BY <1>14 DEF W, Work
  <2> QED BY <2>1, FS_Subset, FS_CardinalityType
<1>16. \A p : ~Queued(c, N, p)
  BY <1>1, <1>14, <1>15 DEF Progress, Queued
<1>17. \A o \in c.s.mapOrphanBlocks :
         Prev[o] \in c.s.mapBlockIndex => ~Connectable(n, Prev[o])
  BY <1>14, <1>16 DEF Progress, Attended
<1> QED
  BY <1>3, <1>14, <1>17 DEF c, W, Progress

(***************************************************************************)
(* The invariant.                                                          *)
(***************************************************************************)

\* The fields of a node's hashes.
IsHashes(h) == h = [mapPoWCache |-> h.mapPoWCache, mapSigCache |-> h.mapSigCache]

\* Every node: what OrphansConsistent says, and the orphans are finitely many.
Kept(n, s) ==
  /\ IsChain(s) /\ IsFiniteSet(s.mapOrphanBlocks) /\ Apart(s)
  /\ \A o \in s.mapOrphanBlocks : Prev[o] \in s.mapBlockIndex => ~Connectable(n, Prev[o])

\* A node without scratchpads: it computed no hash, and what it keeps beyond the
\* blocks it started with was signed.
SignedOnly(n, s, h) ==
  n \notin Hashing =>
    /\ IsHashes(h) /\ h.mapPoWCache \subseteq h.mapSigCache
    /\ s.mapBlockIndex \cup s.mapOrphanBlocks \subseteq h.mapSigCache \cup Known[n]

SyncInv ==
  /\ chain = [n \in Nodes |-> chain[n]] /\ hashes = [n \in Nodes |-> hashes[n]]
  /\ \A n \in Nodes : Kept(n, chain[n]) /\ SignedOnly(n, chain[n], hashes[n])

\* At the end of a handler the invariant only has to hold of the node it ran on.
LEMMA BecomeKeeps ==
  ASSUME SyncInv, NEW n \in Nodes, NEW s, NEW h, NEW k, NEW rest,
         Become(n, s, h, k, rest), Kept(n, s), SignedOnly(n, s, h)
  PROVE  SyncInv'
<1>1. /\ chain' = [m \in Nodes |-> IF m = n THEN s ELSE chain[m]]
      /\ hashes' = [m \in Nodes |-> IF m = n THEN h ELSE hashes[m]]
  BY DEF SyncInv, Become
<1>2. ASSUME NEW m \in Nodes
      PROVE  Kept(m, chain'[m]) /\ SignedOnly(m, chain'[m], hashes'[m])
  <2>1. CASE m = n
    BY <1>1, <2>1
  <2>2. CASE m # n
    <3>1. chain'[m] = chain[m] /\ hashes'[m] = hashes[m]
      BY <1>1, <2>2
    <3>2. Kept(m, chain[m]) /\ SignedOnly(m, chain[m], hashes[m])
      BY DEF SyncInv
    <3> QED BY <3>1, <3>2
  <2> QED BY <2>1, <2>2
<1>3. \A m \in Nodes : Kept(m, chain'[m]) /\ SignedOnly(m, chain'[m], hashes'[m])
  BY <1>2
<1>4. chain' = [m \in Nodes |-> chain'[m]] /\ hashes' = [m \in Nodes |-> hashes'[m]]
  BY <1>1
<1> QED
  BY <1>3, <1>4, Zenon DEF SyncInv, Kept, Apart, SignedOnly, IsChain, IsHashes, Connectable,
     ChainTo, ToSet

\* One more signed hash does no harm.
LEMMA SignedKeeps ==
  ASSUME NEW n, NEW s, NEW h, SignedOnly(n, s, h), NEW b
  PROVE  SignedOnly(n, s, UncheckedAddSignedHash(h, b))
<1> SUFFICES ASSUME n \notin Hashing PROVE SignedOnly(n, s, UncheckedAddSignedHash(h, b))
  BY DEF SignedOnly
<1>1. UncheckedAddSignedHash(h, b) =
        [mapPoWCache |-> h.mapPoWCache, mapSigCache |-> h.mapSigCache \cup {b}]
  BY DEF SignedOnly, IsHashes, UncheckedAddSignedHash
<1> QED
  BY <1>1 DEF SignedOnly, IsHashes

\* A hash that was signed is not computed, so CheckBlock leaves the hashes alone.
LEMMA HashedKeeps ==
  ASSUME NEW n, n \notin Hashing, NEW s, NEW h, SignedOnly(n, s, h), NEW b \in h.mapSigCache
  PROVE  Hashed(n, h, b) = h /\ SignHashes(h, {}) = h
<1>1. ComputeHashes(h, {b}) =
        [mapPoWCache |-> h.mapPoWCache \cup ({b} \ h.mapSigCache),
         mapSigCache |-> h.mapSigCache]
  BY DEF SignedOnly, IsHashes, ComputeHashes
<1>2. ComputeHashes(h, {}) =
        [mapPoWCache |-> h.mapPoWCache \cup ({} \ h.mapSigCache),
         mapSigCache |-> h.mapSigCache]
  BY DEF SignedOnly, IsHashes, ComputeHashes
<1>3. /\ h.mapPoWCache \cup ({b} \ h.mapSigCache) = h.mapPoWCache
      /\ h.mapPoWCache \cup ({} \ h.mapSigCache) = h.mapPoWCache
      /\ h.mapSigCache \cup {} = h.mapSigCache
  OBVIOUS
<1>4. ComputeHashes(h, {b}) = h /\ ComputeHashes(h, {}) = h
  BY <1>1, <1>2, <1>3 DEF SignedOnly, IsHashes
<1>5. [h EXCEPT !.mapSigCache = @ \cup {}] = h
  BY <1>3 DEF SignedOnly, IsHashes
<1> QED
  BY <1>4, <1>5 DEF Hashed, SignHashes

\* What a new block and the orphans that waited for it do to a node.
LEMMA AcceptKeeps ==
  ASSUME NEW n, NEW s, Kept(n, s), NEW b, b \notin s.mapBlockIndex \cup s.mapOrphanBlocks
  PROVE  LET a == AcceptBlock(n, [s |-> s, queue |-> <<>>, vInv |-> <<>>], b)
             c == IF Connects(n, s, b) THEN ProcessOrphans(n, a) ELSE a
         IN /\ Kept(n, c.s)
            /\ c.s.mapBlockIndex \cup c.s.mapOrphanBlocks
                 \subseteq s.mapBlockIndex \cup s.mapOrphanBlocks \cup {b}
<1> DEFINE K == s.mapBlockIndex \cup s.mapOrphanBlocks \cup {b}
           O == s.mapOrphanBlocks
           P == {s.pindexBest}
           Q == s.setStakeSeenOrphan
           start == [s |-> s, queue |-> <<>>, vInv |-> <<>>]
           a == AcceptBlock(n, start, b)
           tip == nHeight(b) > nHeight(s.pindexBest) /\ Connects(n, s, b)
           r == [mapBlockIndex |-> s.mapBlockIndex \cup {b},
                 pindexBest |-> IF tip THEN b ELSE s.pindexBest,
                 mapOrphanBlocks |-> O, setStakeSeenOrphan |-> Q]
           N == 1 + Cardinality(O)
<1>1. start \in Work(K, O, P, Q)
  <2>1. s \in [mapBlockIndex : SUBSET K, pindexBest : K \cup P,
               mapOrphanBlocks : SUBSET O, setStakeSeenOrphan : SUBSET Q]
    <3>1. /\ s.mapBlockIndex \in SUBSET K /\ s.pindexBest \in K \cup P
          /\ s.mapOrphanBlocks \in SUBSET O /\ s.setStakeSeenOrphan \in SUBSET Q
      OBVIOUS
    <3> HIDE DEF K, O, P, Q
    <3> QED BY <3>1 DEF Kept, IsChain
  <2>2. <<>> \in Seq(K) /\ <<>> \in Seq({BlockInv(c) : c \in K})
    OBVIOUS
  <2> HIDE DEF K, O, P, Q
  <2> QED BY <2>1, <2>2 DEF Work
<1>2. IsFiniteSet(O) /\ O \subseteq K /\ b \in K /\ Cardinality(O) \in Nat
  BY FS_CardinalityType DEF Kept
<1>3. a \in Work(K, O, P, Q)
  <2> HIDE DEF K, O, P, Q, start
  <2> QED BY <1>1, <1>2, AcceptedWork
<1>4. /\ a.s = r
      /\ a.queue = IF Connects(n, s, b) THEN <<b>> ELSE <<>>
  <2>1. [s EXCEPT !.mapBlockIndex = @ \cup {b}, !.pindexBest = IF tip THEN b ELSE @] = r
    BY IndexFields DEF Kept
  <2>2. Append(<<>>, b) = <<b>>
    OBVIOUS
  <2>3. a.s = [s EXCEPT !.mapBlockIndex = @ \cup {b}, !.pindexBest = IF tip THEN b ELSE @]
    BY DEF AcceptBlock
  <2>4. a.queue = IF Connects(n, s, b) THEN Append(<<>>, b) ELSE <<>>
    BY DEF AcceptBlock
  <2> HIDE DEF a, r, tip
  <2> QED BY <2>1, <2>2, <2>3, <2>4
<1> HIDE DEF a, tip, start
<1>5. /\ a.s.mapBlockIndex = s.mapBlockIndex \cup {b} /\ a.s.mapOrphanBlocks = O
      /\ a.s.setStakeSeenOrphan = Q
  BY <1>4
<1> HIDE DEF r
<1>6. Apart(a.s)
  BY <1>5 DEF Kept, Apart
<1>7. ASSUME NEW c \in Work(K, O, P, Q), Apart(c.s),
             \A o \in c.s.mapOrphanBlocks :
               Prev[o] \in c.s.mapBlockIndex => ~Connectable(n, Prev[o])
      PROVE  Kept(n, c.s) /\ c.s.mapBlockIndex \cup c.s.mapOrphanBlocks \subseteq K
  <2> HIDE DEF K, O, P, Q
  <2>1. IsChain(c.s) /\ c.s.mapBlockIndex \in SUBSET K /\ c.s.mapOrphanBlocks \in SUBSET O
    BY DEF Work, IsChain
  <2>2. IsFiniteSet(c.s.mapOrphanBlocks)
    BY <1>2, <2>1, FS_Subset
  <2> QED BY <1>2, <1>7, <2>1, <2>2 DEF Kept
<1>8. CASE ~Connects(n, s, b)
  <2>1. ASSUME NEW o \in a.s.mapOrphanBlocks, Prev[o] \in a.s.mapBlockIndex
        PROVE  ~Connectable(n, Prev[o])
    <3>1. CASE Prev[o] = b
      BY <1>8, <3>1 DEF Connects
    <3>2. CASE Prev[o] \in s.mapBlockIndex
      BY <1>5, <3>2 DEF Kept
    <3> QED BY <1>5, <2>1, <3>1, <3>2
  <2> QED BY <1>3, <1>6, <1>7, <1>8, <2>1 DEF a, start
<1>9. CASE Connects(n, s, b)
  <2>1. a.queue = <<b>> /\ Len(a.queue) = 1 /\ a.queue[1] = b
    BY <1>4, <1>9
  <2>2. Attended(n, a, 0, {})
    <3>1. ASSUME NEW o \in a.s.mapOrphanBlocks, Prev[o] \in a.s.mapBlockIndex
          PROVE  ~Connectable(n, Prev[o]) \/ Queued(a, 0, Prev[o])
      <4>1. CASE Prev[o] = b
        <5>1. 1 \in (0 + 1)..Len(a.queue)
          BY <2>1
        <5> QED BY <2>1, <4>1, <5>1 DEF Queued
      <4>2. CASE Prev[o] \in s.mapBlockIndex
        BY <1>5, <4>2 DEF Kept
      <4> QED BY <1>5, <3>1, <4>1, <4>2
    <3> QED BY <3>1 DEF Attended
  <2>3. Progress(n, a, 0, {}, 1 + Cardinality(O))
    BY <1>2, <1>5, <1>6, <2>1, <2>2 DEF Progress
  <2> DEFINE c == ProcessOrphans(n, a)
  <2> HIDE DEF K, O, P, Q
  <2>4. /\ c \in Work(K, O, P, Q) /\ Apart(c.s)
        /\ \A o \in c.s.mapOrphanBlocks :
             Prev[o] \in c.s.mapBlockIndex => ~Connectable(n, Prev[o])
    BY <1>2, <1>3, <1>5, <2>3, QueueProgress
  <2> HIDE DEF c
  <2>5. Kept(n, c.s) /\ c.s.mapBlockIndex \cup c.s.mapOrphanBlocks \subseteq K
    BY <1>7, <2>4
  <2> QED BY <1>9, <2>5 DEF c, a, start, K
<1> QED
  BY <1>8, <1>9

\* ProcessBlock, of a block whose hash was signed if the node has no scratchpads.
LEMMA ProcessBlockKeeps ==
  ASSUME SyncInv, NEW n \in Nodes, NEW b, NEW k, NEW rest, ProcessBlock(n, b, k, rest),
         n \notin Hashing => b \in hashes[n].mapSigCache
  PROVE  SyncInv'
<1> DEFINE s == chain[n]
           h == hashes[n]
<1>1. Kept(n, s) /\ SignedOnly(n, s, h)
  BY DEF SyncInv
<1>2. n \notin Hashing => Hashed(n, h, b) = h /\ SignHashes(h, {}) = h
  BY <1>1, HashedKeeps
\* Whatever blocks the node has then, if there is no other than b among them.
<1>3. ASSUME NEW t, NEW sign, n \notin Hashing => sign = {},
             t.mapBlockIndex \cup t.mapOrphanBlocks
               \subseteq s.mapBlockIndex \cup s.mapOrphanBlocks \cup {b}
      PROVE  SignedOnly(n, t, Hashed(n, h, b))
             /\ SignedOnly(n, t, SignHashes(Hashed(n, h, b), sign))
  <2> SUFFICES ASSUME n \notin Hashing PROVE SignedOnly(n, t, h)
    BY <1>2, <1>3 DEF SignedOnly
  <2> HIDE DEF s
  <2> QED BY <1>1, <1>3 DEF SignedOnly
<1>4. CASE ProcessBlockRefused(n, b, k, rest)
  BY <1>1, <1>4, BecomeKeeps DEF ProcessBlockRefused
<1>5. CASE ProcessBlockOrphan(n, b, k, rest)
  <2> DEFINE t == AddOrphan(s, b)
             O == s.mapOrphanBlocks \cup {b}
             Q == s.setStakeSeenOrphan \cup ({Stake[b]} \ {NoStake})
  <2>1. PICK q : Become(n, t, Hashed(n, h, b), q, rest)
    BY <1>5, Zenon DEF ProcessBlockOrphan
  <2>2. b \notin s.mapBlockIndex /\ Prev[b] \notin s.mapBlockIndex
    BY <1>5 DEF ProcessBlockOrphan, Refused
  <2>3. t = [mapBlockIndex |-> s.mapBlockIndex, pindexBest |-> s.pindexBest,
             mapOrphanBlocks |-> O, setStakeSeenOrphan |-> Q]
    <3>1. IsChain(s)
      BY <1>1 DEF Kept
    <3>2. t = [s EXCEPT !.mapOrphanBlocks = O, !.setStakeSeenOrphan = Q]
      <4> HIDE DEF s
      <4> QED BY <3>1 DEF AddOrphan, IsChain
    <3> HIDE DEF s, O, Q, t
    <3> QED BY <3>1, <3>2, OrphanFields
  <2> HIDE DEF t
  <2>4. /\ IsChain(t) /\ t.mapBlockIndex = s.mapBlockIndex
        /\ t.mapOrphanBlocks = O /\ t.setStakeSeenOrphan = Q
    <3> HIDE DEF s, O, Q
    <3> QED BY <2>3 DEF IsChain
  <2>5. IsFiniteSet(O)
    BY <1>1, FS_AddElement DEF Kept
  <2>6. Apart(t)
    <3> HIDE DEF s
    <3> QED BY <1>1, <2>2, <2>4 DEF Kept, Apart
  <2>7. \A o \in O : Prev[o] \in t.mapBlockIndex => ~Connectable(n, Prev[o])
    <3> HIDE DEF s
    <3> QED BY <1>1, <2>2, <2>4 DEF Kept
  <2>8. Kept(n, t)
    BY <2>4, <2>5, <2>6, <2>7 DEF Kept
  <2>9. SignedOnly(n, t, Hashed(n, h, b))
    <3> HIDE DEF s, h
    <3> QED BY <1>3, <2>4
  <2> QED BY <2>1, <2>8, <2>9, BecomeKeeps
<1>6. CASE ProcessBlockDuplicateOrphan(n, b, k, rest)
  <2>1. Become(n, s, Hashed(n, h, b), k, rest)
    BY <1>6, Zenon DEF ProcessBlockDuplicateOrphan
  <2>2. SignedOnly(n, s, Hashed(n, h, b))
    <3> HIDE DEF s, h
    <3> QED BY <1>3
  <2> QED BY <1>1, <2>1, <2>2, BecomeKeeps
<1>7. CASE ProcessBlockAccept(n, b, k, rest)
  <2> DEFINE a == AcceptBlock(n, [s |-> s, queue |-> <<>>, vInv |-> <<>>], b)
             c == IF Connects(n, s, b) THEN ProcessOrphans(n, a) ELSE a
             sign == IF n \in Signing /\ Connects(n, s, b) THEN {b} ELSE {}
  <2>1. PICK q : Become(n, c.s, SignHashes(Hashed(n, h, b), sign), q, rest)
    BY <1>7, Zenon DEF ProcessBlockAccept
  <2>2. b \notin s.mapBlockIndex \cup s.mapOrphanBlocks
    BY <1>7 DEF ProcessBlockAccept, Refused
  <2>3. n \notin Hashing => sign = {}
    BY SyncAssumption
  <2>4. Kept(n, c.s) /\ c.s.mapBlockIndex \cup c.s.mapOrphanBlocks
                          \subseteq s.mapBlockIndex \cup s.mapOrphanBlocks \cup {b}
    <3> HIDE DEF s
    <3> QED BY <1>1, <2>2, AcceptKeeps
  <2> HIDE DEF a, c, sign
  <2>5. SignedOnly(n, c.s, SignHashes(Hashed(n, h, b), sign))
    <3> HIDE DEF s, h
    <3> QED BY <1>3, <2>3, <2>4
  <2> QED BY <2>1, <2>4, <2>5, BecomeKeeps
<1> QED
  BY <1>4, <1>5, <1>6, <1>7 DEF ProcessBlock

\* A node without scratchpads signs nothing when it is asked for signed hashes.
LEMMA RequestedKeeps ==
  ASSUME NEW n \in Nodes, NEW s, NEW h, SignedOnly(n, s, h), NEW S
  PROVE  SignedOnly(n, s, Requested(n, h, S))
  BY SyncAssumption DEF Requested, SignedOnly

\* No message makes the node keep a block that was not signed.
LEMMA MessageKeeps ==
  ASSUME SyncInv, NEW n \in Nodes, ProcessMessage(n)
  PROVE  SyncInv'
<1>1. Kept(n, chain[n]) /\ SignedOnly(n, chain[n], hashes[n])
  BY DEF SyncInv
<1>2. CASE HandleVersion(n)
  <2>1. PICK k : Become(n, chain[n], hashes[n], k, Tail(net[n]))
    BY <1>2, Zenon DEF HandleVersion, Reply
  <2> QED BY <1>1, <2>1, BecomeKeeps
<1>3. CASE HandleInv(n)
  <2>1. PICK k : Become(n, chain[n], hashes[n], k, Tail(net[n]))
    BY <1>3, Zenon DEF HandleInv, Reply
  <2> QED BY <1>1, <2>1, BecomeKeeps
<1>4. CASE HandleGetData(n)
  <2>1. PICK k : Become(n, chain[n], hashes[n], k, Tail(net[n]))
    BY <1>4, Zenon DEF HandleGetData, Reply
  <2> QED BY <1>1, <2>1, BecomeKeeps
<1>5. CASE HandleGetBlocks(n)
  <2>1. PICK S, k : Become(n, chain[n], Requested(n, hashes[n], S), k, Tail(net[n]))
    BY <1>5, Zenon DEF HandleGetBlocks, Reply
  <2> QED BY <1>1, <2>1, BecomeKeeps, RequestedKeeps
<1>6. CASE HandleBlock(n)
  <2> DEFINE b == Head(net[n]).hash
             gated == n \notin Hashing /\ ~GetPoWHash(hashes[n], b)
  <2>1. CASE gated
    <3>1. PICK k : Become(n, chain[n], hashes[n], k, Tail(net[n]))
      BY <1>6, <2>1, Zenon DEF HandleBlock, Reply
    <3> QED BY <1>1, <3>1, BecomeKeeps
  <2>2. CASE ~gated
    <3>1. PICK k : ProcessBlock(n, b, k, Tail(net[n]))
      BY <1>6, <2>2, Zenon DEF HandleBlock
    <3>2. n \notin Hashing => b \in hashes[n].mapSigCache
      BY <1>1, <2>2 DEF GetPoWHash, SignedOnly
    <3> HIDE DEF b
    <3> QED BY <3>1, <3>2, ProcessBlockKeeps
  <2> QED BY <2>1, <2>2
<1>7. CASE HandleGetSigPowHas(n)
  <2>1. PICK S, k : Become(n, chain[n], Requested(n, hashes[n], S), k, Tail(net[n]))
    BY <1>7, Zenon DEF HandleGetSigPowHas, Reply
  <2> QED BY <1>1, <2>1, BecomeKeeps, RequestedKeeps
<1>8. CASE HandleSigPowHash(n)
  <2>1. PICK b, k : Become(n, chain[n], UncheckedAddSignedHash(hashes[n], b), k, Tail(net[n]))
    BY <1>8, Zenon DEF HandleSigPowHash, Reply
  <2> QED BY <1>1, <2>1, BecomeKeeps, SignedKeeps
<1> QED
  BY <1>2, <1>3, <1>4, <1>5, <1>6, <1>7, <1>8 DEF ProcessMessage

\* A node starts with the blocks it knows and no orphan.
LEMMA SyncInit == Init => SyncInv
<1> SUFFICES ASSUME Init PROVE SyncInv
  OBVIOUS
<1>1. /\ chain = [n \in Nodes |-> chain[n]] /\ hashes = [n \in Nodes |-> hashes[n]]
  BY DEF Init
<1>2. ASSUME NEW n \in Nodes
      PROVE  Kept(n, chain[n]) /\ SignedOnly(n, chain[n], hashes[n])
  <2>1. chain[n] = NewChain(n) /\ hashes[n] = [mapPoWCache |-> {}, mapSigCache |-> Signed[n]]
    BY DEF Init
  <2>2. /\ IsChain(NewChain(n)) /\ NewChain(n).mapBlockIndex = Known[n]
        /\ NewChain(n).mapOrphanBlocks = {} /\ NewChain(n).setStakeSeenOrphan = {}
    BY DEF NewChain, IsChain
  <2>3. IsFiniteSet({})
    BY FS_EmptySet
  <2> QED BY <2>1, <2>2, <2>3 DEF SignedOnly, IsHashes, Kept, Apart
<1> QED
  BY <1>1, <1>2 DEF SyncInv

\* Every step keeps the invariant.
LEMMA SyncNext == SyncInv /\ [Next]_vars => SyncInv'
<1> SUFFICES ASSUME SyncInv, [Next]_vars PROVE SyncInv'
  OBVIOUS
<1>1. CASE UNCHANGED vars
  BY <1>1, Zenon DEF vars, SyncInv, Kept, Apart, SignedOnly, IsChain, IsHashes, Connectable,
     ChainTo, ToSet
<1>2. ASSUME NEW n \in Nodes, ProcessMessage(n) PROVE SyncInv'
  BY <1>2, MessageKeeps
<1>3. ASSUME NEW n \in Nodes, SendMessages(n) PROVE SyncInv'
  <2>1. PICK k : Become(n, chain[n], hashes[n], k, net[n])
    BY <1>3, Zenon DEF SendMessages
  <2>2. Kept(n, chain[n]) /\ SignedOnly(n, chain[n], hashes[n])
    BY DEF SyncInv
  <2> QED BY <2>1, <2>2, BecomeKeeps
<1>4. ASSUME NEW n \in Nodes, NEW b \in Blocks, BlockFromElsewhere(n, b) PROVE SyncInv'
  <2>1. ProcessBlock(n, b, link[n], net[n]) /\ b \in ToCome(n)
    BY <1>4 DEF BlockFromElsewhere
  <2>2. n \notin Hashing => b \in hashes[n].mapSigCache
    BY <2>1 DEF ToCome, GetPoWHash, SyncInv, SignedOnly
  <2> QED BY <2>1, <2>2, ProcessBlockKeeps
<1>5. ASSUME NEW n \in Nodes, NEW b \in Blocks, HashFromElsewhere(n, b) PROVE SyncInv'
  <2>1. PICK k : Become(n, chain[n], UncheckedAddSignedHash(hashes[n], b), k, net[n])
    BY <1>5, Zenon DEF HashFromElsewhere
  <2>2. Kept(n, chain[n]) /\ SignedOnly(n, chain[n], hashes[n])
    BY DEF SyncInv
  <2> QED BY <2>1, <2>2, BecomeKeeps, SignedKeeps
<1>6. CASE Reconnect
  BY <1>6, Zenon DEF Reconnect, SyncInv, Kept, Apart, SignedOnly, IsChain, IsHashes, Connectable,
     ChainTo, ToSet
<1> QED
  BY <1>1, <1>2, <1>3, <1>4, <1>5, <1>6 DEF Next

\* A node that cannot compute hashes (no -ramhogthreads) never keeps a block, in
\* the index or as an orphan, whose hash was not signed, whatever the peer sends
\* and in which order: the check at the head of the block handler is enough,
\* although the orphans it let in are accepted later without it.
THEOREM SignedAlways == Spec => []OnlySignedAccepted
<1>1. SyncInv => OnlySignedAccepted
  BY DEF SyncInv, SignedOnly, OnlySignedAccepted
<1> QED
  BY <1>1, SyncInit, SyncNext, PTL DEF Spec

\* On every node an orphan is forgotten when it is taken into the index, it does
\* not outlive the arrival of its parent unless that cannot be connected, and no
\* stake is remembered without an orphan: the work queue of ProcessBlock comes to
\* every orphan of every block it accepted, however long the chain of orphans.
THEOREM OrphansAlwaysConsistent == Spec => []OrphansConsistent
<1>1. SyncInv => OrphansConsistent
  BY DEF SyncInv, Kept, Apart, OrphansConsistent
<1> QED
  BY <1>1, SyncInit, SyncNext, PTL DEF Spec
=============================================================================
