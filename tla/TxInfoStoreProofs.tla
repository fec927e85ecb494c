------------------------- MODULE TxInfoStoreProofs --------------------------
(***************************************************************************)
(* Proofs about TxInfoStore, for every set of records and every bound.     *)
(*                                                                         *)
(* The inductive invariant speaks of the committed table and of the one    *)
(* the open transaction sees alike, because Commit and Rollback copy one   *)
(* over the other.  Two lemmas carry the argument: the updates of _Process *)
(* and those of _Undo turn a good table into a good table.                 *)
(*                                                                         *)
(* At the end, the refinement: the rows of an address and key, in order    *)
(* of their ids, are the stack of TxInfoHistory, and a push or pop is the  *)
(* insertion or deletion of the row with the highest id.                   *)
(***************************************************************************)
EXTENDS TxInfoRefinement, Sequences, FiniteSetTheorems, TLAPS

GoodTable(T) == IsTable(T) /\ LatestOk(T) /\ UniqueOk(T) /\ OnceOk(T)

IInv ==
  /\ GoodTable(db)
  /\ GoodTable(cur)
  /\ curTransaction \in BOOLEAN

\* A new file holds a good table.
LEMMA EmptyGood == GoodTable(EmptyTable)
<1> DEFINE T == EmptyTable
<1>1. /\ T.row = [i \in {} |-> 0] /\ T.latest = {} /\ T.seq = 0
      /\ DOMAIN T.row = {}
  BY DEF EmptyTable
<1>2. IsTable(T)
  BY <1>1, StoreAssumption DEF IsTable, EmptyTable
<1>3. LatestOk(T)
  BY <1>1 DEF LatestOk, NewestOf, IdsOf
<1>4. UniqueOk(T)
  BY <1>1 DEF UniqueOk, LatestWith
<1>5. OnceOk(T)
  BY <1>1 DEF OnceOk, IdsOf
<1> QED
  BY <1>2, <1>3, <1>4, <1>5 DEF GoodTable

\* What the updates of _Process do to the parts of a table.
LEMMA InsertedParts ==
  ASSUME NEW T, IsTable(T), NEW r \in Records
  PROVE  LET N == Inserted(T, r) IN
         /\ N.seq = T.seq + 1
         /\ DOMAIN N.row = DOMAIN T.row \cup {T.seq + 1}
         /\ N.row[T.seq + 1] = r
         /\ \A i \in DOMAIN T.row : N.row[i] = T.row[i]
         /\ N.latest = (T.latest \ IdsOf(T.row, r.addr, r.key)) \cup {T.seq + 1}
         /\ T.seq + 1 \notin DOMAIN T.row
         /\ \A i \in DOMAIN T.row : i \in Nat /\ i < T.seq + 1
BY DEF Inserted, IsTable

\* The ids of an address and a key after the updates of _Process.
LEMMA InsertedIds ==
  ASSUME NEW T, IsTable(T), NEW r \in Records, NEW a, NEW k
  PROVE  IdsOf(Inserted(T, r).row, a, k) =
           IF a = r.addr /\ k = r.key
           THEN IdsOf(T.row, a, k) \cup {T.seq + 1}
           ELSE IdsOf(T.row, a, k)
<1> DEFINE N == Inserted(T, r)
<1>1. /\ DOMAIN N.row = DOMAIN T.row \cup {T.seq + 1}
      /\ N.row[T.seq + 1] = r
      /\ \A i \in DOMAIN T.row : N.row[i] = T.row[i]
  BY InsertedParts
<1> HIDE DEF N
<1> QED
  BY <1>1 DEF IdsOf, N

\* _Process keeps a table good when IsValid let the record in.
LEMMA InsertedGood ==
  ASSUME NEW T, GoodTable(T), NEW r \in Records, IsValid(T, r),
         T.seq < MaxRowid
  PROVE  GoodTable(Inserted(T, r))
<1> DEFINE N == Inserted(T, r)
           id == T.seq + 1
<1>0. IsTable(T) /\ LatestOk(T) /\ UniqueOk(T) /\ OnceOk(T)
  BY DEF GoodTable
<1>1. /\ N.seq = id
      /\ DOMAIN N.row = DOMAIN T.row \cup {id}
      /\ N.row[id] = r
      /\ \A i \in DOMAIN T.row : N.row[i] = T.row[i]
      /\ N.latest = (T.latest \ IdsOf(T.row, r.addr, r.key)) \cup {id}
      /\ id \notin DOMAIN T.row
      /\ \A i \in DOMAIN T.row : i \in Nat /\ i < id
  BY <1>0, InsertedParts
<1>2. \A a, k : IdsOf(N.row, a, k) =
                  IF a = r.addr /\ k = r.key THEN IdsOf(T.row, a, k) \cup {id}
                                             ELSE IdsOf(T.row, a, k)
  BY <1>0, InsertedIds
<1>3. T.seq \in Nat /\ id \in Nat /\ T.latest \subseteq DOMAIN T.row
  BY <1>0, StoreAssumption DEF IsTable
<1>4. \A a, k : IdsOf(T.row, a, k) \subseteq DOMAIN T.row
  BY DEF IdsOf
<1>5. IsTable(N)
  <2>1. N = [row |-> N.row, latest |-> N.latest, seq |-> N.seq]
    BY DEF Inserted
  <2>2. N.row = [i \in DOMAIN N.row |-> N.row[i]]
    BY DEF Inserted
  <2>3. N.seq \in 0..MaxRowid
    BY <1>0, <1>1, <1>3, StoreAssumption DEF IsTable
  <2>4. DOMAIN N.row \subseteq 1..N.seq
    BY <1>0, <1>1, <1>3 DEF IsTable
  <2>5. \A i \in DOMAIN N.row : N.row[i] \in Records
    BY <1>0, <1>1 DEF IsTable
  <2>6. N.latest \subseteq DOMAIN N.row
    BY <1>1, <1>3
  <2> HIDE DEF N
  <2> QED
    BY <2>1, <2>2, <2>3, <2>4, <2>5, <2>6 DEF IsTable
<1> HIDE DEF N, id
<1>6. LatestOk(N)
  <2> SUFFICES ASSUME NEW a \in Addresses, NEW k \in Keys
               PROVE  N.latest \cap IdsOf(N.row, a, k) = NewestOf(N.row, a, k)
    BY DEF LatestOk
  <2>1. CASE a = r.addr /\ k = r.key
    <3>0. IdsOf(N.row, a, k) = IdsOf(T.row, a, k) \cup {id}
      BY <1>2, <2>1
    <3>a. \A i \in IdsOf(T.row, a, k) : i \in Nat /\ i < id
      BY <1>1, <1>4
    <3>1. NewestOf(N.row, a, k) = {id}
      BY <1>3, <3>0, <3>a DEF NewestOf
    <3>2. N.latest \cap IdsOf(N.row, a, k) = {id}
      BY <1>1, <3>0, <2>1
    <3> QED
      BY <3>1, <3>2
  <2>2. CASE ~(a = r.addr /\ k = r.key)
    <3>1. IdsOf(N.row, a, k) = IdsOf(T.row, a, k)
      BY <1>2, <2>2
    <3>2. NewestOf(N.row, a, k) = NewestOf(T.row, a, k)
      BY <3>1 DEF NewestOf
    <3>3. IdsOf(T.row, a, k) \cap IdsOf(T.row, r.addr, r.key) = {}
      BY <2>2 DEF IdsOf
    <3>4. N.latest \cap IdsOf(T.row, a, k) = T.latest \cap IdsOf(T.row, a, k)
      BY <1>1, <1>4, <3>3
    <3> QED
      BY <1>0, <3>1, <3>2, <3>4 DEF LatestOk
  <2> QED
    BY <2>1, <2>2
<1>7. OnceOk(N)
  <2> SUFFICES ASSUME NEW a \in Addresses, NEW k \in Keys, ~IsOverwritable(k),
                      NEW i \in IdsOf(N.row, a, k), NEW j \in IdsOf(N.row, a, k)
               PROVE  i = j
    BY DEF OnceOk
  <2>1. CASE a = r.addr /\ k = r.key
    <3>1. IdsOf(T.row, a, k) = {}
      BY <2>1 DEF IsValid
    <3>2. IdsOf(N.row, a, k) = IdsOf(T.row, a, k) \cup {id}
      BY <1>2, <2>1
    <3> QED
      BY <3>1, <3>2
  <2>2. CASE ~(a = r.addr /\ k = r.key)
    <3>1. IdsOf(N.row, a, k) = IdsOf(T.row, a, k)
      BY <1>2, <2>2
    <3> QED
      BY <1>0, <3>1 DEF OnceOk
  <2> QED
    BY <2>1, <2>2
<1>8. UniqueOk(N)
  <2> SUFFICES ASSUME NEW k \in Keys, NEW v \in Values, IsUniqueType(k),
                      NEW i \in LatestWith(N, k, v), NEW j \in LatestWith(N, k, v)
               PROVE  i = j
    BY DEF UniqueOk
  <2>1. \A n \in LatestWith(N, k, v) : n # id => n \in LatestWith(T, k, v)
    BY <1>1, <1>3 DEF LatestWith
  <2>2. CASE k = r.key /\ v = r.value
    <3>1. LatestWith(T, k, v) = {}
      BY <2>2 DEF IsValid
    <3> QED
      BY <2>1, <3>1
  <2>3. CASE ~(k = r.key /\ v = r.value)
    <3>1. id \notin LatestWith(N, k, v)
      BY <1>1, <2>3 DEF LatestWith
    <3> QED
      BY <1>0, <2>1, <3>1 DEF UniqueOk
  <2> QED
    BY <2>2, <2>3
<1> QED
  BY <1>5, <1>6, <1>7, <1>8 DEF GoodTable, N

\* Only the newest row of its address and key can be undone, and once it is
\* gone no row of theirs is marked.
LEMMA UndoableIsNewest ==
  ASSUME NEW T, GoodTable(T), NEW r \in Records, NEW i \in Undoable(T, r)
  PROVE  /\ i \in NewestOf(T.row, r.addr, r.key)
         /\ (T.latest \ Undoable(T, r)) \cap IdsOf(T.row, r.addr, r.key) = {}
         /\ Undoable(T, r) = {i}
<1>1. /\ IsTable(T) /\ LatestOk(T)
      /\ T.latest \subseteq DOMAIN T.row
      /\ \A n \in DOMAIN T.row : n \in Nat
  BY DEF GoodTable, IsTable
<1>2. r.addr \in Addresses /\ r.key \in Keys
  BY TableAssumption
<1>3. T.latest \cap IdsOf(T.row, r.addr, r.key) = NewestOf(T.row, r.addr, r.key)
  BY <1>1, <1>2 DEF LatestOk
<1>4. Undoable(T, r) \subseteq T.latest \cap IdsOf(T.row, r.addr, r.key)
  BY <1>1 DEF Undoable, IdsOf
<1>5. \A m, n \in NewestOf(T.row, r.addr, r.key) : m = n
  BY <1>1 DEF NewestOf, IdsOf
<1> QED
  BY <1>3, <1>4, <1>5

\* _Undo keeps a table good.
LEMMA DeletedGood ==
  ASSUME NEW T, GoodTable(T), NEW r \in Records, Undoable(T, r) # {}
  PROVE  GoodTable(Deleted(T, r))
<1> DEFINE D == Deleted(T, r)
           gone == Undoable(T, r)
           mine == NewestOf(RowsLeft(T, r), r.addr, r.key)
<1>0. IsTable(T) /\ LatestOk(T) /\ UniqueOk(T) /\ OnceOk(T)
  BY DEF GoodTable
<1>1. /\ D.row = RowsLeft(T, r)
      /\ DOMAIN D.row = DOMAIN T.row \ gone
      /\ \A i \in DOMAIN D.row : D.row[i] = T.row[i]
      /\ D.latest = (T.latest \ gone) \cup mine
      /\ D.seq = T.seq
  BY <1>0 DEF Deleted, RowsLeft, IsTable
<1>2. /\ T.latest \subseteq DOMAIN T.row
      /\ gone \subseteq T.latest
      /\ \A i \in DOMAIN T.row : i \in Nat
  BY <1>0 DEF IsTable, Undoable
<1>3. r.addr \in Addresses /\ r.key \in Keys /\ r.value \in Values
  BY TableAssumption
<1>4. \A a, k : IdsOf(D.row, a, k) = IdsOf(T.row, a, k) \ gone
  BY <1>1 DEF IdsOf
<1>5. (T.latest \ gone) \cap IdsOf(T.row, r.addr, r.key) = {}
  BY UndoableIsNewest
<1>6. mine \subseteq IdsOf(D.row, r.addr, r.key)
  BY <1>1 DEF NewestOf
<1>7. gone \subseteq IdsOf(T.row, r.addr, r.key)
  BY <1>2 DEF Undoable, IdsOf
<1>8. IsTable(D)
  <2>1. D = [row |-> D.row, latest |-> D.latest, seq |-> D.seq]
    BY DEF Deleted
  <2>2. D.row = [i \in DOMAIN D.row |-> D.row[i]]
    BY <1>1 DEF RowsLeft
  <2>3. IdsOf(D.row, r.addr, r.key) \subseteq DOMAIN D.row
    BY DEF IdsOf
  <2>4. D.latest \subseteq DOMAIN D.row
    BY <1>1, <1>2, <1>6, <2>3
  <2>5. \A i \in DOMAIN D.row : D.row[i] \in Records
    BY <1>0, <1>1 DEF IsTable
  <2>6. D.seq \in 0..MaxRowid /\ DOMAIN D.row \subseteq 1..D.seq
    BY <1>0, <1>1 DEF IsTable
  <2> HIDE DEF D
  <2> QED
    BY <2>1, <2>2, <2>4, <2>5, <2>6 DEF IsTable
<1> HIDE DEF D, gone, mine
<1>9. LatestOk(D)
  <2> SUFFICES ASSUME NEW a \in Addresses, NEW k \in Keys
               PROVE  D.latest \cap IdsOf(D.row, a, k) = NewestOf(D.row, a, k)
    BY DEF LatestOk
  <2>1. CASE a = r.addr /\ k = r.key
    <3>1. mine = NewestOf(D.row, a, k)
      BY <1>1, <2>1 DEF mine
    <3>2. D.latest \cap IdsOf(D.row, a, k) = mine
      BY <1>1, <1>4, <1>5, <1>6, <2>1
    <3> QED
      BY <3>1, <3>2
  <2>2. CASE ~(a = r.addr /\ k = r.key)
    <3>1. IdsOf(T.row, a, k) \cap IdsOf(T.row, r.addr, r.key) = {}
      BY <2>2 DEF IdsOf
    <3>2. IdsOf(D.row, a, k) = IdsOf(T.row, a, k)
      BY <1>4, <1>7, <3>1
    <3>3. NewestOf(D.row, a, k) = NewestOf(T.row, a, k)
      BY <3>2 DEF NewestOf
    <3>4. D.latest \cap IdsOf(T.row, a, k) = T.latest \cap IdsOf(T.row, a, k)
      BY <1>1, <1>4, <1>6, <1>7, <3>1
    <3> QED
      BY <1>0, <3>2, <3>3, <3>4 DEF LatestOk
  <2> QED
    BY <2>1, <2>2
<1>10. OnceOk(D)
  BY <1>0, <1>4 DEF OnceOk
<1>11. UniqueOk(D)
  <2> SUFFICES ASSUME NEW k \in Keys, NEW v \in Values, IsUniqueType(k),
                      NEW i \in LatestWith(D, k, v), NEW j \in LatestWith(D, k, v)
               PROVE  i = j
    BY DEF UniqueOk
  <2>1. ~IsOverwritable(k)
    BY DEF IsUniqueType, IsOverwritable
  <2>2. ASSUME k = r.key PROVE mine = {}
    \* a unique key has one row per address, and it is gone
    <3>1. PICK g \in gone : TRUE
      BY DEF gone
    <3>2. IdsOf(T.row, r.addr, r.key) = {g}
      BY <1>0, <1>3, <1>7, <2>1, <2>2, <3>1 DEF OnceOk
    <3>3. IdsOf(D.row, r.addr, r.key) = {}
      BY <1>4, <3>1, <3>2
    <3> QED
      BY <1>6, <3>3
  <2>3. \A n \in mine : D.row[n].key = r.key
    BY <1>6 DEF IdsOf
  <2>4. \A n \in LatestWith(D, k, v) : n \in LatestWith(T, k, v)
    <3> SUFFICES ASSUME NEW n \in LatestWith(D, k, v)
                 PROVE  n \in LatestWith(T, k, v)
      OBVIOUS
    <3>1. n \in D.latest /\ D.row[n].key = k /\ D.row[n].value = v
      BY DEF LatestWith
    <3>2. n \notin mine
      BY <2>2, <2>3, <3>1
    <3>3. n \in T.latest \ gone
      BY <1>1, <3>1, <3>2
    <3>4. D.row[n] = T.row[n]
      BY <1>1, <1>2, <3>3
    <3> QED
      BY <3>1, <3>3, <3>4 DEF LatestWith
  <2> QED
    BY <1>0, <2>4 DEF UniqueOk
<1> QED
  BY <1>8, <1>9, <1>10, <1>11 DEF GoodTable, D

\* After a restart, a commit or a rollback, and between them, the tables the
\* store works on are good.
THEOREM StoreInvariant == Spec => []IInv
<1>1. Init => IInv
  BY EmptyGood DEF Init, IInv
<1>2. IInv /\ [Next]_vars => IInv'
  <2> SUFFICES ASSUME IInv, [Next]_vars PROVE IInv'
    OBVIOUS
  <2>0. GoodTable(db) /\ GoodTable(cur) /\ curTransaction \in BOOLEAN
    BY DEF IInv
  <2>1. ASSUME NEW T, GoodTable(T), Change(T) PROVE IInv'
    <3>1. cur' = T /\ db' = (IF curTransaction THEN db ELSE T)
      BY <2>1 DEF Change
    <3>2. GoodTable(cur') /\ GoodTable(db')
      BY <2>0, <2>1, <3>1
    <3>3. curTransaction' \in BOOLEAN
      BY <2>0, <2>1 DEF Change
    <3> QED
      BY <3>2, <3>3 DEF IInv
  <2>2. ASSUME NEW r \in Records, Process(r) PROVE IInv'
    <3>1. GoodTable(Inserted(cur, r))
      BY <2>0, <2>2, InsertedGood DEF Process
    <3> QED
      BY <2>1, <2>2, <3>1 DEF Process
  <2>3. ASSUME NEW r \in Records, Undo(r) PROVE IInv'
    <3>1. GoodTable(Deleted(cur, r))
      BY <2>0, <2>3, DeletedGood DEF Undo
    <3> QED
      BY <2>1, <2>3, <3>1 DEF Undo
  <2>4. CASE Reset
    BY <2>1, <2>4, EmptyGood DEF Reset
  <2>5. CASE BeginTransaction
    BY <2>0, <2>5 DEF BeginTransaction, IInv
  <2>6. CASE Commit
    BY <2>0, <2>6 DEF Commit, IInv
  <2>7. CASE Rollback
    BY <2>0, <2>7 DEF Rollback, IInv
  <2>8. CASE Restart
    BY <2>0, <2>8 DEF Restart, IInv
  <2>9. CASE UNCHANGED vars
    BY <2>0, <2>9 DEF vars, IInv
  <2> QED
    BY <2>2, <2>3, <2>4, <2>5, <2>6, <2>7, <2>8, <2>9 DEF Next
<1> QED
  BY <1>1, <1>2, PTL DEF Spec

\* Every table the store keeps is well formed: is_latest only marks rows that
\* exist, and no id is beyond AUTOINCREMENT's sequence.
THEOREM StoreTypeCorrect == Spec => []TypeOK
<1>1. IInv => TypeOK
  BY DEF IInv, GoodTable, TypeOK
<1> QED
  BY <1>1, StoreInvariant, PTL

\* The two ways the store looks up the current row agree.
THEOREM LatestRowsAreNewest == Spec => []LatestIsNewest
<1>1. IInv => LatestIsNewest
  BY DEF IInv, GoodTable, LatestIsNewest
<1> QED
  BY <1>1, StoreInvariant, PTL

\* The exception of UniqueAddressWithValue is unreachable.
THEOREM UniqueAddresses == Spec => []UniqueValues
<1>1. IInv => UniqueValues
  BY DEF IInv, GoodTable, UniqueValues
<1> QED
  BY <1>1, StoreInvariant, PTL

\* A value that must not be overwritten never is.
THEOREM NeverOverwritten == Spec => []WrittenOnce
<1>1. IInv => WrittenOnce
  BY DEF IInv, GoodTable, WrittenOnce
<1> QED
  BY <1>1, StoreInvariant, PTL

\* The rules of the key types hold of every table the store can have.
THEOREM KeyRulesHold == Spec => []KeyRules
  BY UniqueAddresses, NeverOverwritten, PTL DEF KeyRules

\* On a good table _Undo is the inverse of _Process.
LEMMA DeletedInserted ==
  ASSUME NEW T, GoodTable(T), NEW r \in Records
  PROVE  LET N == Inserted(T, r) IN
         /\ Undoable(N, r) # {}
         /\ Deleted(N, r).row = T.row
         /\ Deleted(N, r).latest = T.latest
<1> DEFINE N == Inserted(T, r)
           id == T.seq + 1
<1>0. IsTable(T) /\ LatestOk(T)
  BY DEF GoodTable
<1>1. /\ DOMAIN N.row = DOMAIN T.row \cup {id}
      /\ N.row[id] = r
      /\ \A i \in DOMAIN T.row : N.row[i] = T.row[i]
      /\ N.latest = (T.latest \ IdsOf(T.row, r.addr, r.key)) \cup {id}
      /\ id \notin DOMAIN T.row
  BY <1>0, InsertedParts
<1>2. T.latest \subseteq DOMAIN T.row /\ T.row = [i \in DOMAIN T.row |-> T.row[i]]
  BY <1>0 DEF IsTable
<1>3. r.addr \in Addresses /\ r.key \in Keys
  BY TableAssumption
<1>4. N = [row |-> N.row, latest |-> N.latest, seq |-> N.seq]
  BY DEF Inserted
<1> HIDE DEF N, id
<1>5. Undoable(N, r) = {id}
  <2>1. id \in Undoable(N, r)
    BY <1>1 DEF Undoable
  <2>2. ASSUME NEW i \in Undoable(N, r), i # id PROVE FALSE
    <3>1. i \in T.latest /\ i \notin IdsOf(T.row, r.addr, r.key) /\ N.row[i] = r
      BY <1>1, <2>2 DEF Undoable
    <3>2. i \in DOMAIN T.row /\ T.row[i] = r
      BY <1>1, <1>2, <3>1
    <3> QED
      BY <3>1, <3>2 DEF IdsOf
  <2> QED
    BY <2>1, <2>2
<1>6. RowsLeft(N, r) = T.row
  <2>1. DOMAIN N.row \ Undoable(N, r) = DOMAIN T.row
    BY <1>1, <1>5
  <2>2. RowsLeft(N, r) = [i \in DOMAIN T.row |-> N.row[i]]
    BY <2>1 DEF RowsLeft
  <2> QED
    BY <1>1, <1>2, <2>2
<1>7. Deleted(N, r).row = T.row
  BY <1>4, <1>6 DEF Deleted
<1>8. Deleted(N, r).latest
        = (N.latest \ {id}) \cup NewestOf(T.row, r.addr, r.key)
  BY <1>4, <1>5, <1>6 DEF Deleted
<1>9. T.latest \cap IdsOf(T.row, r.addr, r.key) = NewestOf(T.row, r.addr, r.key)
  BY <1>0, <1>3 DEF LatestOk
<1>10. N.latest \ {id} = T.latest \ IdsOf(T.row, r.addr, r.key)
  BY <1>1, <1>2
<1> QED
  BY <1>5, <1>7, <1>8, <1>9, <1>10 DEF N

\* In every reachable state, a Process that succeeds can be undone, and the
\* undo leaves the rows and the is_latest column as they were.
THEOREM UndoIsInverse == Spec => []UndoInvertsProcess
<1>1. IInv => UndoInvertsProcess
  BY DeletedInserted DEF IInv, UndoInvertsProcess
<1> QED
  BY <1>1, StoreInvariant, PTL

-----------------------------------------------------------------------------
(***************************************************************************)
(* The store implements TxInfoHistory.  The ids of an address and a key    *)
(* are put in order by their ranks, which are counted: a new id is greater *)
(* than all of them and comes after them, and the newest is the last.      *)
(***************************************************************************)

\* A rank is a place, and two numbers have two places.
LEMMA Ranks ==
  ASSUME NEW S, S \subseteq Nat, IsFiniteSet(S)
  PROVE  /\ \A i \in S : Rank(S, i) \in 1..Cardinality(S)
         /\ \A i, j \in S : Rank(S, i) = Rank(S, j) => i = j
<1> DEFINE U(i) == {j \in S : j <= i}
<1>1. \A i : IsFiniteSet(U(i)) /\ Cardinality(U(i)) \in Nat /\ Cardinality(U(i)) <= Cardinality(S)
  <2> SUFFICES ASSUME NEW i
        PROVE IsFiniteSet(U(i)) /\ Cardinality(U(i)) \in Nat /\ Cardinality(U(i)) <= Cardinality(S)
    OBVIOUS
  <2>1. U(i) \in SUBSET S
    OBVIOUS
  <2> HIDE DEF U
  <2>2. IsFiniteSet(U(i)) /\ Cardinality(U(i)) <= Cardinality(S)
    BY <2>1, FS_Subset
  <2> QED BY <2>2, FS_CardinalityType
<1>2. \A i \in S : Cardinality(U(i)) # 0
  <2> SUFFICES ASSUME NEW i \in S PROVE Cardinality(U(i)) # 0
    OBVIOUS
  <2>1. i \in U(i)
    OBVIOUS
  <2> HIDE DEF U
  <2> QED BY <1>1, <2>1, FS_EmptySet
<1>3. ASSUME NEW i \in S, NEW j \in S, i < j PROVE Cardinality(U(i)) < Cardinality(U(j))
  <2>0. j <= j /\ ~(j <= i) /\ \A l \in S : l <= i => l <= j
    BY <1>3
  <2>1. U(i) \in SUBSET U(j) /\ j \in U(j) /\ j \notin U(i)
    BY <2>0
  <2> HIDE DEF U
  <2>2. Cardinality(U(i)) <= Cardinality(U(j)) /\ Cardinality(U(i)) # Cardinality(U(j))
    BY <1>1, <2>1, FS_Subset
  <2> QED BY <1>1, <2>2
<1>4. \A i : Rank(S, i) = Cardinality(U(i))
  BY DEF Rank
<1>5. Cardinality(S) \in Nat
  BY FS_CardinalityType
<1> HIDE DEF U
<1>6. \A i \in S : Rank(S, i) \in 1..Cardinality(S)
  BY <1>1, <1>2, <1>4, <1>5
<1>7. \A i, j \in S : Rank(S, i) = Rank(S, j) => i = j
  <2> SUFFICES ASSUME NEW i \in S, NEW j \in S, Rank(S, i) = Rank(S, j), i # j PROVE FALSE
    OBVIOUS
  <2>1. i < j \/ j < i
    OBVIOUS
  <2> QED BY <1>1, <1>3, <1>4, <2>1
<1> QED BY <1>6, <1>7

\* Every place is taken, by one number.
LEMMA NthRank ==
  ASSUME NEW S, S \subseteq Nat, IsFiniteSet(S)
  PROVE  /\ \A n \in 1..Cardinality(S) : Nth(S, n) \in S /\ Rank(S, Nth(S, n)) = n
         /\ \A i \in S : Nth(S, Rank(S, i)) = i
<1> DEFINE P == 1..Cardinality(S)
           f == [i \in S |-> Rank(S, i)]
<1>0. Cardinality(S) \in Nat
  BY FS_CardinalityType
<1>1. IsFiniteSet(P) /\ Cardinality(P) = Cardinality(S)
  BY <1>0, FS_Interval
<1>2. f \in Injection(S, P)
  BY Ranks DEF Injection, IsInjective
<1> HIDE DEF f
<1>3. f \in Surjection(S, P)
  BY <1>1, <1>2, FS_Injection
<1>4. \A n \in P : \E i \in S : Rank(S, i) = n
  BY <1>3 DEF Surjection, f
<1>5. \A n \in P : Nth(S, n) \in S /\ Rank(S, Nth(S, n)) = n
  BY <1>4 DEF Nth
<1>6. \A i \in S : Nth(S, Rank(S, i)) = i
  BY <1>5, Ranks, ZenonT(60)
<1> QED BY <1>5, <1>6

\* A greater number comes after the others.
LEMMA NthAppended ==
  ASSUME NEW S, S \subseteq Nat, IsFiniteSet(S), NEW m \in Nat, \A i \in S : i < m
  PROVE  /\ Cardinality(S \cup {m}) = Cardinality(S) + 1
         /\ Cardinality(S) \in Nat
         /\ Nth(S \cup {m}, Cardinality(S) + 1) = m
         /\ \A n \in 1..Cardinality(S) : Nth(S \cup {m}, n) = Nth(S, n) /\ Nth(S, n) \in S
<1> DEFINE N == S \cup {m}
<1>1. m \notin S /\ N \subseteq Nat
  OBVIOUS
<1>2. IsFiniteSet(N) /\ Cardinality(N) = Cardinality(S) + 1
  BY <1>1, FS_AddElement
<1>3. Rank(N, m) = Cardinality(N)
  <2>0. \A j \in N : j <= m
    BY <1>1
  <2>1. {j \in N : j <= m} = N
    BY <2>0
  <2> QED BY <2>1 DEF Rank
<1>4. \A i \in S : Rank(N, i) = Rank(S, i)
  <2> SUFFICES ASSUME NEW i \in S PROVE Rank(N, i) = Rank(S, i)
    OBVIOUS
  <2>1. {j \in N : j <= i} = {j \in S : j <= i}
    BY <1>1
  <2> QED BY <2>1 DEF Rank
<1>5. m \in N /\ S \subseteq N
  OBVIOUS
<1> HIDE DEF N
<1>6. \A i \in N : Nth(N, Rank(N, i)) = i
  BY <1>1, <1>2, NthRank
<1>7. \A n \in 1..Cardinality(S) : Nth(S, n) \in S /\ Rank(S, Nth(S, n)) = n
  BY NthRank
<1>8. \A n \in 1..Cardinality(S) : Nth(N, n) = Nth(S, n)
  BY <1>4, <1>5, <1>6, <1>7
<1>9. Nth(N, Cardinality(S) + 1) = m
  BY <1>2, <1>3, <1>5, <1>6
<1>10. Cardinality(S) \in Nat
  BY FS_CardinalityType
<1> QED BY <1>2, <1>7, <1>8, <1>9, <1>10 DEF N

Entry(r) == [value |-> r.value, src |-> r.src]
Entries == [value : Values, src : Sources]

\* The ids of an address and a key are finitely many numbers, and their stack is
\* a sequence of the entries of their rows.
LEMMA IdsFinite ==
  ASSUME NEW T, IsTable(T), NEW a, NEW k
  PROVE  /\ IdsOf(T.row, a, k) \subseteq Nat /\ IsFiniteSet(IdsOf(T.row, a, k))
         /\ IdsOf(T.row, a, k) \subseteq DOMAIN T.row
<1>1. T.seq \in Nat /\ DOMAIN T.row \subseteq 1..T.seq
  BY StoreAssumption DEF IsTable
<1>2. IdsOf(T.row, a, k) \in SUBSET (1..T.seq) /\ IdsOf(T.row, a, k) \subseteq DOMAIN T.row
  BY <1>1 DEF IdsOf
<1>3. IsFiniteSet(1..T.seq)
  BY <1>1, FS_Interval
<1>4. IsFiniteSet(IdsOf(T.row, a, k))
  BY <1>2, <1>3, FS_Subset
<1> QED BY <1>1, <1>2, <1>4

\* The stack of an address and key lists its rows in the order of their ids.
LEMMA StackParts ==
  ASSUME NEW T, IsTable(T), NEW a, NEW k
  PROVE  LET S == IdsOf(T.row, a, k)
             s == Stack(T.row, a, k)
         IN /\ s \in Seq(Entries) /\ Len(s) = Cardinality(S) /\ Cardinality(S) \in Nat
            /\ \A n \in 1..Cardinality(S) : Nth(S, n) \in S /\ s[n] = Entry(T.row[Nth(S, n)])
            /\ s = <<>> <=> S = {}
<1> DEFINE S == IdsOf(T.row, a, k)
           s == Stack(T.row, a, k)
<1>1. S \subseteq Nat /\ IsFiniteSet(S) /\ S \subseteq DOMAIN T.row
  BY IdsFinite
<1>2. s = [n \in 1..Cardinality(S) |-> Entry(T.row[Nth(S, n)])]
  BY DEF Stack, Entry
<1>3. \A i \in DOMAIN T.row : Entry(T.row[i]) \in Entries
  <2>1. \A r \in Records : r.value \in Values /\ r.src \in Sources
    BY TableAssumption
  <2> QED BY <2>1 DEF IsTable, Entry, Entries
<1> HIDE DEF S, s
<1>4. Cardinality(S) \in Nat /\ (Cardinality(S) = 0 <=> S = {})
  BY <1>1, FS_CardinalityType, FS_EmptySet
<1>5. \A n \in 1..Cardinality(S) : Nth(S, n) \in S
  BY <1>1, NthRank
<1>6. \A n \in 1..Cardinality(S) : Entry(T.row[Nth(S, n)]) \in Entries
  BY <1>1, <1>3, <1>5
<1>7. s \in Seq(Entries) /\ Len(s) = Cardinality(S)
  BY <1>2, <1>4, <1>6
<1>8. \A n \in 1..Cardinality(S) : s[n] = Entry(T.row[Nth(S, n)])
  BY <1>2
<1>9. s = <<>> <=> S = {}
  BY <1>4, <1>7
<1> QED BY <1>4, <1>5, <1>7, <1>8, <1>9 DEF S, s

\* Table N has the rows of T for an address and a key, and one with a greater id.
OneMore(T, N, a, k, m) ==
  /\ IsTable(T) /\ IsTable(N) /\ m \in Nat
  /\ IdsOf(N.row, a, k) = IdsOf(T.row, a, k) \cup {m}
  /\ \A i \in IdsOf(T.row, a, k) : i < m /\ N.row[i] = T.row[i]

\* A row with a greater id is an entry on top.
LEMMA StackPushed ==
  ASSUME NEW T, NEW N, NEW a, NEW k, NEW m, OneMore(T, N, a, k, m)
  PROVE  /\ Stack(N.row, a, k) = Append(Stack(T.row, a, k), Entry(N.row[m]))
         /\ Stack(T.row, a, k) = SubSeq(Stack(N.row, a, k), 1, Len(Stack(N.row, a, k)) - 1)
         /\ Stack(N.row, a, k)[Len(Stack(N.row, a, k))] = Entry(N.row[m])
         /\ Stack(N.row, a, k) # <<>>
<1> DEFINE S == IdsOf(T.row, a, k)
           R == IdsOf(N.row, a, k)
           s == Stack(T.row, a, k)
           t == Stack(N.row, a, k)
           c == Cardinality(S)
<1>1. /\ s \in Seq(Entries) /\ Len(s) = c /\ c \in Nat
      /\ \A n \in 1..c : Nth(S, n) \in S /\ s[n] = Entry(T.row[Nth(S, n)])
  BY StackParts DEF OneMore
<1>2. /\ t \in Seq(Entries) /\ Len(t) = Cardinality(R)
      /\ \A n \in 1..Cardinality(R) : t[n] = Entry(N.row[Nth(R, n)])
  BY StackParts DEF OneMore
<1>3. S \subseteq Nat /\ IsFiniteSet(S)
  BY IdsFinite DEF OneMore
<1>4. R = S \cup {m} /\ m \in Nat /\ (\A i \in S : i < m /\ N.row[i] = T.row[i])
  BY DEF OneMore
<1> HIDE DEF S, R, s, t, c
<1>5. /\ Cardinality(R) = c + 1 /\ Nth(R, c + 1) = m
      /\ \A n \in 1..c : Nth(R, n) = Nth(S, n)
  BY <1>3, <1>4, NthAppended DEF c
<1>6. t[c + 1] = Entry(N.row[m]) /\ Len(t) = c + 1
  BY <1>1, <1>2, <1>5
<1>7. \A n \in 1..c : t[n] = s[n]
  <2> SUFFICES ASSUME NEW n \in 1..c PROVE t[n] = s[n]
    OBVIOUS
  <2>1. Nth(S, n) \in S /\ s[n] = Entry(T.row[Nth(S, n)])
    BY <1>1
  <2>2. n \in 1..Cardinality(R) /\ Nth(R, n) = Nth(S, n)
    BY <1>1, <1>5
  <2>3. t[n] = Entry(N.row[Nth(S, n)])
    BY <1>2, <2>2
  <2>4. N.row[Nth(S, n)] = T.row[Nth(S, n)]
    BY <1>4, <2>1
  <2> QED BY <2>1, <2>3, <2>4
<1>8. Entry(N.row[m]) \in Entries
  BY <1>1, <1>2, <1>6
<1>9. t = Append(s, Entry(N.row[m]))
  BY <1>1, <1>2, <1>6, <1>7, <1>8
<1>10. s = SubSeq(t, 1, Len(t) - 1)
  BY <1>1, <1>2, <1>6, <1>7
<1>11. t # <<>> /\ t[Len(t)] = Entry(N.row[m])
  BY <1>1, <1>2, <1>6
<1> QED BY <1>9, <1>10, <1>11 DEF s, t

\* The same ids with the same rows are the same stack.
LEMMA StackSame ==
  ASSUME NEW T, IsTable(T), NEW N, IsTable(N), NEW a, NEW k,
         IdsOf(N.row, a, k) = IdsOf(T.row, a, k),
         \A i \in IdsOf(T.row, a, k) : N.row[i] = T.row[i]
  PROVE  Stack(N.row, a, k) = Stack(T.row, a, k)
<1> DEFINE S == IdsOf(T.row, a, k)
           s == Stack(T.row, a, k)
           t == Stack(N.row, a, k)
<1>1. /\ s \in Seq(Entries) /\ Len(s) = Cardinality(S) /\ Cardinality(S) \in Nat
      /\ \A n \in 1..Cardinality(S) : Nth(S, n) \in S /\ s[n] = Entry(T.row[Nth(S, n)])
  BY StackParts
<1>2. /\ t \in Seq(Entries) /\ Len(t) = Cardinality(S)
      /\ \A n \in 1..Cardinality(S) : t[n] = Entry(N.row[Nth(S, n)])
  BY StackParts
<1> HIDE DEF S, s, t
<1>3. \A n \in 1..Cardinality(S) : t[n] = s[n]
  BY <1>1, <1>2 DEF S
<1>4. t = s
  BY <1>1, <1>2, <1>3
<1> QED BY <1>4 DEF s, t

\* The stacks after the updates of _Process.
LEMMA StacksPushed ==
  ASSUME NEW T, IsTable(T), NEW r \in Records, IsTable(Inserted(T, r))
  PROVE  StacksOf(Inserted(T, r)) =
           [StacksOf(T) EXCEPT ![<<r.addr, r.key>>] = Append(@, Entry(r))]
<1> DEFINE N == Inserted(T, r)
           m == T.seq + 1
           G == StacksOf(T)
           H == [G EXCEPT ![<<r.addr, r.key>>] = Append(G[<<r.addr, r.key>>], Entry(r))]
<1>0. r.addr \in Addresses /\ r.key \in Keys
  BY TableAssumption
<1>1. /\ N.row[m] = r /\ (\A i \in DOMAIN T.row : N.row[i] = T.row[i] /\ i < m)
      /\ m \in Nat
  BY InsertedParts, StoreAssumption DEF IsTable
<1>2. \A a, k : IdsOf(N.row, a, k) = IF a = r.addr /\ k = r.key THEN IdsOf(T.row, a, k) \cup {m}
                                     ELSE IdsOf(T.row, a, k)
  BY InsertedIds
<1>3. \A a, k : IdsOf(T.row, a, k) \subseteq DOMAIN T.row
  BY DEF IdsOf
<1>4. IsTable(N)
  OBVIOUS
<1> HIDE DEF N, m
<1>5. Stack(N.row, r.addr, r.key) = Append(Stack(T.row, r.addr, r.key), Entry(r))
  <2>1. IdsOf(N.row, r.addr, r.key) = IdsOf(T.row, r.addr, r.key) \cup {m}
    BY <1>2
  <2>2. \A i \in IdsOf(T.row, r.addr, r.key) : i < m /\ N.row[i] = T.row[i]
    BY <1>1, <1>3
  <2>3. m \in Nat /\ N.row[m] = r
    BY <1>1
  <2>4. Stack(N.row, r.addr, r.key) = Append(Stack(T.row, r.addr, r.key), Entry(N.row[m]))
    <3>1. OneMore(T, N, r.addr, r.key, m)
      BY <1>4, <2>1, <2>2, <2>3 DEF OneMore
    <3> QED BY <3>1, StackPushed
  <2> QED BY <2>3, <2>4
<1>6. \A a \in Addresses, k \in Keys : ~(a = r.addr /\ k = r.key) =>
        Stack(N.row, a, k) = Stack(T.row, a, k)
  <2> SUFFICES ASSUME NEW a \in Addresses, NEW k \in Keys, ~(a = r.addr /\ k = r.key)
               PROVE  Stack(N.row, a, k) = Stack(T.row, a, k)
    OBVIOUS
  <2>1. IdsOf(N.row, a, k) = IdsOf(T.row, a, k)
    BY <1>2
  <2>2. \A i \in IdsOf(T.row, a, k) : N.row[i] = T.row[i]
    BY <1>1, <1>3
  <2> QED BY <1>4, <2>1, <2>2, StackSame
<1>7. \A ak \in Addresses \X Keys : StacksOf(N)[ak] = H[ak]
  <2> SUFFICES ASSUME NEW a \in Addresses, NEW k \in Keys PROVE StacksOf(N)[<<a, k>>] = H[<<a, k>>]
    OBVIOUS
  <2>1. /\ StacksOf(N)[<<a, k>>] = Stack(N.row, a, k) /\ G[<<a, k>>] = Stack(T.row, a, k)
        /\ G[<<r.addr, r.key>>] = Stack(T.row, r.addr, r.key)
    BY <1>0 DEF StacksOf
  <2>2. H[<<a, k>>] = IF a = r.addr /\ k = r.key THEN Append(G[<<r.addr, r.key>>], Entry(r))
                      ELSE G[<<a, k>>]
    BY <1>0 DEF StacksOf
  <2> HIDE DEF G, H
  <2> QED BY <1>5, <1>6, <2>1, <2>2
<1>8. H = [ak \in Addresses \X Keys |-> H[ak]] /\ StacksOf(N) = [ak \in Addresses \X Keys |-> StacksOf(N)[ak]]
  BY DEF StacksOf
<1> HIDE DEF H, G
<1>9. StacksOf(N) = H
  BY <1>7, <1>8
<1> QED BY <1>9 DEF N, H, G

\* The stacks after the updates of _Undo, and the entry that was on top.
LEMMA StacksPopped ==
  ASSUME NEW T, GoodTable(T), NEW r \in Records, Undoable(T, r) # {}
  PROVE  /\ StacksOf(Deleted(T, r)) =
              [StacksOf(T) EXCEPT ![<<r.addr, r.key>>] = SubSeq(@, 1, Len(@) - 1)]
         /\ LET s == StacksOf(T)[<<r.addr, r.key>>] IN s # <<>> /\ s[Len(s)] = Entry(r)
<1> DEFINE D == Deleted(T, r)
           G == StacksOf(T)
           g == G[<<r.addr, r.key>>]
           H == [G EXCEPT ![<<r.addr, r.key>>] = SubSeq(g, 1, Len(g) - 1)]
<1>0. r.addr \in Addresses /\ r.key \in Keys /\ IsTable(T)
  BY TableAssumption DEF GoodTable
<1>1. PICK m : m \in Undoable(T, r)
  OBVIOUS
<1>2. m \in NewestOf(T.row, r.addr, r.key) /\ Undoable(T, r) = {m}
  BY <1>1, UndoableIsNewest
<1>3. /\ m \in IdsOf(T.row, r.addr, r.key) /\ m \in Nat /\ T.row[m] = r
      /\ \A i \in IdsOf(T.row, r.addr, r.key) : i \in Nat /\ i <= m
  BY <1>0, <1>1, <1>2, IdsFinite DEF NewestOf, Undoable
<1>4. IsTable(D)
  BY DeletedGood DEF GoodTable
<1>5. DOMAIN D.row = DOMAIN T.row \ {m} /\ \A i \in DOMAIN D.row : D.row[i] = T.row[i]
  BY <1>2 DEF Deleted, RowsLeft
<1> HIDE DEF D
<1>6. \A a, k : IdsOf(D.row, a, k) = IdsOf(T.row, a, k) \ {m}
  BY <1>5 DEF IdsOf
<1>7. \A a, k : IdsOf(D.row, a, k) \subseteq DOMAIN D.row
  BY DEF IdsOf
<1>8. /\ Stack(D.row, r.addr, r.key)
           = SubSeq(Stack(T.row, r.addr, r.key), 1, Len(Stack(T.row, r.addr, r.key)) - 1)
      /\ Stack(T.row, r.addr, r.key)[Len(Stack(T.row, r.addr, r.key))] = Entry(r)
      /\ Stack(T.row, r.addr, r.key) # <<>>
  <2>1. IdsOf(T.row, r.addr, r.key) = IdsOf(D.row, r.addr, r.key) \cup {m}
    BY <1>3, <1>6
  <2>2. \A i \in IdsOf(D.row, r.addr, r.key) : i < m /\ T.row[i] = D.row[i]
    <3> SUFFICES ASSUME NEW i \in IdsOf(D.row, r.addr, r.key) PROVE i < m /\ T.row[i] = D.row[i]
      OBVIOUS
    <3>0. i \in IdsOf(T.row, r.addr, r.key) /\ i # m
      BY <1>6
    <3>1. i \in Nat /\ i <= m /\ i # m
      BY <1>3, <3>0
    <3>2. T.row[i] = D.row[i]
      BY <1>5, <1>7
    <3> QED BY <1>3, <3>1, <3>2
  <2>3. m \in Nat /\ T.row[m] = r
    BY <1>3
  <2>4. IsTable(T)
    BY <1>0
  <2>5. /\ Stack(D.row, r.addr, r.key)
             = SubSeq(Stack(T.row, r.addr, r.key), 1, Len(Stack(T.row, r.addr, r.key)) - 1)
        /\ Stack(T.row, r.addr, r.key)[Len(Stack(T.row, r.addr, r.key))] = Entry(T.row[m])
        /\ Stack(T.row, r.addr, r.key) # <<>>
    <3>1. OneMore(D, T, r.addr, r.key, m)
      BY <1>4, <2>1, <2>2, <2>3, <2>4 DEF OneMore
    <3> QED BY <3>1, StackPushed
  <2> QED BY <2>3, <2>5
<1>9. \A a \in Addresses, k \in Keys : ~(a = r.addr /\ k = r.key) =>
        Stack(D.row, a, k) = Stack(T.row, a, k)
  <2> SUFFICES ASSUME NEW a \in Addresses, NEW k \in Keys, ~(a = r.addr /\ k = r.key)
               PROVE  Stack(D.row, a, k) = Stack(T.row, a, k)
    OBVIOUS
  <2>1. m \notin IdsOf(T.row, a, k)
    BY <1>3 DEF IdsOf
  <2>2. IdsOf(D.row, a, k) = IdsOf(T.row, a, k)
    BY <1>6, <2>1
  <2>3. \A i \in IdsOf(T.row, a, k) : D.row[i] = T.row[i]
    BY <1>5, <1>7, <2>2
  <2> QED BY <1>0, <1>4, <2>2, <2>3, StackSame
<1>10. g = Stack(T.row, r.addr, r.key)
  BY <1>0 DEF StacksOf
<1>11. \A ak \in Addresses \X Keys : StacksOf(D)[ak] = H[ak]
  <2> SUFFICES ASSUME NEW a \in Addresses, NEW k \in Keys PROVE StacksOf(D)[<<a, k>>] = H[<<a, k>>]
    OBVIOUS
  <2>1. StacksOf(D)[<<a, k>>] = Stack(D.row, a, k) /\ G[<<a, k>>] = Stack(T.row, a, k)
    BY DEF StacksOf
  <2> HIDE DEF g
  <2>2. H[<<a, k>>] = IF a = r.addr /\ k = r.key THEN SubSeq(g, 1, Len(g) - 1) ELSE G[<<a, k>>]
    BY <1>0 DEF StacksOf
  <2> HIDE DEF G, H
  <2> QED BY <1>8, <1>9, <1>10, <2>1, <2>2
<1>12. H = [ak \in Addresses \X Keys |-> H[ak]] /\ StacksOf(D) = [ak \in Addresses \X Keys |-> StacksOf(D)[ak]]
  <2> HIDE DEF g
  <2> QED BY DEF StacksOf
<1>14. g # <<>> /\ g[Len(g)] = Entry(r)
  BY <1>8, <1>10
<1> HIDE DEF H, G, g
<1>13. StacksOf(D) = H
  BY <1>11, <1>12
<1> QED BY <1>13, <1>14 DEF D, H, G, g

\* An empty table has empty stacks.
LEMMA StacksEmpty == StacksOf(EmptyTable) = [ak \in Addresses \X Keys |-> <<>>]
<1>1. IsTable(EmptyTable)
  BY EmptyGood DEF GoodTable
<1>2. \A a, k : IdsOf(EmptyTable.row, a, k) = {}
  BY DEF IdsOf, EmptyTable
<1>3. \A a, k : Stack(EmptyTable.row, a, k) = <<>>
  BY <1>1, <1>2, StackParts
<1> QED BY <1>3 DEF StacksOf

\* What IsValid lets in may be pushed.
LEMMA MayBePushed ==
  ASSUME NEW T, GoodTable(T), NEW r \in Records, IsValid(T, r)
  PROVE  History!MayPush(StacksOf(T), r)
<1>0. r.addr \in Addresses /\ r.key \in Keys /\ IsTable(T) /\ LatestOk(T)
  BY TableAssumption DEF GoodTable
<1>1. \A a \in Addresses : StacksOf(T)[<<a, r.key>>] = Stack(T.row, a, r.key)
  BY <1>0 DEF StacksOf
<1>2. KeyType[r.key] # "normal" => StacksOf(T)[<<r.addr, r.key>>] = <<>>
  BY <1>0, <1>1, StackParts DEF IsValid, IsOverwritable
<1>3. ASSUME KeyType[r.key] \in {"unique", "id"}, NEW a \in Addresses,
             Stack(T.row, a, r.key) # <<>>
      PROVE  Stack(T.row, a, r.key)[Len(Stack(T.row, a, r.key))].value # r.value
  <2> DEFINE S == IdsOf(T.row, a, r.key)
             s == Stack(T.row, a, r.key)
             i == Nth(S, Cardinality(S))
  <2>1. /\ Len(s) = Cardinality(S) /\ Cardinality(S) \in Nat /\ S # {} /\ S \subseteq DOMAIN T.row
        /\ \A n \in 1..Cardinality(S) : Nth(S, n) \in S /\ s[n] = Entry(T.row[Nth(S, n)])
    BY <1>0, <1>3, StackParts, IdsFinite
  <2>2. S \subseteq Nat /\ IsFiniteSet(S)
    BY <1>0, IdsFinite
  <2> HIDE DEF S, s
  <2>3. Cardinality(S) \in 1..Cardinality(S)
    BY <2>1, <2>2, FS_EmptySet
  <2>4. i \in S /\ s[Len(s)] = Entry(T.row[i]) /\ Rank(S, i) = Cardinality(S)
    BY <2>1, <2>2, <2>3, NthRank
  <2> HIDE DEF i
  <2>5. \A j \in S : j <= i
    <3> DEFINE U == {j \in S : j <= i}
    <3>1. U \in SUBSET S /\ Cardinality(U) = Cardinality(S)
      BY <2>4 DEF Rank
    <3>2. U = S
      BY <2>2, <3>1, FS_Subset
    <3> QED BY <3>2
  <2>6. i \in T.latest
    BY <1>0, <2>4, <2>5 DEF LatestOk, NewestOf, S
  <2>7. T.row[i].key = r.key
    BY <2>4 DEF S, IdsOf
  <2>8. T.row[i].value # r.value
    BY <1>3, <2>6, <2>7 DEF IsValid, IsUniqueType, LatestWith
  <2>9. s[Len(s)].value # r.value
    BY <2>4, <2>8 DEF Entry
  <2> QED BY <2>9 DEF s
<1> QED BY <1>1, <1>2, <1>3 DEF History!MayPush, IsValid, InfoIsValid

\* Every step of the store is a step of TxInfoHistory, or changes no stack.
LEMMA StepsRefine ==
  ASSUME IInv, [Next]_vars
  PROVE  [History!HNext]_(History!histVars)
<1>a. ASSUME NEW T, Change(T) PROVE History!Apply(StacksOf(T))
  BY <1>a DEF Change, History!Apply
<1>1. ASSUME NEW r \in Records, Process(r) PROVE History!HNext
  <2>1. IsValid(cur, r) /\ cur.seq < MaxRowid /\ Change(Inserted(cur, r))
    BY <1>1 DEF Process
  <2>2. StacksOf(Inserted(cur, r)) = History!Pushed(StacksOf(cur), r)
    <3>1. IsTable(cur) /\ IsTable(Inserted(cur, r))
      BY <2>1, InsertedGood DEF IInv, GoodTable
    <3> QED BY <3>1, StacksPushed DEF History!Pushed, History!Entry, Entry
  <2>3. History!MayPush(StacksOf(cur), r)
    BY <2>1, MayBePushed DEF IInv
  <2>4. History!Push(r)
    BY <1>a, <2>1, <2>2, <2>3 DEF History!Push
  <2> QED BY <2>4 DEF History!HNext
<1>2. ASSUME NEW r \in Records, Undo(r) PROVE History!HNext
  <2>1. Undoable(cur, r) # {} /\ Change(Deleted(cur, r))
    BY <1>2 DEF Undo
  <2>2. /\ StacksOf(Deleted(cur, r)) = History!Popped(StacksOf(cur), r)
        /\ History!MayPop(StacksOf(cur), r)
    BY <2>1, StacksPopped DEF IInv, History!Popped, History!MayPop, History!Entry, Entry
  <2>3. History!Pop(r)
    BY <1>a, <2>1, <2>2 DEF History!Pop
  <2> QED BY <2>3 DEF History!HNext
<1>3. ASSUME Reset PROVE History!HNext
  <2>1. History!Erase
    BY <1>3, <1>a, StacksEmpty DEF Reset, History!Erase, History!NoHistory
  <2> QED BY <2>1 DEF History!HNext
<1>4. CASE BeginTransaction
  BY <1>4 DEF BeginTransaction, History!Open, History!HNext
<1>5. CASE Commit
  BY <1>5 DEF Commit, History!Publish, History!HNext
<1>6. CASE Rollback \/ Restart
  BY <1>6 DEF Rollback, Restart, History!Drop, History!HNext
<1>7. CASE UNCHANGED vars
  BY <1>7 DEF vars, History!histVars
<1> QED BY <1>1, <1>2, <1>3, <1>4, <1>5, <1>6, <1>7 DEF Next

\* The store implements TxInfoHistory: whatever is processed, undone, committed, rolled
\* back or lost in a crash, its rows are for every address and key a stack of which
\* _Process pushes and _Undo pops the top, published as a whole or not at all.
THEOREM StoreImplementsHistory == Spec => ImplementsHistory
<1>1. Init => History!HInit
  BY StacksEmpty DEF Init, History!HInit, History!NoHistory
<1> QED
  BY <1>1, StepsRefine, StoreInvariant, PTL DEF Spec, ImplementsHistory, History!HSpec
=============================================================================
