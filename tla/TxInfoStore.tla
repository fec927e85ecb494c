---------------------------- MODULE TxInfoStore -----------------------------
(***************************************************************************)
(* CTxInfoStore and CTxInfoView (txinfo.h, txinfo.cpp): the table of infos *)
(* in SQLite, changed inside one transaction at a time.  The callers are   *)
(* open: any sequence of the public operations, and a crash of the process *)
(* at any step.                                                            *)
(***************************************************************************)
EXTENDS TxInfoTable

CONSTANT MaxRowid   \* bound: the greatest id AUTOINCREMENT may give out

ASSUME StoreAssumption == MaxRowid \in Nat

VARIABLES
  db,              \* the committed table
  cur,             \* the table as this connection sees it
  curTransaction   \* curTransaction # NULL

vars == <<db, cur, curTransaction>>

IsTable(T) ==
  /\ T = [row |-> T.row, latest |-> T.latest, seq |-> T.seq]
  /\ T.seq \in 0..MaxRowid
  /\ T.row = [i \in DOMAIN T.row |-> T.row[i]]
  /\ DOMAIN T.row \subseteq 1..T.seq
  /\ \A i \in DOMAIN T.row : T.row[i] \in Records
  /\ T.latest \subseteq DOMAIN T.row

TypeOK == IsTable(db) /\ IsTable(cur) /\ curTransaction \in BOOLEAN

\* The constructor on a new file.
Init == db = EmptyTable /\ cur = EmptyTable /\ curTransaction = FALSE

\* A change of the table: outside a transaction it is committed at once, by
\* the CTxInfoView that Process and Undo open themselves.
Change(T) ==
  /\ cur' = T
  /\ db' = IF curTransaction THEN db ELSE T
  /\ UNCHANGED curTransaction

\* Process succeeds.  When it returns false nothing has changed.
Process(r) ==
  /\ IsValid(cur, r)
  /\ cur.seq < MaxRowid
  /\ Change(Inserted(cur, r))

\* Undo succeeds: the DELETE has matched a row.
Undo(r) ==
  /\ Undoable(cur, r) # {}
  /\ Change(Deleted(cur, r))

Reset == Change(EmptyTable)

BeginTransaction ==
  /\ ~curTransaction
  /\ curTransaction' = TRUE
  /\ UNCHANGED <<db, cur>>

\* Mutated form of Commit: the transaction object is deleted uncommitted.
CommitDropped ==
  /\ curTransaction
  /\ curTransaction' = FALSE
  /\ UNCHANGED <<db, cur>>

Commit ==
  /\ curTransaction
  /\ db' = cur
  /\ curTransaction' = FALSE
  /\ UNCHANGED cur

\* Rollback, or the destructor of a view that was not committed.
Rollback ==
  /\ curTransaction
  /\ cur' = db
  /\ curTransaction' = FALSE
  /\ UNCHANGED db

\* The process dies and the store is opened again on the committed file.
Restart ==
  /\ cur' = db
  /\ curTransaction' = FALSE
  /\ UNCHANGED db

Next ==
  \/ \E r \in Records : Process(r)
  \/ \E r \in Records : Undo(r)
  \/ Reset
  \/ BeginTransaction
  \/ Commit
  \/ Rollback
  \/ Restart

Spec == Init /\ [][Next]_vars
-----------------------------------------------------------------------------
\* is_latest marks the newest row of every address and key and no other.
LatestOk(T) ==
  \A a \in Addresses, k \in Keys :
    T.latest \cap IdsOf(T.row, a, k) = NewestOf(T.row, a, k)

\* A value of a unique key is the current one of one address only.
UniqueOk(T) ==
  \A k \in Keys, v \in Values : IsUniqueType(k) =>
    \A i, j \in LatestWith(T, k, v) : i = j

\* A key that is not of type normal has one row per address.
OnceOk(T) ==
  \A a \in Addresses, k \in Keys : ~IsOverwritable(k) =>
    \A i, j \in IdsOf(T.row, a, k) : i = j

\* Get (which asks for MAX(id)) and AddressesWithValue (which asks for
\* is_latest=1) speak of the same rows, whatever was undone in between, in
\* the open transaction and after a restart.
LatestIsNewest == LatestOk(cur) /\ LatestOk(db)

\* The exception "Unique key has multiple addresses for one value!" of
\* UniqueAddressWithValue is never thrown: IsValid only looks at the current
\* values, yet no undo makes an older claim of a value current again.
UniqueValues == UniqueOk(cur) /\ UniqueOk(db)

\* "A non-overwritable value has already been set": a key that is not of type
\* normal is written once per address.
WrittenOnce == OnceOk(cur) /\ OnceOk(db)

\* The rules of the key types hold of what is stored, undone or not: a unique
\* value has one owner, a key that is not overwritable one row per address.
KeyRules == UniqueValues /\ WrittenOnce

\* _Undo takes back exactly what the _Process before it did: after a Process
\* that succeeds, the Undo of the same record matches a row and leaves the
\* rows as they were, the is_latest column included.
UndoInvertsProcess ==
  \A r \in Records : IsValid(cur, r) =>
    LET T == Inserted(cur, r) IN
      /\ Undoable(T, r) # {}
      /\ Deleted(T, r).row = cur.row
      /\ Deleted(T, r).latest = cur.latest
=============================================================================
