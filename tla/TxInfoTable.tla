---------------------------- MODULE TxInfoTable -----------------------------
(***************************************************************************)
(* The table TxDbEntry of the info store (txinfo.cpp) and the queries and  *)
(* updates CTxInfoStore makes on it, as operators.                         *)
(*                                                                         *)
(* A transaction input may carry infos: key/value pairs that are attached  *)
(* to the address the input spends from.  A row is an info together with   *)
(* the place it came from (block, transaction, input, position).  A table  *)
(* is its rows by id, the ids whose is_latest column is 1, and the last id *)
(* AUTOINCREMENT gave out.                                                 *)
(*                                                                         *)
(* Strings are opaque: KeyType gives a key's type, BadKeys are the keys    *)
(* whose string is empty or has a character that is not allowed, IDValues  *)
(* the values made of allowed characters only, NoValue the empty value.    *)
(***************************************************************************)
EXTENDS Integers

CONSTANTS Addresses, Keys, Values, Sources,
          Records,      \* the info records (TxInfoRecord) that may be stored
          KeyType,      \* TxInfoKey::type of each key
          BadKeys, IDValues, NoValue

Types == {"normal", "once", "unique", "id", "invalid"}

ASSUME TableAssumption ==
  /\ Records \subseteq
       [addr : Addresses, key : Keys, value : Values, src : Sources]
  /\ KeyType \in [Keys -> Types]

\* Initialize on a new file, and Reset: the sequence goes with the table.
EmptyTable == [row |-> [i \in {} |-> 0], latest |-> {}, seq |-> 0]

\* The ids of an address and a key in the rows f.
IdsOf(f, a, k) == {i \in DOMAIN f : f[i].addr = a /\ f[i].key = k}

\* The row "WHERE id = (SELECT MAX(id) ...)" selects, none or one: Get returns
\* its value, _Undo marks it as the latest.
NewestOf(f, a, k) ==
  {i \in IdsOf(f, a, k) : \A j \in IdsOf(f, a, k) : j <= i}

\* The rows AddressesWithValue finds.
LatestWith(T, k, v) ==
  {i \in T.latest : T.row[i].key = k /\ T.row[i].value = v}

IsUniqueType(k)   == KeyType[k] \in {"unique", "id"}
IsOverwritable(k) == KeyType[k] = "normal"

\* CTxInfo::IsValid
InfoIsValid(r) ==
  /\ KeyType[r.key] # "invalid"
  /\ r.key \notin BadKeys
  /\ r.value # NoValue
  /\ KeyType[r.key] = "id" => r.value \in IDValues

\* Mutated form of IsValid: unique values are not looked up.
IsValidNoLookup(T, r) ==
  /\ InfoIsValid(r)
  /\ ~IsOverwritable(r.key) => IdsOf(T.row, r.addr, r.key) = {}

\* CTxInfoStore::IsValid
IsValid(T, r) ==
  /\ InfoIsValid(r)
  /\ IsUniqueType(r.key) => LatestWith(T, r.key, r.value) = {}
  /\ ~IsOverwritable(r.key) => IdsOf(T.row, r.addr, r.key) = {}

\* Mutated form of Inserted: the older rows keep is_latest.
InsertedKeepLatest(T, r) ==
  LET id == T.seq + 1 IN
  [row    |-> [i \in DOMAIN T.row \cup {id} |-> IF i = id THEN r ELSE T.row[i]],
   latest |-> T.latest \cup {id},
   seq    |-> id]

\* The updates of _Process: the older rows lose is_latest, then the insert.
Inserted(T, r) ==
  LET id == T.seq + 1 IN
  [row    |-> [i \in DOMAIN T.row \cup {id} |-> IF i = id THEN r ELSE T.row[i]],
   latest |-> (T.latest \ IdsOf(T.row, r.addr, r.key)) \cup {id},
   seq    |-> id]

\* The rows the DELETE of _Undo matches.
Undoable(T, r) == {i \in T.latest : T.row[i] = r}

\* Mutated form of RowsLeft: the DELETE names the key and not the address.
RowsLeftOthers(T, r) ==
  [i \in {i \in DOMAIN T.row : T.row[i].key # r.key} |-> T.row[i]]

RowsLeft(T, r) == [i \in DOMAIN T.row \ Undoable(T, r) |-> T.row[i]]

\* Mutated form of Deleted: is_latest is not given to the row before.
DeletedOnly(T, r) ==
  [row    |-> RowsLeft(T, r),
   latest |-> T.latest \ Undoable(T, r),
   seq    |-> T.seq]

\* The updates of _Undo: the delete, then is_latest for the newest row left.
Deleted(T, r) ==
  [row    |-> RowsLeft(T, r),
   latest |-> (T.latest \ Undoable(T, r))
                \cup NewestOf(RowsLeft(T, r), r.addr, r.key),
   seq    |-> T.seq]
=============================================================================
