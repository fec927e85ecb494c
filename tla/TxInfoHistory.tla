--------------------------- MODULE TxInfoHistory ----------------------------
(***************************************************************************)
(* What the info store promises, without rows, ids or is_latest: for every *)
(* address and key a stack of (value, source) entries, of which the top is *)
(* the current one, and a staged copy of all stacks that is either         *)
(* published as a whole or dropped.                                        *)
(***************************************************************************)
EXTENDS Integers, Sequences

CONSTANTS Addresses, Keys, Values, Sources, Records, KeyType, BadKeys,
          IDValues, NoValue

VARIABLES published,  \* the committed stacks
          staged,     \* the stacks the open transaction sees
          open        \* a transaction is open

histVars == <<published, staged, open>>

Entry(r) == [value |-> r.value, src |-> r.src]
NoHistory == [ak \in Addresses \X Keys |-> <<>>]

\* An entry may be pushed when its info is well formed, a key that is not of
\* type normal has no entry at that address yet, and a value of a unique key
\* is not the current one of any address.
MayPush(h, r) ==
  LET type == KeyType[r.key] IN
  /\ type # "invalid" /\ r.key \notin BadKeys /\ r.value # NoValue
  /\ type = "id" => r.value \in IDValues
  /\ type # "normal" => h[<<r.addr, r.key>>] = <<>>
  /\ type \in {"unique", "id"} =>
       \A a \in Addresses : LET s == h[<<a, r.key>>] IN
         s # <<>> => s[Len(s)].value # r.value

MayPop(h, r) == LET s == h[<<r.addr, r.key>>] IN s # <<>> /\ s[Len(s)] = Entry(r)

Pushed(h, r) == [h EXCEPT ![<<r.addr, r.key>>] = Append(@, Entry(r))]
Popped(h, r) == [h EXCEPT ![<<r.addr, r.key>>] = SubSeq(@, 1, Len(@) - 1)]

HInit == published = NoHistory /\ staged = NoHistory /\ open = FALSE

\* Outside a transaction a change is published at once.
Apply(h) ==
  /\ staged' = h
  /\ published' = IF open THEN published ELSE h
  /\ UNCHANGED open

Push(r)  == MayPush(staged, r) /\ Apply(Pushed(staged, r))
Pop(r)   == MayPop(staged, r) /\ Apply(Popped(staged, r))
Erase    == Apply(NoHistory)
Open     == ~open /\ open' = TRUE /\ UNCHANGED <<published, staged>>
Publish  == open /\ open' = FALSE /\ published' = staged /\ UNCHANGED staged
Drop     == open' = FALSE /\ staged' = published /\ UNCHANGED published

HNext ==
  \/ \E r \in Records : Push(r) \/ Pop(r)
  \/ Erase \/ Open \/ Publish \/ Drop

HSpec == HInit /\ [][HNext]_histVars
=============================================================================
