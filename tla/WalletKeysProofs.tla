-------------------------- MODULE WalletKeysProofs --------------------------
(***************************************************************************)
(* The keys of the wallet, for any number of reservations, any size of the *)
(* pool and any number of keys: none is handed out twice, none is lost,    *)
(* none stays unencrypted.                                                 *)
(*                                                                         *)
(* None of the three is inductive.  The invariant has two further ideas.   *)
(* A key, once generated, is on disk for ever, under encryption or not     *)
(* (KeysInv).  And a pool record has one user: an index is in setKeyPool,  *)
(* or reserved once, or held by GetKeyFromPool, and no two records have    *)
(* one key (PoolInv), as long as no record was written over a reserved     *)
(* index.                                                                  *)
(***************************************************************************)
EXTENDS WalletKeys, WellFoundedInduction, TLAPS

EncryptSteps == {"erase", "newkey", "newpool", "remove", "rename"}

WalletType == [mapKeys : SUBSET Key, mapCryptedKeys : SUBSET Key, fUseCrypto : BOOLEAN,
               fLocked : BOOLEAN, setKeyPool : SUBSET Index]

DiskType == [plain : SUBSET Key, crypted : SUBSET Key, mkey : BOOLEAN, slack : SUBSET Key,
             pool : [Index -> Key \cup {NoKey}], removed : BOOLEAN, rewrite : SUBSET Key]

OpType == [what : Holder \cup {"none", "refill", "get", "encrypt"},
           at : {"none", "topup", "pool", "take", "keep"} \cup EncryptSteps,
           key : Key \cup {NoKey}, index : Int]

ReserveType == [nIndex : Index \cup {-1}, key : Key \cup {NoKey}]

TypeInv ==
    /\ wallet \in WalletType /\ disk \in DiskType /\ op \in OpType
    /\ reserve \in [Holder -> ReserveType]
    /\ given \subseteq Key /\ nKeys \in 0..MaxKeys /\ overlapped \in BOOLEAN /\ skipped \in BOOLEAN
    /\ fShutdown \in BOOLEAN

\* Where the operation that holds cs_wallet can be.
OpInv ==
    /\ op.what = "none" <=> op.at = "none"
    /\ op.what = "encrypt" <=> op.at \in EncryptSteps
    /\ op.at \in {"pool", "newpool"} => op.key # NoKey
    /\ op.at = "newkey" => op.index \in 1..nTargetSize + 1
    /\ op.at = "newpool" => op.index \in 1..nTargetSize
    /\ op.at = "keep" => op.index \in Index /\ op.key # NoKey
    /\ \A h \in Holder : reserve[h].key # NoKey => reserve[h].nIndex # -1

\* Memory has the keys of wallet.dat, which has every key ever generated, all of them
\* encrypted or none; the copy that Rewrite makes has them too.
KeysInv ==
    /\ wallet.mapKeys = disk.plain /\ wallet.mapCryptedKeys = disk.crypted
    /\ wallet.fUseCrypto = disk.mkey /\ (wallet.fLocked => disk.mkey)
    /\ disk.plain = IF disk.mkey THEN {} ELSE 1..nKeys
    /\ disk.crypted = IF disk.mkey THEN 1..nKeys ELSE {}
    /\ op.what = "encrypt" => disk.mkey
    /\ op.at = "rename" => disk.removed
    /\ disk.removed => op.at \in {"rename", "none"} /\ disk.mkey
    /\ disk.removed \/ op.at = "remove" => disk.rewrite = 1..nKeys
    /\ disk.slack # {} => op.what = "encrypt" \/ skipped

\* Whoever has a key has one that was generated.
GeneratedInv ==
    /\ nKeys >= 1 /\ given \subseteq 1..nKeys
    /\ op.key <= nKeys
    /\ \A i \in Index : disk.pool[i] <= nKeys
    /\ \A h \in Holder : reserve[h].key <= nKeys

\* The key that is about to be written to the pool is nobody's yet, and no two records
\* have one key.
FreshInv ==
    /\ op.at \in {"pool", "newpool"} =>
         /\ op.key \notin given
         /\ \A i \in Index : disk.pool[i] # op.key
         /\ \A h \in Holder : reserve[h].key # op.key
    /\ \A i, j \in Index : i # j /\ disk.pool[i] # NoKey => disk.pool[i] # disk.pool[j]

\* A pool record has one user.
PoolInv ==
    ~overlapped =>
        /\ \A h \in Holder : reserve[h].nIndex # -1 =>
             /\ reserve[h].nIndex \notin wallet.setKeyPool
             /\ reserve[h].key # NoKey /\ disk.pool[reserve[h].nIndex] = reserve[h].key
        /\ \A g, h \in Holder : g # h /\ reserve[g].nIndex # -1 => reserve[g].nIndex # reserve[h].nIndex
        /\ op.at = "keep" =>
             /\ op.index \notin wallet.setKeyPool /\ disk.pool[op.index] = op.key
             /\ \A h \in Holder : reserve[h].nIndex # op.index
        /\ \A i \in wallet.setKeyPool : disk.pool[i] = NoKey => op.at = "erase" /\ i <= op.index
        /\ \A i \in Index : disk.pool[i] # NoKey => disk.pool[i] \notin given

IInv == TypeInv /\ OpInv /\ KeysInv /\ GeneratedInv /\ FreshInv /\ PoolInv

USE WalletKeysAssumption DEF Key, Index, NoKey

\* *setKeyPool.begin() is an element of a pool that is not empty.
LEMMA FirstOfIn ==
    ASSUME NEW S \in SUBSET Nat, S # {}
    PROVE  FirstOf(S) \in S
<1>1. PICK i \in S : \A j \in S : ~(<<j, i>> \in OpToRel(<, Nat))
    BY NatLessThanWellFounded, WFMin
<1>2. \A j \in S : ~(j < i)
    BY <1>1, Zenon DEF OpToRel
<1>3. \A j \in S : i <= j
    BY <1>2
<1> QED
    BY <1>3 DEF FirstOf

\* GenerateNewKey: the new key is in memory and on disk, and nothing else changes.
LEMMA Generated ==
    ASSUME TypeInv, KeysInv, GenerateNewKey
    PROVE  /\ nKeys' = nKeys + 1 /\ nKeys' \in 1..MaxKeys
           /\ wallet' \in WalletType /\ disk' \in DiskType
           /\ wallet'.setKeyPool = wallet.setKeyPool
           /\ wallet'.fUseCrypto = wallet.fUseCrypto /\ wallet'.fLocked = wallet.fLocked
           /\ disk'.mkey = disk.mkey /\ disk'.slack = disk.slack /\ disk'.pool = disk.pool
           /\ disk'.removed = disk.removed /\ disk'.rewrite = disk.rewrite
           /\ wallet'.mapKeys = disk'.plain /\ wallet'.mapCryptedKeys = disk'.crypted
           /\ disk'.plain = IF disk.mkey THEN {} ELSE 1..nKeys + 1
           /\ disk'.crypted = IF disk.mkey THEN 1..nKeys + 1 ELSE {}
<1>1. 1..nKeys + 1 = (1..nKeys) \cup {nKeys + 1} /\ nKeys + 1 \in Key
    BY DEF TypeInv, GenerateNewKey
<1>2. CASE wallet.fUseCrypto
  <2>1. /\ wallet' = [wallet EXCEPT !.mapCryptedKeys = @ \cup {nKeys + 1}]
        /\ disk' = [disk EXCEPT !.crypted = @ \cup {nKeys + 1}] /\ nKeys' = nKeys + 1
    BY <1>2 DEF GenerateNewKey
  <2>2. disk.mkey /\ nKeys' \in 1..MaxKeys
    BY <1>1, <1>2, <2>1 DEF KeysInv, TypeInv
  <2> QED
    BY <1>1, <2>1, <2>2 DEF TypeInv, KeysInv, WalletType, DiskType
<1>3. CASE ~wallet.fUseCrypto
  <2>1. /\ wallet' = [wallet EXCEPT !.mapKeys = @ \cup {nKeys + 1}]
        /\ disk' = [disk EXCEPT !.plain = @ \cup {nKeys + 1}] /\ nKeys' = nKeys + 1
    BY <1>3 DEF GenerateNewKey
  <2>2. ~disk.mkey /\ nKeys' \in 1..MaxKeys
    BY <1>1, <1>3, <2>1 DEF KeysInv, TypeInv
  <2> QED
    BY <1>1, <2>1, <2>2 DEF TypeInv, KeysInv, WalletType, DiskType
<1> QED
    BY <1>2, <1>3

\* WritePool, ErasePool: one record of the pool changes.
LEMMA PoolWritten ==
    ASSUME NEW d \in DiskType, NEW i \in Index, NEW k \in Key \cup {NoKey}
    PROVE  LET e == [d EXCEPT !.pool[i] = k] IN
           /\ e \in DiskType /\ e.pool = [d.pool EXCEPT ![i] = k]
           /\ e.plain = d.plain /\ e.crypted = d.crypted /\ e.mkey = d.mkey /\ e.slack = d.slack
           /\ e.removed = d.removed /\ e.rewrite = d.rewrite
    BY DEF DiskType

\* No operation is under way.
LEMMA NoOpType ==
    /\ NoOp \in OpType
    /\ NoOp.what = "none" /\ NoOp.at = "none" /\ NoOp.key = NoKey /\ NoOp.index = -1
    BY DEF NoOp, OpType, EncryptSteps

\* The wallet starts with an empty pool.
LEMMA InitInv == Init => IInv
<1> SUFFICES ASSUME Init PROVE IInv
    OBVIOUS
<1> USE DEF Init, LoadWallet, NoOp, NoReserve
<1>1. TypeInv
  <2>1. disk \in DiskType
    BY DEF DiskType
  <2>2. wallet \in WalletType
    BY <2>1 DEF DiskType, WalletType
  <2>3. op \in OpType
    BY NoOpType
  <2>4. reserve \in [Holder -> ReserveType]
    BY DEF ReserveType
  <2>5. given \subseteq Key /\ nKeys \in 0..MaxKeys
    OBVIOUS
  <2> QED
    BY <2>1, <2>2, <2>3, <2>4, <2>5 DEF TypeInv
<1>2. OpInv
    BY DEF OpInv, EncryptSteps
<1>3. KeysInv
    BY DEF KeysInv, EncryptSteps
<1>4. GeneratedInv
    BY DEF GeneratedInv
<1>5. FreshInv
    BY DEF FreshInv
<1>6. PoolInv
  <2>1. disk.pool = [i \in Index |-> IF i \in 2..nKeys THEN i ELSE NoKey]
    OBVIOUS
  <2>2. wallet.setKeyPool = {i \in Index : disk.pool[i] # NoKey}
    OBVIOUS
  <2> QED
    BY <2>1, <2>2 DEF PoolInv
<1> QED
    BY <1>1, <1>2, <1>3, <1>4, <1>5, <1>6 DEF IInv

\* Refill keeps the invariant.
LEMMA RefillInv ==
    ASSUME IInv, Refill
    PROVE  IInv'
<1> USE DEF Refill, Begin, NoOp
<1>0. TypeInv /\ OpInv /\ KeysInv /\ GeneratedInv /\ FreshInv /\ PoolInv
    BY DEF IInv
<1>1. TypeInv'
    BY <1>0 DEF TypeInv, WalletType, DiskType, OpType, ReserveType, OpInv, EncryptSteps
<1>2. OpInv'
    BY <1>0 DEF TypeInv, WalletType, DiskType, OpType, ReserveType, OpInv, EncryptSteps
<1>3. KeysInv'
    BY <1>0 DEF TypeInv, WalletType, DiskType, OpType, ReserveType, KeysInv, OpInv, EncryptSteps
<1>4. GeneratedInv'
    BY <1>0 DEF TypeInv, WalletType, DiskType, OpType, ReserveType, GeneratedInv, OpInv, EncryptSteps
<1>5. FreshInv'
    BY <1>0 DEF TypeInv, WalletType, DiskType, OpType, ReserveType, FreshInv, OpInv, EncryptSteps
<1>6. PoolInv'
    BY <1>0 DEF TypeInv, WalletType, DiskType, OpType, ReserveType, PoolInv, OpInv, EncryptSteps
<1> QED
    BY <1>1, <1>2, <1>3, <1>4, <1>5, <1>6 DEF IInv

\* GetKeyFromPool keeps the invariant.
LEMMA GetKeyFromPoolInv ==
    ASSUME IInv, GetKeyFromPool
    PROVE  IInv'
<1> USE DEF GetKeyFromPool, Begin, NoOp
<1>0. TypeInv /\ OpInv /\ KeysInv /\ GeneratedInv /\ FreshInv /\ PoolInv
    BY DEF IInv
<1>1. TypeInv'
    BY <1>0 DEF TypeInv, WalletType, DiskType, OpType, ReserveType, OpInv, EncryptSteps
<1>2. OpInv'
    BY <1>0 DEF TypeInv, WalletType, DiskType, OpType, ReserveType, OpInv, EncryptSteps
<1>3. KeysInv'
    BY <1>0 DEF TypeInv, WalletType, DiskType, OpType, ReserveType, KeysInv, OpInv, EncryptSteps
<1>4. GeneratedInv'
    BY <1>0 DEF TypeInv, WalletType, DiskType, OpType, ReserveType, GeneratedInv, OpInv, EncryptSteps
<1>5. FreshInv'
    BY <1>0 DEF TypeInv, WalletType, DiskType, OpType, ReserveType, FreshInv, OpInv, EncryptSteps
<1>6. PoolInv'
    BY <1>0 DEF TypeInv, WalletType, DiskType, OpType, ReserveType, PoolInv, OpInv, EncryptSteps
<1> QED
    BY <1>1, <1>2, <1>3, <1>4, <1>5, <1>6 DEF IInv

\* TopUpKey keeps the invariant.
LEMMA TopUpKeyInv ==
    ASSUME IInv, TopUpKey
    PROVE  IInv'
<1>0. TypeInv /\ OpInv /\ KeysInv /\ GeneratedInv /\ FreshInv /\ PoolInv
    BY DEF IInv
<1>g. GenerateNewKey
    BY DEF TopUpKey
<1>a. /\ op.at = "topup" /\ op'.at = "pool" /\ op'.key = nKeys + 1
      /\ op'.what = op.what /\ op'.index = op.index /\ op' \in OpType
      /\ reserve' = reserve /\ given' = given /\ overlapped' = overlapped /\ skipped' = skipped /\ fShutdown' = fShutdown
      /\ nKeys' = nKeys + 1 /\ nKeys' \in 1..MaxKeys
      /\ wallet' \in WalletType /\ disk' \in DiskType
      /\ wallet'.setKeyPool = wallet.setKeyPool
      /\ wallet'.fUseCrypto = wallet.fUseCrypto /\ wallet'.fLocked = wallet.fLocked
      /\ disk'.mkey = disk.mkey /\ disk'.slack = disk.slack /\ disk'.pool = disk.pool
      /\ disk'.removed = disk.removed /\ disk'.rewrite = disk.rewrite
      /\ wallet'.mapKeys = disk'.plain /\ wallet'.mapCryptedKeys = disk'.crypted
      /\ disk'.plain = IF disk.mkey THEN {} ELSE 1..nKeys + 1
      /\ disk'.crypted = IF disk.mkey THEN 1..nKeys + 1 ELSE {}
  <2>1. nKeys' = nKeys + 1 /\ nKeys' \in 1..MaxKeys
    BY <1>0, <1>g, Generated
  <2> QED
    BY <1>0, <1>g, <2>1, Generated DEF TopUpKey, TypeInv, OpType
<1>1. TypeInv'
    BY <1>0, <1>a DEF TypeInv, WalletType, DiskType, OpType, ReserveType, OpInv, EncryptSteps
<1>2. OpInv'
    BY <1>0, <1>a DEF TypeInv, WalletType, DiskType, OpType, ReserveType, OpInv, EncryptSteps
<1>3. KeysInv'
    BY <1>0, <1>a DEF TypeInv, WalletType, DiskType, OpType, ReserveType, KeysInv, OpInv, EncryptSteps
<1>4. GeneratedInv'
  <2>1. \A i \in Index : disk.pool[i] <= nKeys /\ disk.pool[i] \in Nat
    BY <1>0 DEF GeneratedInv, TypeInv, DiskType
  <2>2. \A g \in Holder : reserve[g].key <= nKeys /\ reserve[g].key \in Nat
    BY <1>0 DEF GeneratedInv, TypeInv, ReserveType
  <2>3. given \subseteq 1..nKeys /\ nKeys \in Nat
    BY <1>0 DEF GeneratedInv, TypeInv
  <2> QED
    BY <1>a, <2>1, <2>2, <2>3 DEF GeneratedInv
<1>5. FreshInv'
  <2>1. \A i \in Index : disk.pool[i] <= nKeys /\ disk.pool[i] \in Nat
    BY <1>0 DEF GeneratedInv, TypeInv, DiskType
  <2>2. \A g \in Holder : reserve[g].key <= nKeys /\ reserve[g].key \in Nat
    BY <1>0 DEF GeneratedInv, TypeInv, ReserveType
  <2>3. nKeys + 1 \notin given /\ nKeys \in Nat
    BY <1>0 DEF GeneratedInv, TypeInv
  <2> QED
    BY <1>0, <1>a, <2>1, <2>2, <2>3 DEF FreshInv
<1>6. PoolInv'
    BY <1>0, <1>a DEF TypeInv, WalletType, DiskType, OpType, ReserveType, PoolInv, OpInv, EncryptSteps
<1> QED
    BY <1>1, <1>2, <1>3, <1>4, <1>5, <1>6 DEF IInv

\* TopUpLocked keeps the invariant.
LEMMA TopUpLockedInv ==
    ASSUME IInv, TopUpLocked
    PROVE  IInv'
<1> USE DEF TopUpLocked, NoOp
<1>0. TypeInv /\ OpInv /\ KeysInv /\ GeneratedInv /\ FreshInv /\ PoolInv
    BY DEF IInv
<1>1. TypeInv'
    BY <1>0 DEF TypeInv, WalletType, DiskType, OpType, ReserveType, OpInv, EncryptSteps
<1>2. OpInv'
    BY <1>0 DEF TypeInv, WalletType, DiskType, OpType, ReserveType, OpInv, EncryptSteps
<1>3. KeysInv'
    BY <1>0 DEF TypeInv, WalletType, DiskType, OpType, ReserveType, KeysInv, OpInv, EncryptSteps
<1>4. GeneratedInv'
    BY <1>0 DEF TypeInv, WalletType, DiskType, OpType, ReserveType, GeneratedInv, OpInv, EncryptSteps
<1>5. FreshInv'
    BY <1>0 DEF TypeInv, WalletType, DiskType, OpType, ReserveType, FreshInv, OpInv, EncryptSteps
<1>6. PoolInv'
    BY <1>0 DEF TypeInv, WalletType, DiskType, OpType, ReserveType, PoolInv, OpInv, EncryptSteps
<1> QED
    BY <1>1, <1>2, <1>3, <1>4, <1>5, <1>6 DEF IInv

\* TopUpPool keeps the invariant.
LEMMA TopUpPoolInv ==
    ASSUME IInv, TopUpPool
    PROVE  IInv'
<1>0. TypeInv /\ OpInv /\ KeysInv /\ GeneratedInv /\ FreshInv /\ PoolInv
    BY DEF IInv
<1>a. /\ op.at = "pool" /\ op'.at = "topup" /\ op'.key = NoKey
      /\ op'.what = op.what /\ op' \in OpType
      /\ reserve' = reserve /\ given' = given /\ nKeys' = nKeys /\ skipped' = skipped /\ fShutdown' = fShutdown
      /\ NEnd \in Index
      /\ disk'.pool = [disk.pool EXCEPT ![NEnd] = op.key]
      /\ wallet'.setKeyPool = wallet.setKeyPool \cup {NEnd}
      /\ overlapped' = (overlapped \/ \E h \in Holder : reserve[h].nIndex = NEnd)
      /\ disk' \in DiskType
      /\ disk'.plain = disk.plain
      /\ disk'.crypted = disk.crypted
      /\ disk'.mkey = disk.mkey
      /\ disk'.slack = disk.slack
      /\ disk'.removed = disk.removed
      /\ disk'.rewrite = disk.rewrite
      /\ wallet' \in WalletType
      /\ wallet'.mapKeys = wallet.mapKeys
      /\ wallet'.mapCryptedKeys = wallet.mapCryptedKeys
      /\ wallet'.fUseCrypto = wallet.fUseCrypto
      /\ wallet'.fLocked = wallet.fLocked
    BY <1>0 DEF TopUpPool, WritePool, TypeInv, OpType, WalletType, DiskType
<1>1. TypeInv'
    BY <1>0, <1>a DEF TypeInv, WalletType, DiskType, OpType, ReserveType, OpInv, EncryptSteps
<1>2. OpInv'
    BY <1>0, <1>a DEF TypeInv, WalletType, DiskType, OpType, ReserveType, OpInv, EncryptSteps
<1>3. KeysInv'
    BY <1>0, <1>a DEF TypeInv, WalletType, DiskType, OpType, ReserveType, KeysInv, OpInv, EncryptSteps
<1>4. GeneratedInv'
    BY <1>0, <1>a DEF TypeInv, WalletType, DiskType, OpType, ReserveType, GeneratedInv, OpInv, EncryptSteps
<1>5. FreshInv'
    BY <1>0, <1>a DEF TypeInv, WalletType, DiskType, OpType, ReserveType, FreshInv, OpInv, EncryptSteps
<1>6. PoolInv'
  <2> SUFFICES ASSUME ~overlapped' PROVE PoolInv'
    BY DEF PoolInv
  <2>1. ~overlapped /\ \A g \in Holder : reserve[g].nIndex # NEnd
    BY <1>a
  <2>2. op.key # NoKey /\ op.key \notin given /\ disk.pool \in [Index -> Key \cup {NoKey}]
    BY <1>0, <1>a DEF OpInv, FreshInv, TypeInv, DiskType
  <2>3. \A g \in Holder : reserve'[g].nIndex # -1 =>
             /\ reserve'[g].nIndex \notin wallet'.setKeyPool
             /\ reserve'[g].key # NoKey /\ disk'.pool[reserve'[g].nIndex] = reserve'[g].key
    BY <1>0, <1>a, <2>1, <2>2 DEF PoolInv, TypeInv, ReserveType
  <2>4. \A j \in wallet'.setKeyPool : disk'.pool[j] = NoKey => op'.at = "erase" /\ j <= op'.index
    BY <1>0, <1>a, <2>1, <2>2 DEF PoolInv, TypeInv, WalletType
  <2>5. \A j \in Index : disk'.pool[j] # NoKey => disk'.pool[j] \notin given'
    BY <1>0, <1>a, <2>1, <2>2 DEF PoolInv
  <2> QED
    BY <1>0, <1>a, <2>1, <2>3, <2>4, <2>5 DEF PoolInv
<1> QED
    BY <1>1, <1>2, <1>3, <1>4, <1>5, <1>6 DEF IInv

\* RefillDone keeps the invariant.
LEMMA RefillDoneInv ==
    ASSUME IInv, RefillDone
    PROVE  IInv'
<1> USE DEF RefillDone, NoOp
<1>0. TypeInv /\ OpInv /\ KeysInv /\ GeneratedInv /\ FreshInv /\ PoolInv
    BY DEF IInv
<1>1. TypeInv'
    BY <1>0 DEF TypeInv, WalletType, DiskType, OpType, ReserveType, OpInv, EncryptSteps
<1>2. OpInv'
    BY <1>0 DEF TypeInv, WalletType, DiskType, OpType, ReserveType, OpInv, EncryptSteps
<1>3. KeysInv'
    BY <1>0 DEF TypeInv, WalletType, DiskType, OpType, ReserveType, KeysInv, OpInv, EncryptSteps
<1>4. GeneratedInv'
    BY <1>0 DEF TypeInv, WalletType, DiskType, OpType, ReserveType, GeneratedInv, OpInv, EncryptSteps
<1>5. FreshInv'
    BY <1>0 DEF TypeInv, WalletType, DiskType, OpType, ReserveType, FreshInv, OpInv, EncryptSteps
<1>6. PoolInv'
    BY <1>0 DEF TypeInv, WalletType, DiskType, OpType, ReserveType, PoolInv, OpInv, EncryptSteps
<1> QED
    BY <1>1, <1>2, <1>3, <1>4, <1>5, <1>6 DEF IInv

\* TakeNothing keeps the invariant.
LEMMA TakeNothingInv ==
    ASSUME IInv, TakeNothing
    PROVE  IInv'
<1>0. TypeInv /\ OpInv /\ KeysInv /\ GeneratedInv /\ FreshInv /\ PoolInv
    BY DEF IInv
<1>a. /\ op.at \in {"take", "topup"} /\ UNCHANGED <<wallet, disk, reserve, given, nKeys, overlapped, skipped, fShutdown>>
      /\ op'.what = "none" /\ op'.at = "none" /\ op'.key = NoKey /\ op'.index = -1 /\ op' \in OpType
    BY DEF TakeNothing, Taking, NoOp, OpType, EncryptSteps
<1>1. TypeInv'
    BY <1>0, <1>a DEF TypeInv, WalletType, DiskType, OpType, ReserveType, OpInv, EncryptSteps
<1>2. OpInv'
    BY <1>0, <1>a DEF TypeInv, WalletType, DiskType, OpType, ReserveType, OpInv, EncryptSteps
<1>3. KeysInv'
    BY <1>0, <1>a DEF TypeInv, WalletType, DiskType, OpType, ReserveType, KeysInv, OpInv, EncryptSteps
<1>4. GeneratedInv'
    BY <1>0, <1>a DEF TypeInv, WalletType, DiskType, OpType, ReserveType, GeneratedInv, OpInv, EncryptSteps
<1>5. FreshInv'
    BY <1>0, <1>a DEF TypeInv, WalletType, DiskType, OpType, ReserveType, FreshInv, OpInv, EncryptSteps
<1>6. PoolInv'
    BY <1>0, <1>a DEF TypeInv, WalletType, DiskType, OpType, ReserveType, PoolInv, OpInv, EncryptSteps
<1> QED
    BY <1>1, <1>2, <1>3, <1>4, <1>5, <1>6 DEF IInv

\* Take: the first index of the pool leaves it, with its key.
LEMMA TakeInv ==
    ASSUME IInv, Take
    PROVE  IInv'
<1> DEFINE i == FirstOf(wallet.setKeyPool)
           k == disk.pool[i]
<1>0. TypeInv /\ OpInv /\ KeysInv /\ GeneratedInv /\ FreshInv /\ PoolInv
    BY DEF IInv
<1>i. i \in wallet.setKeyPool /\ i \in Index /\ k \in Key \cup {NoKey}
  <2>1. wallet.setKeyPool # {} /\ wallet.setKeyPool \in SUBSET Nat
    BY <1>0 DEF Take, TypeInv, WalletType
  <2>2. i \in wallet.setKeyPool
    BY <2>1, FirstOfIn
  <2> QED
    BY <1>0, <2>2 DEF TypeInv, WalletType, DiskType
<1>b. /\ wallet'.setKeyPool = wallet.setKeyPool \ {i}
      /\ disk' = disk /\ given' = given /\ nKeys' = nKeys
      /\ overlapped' = overlapped /\ skipped' = skipped /\ fShutdown' = fShutdown
      /\ op.at \in {"take", "topup"} /\ op.what \in Holder \cup {"get"}
      /\ wallet' \in WalletType
      /\ wallet'.mapKeys = wallet.mapKeys
      /\ wallet'.mapCryptedKeys = wallet.mapCryptedKeys
      /\ wallet'.fUseCrypto = wallet.fUseCrypto
      /\ wallet'.fLocked = wallet.fLocked
    BY <1>0 DEF Take, Taking, TypeInv, WalletType
<1>c. k # NoKey => HaveKey(k)
  <2>1. k # NoKey => k \in 1..nKeys
    BY <1>0, <1>i DEF GeneratedInv, TypeInv
  <2> QED
    BY <1>0, <2>1 DEF KeysInv, HaveKey
<1>d. ~overlapped => k # NoKey
    BY <1>0, <1>b, <1>i DEF PoolInv
<1>5. CASE op.what \in Holder
  <2>a. /\ reserve' = [reserve EXCEPT ![op.what] = [nIndex |-> i, key |-> k]]
        /\ op'.what = "none" /\ op'.at = "none" /\ op'.key = NoKey /\ op'.index = -1 /\ op' \in OpType
    BY <1>5, <1>c, <1>i DEF Take, NoOp, OpType, EncryptSteps
  <2>r. /\ reserve'[op.what].nIndex = i /\ reserve'[op.what].key = k
        /\ \A g \in Holder : g # op.what => reserve'[g] = reserve[g]
        /\ reserve' \in [Holder -> ReserveType]
    BY <1>5, <1>0, <1>i, <2>a DEF TypeInv, ReserveType
  <2>1. TypeInv'
    BY <1>0, <1>b, <2>a, <2>r DEF TypeInv
  <2>2. OpInv'
    BY <1>0, <1>i, <2>a, <2>r DEF OpInv, EncryptSteps
  <2>3. KeysInv'
    BY <1>0, <1>b, <2>a DEF KeysInv
  <2>4. GeneratedInv'
    BY <1>0, <1>b, <1>i, <2>a, <2>r DEF GeneratedInv, TypeInv
  <2>5. FreshInv'
    BY <1>0, <1>b, <2>a DEF FreshInv
  <2>6. PoolInv'
    BY <1>0, <1>b, <1>d, <1>i, <2>a, <2>r DEF PoolInv
  <2> QED
    BY <2>1, <2>2, <2>3, <2>4, <2>5, <2>6 DEF IInv
<1>6. CASE op.what = "get"
  <2>1. CASE k = NoKey
    <3>a. /\ reserve' = reserve /\ op'.what = "none" /\ op'.at = "none" /\ op'.key = NoKey
          /\ op'.index = -1 /\ op' \in OpType /\ overlapped
      BY <1>6, <1>d, <2>1 DEF Take, NoOp, OpType, EncryptSteps
    <3>1. TypeInv' /\ OpInv' /\ KeysInv' /\ GeneratedInv' /\ FreshInv' /\ PoolInv'
      BY <1>0, <1>b, <3>a DEF TypeInv, OpInv, KeysInv, GeneratedInv, FreshInv, PoolInv, EncryptSteps
    <3> QED BY <3>1 DEF IInv
  <2>2. CASE k # NoKey
    <3>a. /\ reserve' = reserve /\ op'.what = "get" /\ op'.at = "keep" /\ op'.key = k
          /\ op'.index = i /\ op' \in OpType
      <4>1. op' = [op EXCEPT !.at = "keep", !.key = k, !.index = i]
        BY <1>6, <1>c, <2>2 DEF Take
      <4>r. reserve' = reserve
        BY <1>6, <1>c, <2>2 DEF Take
      <4>2. op' = [what |-> "get", at |-> "keep", key |-> k, index |-> i]
        BY <1>0, <1>6, <4>1 DEF TypeInv, OpType
      <4> QED
        BY <1>i, <4>r, <4>2 DEF OpType
    <3>1. TypeInv' /\ OpInv' /\ KeysInv' /\ GeneratedInv' /\ FreshInv'
      BY <1>0, <1>b, <1>i, <2>2, <3>a DEF TypeInv, OpInv, KeysInv, GeneratedInv, FreshInv, EncryptSteps
    <3>2. PoolInv'
      BY <1>0, <1>b, <1>i, <2>2, <3>a DEF PoolInv, TypeInv, WalletType
    <3> QED BY <3>1, <3>2 DEF IInv
  <2> QED BY <2>1, <2>2
<1> QED
    BY <1>5, <1>6, <1>b

\* GetKeep keeps the invariant.
LEMMA GetKeepInv ==
    ASSUME IInv, GetKeep
    PROVE  IInv'
<1>0. TypeInv /\ OpInv /\ KeysInv /\ GeneratedInv /\ FreshInv /\ PoolInv
    BY DEF IInv
<1>a. /\ op.at = "keep" /\ op.index \in Index
      /\ disk'.pool = [disk.pool EXCEPT ![op.index] = NoKey]
      /\ given' = given \cup {op.key} /\ op.key \in Key
      /\ wallet' = wallet /\ reserve' = reserve /\ nKeys' = nKeys
      /\ overlapped' = overlapped /\ skipped' = skipped /\ fShutdown' = fShutdown
      /\ disk' \in DiskType
      /\ disk'.plain = disk.plain
      /\ disk'.crypted = disk.crypted
      /\ disk'.mkey = disk.mkey
      /\ disk'.slack = disk.slack
      /\ disk'.removed = disk.removed
      /\ disk'.rewrite = disk.rewrite
      /\ op'.what = "none" /\ op'.at = "none" /\ op'.key = NoKey /\ op'.index = -1 /\ op' \in OpType
  <2>1. op.at = "keep" /\ op.index \in Index /\ op.key \in Key /\ disk \in DiskType
    BY <1>0 DEF GetKeep, OpInv, TypeInv, OpType
  <2>2. disk' = [disk EXCEPT !.pool[op.index] = NoKey] /\ op' = NoOp
    BY DEF GetKeep
  <2> QED
    BY <2>1, <2>2, PoolWritten, NoOpType DEF GetKeep
<1>1. TypeInv'
    BY <1>0, <1>a DEF TypeInv, WalletType, DiskType, OpType, ReserveType, OpInv, EncryptSteps
<1>2. OpInv'
    BY <1>0, <1>a DEF TypeInv, WalletType, DiskType, OpType, ReserveType, OpInv, EncryptSteps
<1>3. KeysInv'
    BY <1>0, <1>a DEF TypeInv, WalletType, DiskType, OpType, ReserveType, KeysInv, OpInv, EncryptSteps
<1>4. GeneratedInv'
  <2>1. op'.key <= nKeys /\ \A i \in Index : disk'.pool[i] <= nKeys
    BY <1>0, <1>a DEF GeneratedInv, TypeInv, DiskType, OpType
  <2>2. op.key \in 1..nKeys
    BY <1>0, <1>a DEF GeneratedInv, TypeInv
  <2>3. given' \subseteq 1..nKeys'
    BY <1>0, <1>a, <2>2 DEF GeneratedInv
  <2>4. \A g \in Holder : reserve'[g].key <= nKeys'
    BY <1>0, <1>a DEF GeneratedInv, TypeInv, ReserveType
  <2> QED
    BY <1>0, <1>a, <2>1, <2>3, <2>4 DEF GeneratedInv
<1>5. FreshInv'
    BY <1>0, <1>a DEF TypeInv, WalletType, DiskType, OpType, ReserveType, FreshInv, OpInv, EncryptSteps
<1>6. PoolInv'
  <2> SUFFICES ASSUME ~overlapped PROVE PoolInv'
    BY <1>a DEF PoolInv
  <2>1. disk.pool[op.index] = op.key /\ op.index \notin wallet.setKeyPool /\ op.key # NoKey
        /\ \A g \in Holder : reserve[g].nIndex # op.index
    BY <1>0, <1>a DEF PoolInv, OpInv
  <2>2. \A i \in Index : disk'.pool[i] = IF i = op.index THEN NoKey ELSE disk.pool[i]
    BY <1>0, <1>a DEF TypeInv, DiskType
  <2>3. \A i \in Index : disk'.pool[i] # NoKey => disk'.pool[i] \notin given'
    BY <1>0, <1>a, <2>1, <2>2 DEF PoolInv, FreshInv
  <2> QED
    BY <1>0, <1>a, <2>1, <2>2, <2>3 DEF PoolInv, TypeInv, WalletType, ReserveType
<1> QED
    BY <1>1, <1>2, <1>3, <1>4, <1>5, <1>6 DEF IInv

\* GetReservedKey keeps the invariant.
LEMMA GetReservedKeyInv ==
    ASSUME IInv, NEW h \in Holder, GetReservedKey(h)
    PROVE  IInv'
<1> USE DEF GetReservedKey, Begin, NoOp
<1>0. TypeInv /\ OpInv /\ KeysInv /\ GeneratedInv /\ FreshInv /\ PoolInv
    BY DEF IInv
<1>1. TypeInv'
    BY <1>0 DEF TypeInv, WalletType, DiskType, OpType, ReserveType, OpInv, EncryptSteps
<1>2. OpInv'
    BY <1>0 DEF TypeInv, WalletType, DiskType, OpType, ReserveType, OpInv, EncryptSteps
<1>3. KeysInv'
    BY <1>0 DEF TypeInv, WalletType, DiskType, OpType, ReserveType, KeysInv, OpInv, EncryptSteps
<1>4. GeneratedInv'
    BY <1>0 DEF TypeInv, WalletType, DiskType, OpType, ReserveType, GeneratedInv, OpInv, EncryptSteps
<1>5. FreshInv'
    BY <1>0 DEF TypeInv, WalletType, DiskType, OpType, ReserveType, FreshInv, OpInv, EncryptSteps
<1>6. PoolInv'
    BY <1>0 DEF TypeInv, WalletType, DiskType, OpType, ReserveType, PoolInv, OpInv, EncryptSteps
<1> QED
    BY <1>1, <1>2, <1>3, <1>4, <1>5, <1>6 DEF IInv

\* KeepKey keeps the invariant.
LEMMA KeepKeyInv ==
    ASSUME IInv, NEW h \in Holder, KeepKey(h)
    PROVE  IInv'
<1>0. TypeInv /\ OpInv /\ KeysInv /\ GeneratedInv /\ FreshInv /\ PoolInv
    BY DEF IInv
<1>a. /\ reserve[h].nIndex \in Index /\ reserve[h].key \in Key /\ ~disk.removed
      /\ disk'.pool = [disk.pool EXCEPT ![reserve[h].nIndex] = NoKey]
      /\ given' = given \cup {reserve[h].key}
      /\ reserve'[h].nIndex = -1 /\ reserve'[h].key = NoKey
      /\ \A g \in Holder : g # h => reserve'[g] = reserve[g]
      /\ reserve' \in [Holder -> ReserveType]
      /\ wallet' = wallet /\ op' = op /\ nKeys' = nKeys
      /\ overlapped' = overlapped /\ skipped' = skipped /\ fShutdown' = fShutdown
      /\ disk' \in DiskType
      /\ disk'.plain = disk.plain
      /\ disk'.crypted = disk.crypted
      /\ disk'.mkey = disk.mkey
      /\ disk'.slack = disk.slack
      /\ disk'.removed = disk.removed
      /\ disk'.rewrite = disk.rewrite
    BY <1>0 DEF KeepKey, OpInv, NoReserve, TypeInv, ReserveType, DiskType
<1>1. TypeInv'
    BY <1>0, <1>a, ZenonT(60) DEF TypeInv, WalletType, DiskType, OpType, ReserveType, OpInv, EncryptSteps
<1>2. OpInv'
    BY <1>0, <1>a DEF TypeInv, WalletType, DiskType, OpType, ReserveType, OpInv, EncryptSteps
<1>3. KeysInv'
    BY <1>0, <1>a DEF TypeInv, WalletType, DiskType, OpType, ReserveType, KeysInv, OpInv, EncryptSteps
<1>4. GeneratedInv'
  <2>1. op'.key <= nKeys /\ \A i \in Index : disk'.pool[i] <= nKeys
    BY <1>0, <1>a DEF GeneratedInv, TypeInv, DiskType, OpType
  <2>2. reserve[h].key \in 1..nKeys
    BY <1>0, <1>a DEF GeneratedInv, TypeInv
  <2>3. given' \subseteq 1..nKeys'
    BY <1>0, <1>a, <2>2 DEF GeneratedInv
  <2>4. \A g \in Holder : reserve'[g].key <= nKeys'
    BY <1>0, <1>a DEF GeneratedInv, TypeInv, ReserveType
  <2> QED
    BY <1>0, <1>a, <2>1, <2>3, <2>4 DEF GeneratedInv
<1>5. FreshInv'
  <2>1. \A i \in Index : disk'.pool[i] = IF i = reserve[h].nIndex THEN NoKey ELSE disk.pool[i]
    BY <1>0, <1>a DEF TypeInv, DiskType
  <2>2. \A g \in Holder : reserve'[g].key = IF g = h THEN NoKey ELSE reserve[g].key
    BY <1>a
  <2>3. op.at \in {"pool", "newpool"} => op.key # NoKey /\ op.key # reserve[h].key
    BY <1>0 DEF OpInv, FreshInv
  <2> QED
    BY <1>0, <1>a, <2>1, <2>2, <2>3 DEF FreshInv
<1>6. PoolInv'
  <2> SUFFICES ASSUME ~overlapped PROVE PoolInv'
    BY <1>a DEF PoolInv
  <2>1. /\ disk.pool[reserve[h].nIndex] = reserve[h].key
        /\ reserve[h].nIndex \notin wallet.setKeyPool
        /\ \A g \in Holder : g # h => reserve[g].nIndex # reserve[h].nIndex
        /\ op.at = "keep" => reserve[h].nIndex # op.index
    BY <1>0, <1>a DEF PoolInv
  <2>2. \A i \in Index : disk'.pool[i] = IF i = reserve[h].nIndex THEN NoKey ELSE disk.pool[i]
    BY <1>0, <1>a DEF TypeInv, DiskType
  <2>3. \A i \in Index : disk'.pool[i] # NoKey => disk'.pool[i] \notin given'
    BY <1>0, <1>a, <2>1, <2>2 DEF PoolInv, FreshInv
  <2>4. \A g \in Holder : reserve'[g].nIndex # -1 =>
             /\ reserve'[g].nIndex \notin wallet'.setKeyPool
             /\ reserve'[g].key # NoKey /\ disk'.pool[reserve'[g].nIndex] = reserve'[g].key
    BY <1>0, <1>a, <2>1, <2>2 DEF PoolInv, TypeInv, ReserveType
  <2>5. op'.at = "keep" =>
             /\ op'.index \notin wallet'.setKeyPool /\ disk'.pool[op'.index] = op'.key
             /\ \A g \in Holder : reserve'[g].nIndex # op'.index
    BY <1>0, <1>a, <2>1, <2>2 DEF PoolInv, OpInv
  <2>6. \A i \in wallet'.setKeyPool : disk'.pool[i] = NoKey => op'.at = "erase" /\ i <= op'.index
    BY <1>0, <1>a, <2>1, <2>2 DEF PoolInv, TypeInv, WalletType
  <2>7. \A f, g \in Holder : f # g /\ reserve'[f].nIndex # -1 => reserve'[f].nIndex # reserve'[g].nIndex
    BY <1>0, <1>a DEF PoolInv
  <2> QED
    BY <2>3, <2>4, <2>5, <2>6, <2>7 DEF PoolInv
<1> QED
    BY <1>1, <1>2, <1>3, <1>4, <1>5, <1>6 DEF IInv

\* ReturnKey keeps the invariant.
LEMMA ReturnKeyInv ==
    ASSUME IInv, NEW h \in Holder, ReturnKey(h)
    PROVE  IInv'
<1>0. TypeInv /\ OpInv /\ KeysInv /\ GeneratedInv /\ FreshInv /\ PoolInv
    BY DEF IInv
<1>a. /\ reserve[h].nIndex \in Index /\ op.at = "none"
      /\ wallet'.setKeyPool = wallet.setKeyPool \cup {reserve[h].nIndex}
      /\ reserve'[h].nIndex = -1 /\ reserve'[h].key = NoKey
      /\ \A g \in Holder : g # h => reserve'[g] = reserve[g]
      /\ reserve' \in [Holder -> ReserveType]
      /\ disk' = disk /\ op' = op /\ nKeys' = nKeys /\ given' = given
      /\ overlapped' = overlapped /\ skipped' = skipped /\ fShutdown' = fShutdown
      /\ wallet' \in WalletType
      /\ wallet'.mapKeys = wallet.mapKeys
      /\ wallet'.mapCryptedKeys = wallet.mapCryptedKeys
      /\ wallet'.fUseCrypto = wallet.fUseCrypto
      /\ wallet'.fLocked = wallet.fLocked
    BY <1>0 DEF ReturnKey, NoReserve, NoOp, TypeInv, ReserveType, WalletType
<1>1. TypeInv'
    BY <1>0, <1>a DEF TypeInv, WalletType, DiskType, OpType, ReserveType, OpInv, EncryptSteps
<1>2. OpInv'
    BY <1>0, <1>a, SMTT(60) DEF TypeInv, WalletType, DiskType, OpType, ReserveType, OpInv, EncryptSteps
<1>3. KeysInv'
    BY <1>0, <1>a DEF TypeInv, WalletType, DiskType, OpType, ReserveType, KeysInv, OpInv, EncryptSteps
<1>4. GeneratedInv'
  <2>1. nKeys \in Nat /\ nKeys >= 1
    BY <1>0 DEF GeneratedInv, TypeInv
  <2>2. \A g \in Holder : reserve'[g].key <= nKeys'
    BY <1>0, <1>a, <2>1 DEF GeneratedInv
  <2>3. /\ nKeys' >= 1 /\ given' \subseteq 1..nKeys' /\ op'.key <= nKeys'
        /\ \A i \in Index : disk'.pool[i] <= nKeys'
    BY <1>0, <1>a DEF GeneratedInv
  <2> QED
    BY <2>2, <2>3 DEF GeneratedInv
<1>5. FreshInv'
    BY <1>0, <1>a DEF TypeInv, WalletType, DiskType, OpType, ReserveType, FreshInv, OpInv, EncryptSteps
<1>6. PoolInv'
  <2> SUFFICES ASSUME ~overlapped PROVE PoolInv'
    BY <1>a DEF PoolInv
  <2>1. /\ disk.pool[reserve[h].nIndex] # NoKey
        /\ \A g \in Holder : g # h => reserve[g].nIndex # reserve[h].nIndex
    BY <1>0, <1>a DEF PoolInv
  <2>2. \A g \in Holder : reserve'[g].nIndex # -1 =>
             /\ reserve'[g].nIndex \notin wallet'.setKeyPool
             /\ reserve'[g].key # NoKey /\ disk'.pool[reserve'[g].nIndex] = reserve'[g].key
    BY <1>0, <1>a, <2>1 DEF PoolInv
  <2>3. \A f, g \in Holder : f # g /\ reserve'[f].nIndex # -1 => reserve'[f].nIndex # reserve'[g].nIndex
    BY <1>0, <1>a DEF PoolInv
  <2> QED
    BY <1>0, <1>a, <2>1, <2>2, <2>3 DEF PoolInv
<1> QED
    BY <1>1, <1>2, <1>3, <1>4, <1>5, <1>6 DEF IInv

\* Lock keeps the invariant.
LEMMA LockInv ==
    ASSUME IInv, Lock
    PROVE  IInv'
<1> USE DEF Lock
<1>0. TypeInv /\ OpInv /\ KeysInv /\ GeneratedInv /\ FreshInv /\ PoolInv
    BY DEF IInv
<1>1. TypeInv'
    BY <1>0 DEF TypeInv, WalletType, DiskType, OpType, ReserveType, OpInv, EncryptSteps
<1>2. OpInv'
    BY <1>0 DEF TypeInv, WalletType, DiskType, OpType, ReserveType, OpInv, EncryptSteps
<1>3. KeysInv'
    BY <1>0 DEF TypeInv, WalletType, DiskType, OpType, ReserveType, KeysInv, OpInv, EncryptSteps
<1>4. GeneratedInv'
    BY <1>0 DEF TypeInv, WalletType, DiskType, OpType, ReserveType, GeneratedInv, OpInv, EncryptSteps
<1>5. FreshInv'
    BY <1>0 DEF TypeInv, WalletType, DiskType, OpType, ReserveType, FreshInv, OpInv, EncryptSteps
<1>6. PoolInv'
    BY <1>0 DEF TypeInv, WalletType, DiskType, OpType, ReserveType, PoolInv, OpInv, EncryptSteps
<1> QED
    BY <1>1, <1>2, <1>3, <1>4, <1>5, <1>6 DEF IInv

\* Unlock keeps the invariant.
LEMMA UnlockInv ==
    ASSUME IInv, Unlock
    PROVE  IInv'
<1> USE DEF Unlock
<1>0. TypeInv /\ OpInv /\ KeysInv /\ GeneratedInv /\ FreshInv /\ PoolInv
    BY DEF IInv
<1>1. TypeInv'
    BY ZenonT(60), <1>0 DEF TypeInv, WalletType, DiskType, OpType, ReserveType, OpInv, EncryptSteps
<1>2. OpInv'
    BY <1>0 DEF TypeInv, WalletType, DiskType, OpType, ReserveType, OpInv, EncryptSteps
<1>3. KeysInv'
    BY <1>0 DEF TypeInv, WalletType, DiskType, OpType, ReserveType, KeysInv, OpInv, EncryptSteps
<1>4. GeneratedInv'
    BY <1>0 DEF TypeInv, WalletType, DiskType, OpType, ReserveType, GeneratedInv, OpInv, EncryptSteps
<1>5. FreshInv'
    BY <1>0 DEF TypeInv, WalletType, DiskType, OpType, ReserveType, FreshInv, OpInv, EncryptSteps
<1>6. PoolInv'
    BY <1>0 DEF TypeInv, WalletType, DiskType, OpType, ReserveType, PoolInv, OpInv, EncryptSteps
<1> QED
    BY <1>1, <1>2, <1>3, <1>4, <1>5, <1>6 DEF IInv

\* EncryptWallet keeps the invariant.
LEMMA EncryptWalletInv ==
    ASSUME IInv, EncryptWallet
    PROVE  IInv'
<1>0. TypeInv /\ OpInv /\ KeysInv /\ GeneratedInv /\ FreshInv /\ PoolInv
    BY DEF IInv
<1>a. /\ op.at = "none" /\ ~disk.mkey
      /\ wallet'.fUseCrypto /\ wallet'.mapKeys = {} /\ wallet'.mapCryptedKeys = 1..nKeys
      /\ disk'.mkey /\ disk'.crypted = 1..nKeys /\ disk'.plain = {}
      /\ op'.what = "encrypt" /\ op'.at = "erase" /\ op'.key = NoKey /\ op'.index = 0 /\ op' \in OpType
      /\ reserve' = reserve /\ given' = given /\ nKeys' = nKeys
      /\ overlapped' = overlapped /\ skipped' = skipped /\ fShutdown' = fShutdown
      /\ disk' \in DiskType
      /\ disk'.pool = disk.pool
      /\ disk'.removed = disk.removed
      /\ disk'.rewrite = disk.rewrite
      /\ wallet' \in WalletType
      /\ wallet'.fLocked = wallet.fLocked
      /\ wallet'.setKeyPool = wallet.setKeyPool
  <2>1. op = NoOp /\ wallet.mapKeys = 1..nKeys /\ ~disk.mkey /\ disk.plain = 1..nKeys
    BY <1>0 DEF EncryptWallet, KeysInv
  <2>2. /\ wallet' = [wallet EXCEPT !.fUseCrypto = TRUE, !.mapCryptedKeys = wallet.mapKeys, !.mapKeys = {}]
        /\ disk' = [disk EXCEPT !.mkey = TRUE, !.crypted = wallet.mapKeys,
                                !.plain = @ \ wallet.mapKeys, !.slack = @ \cup wallet.mapKeys]
        /\ op' = [NoOp EXCEPT !.what = "encrypt", !.at = "erase", !.index = 0]
    BY DEF EncryptWallet, EncryptKeys
  <2>3. /\ wallet'.fUseCrypto /\ wallet'.mapKeys = {} /\ wallet'.mapCryptedKeys = 1..nKeys
        /\ wallet' \in WalletType
        /\ wallet'.fLocked = wallet.fLocked /\ wallet'.setKeyPool = wallet.setKeyPool
    BY <1>0, <2>1, <2>2 DEF TypeInv, WalletType
  <2>4. /\ disk'.mkey /\ disk'.crypted = 1..nKeys /\ disk'.plain = {} /\ disk' \in DiskType
        /\ disk'.pool = disk.pool /\ disk'.removed = disk.removed /\ disk'.rewrite = disk.rewrite
    BY <1>0, <2>1, <2>2 DEF TypeInv, WalletType, DiskType
  <2>5. op'.what = "encrypt" /\ op'.at = "erase" /\ op'.key = NoKey /\ op'.index = 0 /\ op' \in OpType
    <3>1. op' = [what |-> "encrypt", at |-> "erase", key |-> NoKey, index |-> 0]
      BY <2>2 DEF NoOp
    <3> QED
      BY <3>1 DEF OpType, EncryptSteps
  <2> QED
    BY <2>1, <2>3, <2>4, <2>5, NoOpType DEF EncryptWallet
<1>1. TypeInv'
    BY <1>0, <1>a DEF TypeInv, WalletType, DiskType, OpType, ReserveType, OpInv, EncryptSteps
<1>2. OpInv'
    BY <1>0, <1>a DEF TypeInv, WalletType, DiskType, OpType, ReserveType, OpInv, EncryptSteps
<1>3. KeysInv'
    BY <1>0, <1>a DEF TypeInv, WalletType, DiskType, OpType, ReserveType, KeysInv, OpInv, EncryptSteps
<1>4. GeneratedInv'
    BY <1>0, <1>a DEF TypeInv, WalletType, DiskType, OpType, ReserveType, GeneratedInv, OpInv, EncryptSteps
<1>5. FreshInv'
    BY <1>0, <1>a DEF TypeInv, WalletType, DiskType, OpType, ReserveType, FreshInv, OpInv, EncryptSteps
<1>6. PoolInv'
    BY <1>0, <1>a DEF TypeInv, WalletType, DiskType, OpType, ReserveType, PoolInv, OpInv, EncryptSteps
<1> QED
    BY <1>1, <1>2, <1>3, <1>4, <1>5, <1>6 DEF IInv

\* NewKeyPool erases the old records, index by index, and then empties the pool.
LEMMA NewPoolEraseInv ==
    ASSUME IInv, NewPoolErase
    PROVE  IInv'
<1> DEFINE left == {i \in wallet.setKeyPool : i > op.index}
           first == FirstOf(left)
<1>0. TypeInv /\ OpInv /\ KeysInv /\ GeneratedInv /\ FreshInv /\ PoolInv
    BY DEF IInv
<1>b. /\ op.at = "erase" /\ reserve' = reserve /\ given' = given /\ nKeys' = nKeys
      /\ overlapped' = overlapped /\ skipped' = skipped /\ fShutdown' = fShutdown
    BY DEF NewPoolErase
<1>1. CASE left # {}
  <2>1. left \in SUBSET Nat
    BY <1>0 DEF TypeInv, WalletType
  <2>2. first \in left
    BY <1>1, <2>1, FirstOfIn
  <2>3. first \in wallet.setKeyPool /\ first \in Index /\ first > op.index
    BY <1>0, <2>2 DEF TypeInv, WalletType
  <2>a. /\ disk'.pool = [disk.pool EXCEPT ![first] = NoKey]
        /\ op'.index = first /\ op'.at = "erase" /\ op'.what = op.what /\ op'.key = op.key
        /\ op' \in OpType /\ wallet' = wallet
        /\ disk' \in DiskType
        /\ disk'.plain = disk.plain
        /\ disk'.crypted = disk.crypted
        /\ disk'.mkey = disk.mkey
        /\ disk'.slack = disk.slack
        /\ disk'.removed = disk.removed
        /\ disk'.rewrite = disk.rewrite
    <3>1. /\ disk' = [disk EXCEPT !.pool[first] = NoKey] /\ op' = [op EXCEPT !.index = first]
          /\ wallet' = wallet
      BY <1>1 DEF NewPoolErase
    <3>2. op'.index = first /\ op'.at = "erase" /\ op'.what = op.what /\ op'.key = op.key /\ op' \in OpType
      BY <1>0, <1>b, <2>3, <3>1 DEF TypeInv, OpType
    <3> QED
      BY <1>0, <2>3, <3>1, <3>2, PoolWritten DEF TypeInv
  <2>4. TypeInv' /\ OpInv' /\ KeysInv' /\ GeneratedInv' /\ FreshInv'
    BY <1>0, <1>b, <2>3, <2>a
       DEF TypeInv, OpInv, KeysInv, GeneratedInv, FreshInv, EncryptSteps, DiskType
  <2>5. \A i \in Index : disk'.pool[i] = IF i = first THEN NoKey ELSE disk.pool[i]
    BY <1>0, <2>a DEF TypeInv, DiskType
  <2>6. op.index \in Int
    BY <1>0 DEF TypeInv, OpType
  <2>7. PoolInv'
    <3> SUFFICES ASSUME ~overlapped PROVE PoolInv'
      BY <1>b DEF PoolInv
    <3>1. \A i \in wallet'.setKeyPool : disk'.pool[i] = NoKey => op'.at = "erase" /\ i <= op'.index
      BY <1>0, <1>b, <2>3, <2>5, <2>6, <2>a DEF PoolInv, TypeInv, WalletType
    <3> QED
      BY <1>0, <1>b, <2>3, <2>5, <2>a, <3>1, ZenonT(60) DEF PoolInv, TypeInv, ReserveType
  <2> QED BY <2>4, <2>7 DEF IInv
<1>2. CASE left = {}
  <2>a. /\ wallet'.setKeyPool = {} /\ disk' = disk
        /\ op'.index = 1 /\ op'.at = "newkey" /\ op'.what = op.what /\ op'.key = op.key
        /\ op' \in OpType
        /\ wallet' \in WalletType
        /\ wallet'.mapKeys = wallet.mapKeys
        /\ wallet'.mapCryptedKeys = wallet.mapCryptedKeys
        /\ wallet'.fUseCrypto = wallet.fUseCrypto
        /\ wallet'.fLocked = wallet.fLocked
    <3>1. /\ wallet' = [wallet EXCEPT !.setKeyPool = {}] /\ disk' = disk
          /\ op' = [op EXCEPT !.at = "newkey", !.index = 1]
      BY <1>2 DEF NewPoolErase
    <3>2. /\ op'.index = 1 /\ op'.at = "newkey" /\ op'.what = op.what /\ op'.key = op.key
          /\ op' \in OpType
      <4>1. op' = [what |-> op.what, at |-> "newkey", key |-> op.key, index |-> 1]
        BY <1>0, <3>1 DEF TypeInv, OpType
      <4> QED
        BY <1>0, <4>1 DEF TypeInv, OpType, EncryptSteps
    <3> QED
      BY <1>0, <3>1, <3>2 DEF TypeInv, WalletType
  <2>1. TypeInv' /\ OpInv' /\ KeysInv' /\ GeneratedInv' /\ FreshInv' /\ PoolInv'
    BY <1>0, <1>b, <2>a
       DEF TypeInv, OpInv, KeysInv, GeneratedInv, FreshInv, PoolInv, EncryptSteps
  <2> QED BY <2>1 DEF IInv
<1> QED
    BY <1>1, <1>2

\* NewPoolKey keeps the invariant.
LEMMA NewPoolKeyInv ==
    ASSUME IInv, NewPoolKey
    PROVE  IInv'
<1>0. TypeInv /\ OpInv /\ KeysInv /\ GeneratedInv /\ FreshInv /\ PoolInv
    BY DEF IInv
<1>g. GenerateNewKey
    BY DEF NewPoolKey
<1>a. /\ op.at = "newkey" /\ op.index \in 1..nTargetSize /\ op'.at = "newpool" /\ op'.key = nKeys + 1
      /\ op'.what = op.what /\ op'.index = op.index /\ op' \in OpType
      /\ reserve' = reserve /\ given' = given /\ overlapped' = overlapped /\ skipped' = skipped /\ fShutdown' = fShutdown
      /\ nKeys' = nKeys + 1 /\ nKeys' \in 1..MaxKeys
      /\ wallet' \in WalletType /\ disk' \in DiskType
      /\ wallet'.setKeyPool = wallet.setKeyPool
      /\ wallet'.fUseCrypto = wallet.fUseCrypto /\ wallet'.fLocked = wallet.fLocked
      /\ disk'.mkey = disk.mkey /\ disk'.slack = disk.slack /\ disk'.pool = disk.pool
      /\ disk'.removed = disk.removed /\ disk'.rewrite = disk.rewrite
      /\ wallet'.mapKeys = disk'.plain /\ wallet'.mapCryptedKeys = disk'.crypted
      /\ disk'.plain = IF disk.mkey THEN {} ELSE 1..nKeys + 1
      /\ disk'.crypted = IF disk.mkey THEN 1..nKeys + 1 ELSE {}
  <2>1. nKeys' = nKeys + 1 /\ nKeys' \in 1..MaxKeys
    BY <1>0, <1>g, Generated
  <2>2. /\ op.at = "newkey" /\ op.index \in 1..nTargetSize
        /\ op' = [op EXCEPT !.at = "newpool", !.key = nKeys + 1]
    BY <1>0 DEF NewPoolKey, OpInv
  <2>3. /\ op'.at = "newpool" /\ op'.key = nKeys + 1
        /\ op'.what = op.what /\ op'.index = op.index /\ op' \in OpType
    BY <1>0, <2>1, <2>2 DEF TypeInv, OpType, EncryptSteps
  <2> QED
    BY <1>0, <1>g, <2>1, <2>2, <2>3, Generated DEF NewPoolKey
<1>1. TypeInv'
    BY <1>0, <1>a DEF TypeInv, WalletType, DiskType, OpType, ReserveType, OpInv, EncryptSteps
<1>2. OpInv'
    BY <1>0, <1>a DEF TypeInv, WalletType, DiskType, OpType, ReserveType, OpInv, EncryptSteps
<1>3. KeysInv'
    BY <1>0, <1>a DEF TypeInv, WalletType, DiskType, OpType, ReserveType, KeysInv, OpInv, EncryptSteps
<1>4. GeneratedInv'
  <2>1. \A i \in Index : disk.pool[i] <= nKeys /\ disk.pool[i] \in Nat
    BY <1>0 DEF GeneratedInv, TypeInv, DiskType
  <2>2. \A g \in Holder : reserve[g].key <= nKeys /\ reserve[g].key \in Nat
    BY <1>0 DEF GeneratedInv, TypeInv, ReserveType
  <2>3. given \subseteq 1..nKeys /\ nKeys \in Nat
    BY <1>0 DEF GeneratedInv, TypeInv
  <2> QED
    BY <1>a, <2>1, <2>2, <2>3 DEF GeneratedInv
<1>5. FreshInv'
  <2>1. \A i \in Index : disk.pool[i] <= nKeys /\ disk.pool[i] \in Nat
    BY <1>0 DEF GeneratedInv, TypeInv, DiskType
  <2>2. \A g \in Holder : reserve[g].key <= nKeys /\ reserve[g].key \in Nat
    BY <1>0 DEF GeneratedInv, TypeInv, ReserveType
  <2>3. nKeys + 1 \notin given /\ nKeys \in Nat
    BY <1>0 DEF GeneratedInv, TypeInv
  <2> QED
    BY <1>0, <1>a, <2>1, <2>2, <2>3 DEF FreshInv
<1>6. PoolInv'
    BY <1>0, <1>a DEF TypeInv, WalletType, DiskType, OpType, ReserveType, PoolInv, OpInv, EncryptSteps
<1> QED
    BY <1>1, <1>2, <1>3, <1>4, <1>5, <1>6 DEF IInv

\* NewPoolWrite keeps the invariant.
LEMMA NewPoolWriteInv ==
    ASSUME IInv, NewPoolWrite
    PROVE  IInv'
<1>0. TypeInv /\ OpInv /\ KeysInv /\ GeneratedInv /\ FreshInv /\ PoolInv
    BY DEF IInv
<1>a. /\ op.at = "newpool" /\ op.index \in 1..nTargetSize
      /\ op'.at = "newkey" /\ op'.key = NoKey /\ op'.index = op.index + 1
      /\ op'.what = op.what /\ op' \in OpType
      /\ reserve' = reserve /\ given' = given /\ nKeys' = nKeys /\ skipped' = skipped /\ fShutdown' = fShutdown
      /\ op.index \in Index
      /\ disk'.pool = [disk.pool EXCEPT ![op.index] = op.key]
      /\ wallet'.setKeyPool = wallet.setKeyPool \cup {op.index}
      /\ overlapped' = (overlapped \/ \E h \in Holder : reserve[h].nIndex = op.index)
      /\ disk' \in DiskType
      /\ disk'.plain = disk.plain
      /\ disk'.crypted = disk.crypted
      /\ disk'.mkey = disk.mkey
      /\ disk'.slack = disk.slack
      /\ disk'.removed = disk.removed
      /\ disk'.rewrite = disk.rewrite
      /\ wallet' \in WalletType
      /\ wallet'.mapKeys = wallet.mapKeys
      /\ wallet'.mapCryptedKeys = wallet.mapCryptedKeys
      /\ wallet'.fUseCrypto = wallet.fUseCrypto
      /\ wallet'.fLocked = wallet.fLocked
  <2>1. op.at = "newpool" /\ op.index \in 1..nTargetSize /\ op.index \in Index
    BY <1>0 DEF NewPoolWrite, OpInv
  <2>2. /\ op' = [op EXCEPT !.at = "newkey", !.key = NoKey, !.index = @ + 1]
        /\ disk' = [disk EXCEPT !.pool[op.index] = op.key]
        /\ wallet' = [wallet EXCEPT !.setKeyPool = @ \cup {op.index}]
    BY DEF NewPoolWrite, WritePool
  <2>3. /\ op'.at = "newkey" /\ op'.key = NoKey /\ op'.index = op.index + 1
        /\ op'.what = op.what /\ op' \in OpType
    <3>1. op' = [what |-> op.what, at |-> "newkey", key |-> NoKey, index |-> op.index + 1]
      BY <1>0, <2>2 DEF TypeInv, OpType
    <3> QED
      BY <1>0, <3>1 DEF TypeInv, OpType, EncryptSteps
  <2>4. disk \in DiskType /\ op.key \in Key \cup {NoKey}
    BY <1>0 DEF TypeInv, OpType
  <2>5. /\ wallet'.setKeyPool = wallet.setKeyPool \cup {op.index}
        /\ wallet' \in WalletType
        /\ wallet'.mapKeys = wallet.mapKeys
        /\ wallet'.mapCryptedKeys = wallet.mapCryptedKeys
        /\ wallet'.fUseCrypto = wallet.fUseCrypto
        /\ wallet'.fLocked = wallet.fLocked
    BY <1>0, <2>1, <2>2 DEF TypeInv, WalletType
  <2> QED
    BY <2>1, <2>2, <2>3, <2>4, <2>5, PoolWritten DEF NewPoolWrite, WritePool
<1>1. TypeInv'
    BY <1>0, <1>a DEF TypeInv, WalletType, DiskType, OpType, ReserveType, OpInv, EncryptSteps
<1>2. OpInv'
    BY <1>0, <1>a DEF TypeInv, WalletType, DiskType, OpType, ReserveType, OpInv, EncryptSteps
<1>3. KeysInv'
    BY <1>0, <1>a DEF TypeInv, WalletType, DiskType, OpType, ReserveType, KeysInv, OpInv, EncryptSteps
<1>4. GeneratedInv'
    BY <1>0, <1>a DEF TypeInv, WalletType, DiskType, OpType, ReserveType, GeneratedInv, OpInv, EncryptSteps
<1>5. FreshInv'
    BY <1>0, <1>a DEF TypeInv, WalletType, DiskType, OpType, ReserveType, FreshInv, OpInv, EncryptSteps
<1>6. PoolInv'
  <2> SUFFICES ASSUME ~overlapped' PROVE PoolInv'
    BY DEF PoolInv
  <2>1. ~overlapped /\ \A g \in Holder : reserve[g].nIndex # op.index
    BY <1>a
  <2>2. op.key # NoKey /\ op.key \notin given /\ disk.pool \in [Index -> Key \cup {NoKey}]
    BY <1>0, <1>a DEF OpInv, FreshInv, TypeInv, DiskType
  <2>3. \A g \in Holder : reserve'[g].nIndex # -1 =>
             /\ reserve'[g].nIndex \notin wallet'.setKeyPool
             /\ reserve'[g].key # NoKey /\ disk'.pool[reserve'[g].nIndex] = reserve'[g].key
    BY <1>0, <1>a, <2>1, <2>2 DEF PoolInv, TypeInv, ReserveType
  <2>4. \A j \in wallet'.setKeyPool : disk'.pool[j] = NoKey => op'.at = "erase" /\ j <= op'.index
    BY <1>0, <1>a, <2>1, <2>2 DEF PoolInv, TypeInv, WalletType
  <2>5. \A j \in Index : disk'.pool[j] # NoKey => disk'.pool[j] \notin given'
    BY <1>0, <1>a, <2>1, <2>2 DEF PoolInv
  <2> QED
    BY <1>0, <1>a, <2>1, <2>3, <2>4, <2>5 DEF PoolInv
<1> QED
    BY <1>1, <1>2, <1>3, <1>4, <1>5, <1>6 DEF IInv

\* RewriteCopy keeps the invariant.
LEMMA RewriteCopyInv ==
    ASSUME IInv, RewriteCopy
    PROVE  IInv'
<1>0. TypeInv /\ OpInv /\ KeysInv /\ GeneratedInv /\ FreshInv /\ PoolInv
    BY DEF IInv
<1>a. /\ op.at = "newkey" /\ op'.at = "remove" /\ op'.index = -1 /\ op'.key = op.key
      /\ op'.what = op.what /\ op' \in OpType
      /\ wallet'.fLocked /\ disk'.rewrite = disk.plain \cup disk.crypted
      /\ reserve' = reserve /\ given' = given /\ nKeys' = nKeys /\ overlapped' = overlapped
      /\ skipped' = skipped /\ fShutdown' = fShutdown
      /\ disk' \in DiskType
      /\ disk'.plain = disk.plain
      /\ disk'.crypted = disk.crypted
      /\ disk'.mkey = disk.mkey
      /\ disk'.slack = disk.slack
      /\ disk'.pool = disk.pool
      /\ disk'.removed = disk.removed
      /\ wallet' \in WalletType
      /\ wallet'.mapKeys = wallet.mapKeys
      /\ wallet'.mapCryptedKeys = wallet.mapCryptedKeys
      /\ wallet'.fUseCrypto = wallet.fUseCrypto
      /\ wallet'.setKeyPool = wallet.setKeyPool
  <2>1. /\ wallet' = [wallet EXCEPT !.fLocked = TRUE] /\ disk' = [disk EXCEPT !.rewrite = DiskKeys]
        /\ op' = [op EXCEPT !.at = "remove", !.index = -1] /\ op.at = "newkey"
    BY DEF RewriteCopy
  <2>2. /\ op'.at = "remove" /\ op'.index = -1 /\ op'.key = op.key /\ op'.what = op.what
        /\ op' \in OpType
    <3>1. op' = [what |-> op.what, at |-> "remove", key |-> op.key, index |-> -1]
      BY <1>0, <2>1 DEF TypeInv, OpType
    <3> QED
      BY <1>0, <3>1 DEF TypeInv, OpType, EncryptSteps
  <2>3. /\ wallet'.fLocked
        /\ wallet' \in WalletType
        /\ wallet'.mapKeys = wallet.mapKeys
        /\ wallet'.mapCryptedKeys = wallet.mapCryptedKeys
        /\ wallet'.fUseCrypto = wallet.fUseCrypto
        /\ wallet'.setKeyPool = wallet.setKeyPool
    BY <1>0, <2>1 DEF TypeInv, WalletType
  <2>4. /\ disk'.rewrite = disk.plain \cup disk.crypted
        /\ disk' \in DiskType
        /\ disk'.plain = disk.plain
        /\ disk'.crypted = disk.crypted
        /\ disk'.mkey = disk.mkey
        /\ disk'.slack = disk.slack
        /\ disk'.pool = disk.pool
        /\ disk'.removed = disk.removed
    BY <1>0, <2>1 DEF TypeInv, DiskType, DiskKeys
  <2> QED
    BY <2>1, <2>2, <2>3, <2>4 DEF RewriteCopy
<1>1. TypeInv'
    BY <1>0, <1>a DEF TypeInv, WalletType, DiskType, OpType, ReserveType, OpInv, EncryptSteps
<1>2. OpInv'
    BY <1>0, <1>a DEF TypeInv, WalletType, DiskType, OpType, ReserveType, OpInv, EncryptSteps
<1>3. KeysInv'
    BY <1>0, <1>a DEF TypeInv, WalletType, DiskType, OpType, ReserveType, KeysInv, OpInv, EncryptSteps
<1>4. GeneratedInv'
    BY <1>0, <1>a DEF TypeInv, WalletType, DiskType, OpType, ReserveType, GeneratedInv, OpInv, EncryptSteps
<1>5. FreshInv'
    BY <1>0, <1>a DEF TypeInv, WalletType, DiskType, OpType, ReserveType, FreshInv, OpInv, EncryptSteps
<1>6. PoolInv'
    BY <1>0, <1>a DEF TypeInv, WalletType, DiskType, OpType, ReserveType, PoolInv, OpInv, EncryptSteps
<1> QED
    BY <1>1, <1>2, <1>3, <1>4, <1>5, <1>6 DEF IInv

\* RewriteRemove keeps the invariant.
LEMMA RewriteRemoveInv ==
    ASSUME IInv, RewriteRemove
    PROVE  IInv'
<1> USE DEF RewriteRemove
<1>0. TypeInv /\ OpInv /\ KeysInv /\ GeneratedInv /\ FreshInv /\ PoolInv
    BY DEF IInv
<1>1. TypeInv'
    BY <1>0 DEF TypeInv, WalletType, DiskType, OpType, ReserveType, OpInv, EncryptSteps
<1>2. OpInv'
    BY <1>0 DEF TypeInv, WalletType, DiskType, OpType, ReserveType, OpInv, EncryptSteps
<1>3. KeysInv'
    BY <1>0 DEF TypeInv, WalletType, DiskType, OpType, ReserveType, KeysInv, OpInv, EncryptSteps
<1>4. GeneratedInv'
    BY <1>0 DEF TypeInv, WalletType, DiskType, OpType, ReserveType, GeneratedInv, OpInv, EncryptSteps
<1>5. FreshInv'
    BY <1>0 DEF TypeInv, WalletType, DiskType, OpType, ReserveType, FreshInv, OpInv, EncryptSteps
<1>6. PoolInv'
    BY <1>0 DEF TypeInv, WalletType, DiskType, OpType, ReserveType, PoolInv, OpInv, EncryptSteps
<1> QED
    BY <1>1, <1>2, <1>3, <1>4, <1>5, <1>6 DEF IInv

\* RewriteRename keeps the invariant.
LEMMA RewriteRenameInv ==
    ASSUME IInv, RewriteRename
    PROVE  IInv'
<1>0. TypeInv /\ OpInv /\ KeysInv /\ GeneratedInv /\ FreshInv /\ PoolInv
    BY DEF IInv
<1>a. /\ op.at = "rename"
      /\ ~disk'.removed /\ disk'.rewrite = {} /\ disk'.slack = {}
      /\ wallet' = wallet /\ reserve' = reserve /\ given' = given /\ nKeys' = nKeys
      /\ skipped' = skipped /\ fShutdown' = fShutdown /\ overlapped' = overlapped
      /\ disk' \in DiskType
      /\ disk'.plain = disk.plain
      /\ disk'.crypted = disk.crypted
      /\ disk'.mkey = disk.mkey
      /\ disk'.pool = disk.pool
      /\ op'.what = "none" /\ op'.at = "none" /\ op'.key = NoKey /\ op'.index = -1 /\ op' \in OpType
  <2>1. disk' = [disk EXCEPT !.removed = FALSE, !.rewrite = {}, !.slack = {}]
    BY DEF RewriteRename
  <2>2. /\ ~disk'.removed /\ disk'.rewrite = {} /\ disk'.slack = {}
        /\ disk' \in DiskType
        /\ disk'.plain = disk.plain
        /\ disk'.crypted = disk.crypted
        /\ disk'.mkey = disk.mkey
        /\ disk'.pool = disk.pool
    BY <1>0, <2>1 DEF TypeInv, DiskType
  <2> QED
    BY <2>2, NoOpType DEF RewriteRename
<1>1. TypeInv'
    BY <1>0, <1>a DEF TypeInv, WalletType, DiskType, OpType, ReserveType, OpInv, EncryptSteps
<1>2. OpInv'
    BY <1>0, <1>a DEF TypeInv, WalletType, DiskType, OpType, ReserveType, OpInv, EncryptSteps
<1>3. KeysInv'
    BY <1>0, <1>a DEF TypeInv, WalletType, DiskType, OpType, ReserveType, KeysInv, OpInv, EncryptSteps
<1>4. GeneratedInv'
    BY <1>0, <1>a DEF TypeInv, WalletType, DiskType, OpType, ReserveType, GeneratedInv, OpInv, EncryptSteps
<1>5. FreshInv'
    BY <1>0, <1>a DEF TypeInv, WalletType, DiskType, OpType, ReserveType, FreshInv, OpInv, EncryptSteps
<1>6. PoolInv'
    BY <1>0, <1>a DEF TypeInv, WalletType, DiskType, OpType, ReserveType, PoolInv, OpInv, EncryptSteps
<1> QED
    BY <1>1, <1>2, <1>3, <1>4, <1>5, <1>6 DEF IInv

\* EncryptWallet ends without a rewritten file, whichever way, and keeps the invariant.
LEMMA RewriteEndsInv ==
    ASSUME IInv, RewriteSkipped \/ RewriteFails \/ RenameFails
    PROVE  IInv'
<1>0. TypeInv /\ OpInv /\ KeysInv /\ GeneratedInv /\ FreshInv /\ PoolInv
    BY DEF IInv
<1>a. /\ op.at \in {"newkey", "remove", "rename"}
      /\ op'.what = "none" /\ op'.at = "none" /\ op'.key = NoKey /\ op'.index = -1 /\ op' \in OpType
      /\ disk' = disk /\ reserve' = reserve /\ given' = given /\ nKeys' = nKeys
      /\ overlapped' = overlapped /\ skipped' = TRUE /\ fShutdown' = fShutdown
    BY NoOpType DEF RewriteSkipped, RewriteFails, RenameFails
<1>b. /\ wallet' \in WalletType
      /\ wallet'.mapKeys = wallet.mapKeys /\ wallet'.mapCryptedKeys = wallet.mapCryptedKeys
      /\ wallet'.fUseCrypto = wallet.fUseCrypto /\ wallet'.setKeyPool = wallet.setKeyPool
  <2>1. wallet' = wallet \/ wallet' = [wallet EXCEPT !.fLocked = TRUE]
    BY DEF RewriteSkipped, RewriteFails, RenameFails
  <2> QED
    BY <1>0, <2>1 DEF TypeInv, WalletType
<1>c. disk.mkey
    BY <1>0, <1>a DEF OpInv, KeysInv, EncryptSteps
<1>1. TypeInv'
    BY <1>0, <1>a, <1>b, <1>c DEF TypeInv, WalletType, DiskType, OpType, ReserveType, OpInv, EncryptSteps
<1>2. OpInv'
    BY <1>0, <1>a, <1>b, <1>c DEF TypeInv, WalletType, DiskType, OpType, ReserveType, OpInv, EncryptSteps
<1>3. KeysInv'
    BY <1>0, <1>a, <1>b, <1>c DEF TypeInv, WalletType, DiskType, OpType, ReserveType, KeysInv, OpInv, EncryptSteps
<1>4. GeneratedInv'
    BY <1>0, <1>a, <1>b, <1>c DEF TypeInv, WalletType, DiskType, OpType, ReserveType, GeneratedInv, OpInv, EncryptSteps
<1>5. FreshInv'
    BY <1>0, <1>a, <1>b, <1>c DEF TypeInv, WalletType, DiskType, OpType, ReserveType, FreshInv, OpInv, EncryptSteps
<1>6. PoolInv'
    BY <1>0, <1>a, <1>b, <1>c DEF TypeInv, WalletType, DiskType, OpType, ReserveType, PoolInv, OpInv, EncryptSteps
<1> QED
    BY <1>1, <1>2, <1>3, <1>4, <1>5, <1>6 DEF IInv

\* Shutdown keeps the invariant.
LEMMA ShutdownInv ==
    ASSUME IInv, Shutdown
    PROVE  IInv'
<1>0. TypeInv /\ OpInv /\ KeysInv /\ GeneratedInv /\ FreshInv /\ PoolInv
    BY DEF IInv
<1>a. fShutdown' = TRUE /\ UNCHANGED <<wallet, disk, op, reserve, given, nKeys, overlapped, skipped>>
    BY DEF Shutdown
<1>1. TypeInv'
    BY <1>0, <1>a DEF TypeInv, WalletType, DiskType, OpType, ReserveType, OpInv, EncryptSteps
<1>2. OpInv'
    BY <1>0, <1>a DEF TypeInv, WalletType, DiskType, OpType, ReserveType, OpInv, EncryptSteps
<1>3. KeysInv'
    BY <1>0, <1>a DEF TypeInv, WalletType, DiskType, OpType, ReserveType, KeysInv, OpInv, EncryptSteps
<1>4. GeneratedInv'
    BY <1>0, <1>a DEF TypeInv, WalletType, DiskType, OpType, ReserveType, GeneratedInv, OpInv, EncryptSteps
<1>5. FreshInv'
    BY <1>0, <1>a DEF TypeInv, WalletType, DiskType, OpType, ReserveType, FreshInv, OpInv, EncryptSteps
<1>6. PoolInv'
    BY <1>0, <1>a DEF TypeInv, WalletType, DiskType, OpType, ReserveType, PoolInv, OpInv, EncryptSteps
<1> QED
    BY <1>1, <1>2, <1>3, <1>4, <1>5, <1>6 DEF IInv

\* Restart keeps the invariant.
LEMMA RestartInv ==
    ASSUME IInv, Restart
    PROVE  IInv'
<1>0. TypeInv /\ OpInv /\ KeysInv /\ GeneratedInv /\ FreshInv /\ PoolInv
    BY DEF IInv
<1>a. /\ ~disk.removed /\ disk' = disk
      /\ wallet' \in WalletType /\ wallet'.mapKeys = disk.plain /\ wallet'.mapCryptedKeys = disk.crypted
      /\ wallet'.fUseCrypto = (disk.crypted # {}) /\ wallet'.fLocked = (disk.crypted # {})
      /\ wallet'.setKeyPool = {i \in Index : disk.pool[i] # NoKey}
      /\ \A h \in Holder : reserve'[h].nIndex = -1 /\ reserve'[h].key = NoKey
      /\ reserve' \in [Holder -> ReserveType]
      /\ given' = given /\ nKeys' = nKeys /\ overlapped' = overlapped
      /\ skipped' = (skipped \/ op.what = "encrypt") /\ fShutdown' = FALSE
      /\ op'.what = "none" /\ op'.at = "none" /\ op'.key = NoKey /\ op'.index = -1 /\ op' \in OpType
    BY <1>0 DEF Restart, LoadWallet, NoReserve, NoOp, TypeInv, OpType, WalletType, DiskType, ReserveType, EncryptSteps
<1>1. TypeInv'
    BY <1>0, <1>a DEF TypeInv, WalletType, DiskType, OpType, ReserveType, OpInv, EncryptSteps
<1>2. OpInv'
    BY <1>0, <1>a DEF TypeInv, WalletType, DiskType, OpType, ReserveType, OpInv, EncryptSteps
<1>3. KeysInv'
  <2>1. nKeys \in Nat /\ 1 \in 1..nKeys
    BY <1>0 DEF GeneratedInv, TypeInv
  <2>2. (disk.crypted # {}) = disk.mkey /\ disk.mkey \in BOOLEAN
    BY <1>0, <2>1 DEF KeysInv, TypeInv, DiskType
  <2> QED
    BY <1>0, <1>a, <2>2 DEF KeysInv
<1>4. GeneratedInv'
    BY <1>0, <1>a DEF TypeInv, WalletType, DiskType, OpType, ReserveType, GeneratedInv, OpInv, EncryptSteps
<1>5. FreshInv'
    BY <1>0, <1>a DEF TypeInv, WalletType, DiskType, OpType, ReserveType, FreshInv, OpInv, EncryptSteps
<1>6. PoolInv'
    BY <1>0, <1>a DEF TypeInv, WalletType, DiskType, OpType, ReserveType, PoolInv, OpInv, EncryptSteps
<1> QED
    BY <1>1, <1>2, <1>3, <1>4, <1>5, <1>6 DEF IInv

\* Every step keeps the invariant,
LEMMA NextInv ==
    ASSUME IInv, [Next]_vars
    PROVE  IInv'
<1>1. CASE UNCHANGED vars
    BY <1>1 DEF vars, IInv, TypeInv, OpInv, KeysInv, GeneratedInv, FreshInv, PoolInv
<1>2. CASE Next
    BY <1>2, RefillInv, GetKeyFromPoolInv, TopUpKeyInv, TopUpLockedInv, TopUpPoolInv, RefillDoneInv,
       TakeNothingInv, TakeInv, GetKeepInv, GetReservedKeyInv, KeepKeyInv, ReturnKeyInv, LockInv,
       UnlockInv, EncryptWalletInv, NewPoolEraseInv, NewPoolKeyInv, NewPoolWriteInv, RewriteCopyInv,
       RewriteRemoveInv, RewriteRenameInv, RewriteEndsInv, ShutdownInv, RestartInv
       DEF Next
<1> QED
    BY <1>1, <1>2

\* so it always holds.
LEMMA WalletInvariant == Spec => []IInv
    BY InitInv, NextInv, PTL DEF Spec

\* Whatever the order of reservations, refills, encryption and kills, no key is reserved
\* or handed out twice, unless a pool record was written over a reserved index
\* (ReserveKeyFromKeyPool, KeepKey, ReturnKey, GetKeyFromPool).
THEOREM KeysHandedOutOnce == Spec => []HandedOutOnce
<1>1. IInv => HandedOutOnce
  <2> SUFFICES ASSUME IInv, ~overlapped PROVE HandedOutOnce
    BY DEF HandedOutOnce
  <2>0. TypeInv /\ OpInv /\ FreshInv /\ PoolInv
    BY DEF IInv
  <2>1. \A h \in Holder : reserve[h].key # NoKey =>
          /\ reserve[h].nIndex \in Index /\ reserve[h].nIndex \notin wallet.setKeyPool
          /\ disk.pool[reserve[h].nIndex] = reserve[h].key
    BY <2>0 DEF OpInv, PoolInv, TypeInv, ReserveType
  <2>2. \A g, h \in Holder : g # h /\ reserve[g].key # NoKey => reserve[g].key # reserve[h].key
    BY <2>0, <2>1 DEF PoolInv, FreshInv, OpInv
  <2>3. \A i \in wallet.setKeyPool : i \in Index
    BY <2>0 DEF TypeInv, WalletType
  <2>4. given \cap Poolable = {} /\ given \cap Reserved = {}
    BY <2>0, <2>1, <2>3 DEF PoolInv, Poolable, Reserved
  <2>5. Reserved \cap Poolable = {}
    BY <2>0, <2>1, <2>3 DEF FreshInv, Poolable, Reserved
  <2>6. given \cap {disk.pool[i] : i \in PoolRecords} = {}
    BY <2>0 DEF PoolInv, PoolRecords
  <2> QED
    BY <2>2, <2>4, <2>5, <2>6 DEF HandedOutOnce
<1> QED
    BY <1>1, WalletInvariant, PTL

\* Whenever the program is killed, every key that somebody has or that the pool offers is
\* in wallet.dat or in the copy that replaces it, and the pool's records can be read
\* (AddKey, EncryptWallet, CDB::Rewrite, LoadWallet).
THEOREM NoKeyLost == Spec => []KeysNotLost
<1>1. IInv => KeysNotLost
  <2> SUFFICES ASSUME IInv PROVE KeysNotLost
    OBVIOUS
  <2>0. TypeInv /\ OpInv /\ KeysInv /\ GeneratedInv /\ PoolInv
    BY DEF IInv
  <2>1. DiskKeys = 1..nKeys /\ (disk.removed => disk.rewrite = 1..nKeys)
    BY <2>0 DEF KeysInv, DiskKeys
  <2>2. \A i \in wallet.setKeyPool : i \in Index /\ disk.pool[i] \in Nat /\ disk.pool[i] <= nKeys
    BY <2>0 DEF TypeInv, WalletType, DiskType, GeneratedInv
  <2>3. Poolable \subseteq 1..nKeys
    BY <2>0, <2>2 DEF Poolable, TypeInv
  <2>4. Reserved \subseteq 1..nKeys
    BY <2>0 DEF Reserved, TypeInv, ReserveType, GeneratedInv
  <2>5. given \cup Reserved \cup Poolable \subseteq IF disk.removed THEN disk.rewrite ELSE DiskKeys
    BY <2>0, <2>1, <2>3, <2>4 DEF GeneratedInv
  <2>6. \A k \in 1..nKeys : HaveKey(k)
    BY <2>0 DEF KeysInv, HaveKey
  <2>7. ~overlapped /\ op.what # "encrypt" =>
            \A i \in wallet.setKeyPool : disk.pool[i] # NoKey /\ HaveKey(disk.pool[i])
    BY <2>0, <2>2, <2>6 DEF PoolInv, OpInv, EncryptSteps, TypeInv
  <2> QED
    BY <2>5, <2>7 DEF KeysNotLost
<1> QED
    BY <1>1, WalletInvariant, PTL

\* From the commit of EncryptWallet on no key record is unencrypted, and when it ends no
\* bytes of one are left in the file, unless a kill, the shutdown or a failure kept
\* CDB::Rewrite from its work (EncryptWallet, CDB::Rewrite).
THEOREM NoPlainKeyLeft == Spec => []PlainGone
<1>1. IInv => PlainGone
    BY DEF IInv, KeysInv, PlainGone
<1> QED
    BY <1>1, WalletInvariant, PTL
=============================================================================
