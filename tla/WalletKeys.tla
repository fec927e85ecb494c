----------------------------- MODULE WalletKeys -----------------------------
(***************************************************************************)
(* The keys of the wallet (wallet.cpp, keystore.cpp, walletdb.cpp): the    *)
(* key pool, its reservations, and the encryption of the wallet.           *)
(*                                                                         *)
(* wallet.dat is written one record at a time, each write committed by     *)
(* itself, except for the one transaction of EncryptWallet.  The pool in   *)
(* memory (setKeyPool) has only indexes; the keys are read from disk.      *)
(* Operations on the pool hold cs_wallet (op is the operation that does),  *)
(* and are cut at their commits, where the program may be killed.  Three   *)
(* things do not wait for cs_wallet: KeepKey of a reservation, the timer   *)
(* that locks the wallet, and the kill.                                    *)
(*                                                                         *)
(* A key is its number in the order of generation.                         *)
(***************************************************************************)
EXTENDS Integers, FiniteSets

CONSTANTS Holder,            \* the CReserveKey objects: miners, getwork, a payment
          nTargetSize,       \* -keypool
          MaxKeys            \* bound on the keys generated

ASSUME WalletKeysAssumption ==
    /\ nTargetSize \in Nat \ {0} /\ MaxKeys \in Nat /\ MaxKeys > nTargetSize
    /\ Holder \cap {"none", "refill", "get", "encrypt"} = {}

VARIABLES wallet,            \* memory: key store and setKeyPool
          disk,              \* wallet.dat and wallet.dat.rewrite
          op,                \* the operation that holds cs_wallet
          reserve,           \* nIndex and vchPubKey of each CReserveKey
          given,             \* keys that were handed out for good
          nKeys,             \* keys generated so far
          overlapped,        \* a pool record was written at an index that was reserved
          skipped,           \* EncryptWallet ended, and wallet.dat was not rewritten
          fShutdown          \* the program is shutting down

vars == <<wallet, disk, op, reserve, given, nKeys, overlapped, skipped, fShutdown>>

Key == 1..MaxKeys
NoKey == 0
Index == 1..MaxKeys
NoReserve == [nIndex |-> -1, key |-> NoKey]
NoOp == [what |-> "none", at |-> "none", key |-> NoKey, index |-> -1]

DiskKeys == disk.plain \cup disk.crypted
PoolRecords == {i \in Index : disk.pool[i] # NoKey}
LastOf(S) == CHOOSE i \in S : \A j \in S : j <= i
FirstOf(S) == CHOOSE i \in S : \A j \in S : i <= j

HaveKey(k) == k \in IF wallet.fUseCrypto THEN wallet.mapCryptedKeys ELSE wallet.mapKeys

(***************************************************************************)
(* GenerateNewKey and its AddKey: the new key is in memory and on disk,    *)
(* under encryption if the wallet has it.  It throws when the wallet is    *)
(* locked.                                                                 *)
(***************************************************************************)
\* Mutated form of GenerateNewKey: the key is not written.
GenerateInMemory ==
    /\ nKeys < MaxKeys /\ ~wallet.fLocked
    /\ nKeys' = nKeys + 1
    /\ IF wallet.fUseCrypto THEN wallet' = [wallet EXCEPT !.mapCryptedKeys = @ \cup {nKeys + 1}]
                            ELSE wallet' = [wallet EXCEPT !.mapKeys = @ \cup {nKeys + 1}]
    /\ UNCHANGED disk

GenerateNewKey ==
    /\ nKeys < MaxKeys /\ ~wallet.fLocked
    /\ nKeys' = nKeys + 1
    /\ \/ /\ wallet.fUseCrypto
          /\ wallet' = [wallet EXCEPT !.mapCryptedKeys = @ \cup {nKeys + 1}]
          /\ disk' = [disk EXCEPT !.crypted = @ \cup {nKeys + 1}]
       \/ /\ ~wallet.fUseCrypto
          /\ wallet' = [wallet EXCEPT !.mapKeys = @ \cup {nKeys + 1}]
          /\ disk' = [disk EXCEPT !.plain = @ \cup {nKeys + 1}]

\* WritePool, and the insertion into setKeyPool that follows it.
WritePool(i, k) ==
    /\ disk' = [disk EXCEPT !.pool[i] = k]
    /\ wallet' = [wallet EXCEPT !.setKeyPool = @ \cup {i}]
    /\ overlapped' = (overlapped \/ \E h \in Holder : reserve[h].nIndex = i)

(***************************************************************************)
(* TopUpKeyPool, by itself (keypoolrefill) or as the first part of         *)
(* ReserveKeyFromKeyPool for a reservation or for GetKeyFromPool.  Without  *)
(* wallet.dat the constructor of CWalletDB throws.                         *)
(***************************************************************************)
Begin(what) ==
    /\ op = NoOp /\ ~disk.removed
    /\ op' = [NoOp EXCEPT !.what = what, !.at = IF wallet.fLocked THEN "take" ELSE "topup"]
    /\ UNCHANGED <<wallet, disk, reserve, given, nKeys, overlapped, skipped, fShutdown>>

Refill == ~wallet.fLocked /\ Begin("refill")

GetKeyFromPool == Begin("get")

GetReservedKey(h) == reserve[h] = NoReserve /\ Begin(h)

PoolFull == Cardinality(wallet.setKeyPool) >= nTargetSize + 1

TopUpKey ==
    /\ op.at = "topup" /\ ~PoolFull
    /\ GenerateNewKey
    /\ op' = [op EXCEPT !.at = "pool", !.key = nKeys + 1]
    /\ UNCHANGED <<reserve, given, overlapped, skipped, fShutdown>>

\* The timer locked the wallet in between: GenerateNewKey throws.
TopUpLocked ==
    /\ op.at = "topup" /\ ~PoolFull /\ wallet.fLocked
    /\ op' = NoOp
    /\ UNCHANGED <<wallet, disk, reserve, given, nKeys, overlapped, skipped, fShutdown>>

NEnd == IF wallet.setKeyPool = {} THEN 1 ELSE LastOf(wallet.setKeyPool) + 1

TopUpPool ==
    /\ op.at = "pool" /\ NEnd \in Index
    /\ WritePool(NEnd, op.key)
    /\ op' = [op EXCEPT !.at = "topup", !.key = NoKey]
    /\ UNCHANGED <<reserve, given, nKeys, skipped, fShutdown>>

RefillDone ==
    /\ op.what = "refill" /\ op.at = "topup" /\ PoolFull
    /\ op' = NoOp
    /\ UNCHANGED <<wallet, disk, reserve, given, nKeys, overlapped, skipped, fShutdown>>

(***************************************************************************)
(* The second part of ReserveKeyFromKeyPool.                               *)
(***************************************************************************)
Taking == /\ op.what \in Holder \cup {"get"}
          /\ op.at = "take" \/ (op.at = "topup" /\ PoolFull)

\* Nothing left: the default key is used, or the caller fails.
TakeNothing ==
    /\ Taking /\ wallet.setKeyPool = {}
    /\ op' = NoOp
    /\ UNCHANGED <<wallet, disk, reserve, given, nKeys, overlapped, skipped, fShutdown>>

Take ==
    LET i == FirstOf(wallet.setKeyPool)
        k == disk.pool[i]
    IN /\ Taking /\ wallet.setKeyPool # {}
       /\ wallet' = [wallet EXCEPT !.setKeyPool = @ \ {i}]
       /\ \/ /\ op.what \in Holder
             /\ reserve' = [reserve EXCEPT ![op.what] =
                    [nIndex |-> i, key |-> IF k # NoKey /\ HaveKey(k) THEN k ELSE NoKey]]
             /\ op' = NoOp
          \/ /\ op.what = "get"
             /\ op' = IF k # NoKey /\ HaveKey(k)
                      THEN [op EXCEPT !.at = "keep", !.key = k, !.index = i] ELSE NoOp
             /\ UNCHANGED reserve
       /\ UNCHANGED <<disk, given, nKeys, overlapped, skipped, fShutdown>>

\* Mutated form of GetKeep: the pool record is left on disk.
GetKeepRecord ==
    /\ op.at = "keep"
    /\ given' = given \cup {op.key}
    /\ op' = NoOp
    /\ UNCHANGED <<wallet, disk, reserve, nKeys, overlapped, skipped, fShutdown>>

\* GetKeyFromPool erases the pool record before it returns the key.
GetKeep ==
    /\ op.at = "keep"
    /\ disk' = [disk EXCEPT !.pool[op.index] = NoKey]
    /\ given' = given \cup {op.key}
    /\ op' = NoOp
    /\ UNCHANGED <<wallet, reserve, nKeys, overlapped, skipped, fShutdown>>

(***************************************************************************)
(* CReserveKey::KeepKey and ReturnKey.  The file is closed to KeepKey      *)
(* while CDB::Rewrite has cs_db.                                           *)
(***************************************************************************)
KeepKey(h) ==
    /\ reserve[h].key # NoKey /\ ~disk.removed
    /\ disk' = [disk EXCEPT !.pool[reserve[h].nIndex] = NoKey]
    /\ given' = given \cup {reserve[h].key}
    /\ reserve' = [reserve EXCEPT ![h] = NoReserve]
    /\ UNCHANGED <<wallet, op, nKeys, overlapped, skipped, fShutdown>>

\* Also by the destructor, when reading the record has thrown.
ReturnKey(h) ==
    /\ reserve[h].nIndex # -1 /\ op = NoOp
    /\ wallet' = [wallet EXCEPT !.setKeyPool = @ \cup {reserve[h].nIndex}]
    /\ reserve' = [reserve EXCEPT ![h] = NoReserve]
    /\ UNCHANGED <<disk, op, given, nKeys, overlapped, skipped, fShutdown>>

(***************************************************************************)
(* Lock and Unlock of an encrypted wallet.                                 *)
(***************************************************************************)
\* The timer of walletpassphrase, which takes only cs_KeyStore, or walletlock.
Lock ==
    /\ wallet.fUseCrypto /\ ~wallet.fLocked /\ op.what # "encrypt"
    /\ wallet' = [wallet EXCEPT !.fLocked = TRUE]
    /\ UNCHANGED <<disk, op, reserve, given, nKeys, overlapped, skipped, fShutdown>>

Unlock ==
    /\ wallet.fLocked /\ op = NoOp
    /\ wallet' = [wallet EXCEPT !.fLocked = FALSE]
    /\ UNCHANGED <<disk, op, reserve, given, nKeys, overlapped, skipped, fShutdown>>

(***************************************************************************)
(* EncryptWallet: the transaction that replaces every key record, then     *)
(* NewKeyPool record by record, then CDB::Rewrite.                         *)
(***************************************************************************)
\* Mutated form of EncryptKeys: the unencrypted records stay.
EncryptKeysBeside ==
    /\ wallet' = [wallet EXCEPT !.fUseCrypto = TRUE, !.mapCryptedKeys = wallet.mapKeys, !.mapKeys = {}]
    /\ disk' = [disk EXCEPT !.mkey = TRUE, !.crypted = wallet.mapKeys]

\* The erased records leave their bytes in the file.
EncryptKeys ==
    /\ wallet' = [wallet EXCEPT !.fUseCrypto = TRUE, !.mapCryptedKeys = wallet.mapKeys, !.mapKeys = {}]
    /\ disk' = [disk EXCEPT !.mkey = TRUE, !.crypted = wallet.mapKeys,
                            !.plain = @ \ wallet.mapKeys, !.slack = @ \cup wallet.mapKeys]

EncryptWallet ==
    /\ op = NoOp /\ ~wallet.fUseCrypto
    /\ EncryptKeys
    /\ op' = [NoOp EXCEPT !.what = "encrypt", !.at = "erase", !.index = 0]
    /\ UNCHANGED <<reserve, given, nKeys, overlapped, skipped, fShutdown>>

NewPoolErase ==
    LET left == {i \in wallet.setKeyPool : i > op.index}
    IN /\ op.at = "erase"
       /\ \/ /\ left # {}
             /\ disk' = [disk EXCEPT !.pool[FirstOf(left)] = NoKey]
             /\ op' = [op EXCEPT !.index = FirstOf(left)]
             /\ UNCHANGED wallet
          \/ /\ left = {}
             /\ wallet' = [wallet EXCEPT !.setKeyPool = {}]
             /\ op' = [op EXCEPT !.at = "newkey", !.index = 1]
             /\ UNCHANGED disk
       /\ UNCHANGED <<reserve, given, nKeys, overlapped, skipped, fShutdown>>

NewPoolKey ==
    /\ op.at = "newkey" /\ op.index <= nTargetSize
    /\ GenerateNewKey
    /\ op' = [op EXCEPT !.at = "newpool", !.key = nKeys + 1]
    /\ UNCHANGED <<reserve, given, overlapped, skipped, fShutdown>>

NewPoolWrite ==
    /\ op.at = "newpool"
    /\ WritePool(op.index, op.key)
    /\ op' = [op EXCEPT !.at = "newkey", !.key = NoKey, !.index = @ + 1]
    /\ UNCHANGED <<reserve, given, nKeys, skipped, fShutdown>>

\* Lock, then the copy: only the records that are left are copied.
RewriteCopy ==
    /\ op.at = "newkey" /\ op.index > nTargetSize /\ ~fShutdown
    /\ wallet' = [wallet EXCEPT !.fLocked = TRUE]
    /\ disk' = [disk EXCEPT !.rewrite = DiskKeys]
    /\ op' = [op EXCEPT !.at = "remove", !.index = -1]
    /\ UNCHANGED <<reserve, given, nKeys, overlapped, skipped, fShutdown>>

\* The program is shutting down: nothing is rewritten.  As after every failure below,
\* EncryptWallet does not look at the result and returns true.
RewriteSkipped ==
    /\ op.at = "newkey" /\ op.index > nTargetSize /\ fShutdown
    /\ wallet' = [wallet EXCEPT !.fLocked = TRUE]
    /\ op' = NoOp /\ skipped' = TRUE
    /\ UNCHANGED <<disk, reserve, given, nKeys, overlapped, fShutdown>>

\* The copy fails, or the removal does (the renaming then finds the name in use).
RewriteFails ==
    /\ \/ op.at = "newkey" /\ op.index > nTargetSize /\ ~fShutdown
       \/ op.at = "remove"
    /\ wallet' = [wallet EXCEPT !.fLocked = TRUE]
    /\ op' = NoOp /\ skipped' = TRUE
    /\ UNCHANGED <<disk, reserve, given, nKeys, overlapped, fShutdown>>

RewriteRemove ==
    /\ op.at = "remove"
    /\ disk' = [disk EXCEPT !.removed = TRUE]
    /\ op' = [op EXCEPT !.at = "rename"]
    /\ UNCHANGED <<wallet, reserve, given, nKeys, overlapped, skipped, fShutdown>>

RewriteRename ==
    /\ op.at = "rename"
    /\ disk' = [disk EXCEPT !.removed = FALSE, !.rewrite = {}, !.slack = {}]
    /\ op' = NoOp
    /\ UNCHANGED <<wallet, reserve, given, nKeys, overlapped, skipped, fShutdown>>

\* The program goes on without wallet.dat.
RenameFails ==
    /\ op.at = "rename"
    /\ op' = NoOp /\ skipped' = TRUE
    /\ UNCHANGED <<wallet, disk, reserve, given, nKeys, overlapped, fShutdown>>

\* Shutdown sets the flag first; the other threads run on until they see it.
Shutdown ==
    /\ ~fShutdown /\ fShutdown' = TRUE
    /\ UNCHANGED <<wallet, disk, op, reserve, given, nKeys, overlapped, skipped>>

(***************************************************************************)
(* The program ends or is killed, and is started again: LoadWallet.        *)
(* Without wallet.dat (after the removal, or a renaming that failed) this  *)
(* is where the model ends: the next start makes a new wallet.             *)
(***************************************************************************)
LoadWallet(d) ==
    [mapKeys |-> d.plain, mapCryptedKeys |-> d.crypted,
     fUseCrypto |-> d.crypted # {}, fLocked |-> d.crypted # {},
     setKeyPool |-> {i \in Index : d.pool[i] # NoKey}]

Restart ==
    /\ ~disk.removed
    /\ wallet' = LoadWallet(disk)
    /\ op' = NoOp
    /\ reserve' = [h \in Holder |-> NoReserve]
    /\ skipped' = (skipped \/ op.what = "encrypt")
    /\ fShutdown' = FALSE
    /\ UNCHANGED <<disk, given, nKeys, overlapped>>

\* After the first start: the pool was topped up and its first key is the default key.
Init ==
    /\ nKeys = nTargetSize + 1
    /\ disk = [plain |-> 1..nKeys, crypted |-> {}, mkey |-> FALSE, slack |-> {},
               pool |-> [i \in Index |-> IF i \in 2..nKeys THEN i ELSE NoKey],
               removed |-> FALSE, rewrite |-> {}]
    /\ wallet = LoadWallet(disk)
    /\ op = NoOp
    /\ reserve = [h \in Holder |-> NoReserve]
    /\ given = {1}
    /\ overlapped = FALSE /\ skipped = FALSE /\ fShutdown = FALSE

Next ==
    \/ Refill \/ GetKeyFromPool \/ TopUpKey \/ TopUpLocked \/ TopUpPool \/ RefillDone
    \/ TakeNothing \/ Take \/ GetKeep
    \/ \E h \in Holder : GetReservedKey(h) \/ KeepKey(h) \/ ReturnKey(h)
    \/ Lock \/ Unlock
    \/ EncryptWallet \/ NewPoolErase \/ NewPoolKey \/ NewPoolWrite
    \/ RewriteCopy \/ RewriteRemove \/ RewriteRename
    \/ RewriteSkipped \/ RewriteFails \/ RenameFails
    \/ Shutdown \/ Restart

Spec == Init /\ [][Next]_vars

(***************************************************************************)
(* Properties.                                                             *)
(***************************************************************************)
Reserved == {reserve[h].key : h \in Holder} \ {NoKey}
Poolable == {disk.pool[i] : i \in wallet.setKeyPool} \ {NoKey}

\* "Take key pair from key pool so it won't be used again": no two reservations have the
\* same key, and no key that was handed out, or that is reserved, can be taken from the
\* pool again, also after a restart; unless a pool record was written over the index of
\* a reservation.
HandedOutOnce ==
    ~overlapped =>
        /\ \A g, h \in Holder : g # h /\ reserve[g].key # NoKey => reserve[g].key # reserve[h].key
        /\ given \cap Poolable = {} /\ given \cap Reserved = {} /\ Reserved \cap Poolable = {}
        /\ given \cap {disk.pool[i] : i \in PoolRecords} = {}

\* Whenever the program is killed, a key that was handed out, is reserved or is in the
\* pool is in wallet.dat, or in the copy that replaces it; and every index of setKeyPool
\* has its record and its key, so that ReserveKeyFromKeyPool does not throw (with the same
\* exception as above).
KeysNotLost ==
    LET saved == IF disk.removed THEN disk.rewrite ELSE DiskKeys
    IN /\ given \cup Reserved \cup Poolable \subseteq saved
       /\ ~overlapped /\ op.what # "encrypt" =>
            \A i \in wallet.setKeyPool : disk.pool[i] # NoKey /\ HaveKey(disk.pool[i])

\* Once the master key is on disk no key record is left unencrypted (with both kinds the
\* wallet would not load); and the file holds bytes of an unencrypted key only while
\* EncryptWallet works, or when it ended without the file being rewritten: by a kill, by
\* the program shutting down, or by a failure of CDB::Rewrite.
PlainGone ==
    /\ disk.mkey => disk.plain = {}
    /\ disk.plain = {} \/ disk.crypted = {}
    /\ disk.slack # {} => op.what = "encrypt" \/ skipped
=============================================================================
