------------------------------ MODULE AddrMan ------------------------------
(***************************************************************************)
(* The address manager (addrman.cpp, addrman.h): the addresses of peers    *)
(* heard of, in "new" buckets, and of peers once connected to, in "tried"  *)
(* buckets.  Four indexes over the same entries (mapInfo, mapAddr, vRandom *)
(* with nRandomPos, the buckets with nRefCount and fInTried) and two       *)
(* counts have to agree after every call; two of the indexes are not       *)
(* saved and are rebuilt when addr.dat is loaded.                          *)
(*                                                                         *)
(* Every public method holds cs from its first to its last access, so each *)
(* is one action.  addrman is the object, a record with a field per        *)
(* member; an operator takes the object and gives the object it leaves, or *)
(* the set of them where the code draws a random number or compares times. *)
(* Times, attempts and services bits are left out: which entry is terrible *)
(* and which of several is the oldest is any choice.  The hashes that      *)
(* choose a bucket are constants.  Positions count from 1.                 *)
(***************************************************************************)
EXTENDS Integers, Sequences, FiniteSets, Functions

CONSTANTS Service,           \* the CService (address and port) of a peer
          Ip, IpOf,          \* its CNetAddr, by which mapAddr finds entries
          Source,            \* the peers that send addresses
          NewBuckets, NewBucketOf,        \* GetNewBucket
          TriedBuckets, TriedBucketOf,    \* GetTriedBucket
          NEW_BUCKET_SIZE, TRIED_BUCKET_SIZE, NEW_BUCKETS_PER_ADDRESS,
          GETADDR_MAX_PCT, GETADDR_MAX,
          MaxId              \* bound on the ids given out between two loads

ASSUME AddrManAssumption ==
    /\ IpOf \in [Service -> Ip]
    /\ NewBucketOf \in [Service \X Source -> NewBuckets]
    /\ TriedBucketOf \in [Service -> TriedBuckets]
    /\ IsFiniteSet(NewBuckets) /\ IsFiniteSet(TriedBuckets)
    /\ NEW_BUCKET_SIZE \in Nat \ {0} /\ TRIED_BUCKET_SIZE \in Nat \ {0}
    /\ NEW_BUCKETS_PER_ADDRESS \in Nat \ {0}
    /\ GETADDR_MAX_PCT \in 0..100 /\ GETADDR_MAX \in Nat /\ MaxId \in Nat

VARIABLE addrman             \* the object

CAddrMan == [nIdCount |-> 0, mapInfo |-> <<>>, mapAddr |-> <<>>, vRandom |-> <<>>,
             nTried |-> 0, nNew |-> 0,
             vvNew |-> [b \in NewBuckets |-> {}],
             vvTried |-> [b \in TriedBuckets |-> <<>>]]

\* A map after map[x] = v and after map.erase(x).
With(f, x, v) == [y \in DOMAIN f \cup {x} |-> IF y = x THEN v ELSE f[y]]

Without(f, x) == [y \in DOMAIN f \ {x} |-> f[y]]

(***************************************************************************)
(* The protected helpers.                                                  *)
(***************************************************************************)
Found(a, s) == IpOf[s] \in DOMAIN a.mapAddr

Find(a, s) == a.mapAddr[IpOf[s]]

Create(a, s, src) ==
    LET nId == a.nIdCount
        info == [service |-> s, source |-> src, everGood |-> FALSE,
                 nRefCount |-> 0, fInTried |-> FALSE, nRandomPos |-> Len(a.vRandom) + 1]
    IN [a EXCEPT !.nIdCount = nId + 1,
                 !.mapInfo = With(@, nId, info),
                 !.mapAddr = With(@, IpOf[s], nId),
                 !.vRandom = Append(@, nId)]

SwapRandom(a, p1, p2) ==
    LET id1 == a.vRandom[p1]
        id2 == a.vRandom[p2]
    IN IF p1 = p2 THEN a
       ELSE [a EXCEPT !.mapInfo[id1].nRandomPos = p2, !.mapInfo[id2].nRandomPos = p1,
                      !.vRandom[p1] = id2, !.vRandom[p2] = id1]

\* Mutated form of Delete: the last entry of vRandom is dropped without the swap.
DeleteLast(a, id) ==
    [a EXCEPT !.vRandom = SubSeq(@, 1, Len(@) - 1),
              !.mapAddr = Without(@, IpOf[a.mapInfo[id].service]),
              !.mapInfo = Without(@, id), !.nNew = @ - 1]

\* The body of "if (--info.nRefCount == 0)": the only place where entries are deleted.
Delete(a, id) ==
    LET swapped == SwapRandom(a, a.mapInfo[id].nRandomPos, Len(a.vRandom))
    IN [swapped EXCEPT !.vRandom = SubSeq(@, 1, Len(@) - 1),
                       !.mapAddr = Without(@, IpOf[a.mapInfo[id].service]),
                       !.mapInfo = Without(@, id),
                       !.nNew = @ - 1]

RemoveFromNew(a, b, id) ==
    LET less == [a EXCEPT !.mapInfo[id].nRefCount = @ - 1]
        left == IF less.mapInfo[id].nRefCount = 0 THEN Delete(less, id) ELSE less
    IN [left EXCEPT !.vvNew[b] = @ \ {id}]

\* The first terrible entry, or the oldest of four.
ShrinkNew(a, b) == {RemoveFromNew(a, b, id) : id \in a.vvNew[b]}

\* The last lines of Add_.
InsertInNew(a, id, src) ==
    LET b == NewBucketOf[<<a.mapInfo[id].service, src>>]
        more == [a EXCEPT !.mapInfo[id].nRefCount = @ + 1]
        room == IF Cardinality(a.vvNew[b]) = NEW_BUCKET_SIZE THEN ShrinkNew(more, b) ELSE {more}
    IN IF id \in a.vvNew[b] THEN {a}
       ELSE {[r EXCEPT !.vvNew[b] = @ \cup {id}] : r \in room}

\* The bucket with its entries in a new order, and the position that is given up.
SelectTried(vTried) ==
    {<<[i \in DOMAIN vTried |-> vTried[f[i]]], p>> :
        f \in Bijection(DOMAIN vTried, DOMAIN vTried), p \in DOMAIN vTried}

\* MakeTried when the tried bucket is full: the entry at p goes back to a new
\* bucket, its own or, when that is full, the one the new entry came from.
Evict(a, id, nOrigin, kb, vTried, p) ==
    LET old == vTried[p]
        ub == NewBucketOf[<<a.mapInfo[old].service, a.mapInfo[old].source>>]
        to == IF Cardinality(a.vvNew[ub]) < NEW_BUCKET_SIZE THEN ub ELSE nOrigin
    IN [a EXCEPT !.mapInfo[old].fInTried = FALSE, !.mapInfo[old].nRefCount = 1,
                 !.vvNew[to] = @ \cup {old}, !.nNew = @ + 1,
                 !.vvTried[kb] = [vTried EXCEPT ![p] = id],
                 !.mapInfo[id].fInTried = TRUE]

MakeTried(a, id, nOrigin) ==
    LET in == {b \in NewBuckets : id \in a.vvNew[b]}
        out == [a EXCEPT !.vvNew = [b \in NewBuckets |-> @[b] \ {id}],
                         !.mapInfo[id].nRefCount = @ - Cardinality(in),
                         !.nNew = @ - 1]
        kb == TriedBucketOf[a.mapInfo[id].service]
    IN IF Len(a.vvTried[kb]) < TRIED_BUCKET_SIZE
       THEN {[out EXCEPT !.vvTried[kb] = Append(@, id), !.nTried = @ + 1,
                         !.mapInfo[id].fInTried = TRUE]}
       ELSE {Evict(out, id, nOrigin, kb, sel[1], sel[2]) : sel \in SelectTried(a.vvTried[kb])}

(***************************************************************************)
(* The public methods.  Attempt_ and Connected_ only change times.         *)
(***************************************************************************)
\* An entry that exists gets into one bucket more, or is left alone: because of the
\* times or the random number, or because it is tried or in enough buckets.
Add_(a, s, src) ==
    IF Found(a, s)
    THEN LET id == Find(a, s)
             full == \/ a.mapInfo[id].fInTried
                     \/ a.mapInfo[id].nRefCount = NEW_BUCKETS_PER_ADDRESS
         IN {a} \cup IF full THEN {} ELSE InsertInNew(a, id, src)
    ELSE LET created == [Create(a, s, src) EXCEPT !.nNew = @ + 1]
         IN InsertInNew(created, a.nIdCount, src)

\* addrman.Add: from the addr message, a seed, the command line.
Add(s, src) ==
    /\ Found(addrman, s) \/ addrman.nIdCount < MaxId
    /\ addrman' \in Add_(addrman, s, src)

Good_(a, s) ==
    LET id == Find(a, s)
        good == [a EXCEPT !.mapInfo[id].everGood = TRUE]
        origins == {b \in NewBuckets : id \in a.vvNew[b]}
    IN IF ~Found(a, s) THEN {a}
       ELSE IF a.mapInfo[id].service # s THEN {a}
       ELSE IF a.mapInfo[id].fInTried \/ origins = {} THEN {good}
       ELSE UNION {MakeTried(good, id, b) : b \in origins}

\* addrman.Good: a version message came from the peer.
Good(s) == addrman' \in Good_(addrman, s)

\* The loop of GetAddr_ with its random positions pos.
GetAddr_(a, nNodes, pos) ==
    LET after[n \in 0..nNodes] == IF n = 0 THEN a ELSE SwapRandom(after[n - 1], n, pos[n])
    IN after[nNodes]

\* addrman.GetAddr: a getaddr message.
GetAddr ==
    LET size == Len(addrman.vRandom)
        pct == (GETADDR_MAX_PCT * size) \div 100
        nNodes == IF pct > GETADDR_MAX THEN GETADDR_MAX ELSE pct
    IN \E pos \in {f \in [1..nNodes -> 1..size] : \A n \in 1..nNodes : f[n] >= n} :
           addrman' = GetAddr_(addrman, nNodes, pos)

(***************************************************************************)
(* addr.dat.  Entries are written in the order of their ids: first those   *)
(* with a reference, then the tried ones; the new buckets are written as   *)
(* positions in the first list.  Positions are written from 0.             *)
(***************************************************************************)
Rank(ids, id) == Cardinality({j \in ids : j < id})

Written(a, ids) ==
    [n \in 0..Cardinality(ids) - 1 |->
        LET info == a.mapInfo[CHOOSE id \in ids : Rank(ids, id) = n]
        IN [service |-> info.service, source |-> info.source, everGood |-> info.everGood]]

FirstOf(ids, n) == {id \in ids : Rank(ids, id) < n}

\* Mutated form of Serialize: positions in mapInfo are written instead of positions among the new entries.
SerializeAllPositions(a) ==
    LET new == {id \in DOMAIN a.mapInfo : a.mapInfo[id].nRefCount # 0}
        tried == {id \in DOMAIN a.mapInfo : a.mapInfo[id].fInTried}
    IN [nNew |-> a.nNew, nTried |-> a.nTried,
        new |-> Written(a, FirstOf(new, a.nNew)), tried |-> Written(a, FirstOf(tried, a.nTried)),
        vvNew |-> [b \in NewBuckets |-> {Rank(DOMAIN a.mapInfo, id) : id \in a.vvNew[b]}]]

Serialize(a) ==
    LET new == {id \in DOMAIN a.mapInfo : a.mapInfo[id].nRefCount # 0}
        tried == {id \in DOMAIN a.mapInfo : a.mapInfo[id].fInTried}
    IN [nNew |-> a.nNew, nTried |-> a.nTried,
        new |-> Written(a, FirstOf(new, a.nNew)), tried |-> Written(a, FirstOf(tried, a.nTried)),
        vvNew |-> [b \in NewBuckets |-> {Rank(new, id) : id \in a.vvNew[b]}]]

\* No entry is dropped here for being in more than NEW_BUCKETS_PER_ADDRESS buckets: it never is.
Loaded(r, refs, inTried, pos) ==
    [service |-> r.service, source |-> r.source, everGood |-> r.everGood,
     nRefCount |-> refs, fInTried |-> inTried, nRandomPos |-> pos]

\* One round of the second loop: a tried entry, unless its bucket is full.
LoadTried(a, r) ==
    LET kb == TriedBucketOf[r.service]
        id == a.nIdCount
    IN IF Len(a.vvTried[kb]) < TRIED_BUCKET_SIZE
       THEN [a EXCEPT !.nIdCount = id + 1,
                      !.mapInfo = With(@, id, Loaded(r, 0, TRUE, Len(a.vRandom) + 1)),
                      !.mapAddr = With(@, IpOf[r.service], id),
                      !.vRandom = Append(@, id),
                      !.vvTried[kb] = Append(@, id)]
       ELSE [a EXCEPT !.nTried = @ - 1]

Unserialize(d) ==
    LET ids == 0..d.nNew - 1
        refs(id) == Cardinality({b \in NewBuckets : id \in d.vvNew[b]})
        news == [CAddrMan EXCEPT
                    !.nIdCount = d.nNew, !.nNew = d.nNew, !.nTried = d.nTried,
                    !.mapInfo = [id \in ids |-> Loaded(d.new[id], refs(id), FALSE, id + 1)],
                    !.mapAddr = [ip \in {IpOf[d.new[id].service] : id \in ids} |->
                                    CHOOSE id \in ids : IpOf[d.new[id].service] = ip],
                    !.vRandom = [p \in 1..d.nNew |-> p - 1],
                    !.vvNew = d.vvNew]
        after[n \in 0..d.nTried] == IF n = 0 THEN news ELSE LoadTried(after[n - 1], d.tried[n - 1])
    IN after[d.nTried]

\* The program ends and starts again with a dump of ThreadDumpAddress.  The dump may be
\* old: what it loads was then reached by this action when it was made.
LoadAddresses == addrman' = Unserialize(Serialize(addrman))

AddrInit == addrman = CAddrMan

AddrNext ==
    \/ \E s \in Service, src \in Source : Add(s, src)
    \/ \E s \in Service : Good(s)
    \/ GetAddr
    \/ LoadAddresses

AddrSpec == AddrInit /\ [][AddrNext]_addrman

(***************************************************************************)
(* Properties.                                                             *)
(***************************************************************************)
TriedIds(a) == {id \in DOMAIN a.mapInfo : a.mapInfo[id].fInTried}

NewIds(a) == DOMAIN a.mapInfo \ TriedIds(a)

TriedPlaces(a, id) ==
    {x \in TriedBuckets \X (1..TRIED_BUCKET_SIZE) :
        x[2] \in DOMAIN a.vvTried[x[1]] /\ a.vvTried[x[1]][x[2]] = id}

NewPlaces(a, id) == {b \in NewBuckets : id \in a.vvNew[b]}

Indexed(a) ==
    /\ \A id \in DOMAIN a.mapInfo : LET info == a.mapInfo[id] IN
        /\ IpOf[info.service] \in DOMAIN a.mapAddr /\ a.mapAddr[IpOf[info.service]] = id
        /\ info.nRandomPos \in DOMAIN a.vRandom /\ a.vRandom[info.nRandomPos] = id
    /\ \A ip \in DOMAIN a.mapAddr : a.mapAddr[ip] \in DOMAIN a.mapInfo
    /\ Len(a.vRandom) = a.nTried + a.nNew

Counted(a) ==
    /\ a.nTried = Cardinality(TriedIds(a)) /\ a.nNew = Cardinality(NewIds(a))
    /\ \A id \in TriedIds(a) : a.mapInfo[id].everGood /\ a.mapInfo[id].nRefCount = 0
    /\ \A id \in NewIds(a) : a.mapInfo[id].nRefCount \in 1..NEW_BUCKETS_PER_ADDRESS

Placed(a) ==
    /\ \A id \in DOMAIN a.mapInfo :
        /\ Cardinality(TriedPlaces(a, id)) = IF a.mapInfo[id].fInTried THEN 1 ELSE 0
        /\ Cardinality(NewPlaces(a, id)) = a.mapInfo[id].nRefCount
    /\ \A b \in NewBuckets : a.vvNew[b] \subseteq DOMAIN a.mapInfo
    /\ \A b \in TriedBuckets, p \in 1..TRIED_BUCKET_SIZE :
        p \in DOMAIN a.vvTried[b] => a.vvTried[b][p] \in DOMAIN a.mapInfo

Consistent(a) == Indexed(a) /\ Counted(a) /\ Placed(a)

\* The conditions of Check_ (compiled only with DEBUG_ADDRMAN) hold after every call:
\* each entry is found under its address and its position, is counted once, is in as
\* many new buckets as its nRefCount says and in one tried bucket exactly if fInTried;
\* and no bucket, which ShrinkNew and Evict keep small, ever exceeds its size.  A count
\* that said otherwise would also make Select_ draw buckets of an empty table for ever.
CheckPasses ==
    /\ Consistent(addrman)
    /\ \A b \in NewBuckets : Cardinality(addrman.vvNew[b]) <= NEW_BUCKET_SIZE
    /\ \A b \in TriedBuckets : Len(addrman.vvTried[b]) <= TRIED_BUCKET_SIZE

View(a) ==
    LET peer(id) == <<a.mapInfo[id].service, a.mapInfo[id].source, a.mapInfo[id].everGood>>
    IN [new |-> [b \in NewBuckets |-> {peer(id) : id \in a.vvNew[b]}],
        tried |-> [b \in TriedBuckets |-> {peer(a.vvTried[b][p]) : p \in DOMAIN a.vvTried[b]}]]

\* What is dumped now and loaded after a restart has every entry in the buckets it was
\* in, although ids, positions and counts are rebuilt, and passes Check_.
LoadsBack ==
    LET back == Unserialize(Serialize(addrman))
    IN View(back) = View(addrman) /\ Consistent(back)

=============================================================================
