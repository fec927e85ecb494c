------------------------------ MODULE BlockSync ------------------------------
(***************************************************************************)
(* How two connected nodes exchange blocks and signed proof-of-work hashes *)
(* (main.cpp, ProcessMessage, SendMessages and ProcessBlock; signedhash.cpp *)
(* and CNode's inventory in net.h).                                        *)
(*                                                                         *)
(* A node without scratchpads cannot compute the hash of a block: it drops *)
(* a block whose hash it has not been told, asks for the signed hash, and  *)
(* has to ask for the block again once the hash arrives.  A block whose    *)
(* parent is missing is kept as an orphan, and a proof-of-stake block      *)
(* whose stake was seen before is refused unless an orphan waits for it.   *)
(*                                                                         *)
(* One handler runs at a time on a node (cs_main), messages of one         *)
(* connection arrive in order, and a connection may break at any time with *)
(* all that is under way in it.                                            *)
(***************************************************************************)
EXTENDS Integers, Sequences, FiniteSets, SequencesExt

CONSTANTS Nodes,          \* the two nodes of the connection
          Hashing,        \* the nodes with -ramhogthreads
          Signing,        \* the nodes with the master key of signed hashes
          Blocks, Genesis, NoBlock,
          Prev,           \* hashPrevBlock
          Stake, NoStake, \* GetProofOfStake; NoStake for proof-of-work
          Unconnectable,  \* the blocks a node's SetBestChain fails to connect
          Known, Signed,  \* the blocks and signed hashes each node starts with
          Upstream,       \* nodes that get blocks and hashes elsewhere too
          nLimit,         \* of getblocks: blocks announced at a time
          MaxDisconnects  \* bound: how often the connection breaks

ASSUME SyncAssumption ==
  /\ Cardinality(Nodes) = 2
  /\ Hashing \subseteq Nodes /\ Signing \subseteq Hashing /\ Upstream \subseteq Nodes
  /\ Prev \in [Blocks -> Blocks \cup {NoBlock}]
  /\ Known \in [Nodes -> SUBSET Blocks] /\ Signed \in [Nodes -> SUBSET (Blocks \ {Genesis})]
  /\ Unconnectable \in [Nodes -> SUBSET Blocks]
  /\ nLimit \in Nat \ {0} /\ MaxDisconnects \in Nat

VARIABLES chain,       \* each node's blocks: index, tip and orphans
          hashes,      \* the proof-of-work hashes each node knows
          link,        \* each node's CNode of the connection
          net,         \* the messages on their way to each node
          disconnects

vars == <<chain, hashes, link, net, disconnects>>

Peer(n) == CHOOSE m \in Nodes : m # n

\* The chain from the genesis block to b.
ChainTo[b \in Blocks] ==
  IF b = Genesis THEN <<b>> ELSE Append(ChainTo[Prev[b]], b)
nHeight(b)       == Len(ChainTo[b])
IsAncestor(a, b) == a \in ToSet(ChainTo[b])

\* The highest of a set of blocks.
BestOf(S) == CHOOSE b \in S : \A c \in S : nHeight(c) <= nHeight(b)

\* Inventory items (CInv).
BlockInv(b) == [kind |-> "MSG_BLOCK", hash |-> b]
SigInv(b)   == [kind |-> "MSG_SIGNED_HASH", hash |-> b]
Invs        == {BlockInv(b) : b \in Blocks} \cup {SigInv(b) : b \in Blocks}

\* A new CNode, with nothing asked, announced or known; nVersion is set by the
\* peer's version message.
NewLink == [nVersion |-> FALSE, vInventoryToSend |-> <<>>, setInventoryKnown |-> {},
            mapAskFor |-> <<>>, lastGetBlocks |-> <<NoBlock, NoBlock>>,
            hashContinue |-> NoBlock, vSend |-> <<>>]

NewChain(n) == [mapBlockIndex |-> Known[n], pindexBest |-> BestOf(Known[n]),
                mapOrphanBlocks |-> {}, setStakeSeenOrphan |-> {}]

Msg(type, hash) == [type |-> type, hash |-> hash]
VersionMsg      == Msg("version", NoBlock)

Init ==
  /\ chain = [n \in Nodes |-> NewChain(n)]
  /\ hashes = [n \in Nodes |-> [mapPoWCache |-> {}, mapSigCache |-> Signed[n]]]
  /\ link = [n \in Nodes |-> NewLink]
  /\ net = [n \in Nodes |-> <<VersionMsg>>]
  /\ disconnects = 0

(***************************************************************************)
(* CNode: what a handler does to the node's end k of the link.             *)
(***************************************************************************)

PushMessage(k, m) == [k EXCEPT !.vSend = Append(@, m)]

AddInventoryKnown(k, inv) == [k EXCEPT !.setInventoryKnown = @ \cup {inv}]

PushInventory(k, inv) ==
  IF \/ inv \in k.setInventoryKnown
     \/ inv.kind = "MSG_SIGNED_HASH" /\ ~k.nVersion
  THEN k
  ELSE [k EXCEPT !.vInventoryToSend = Append(@, inv)]

\* The same request is not sent twice in a row.
PushGetBlocks(k, begin, end) ==
  IF k.lastGetBlocks = <<begin, end>> THEN k
  ELSE [k EXCEPT !.lastGetBlocks = <<begin, end>>,
                 !.vSend = Append(@, [type |-> "getblocks", locator |-> begin,
                                      stop |-> end])]

AskFor(k, inv) == [k EXCEPT !.mapAskFor = Append(@, inv)]

PushInventories(k, vInv) == FoldLeft(PushInventory, k, vInv)

\* The node is in state s with hashes h and link k now, and what the handler
\* pushed is on its way; rest is what is still on its way to the node.
Become(n, s, h, k, rest) ==
  /\ chain' = [chain EXCEPT ![n] = s]
  /\ hashes' = [hashes EXCEPT ![n] = h]
  /\ link' = [link EXCEPT ![n] = [k EXCEPT !.vSend = <<>>]]
  /\ net' = [net EXCEPT ![n] = rest, ![Peer(n)] = @ \o k.vSend]
  /\ UNCHANGED disconnects

Receive(n, type) == net[n] # <<>> /\ Head(net[n]).type = type

\* The end of a handler that leaves the blocks alone.
Reply(n, h, k) == Become(n, chain[n], h, k, Tail(net[n]))

(***************************************************************************)
(* Signed hashes.                                                          *)
(***************************************************************************)

GetSignedPoWHash(h, b) == b \in h.mapSigCache
GetPoWHash(h, b)       == b \in h.mapSigCache \cup h.mapPoWCache

\* CBlock::GetPoWHash: what is in neither cache is computed and cached.
ComputeHashes(h, S) == [h EXCEPT !.mapPoWCache = @ \cup (S \ h.mapSigCache)]

UncheckedAddSignedHash(h, b) == [h EXCEPT !.mapSigCache = @ \cup {b}]

\* SendSignedHash for a set of blocks.
SignHashes(h, S) == [ComputeHashes(h, S) EXCEPT !.mapSigCache = @ \cup S]

\* ProcessSignedHashInvRequest for a set of blocks: a node with the key signs
\* what is not signed yet.  What it can announce then are the signed ones.
Requested(n, h, S) == IF n \in Signing THEN SignHashes(h, S) ELSE h
Announced(n, h, S) == {b \in S : GetSignedPoWHash(Requested(n, h, S), b)}

\* The first block of the main chain without a signed hash is asked for.
CatchUpSigHashes(n, k) ==
  LET missing == {b \in ToSet(ChainTo[chain[n].pindexBest]) \ {Genesis} :
                    ~GetSignedPoWHash(hashes[n], b)}
  IN IF n \in Signing \/ missing = {} THEN k
     ELSE PushMessage(k, Msg("getsigpowhas",
            CHOOSE b \in missing : \A c \in missing : nHeight(b) <= nHeight(c)))

(***************************************************************************)
(* ProcessBlock.                                                           *)
(***************************************************************************)

setStakeSeen(s) == {Stake[b] : b \in s.mapBlockIndex} \ {NoStake}

\* mapOrphanBlocksByPrev.count(b)
HasOrphanChild(s, b) == \E o \in s.mapOrphanBlocks : Prev[o] = b

\* GetOrphanRoot; WantedByOrphan is its parent.
GetOrphanRoot(s, b) ==
  BestOf({a \in ToSet(ChainTo[b]) : a = Genesis \/ Prev[a] \notin s.mapOrphanBlocks})

\* AcceptBlock at the state a.s: the block enters the index, and if it is higher
\* than the tip SetBestChain connects it, or fails for good.  A new tip is
\* announced; a.queue has the blocks that were accepted.
Connectable(n, b) == ToSet(ChainTo[b]) \cap Unconnectable[n] = {}
Connects(n, s, b) == nHeight(b) > nHeight(s.pindexBest) => Connectable(n, b)

AcceptBlock(n, a, b) ==
  LET tip == nHeight(b) > nHeight(a.s.pindexBest) /\ Connects(n, a.s, b)
  IN [s     |-> [a.s EXCEPT !.mapBlockIndex = @ \cup {b},
                            !.pindexBest = IF tip THEN b ELSE @],
      queue |-> IF Connects(n, a.s, b) THEN Append(a.queue, b) ELSE a.queue,
      vInv  |-> IF tip THEN Append(a.vInv, BlockInv(b)) ELSE a.vInv]

EraseOrphan(s, o) ==
  [s EXCEPT !.mapOrphanBlocks = @ \ {o}, !.setStakeSeenOrphan = @ \ {Stake[o]}]

AddOrphan(s, b) ==
  [s EXCEPT !.mapOrphanBlocks = @ \cup {b},
            !.setStakeSeenOrphan = @ \cup ({Stake[b]} \ {NoStake})]

\* An orphan is accepted in its turn, and forgotten whether or not that succeeds.
ProcessOrphan(n, a, o) == [AcceptBlock(n, a, o) EXCEPT !.s = EraseOrphan(@, o)]

\* The orphans that wait for block p, in the order of their hashes, which is any.
ProcessChildren(n, a, p) ==
  FoldLeft(LAMBDA c, o : ProcessOrphan(n, c, o), a,
           SetToSeq({o \in a.s.mapOrphanBlocks : Prev[o] = p}))

\* Mutated form of ProcessOrphans: the first generation only.
ProcessOrphansOnce(n, a) == ProcessChildren(n, a, Head(a.queue))

\* The work queue, after each of its entries in turn: the orphans whose parent was
\* accepted.  It holds the block that arrived and no orphan twice.
ProcessOrphans(n, a) ==
  LET last == 1 + Cardinality(a.s.mapOrphanBlocks)
      after[i \in 0..last] ==
        LET c == after[i - 1] IN
        IF i = 0 THEN a
        ELSE IF i > Len(c.queue) THEN c ELSE ProcessChildren(n, c, c.queue[i])
  IN after[last]

\* CheckBlock needs the hash of a proof-of-work block.
Hashed(n, h, b) == IF Stake[b] = NoStake THEN ComputeHashes(h, {b}) ELSE h

\* Already in the index or an orphan, or the stake was seen and no orphan
\* waits for the block.
Refused(s, b) ==
  \/ b \in s.mapBlockIndex \cup s.mapOrphanBlocks
  \/ Stake[b] \in setStakeSeen(s) /\ ~HasOrphanChild(s, b)

ProcessBlockRefused(n, b, k, rest) ==
  /\ Refused(chain[n], b)
  /\ Become(n, chain[n], hashes[n], k, rest)

\* Mutated form of ProcessBlockOrphan: the missing parent is not asked for.
ProcessBlockOrphanNoAsk(n, b, k, rest) ==
  LET s == chain[n] IN
    /\ ~Refused(s, b) /\ Prev[b] \notin s.mapBlockIndex
    /\ Stake[b] \notin s.setStakeSeenOrphan \/ HasOrphanChild(s, b)
    /\ Become(n, AddOrphan(s, b), Hashed(n, hashes[n], b), k, rest)

\* The parent is missing: keep the block, and ask for what comes before it.
ProcessBlockOrphan(n, b, k, rest) ==
  LET s == chain[n]
      root == GetOrphanRoot(AddOrphan(s, b), b)
  IN /\ ~Refused(s, b) /\ Prev[b] \notin s.mapBlockIndex
     /\ Stake[b] \notin s.setStakeSeenOrphan \/ HasOrphanChild(s, b)
     /\ Become(n, AddOrphan(s, b), Hashed(n, hashes[n], b),
               AskFor(PushGetBlocks(k, s.pindexBest, root), BlockInv(Prev[root])),
               rest)

\* An orphan with the stake of another orphan.
ProcessBlockDuplicateOrphan(n, b, k, rest) ==
  LET s == chain[n] IN
    /\ ~Refused(s, b) /\ Prev[b] \notin s.mapBlockIndex
    /\ Stake[b] \in s.setStakeSeenOrphan /\ ~HasOrphanChild(s, b)
    /\ Become(n, s, Hashed(n, hashes[n], b), k, rest)

\* Accept the block; then the orphans that waited for it are processed, and
\* the block's hash is signed.
ProcessBlockAccept(n, b, k, rest) ==
  LET s    == chain[n]
      a    == AcceptBlock(n, [s |-> s, queue |-> <<>>, vInv |-> <<>>], b)
      c    == IF Connects(n, s, b) THEN ProcessOrphans(n, a) ELSE a
      sign == IF n \in Signing /\ Connects(n, s, b) THEN {b} ELSE {}
  IN /\ ~Refused(s, b) /\ Prev[b] \in s.mapBlockIndex
     /\ Become(n, c.s, SignHashes(Hashed(n, hashes[n], b), sign),
               PushInventories(k, c.vInv \o SetToSeq({SigInv(d) : d \in sign})),
               rest)

ProcessBlock(n, b, k, rest) ==
  \/ ProcessBlockRefused(n, b, k, rest)
  \/ ProcessBlockOrphan(n, b, k, rest)
  \/ ProcessBlockDuplicateOrphan(n, b, k, rest)
  \/ ProcessBlockAccept(n, b, k, rest)

(***************************************************************************)
(* The message handlers of ProcessMessage.                                 *)
(***************************************************************************)

\* The only peer is asked for blocks; of several peers, the first one.
HandleVersion(n) ==
  /\ Receive(n, "version")
  /\ \E ask \in IF n \in Upstream THEN BOOLEAN ELSE {TRUE} :
       LET k == [link[n] EXCEPT !.nVersion = TRUE]
       IN Reply(n, hashes[n],
                CatchUpSigHashes(n,
                  IF ask THEN PushGetBlocks(k, chain[n].pindexBest, NoBlock) ELSE k))

AlreadyHave(n, inv) ==
  IF inv.kind = "MSG_BLOCK"
  THEN inv.hash \in chain[n].mapBlockIndex \cup chain[n].mapOrphanBlocks
  ELSE inv.hash \in hashes[n].mapSigCache

\* What is new is asked for; an orphan's root is asked for again, and so is
\* what follows when the last block of the bundle is known.
HandleInv(n) ==
  LET vInv   == Head(net[n]).vInv
      blocks == {i \in DOMAIN vInv : vInv[i].kind = "MSG_BLOCK"}
      One(k, i) ==
        LET inv == vInv[i] IN
          IF ~AlreadyHave(n, inv) THEN AskFor(k, inv)
          ELSE IF inv.kind = "MSG_BLOCK" /\ inv.hash \in chain[n].mapOrphanBlocks
          THEN PushGetBlocks(k, chain[n].pindexBest, GetOrphanRoot(chain[n], inv.hash))
          ELSE IF i \in blocks /\ \A j \in blocks : j <= i
          THEN PushGetBlocks(k, inv.hash, NoBlock)
          ELSE k
      seen == [link[n] EXCEPT !.setInventoryKnown = @ \cup ToSet(vInv)]
  IN /\ Receive(n, "inv")
     /\ Reply(n, hashes[n], FoldLeft(One, seen, [i \in DOMAIN vInv |-> i]))

\* GetLastBlockIndex(pindexBest, false)
LastProofOfWork(n) ==
  BestOf({b \in ToSet(ChainTo[chain[n].pindexBest]) : Stake[b] = NoStake})

\* A block from disk, and after the last one of a batch an announcement that
\* makes the peer ask for more; or a signed hash.
HandleGetData(n) ==
  LET One(k, inv) ==
        CASE inv.kind = "MSG_SIGNED_HASH" /\ inv.hash \in hashes[n].mapSigCache ->
               PushMessage(k, Msg("sigpowhash", inv.hash))
          [] inv.kind = "MSG_BLOCK" /\ inv.hash \in chain[n].mapBlockIndex ->
               IF inv.hash # k.hashContinue THEN PushMessage(k, Msg("block", inv.hash))
               ELSE [k EXCEPT !.hashContinue = NoBlock,
                              !.vSend = @ \o <<Msg("block", inv.hash),
                                 [type |-> "inv", vInv |-> <<BlockInv(LastProofOfWork(n))>>]>>]
          [] OTHER -> k
  IN /\ Receive(n, "getdata")
     /\ Reply(n, hashes[n], FoldLeft(One, link[n], Head(net[n]).vInv))

\* The blocks of the main chain after the last one the locator shares with it,
\* up to the stop block or the limit, each with its signed hash.
HandleGetBlocks(n) ==
  LET m      == Head(net[n])
      best   == chain[n].pindexBest
      main   == ChainTo[best]
      fork   == BestOf(ToSet(main) \cap ToSet(ChainTo[m.locator]))
      after  == SubSeq(main, nHeight(fork) + 1, Len(main))
      toStop == IF m.stop \in ToSet(after)
                THEN SubSeq(after, 1, nHeight(m.stop) - nHeight(fork) - 1) ELSE after
      limit  == nLimit + nHeight(m.locator) - nHeight(fork)   \* GetDistanceBack
      sent   == SubSeq(toStop, 1, IF Len(toStop) < limit THEN Len(toStop) ELSE limit)
      signed == Announced(n, hashes[n], ToSet(sent))
      vInv   == FlattenSeq([i \in DOMAIN sent |->
                  IF sent[i] \in signed THEN <<SigInv(sent[i]), BlockInv(sent[i])>>
                  ELSE <<BlockInv(sent[i])>>])
      k      == PushInventories(link[n], vInv)
  IN /\ Receive(n, "getblocks")
     /\ Reply(n, Requested(n, hashes[n], ToSet(sent)),
              IF Len(sent) = limit THEN [k EXCEPT !.hashContinue = Last(sent)]
              ELSE IF m.stop \in ToSet(after) /\ m.stop # best
              THEN PushInventory(k, BlockInv(best))
              ELSE k)

\* Mutated form of HandleBlock: the hash is asked for, the block is kept.
HandleBlockUngated(n) ==
  LET b == Head(net[n]).hash
      k == AddInventoryKnown(link[n], BlockInv(b))
      ask == IF GetPoWHash(hashes[n], b) THEN k
             ELSE PushMessage(k, Msg("getsigpowhas", b))
  IN Receive(n, "block") /\ ProcessBlock(n, b, ask, Tail(net[n]))

\* A node without scratchpads drops a block whose hash it does not know.
HandleBlock(n) ==
  LET b == Head(net[n]).hash
      k == AddInventoryKnown(link[n], BlockInv(b))
      ask == IF GetPoWHash(hashes[n], b) THEN k
             ELSE PushMessage(k, Msg("getsigpowhas", b))
  IN /\ Receive(n, "block")
     /\ IF n \notin Hashing /\ ~GetPoWHash(hashes[n], b)
        THEN Reply(n, hashes[n], ask)
        ELSE ProcessBlock(n, b, ask, Tail(net[n]))

\* Up to 20 blocks from b along pnext.
HandleGetSigPowHas(n) ==
  LET b    == Head(net[n]).hash
      main == ChainTo[chain[n].pindexBest]
      from == IF b \notin chain[n].mapBlockIndex THEN <<>>
              ELSE IF IsAncestor(b, chain[n].pindexBest)
              THEN SubSeq(main, nHeight(b), Len(main)) ELSE <<b>>
      signed == Announced(n, hashes[n], ToSet(from))
      vInv   == SelectSeq(from, LAMBDA c : c \in signed)
  IN /\ Receive(n, "getsigpowhas")
     /\ Reply(n, Requested(n, hashes[n], ToSet(from)),
              PushInventories(link[n], [i \in DOMAIN vInv |-> SigInv(vInv[i])]))

\* Mutated form of HandleSigPowHash: the block is not asked for again.
HandleSigPowHashOnly(n) ==
  LET b == Head(net[n]).hash IN
    /\ Receive(n, "sigpowhash")
    /\ Reply(n, UncheckedAddSignedHash(hashes[n], b),
             AddInventoryKnown(link[n], SigInv(b)))

\* The hash is stored and announced, and a block that is not in the index is
\* asked for again.
HandleSigPowHash(n) ==
  LET b == Head(net[n]).hash
      k == AddInventoryKnown(link[n], SigInv(b))
  IN /\ Receive(n, "sigpowhash")
     /\ Reply(n, UncheckedAddSignedHash(hashes[n], b),
              IF b \in chain[n].mapBlockIndex THEN k ELSE AskFor(k, BlockInv(b)))

ProcessMessage(n) ==
  \/ HandleVersion(n) \/ HandleInv(n) \/ HandleGetData(n) \/ HandleGetBlocks(n)
  \/ HandleBlock(n) \/ HandleGetSigPowHas(n) \/ HandleSigPowHash(n)

(***************************************************************************)
(* The other steps.                                                        *)
(***************************************************************************)

\* What a node has to send, and what it has yet to get from others.
ToSend(n)  == /\ link[n].nVersion
              /\ link[n].vInventoryToSend # <<>> \/ link[n].mapAskFor # <<>>
ToCome(n)  == {b \in Blocks \ chain[n].mapBlockIndex :
                 /\ n \in Hashing \/ GetPoWHash(hashes[n], b)
                 /\ Prev[b] \in chain[n].mapBlockIndex /\ ~Refused(chain[n], b)}
ToSign(n)  == chain[n].mapBlockIndex \ (hashes[n].mapSigCache \cup {Genesis})

\* SendMessages: the announcements, then the requests that are due.  A request
\* made again is due two minutes later, so any of them may come first.
SendMessages(n) ==
  LET k    == link[n]
      new  == SelectSeq(k.vInventoryToSend, LAMBDA inv : inv \notin k.setInventoryKnown)
      vInv == FoldLeft(LAMBDA q, inv : IF Contains(q, inv) THEN q ELSE Append(q, inv),
                       <<>>, new)
      Asked(due) == SelectSeq(k.mapAskFor, LAMBDA inv : inv \in due)
  IN /\ ToSend(n)
     /\ \E due \in SUBSET ToSet(k.mapAskFor) :
          LET ask == SelectSeq(Asked(due), LAMBDA inv : ~AlreadyHave(n, inv))
          IN Become(n, chain[n], hashes[n],
               [k EXCEPT
                  !.vInventoryToSend = <<>>,
                  !.setInventoryKnown = @ \cup ToSet(vInv),
                  !.mapAskFor = SelectSeq(@, LAMBDA inv : inv \notin due),
                  !.vSend = (IF vInv = <<>> THEN <<>> ELSE <<[type |-> "inv", vInv |-> vInv]>>)
                      \o (IF ask = <<>> THEN <<>> ELSE <<[type |-> "getdata", vInv |-> ask]>>)],
               net[n])

\* A node with other peers gets the next block from one of them.
BlockFromElsewhere(n, b) ==
  /\ n \in Upstream /\ b \in ToCome(n)
  /\ ProcessBlock(n, b, link[n], net[n])

\* And the signed hash of a block it has.
HashFromElsewhere(n, b) ==
  /\ n \in Upstream /\ b \in ToSign(n)
  /\ Become(n, chain[n], UncheckedAddSignedHash(hashes[n], b),
            PushInventory(link[n], SigInv(b)), net[n])

\* The connection breaks and is made again: both ends start with a new CNode.
Reconnect ==
  /\ disconnects < MaxDisconnects
  /\ disconnects' = disconnects + 1
  /\ link' = [n \in Nodes |-> NewLink]
  /\ net' = [n \in Nodes |-> <<VersionMsg>>]
  /\ UNCHANGED <<chain, hashes>>

Next ==
  \/ \E n \in Nodes : ProcessMessage(n)
  \/ \E n \in Nodes : SendMessages(n)
  \/ \E n \in Nodes, b \in Blocks : BlockFromElsewhere(n, b)
  \/ \E n \in Nodes, b \in Blocks : HashFromElsewhere(n, b)
  \/ Reconnect

\* Weak fairness, with the conditions under which each step is possible spelled
\* out: the threads run, requests come due, and blocks and signed hashes reach
\* the node that has other peers.  The connection need not break.
Fairness ==
  /\ \A n \in Nodes :
       /\ []<>(net[n] = <<>>) \/ []<><<ProcessMessage(n)>>_vars
       /\ []<>(~ToSend(n)) \/ []<><<SendMessages(n)>>_vars
  /\ \A n \in Upstream :
       /\ []<>(ToCome(n) = {}) \/ []<><<\E b \in Blocks : BlockFromElsewhere(n, b)>>_vars
       /\ []<>(ToSign(n) = {}) \/ []<><<\E b \in Blocks : HashFromElsewhere(n, b)>>_vars

Spec == Init /\ [][Next]_vars /\ Fairness

(***************************************************************************)
(* Properties.                                                             *)
(***************************************************************************)

\* An orphan is kept only while its parent is missing: as soon as the parent is
\* in the block index the orphans that waited for it are processed, and none of
\* them is kept beside the index record it got.  Only the orphans of a block
\* that cannot be connected stay.  And a stake is remembered as an orphan's only
\* while an orphan with that stake is kept; a stake that stayed behind would
\* refuse later blocks for ever.
OrphansConsistent ==
  \A n \in Nodes :
    /\ \A o \in chain[n].mapOrphanBlocks :
         /\ o \notin chain[n].mapBlockIndex
         /\ Prev[o] \in chain[n].mapBlockIndex => ~Connectable(n, Prev[o])
    /\ chain[n].setStakeSeenOrphan \subseteq {Stake[o] : o \in chain[n].mapOrphanBlocks}

\* A node without scratchpads keeps only blocks whose hash was signed: neither
\* an orphan nor a retry gets a block past the check of its proof of work.
OnlySignedAccepted ==
  \A n \in Nodes \ Hashing :
    chain[n].mapBlockIndex \cup chain[n].mapOrphanBlocks
      \subseteq hashes[n].mapSigCache \cup Known[n]

\* Whatever the order in which blocks, signed hashes, announcements and
\* requests cross, and wherever the connection broke, both nodes end up with
\* the longest chain.
CatchesUp ==
  <>[](\A n \in Nodes : chain[n].pindexBest = BestOf(Blocks))
==============================================================================
