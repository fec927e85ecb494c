----------------------------- MODULE PeersProofs -----------------------------
(***************************************************************************)
(* What is proved of the peers: of the connections to them (NetNodes) and  *)
(* of the addresses they are found at (AddrMan).  The two components have  *)
(* nothing in common, nor have the two halves of this module.              *)
(*                                                                         *)
(* NetNodes: no thread has a node that was deleted, and no outbound grant  *)
(* is posted twice, for any number of connections, of threads that open    *)
(* them and of grants.                                                     *)
(*                                                                         *)
(* AddrMan: the indexes agree after every call and after every restart,    *)
(* for any peers, buckets and bucket sizes.                                *)
(***************************************************************************)
EXTENDS NetNodes, AddrMan, FoldLemmas

(***************************************************************************)
(* The inductive invariant.  The grants do not matter for it.               *)
(***************************************************************************)
NodesType ==
  /\ node \in [Conns -> NodeRecords]
  /\ vNodes \subseteq Conns /\ vNodesDisconnected \subseteq Conns
  /\ vNodesCopy \in [Handlers -> SUBSET Conns]
  /\ opener \in [Openers -> OpenerRecords]
  /\ walk \subseteq Conns /\ races \in [Conns -> Nat]
  /\ \A o \in Openers :
       opener[o].pnode # NoConn <=> opener[o].pc \in {"addref", "incref", "grant", "set", "flag"}

\* vNodes and the pool are disjoint and hold the objects that are alive.
PoolsLive ==
  /\ vNodes \cap vNodesDisconnected = {}
  /\ \A c \in vNodes \cup vNodesDisconnected : node[c].life = "live"

\* What a handler uses is in vNodes or in the pool, unless its count was spoilt.
CopiesPooled ==
  \A h \in Handlers : \A c \in vNodesCopy[h] :
     races[c] = 0 => c \in vNodes \cup vNodesDisconnected

\* What an opener sets flags of is in vNodes, or in the pool and its time is not
\* over: the opener has no reference of its own, so only the time keeps it.
OpenersPooled ==
  \A o \in Openers : opener[o].pnode # NoConn =>
     \/ opener[o].pnode \in vNodes
     \/ opener[o].pnode \in vNodesDisconnected /\ node[opener[o].pnode].held

\* So does the relay along vNodes.
WalkPooled ==
  \A c \in walk : c \in vNodes \/ (c \in vNodesDisconnected /\ node[c].held)

\* Nothing has happened to the count of a node that does not exist yet.
FreshNodes == \A c \in Conns : node[c].life = "none" => races[c] = 0

Pooled == PoolsLive /\ CopiesPooled /\ OpenersPooled /\ WalkPooled /\ FreshNodes

\* What an opener has read, and is about to write plus one, is enough for vNodes; and
\* once the node has left vNodes, when no further handler takes a reference, what it
\* writes is enough for the handlers that still use it.
Left(o) == opener[o].nRead + races[opener[o].pnode]
ReadsCovered ==
  \A o \in Openers : opener[o].pc = "incref" =>
     IF opener[o].pnode \in vNodes THEN Left(o) >= 1 ELSE Left(o) + 1 >= Users(opener[o].pnode)

IInv == NodesType /\ Pooled /\ RefsCovered /\ ReadsCovered

\* The users of a node can be counted, and none of them is a handler if there are none.
LEMMA UsersNat == \A c : Users(c) \in 0..2 /\ (Users(c) = 0 => \A h \in Handlers : c \notin vNodesCopy[h])
  BY DEF Users, Uses, Handlers

\* A node is made with all its fields.
LEMMA NewNodeType ==
  ASSUME NEW a \in Addrs, NEW b \in BOOLEAN
  PROVE  NewNode(a, b) \in NodeRecords
  BY DEF NewNode, NodeRecords

\* What disconnecting leaves alone, and what it does to the count.
LEMMA DisconnectedNode ==
  ASSUME NEW n \in NodeRecords
  PROVE  /\ Disconnected(n) \in NodeRecords
         /\ Disconnected(n).life = n.life /\ Disconnected(n).held
         /\ Disconnected(n).nRefCount >= n.nRefCount - 1
<1> DEFINE n1 == [n EXCEPT !.fDisconnect = TRUE]
           n2 == [n1 EXCEPT !.fHasGrant = FALSE]
           n3 == [n2 EXCEPT !.held = TRUE]
           k  == IF n.fNetworkNode \/ n.fInbound THEN n.nRefCount - 1 ELSE n.nRefCount
           n4 == [n3 EXCEPT !.nRefCount = k]
<1>0. Disconnected(n) = n4
  BY Zenon DEF Disconnected
<1>1. n1 \in NodeRecords /\ n1.life = n.life
  BY DEF NodeRecords
<1> HIDE DEF n1
<1>2. n2 \in NodeRecords /\ n2.life = n.life
  BY <1>1 DEF NodeRecords
<1> HIDE DEF n2
<1>3. n3 \in NodeRecords /\ n3.life = n.life /\ n3.held
  BY <1>2 DEF NodeRecords
<1> HIDE DEF n3
<1>4. k \in Int /\ k >= n.nRefCount - 1
  BY DEF NodeRecords
<1> HIDE DEF k
<1>5. n4 \in NodeRecords /\ n4.life = n.life /\ n4.held /\ n4.nRefCount = k
  BY <1>3, <1>4 DEF NodeRecords
<1> QED BY <1>0, <1>4, <1>5

\* No connection at the start.
LEMMA InitIInv == Init => IInv
<1> SUFFICES ASSUME Init PROVE IInv
  OBVIOUS
<1>1. PICK a \in Addrs :
        /\ node = [c \in Conns |-> [NewNode(a, FALSE) EXCEPT !.life = "none"]]
        /\ opener = [o \in Openers |-> [pc |-> "idle", addr |-> a, pnode |-> NoConn,
                                       nRead |-> 0]]
  BY DEF Init
<1>2. NodesType
  <2>1. [NewNode(a, FALSE) EXCEPT !.life = "none"] \in NodeRecords
    <3>1. \A n \in NodeRecords : [n EXCEPT !.life = "none"] \in NodeRecords
      BY DEF NodeRecords
    <3> QED BY <3>1, NewNodeType
  <2>2. opener \in [Openers -> OpenerRecords]
    BY <1>1 DEF OpenerRecords
  <2>3. vNodesCopy \in [Handlers -> SUBSET Conns]
    BY DEF Init
  <2>4. \A o \in Openers : opener[o].pnode = NoConn /\ opener[o].pc = "idle"
    BY <1>1
  <2>5. node \in [Conns -> NodeRecords]
    BY <1>1, <2>1
  <2> QED BY <2>2, <2>3, <2>4, <2>5 DEF NodesType, Init
<1>3. Pooled
  BY <1>1 DEF Init, Pooled, PoolsLive, CopiesPooled, OpenersPooled, WalkPooled, FreshNodes
<1>4. RefsCovered
  BY <1>1 DEF RefsCovered, NewNode
<1>5. ReadsCovered
  BY <1>1 DEF ReadsCovered
<1> QED BY <1>2, <1>3, <1>4, <1>5 DEF IInv

\* A node in the pool that is deleted is used by no handler, unless its count was
\* spoilt, and by no opener and no relay.
LEMMA DeletedUnused ==
  ASSUME IInv, NEW c \in ToDelete
  PROVE  /\ ~node[c].held
         /\ races[c] = 0 => \A h \in Handlers : c \notin vNodesCopy[h]
         /\ \A o \in Openers : opener[o].pnode # c
         /\ c \notin walk
<1>1. c \in Conns /\ c \in vNodesDisconnected /\ GetRefCount(c) <= 0
  BY DEF ToDelete, IInv, NodesType
<1>2. node[c].life = "live" /\ c \notin vNodes
  BY <1>1 DEF IInv, Pooled, PoolsLive
<1>3. node[c].nRefCount \in Int /\ node[c].held \in BOOLEAN /\ races[c] \in Nat
  BY <1>1 DEF IInv, NodesType, NodeRecords
<1>4. node[c].nRefCount + races[c] >= Users(c)
  BY <1>1, <1>2, <1>3, UsersNat DEF IInv, RefsCovered
<1>5. node[c].nRefCount <= 0 /\ ~node[c].held
  BY <1>1, <1>3 DEF GetRefCount
<1>6. races[c] = 0 => Users(c) = 0
  BY <1>3, <1>4, <1>5, UsersNat
<1>7. \A o \in Openers : opener[o].pnode # c
  BY <1>1, <1>2, <1>5, NetAssumption DEF IInv, Pooled, OpenersPooled
<1>8. c \notin walk
  BY <1>2, <1>5 DEF IInv, Pooled, WalkPooled
<1> QED BY <1>5, <1>6, <1>7, <1>8, UsersNat

\* ThreadSocketHandler moves the nodes to be disconnected into the pool.
LEMMA DisconnectNodesIInv == IInv /\ DisconnectNodes => IInv'
<1> SUFFICES ASSUME IInv, DisconnectNodes PROVE IInv'
  OBVIOUS
<1> USE DEF IInv
<1>1. PICK idle \in SUBSET vNodes :
        /\ node' = [c \in Conns |->
                      IF c \in ToDisconnect(idle) THEN Disconnected(node[c])
                      ELSE IF c \in ToDelete THEN [node[c] EXCEPT !.life = "deleted"]
                      ELSE node[c]]
        /\ vNodes' = vNodes \ ToDisconnect(idle)
        /\ vNodesDisconnected' = (vNodesDisconnected \ ToDelete) \cup ToDisconnect(idle)
  BY DEF DisconnectNodes
<1> DEFINE gone == ToDisconnect(idle)
<1>u. UNCHANGED <<vNodesCopy, opener, walk, races>>
  BY DEF DisconnectNodes
<1>g. gone \subseteq vNodes /\ ToDelete \subseteq vNodesDisconnected
  BY DEF ToDisconnect, ToDelete
<1>d. gone \cap ToDelete = {}
  BY <1>g DEF Pooled, PoolsLive
<1>n. \A c \in Conns :
        /\ c \in gone => node'[c] = Disconnected(node[c])
        /\ c \in ToDelete => node'[c] = [node[c] EXCEPT !.life = "deleted"]
        /\ c \notin gone \cup ToDelete => node'[c] = node[c]
  BY <1>1, <1>d
<1> HIDE DEF gone
<1>2. NodesType'
  <2>1. \A n \in NodeRecords : Disconnected(n) \in NodeRecords
    BY DisconnectedNode
  <2>2. \A n \in NodeRecords : [n EXCEPT !.life = "deleted"] \in NodeRecords
    BY DEF NodeRecords
  <2>3. \A c \in Conns : node'[c] \in NodeRecords
    <3> SUFFICES ASSUME NEW c \in Conns PROVE node'[c] \in NodeRecords
      OBVIOUS
    <3>1. node[c] \in NodeRecords
      BY DEF NodesType
    <3> QED BY <1>n, <2>1, <2>2, <3>1
  <2>4. node' \in [Conns -> NodeRecords]
    BY <1>1, <2>3
  <2> QED BY <2>4, <1>1, <1>u, <1>g DEF NodesType, gone
<1>3. PoolsLive'
  <2>1. \A c \in gone : node'[c].life = "live"
    BY <1>n, <1>g, DisconnectedNode, ZenonT(60) DEF NodesType, Pooled, PoolsLive
  <2>2. (vNodes \cap vNodesDisconnected)' = {}
    BY <1>1, <1>g DEF Pooled, PoolsLive, gone
  <2>3. \A c \in (vNodes \cup vNodesDisconnected)' :
          c \in gone \/ (c \in vNodes \cup vNodesDisconnected /\ c \notin gone \cup ToDelete)
    BY <1>1, <1>g DEF Pooled, PoolsLive, gone
  <2> QED BY <2>1, <2>2, <2>3, <1>n DEF NodesType, Pooled, PoolsLive
<1>4. CopiesPooled'
  BY <1>1, <1>u, DeletedUnused DEF Pooled, CopiesPooled, gone
<1>5. OpenersPooled'
  <2> SUFFICES ASSUME NEW o \in Openers, opener[o].pnode # NoConn
               PROVE  \/ opener[o].pnode \in vNodes'
                      \/ opener[o].pnode \in vNodesDisconnected' /\ node'[opener[o].pnode].held
    BY <1>u DEF OpenersPooled
  <2> DEFINE c == opener[o].pnode
  <2>1. c \in Conns /\ c \notin ToDelete
    BY DeletedUnused DEF NodesType, OpenerRecords
  <2>2. CASE c \in gone
    <3>1. node'[c].held
      <4>1. node'[c] = Disconnected(node[c]) /\ node[c] \in NodeRecords
        BY <1>n, <2>1, <2>2 DEF NodesType
      <4> QED BY <4>1, DisconnectedNode, Zenon
    <3> QED BY <3>1, <2>2, <1>1 DEF gone
  <2>3. CASE c \notin gone
    <3>1. node'[c] = node[c]
      BY <2>1, <2>3, <1>n
    <3> QED BY <3>1, <2>1, <2>3, <1>1 DEF Pooled, OpenersPooled, gone
  <2> QED BY <2>2, <2>3
<1>w. WalkPooled'
  <2> SUFFICES ASSUME NEW c \in walk
               PROVE  c \in vNodes' \/ (c \in vNodesDisconnected' /\ node'[c].held)
    BY <1>u DEF WalkPooled
  <2>1. c \in Conns /\ c \notin ToDelete
    BY DeletedUnused DEF NodesType
  <2>2. CASE c \in gone
    <3>1. node'[c] = Disconnected(node[c]) /\ node[c] \in NodeRecords
      BY <1>n, <2>1, <2>2 DEF NodesType
    <3>2. node'[c].held
      BY <3>1, DisconnectedNode, Zenon
    <3> QED BY <3>2, <2>2, <1>1 DEF gone
  <2>3. CASE c \notin gone
    <3>1. node'[c] = node[c]
      BY <2>1, <2>3, <1>n
    <3> QED BY <3>1, <2>1, <2>3, <1>1 DEF Pooled, WalkPooled, gone
  <2> QED BY <2>2, <2>3
<1>f. FreshNodes'
  <2> SUFFICES ASSUME NEW c \in Conns, node'[c].life = "none" PROVE races[c] = 0
    BY <1>u DEF FreshNodes
  <2>1. node[c] \in NodeRecords
    BY DEF NodesType
  <2>2. c \notin ToDelete
    BY <1>n, <2>1 DEF NodeRecords
  <2>3. node[c].life = "none"
    BY <1>n, <2>1, <2>2, DisconnectedNode
  <2> QED BY <2>3 DEF Pooled, FreshNodes
<1>r. ReadsCovered'
  <2> SUFFICES ASSUME NEW o \in Openers, opener[o].pc = "incref"
               PROVE  IF opener[o].pnode \in vNodes' THEN Left(o) >= 1
                      ELSE Left(o) + 1 >= Users(opener[o].pnode)
    BY <1>u DEF ReadsCovered, Left, Users, Uses
  <2>1. Left(o) \in Int
    BY NetAssumption DEF NodesType, OpenerRecords, Left
  <2>2. IF opener[o].pnode \in vNodes THEN Left(o) >= 1 ELSE Left(o) + 1 >= Users(opener[o].pnode)
    BY DEF ReadsCovered
  <2>3. opener[o].pnode \in vNodes' => opener[o].pnode \in vNodes
    BY <1>1
  <2> QED BY <2>1, <2>2, <2>3, UsersNat
<1>6. RefsCovered'
  <2> SUFFICES ASSUME NEW c \in Conns, node'[c].life = "live"
               PROVE  node'[c].nRefCount + races[c] >= Users(c) + (IF c \in vNodes' THEN 1 ELSE 0)
    BY <1>u DEF RefsCovered, Users, Uses
  <2>1. node[c] \in NodeRecords /\ node[c].nRefCount \in Int /\ races[c] \in Nat
    BY DEF NodesType, NodeRecords
  <2>2. CASE c \in gone
    <3>1. node[c].life = "live" /\ c \in vNodes /\ c \notin vNodes'
      BY <2>2, <1>g, <1>1 DEF Pooled, PoolsLive, gone
    <3>2. node'[c].nRefCount >= node[c].nRefCount - 1 /\ node'[c].nRefCount \in Int
      BY <2>1, <2>2, <1>n, DisconnectedNode DEF NodeRecords
    <3>3. node[c].nRefCount + races[c] >= Users(c) + 1
      BY <3>1 DEF RefsCovered
    <3> QED BY <2>1, <3>1, <3>2, <3>3, UsersNat
  <2>3. CASE c \in ToDelete
    BY <2>1, <2>3, <1>n DEF NodeRecords
  <2>4. CASE c \notin gone \cup ToDelete
    <3>1. node'[c] = node[c] /\ (c \in vNodes' <=> c \in vNodes)
      BY <2>4, <1>n, <1>1 DEF gone
    <3> QED BY <3>1 DEF RefsCovered
  <2> QED BY <2>2, <2>3, <2>4
<1> QED BY <1>2, <1>3, <1>4, <1>5, <1>6, <1>w, <1>f, <1>r DEF Pooled

\* A new node is published.
LEMMA PublishIInv ==
  ASSUME IInv, NEW c \in Conns, NEW a \in Addrs, NEW b \in BOOLEAN,
         node[c].life = "none",
         node' = [node EXCEPT ![c] = NewNode(a, b)],
         vNodes' = vNodes \cup {c},
         UNCHANGED <<vNodesDisconnected, vNodesCopy, walk, races>>,
         opener' \in [Openers -> OpenerRecords],
         \A o \in Openers :
           /\ opener'[o].pnode # NoConn <=> opener'[o].pc \in {"addref", "incref", "grant", "set", "flag"}
           /\ opener'[o].pnode \in {opener[o].pnode, c}
           /\ opener'[o].pc = "incref" => opener'[o] = opener[o]
  PROVE  IInv'
<1> USE DEF IInv
<1>1. NewNode(a, b) \in NodeRecords /\ NewNode(a, b).life = "live" /\ NewNode(a, b).nRefCount = 1
  BY NewNodeType DEF NewNode
<1>2. node'[c] = NewNode(a, b) /\ \A d \in Conns : d # c => node'[d] = node[d]
  BY DEF NodesType
<1>3. NodesType'
  <2>1. node' \in [Conns -> NodeRecords]
    BY <1>1 DEF NodesType
  <2> QED BY <2>1 DEF NodesType
<1>4. c \notin vNodes \cup vNodesDisconnected
  BY DEF Pooled, PoolsLive
<1>5. PoolsLive' /\ CopiesPooled'
  BY <1>1, <1>2, <1>4 DEF NodesType, Pooled, PoolsLive, CopiesPooled
<1>6. OpenersPooled'
  <2> SUFFICES ASSUME NEW o \in Openers, opener'[o].pnode # NoConn
               PROVE  \/ opener'[o].pnode \in vNodes'
                      \/ /\ opener'[o].pnode \in vNodesDisconnected'
                         /\ node'[opener'[o].pnode].held
    BY DEF OpenersPooled
  <2>1. CASE opener'[o].pnode = c
    BY <2>1
  <2>2. CASE opener'[o].pnode = opener[o].pnode /\ opener[o].pnode # c
    <3>1. node'[opener[o].pnode] = node[opener[o].pnode]
      BY <2>2, <1>2 DEF NodesType, OpenerRecords
    <3> QED BY <3>1, <2>2 DEF Pooled, OpenersPooled
  <2> QED BY <2>1, <2>2
<1>8. WalkPooled' /\ FreshNodes'
  <2>1. WalkPooled'
    BY <1>2, <1>4 DEF NodesType, Pooled, WalkPooled
  <2>2. FreshNodes'
    BY <1>1, <1>2 DEF Pooled, FreshNodes
  <2> QED BY <2>1, <2>2
<1>9. ReadsCovered'
  <2> SUFFICES ASSUME NEW o \in Openers, opener[o].pc = "incref"
               PROVE  IF opener[o].pnode \in vNodes' THEN Left(o) >= 1
                      ELSE Left(o) + 1 >= Users(opener[o].pnode)
    BY DEF ReadsCovered, Left, Users, Uses
  <2>1. opener[o].pnode # NoConn
    BY DEF NodesType
  <2>2. opener[o].pnode # c
    BY <1>4, <2>1 DEF Pooled, OpenersPooled
  <2> QED BY <2>2 DEF ReadsCovered
<1>7. RefsCovered'
  <2>1. Users(c) = 0 /\ races[c] = 0
    BY <1>4 DEF Pooled, CopiesPooled, FreshNodes, Users, Uses, Handlers
  <2>2. \A d \in Conns : (Users(d))' = Users(d)
    BY DEF Users, Uses
  <2> SUFFICES ASSUME NEW d \in Conns, node'[d].life = "live"
               PROVE  node'[d].nRefCount + races[d] >= Users(d) + (IF d \in vNodes' THEN 1 ELSE 0)
    BY <2>2 DEF RefsCovered
  <2>3. CASE d = c
    BY <2>1, <2>3, <1>1, <1>2
  <2>4. CASE d # c
    BY <2>4, <1>2 DEF RefsCovered
  <2> QED BY <2>3, <2>4
<1> QED BY <1>3, <1>5, <1>6, <1>7, <1>8, <1>9 DEF Pooled

\* A step on nodes that leaves their life and their time, and covers the references:
\* a count that was read in it covers them as well.
LEMMA NodeStepIInv ==
  ASSUME IInv,
         node' \in [Conns -> NodeRecords], races' \in [Conns -> Nat],
         \A c \in Conns :
           /\ node'[c].life = node[c].life /\ (node[c].held => node'[c].held)
           /\ races'[c] >= races[c] /\ (node[c].life = "none" => races'[c] = races[c])
           /\ node[c].life = "live" =>
                node'[c].nRefCount + races'[c] >= Users(c) + (IF c \in vNodes THEN 1 ELSE 0),
         UNCHANGED <<vNodes, vNodesDisconnected, vNodesCopy, walk>>,
         opener' \in [Openers -> OpenerRecords],
         \A o \in Openers :
           /\ opener'[o].pnode # NoConn <=> opener'[o].pc \in {"addref", "incref", "grant", "set", "flag"}
           /\ opener'[o].pnode \in {opener[o].pnode, NoConn} \cup vNodes
           /\ opener'[o].pc = "incref" =>
                \/ opener'[o] = opener[o]
                \/ opener'[o].nRead + races[opener'[o].pnode] >=
                      Users(opener'[o].pnode) + (IF opener'[o].pnode \in vNodes THEN 1 ELSE 0)
  PROVE  IInv'
<1> USE DEF IInv
<1>1. NodesType'
  BY DEF NodesType
<1>2. PoolsLive'
  BY DEF NodesType, Pooled, PoolsLive
<1>3. OpenersPooled'
  <2> SUFFICES ASSUME NEW o \in Openers, opener'[o].pnode # NoConn
               PROVE  \/ opener'[o].pnode \in vNodes
                      \/ /\ opener'[o].pnode \in vNodesDisconnected
                         /\ node'[opener'[o].pnode].held
    BY DEF OpenersPooled
  <2>1. CASE opener'[o].pnode \in vNodes
    BY <2>1
  <2>2. CASE opener'[o].pnode = opener[o].pnode
    BY <2>2 DEF NodesType, Pooled, OpenersPooled
  <2> QED BY <2>1, <2>2
<1>r. \A c \in Conns : races[c] \in Nat /\ races'[c] \in Nat /\ races'[c] >= races[c]
  BY DEF NodesType
<1>4. CopiesPooled'
  <2>1. \A h \in Handlers : vNodesCopy[h] \subseteq Conns
    BY DEF NodesType
  <2>2. \A c \in Conns : races'[c] = 0 => races[c] = 0
    BY <1>r
  <2> QED BY <2>1, <2>2 DEF Pooled, CopiesPooled
<1>5. WalkPooled' /\ FreshNodes'
  BY DEF NodesType, Pooled, WalkPooled, FreshNodes
<1>6. \A c : (Users(c))' = Users(c) /\ Users(c) \in 0..2
  BY UsersNat DEF Users, Uses
<1>7. RefsCovered'
  BY <1>6 DEF RefsCovered
<1>8. ReadsCovered'
  <2> SUFFICES ASSUME NEW o \in Openers, opener'[o].pc = "incref"
               PROVE  LET c == opener'[o].pnode
                          k == opener'[o].nRead + races'[c]
                      IN IF c \in vNodes THEN k >= 1 ELSE k + 1 >= Users(c)
    BY <1>6 DEF ReadsCovered, Left
  <2> DEFINE c == opener'[o].pnode
             k == opener'[o].nRead
  <2>1. c \in Conns /\ k \in Int
    BY NetAssumption DEF OpenerRecords
  <2>2. \/ opener'[o] = opener[o]
        \/ k + races[c] >= Users(c) + (IF c \in vNodes THEN 1 ELSE 0)
    OBVIOUS
  <2>3. IF c \in vNodes THEN k + races[c] >= 1 ELSE k + races[c] + 1 >= Users(c)
    <3>1. CASE opener'[o] = opener[o]
      BY <3>1 DEF ReadsCovered, Left
    <3>2. CASE k + races[c] >= Users(c) + (IF c \in vNodes THEN 1 ELSE 0)
      BY <3>2, <2>1, <1>6, <1>r
    <3> QED BY <3>1, <3>2, <2>2
  <2> HIDE DEF c, k
  <2>4. IF c \in vNodes THEN k + races'[c] >= 1 ELSE k + races'[c] + 1 >= Users(c)
    BY <2>1, <2>3, <1>6, <1>r
  <2> QED BY <2>4 DEF c, k
<1> QED BY <1>1, <1>2, <1>3, <1>4, <1>5, <1>7, <1>8 DEF Pooled

\* A step that leaves the counts alone as well.
LEMMA CountsKeptIInv ==
  ASSUME IInv,
         node' \in [Conns -> NodeRecords],
         \A c \in Conns :
           /\ node'[c].life = node[c].life /\ (node[c].held => node'[c].held)
           /\ node'[c].nRefCount = node[c].nRefCount,
         UNCHANGED <<vNodes, vNodesDisconnected, vNodesCopy, walk, races>>,
         opener' \in [Openers -> OpenerRecords],
         \A o \in Openers :
           /\ opener'[o].pnode # NoConn <=> opener'[o].pc \in {"addref", "incref", "grant", "set", "flag"}
           /\ opener'[o].pnode \in {opener[o].pnode, NoConn} \cup vNodes
           /\ opener'[o].pc = "incref" => opener'[o] = opener[o]
  PROVE  IInv'
<1>1. races' \in [Conns -> Nat] /\ \A c \in Conns : races'[c] = races[c] /\ races'[c] \in Nat
  BY DEF IInv, NodesType
<1>2. \A c \in Conns : races'[c] >= races[c]
  BY <1>1
<1>3. \A c \in Conns : node[c].life = "live" =>
        node'[c].nRefCount + races'[c] >= Users(c) + (IF c \in vNodes THEN 1 ELSE 0)
  BY <1>1 DEF IInv, RefsCovered
<1> QED BY <1>1, <1>2, <1>3, NodeStepIInv

\* A handler takes or gives back a reference to each node of S.
LEMMA CountType ==
  ASSUME NEW n \in NodeRecords, NEW k \in Int
  PROVE  /\ [n EXCEPT !.nRefCount = k] \in NodeRecords
         /\ [n EXCEPT !.nRefCount = k].life = n.life
         /\ n.held => [n EXCEPT !.nRefCount = k].held
         /\ [n EXCEPT !.nRefCount = k].nRefCount = k
  BY DEF NodeRecords

\* A handler copies vNodes, works and releases.
LEMMA HandlerIInv ==
  ASSUME IInv, NEW h \in Handlers, CopyNodes(h) \/ ReleaseNodes(h)
  PROVE  IInv'
<1> USE DEF IInv
<1> DEFINE d == IF CopyNodes(h) THEN 1 ELSE -1
           S == IF CopyNodes(h) THEN vNodes ELSE vNodesCopy[h]
<1>0. d \in Int
  OBVIOUS
<1>1. /\ node' = [c \in Conns |-> IF c \in S THEN [node[c] EXCEPT !.nRefCount = @ + d]
                                  ELSE node[c]]
      /\ UNCHANGED <<vNodes, vNodesDisconnected, opener, walk, races>>
      /\ vNodesCopy' = [vNodesCopy EXCEPT ![h] = IF CopyNodes(h) THEN vNodes ELSE {}]
  <2>1. CASE CopyNodes(h)
    BY <2>1, Zenon DEF CopyNodes
  <2>2. CASE ReleaseNodes(h) /\ ~CopyNodes(h)
    <3>1. \A c \in Conns : node[c].nRefCount - 1 = node[c].nRefCount + (-1)
      BY DEF NodesType, NodeRecords
    <3>2. node' = [c \in Conns |-> IF c \in vNodesCopy[h]
                                   THEN [node[c] EXCEPT !.nRefCount = node[c].nRefCount - 1]
                                   ELSE node[c]]
      BY <2>2 DEF ReleaseNodes
    <3> QED BY <2>2, <3>1, <3>2, Zenon DEF ReleaseNodes
  <2> QED BY <2>1, <2>2
<1>2. \A c \in S : c \in vNodes \/ d = -1
  OBVIOUS
<1>3. \A c \in Conns : c \in vNodesCopy[h] <=> (IF CopyNodes(h) THEN FALSE ELSE c \in S)
  BY DEF CopyNodes
<1> HIDE DEF d, S
<1>4. \A c \in Conns :
        /\ node'[c] \in NodeRecords /\ node'[c].life = node[c].life
        /\ node[c].held => node'[c].held
        /\ node'[c].nRefCount = IF c \in S THEN node[c].nRefCount + d ELSE node[c].nRefCount
        /\ node[c].nRefCount \in Int
  <2> SUFFICES ASSUME NEW c \in Conns
        PROVE  /\ node'[c] \in NodeRecords /\ node'[c].life = node[c].life
               /\ node[c].held => node'[c].held
               /\ node'[c].nRefCount = IF c \in S THEN node[c].nRefCount + d ELSE node[c].nRefCount
               /\ node[c].nRefCount \in Int
    OBVIOUS
  <2>1. node[c] \in NodeRecords /\ node[c].nRefCount \in Int
    BY DEF NodesType, NodeRecords
  <2>2. node[c].nRefCount + d \in Int
    BY <2>1, <1>0
  <2>3. node'[c] = IF c \in S THEN [node[c] EXCEPT !.nRefCount = node[c].nRefCount + d] ELSE node[c]
    BY <1>1, Zenon
  <2>4. CASE c \in S
    <3> DEFINE n == [node[c] EXCEPT !.nRefCount = node[c].nRefCount + d]
    <3>1. /\ n \in NodeRecords /\ n.life = node[c].life /\ (node[c].held => n.held)
          /\ n.nRefCount = node[c].nRefCount + d
      BY <2>1, <2>2, CountType
    <3>2. node'[c] = n
      BY <2>3, <2>4, Zenon
    <3> HIDE DEF n
    <3> QED BY <3>1, <3>2, <2>1, <2>4, Zenon
  <2>5. CASE c \notin S
    BY <2>1, <2>3, <2>5, Zenon
  <2> QED BY <2>4, <2>5
<1>5. NodesType'
  <2>1. node' \in [Conns -> NodeRecords]
    BY <1>1, <1>4
  <2>2. vNodesCopy' \in [Handlers -> SUBSET Conns]
    BY <1>1 DEF NodesType
  <2> QED BY <2>1, <2>2, <1>1 DEF NodesType
<1>6. PoolsLive'
  BY <1>1, <1>4 DEF NodesType, Pooled, PoolsLive
<1>7. CopiesPooled'
  BY <1>1 DEF NodesType, Pooled, CopiesPooled
<1>8. OpenersPooled'
  BY <1>1, <1>4 DEF NodesType, Pooled, OpenersPooled
<1>w. WalkPooled' /\ FreshNodes'
  BY <1>1, <1>4 DEF NodesType, Pooled, WalkPooled, FreshNodes
<1>u. \A c \in Conns : (Users(c))' = IF c \in S THEN Users(c) + d ELSE Users(c)
  <2>1. \A c \in Conns :
          (Uses(h, c))' = IF CopyNodes(h) THEN (IF c \in vNodes THEN 1 ELSE 0) ELSE 0
    BY <1>1 DEF Uses, NodesType
  <2>2. \A c \in Conns :
          Uses(h, c) = IF CopyNodes(h) THEN 0 ELSE (IF c \in S THEN 1 ELSE 0)
    BY <1>3 DEF Uses
  <2>3. \A c \in Conns, g \in Handlers : g # h => (Uses(g, c))' = Uses(g, c)
    BY <1>1 DEF Uses, NodesType
  <2> SUFFICES ASSUME NEW c \in Conns
               PROVE  (Users(c))' = IF c \in S THEN Users(c) + d ELSE Users(c)
    OBVIOUS
  <2>4. \A g \in Handlers : Uses(g, c) \in Int
    BY DEF Uses
  <2>5. (Uses(h, c))' = IF c \in S THEN Uses(h, c) + d ELSE Uses(h, c)
    BY <2>1, <2>2 DEF d, S
  <2>6. CASE h = "socket"
    BY <2>4, <2>5, <2>6, <2>3, <1>0 DEF Handlers, Users
  <2>7. CASE h = "message"
    BY <2>4, <2>5, <2>7, <2>3, <1>0 DEF Handlers, Users
  <2> QED BY <2>6, <2>7 DEF Handlers
<1>9. RefsCovered'
  <2> SUFFICES ASSUME NEW c \in Conns, node'[c].life = "live"
               PROVE  node'[c].nRefCount + races[c] >= (Users(c))' + (IF c \in vNodes' THEN 1 ELSE 0)
    BY <1>1 DEF RefsCovered
  <2>1. node[c].nRefCount + races[c] >= Users(c) + (IF c \in vNodes THEN 1 ELSE 0)
    BY <1>4 DEF RefsCovered
  <2>2. races[c] \in Nat
    BY DEF NodesType
  <2> QED BY <2>1, <2>2, <1>0, <1>1, <1>4, <1>u, UsersNat
<1>10. ReadsCovered'
  <2> SUFFICES ASSUME NEW o \in Openers, opener[o].pc = "incref"
               PROVE  IF opener[o].pnode \in vNodes THEN Left(o) >= 1
                      ELSE Left(o) + 1 >= (Users(opener[o].pnode))'
    BY <1>1 DEF ReadsCovered, Left
  <2> DEFINE c == opener[o].pnode
  <2>1. Left(o) \in Int /\ c \in Conns
    BY NetAssumption DEF NodesType, OpenerRecords, Left
  <2>2. IF c \in vNodes THEN Left(o) >= 1 ELSE Left(o) + 1 >= Users(c)
    BY DEF ReadsCovered
  <2>3. \A e \in Conns : e \notin vNodes => (Users(e))' <= Users(e)
    BY <1>0, <1>2, <1>u, UsersNat
  <2>4. \A e \in Conns : (Users(e))' \in Int /\ Users(e) \in Int
    BY <1>0, <1>u, UsersNat
  <2>5. PICK e \in Conns : e = c
    BY <2>1
  <2>6. IF e \in vNodes THEN Left(o) >= 1 ELSE Left(o) + 1 >= (Users(e))'
    BY <2>1, <2>2, <2>3, <2>4, <2>5
  <2>7. (Users(c))' = (Users(e))'
    BY <1>1, <2>5 DEF Users, Uses
  <2> QED BY <2>5, <2>6, <2>7
<1> QED BY <1>5, <1>6, <1>7, <1>8, <1>9, <1>10, <1>w DEF Pooled

\* A flag that is set leaves the rest of the node alone,
LEMMA FlagType ==
  ASSUME NEW n \in NodeRecords, NEW b \in BOOLEAN
  PROVE  /\ [n EXCEPT !.fDisconnect = b] \in NodeRecords
         /\ [n EXCEPT !.fDisconnect = b].life = n.life
         /\ n.held => [n EXCEPT !.fDisconnect = b].held
         /\ [n EXCEPT !.fDisconnect = b].nRefCount = n.nRefCount
         /\ [n EXCEPT !.fHasGrant = b] \in NodeRecords
         /\ [n EXCEPT !.fHasGrant = b].life = n.life
         /\ n.held => [n EXCEPT !.fHasGrant = b].held
         /\ [n EXCEPT !.fHasGrant = b].nRefCount = n.nRefCount
         /\ [n EXCEPT !.fNetworkNode = b] \in NodeRecords
         /\ [n EXCEPT !.fNetworkNode = b].life = n.life
         /\ n.held => [n EXCEPT !.fNetworkNode = b].held
         /\ [n EXCEPT !.fNetworkNode = b].nRefCount = n.nRefCount
  BY DEF NodeRecords

\* and so does the release time.
LEMMA TimeType ==
  ASSUME NEW n \in NodeRecords
  PROVE  /\ [n EXCEPT !.held = FALSE] \in NodeRecords
         /\ [n EXCEPT !.held = FALSE].life = n.life
         /\ [n EXCEPT !.held = FALSE].nRefCount = n.nRefCount
  BY DEF NodeRecords

\* One field of one node is set.
LEMMA CloseIInv ==
  ASSUME IInv, NEW h \in Handlers, NEW c \in Conns, CloseSocketDisconnect(h, c)
  PROVE  IInv'
<1>1. node[c] \in NodeRecords /\ node \in [Conns -> NodeRecords]
  BY DEF IInv, NodesType
<1>2. node' = [node EXCEPT ![c] = [node[c] EXCEPT !.fDisconnect = TRUE]]
      /\ UNCHANGED <<vNodes, vNodesDisconnected, vNodesCopy, opener, walk, races>>
  BY <1>1 DEF CloseSocketDisconnect
<1> DEFINE n == [node[c] EXCEPT !.fDisconnect = TRUE]
<1>3. n \in NodeRecords /\ n.life = node[c].life /\ (node[c].held => n.held)
      /\ n.nRefCount = node[c].nRefCount
  BY <1>1, FlagType
<1> HIDE DEF n
<1>4. node' = [node EXCEPT ![c] = n]
  BY <1>2 DEF n
<1>5. \A d \in Conns : node[d].nRefCount \in Int
  BY <1>1 DEF NodeRecords
<1>6. node' \in [Conns -> NodeRecords]
  BY <1>1, <1>3, <1>4
<1>7. \A d \in Conns : /\ node'[d].life = node[d].life /\ (node[d].held => node'[d].held)
                       /\ node'[d].nRefCount = node[d].nRefCount
  BY <1>1, <1>3, <1>4, <1>5
<1> QED BY <1>2, <1>6, <1>7, CountsKeptIInv DEF IInv, NodesType

\* The release time of a node passes.
LEMMA TimeIInv ==
  ASSUME IInv, NEW c \in Conns, ReleaseTimePassed(c)
  PROVE  IInv'
<1> USE DEF IInv
<1>1. node[c] \in NodeRecords /\ node \in [Conns -> NodeRecords]
  BY DEF NodesType
<1> DEFINE n == [node[c] EXCEPT !.held = FALSE]
<1>2. n \in NodeRecords /\ n.life = node[c].life /\ n.nRefCount = node[c].nRefCount
  BY <1>1, TimeType
<1>3. node' = [node EXCEPT ![c] = n] /\ (\A o \in Openers : opener[o].pnode # c)
      /\ c \notin walk
      /\ UNCHANGED <<vNodes, vNodesDisconnected, vNodesCopy, opener, walk, races>>
  BY DEF ReleaseTimePassed
<1> HIDE DEF n
<1>4. node' \in [Conns -> NodeRecords] /\ \A d \in Conns : d # c => node'[d] = node[d]
  BY <1>1, <1>2, <1>3
<1>8. \A d \in Conns : node'[d].life = node[d].life /\ node'[d].nRefCount = node[d].nRefCount
  BY <1>1, <1>2, <1>3
<1>5. NodesType' /\ PoolsLive' /\ CopiesPooled'
  <2>1. NodesType'
    BY <1>3, <1>4 DEF NodesType
  <2>2. PoolsLive'
    BY <1>3, <1>8 DEF NodesType, Pooled, PoolsLive
  <2>3. CopiesPooled'
    BY <1>3 DEF Pooled, CopiesPooled
  <2> QED BY <2>1, <2>2, <2>3
<1>6. OpenersPooled'
  BY <1>3, <1>4 DEF NodesType, OpenerRecords, Pooled, OpenersPooled
<1>7. RefsCovered'
  <2>1. \A d \in Conns : (Users(d))' = Users(d)
    BY <1>3 DEF Users, Uses
  <2> QED BY <2>1, <1>3, <1>8 DEF RefsCovered
<1>9. WalkPooled' /\ FreshNodes'
  BY <1>3, <1>4, <1>8 DEF NodesType, Pooled, WalkPooled, FreshNodes
<1>10. ReadsCovered'
  BY <1>3 DEF ReadsCovered, Left, Users, Uses
<1> QED BY <1>5, <1>6, <1>7, <1>9, <1>10 DEF Pooled

\* A checkpoint is relayed along vNodes, without cs_vNodes.
LEMMA RelayIInv ==
  ASSUME IInv, RelayStart \/ RelayEnd
  PROVE  IInv'
<1>1. /\ walk' \subseteq vNodes
      /\ UNCHANGED <<node, vNodes, vNodesDisconnected, vNodesCopy, opener, races>>
  BY DEF RelayStart, RelayEnd
<1>2. NodesType'
  BY <1>1 DEF IInv, NodesType
<1>3. PoolsLive' /\ CopiesPooled' /\ OpenersPooled' /\ FreshNodes'
  BY <1>1 DEF IInv, Pooled, PoolsLive, CopiesPooled, OpenersPooled, FreshNodes
<1>4. WalkPooled'
  BY <1>1 DEF WalkPooled
<1>5. RefsCovered' /\ ReadsCovered'
  BY <1>1 DEF IInv, RefsCovered, ReadsCovered, Left, Users, Uses
<1> QED BY <1>2, <1>3, <1>4, <1>5 DEF IInv, Pooled

(***************************************************************************)
(* The openers.                                                            *)
(***************************************************************************)
HasNode == {"addref", "incref", "grant", "set", "flag"}

\* An opener moves on: to no node, or to one that is in vNodes.
LEMMA OpenerType ==
  ASSUME NodesType, NEW o \in Openers, NEW r \in OpenerRecords,
         r.pnode # NoConn <=> r.pc \in HasNode,
         opener' = [opener EXCEPT ![o] = r]
  PROVE  /\ opener' \in [Openers -> OpenerRecords]
         /\ opener'[o] = r /\ \A p \in Openers : p # o => opener'[p] = opener[p]
         /\ \A p \in Openers :
              opener'[p].pnode # NoConn <=> opener'[p].pc \in {"addref", "incref", "grant", "set", "flag"}
  BY DEF NodesType, HasNode

\* An opener goes on,
LEMMA PcStep ==
  ASSUME NEW r \in OpenerRecords, NEW pc \in {"idle", "check", "connect", "dial", "addref", "incref", "grant", "set", "flag"}
  PROVE  /\ [r EXCEPT !.pc = pc] \in OpenerRecords
         /\ [r EXCEPT !.pc = pc].pnode = r.pnode /\ [r EXCEPT !.pc = pc].pc = pc
  BY DEF OpenerRecords

\* gets a node,
LEMMA PnodeStep ==
  ASSUME NEW r \in OpenerRecords, NEW pc \in {"idle", "check", "connect", "dial", "addref", "incref", "grant", "set", "flag"},
         NEW p \in Conns \cup {NoConn}
  PROVE  /\ [r EXCEPT !.pc = pc, !.pnode = p] \in OpenerRecords
         /\ [r EXCEPT !.pc = pc, !.pnode = p].pnode = p
         /\ [r EXCEPT !.pc = pc, !.pnode = p].pc = pc
<1>1. \A q \in OpenerRecords, x \in Conns \cup {NoConn} :
         /\ [q EXCEPT !.pnode = x] \in OpenerRecords
         /\ [q EXCEPT !.pnode = x].pc = q.pc /\ [q EXCEPT !.pnode = x].pnode = x
  BY DEF OpenerRecords
<1> DEFINE q == [r EXCEPT !.pc = pc]
<1>2. q \in OpenerRecords /\ q.pc = pc
  BY PcStep
<1>3. [r EXCEPT !.pc = pc, !.pnode = p] = [q EXCEPT !.pnode = p]
  BY Zenon
<1> HIDE DEF q
<1> QED BY <1>1, <1>2, <1>3

\* reads a count,
LEMMA ReadStep ==
  ASSUME NEW r \in OpenerRecords, NEW k \in Int
  PROVE  /\ [r EXCEPT !.pc = "incref", !.nRead = k] \in OpenerRecords
         /\ [r EXCEPT !.pc = "incref", !.nRead = k].pnode = r.pnode
         /\ [r EXCEPT !.pc = "incref", !.nRead = k].pc = "incref"
         /\ [r EXCEPT !.pc = "incref", !.nRead = k].nRead = k
<1>1. \A q \in OpenerRecords :
         /\ [q EXCEPT !.nRead = k] \in OpenerRecords
         /\ [q EXCEPT !.nRead = k].pc = q.pc /\ [q EXCEPT !.nRead = k].pnode = q.pnode
         /\ [q EXCEPT !.nRead = k].nRead = k
  BY DEF OpenerRecords
<1> DEFINE q == [r EXCEPT !.pc = "incref"]
<1>2. q \in OpenerRecords /\ q.pc = "incref" /\ q.pnode = r.pnode
  BY PcStep
<1>3. [r EXCEPT !.pc = "incref", !.nRead = k] = [q EXCEPT !.nRead = k]
  BY Zenon
<1> HIDE DEF q
<1> QED BY <1>1, <1>2, <1>3

\* writes it back,
LEMMA WriteStep ==
  ASSUME NEW r \in OpenerRecords
  PROVE  /\ [r EXCEPT !.pc = "grant", !.nRead = 0] \in OpenerRecords
         /\ [r EXCEPT !.pc = "grant", !.nRead = 0].pnode = r.pnode
         /\ [r EXCEPT !.pc = "grant", !.nRead = 0].pc = "grant"
         /\ [r EXCEPT !.pc = "grant", !.nRead = 0].nRead = 0
<1>1. \A q \in OpenerRecords :
         /\ [q EXCEPT !.nRead = 0] \in OpenerRecords
         /\ [q EXCEPT !.nRead = 0].pc = q.pc /\ [q EXCEPT !.nRead = 0].pnode = q.pnode
         /\ [q EXCEPT !.nRead = 0].nRead = 0
  BY DEF OpenerRecords
<1> DEFINE q == [r EXCEPT !.pc = "grant"]
<1>2. q \in OpenerRecords /\ q.pc = "grant" /\ q.pnode = r.pnode
  BY PcStep
<1>3. [r EXCEPT !.pc = "grant", !.nRead = 0] = [q EXCEPT !.nRead = 0]
  BY Zenon
<1> HIDE DEF q
<1> QED BY <1>1, <1>2, <1>3

\* takes an address,
LEMMA AddrStep ==
  ASSUME NEW r \in OpenerRecords, NEW a \in Addrs
  PROVE  /\ [r EXCEPT !.pc = "check", !.addr = a] \in OpenerRecords
         /\ [r EXCEPT !.pc = "check", !.addr = a].pnode = r.pnode
         /\ [r EXCEPT !.pc = "check", !.addr = a].pc = "check"
<1>1. \A q \in OpenerRecords, x \in Addrs :
         /\ [q EXCEPT !.addr = x] \in OpenerRecords
         /\ [q EXCEPT !.addr = x].pc = q.pc /\ [q EXCEPT !.addr = x].pnode = q.pnode
  BY DEF OpenerRecords
<1> DEFINE q == [r EXCEPT !.pc = "check"]
<1>2. q \in OpenerRecords /\ q.pc = "check" /\ q.pnode = r.pnode
  BY PcStep
<1>3. [r EXCEPT !.pc = "check", !.addr = a] = [q EXCEPT !.addr = a]
  BY Zenon
<1> HIDE DEF q
<1> QED BY <1>1, <1>2, <1>3

\* or ends.
LEMMA IdleStep ==
  ASSUME NEW r \in OpenerRecords
  PROVE  /\ [r EXCEPT !.pc = "idle", !.pnode = NoConn] \in OpenerRecords
         /\ [r EXCEPT !.pc = "idle", !.pnode = NoConn].pnode = NoConn
         /\ [r EXCEPT !.pc = "idle", !.pnode = NoConn].pc = "idle"
<1>1. \A q \in OpenerRecords :
         /\ [q EXCEPT !.pnode = NoConn] \in OpenerRecords
         /\ [q EXCEPT !.pnode = NoConn].pc = q.pc /\ [q EXCEPT !.pnode = NoConn].pnode = NoConn
  BY DEF OpenerRecords
<1> DEFINE q == [r EXCEPT !.pc = "idle"]
<1>2. q \in OpenerRecords /\ q.pc = "idle"
  BY PcStep
<1>3. [r EXCEPT !.pc = "idle", !.pnode = NoConn] = [q EXCEPT !.pnode = NoConn]
  BY Zenon
<1> HIDE DEF q
<1> QED BY <1>1, <1>2, <1>3

\* A step of an opener that touches at most its own node, and not its count.
LEMMA OpenerMove ==
  ASSUME IInv, NEW o \in Openers, NEW r \in OpenerRecords,
         r.pnode # NoConn <=> r.pc \in HasNode, r.pc # "incref",
         r.pnode \in {opener[o].pnode, NoConn} \cup vNodes,
         opener' = [opener EXCEPT ![o] = r],
         node' \in [Conns -> NodeRecords],
         \A c \in Conns :
           /\ node'[c].life = node[c].life /\ (node[c].held => node'[c].held)
           /\ node'[c].nRefCount = node[c].nRefCount,
         UNCHANGED <<vNodes, vNodesDisconnected, vNodesCopy, walk, races>>
  PROVE  IInv'
<1>1. /\ opener' \in [Openers -> OpenerRecords]
      /\ opener'[o] = r /\ \A p \in Openers : p # o => opener'[p] = opener[p]
      /\ \A p \in Openers :
           opener'[p].pnode # NoConn <=> opener'[p].pc \in {"addref", "incref", "grant", "set", "flag"}
  BY OpenerType DEF IInv
<1>2. \A p \in Openers : /\ opener'[p].pnode \in {opener[p].pnode, NoConn} \cup vNodes
                         /\ opener'[p].pc = "incref" => opener'[p] = opener[p]
  BY <1>1
<1> QED BY <1>1, <1>2, CountsKeptIInv

\* An opener that changes no node.
LEMMA OpenerMoveOnly ==
  ASSUME IInv, NEW o \in Openers, NEW r \in OpenerRecords,
         r.pnode # NoConn <=> r.pc \in HasNode, r.pc # "incref",
         r.pnode \in {opener[o].pnode, NoConn} \cup vNodes,
         opener' = [opener EXCEPT ![o] = r],
         UNCHANGED <<node, vNodes, vNodesDisconnected, vNodesCopy, walk, races>>
  PROVE  IInv'
<1>1. node' \in [Conns -> NodeRecords]
  BY DEF IInv, NodesType
<1>2. \A c \in Conns :
        /\ node'[c].life = node[c].life /\ (node[c].held => node'[c].held)
        /\ node'[c].nRefCount = node[c].nRefCount
  OBVIOUS
<1> QED BY <1>1, <1>2, OpenerMove

\* The steps of an opener that leave the nodes alone.
LEMMA OpenerControlIInv ==
  ASSUME IInv, NEW o \in Openers,
         \/ \E a \in Addrs : WaitOutbound(o, a)
         \/ ReleaseGrant(o) \/ OpenNetworkConnection(o)
         \/ \E c \in Conns : ConnectNodeExisting(o, c)
         \/ ConnectNodeDial(o) \/ ConnectFailed(o)
         \/ ReadGrant(o)
  PROVE  IInv'
<1> DEFINE r == opener[o]
<1>1. /\ r \in OpenerRecords /\ r.pc \in {"idle", "check", "connect", "dial"} \cup HasNode
      /\ r.pnode \in Conns \cup {NoConn} /\ r.addr \in Addrs
      /\ r.pnode # NoConn <=> r.pc \in HasNode
      /\ opener \in [Openers -> OpenerRecords]
  BY DEF IInv, NodesType, OpenerRecords, HasNode
<1>2. ASSUME NEW pc \in {"idle", "check", "connect", "dial", "addref", "incref", "grant", "set", "flag"},
             pc # "incref", r.pc \in HasNode <=> pc \in HasNode, Goto(o, pc),
             UNCHANGED <<node, vNodes, vNodesDisconnected, vNodesCopy, walk, races>>
      PROVE  IInv'
  <2> DEFINE q == [r EXCEPT !.pc = pc]
  <2>1. q \in OpenerRecords /\ q.pc = pc /\ q.pnode = r.pnode
    BY ZenonT(60), <1>1, PcStep
  <2>2. opener' = [opener EXCEPT ![o] = q]
    BY <1>1, <1>2 DEF Goto
  <2> HIDE DEF q
  <2> QED BY <2>1, <2>2, <1>1, <1>2, OpenerMoveOnly
<1>3. ASSUME Done(o), UNCHANGED <<node, vNodes, vNodesDisconnected, vNodesCopy, walk, races>>
      PROVE  IInv'
  <2> DEFINE q == [r EXCEPT !.pc = "idle", !.pnode = NoConn]
  <2>1. q \in OpenerRecords /\ q.pc = "idle" /\ q.pnode = NoConn
    BY ZenonT(60), <1>1, PnodeStep
  <2>2. opener' = [opener EXCEPT ![o] = q]
    BY <1>1, <1>3 DEF Done
  <2> HIDE DEF q
  <2> QED BY <2>1, <2>2, <1>1, <1>3, OpenerMoveOnly DEF HasNode
<1>4. ASSUME NEW a \in Addrs, WaitOutbound(o, a) PROVE IInv'
  <2> DEFINE q == [r EXCEPT !.pc = "check", !.addr = a]
  <2>1. q \in OpenerRecords /\ q.pc = "check" /\ q.pnode = r.pnode
    BY <1>1, AddrStep, Zenon
  <2>2. opener' = [opener EXCEPT ![o] = q]
    BY <1>1, <1>4 DEF WaitOutbound
  <2>3. r.pnode = NoConn /\ UNCHANGED <<node, vNodes, vNodesDisconnected, vNodesCopy, walk, races>>
    BY <1>1, <1>4 DEF WaitOutbound, At, HasNode
  <2> HIDE DEF q
  <2> QED BY <2>1, <2>2, <2>3, OpenerMoveOnly DEF HasNode
<1>5. ASSUME NEW c \in Conns, ConnectNodeExisting(o, c) PROVE IInv'
  <2> DEFINE q == [r EXCEPT !.pc = "addref", !.pnode = c]
  <2>1. q \in OpenerRecords /\ q.pc = "addref" /\ q.pnode = c
    BY <1>1, PnodeStep, ZenonT(60)
  <2>2. opener' = [opener EXCEPT ![o] = q]
    BY <1>1, <1>5 DEF ConnectNodeExisting
  <2>3. c \in vNodes /\ UNCHANGED <<node, vNodes, vNodesDisconnected, vNodesCopy, walk, races>>
    BY <1>5 DEF ConnectNodeExisting, FindNode
  <2> HIDE DEF q
  <2> QED BY <2>1, <2>2, <2>3, NetAssumption, OpenerMoveOnly DEF HasNode
<1> HIDE DEF r
<1>6. CASE ReleaseGrant(o) \/ ConnectFailed(o)
  BY <1>3, <1>6 DEF ReleaseGrant, ConnectFailed
<1>7. CASE OpenNetworkConnection(o)
  BY <1>2, <1>7 DEF OpenNetworkConnection, At, HasNode, r
<1>8. CASE ConnectNodeDial(o)
  BY <1>2, <1>8 DEF ConnectNodeDial, At, HasNode, r
<1>9. CASE ReadGrant(o)
  BY <1>2, <1>9 DEF ReadGrant, At, HasNode, r
<1> QED BY <1>4, <1>5, <1>6, <1>7, <1>8, <1>9

\* The steps of an opener on its node.
LEMMA OpenerNodeIInv ==
  ASSUME IInv, NEW o \in Openers, SetGrant(o) \/ SetNetworkNode(o)
  PROVE  IInv'
<1> DEFINE r == opener[o]
           c == r.pnode
<1>1. /\ r \in OpenerRecords /\ r.pnode \in Conns \cup {NoConn}
      /\ r.pnode # NoConn <=> r.pc \in HasNode
      /\ opener \in [Openers -> OpenerRecords] /\ node \in [Conns -> NodeRecords]
  BY DEF IInv, NodesType, OpenerRecords, HasNode
<1>2. c \in Conns /\ r.pc \in HasNode
  BY <1>1 DEF SetGrant, SetNetworkNode, At, HasNode
<1>3. node[c] \in NodeRecords /\ \A d \in Conns : node[d].nRefCount \in Int
  BY <1>1, <1>2 DEF NodeRecords
<1>4. UNCHANGED <<vNodes, vNodesDisconnected, vNodesCopy, walk, races>>
  BY DEF SetGrant, SetNetworkNode
<1>5. ASSUME NEW n \in NodeRecords, n.life = node[c].life, node[c].held => n.held,
             n.nRefCount = node[c].nRefCount, node' = [node EXCEPT ![c] = n]
      PROVE  /\ node' \in [Conns -> NodeRecords]
             /\ \A d \in Conns :
                  /\ node'[d].life = node[d].life /\ (node[d].held => node'[d].held)
                  /\ node'[d].nRefCount = node[d].nRefCount
  BY <1>1, <1>2, <1>3, <1>5
<1>6. ASSUME NEW q \in OpenerRecords,
             \/ q.pc \in HasNode /\ q.pc # "incref" /\ q.pnode = c
             \/ q.pc = "idle" /\ q.pnode = NoConn,
             opener' = [opener EXCEPT ![o] = q],
             NEW n \in NodeRecords, n.life = node[c].life, node[c].held => n.held,
             n.nRefCount = node[c].nRefCount, node' = [node EXCEPT ![c] = n]
      PROVE  IInv'
  <2>1. q.pnode # NoConn <=> q.pc \in HasNode
    BY <1>6, <1>2, NetAssumption DEF HasNode
  <2>2. q.pnode \in {opener[o].pnode, NoConn} \cup vNodes
    BY <1>6
  <2> QED BY <2>1, <2>2, <1>4, <1>5, <1>6, OpenerMove
<1>8. ASSUME SetGrant(o) PROVE IInv'
  <2> DEFINE b == o \in UsesGrant
             n == [node[c] EXCEPT !.fHasGrant = b]
             q == [r EXCEPT !.pc = "flag"]
  <2>1. b \in BOOLEAN
    OBVIOUS
  <2>2. node' = [node EXCEPT ![c] = n]
    BY <1>1, <1>2, <1>8 DEF SetGrant
  <2> HIDE DEF b
  <2>3. n \in NodeRecords /\ n.life = node[c].life /\ (node[c].held => n.held)
        /\ n.nRefCount = node[c].nRefCount
    BY <1>3, <2>1, FlagType
  <2>4. q \in OpenerRecords /\ q.pc = "flag" /\ q.pnode = c
    BY <1>1, PcStep
  <2>5. opener' = [opener EXCEPT ![o] = q]
    BY <1>1, <1>8 DEF SetGrant, Goto
  <2> HIDE DEF n, q, c
  <2> QED BY <1>6, <2>2, <2>3, <2>4, <2>5 DEF HasNode
<1>9. ASSUME SetNetworkNode(o) PROVE IInv'
  <2> DEFINE n == [node[c] EXCEPT !.fNetworkNode = TRUE]
             q == [r EXCEPT !.pc = "idle", !.pnode = NoConn]
  <2>2. node' = [node EXCEPT ![c] = n]
    BY <1>1, <1>2, <1>9 DEF SetNetworkNode
  <2>3. n \in NodeRecords /\ n.life = node[c].life /\ (node[c].held => n.held)
        /\ n.nRefCount = node[c].nRefCount
    BY <1>3, FlagType
  <2>4. q \in OpenerRecords /\ q.pc = "idle" /\ q.pnode = NoConn
    BY <1>1, IdleStep, Zenon
  <2>5. opener' = [opener EXCEPT ![o] = q]
    BY <1>1, <1>9 DEF SetNetworkNode, Done
  <2> HIDE DEF n, q, c
  <2> QED BY <1>6, <2>2, <2>3, <2>4, <2>5 DEF HasNode
<1> HIDE DEF r, c
<1> QED BY <1>8, <1>9

\* An opener reads the count of its node, which covers the references at that moment,
LEMMA AddRefReadIInv ==
  ASSUME IInv, NEW o \in Openers, AddRefRead(o)
  PROVE  IInv'
<1> DEFINE r == opener[o]
           c == r.pnode
           k == node[c].nRefCount
           q == [r EXCEPT !.pc = "incref", !.nRead = k]
<1>1. /\ r \in OpenerRecords /\ opener \in [Openers -> OpenerRecords]
      /\ r.pc = "addref" /\ r.pnode # NoConn /\ c \in Conns
      /\ node \in [Conns -> NodeRecords] /\ races \in [Conns -> Nat]
  BY DEF IInv, NodesType, OpenerRecords, AddRefRead, At
<1>2. k \in Int
  BY <1>1 DEF NodeRecords
<1>3. opener' = [opener EXCEPT ![o] = q]
  BY <1>1 DEF AddRefRead
<1>4. UNCHANGED <<node, vNodes, vNodesDisconnected, vNodesCopy, walk, races>>
  BY DEF AddRefRead
<1>5. node[c].life = "live"
  BY <1>1 DEF IInv, Pooled, OpenersPooled, PoolsLive
<1>6. k + races[c] >= Users(c) + (IF c \in vNodes THEN 1 ELSE 0)
  BY <1>1, <1>5 DEF IInv, RefsCovered
<1> HIDE DEF k
<1>7. q \in OpenerRecords /\ q.pc = "incref" /\ q.pnode = c /\ q.nRead = k
  BY <1>1, <1>2, ReadStep, Zenon
<1> HIDE DEF q
<1>8. q.pnode # NoConn <=> q.pc \in HasNode
  BY <1>1, <1>7 DEF HasNode
<1>9. /\ opener' \in [Openers -> OpenerRecords]
      /\ opener'[o] = q /\ \A p \in Openers : p # o => opener'[p] = opener[p]
      /\ \A p \in Openers :
           opener'[p].pnode # NoConn <=> opener'[p].pc \in {"addref", "incref", "grant", "set", "flag"}
  BY <1>3, <1>7, <1>8, OpenerType DEF IInv
<1>10. \A p \in Openers :
         /\ opener'[p].pnode \in {opener[p].pnode, NoConn} \cup vNodes
         /\ opener'[p].pc = "incref" =>
              \/ opener'[p] = opener[p]
              \/ opener'[p].nRead + races[opener'[p].pnode] >=
                    Users(opener'[p].pnode) + (IF opener'[p].pnode \in vNodes THEN 1 ELSE 0)
  BY <1>6, <1>7, <1>9
<1>11. \A d \in Conns : races[d] \in Nat /\ races'[d] >= races[d]
  BY <1>1, <1>4
<1>12. \A d \in Conns : node[d].life = "live" =>
         node'[d].nRefCount + races'[d] >= Users(d) + (IF d \in vNodes THEN 1 ELSE 0)
  BY <1>4 DEF IInv, RefsCovered
<1> QED BY <1>1, <1>4, <1>9, <1>10, <1>11, <1>12, NodeStepIInv

\* and writes it back plus one: over nothing, or over other updates, which costs the node
\* at most one reference.
LEMMA AddRefWriteIInv ==
  ASSUME IInv, NEW o \in Openers, AddRefWrite(o)
  PROVE  IInv'
<1> DEFINE r == opener[o]
           c == r.pnode
           k == r.nRead + 1
           n == [node[c] EXCEPT !.nRefCount = k]
           q == [r EXCEPT !.pc = "grant", !.nRead = 0]
<1>1. /\ r \in OpenerRecords /\ opener \in [Openers -> OpenerRecords] /\ r.nRead \in Int
      /\ r.pc = "incref" /\ r.pnode # NoConn /\ c \in Conns
      /\ node \in [Conns -> NodeRecords] /\ races \in [Conns -> Nat]
  BY DEF IInv, NodesType, OpenerRecords, AddRefWrite, At
<1>2. k \in Int /\ node[c] \in NodeRecords /\ node[c].nRefCount \in Int /\ races[c] \in Nat
  BY <1>1 DEF NodeRecords
<1>3. /\ opener' = [opener EXCEPT ![o] = q] /\ node' = [node EXCEPT ![c] = n]
      /\ races' = IF node[c].nRefCount = r.nRead THEN races ELSE [races EXCEPT ![c] = races[c] + 1]
      /\ UNCHANGED <<vNodes, vNodesDisconnected, vNodesCopy, walk>>
  BY <1>1 DEF AddRefWrite
<1>4. node[c].life = "live"
  BY <1>1 DEF IInv, Pooled, OpenersPooled, PoolsLive
<1>5. /\ node[c].nRefCount + races[c] >= Users(c) + (IF c \in vNodes THEN 1 ELSE 0)
      /\ IF c \in vNodes THEN r.nRead + races[c] >= 1 ELSE r.nRead + races[c] + 1 >= Users(c)
  BY <1>1, <1>4 DEF IInv, RefsCovered, ReadsCovered, Left
<1>6. n \in NodeRecords /\ n.life = node[c].life /\ (node[c].held => n.held) /\ n.nRefCount = k
  BY <1>2, CountType
<1>7. q \in OpenerRecords /\ q.pc = "grant" /\ q.pnode = c
  BY <1>1, WriteStep, Zenon
<1> HIDE DEF q
<1>8. /\ opener' \in [Openers -> OpenerRecords]
      /\ opener'[o] = q /\ \A p \in Openers : p # o => opener'[p] = opener[p]
      /\ \A p \in Openers :
           opener'[p].pnode # NoConn <=> opener'[p].pc \in {"addref", "incref", "grant", "set", "flag"}
  <2>1. q.pnode # NoConn <=> q.pc \in HasNode
    BY <1>1, <1>7 DEF HasNode
  <2> QED BY <1>3, <1>7, <2>1, OpenerType DEF IInv
<1>9. \A p \in Openers : /\ opener'[p].pnode \in {opener[p].pnode, NoConn} \cup vNodes
                         /\ opener'[p].pc = "incref" => opener'[p] = opener[p]
  BY <1>7, <1>8
<1>10. /\ races' \in [Conns -> Nat] /\ \A d \in Conns : d # c => races'[d] = races[d]
       /\ races'[c] = IF node[c].nRefCount = r.nRead THEN races[c] ELSE races[c] + 1
  BY <1>1, <1>2, <1>3
<1>11. \A d \in Conns : races'[d] >= races[d] /\ (node[d].life = "none" => races'[d] = races[d])
  BY <1>1, <1>2, <1>4, <1>10
<1> HIDE DEF n
<1>12. node' \in [Conns -> NodeRecords] /\ node'[c] = n /\ \A d \in Conns : d # c => node'[d] = node[d]
  BY <1>1, <1>3, <1>6
<1>13. k + races'[c] >= Users(c) + (IF c \in vNodes THEN 1 ELSE 0)
  <2>1. Users(c) \in 0..2
    BY UsersNat
  <2> QED BY <2>1, <1>1, <1>2, <1>5, <1>10
<1> HIDE DEF k, c
<1>14. \A d \in Conns :
         /\ node'[d].life = node[d].life /\ (node[d].held => node'[d].held)
         /\ node[d].life = "live" =>
              node'[d].nRefCount + races'[d] >= Users(d) + (IF d \in vNodes THEN 1 ELSE 0)
  <2>1. \A d \in Conns : d # c => node'[d] = node[d] /\ races'[d] = races[d]
    BY <1>10, <1>12
  <2>2. \A d \in Conns : node[d].life = "live" =>
          node[d].nRefCount + races[d] >= Users(d) + (IF d \in vNodes THEN 1 ELSE 0)
    BY DEF IInv, RefsCovered
  <2> QED BY <2>1, <2>2, <1>6, <1>12, <1>13
<1>15. \A d \in Conns :
         /\ node'[d].life = node[d].life /\ (node[d].held => node'[d].held)
         /\ races'[d] >= races[d] /\ (node[d].life = "none" => races'[d] = races[d])
         /\ node[d].life = "live" =>
              node'[d].nRefCount + races'[d] >= Users(d) + (IF d \in vNodes THEN 1 ELSE 0)
  BY <1>11, <1>14, Zenon
<1>16. \A p \in Openers :
         /\ opener'[p].pnode # NoConn <=> opener'[p].pc \in {"addref", "incref", "grant", "set", "flag"}
         /\ opener'[p].pnode \in {opener[p].pnode, NoConn} \cup vNodes
         /\ opener'[p].pc = "incref" =>
              \/ opener'[p] = opener[p]
              \/ opener'[p].nRead + races[opener'[p].pnode] >=
                    Users(opener'[p].pnode) + (IF opener'[p].pnode \in vNodes THEN 1 ELSE 0)
  <2> SUFFICES ASSUME NEW p \in Openers
        PROVE  /\ opener'[p].pnode # NoConn <=> opener'[p].pc \in {"addref", "incref", "grant", "set", "flag"}
               /\ opener'[p].pnode \in {opener[p].pnode, NoConn} \cup vNodes
               /\ opener'[p].pc = "incref" => opener'[p] = opener[p]
    OBVIOUS
  <2>1. opener'[p].pnode # NoConn <=> opener'[p].pc \in {"addref", "incref", "grant", "set", "flag"}
    BY <1>8
  <2>2. /\ opener'[p].pnode \in {opener[p].pnode, NoConn} \cup vNodes
        /\ opener'[p].pc = "incref" => opener'[p] = opener[p]
    BY <1>9
  <2> QED BY <2>1, <2>2
<1>17. opener' \in [Openers -> OpenerRecords] /\ races' \in [Conns -> Nat] /\ node' \in [Conns -> NodeRecords]
  BY <1>8, <1>10, <1>12
<1>18. UNCHANGED <<vNodes, vNodesDisconnected, vNodesCopy, walk>>
  BY <1>3
<1> HIDE DEF r
<1> QED BY <1>15, <1>16, <1>17, <1>18, NodeStepIInv, Zenon

\* Its write is lost.
LEMMA AddRefOverwrittenIInv ==
  ASSUME IInv, NEW o \in Openers, AddRefOverwritten(o)
  PROVE  IInv'
<1> DEFINE r == opener[o]
           q == [r EXCEPT !.pc = "grant", !.nRead = 0]
<1>1. /\ r \in OpenerRecords /\ opener \in [Openers -> OpenerRecords]
      /\ r.pc = "incref" /\ r.pnode # NoConn
  BY DEF IInv, NodesType, AddRefOverwritten, At
<1>2. opener' = [opener EXCEPT ![o] = q]
  BY <1>1 DEF AddRefOverwritten
<1>3. q \in OpenerRecords /\ q.pc = "grant" /\ q.pnode = r.pnode
  BY <1>1, WriteStep, Zenon
<1>4. UNCHANGED <<node, vNodes, vNodesDisconnected, vNodesCopy, walk, races>>
  BY DEF AddRefOverwritten
<1> HIDE DEF q
<1> QED BY <1>1, <1>2, <1>3, <1>4, OpenerMoveOnly DEF HasNode

\* A node is accepted.
LEMMA AcceptIInv ==
  ASSUME IInv, NEW c \in Conns, NEW a \in Addrs, AcceptNode(c, a)
  PROVE  IInv'
<1>1. /\ opener' = opener /\ opener' \in [Openers -> OpenerRecords]
      /\ \A o \in Openers :
           /\ opener'[o].pnode # NoConn <=> opener'[o].pc \in {"addref", "incref", "grant", "set", "flag"}
           /\ opener'[o].pnode \in {opener[o].pnode, c}
           /\ opener'[o].pc = "incref" => opener'[o] = opener[o]
  BY DEF AcceptNode, IInv, NodesType
<1> QED BY <1>1, PublishIInv DEF AcceptNode

\* A node is connected and published.
LEMMA ConnectIInv ==
  ASSUME IInv, NEW o \in Openers, NEW c \in Conns, ConnectNode(o, c)
  PROVE  IInv'
<1> DEFINE r == opener[o]
           q == [r EXCEPT !.pc = "grant", !.pnode = c]
<1>1. r \in OpenerRecords /\ r.addr \in Addrs /\ opener \in [Openers -> OpenerRecords]
  BY DEF IInv, NodesType, OpenerRecords
<1>2. q \in OpenerRecords /\ q.pc = "grant" /\ q.pnode = c
  BY <1>1, PnodeStep
<1>3. opener' = [opener EXCEPT ![o] = q]
  BY <1>1 DEF ConnectNode
<1> HIDE DEF q
<1>4. q.pnode # NoConn <=> q.pc \in HasNode
  BY <1>2, NetAssumption DEF HasNode
<1>5. /\ opener' \in [Openers -> OpenerRecords]
      /\ opener'[o] = q /\ \A p \in Openers : p # o => opener'[p] = opener[p]
      /\ \A p \in Openers :
           opener'[p].pnode # NoConn <=> opener'[p].pc \in {"addref", "incref", "grant", "set", "flag"}
  BY <1>2, <1>3, <1>4, OpenerType DEF IInv
<1>6. \A p \in Openers : /\ opener'[p].pnode \in {opener[p].pnode, c}
                         /\ opener'[p].pc = "incref" => opener'[p] = opener[p]
  BY <1>2, <1>5
<1>7. /\ node[c].life = "none" /\ node' = [node EXCEPT ![c] = NewNode(r.addr, FALSE)]
      /\ vNodes' = vNodes \cup {c} /\ UNCHANGED <<vNodesDisconnected, vNodesCopy, walk, races>>
  BY DEF ConnectNode
<1>8. \A p \in Openers :
        /\ opener'[p].pnode # NoConn <=> opener'[p].pc \in {"addref", "incref", "grant", "set", "flag"}
        /\ opener'[p].pnode \in {opener[p].pnode, c}
        /\ opener'[p].pc = "incref" => opener'[p] = opener[p]
  <2> SUFFICES ASSUME NEW p \in Openers
        PROVE  /\ opener'[p].pnode # NoConn <=> opener'[p].pc \in {"addref", "incref", "grant", "set", "flag"}
               /\ opener'[p].pnode \in {opener[p].pnode, c}
               /\ opener'[p].pc = "incref" => opener'[p] = opener[p]
    OBVIOUS
  <2>1. opener'[p].pnode # NoConn <=> opener'[p].pc \in {"addref", "incref", "grant", "set", "flag"}
    BY <1>5
  <2>2. opener'[p].pnode \in {opener[p].pnode, c} /\ (opener'[p].pc = "incref" => opener'[p] = opener[p])
    BY <1>6
  <2> QED BY <2>1, <2>2
<1>9. opener' \in [Openers -> OpenerRecords] /\ FALSE \in BOOLEAN /\ r.addr \in Addrs
  BY <1>1, <1>5
<1> HIDE DEF r
<1> QED BY <1>7, <1>8, <1>9, PublishIInv, Zenon

\* Every step keeps the invariant,
LEMMA NextIInv == IInv /\ [Next]_vars => IInv'
<1> SUFFICES ASSUME IInv, [Next]_vars PROVE IInv'
  OBVIOUS
<1>1. CASE SocketNext
  BY <1>1, DisconnectNodesIInv, AcceptIInv, TimeIInv DEF SocketNext
<1>2. ASSUME NEW h \in Handlers, HandlerNext(h) PROVE IInv'
  BY <1>2, HandlerIInv, CloseIInv DEF HandlerNext
<1>3. ASSUME NEW o \in Openers, OpenerNext(o) PROVE IInv'
  BY <1>3, OpenerControlIInv, OpenerNodeIInv, AddRefReadIInv, AddRefWriteIInv,
     AddRefOverwrittenIInv, ConnectIInv DEF OpenerNext
<1>4. CASE UNCHANGED vars
  BY <1>4 DEF vars, IInv, NodesType, Pooled, PoolsLive, CopiesPooled, OpenersPooled,
              WalkPooled, FreshNodes, RefsCovered, ReadsCovered, Left, Users, Uses
<1> QED BY <1>1, <1>2, <1>3, <1>4, RelayIInv DEF Next

\* so it always holds.
LEMMA Invariant == Spec => []IInv
  BY InitIInv, NextIInv, PTL DEF Spec

\* No thread has a deleted node.
LEMMA UsedNodesLive == IInv => NoUseAfterDelete
<1> SUFFICES ASSUME IInv, NEW c \in Conns,
                    \/ c \in vNodes \/ c \in walk \/ (\E o \in Openers : opener[o].pnode = c)
                    \/ Users(c) > 0 /\ races[c] = 0
             PROVE  node[c].life = "live"
  BY DEF NoUseAfterDelete
<1>1. CASE Users(c) > 0 /\ races[c] = 0
  <2>1. \E h \in Handlers : c \in vNodesCopy[h]
    BY <1>1 DEF Users, Uses, Handlers
  <2> QED BY <1>1, <2>1 DEF IInv, Pooled, CopiesPooled, PoolsLive
<1>2. CASE c \in vNodes \/ c \in walk
  BY <1>2 DEF IInv, Pooled, PoolsLive, WalkPooled
<1>3. CASE \E o \in Openers : opener[o].pnode = c
  BY <1>3, NetAssumption DEF IInv, Pooled, OpenersPooled, PoolsLive
<1> QED BY <1>1, <1>2, <1>3

\* The release time keeps a node that an opener or the relay of a checkpoint works on
\* without a reference (OpenNetworkConnection, AcceptPendingSyncCheckpoint), and the
\* count one that a handler has a reference to, unless ConnectNode's increment outside
\* cs_vNodes wrote over other updates of it.
THEOREM NeverUsedAfterDelete == Spec => []NoUseAfterDelete
  BY Invariant, UsedNodesLive, PTL

\* nRefCount covers the handlers that use a node, and vNodes, up to one reference for each
\* increment outside cs_vNodes that wrote over other updates, however many they were
\* (CNode::AddRef in ConnectNode).
THEOREM CountsCover == Spec => []RefsCovered
<1>1. IInv => RefsCovered
  BY DEF IInv
<1> QED BY Invariant, <1>1, PTL

(***************************************************************************)
(* The grants of semOutbound.                                              *)
(***************************************************************************)
Holders == {o \in Openers : HoldsGrant(o)}

\* vNodes is finite, so that its nodes with a grant can be counted.
GrantInv == semOutbound \in Nat /\ IsFiniteSet(vNodes) /\ GrantsBounded

\* Nodes with a grant, and openers with one, can be counted.
LEMMA Countable ==
  ASSUME IsFiniteSet(vNodes)
  PROVE  /\ IsFiniteSet(Granted(vNodes)) /\ Cardinality(Granted(vNodes)) \in Nat
         /\ IsFiniteSet(Holders) /\ Cardinality(Holders) \in Nat
<1>1. Granted(vNodes) \in SUBSET vNodes /\ Holders \in SUBSET Openers
  BY DEF Granted, Holders
<1>2. IsFiniteSet(Granted(vNodes)) /\ IsFiniteSet(Holders)
  BY <1>1, FS_Subset, NetAssumption
<1> QED BY <1>2, FS_CardinalityType

\* An opener keeps its place among those that hold a grant, enters it or leaves it.
LEMMA HoldersStep ==
  ASSUME IsFiniteSet(vNodes), NEW o \in Openers,
         \A p \in Openers : p # o => opener'[p] = opener[p]
  PROVE  Cardinality(Holders') =
           Cardinality(Holders) + (IF HoldsGrant(o)' /\ ~HoldsGrant(o) THEN 1
                                   ELSE IF HoldsGrant(o) /\ ~HoldsGrant(o)' THEN -1 ELSE 0)
<1>0. IsFiniteSet(Holders) /\ Cardinality(Holders) \in Nat
  BY Countable
<1>1. \A p \in Openers : p # o => (p \in Holders' <=> p \in Holders)
  BY DEF Holders, HoldsGrant
<1>2. (o \in Holders <=> HoldsGrant(o)) /\ (o \in Holders' <=> HoldsGrant(o)')
  BY DEF Holders, HoldsGrant
<1>3. Holders \subseteq Openers /\ Holders' \subseteq Openers
  BY DEF Holders
<1> HIDE DEF Holders
<1>4. CASE HoldsGrant(o)'
  <2>1. Holders' = Holders \cup {o}
    BY <1>1, <1>2, <1>3, <1>4
  <2>2. Cardinality(Holders') = IF o \in Holders THEN Cardinality(Holders) ELSE Cardinality(Holders) + 1
    BY <1>0, <2>1, FS_AddElement
  <2> QED BY <1>0, <1>2, <1>4, <2>2
<1>5. CASE ~HoldsGrant(o)'
  <2>1. Holders' = Holders \ {o}
    BY <1>1, <1>2, <1>3, <1>5
  <2>2. Cardinality(Holders') = IF o \in Holders THEN Cardinality(Holders) - 1 ELSE Cardinality(Holders)
    BY <1>0, <2>1, FS_RemoveElement
  <2> QED BY <1>0, <1>2, <1>5, <2>2
<1> QED BY <1>4, <1>5

\* The record of an opener after its step.
LEMMA OpenerPlace ==
  ASSUME NodesType, NEW o \in Openers,
         NEW pc \in {"idle", "check", "connect", "dial", "addref", "incref", "grant", "set", "flag"},
         \/ Goto(o, pc)
         \/ pc = "idle" /\ Done(o)
         \/ pc = "incref" /\ \E k \in Int : opener' = [opener EXCEPT ![o].pc = pc, ![o].nRead = k]
         \/ pc = "grant" /\ opener' = [opener EXCEPT ![o].pc = pc, ![o].nRead = 0]
         \/ pc = "check" /\ \E a \in Addrs : opener' = [opener EXCEPT ![o].pc = pc, ![o].addr = a]
  PROVE  /\ opener'[o].pc = pc
         /\ \A p \in Openers : p # o => opener'[p] = opener[p]
<1> DEFINE r == opener[o]
<1>1. r \in OpenerRecords /\ opener \in [Openers -> OpenerRecords]
  BY DEF NodesType
<1>2. ASSUME NEW q, q.pc = pc, opener' = [opener EXCEPT ![o] = q]
      PROVE  opener'[o].pc = pc /\ \A p \in Openers : p # o => opener'[p] = opener[p]
  BY <1>1, <1>2
<1>3. CASE Goto(o, pc)
  <2> DEFINE q == [r EXCEPT !.pc = pc]
  <2>1. q.pc = pc
    BY <1>1, PcStep
  <2>2. opener' = [opener EXCEPT ![o] = q]
    BY <1>1, <1>3 DEF Goto
  <2> HIDE DEF q
  <2> QED BY <1>2, <2>1, <2>2
<1>4. CASE pc = "idle" /\ Done(o)
  <2> DEFINE q == [r EXCEPT !.pc = "idle", !.pnode = NoConn]
  <2>1. q.pc = pc
    BY <1>1, <1>4, IdleStep, Zenon
  <2>2. opener' = [opener EXCEPT ![o] = q]
    BY <1>1, <1>4 DEF Done
  <2> HIDE DEF q
  <2> QED BY <1>2, <2>1, <2>2
<1>5. ASSUME pc = "check", NEW a \in Addrs, opener' = [opener EXCEPT ![o].pc = pc, ![o].addr = a]
      PROVE  opener'[o].pc = pc /\ \A p \in Openers : p # o => opener'[p] = opener[p]
  <2> DEFINE q == [r EXCEPT !.pc = "check", !.addr = a]
  <2>1. q.pc = pc
    BY <1>1, <1>5, AddrStep, Zenon
  <2>2. opener' = [opener EXCEPT ![o] = q]
    BY <1>1, <1>5
  <2> HIDE DEF q
  <2> QED BY <1>2, <2>1, <2>2
<1>6. ASSUME pc = "incref", NEW k \in Int, opener' = [opener EXCEPT ![o].pc = pc, ![o].nRead = k]
      PROVE  opener'[o].pc = pc /\ \A p \in Openers : p # o => opener'[p] = opener[p]
  <2> DEFINE q == [r EXCEPT !.pc = "incref", !.nRead = k]
  <2>1. q.pc = pc
    BY <1>1, <1>6, ReadStep, Zenon
  <2>2. opener' = [opener EXCEPT ![o] = q]
    BY <1>1, <1>6
  <2> HIDE DEF q
  <2> QED BY <1>2, <2>1, <2>2
<1>7. ASSUME pc = "grant", opener' = [opener EXCEPT ![o].pc = pc, ![o].nRead = 0]
      PROVE  opener'[o].pc = pc /\ \A p \in Openers : p # o => opener'[p] = opener[p]
  <2> DEFINE q == [r EXCEPT !.pc = "grant", !.nRead = 0]
  <2>1. q.pc = pc
    BY <1>1, <1>7, WriteStep, Zenon
  <2>2. opener' = [opener EXCEPT ![o] = q]
    BY <1>1, <1>7
  <2> HIDE DEF q
  <2> QED BY <1>2, <2>1, <2>2
<1> QED BY <1>3, <1>4, <1>5, <1>6, <1>7

\* An opener that gets a node leaves the others alone.
LEMMA OpenerNodePlace ==
  ASSUME NodesType, NEW o \in Openers, NEW c \in Conns,
         NEW pc \in {"idle", "check", "connect", "dial", "addref", "incref", "grant", "set", "flag"}
  PROVE  opener' = [opener EXCEPT ![o].pc = pc, ![o].pnode = c] =>
           /\ opener'[o].pc = pc
           /\ \A p \in Openers : p # o => opener'[p] = opener[p]
<1> DEFINE r == opener[o]
           q == [r EXCEPT !.pc = pc, !.pnode = c]
<1>1. r \in OpenerRecords /\ opener \in [Openers -> OpenerRecords]
  BY DEF NodesType
<1>2. q.pc = pc
  <2>1. \A x \in OpenerRecords : [x EXCEPT !.pc = pc] \in OpenerRecords /\ [x EXCEPT !.pc = pc].pc = pc
    BY DEF OpenerRecords
  <2>2. \A x \in OpenerRecords : [x EXCEPT !.pnode = c].pc = x.pc
    BY DEF OpenerRecords
  <2> DEFINE y == [r EXCEPT !.pc = pc]
  <2>3. y \in OpenerRecords /\ y.pc = pc
    BY <1>1, <2>1
  <2>4. q = [y EXCEPT !.pnode = c]
    BY Zenon
  <2> HIDE DEF y, q
  <2> QED BY <2>2, <2>3, <2>4
<1>3. ASSUME opener' = [opener EXCEPT ![o].pc = pc, ![o].pnode = c]
      PROVE  opener' = [opener EXCEPT ![o] = q]
  BY <1>1, <1>3
<1> HIDE DEF q
<1> QED BY <1>1, <1>2, <1>3

\* A step that leaves the grants of the nodes alone: what the semaphore gains an
\* opener gives up.
LEMMA SemaphoreStep ==
  ASSUME GrantInv, vNodes' = vNodes, Granted(vNodes)' = Granted(vNodes),
         NEW o \in Openers, \A p \in Openers : p # o => opener'[p] = opener[p],
         semOutbound' = semOutbound + (IF HoldsGrant(o)' /\ ~HoldsGrant(o) THEN -1
                                       ELSE IF HoldsGrant(o) /\ ~HoldsGrant(o)' THEN 1 ELSE 0),
         semOutbound' >= 0
  PROVE  GrantInv'
<1>1. /\ Cardinality(Holders') + semOutbound' = Cardinality(Holders) + semOutbound
      /\ Cardinality(Holders) \in Nat /\ Cardinality(Granted(vNodes)) \in Nat
      /\ semOutbound' \in Nat
  BY HoldersStep, Countable DEF GrantInv
<1>2. Cardinality(Holders') \in Int
  BY HoldersStep, Countable DEF GrantInv
<1> QED BY <1>1, <1>2, NetAssumption DEF GrantInv, GrantsBounded, Holders

\* All grants are left at the start.
LEMMA InitGrantInv == Init => GrantInv
<1> SUFFICES ASSUME Init PROVE GrantInv
  OBVIOUS
<1>1. PICK a \in Addrs : opener = [o \in Openers |-> [pc |-> "idle", addr |-> a, pnode |-> NoConn,
                                       nRead |-> 0]]
  BY DEF Init
<1>2. Holders = {}
  BY <1>1 DEF Holders, HoldsGrant
<1>3. vNodes = {} /\ Granted(vNodes) = {} /\ semOutbound = nMaxOutbound
  BY DEF Init, Granted
<1> QED BY <1>2, <1>3, FS_EmptySet, NetAssumption DEF GrantInv, GrantsBounded, Holders

\* The socket handler posts the grants of exactly the nodes that it takes out of vNodes.
LEMMA DisconnectNodesGrant ==
  ASSUME IInv, GrantInv, DisconnectNodes
  PROVE  GrantInv'
<1>1. PICK idle \in SUBSET vNodes :
        /\ node' = [c \in Conns |->
                      IF c \in ToDisconnect(idle) THEN Disconnected(node[c])
                      ELSE IF c \in ToDelete THEN [node[c] EXCEPT !.life = "deleted"]
                      ELSE node[c]]
        /\ vNodes' = vNodes \ ToDisconnect(idle)
        /\ semOutbound' = semOutbound + Cardinality(Granted(ToDisconnect(idle)))
  BY DEF DisconnectNodes
<1> DEFINE gone == ToDisconnect(idle)
<1>2. gone \subseteq vNodes /\ ToDelete \cap vNodes = {} /\ vNodes \subseteq Conns
  BY DEF ToDisconnect, ToDelete, IInv, NodesType, Pooled, PoolsLive
<1>3. \A c \in vNodes' : node'[c] = node[c]
  BY <1>1, <1>2
<1> HIDE DEF gone
<1>4. Granted(vNodes)' = Granted(vNodes) \ Granted(gone) /\ Granted(gone) \subseteq Granted(vNodes)
  BY <1>1, <1>2, <1>3 DEF Granted, gone
<1>5. /\ IsFiniteSet(Granted(vNodes)) /\ Cardinality(Granted(vNodes)) \in Nat
      /\ Cardinality(Holders) \in Nat
  BY Countable DEF GrantInv
<1>6. Cardinality(Granted(vNodes)') = Cardinality(Granted(vNodes)) - Cardinality(Granted(gone))
  <2>1. Granted(vNodes) \cap Granted(gone) = Granted(gone)
    BY <1>4
  <2> QED BY <1>4, <1>5, <2>1, FS_Difference
<1>7. Cardinality(Granted(gone)) \in Nat
  <2>1. Granted(gone) \in SUBSET Granted(vNodes)
    BY <1>4
  <2>2. IsFiniteSet(Granted(gone))
    BY <1>5, <2>1, FS_Subset
  <2> QED BY <2>2, FS_CardinalityType
<1>8. Holders' = Holders
  BY DEF DisconnectNodes, Holders, HoldsGrant
<1>9. IsFiniteSet(vNodes')
  BY <1>1, FS_Difference DEF GrantInv
<1>10. semOutbound' = semOutbound + Cardinality(Granted(gone))
  BY <1>1 DEF gone
<1>11. semOutbound' \in Nat
  BY <1>7, <1>10 DEF GrantInv
<1>12. semOutbound' + Cardinality(Granted(vNodes)') + Cardinality(Holders') <= nMaxOutbound
  <2>1. semOutbound + Cardinality(Granted(vNodes)) + Cardinality(Holders) <= nMaxOutbound
        /\ semOutbound \in Nat
    BY DEF GrantInv, GrantsBounded, Holders
  <2> QED BY <1>5, <1>6, <1>7, <1>8, <1>10, <2>1, NetAssumption
<1> QED BY <1>9, <1>11, <1>12 DEF GrantInv, GrantsBounded, Holders

\* A new node has no grant yet.
LEMMA PublishGrant ==
  ASSUME IInv, GrantInv, NEW c \in Conns, NEW a \in Addrs, NEW b \in BOOLEAN,
         node[c].life = "none", node' = [node EXCEPT ![c] = NewNode(a, b)],
         vNodes' = vNodes \cup {c}, semOutbound' = semOutbound, Holders' = Holders
  PROVE  GrantInv'
<1>1. c \notin vNodes /\ vNodes \subseteq Conns
  BY DEF IInv, NodesType, Pooled, PoolsLive
<1>2. ~node'[c].fHasGrant /\ \A d \in vNodes : node'[d] = node[d]
  BY <1>1 DEF IInv, NodesType, NewNode
<1>3. Granted(vNodes)' = Granted(vNodes)
  BY <1>1, <1>2 DEF Granted
<1>4. IsFiniteSet(vNodes')
  BY FS_AddElement DEF GrantInv
<1> QED BY <1>3, <1>4 DEF GrantInv, GrantsBounded, Holders

\* A step that changes neither the places of the openers nor the grants of nodes.
LEMMA OtherGrant ==
  ASSUME GrantInv, vNodes' = vNodes, Granted(vNodes)' = Granted(vNodes),
         Holders' = Holders, semOutbound' = semOutbound
  PROVE  GrantInv'
  BY DEF GrantInv, GrantsBounded, Holders

\* Handlers post no grant.
LEMMA HandlerGrant ==
  ASSUME IInv, GrantInv, NEW h \in Handlers, HandlerNext(h)
  PROVE  GrantInv'
<1>1. vNodes \subseteq Conns /\ node \in [Conns -> NodeRecords] /\ \A n \in NodeRecords :
        /\ \A k \in Int : [n EXCEPT !.nRefCount = k].fHasGrant = n.fHasGrant
        /\ [n EXCEPT !.fDisconnect = TRUE].fHasGrant = n.fHasGrant
        /\ n.nRefCount \in Int
  BY DEF IInv, NodesType, NodeRecords
<1>2. \A d \in Conns : node'[d].fHasGrant = node[d].fHasGrant
  <2>1. CASE CopyNodes(h)
    BY <1>1, <2>1 DEF CopyNodes
  <2>2. CASE ReleaseNodes(h)
    BY <1>1, <2>2 DEF ReleaseNodes
  <2>3. ASSUME NEW c \in Conns, CloseSocketDisconnect(h, c)
        PROVE  \A d \in Conns : node'[d].fHasGrant = node[d].fHasGrant
    BY <1>1, <2>3 DEF CloseSocketDisconnect
  <2> QED BY <2>1, <2>2, <2>3 DEF HandlerNext
<1>3. vNodes' = vNodes /\ opener' = opener /\ semOutbound' = semOutbound
  BY DEF HandlerNext, CopyNodes, ReleaseNodes, CloseSocketDisconnect
<1>4. Granted(vNodes)' = Granted(vNodes)
  BY <1>1, <1>2, <1>3 DEF Granted
<1>5. Holders' = Holders
  BY <1>3 DEF Holders, HoldsGrant
<1> QED BY <1>3, <1>4, <1>5, OtherGrant

\* Nor does the relay of a checkpoint.
LEMMA RelayGrant ==
  ASSUME GrantInv, RelayStart \/ RelayEnd
  PROVE  GrantInv'
<1>1. node' = node /\ vNodes' = vNodes /\ opener' = opener /\ semOutbound' = semOutbound
  BY DEF RelayStart, RelayEnd
<1>2. Granted(vNodes)' = Granted(vNodes) /\ Holders' = Holders
  BY <1>1 DEF Granted, Holders, HoldsGrant
<1> QED BY <1>1, <1>2, OtherGrant

\* The socket handler posts the grant of a node it takes out of vNodes.
LEMMA SocketGrant ==
  ASSUME IInv, GrantInv, SocketNext
  PROVE  GrantInv'
<1>1. ASSUME NEW c \in Conns, NEW a \in Addrs, AcceptNode(c, a) PROVE GrantInv'
  <2>1. Holders' = Holders
    BY <1>1 DEF AcceptNode, Holders, HoldsGrant
  <2> QED BY <1>1, <2>1, PublishGrant DEF AcceptNode
<1>2. ASSUME NEW c \in Conns, ReleaseTimePassed(c) PROVE GrantInv'
  <2>1. vNodes \subseteq Conns /\ node \in [Conns -> NodeRecords]
        /\ \A n \in NodeRecords : [n EXCEPT !.held = FALSE].fHasGrant = n.fHasGrant
    BY DEF IInv, NodesType, NodeRecords
  <2>2. \A d \in Conns : node'[d].fHasGrant = node[d].fHasGrant
    BY <1>2, <2>1 DEF ReleaseTimePassed
  <2>3. vNodes' = vNodes /\ opener' = opener /\ semOutbound' = semOutbound
    BY <1>2 DEF ReleaseTimePassed
  <2>4. Granted(vNodes)' = Granted(vNodes)
    BY <2>1, <2>2, <2>3 DEF Granted
  <2>5. Holders' = Holders
    BY <2>3 DEF Holders, HoldsGrant
  <2> QED BY <2>3, <2>4, <2>5, OtherGrant
<1> QED BY <1>1, <1>2, DisconnectNodesGrant DEF SocketNext

\* The opener's grant moves to its node, or is lost with a node that was disconnected.
LEMMA SetGrantGrant ==
  ASSUME IInv, GrantInv, NEW o \in Openers, SetGrant(o)
  PROVE  GrantInv'
<1> DEFINE c == opener[o].pnode
           b == o \in UsesGrant
<1>0. NodesType /\ node \in [Conns -> NodeRecords] /\ vNodes \subseteq Conns
  BY DEF IInv, NodesType
<1>1. opener[o].pc = "set" /\ c \in Conns
  BY NetAssumption DEF SetGrant, At, IInv, NodesType, OpenerRecords
<1>2. opener'[o].pc = "flag" /\ \A p \in Openers : p # o => opener'[p] = opener[p]
  BY <1>0, OpenerPlace DEF SetGrant
<1>3. /\ vNodes' = vNodes /\ semOutbound' = semOutbound
      /\ \A d \in Conns : d # c => node'[d] = node[d]
      /\ node'[c].fHasGrant = b
  BY <1>0, <1>1 DEF SetGrant, NodeRecords
<1>4. (HoldsGrant(o) <=> b) /\ ~HoldsGrant(o)'
  BY <1>1, <1>2 DEF HoldsGrant
<1>5. /\ Cardinality(Holders') = Cardinality(Holders) + (IF b THEN -1 ELSE 0)
      /\ Cardinality(Holders) \in Nat
  BY <1>2, <1>4, HoldersStep, Countable DEF GrantInv
<1>6. IsFiniteSet(Granted(vNodes)) /\ Cardinality(Granted(vNodes)) \in Nat
  BY Countable DEF GrantInv
<1>7. /\ Cardinality(Granted(vNodes)') <= Cardinality(Granted(vNodes)) + (IF b THEN 1 ELSE 0)
      /\ Cardinality(Granted(vNodes)') \in Nat
  <2> DEFINE T == IF b THEN Granted(vNodes) \cup {c} ELSE Granted(vNodes)
  <2>1. Granted(vNodes)' \in SUBSET T
    BY <1>0, <1>3 DEF Granted
  <2>2. /\ IsFiniteSet(T)
        /\ Cardinality(T) \in Nat
        /\ Cardinality(T) <= Cardinality(Granted(vNodes)) + (IF b THEN 1 ELSE 0)
    BY <1>6, FS_AddElement
  <2> HIDE DEF T
  <2>3. IsFiniteSet(Granted(vNodes)') /\ Cardinality(Granted(vNodes)') <= Cardinality(T)
    BY <2>1, <2>2, FS_Subset
  <2>4. Cardinality(Granted(vNodes)') \in Nat
    BY <2>3, FS_CardinalityType
  <2> QED BY <1>6, <2>2, <2>3, <2>4
<1> HIDE DEF b, c
<1>8. semOutbound' + Cardinality(Granted(vNodes)') + Cardinality(Holders') <= nMaxOutbound
  BY <1>3, <1>5, <1>6, <1>7, NetAssumption DEF GrantInv, GrantsBounded, Holders
<1> QED BY <1>3, <1>8 DEF GrantInv, GrantsBounded, Holders

\* A step of an opener to place pc that gives no node a grant and takes none from one.
LEMMA OpenerMovesGrant ==
  ASSUME IInv, GrantInv, NEW o \in Openers,
         vNodes' = vNodes, \A d \in Conns : node'[d].fHasGrant = node[d].fHasGrant,
         \A p \in Openers : p # o => opener'[p] = opener[p],
         semOutbound' = semOutbound + (IF HoldsGrant(o)' /\ ~HoldsGrant(o) THEN -1
                                       ELSE IF HoldsGrant(o) /\ ~HoldsGrant(o)' THEN 1 ELSE 0),
         semOutbound' >= 0
  PROVE  GrantInv'
<1>1. vNodes \subseteq Conns
  BY DEF IInv, NodesType
<1>2. Granted(vNodes)' = Granted(vNodes)
  BY <1>1 DEF Granted
<1> QED BY <1>2, SemaphoreStep

\* An opener takes a grant and gives it to a node or back.
LEMMA OpenerGrant ==
  ASSUME IInv, GrantInv, NEW o \in Openers, OpenerNext(o)
  PROVE  GrantInv'
<1>0. NodesType /\ semOutbound \in Nat
  BY DEF IInv, GrantInv
<1>1. ASSUME NEW a \in Addrs, WaitOutbound(o, a) PROVE GrantInv'
  <2>1. /\ opener[o].pc = "idle" /\ opener'[o].pc = "check"
        /\ \A p \in Openers : p # o => opener'[p] = opener[p]
    BY <1>0, <1>1, OpenerPlace DEF WaitOutbound, At
  <2>2. node' = node /\ vNodes' = vNodes
        /\ semOutbound' = (IF o \in UsesGrant THEN semOutbound - 1 ELSE semOutbound)
        /\ (o \in UsesGrant => semOutbound > 0)
    BY <1>1 DEF WaitOutbound
  <2>3. ~HoldsGrant(o) /\ (HoldsGrant(o)' <=> o \in UsesGrant)
    BY <2>1 DEF HoldsGrant
  <2> QED BY <1>0, <2>1, <2>2, <2>3, OpenerMovesGrant
<1>2. CASE ReleaseGrant(o) \/ ConnectFailed(o)
  <2>1. /\ opener[o].pc \in {"check", "dial"} /\ opener'[o].pc = "idle"
        /\ \A p \in Openers : p # o => opener'[p] = opener[p]
    BY <1>0, <1>2, OpenerPlace DEF ReleaseGrant, ConnectFailed, At
  <2>2. node' = node /\ vNodes' = vNodes
        /\ semOutbound' = IF o \in UsesGrant THEN semOutbound + 1 ELSE semOutbound
    BY <1>2 DEF ReleaseGrant, ConnectFailed, Post
  <2>3. ~HoldsGrant(o)' /\ (HoldsGrant(o) <=> o \in UsesGrant)
    BY <2>1 DEF HoldsGrant
  <2> QED BY <1>0, <2>1, <2>2, <2>3, OpenerMovesGrant
<1>3. CASE OpenNetworkConnection(o) \/ ConnectNodeDial(o)
  <2>1. /\ opener[o].pc \in {"check", "connect"} /\ opener'[o].pc \in {"connect", "dial"}
        /\ \A p \in Openers : p # o => opener'[p] = opener[p]
    BY <1>0, <1>3, OpenerPlace DEF OpenNetworkConnection, ConnectNodeDial, At
  <2>2. node' = node /\ vNodes' = vNodes /\ semOutbound' = semOutbound
    BY <1>3 DEF OpenNetworkConnection, ConnectNodeDial
  <2>3. HoldsGrant(o)' <=> HoldsGrant(o)
    BY <2>1 DEF HoldsGrant
  <2> QED BY <1>0, <2>1, <2>2, <2>3, OpenerMovesGrant
<1>4. ASSUME NEW c \in Conns, ConnectNodeExisting(o, c) PROVE GrantInv'
  <2>1. /\ opener[o].pc = "connect" /\ opener'[o].pc = "addref"
        /\ \A p \in Openers : p # o => opener'[p] = opener[p]
    BY <1>0, <1>4, OpenerNodePlace DEF ConnectNodeExisting, At
  <2>2. node' = node /\ vNodes' = vNodes /\ semOutbound' = semOutbound
    BY <1>4 DEF ConnectNodeExisting
  <2>3. HoldsGrant(o)' <=> HoldsGrant(o)
    BY <2>1 DEF HoldsGrant
  <2> QED BY <1>0, <2>1, <2>2, <2>3, OpenerMovesGrant
<1>5. ASSUME NEW c \in Conns, ConnectNode(o, c) PROVE GrantInv'
  <2>1. /\ opener[o].pc = "dial" /\ opener'[o].pc = "grant"
        /\ \A p \in Openers : p # o => opener'[p] = opener[p]
    BY <1>0, <1>5, OpenerNodePlace DEF ConnectNode, At
  <2>2. opener[o].addr \in Addrs
    BY <1>0 DEF NodesType, OpenerRecords
  <2>3. Holders' = Holders
    BY <2>1 DEF Holders, HoldsGrant
  <2>4. /\ node[c].life = "none" /\ node' = [node EXCEPT ![c] = NewNode(opener[o].addr, FALSE)]
        /\ vNodes' = vNodes \cup {c} /\ semOutbound' = semOutbound
    BY <1>5 DEF ConnectNode
  <2> QED BY <2>2, <2>3, <2>4, PublishGrant
<1>6. CASE AddRefRead(o) \/ AddRefWrite(o) \/ AddRefOverwritten(o)
  <2>0. node \in [Conns -> NodeRecords] /\ opener[o].nRead + 1 \in Int
        /\ (opener[o].pc \in HasNode => opener[o].pnode \in Conns)
        /\ \A n \in NodeRecords : n.nRefCount \in Int
             /\ \A k \in Int : [n EXCEPT !.nRefCount = k].fHasGrant = n.fHasGrant
    BY <1>0 DEF NodesType, NodeRecords, OpenerRecords, HasNode
  <2>1. /\ opener[o].pc \in {"addref", "incref"} /\ opener'[o].pc \in {"incref", "grant"}
        /\ \A p \in Openers : p # o => opener'[p] = opener[p]
    <3>1. opener[o].pc \in {"addref", "incref"}
      BY <1>6 DEF AddRefRead, AddRefWrite, AddRefOverwritten, At
    <3>2. node[opener[o].pnode].nRefCount \in Int
      BY <2>0, <3>1 DEF HasNode
    <3>3. CASE AddRefRead(o)
      BY <1>0, <3>1, <3>2, <3>3, OpenerPlace DEF AddRefRead
    <3>4. CASE AddRefWrite(o) \/ AddRefOverwritten(o)
      BY <1>0, <3>1, <3>4, OpenerPlace DEF AddRefWrite, AddRefOverwritten
    <3> QED BY <1>6, <3>3, <3>4
  <2>2. vNodes' = vNodes /\ semOutbound' = semOutbound
    BY <1>6 DEF AddRefRead, AddRefWrite, AddRefOverwritten
  <2>4. \A d \in Conns : node'[d].fHasGrant = node[d].fHasGrant
    <3>1. CASE AddRefRead(o) \/ AddRefOverwritten(o)
      BY <3>1 DEF AddRefRead, AddRefOverwritten
    <3>2. CASE AddRefWrite(o)
      <4> DEFINE c == opener[o].pnode
                 n == [node[c] EXCEPT !.nRefCount = opener[o].nRead + 1]
      <4>1. c \in Conns /\ node[c] \in NodeRecords
        BY <2>0, <2>1 DEF HasNode
      <4>2. node' = [node EXCEPT ![c] = n]
        BY <3>2, <4>1 DEF AddRefWrite
      <4>3. n.fHasGrant = node[c].fHasGrant
        BY <2>0, <4>1
      <4> HIDE DEF n, c
      <4> QED BY <2>0, <4>1, <4>2, <4>3
    <3> QED BY <1>6, <3>1, <3>2
  <2>5. HoldsGrant(o)' <=> HoldsGrant(o)
    BY <2>1 DEF HoldsGrant
  <2> QED BY <1>0, <2>1, <2>2, <2>4, <2>5, OpenerMovesGrant
<1>7. CASE ReadGrant(o)
  <2>1. CASE node[opener[o].pnode].fHasGrant
    <3>1. /\ opener[o].pc = "grant" /\ opener'[o].pc = "flag"
          /\ \A p \in Openers : p # o => opener'[p] = opener[p]
      BY <1>0, <1>7, <2>1, OpenerPlace DEF ReadGrant, At
    <3>2. node' = node /\ vNodes' = vNodes
          /\ semOutbound' = IF o \in UsesGrant THEN semOutbound + 1 ELSE semOutbound
      BY <1>7, <2>1 DEF ReadGrant, Post
    <3>3. ~HoldsGrant(o)' /\ (HoldsGrant(o) <=> o \in UsesGrant)
      BY <3>1 DEF HoldsGrant
    <3> QED BY <1>0, <3>1, <3>2, <3>3, OpenerMovesGrant
  <2>2. CASE ~node[opener[o].pnode].fHasGrant
    <3>1. /\ opener[o].pc = "grant" /\ opener'[o].pc = "set"
          /\ \A p \in Openers : p # o => opener'[p] = opener[p]
      BY <1>0, <1>7, <2>2, OpenerPlace DEF ReadGrant, At
    <3>2. node' = node /\ vNodes' = vNodes /\ semOutbound' = semOutbound
      BY <1>7, <2>2 DEF ReadGrant
    <3>3. HoldsGrant(o)' <=> HoldsGrant(o)
      BY <3>1 DEF HoldsGrant
    <3> QED BY <1>0, <3>1, <3>2, <3>3, OpenerMovesGrant
  <2> QED BY <2>1, <2>2
<1>8. CASE SetNetworkNode(o)
  <2>1. /\ opener[o].pc = "flag" /\ opener'[o].pc = "idle"
        /\ \A p \in Openers : p # o => opener'[p] = opener[p]
    BY <1>0, <1>8, OpenerPlace DEF SetNetworkNode, At
  <2>2. vNodes' = vNodes /\ semOutbound' = semOutbound
    BY <1>8 DEF SetNetworkNode
  <2>3. node \in [Conns -> NodeRecords]
        /\ \A n \in NodeRecords : [n EXCEPT !.fNetworkNode = TRUE].fHasGrant = n.fHasGrant
    BY <1>0 DEF NodesType, NodeRecords
  <2>4. \A d \in Conns : node'[d].fHasGrant = node[d].fHasGrant
    BY <1>8, <2>3 DEF SetNetworkNode
  <2>5. HoldsGrant(o)' <=> HoldsGrant(o)
    BY <2>1 DEF HoldsGrant
  <2> QED BY <1>0, <2>1, <2>2, <2>4, <2>5, OpenerMovesGrant
<1> QED BY <1>1, <1>2, <1>3, <1>4, <1>5, <1>6, <1>7, <1>8, SetGrantGrant DEF OpenerNext

\* Whatever the interleaving of openers, handlers and disconnections, and whoever reads
\* fHasGrant before another sets it: no grant of semOutbound is posted twice, so there
\* are never more connections with a grant than nMaxOutbound.
THEOREM NoGrantTwice == Spec => []GrantsBounded
<1>1. ASSUME IInv, GrantInv, [Next]_vars PROVE GrantInv'
  <2>1. CASE UNCHANGED vars
    BY <1>1, <2>1 DEF vars, GrantInv, GrantsBounded, Granted, HoldsGrant
  <2> QED BY <1>1, <2>1, SocketGrant, HandlerGrant, OpenerGrant, RelayGrant DEF Next
<1>2. GrantInv => GrantsBounded
  BY DEF GrantInv
<1> QED BY <1>1, <1>2, Invariant, InitGrantInv, PTL DEF Spec

-----------------------------------------------------------------------------
(***************************************************************************)
(* The address manager.  The inductive invariant says what the members of  *)
(* the object have to do with each other; Add_ breaks one part of it for a *)
(* moment, when it has counted an entry that is not in its bucket yet, and *)
(* NewInv has a parameter for that entry.                                  *)
(***************************************************************************)
\* The object has its members.
IsMan(a) ==
  a = [nIdCount |-> a.nIdCount, mapInfo |-> a.mapInfo, mapAddr |-> a.mapAddr,
       vRandom |-> a.vRandom, nTried |-> a.nTried, nNew |-> a.nNew,
       vvNew |-> a.vvNew, vvTried |-> a.vvTried]

InfoType == [service : Service, source : Source, everGood : BOOLEAN, nRefCount : Int,
             fInTried : BOOLEAN, nRandomPos : Int]

Ids(a) == DOMAIN a.mapInfo

\* An id is one that was given out.
EntriesInv(a) ==
  /\ IsMan(a) /\ a.nIdCount \in Nat
  /\ a.mapInfo \in [Ids(a) -> InfoType]
  /\ Ids(a) \subseteq 0..(a.nIdCount - 1)

\* mapAddr has the address of every entry and no other.
AddrInv(a) ==
  /\ a.mapAddr \in [DOMAIN a.mapAddr -> Ids(a)]
  /\ \A id \in Ids(a) :
       /\ IpOf[a.mapInfo[id].service] \in DOMAIN a.mapAddr
       /\ a.mapAddr[IpOf[a.mapInfo[id].service]] = id
  /\ \A ip \in DOMAIN a.mapAddr : IpOf[a.mapInfo[a.mapAddr[ip]].service] = ip

\* vRandom and nRandomPos are inverse to each other.
RandomInv(a) ==
  /\ a.vRandom \in Seq(Ids(a))
  /\ \A id \in Ids(a) :
       /\ a.mapInfo[id].nRandomPos \in 1..Len(a.vRandom)
       /\ a.vRandom[a.mapInfo[id].nRandomPos] = id
  /\ \A p \in 1..Len(a.vRandom) : a.mapInfo[a.vRandom[p]].nRandomPos = p

\* The two counts are right.
CountInv(a) ==
  /\ a.nTried = Cardinality(TriedIds(a)) /\ a.nNew = Cardinality(NewIds(a))
  /\ Len(a.vRandom) = a.nTried + a.nNew

\* nRefCount counts the buckets, and one more for the entry x that is about to be
\* put into one.
NewInv(a, x) ==
  /\ a.vvNew \in [NewBuckets -> SUBSET Ids(a)]
  /\ \A b \in NewBuckets : Cardinality(a.vvNew[b]) <= NEW_BUCKET_SIZE
  /\ \A id \in Ids(a) :
       a.mapInfo[id].nRefCount = Cardinality(NewPlaces(a, id)) + (IF id = x THEN 1 ELSE 0)

\* A tried entry was good once and is in no new bucket, a new one outside S is in some.
RefInv(a, S) ==
  /\ \A id \in TriedIds(a) : a.mapInfo[id].everGood /\ a.mapInfo[id].nRefCount = 0
  /\ \A id \in NewIds(a) \ S : a.mapInfo[id].nRefCount \in 1..NEW_BUCKETS_PER_ADDRESS

\* A sequence lists a set: its elements, each of them once.
Lists(v, S) ==
  /\ v \in Seq(S)
  /\ \A i \in S : \E p \in 1..Len(v) : v[p] = i
  /\ \A p, q \in 1..Len(v) : v[p] = v[q] => p = q

TriedOf(a, b) == {id \in TriedIds(a) : TriedBucketOf[a.mapInfo[id].service] = b}

\* A tried bucket lists the tried entries of this bucket.
TriedInv(a) ==
  /\ a.vvTried = [b \in TriedBuckets |-> a.vvTried[b]]
  /\ \A b \in TriedBuckets :
       Lists(a.vvTried[b], TriedOf(a, b)) /\ Len(a.vvTried[b]) <= TRIED_BUCKET_SIZE

NoId == -1

\* The invariant between two calls is ManInv(a, NoId).
ManInv(a, x) ==
  /\ EntriesInv(a) /\ AddrInv(a) /\ RandomInv(a) /\ CountInv(a)
  /\ NewInv(a, x) /\ RefInv(a, {}) /\ TriedInv(a)
-----------------------------------------------------------------------------
\* The ids are finitely many, and so are the buckets an entry is in.
LEMMA Finite ==
  ASSUME NEW a, EntriesInv(a)
  PROVE  /\ IsFiniteSet(Ids(a)) /\ IsFiniteSet(TriedIds(a)) /\ IsFiniteSet(NewIds(a))
         /\ Cardinality(TriedIds(a)) \in Nat /\ Cardinality(NewIds(a)) \in Nat
         /\ \A S \in SUBSET Ids(a) : IsFiniteSet(S) /\ Cardinality(S) \in Nat
         /\ \A id : IsFiniteSet(NewPlaces(a, id)) /\ Cardinality(NewPlaces(a, id)) \in Nat
<1>1. IsFiniteSet(0..(a.nIdCount - 1))
  BY FS_Interval DEF EntriesInv
<1>2. \A S \in SUBSET Ids(a) : IsFiniteSet(S) /\ Cardinality(S) \in Nat
  BY <1>1, FS_Subset, FS_CardinalityType DEF EntriesInv
<1>3. TriedIds(a) \in SUBSET Ids(a) /\ NewIds(a) \in SUBSET Ids(a) /\ Ids(a) \in SUBSET Ids(a)
  BY DEF TriedIds, NewIds, Ids
<1>4. ASSUME NEW id
      PROVE  IsFiniteSet(NewPlaces(a, id)) /\ Cardinality(NewPlaces(a, id)) \in Nat
  <2>1. NewPlaces(a, id) \in SUBSET NewBuckets
    BY DEF NewPlaces
  <2> QED BY <2>1, AddrManAssumption, FS_Subset, FS_CardinalityType
<1> QED BY <1>2, <1>3, <1>4

\* A function on the first n numbers is a sequence of length n.
LEMMA FunSeq ==
  ASSUME NEW S, NEW n \in Nat, NEW f \in [1..n -> S]
  PROVE  f \in Seq(S) /\ Len(f) = n
  OBVIOUS

\* What Append does.
LEMMA Appended ==
  ASSUME NEW S, NEW v \in Seq(S), NEW x \in S
  PROVE  /\ Append(v, x) \in Seq(S) /\ Len(v) \in Nat /\ Len(Append(v, x)) = Len(v) + 1
         /\ Append(v, x)[Len(v) + 1] = x
         /\ \A p \in 1..Len(v) : Append(v, x)[p] = v[p]
  OBVIOUS

\* r has the entry i of a, except for its position in vRandom.
SameEntry(r, a, i) ==
  /\ r.mapInfo[i].service = a.mapInfo[i].service /\ r.mapInfo[i].source = a.mapInfo[i].source
  /\ r.mapInfo[i].everGood = a.mapInfo[i].everGood
  /\ r.mapInfo[i].nRefCount = a.mapInfo[i].nRefCount
  /\ r.mapInfo[i].fInTried = a.mapInfo[i].fInTried

\* What setting a field of an entry does.
Entry(s, src, good, n, tried, p) ==
  [service |-> s, source |-> src, everGood |-> good, nRefCount |-> n, fInTried |-> tried,
   nRandomPos |-> p]

\* Setting nRandomPos of an entry leaves its other fields.
LEMMA PosSet ==
  ASSUME NEW e \in InfoType, NEW k \in Int
  PROVE  /\ [e EXCEPT !.nRandomPos = k] \in InfoType
         /\ [e EXCEPT !.nRandomPos = k] = Entry(e.service, e.source, e.everGood, e.nRefCount, e.fInTried, k)
  BY DEF InfoType, Entry

\* Setting nRefCount of an entry leaves its other fields.
LEMMA RefSet ==
  ASSUME NEW e \in InfoType, NEW k \in Int
  PROVE  /\ [e EXCEPT !.nRefCount = k] \in InfoType
         /\ [e EXCEPT !.nRefCount = k] = Entry(e.service, e.source, e.everGood, k, e.fInTried, e.nRandomPos)
  BY DEF InfoType, Entry

\* Setting fInTried of an entry leaves its other fields.
LEMMA TriedSet ==
  ASSUME NEW e \in InfoType, NEW k \in BOOLEAN
  PROVE  /\ [e EXCEPT !.fInTried = k] \in InfoType
         /\ [e EXCEPT !.fInTried = k] = Entry(e.service, e.source, e.everGood, e.nRefCount, k, e.nRandomPos)
  BY DEF InfoType, Entry

\* Setting everGood of an entry leaves its other fields.
LEMMA GoodSet ==
  ASSUME NEW e \in InfoType, NEW k \in BOOLEAN
  PROVE  /\ [e EXCEPT !.everGood = k] \in InfoType
         /\ [e EXCEPT !.everGood = k] = Entry(e.service, e.source, k, e.nRefCount, e.fInTried, e.nRandomPos)
  BY DEF InfoType, Entry

\* SwapRandom only exchanges two positions.
LEMMA Swapped ==
  ASSUME NEW a, EntriesInv(a), RandomInv(a),
         NEW p1 \in 1..Len(a.vRandom), NEW p2 \in 1..Len(a.vRandom), NEW r, r = SwapRandom(a, p1, p2)
  PROVE  /\ EntriesInv(r) /\ RandomInv(r) /\ Ids(r) = Ids(a) /\ r.nIdCount = a.nIdCount
         /\ r.mapAddr = a.mapAddr /\ r.nTried = a.nTried /\ r.nNew = a.nNew
         /\ r.vvNew = a.vvNew /\ r.vvTried = a.vvTried
         /\ Len(r.vRandom) = Len(a.vRandom) /\ r.vRandom[p2] = a.vRandom[p1]
         /\ \A i \in Ids(a) : SameEntry(r, a, i)
<1>1. CASE p1 = p2
  BY <1>1 DEF SwapRandom, SameEntry
<1>2. CASE p1 # p2
  <2> DEFINE id1 == a.vRandom[p1]
             id2 == a.vRandom[p2]
             m1 == [a.mapInfo EXCEPT ![id1] = [@ EXCEPT !.nRandomPos = p2]]
             m2 == [m1 EXCEPT ![id2] = [@ EXCEPT !.nRandomPos = p1]]
             v == [[a.vRandom EXCEPT ![p1] = id2] EXCEPT ![p2] = id1]
  <2>0. p1 \in Int /\ p2 \in Int
    OBVIOUS
  <2>1. /\ IsMan(r) /\ r.nIdCount = a.nIdCount /\ r.mapInfo = m2 /\ r.vRandom = v
        /\ r.mapAddr = a.mapAddr /\ r.nTried = a.nTried /\ r.nNew = a.nNew
        /\ r.vvNew = a.vvNew /\ r.vvTried = a.vvTried
    BY <1>2 DEF SwapRandom, IsMan, EntriesInv
  <2>2. id1 \in Ids(a) /\ id2 \in Ids(a) /\ id1 # id2
    BY <1>2 DEF RandomInv
  <2>3. a.mapInfo \in [Ids(a) -> InfoType]
    BY DEF EntriesInv
  <2>4. /\ m1 \in [Ids(a) -> InfoType]
        /\ m1[id1] = [a.mapInfo[id1] EXCEPT !.nRandomPos = p2]
        /\ \A i \in Ids(a) : i # id1 => m1[i] = a.mapInfo[i]
    <3>1. [a.mapInfo[id1] EXCEPT !.nRandomPos = p2] \in InfoType
      BY <2>0, <2>2, <2>3, PosSet
    <3> QED BY <2>2, <2>3, <3>1
  <2>5. /\ m2 \in [Ids(a) -> InfoType]
        /\ m2[id2] = [a.mapInfo[id2] EXCEPT !.nRandomPos = p1]
        /\ m2[id1] = [a.mapInfo[id1] EXCEPT !.nRandomPos = p2]
        /\ \A i \in Ids(a) : i # id1 /\ i # id2 => m2[i] = a.mapInfo[i]
    <3> HIDE DEF m1
    <3>1. m1[id2] = a.mapInfo[id2] /\ [m1[id2] EXCEPT !.nRandomPos = p1] \in InfoType
      BY <2>0, <2>2, <2>4, PosSet
    <3> QED BY <2>2, <2>4, <3>1
  <2>6. /\ v \in Seq(Ids(a)) /\ Len(v) = Len(a.vRandom) /\ v[p1] = id2 /\ v[p2] = id1
        /\ \A p \in 1..Len(a.vRandom) : p # p1 /\ p # p2 => v[p] = a.vRandom[p]
    BY <1>2, <2>2 DEF RandomInv
  <2>7. DOMAIN m2 = Ids(a)
    BY <2>5
  <2> HIDE DEF m1, m2, v
  <2>8. Ids(r) = Ids(a) /\ EntriesInv(r)
    BY <2>1, <2>5, <2>7 DEF EntriesInv, Ids
  <2>9. \A i \in Ids(a) : SameEntry(r, a, i)
    <3> SUFFICES ASSUME NEW i \in Ids(a) PROVE SameEntry(r, a, i)
      OBVIOUS
    <3>1. a.mapInfo[i] \in InfoType
      BY <2>3
    <3>2. \/ m2[i] = a.mapInfo[i]
          \/ \E k \in Int : m2[i] = [a.mapInfo[i] EXCEPT !.nRandomPos = k]
      BY <2>0, <2>5
    <3>3. CASE m2[i] = a.mapInfo[i]
      BY <2>1, <3>3 DEF SameEntry
    <3>4. ASSUME NEW k \in Int, m2[i] = [a.mapInfo[i] EXCEPT !.nRandomPos = k]
          PROVE  SameEntry(r, a, i)
      <4>1. m2[i] = Entry(a.mapInfo[i].service, a.mapInfo[i].source, a.mapInfo[i].everGood,
                          a.mapInfo[i].nRefCount, a.mapInfo[i].fInTried, k)
        BY <3>1, <3>4, PosSet
      <4> QED BY <2>1, <4>1 DEF SameEntry, Entry
    <3> QED BY <3>2, <3>3, <3>4
  <2>10. /\ m2[id2].nRandomPos = p1 /\ m2[id1].nRandomPos = p2
    BY <2>2, <2>3, <2>5 DEF InfoType
  <2>11. \A i \in Ids(a) : m2[i].nRandomPos \in 1..Len(v) /\ v[m2[i].nRandomPos] = i
    <3> SUFFICES ASSUME NEW i \in Ids(a)
                 PROVE  m2[i].nRandomPos \in 1..Len(v) /\ v[m2[i].nRandomPos] = i
      OBVIOUS
    <3>1. CASE i = id1 \/ i = id2
      BY <3>1, <2>6, <2>10
    <3>2. CASE i # id1 /\ i # id2
      <4>1. /\ a.mapInfo[i].nRandomPos \in 1..Len(a.vRandom)
            /\ a.vRandom[a.mapInfo[i].nRandomPos] = i
        BY DEF RandomInv
      <4> QED BY <3>2, <4>1, <2>5, <2>6
    <3> QED BY <3>1, <3>2
  <2>12. \A p \in 1..Len(v) : m2[v[p]].nRandomPos = p
    <3> SUFFICES ASSUME NEW p \in 1..Len(v) PROVE m2[v[p]].nRandomPos = p
      OBVIOUS
    <3>1. CASE p = p1 \/ p = p2
      BY <3>1, <2>6, <2>10
    <3>2. CASE p # p1 /\ p # p2
      <4>1. p \in 1..Len(a.vRandom) /\ v[p] = a.vRandom[p]
        BY <3>2, <2>6
      <4>2. a.mapInfo[a.vRandom[p]].nRandomPos = p /\ a.vRandom[p] \in Ids(a)
        BY <4>1 DEF RandomInv
      <4>3. a.mapInfo[id1].nRandomPos = p1 /\ a.mapInfo[id2].nRandomPos = p2
        BY DEF RandomInv
      <4> QED BY <3>2, <4>1, <4>2, <4>3, <2>5
    <3> QED BY <3>1, <3>2
  <2>13. RandomInv(r)
    BY <2>1, <2>6, <2>8, <2>11, <2>12 DEF RandomInv
  <2> QED BY <2>1, <2>6, <2>8, <2>9, <2>13
<1> QED BY <1>1, <1>2

\* Delete takes one entry out of mapInfo, mapAddr and vRandom.
LEMMA Deleted ==
  ASSUME NEW a, EntriesInv(a), AddrInv(a), RandomInv(a), NEW id \in Ids(a),
         NEW r, r = Delete(a, id)
  PROVE  /\ EntriesInv(r) /\ AddrInv(r) /\ RandomInv(r)
         /\ Ids(r) = Ids(a) \ {id} /\ r.nIdCount = a.nIdCount
         /\ r.nTried = a.nTried /\ r.nNew = a.nNew - 1
         /\ r.vvNew = a.vvNew /\ r.vvTried = a.vvTried
         /\ Len(r.vRandom) = Len(a.vRandom) - 1
         /\ \A i \in Ids(r) : SameEntry(r, a, i)
<1> DEFINE pos == a.mapInfo[id].nRandomPos
           last == Len(a.vRandom)
           s == SwapRandom(a, pos, last)
           ip == IpOf[a.mapInfo[id].service]
<1>1. pos \in 1..last /\ last \in 1..last /\ last \in Nat /\ a.vRandom[pos] = id
  BY DEF RandomInv
<1> HIDE DEF s
<1>2. /\ EntriesInv(s) /\ RandomInv(s) /\ Ids(s) = Ids(a) /\ s.nIdCount = a.nIdCount
      /\ s.mapAddr = a.mapAddr /\ s.nTried = a.nTried /\ s.nNew = a.nNew
      /\ s.vvNew = a.vvNew /\ s.vvTried = a.vvTried
      /\ Len(s.vRandom) = last /\ s.vRandom[last] = id
      /\ \A i \in Ids(a) : SameEntry(s, a, i)
  BY <1>1, Swapped, SMTT(60) DEF s
<1>3. /\ IsMan(r) /\ r.nIdCount = s.nIdCount /\ r.mapInfo = Without(s.mapInfo, id)
      /\ r.mapAddr = Without(s.mapAddr, ip) /\ r.vRandom = SubSeq(s.vRandom, 1, Len(s.vRandom) - 1)
      /\ r.nTried = s.nTried /\ r.nNew = s.nNew - 1 /\ r.vvNew = s.vvNew /\ r.vvTried = s.vvTried
  BY <1>2 DEF Delete, IsMan, EntriesInv, s
<1>4. /\ s.mapInfo \in [Ids(a) -> InfoType] /\ s.vRandom \in Seq(Ids(a))
      /\ \A i \in Ids(a) : /\ s.mapInfo[i].nRandomPos \in 1..last
                           /\ s.vRandom[s.mapInfo[i].nRandomPos] = i
      /\ \A p \in 1..last : s.mapInfo[s.vRandom[p]].nRandomPos = p /\ s.vRandom[p] \in Ids(a)
  BY <1>2 DEF EntriesInv, RandomInv
<1>5. /\ DOMAIN r.mapInfo = Ids(a) \ {id} /\ r.mapInfo \in [Ids(a) \ {id} -> InfoType]
      /\ \A i \in Ids(a) \ {id} : r.mapInfo[i] = s.mapInfo[i]
  BY <1>3, <1>4 DEF Without
<1>6. Ids(r) = Ids(a) \ {id} /\ EntriesInv(r)
  BY <1>2, <1>3, <1>5 DEF Ids, EntriesInv
<1>7. \A i \in Ids(r) : SameEntry(r, a, i)
  BY <1>2, <1>5, <1>6 DEF SameEntry
<1>8. s.mapInfo[id].nRandomPos = last
  BY <1>1, <1>2, <1>4
<1>9. /\ r.vRandom \in Seq(Ids(r)) /\ Len(r.vRandom) = last - 1
      /\ \A p \in 1..(last - 1) : p \in 1..last /\ r.vRandom[p] = s.vRandom[p] /\ s.vRandom[p] \in Ids(r)
  <2>1. \A p \in 1..(last - 1) : p \in 1..last /\ s.vRandom[p] # id
    BY <1>1, <1>4, <1>8
  <2>2. r.vRandom = [p \in 1..(last - 1) |-> s.vRandom[p]]
    BY <1>1, <1>2, <1>3, <1>4
  <2>3. last - 1 \in Nat /\ r.vRandom \in [1..(last - 1) -> Ids(r)]
    BY <1>1, <1>4, <1>6, <2>1, <2>2
  <2>4. r.vRandom \in Seq(Ids(r)) /\ Len(r.vRandom) = last - 1
    BY <2>3, FunSeq, SMTT(60)
  <2> QED BY <1>4, <1>6, <2>1, <2>2, <2>4
<1>11. RandomInv(r)
  <2>1. \A i \in Ids(r) : r.mapInfo[i].nRandomPos \in 1..(last - 1) /\ r.vRandom[r.mapInfo[i].nRandomPos] = i
    <3> SUFFICES ASSUME NEW i \in Ids(r)
                 PROVE  r.mapInfo[i].nRandomPos \in 1..(last - 1) /\ r.vRandom[r.mapInfo[i].nRandomPos] = i
      OBVIOUS
    <3>1. i \in Ids(a) /\ i # id /\ r.mapInfo[i] = s.mapInfo[i]
      BY <1>5, <1>6
    <3>2. s.mapInfo[i].nRandomPos # last
      BY <1>2, <1>4, <3>1
    <3>3. s.mapInfo[i].nRandomPos \in 1..last /\ s.vRandom[s.mapInfo[i].nRandomPos] = i
      BY <1>4, <3>1
    <3>4. s.mapInfo[i].nRandomPos \in 1..(last - 1)
      BY <1>1, <3>2, <3>3
    <3> QED BY <1>9, <3>1, <3>3, <3>4
  <2>2. \A p \in 1..(last - 1) : r.mapInfo[r.vRandom[p]].nRandomPos = p
    <3> SUFFICES ASSUME NEW p \in 1..(last - 1) PROVE r.mapInfo[r.vRandom[p]].nRandomPos = p
      OBVIOUS
    <3>1. r.vRandom[p] = s.vRandom[p] /\ s.vRandom[p] \in Ids(r) /\ p \in 1..last
      BY <1>9
    <3>2. r.mapInfo[s.vRandom[p]] = s.mapInfo[s.vRandom[p]]
      BY <1>5, <1>6, <3>1
    <3> QED BY <1>4, <3>1, <3>2
  <2> QED BY <1>9, <2>1, <2>2 DEF RandomInv
<1>12. AddrInv(r)
  <2>1. /\ DOMAIN r.mapAddr = DOMAIN a.mapAddr \ {ip}
        /\ \A x \in DOMAIN r.mapAddr : r.mapAddr[x] = a.mapAddr[x]
    BY <1>2, <1>3 DEF Without
  <2>2. r.mapAddr = [x \in DOMAIN r.mapAddr |-> r.mapAddr[x]]
    BY <1>3 DEF Without
  <2>3. \A x \in DOMAIN r.mapAddr : a.mapAddr[x] \in Ids(a) /\ a.mapAddr[x] # id
    BY <2>1 DEF AddrInv
  <2>4. \A i \in Ids(r) : i \in Ids(a) /\ r.mapInfo[i].service = a.mapInfo[i].service
    BY <1>6, <1>7 DEF SameEntry
  <2>5. \A i \in Ids(r) : IpOf[a.mapInfo[i].service] # ip
    BY <1>6 DEF AddrInv
  <2>6. r.mapAddr \in [DOMAIN r.mapAddr -> Ids(r)]
    BY <1>6, <2>1, <2>2, <2>3
  <2>7. \A i \in Ids(r) : IpOf[r.mapInfo[i].service] \in DOMAIN r.mapAddr
                        /\ r.mapAddr[IpOf[r.mapInfo[i].service]] = i
    BY SMTT(30), <2>1, <2>4, <2>5 DEF AddrInv
  <2>8. \A x \in DOMAIN r.mapAddr : IpOf[r.mapInfo[r.mapAddr[x]].service] = x
    <3> SUFFICES ASSUME NEW x \in DOMAIN r.mapAddr PROVE IpOf[r.mapInfo[r.mapAddr[x]].service] = x
      OBVIOUS
    <3>1. r.mapAddr[x] = a.mapAddr[x] /\ a.mapAddr[x] \in Ids(r) /\ x \in DOMAIN a.mapAddr
      BY <1>6, <2>1, <2>3
    <3>2. r.mapInfo[a.mapAddr[x]].service = a.mapInfo[a.mapAddr[x]].service
      BY <2>4, <3>1
    <3> QED BY <3>1, <3>2 DEF AddrInv
  <2> QED BY <2>6, <2>7, <2>8 DEF AddrInv
<1> QED BY <1>2, <1>3, <1>6, <1>7, <1>9, <1>11, <1>12

\* An object whose entries keep their services and positions is indexed as before.
LEMMA Reindexed ==
  ASSUME NEW a, EntriesInv(a), AddrInv(a), RandomInv(a), NEW r, IsMan(r),
         r.nIdCount = a.nIdCount, r.mapAddr = a.mapAddr, r.vRandom = a.vRandom,
         r.mapInfo \in [Ids(a) -> InfoType],
         \A i \in Ids(a) : /\ r.mapInfo[i].service = a.mapInfo[i].service
                           /\ r.mapInfo[i].nRandomPos = a.mapInfo[i].nRandomPos
  PROVE  EntriesInv(r) /\ AddrInv(r) /\ RandomInv(r) /\ Ids(r) = Ids(a)
<1>1. Ids(r) = Ids(a)
  BY DEF Ids
<1>2. EntriesInv(r)
  BY <1>1 DEF EntriesInv
<1>3. AddrInv(r)
  BY <1>1 DEF AddrInv
<1>4. RandomInv(r)
  <2>1. \A p \in 1..Len(a.vRandom) : a.vRandom[p] \in Ids(a)
    BY DEF RandomInv
  <2> QED BY <1>1, <2>1 DEF RandomInv
<1> QED BY <1>1, <1>2, <1>3, <1>4

\* nRefCount of one entry is set.
LEMMA RefChanged ==
  ASSUME NEW a, EntriesInv(a), AddrInv(a), RandomInv(a), NEW id \in Ids(a), NEW k \in Int,
         NEW r, r = [a EXCEPT !.mapInfo[id].nRefCount = k]
  PROVE  /\ EntriesInv(r) /\ AddrInv(r) /\ RandomInv(r) /\ Ids(r) = Ids(a)
         /\ r.nIdCount = a.nIdCount /\ r.mapAddr = a.mapAddr /\ r.vRandom = a.vRandom
         /\ r.nTried = a.nTried /\ r.nNew = a.nNew /\ r.vvNew = a.vvNew /\ r.vvTried = a.vvTried
         /\ r.mapInfo[id].nRefCount = k
         /\ r.mapInfo[id].service = a.mapInfo[id].service
         /\ r.mapInfo[id].fInTried = a.mapInfo[id].fInTried
         /\ r.mapInfo[id].everGood = a.mapInfo[id].everGood
         /\ \A i \in Ids(a) : i # id => r.mapInfo[i] = a.mapInfo[i]
<1> DEFINE e == [a.mapInfo[id] EXCEPT !.nRefCount = k]
           m == [a.mapInfo EXCEPT ![id] = e]
<1>1. /\ IsMan(r) /\ r.mapInfo = m
      /\ r.nIdCount = a.nIdCount /\ r.mapAddr = a.mapAddr /\ r.vRandom = a.vRandom
      /\ r.nTried = a.nTried /\ r.nNew = a.nNew /\ r.vvNew = a.vvNew /\ r.vvTried = a.vvTried
  BY DEF EntriesInv, IsMan
<1>2. a.mapInfo \in [Ids(a) -> InfoType] /\ a.mapInfo[id] \in InfoType
  BY DEF EntriesInv
<1>3. /\ e \in InfoType
      /\ e = Entry(a.mapInfo[id].service, a.mapInfo[id].source, a.mapInfo[id].everGood, k,
                   a.mapInfo[id].fInTried, a.mapInfo[id].nRandomPos)
  BY <1>2, RefSet
<1> HIDE DEF e
<1>4. m \in [Ids(a) -> InfoType] /\ m[id] = e /\ \A i \in Ids(a) : i # id => m[i] = a.mapInfo[i]
  BY <1>2, <1>3
<1> HIDE DEF m
<1>5. \A i \in Ids(a) : /\ r.mapInfo[i].service = a.mapInfo[i].service
                        /\ r.mapInfo[i].nRandomPos = a.mapInfo[i].nRandomPos
  BY <1>1, <1>3, <1>4 DEF Entry
<1>6. EntriesInv(r) /\ AddrInv(r) /\ RandomInv(r) /\ Ids(r) = Ids(a)
  BY <1>1, <1>4, <1>5, Reindexed
<1> QED BY <1>1, <1>3, <1>4, <1>6 DEF Entry

\* What the tried buckets say only depends on the tried entries and their services.
LEMMA TriedSame ==
  ASSUME NEW a, TriedInv(a), NEW r, r.vvTried = a.vvTried, TriedIds(r) = TriedIds(a),
         \A i \in TriedIds(a) : r.mapInfo[i].service = a.mapInfo[i].service
  PROVE  TriedInv(r)
<1>1. \A b \in TriedBuckets : TriedOf(r, b) = TriedOf(a, b)
  BY DEF TriedOf
<1> QED BY <1>1 DEF TriedInv

\* One tried bucket changes.
Put(f, x, v) == [f EXCEPT ![x] = v]

\* If only one bucket changes, and lists what belongs in it, all buckets do.
LEMMA TriedPut ==
  ASSUME NEW a, TriedInv(a), NEW r, NEW kb \in TriedBuckets, NEW v,
         r.vvTried = Put(a.vvTried, kb, v),
         Lists(v, TriedOf(r, kb)), Len(v) <= TRIED_BUCKET_SIZE,
         \A b \in TriedBuckets : b # kb => TriedOf(r, b) = TriedOf(a, b)
  PROVE  TriedInv(r)
<1>1. a.vvTried = [b \in TriedBuckets |-> a.vvTried[b]]
  BY DEF TriedInv
<1>2. /\ r.vvTried = [b \in TriedBuckets |-> r.vvTried[b]] /\ r.vvTried[kb] = v
      /\ \A b \in TriedBuckets : b # kb => r.vvTried[b] = a.vvTried[b]
  BY <1>1 DEF Put
<1>3. ASSUME NEW b \in TriedBuckets
      PROVE  Lists(r.vvTried[b], TriedOf(r, b)) /\ Len(r.vvTried[b]) <= TRIED_BUCKET_SIZE
  <2>1. CASE b = kb
    BY <1>2, <2>1
  <2>2. CASE b # kb
    BY <1>2, <2>2 DEF TriedInv
  <2> QED BY <2>1, <2>2
<1> QED BY <1>2, <1>3 DEF TriedInv

\* A list with one more element.
LEMMA ListsMore ==
  ASSUME NEW S, NEW v, Lists(v, S), NEW x, x \notin S
  PROVE  Lists(Append(v, x), S \cup {x}) /\ Len(Append(v, x)) = Len(v) + 1 /\ Len(v) \in Nat
<1> DEFINE w == Append(v, x)
           T == S \cup {x}
<1>1. v \in Seq(S) /\ v \in Seq(T) /\ x \in T /\ \A p \in 1..Len(v) : v[p] \in S
  BY DEF Lists
<1>2. /\ w \in Seq(T) /\ Len(v) \in Nat /\ Len(w) = Len(v) + 1 /\ w[Len(v) + 1] = x
      /\ \A p \in 1..Len(v) : w[p] = v[p]
  BY <1>1, Appended
<1> HIDE DEF w
<1>3. ASSUME NEW i \in T PROVE \E p \in 1..Len(w) : w[p] = i
  <2>1. CASE i = x
    BY <1>2, <2>1
  <2>2. CASE i \in S
    <3>1. PICK p \in 1..Len(v) : v[p] = i
      BY <2>2 DEF Lists
    <3>2. p \in 1..Len(w) /\ w[p] = i
      BY <1>2, <3>1
    <3> QED BY <3>2
  <2> QED BY <2>1, <2>2
<1>4. ASSUME NEW p \in 1..Len(w), NEW q \in 1..Len(w), w[p] = w[q] PROVE p = q
  <2>1. (p \in 1..Len(v) \/ p = Len(v) + 1) /\ (q \in 1..Len(v) \/ q = Len(v) + 1)
    BY <1>2
  <2>2. \A i \in 1..Len(v) : w[i] # x
    BY <1>1, <1>2
  <2> QED BY <1>2, <1>4, <2>1, <2>2 DEF Lists
<1>5. Lists(w, T)
  BY <1>2, <1>3, <1>4 DEF Lists
<1> QED BY <1>2, <1>5 DEF w

\* A list in another order, with one of its elements replaced.
Reordered(v, f) == [i \in DOMAIN v |-> v[f[i]]]

Exchanged(S, y, x) == (S \ {y}) \cup {x}

\* What SelectTried and Evict do to a bucket: it lists the same entries but one.
LEMMA ListsOther ==
  ASSUME NEW S, NEW v, Lists(v, S), NEW f \in Bijection(DOMAIN v, DOMAIN v), NEW p \in DOMAIN v,
         NEW u, u = Reordered(v, f), NEW x, x \notin S
  PROVE  /\ Lists(Put(u, p, x), Exchanged(S, u[p], x)) /\ u[p] \in S
         /\ Len(Put(u, p, x)) = Len(v)
<1> DEFINE n == Len(v)
           w == Put(u, p, x)
           T == Exchanged(S, u[p], x)
<1>1. v \in [1..n -> S] /\ n \in Nat /\ DOMAIN v = 1..n /\ p \in 1..n
  BY DEF Lists
<1>2. /\ f \in [1..n -> 1..n] /\ \A i, j \in 1..n : f[i] = f[j] => i = j
      /\ \A j \in 1..n : \E i \in 1..n : f[i] = j
  BY <1>1 DEF Bijection, Injection, Surjection, IsInjective
<1>3. u = [i \in 1..n |-> v[f[i]]]
  BY <1>1 DEF Reordered
<1>4. u \in [1..n -> S] /\ \A i \in 1..n : u[i] = v[f[i]]
  BY <1>1, <1>2, <1>3, SMTT(60)
<1>5. \A i, j \in 1..n : u[i] = u[j] => i = j
  <2> SUFFICES ASSUME NEW i \in 1..n, NEW j \in 1..n, u[i] = u[j] PROVE i = j
    OBVIOUS
  <2>1. f[i] \in 1..n /\ f[j] \in 1..n /\ v[f[i]] = v[f[j]]
    BY <1>2, <1>4
  <2>2. f[i] = f[j]
    BY <2>1 DEF Lists
  <2> QED BY <1>2, <2>2
<1>6. \A y \in S : \E i \in 1..n : u[i] = y
  <2> SUFFICES ASSUME NEW y \in S PROVE \E i \in 1..n : u[i] = y
    OBVIOUS
  <2>1. PICK j \in 1..n : v[j] = y
    BY DEF Lists
  <2>2. PICK i \in 1..n : f[i] = j
    BY <1>2
  <2> QED BY <1>4, <2>1, <2>2
<1>7. w = [i \in 1..n |-> IF i = p THEN x ELSE u[i]]
  BY <1>4 DEF Put
<1>8. /\ w[p] = x /\ \A i \in 1..n : i # p => w[i] = u[i] /\ u[i] \in S /\ u[i] # u[p]
  BY <1>1, <1>4, <1>5, <1>7
<1>9. w \in [1..n -> T]
  BY <1>7, <1>8 DEF Exchanged
<1>10. w \in Seq(T) /\ Len(w) = n
  <2> HIDE DEF w, T
  <2> QED BY <1>1, <1>9, FunSeq
<1> HIDE DEF w
<1>11. ASSUME NEW y \in T PROVE \E i \in 1..n : w[i] = y
  <2>1. CASE y = x
    BY <1>1, <1>8, <2>1
  <2>2. CASE y # x
    <3>1. PICK i \in 1..n : u[i] = y
      BY <1>6, <2>2 DEF Exchanged
    <3>2. i # p
      BY <2>2, <3>1 DEF Exchanged
    <3> QED BY <1>8, <3>1, <3>2
  <2> QED BY <2>1, <2>2
<1>12. ASSUME NEW i \in 1..n, NEW j \in 1..n, w[i] = w[j] PROVE i = j
  <2>1. \A k \in 1..n : k # p => w[k] # x
    BY <1>8
  <2>2. CASE i = p \/ j = p
    BY <1>8, <1>12, <2>1, <2>2
  <2>3. CASE i # p /\ j # p
    <3>1. w[i] = u[i] /\ w[j] = u[j]
      BY <1>8, <2>3
    <3> QED BY <1>5, <1>12, <3>1
  <2> QED BY <2>2, <2>3
<1>13. Lists(w, T)
  BY <1>10, <1>11, <1>12 DEF Lists
<1> QED BY <1>1, <1>4, <1>10, <1>13 DEF w

\* Leaving a bucket, and with it the table when it was the last one.
LEMMA Removed ==
  ASSUME NEW a, NEW x, ManInv(a, x), NEW b \in NewBuckets, NEW id \in a.vvNew[b], id # x,
         NEW r, r = RemoveFromNew(a, b, id)
  PROVE  /\ ManInv(r, x) /\ r.vvNew[b] = a.vvNew[b] \ {id} /\ Ids(a) \ {id} \subseteq Ids(r)
         /\ \A i \in Ids(a) \ {id} : r.mapInfo[i].fInTried = a.mapInfo[i].fInTried
<1> DEFINE k == a.mapInfo[id].nRefCount - 1
           less == [a EXCEPT !.mapInfo[id].nRefCount = k]
           left == IF less.mapInfo[id].nRefCount = 0 THEN Delete(less, id) ELSE less
<1>0. EntriesInv(a) /\ AddrInv(a) /\ RandomInv(a) /\ CountInv(a) /\ NewInv(a, x) /\ RefInv(a, {}) /\ TriedInv(a)
  BY DEF ManInv
<1>1. /\ id \in Ids(a) /\ a.vvNew \in [NewBuckets -> SUBSET Ids(a)]
      /\ a.mapInfo[id] \in InfoType
  BY <1>0 DEF NewInv, EntriesInv
<1>2. k \in Int /\ a.mapInfo[id].nRefCount \in Int
  BY <1>1 DEF InfoType
<1>3. /\ EntriesInv(less) /\ AddrInv(less) /\ RandomInv(less) /\ Ids(less) = Ids(a)
      /\ less.nIdCount = a.nIdCount /\ less.mapAddr = a.mapAddr /\ less.vRandom = a.vRandom
      /\ less.nTried = a.nTried /\ less.nNew = a.nNew /\ less.vvNew = a.vvNew /\ less.vvTried = a.vvTried
      /\ less.mapInfo[id].nRefCount = k
      /\ less.mapInfo[id].service = a.mapInfo[id].service
      /\ less.mapInfo[id].fInTried = a.mapInfo[id].fInTried
      /\ less.mapInfo[id].everGood = a.mapInfo[id].everGood
      /\ \A i \in Ids(a) : i # id => less.mapInfo[i] = a.mapInfo[i]
  BY <1>0, <1>1, <1>2, RefChanged
<1>4. r = [left EXCEPT !.vvNew[b] = @ \ {id}]
  BY DEF RemoveFromNew
<1>5. a.mapInfo[id].nRefCount = Cardinality(NewPlaces(a, id)) /\ k = Cardinality(NewPlaces(a, id) \ {b})
      /\ b \in NewPlaces(a, id) /\ IsFiniteSet(NewPlaces(a, id)) /\ Cardinality(NewPlaces(a, id)) \in Nat
      /\ k \in Nat
  <2>1. b \in NewPlaces(a, id)
    BY DEF NewPlaces
  <2>2. IsFiniteSet(NewPlaces(a, id)) /\ Cardinality(NewPlaces(a, id)) \in Nat
    BY <1>0, Finite
  <2>3. a.mapInfo[id].nRefCount = Cardinality(NewPlaces(a, id))
    BY <1>0, <1>1, <2>2 DEF NewInv
  <2>4. Cardinality(NewPlaces(a, id) \ {b}) = Cardinality(NewPlaces(a, id)) - 1
    BY <2>1, <2>2, FS_RemoveElement
  <2>5. IsFiniteSet(NewPlaces(a, id) \ {b}) /\ Cardinality(NewPlaces(a, id) \ {b}) \in Nat
    BY <2>2, FS_Subset, FS_CardinalityType
  <2> QED BY <2>1, <2>2, <2>3, <2>4, <2>5
<1>6. id \in NewIds(a) /\ id \notin TriedIds(a)
  <2>1. a.mapInfo[id].nRefCount # 0
    BY <1>2, <1>5
  <2> QED BY <1>0, <1>1, <2>1 DEF RefInv, NewIds, Ids
<1> HIDE DEF less, k
<1>7. /\ EntriesInv(left) /\ AddrInv(left) /\ RandomInv(left)
      /\ Ids(left) = IF k = 0 THEN Ids(a) \ {id} ELSE Ids(a)
      /\ left.nTried = a.nTried /\ left.nNew = IF k = 0 THEN a.nNew - 1 ELSE a.nNew
      /\ left.vvNew = a.vvNew /\ left.vvTried = a.vvTried
      /\ Len(left.vRandom) = IF k = 0 THEN Len(a.vRandom) - 1 ELSE Len(a.vRandom)
      /\ \A i \in Ids(left) : SameEntry(left, less, i)
  <2>1. CASE k = 0
    <3>1. left = Delete(less, id) /\ id \in Ids(less)
      BY <1>1, <1>3, <2>1
    <3> QED BY <1>3, <2>1, <3>1, Deleted
  <2>2. CASE k # 0
    <3>1. left = less
      BY <1>3, <2>2
    <3> QED BY <1>3, <2>2, <3>1 DEF SameEntry
  <2> QED BY <2>1, <2>2
<1> HIDE DEF left
<1>8. /\ IsMan(r) /\ r.nIdCount = left.nIdCount /\ r.mapInfo = left.mapInfo /\ r.mapAddr = left.mapAddr
      /\ r.vRandom = left.vRandom /\ r.nTried = left.nTried /\ r.nNew = left.nNew
      /\ r.vvNew = [a.vvNew EXCEPT ![b] = @ \ {id}] /\ r.vvTried = a.vvTried
  BY <1>4, <1>7 DEF IsMan, EntriesInv
<1>9. left.mapInfo \in [Ids(left) -> InfoType]
  BY <1>7 DEF EntriesInv
<1>10. EntriesInv(r) /\ AddrInv(r) /\ RandomInv(r) /\ Ids(r) = Ids(left)
  BY <1>7, <1>8, <1>9, Reindexed
<1>11. \A i \in Ids(r) : /\ i \in Ids(a)
                         /\ r.mapInfo[i].service = a.mapInfo[i].service
                         /\ r.mapInfo[i].everGood = a.mapInfo[i].everGood
                         /\ r.mapInfo[i].fInTried = a.mapInfo[i].fInTried
                         /\ r.mapInfo[i].nRefCount = IF i = id THEN k ELSE a.mapInfo[i].nRefCount
  BY <1>3, <1>7, <1>8, <1>10 DEF SameEntry
<1>12. TriedIds(r) = TriedIds(a) /\ NewIds(r) = IF k = 0 THEN NewIds(a) \ {id} ELSE NewIds(a)
  <2>1. Ids(r) = IF k = 0 THEN Ids(a) \ {id} ELSE Ids(a)
    BY <1>7, <1>10
  <2>2. TriedIds(r) = TriedIds(a)
    BY <1>6, <1>11, <2>1 DEF TriedIds, Ids
  <2> QED BY <1>6, <2>1, <2>2 DEF NewIds, Ids
<1>13. CountInv(r)
  <2>1. IsFiniteSet(NewIds(a)) /\ Cardinality(NewIds(a) \ {id}) = Cardinality(NewIds(a)) - 1
        /\ Cardinality(NewIds(a)) \in Nat /\ Cardinality(TriedIds(a)) \in Nat
    BY <1>0, <1>6, Finite, FS_RemoveElement
  <2> QED BY <1>0, <1>7, <1>8, <1>12, <2>1 DEF CountInv
<1>14. TriedInv(r)
  <2>1. \A i \in TriedIds(a) : r.mapInfo[i].service = a.mapInfo[i].service
    BY <1>11, <1>12 DEF TriedIds, Ids
  <2> QED BY <1>0, <1>8, <1>12, <2>1, TriedSame
<1>15. RefInv(r, {})
  <2>1. \A i \in TriedIds(r) : i \in Ids(r) /\ i # id /\ r.mapInfo[i].everGood /\ r.mapInfo[i].nRefCount = 0
    BY <1>0, <1>6, <1>11, <1>12 DEF RefInv, TriedIds, Ids
  <2>2. ASSUME NEW i \in NewIds(r) PROVE r.mapInfo[i].nRefCount \in 1..NEW_BUCKETS_PER_ADDRESS
    <3>1. i \in Ids(r) /\ i \in NewIds(a)
      BY <1>12 DEF NewIds, Ids
    <3>2. a.mapInfo[i].nRefCount \in 1..NEW_BUCKETS_PER_ADDRESS
      BY <1>0, <3>1 DEF RefInv
    <3>3. CASE i = id
      <4>1. k # 0
        BY <1>7, <1>10, <3>1, <3>3
      <4>2. k = a.mapInfo[id].nRefCount - 1
        BY DEF k
      <4>3. a.mapInfo[id].nRefCount \in 1..NEW_BUCKETS_PER_ADDRESS
        BY <3>2, <3>3
      <4>4. k \in 1..NEW_BUCKETS_PER_ADDRESS
        BY <1>5, <4>1, <4>2, <4>3, AddrManAssumption
      <4>5. r.mapInfo[i].nRefCount = k
        BY <1>11, <3>1, <3>3
      <4> QED BY <4>4, <4>5
    <3>4. CASE i # id
      BY <1>11, <3>1, <3>2, <3>4
    <3> QED BY <3>3, <3>4
  <2> QED BY <2>1, <2>2 DEF RefInv
<1>16. r.vvNew[b] = a.vvNew[b] \ {id} /\ \A c \in NewBuckets : c # b => r.vvNew[c] = a.vvNew[c]
  BY <1>1, <1>8
<1>17. \A i \in Ids(r) : NewPlaces(r, i) = IF i = id THEN NewPlaces(a, id) \ {b} ELSE NewPlaces(a, i)
  BY <1>16 DEF NewPlaces
<1>18. r.vvNew \in [NewBuckets -> SUBSET Ids(r)]
  <2>1. ASSUME NEW c \in NewBuckets PROVE r.vvNew[c] \subseteq Ids(r)
    <3>1. CASE k = 0
      <4>1. NewPlaces(a, id) = {b}
        <5>1. IsFiniteSet(NewPlaces(a, id) \ {b})
          BY <1>5, FS_Subset
        <5>2. NewPlaces(a, id) \ {b} = {}
          BY <1>5, <3>1, <5>1, FS_EmptySet
        <5> QED BY <1>5, <5>2
      <4>2. c # b => id \notin a.vvNew[c]
        BY <4>1 DEF NewPlaces
      <4>3. r.vvNew[c] \subseteq Ids(a) \ {id}
        BY <1>1, <1>16, <4>2
      <4> QED BY <1>7, <1>10, <3>1, <4>3
    <3>2. CASE k # 0
      BY <1>1, <1>7, <1>10, <1>16, <3>2
    <3> QED BY <3>1, <3>2
  <2> QED BY <1>1, <1>8, <2>1
<1>19. NewInv(r, x)
  <2>1. ASSUME NEW c \in NewBuckets PROVE Cardinality(r.vvNew[c]) <= NEW_BUCKET_SIZE
    <3>1. a.vvNew[c] \in SUBSET Ids(a) /\ Cardinality(a.vvNew[c]) <= NEW_BUCKET_SIZE
      BY <1>0 DEF NewInv
    <3>2. IsFiniteSet(a.vvNew[c]) /\ Cardinality(a.vvNew[c]) \in Nat
      BY <1>0, <3>1, Finite
    <3>3. CASE c = b
      <4>1. Cardinality(r.vvNew[b]) = Cardinality(a.vvNew[b]) - 1
        BY <1>16, <3>2, <3>3, FS_RemoveElement, ZenonT(60)
      <4> QED BY <3>1, <3>2, <3>3, <4>1, AddrManAssumption
    <3>4. CASE c # b
      BY <1>16, <3>1, <3>4
    <3> QED BY <3>3, <3>4
  <2>2. \A i \in Ids(r) :
          r.mapInfo[i].nRefCount = Cardinality(NewPlaces(r, i)) + (IF i = x THEN 1 ELSE 0)
    <3> SUFFICES ASSUME NEW i \in Ids(r)
                 PROVE r.mapInfo[i].nRefCount = Cardinality(NewPlaces(r, i)) + (IF i = x THEN 1 ELSE 0)
      OBVIOUS
    <3>1. CASE i = id
      <4>1. r.mapInfo[i].nRefCount = k /\ Cardinality(NewPlaces(r, i)) = k /\ i # x
        BY <1>5, <1>11, <1>17, <3>1
      <4> QED BY <1>5, <4>1
    <3>2. CASE i # id
      BY <1>0, <1>11, <1>17, <3>2 DEF NewInv
    <3> QED BY <3>1, <3>2
  <2> QED BY <1>18, <2>1, <2>2 DEF NewInv
<1>20. ManInv(r, x)
  BY <1>10, <1>13, <1>14, <1>15, <1>19 DEF ManInv
<1>21. Ids(a) \ {id} \subseteq Ids(r)
  BY <1>7, <1>10
<1> QED BY <1>11, <1>16, <1>20, <1>21

\* An entry that is about to be put into a bucket is counted first.
LEMMA CountedFirst ==
  ASSUME NEW a, EntriesInv(a), AddrInv(a), RandomInv(a), CountInv(a), NewInv(a, NoId), TriedInv(a),
         NEW id \in NewIds(a), RefInv(a, {id}), a.mapInfo[id].nRefCount \in 0..(NEW_BUCKETS_PER_ADDRESS - 1),
         NEW r, r = [a EXCEPT !.mapInfo[id].nRefCount = @ + 1]
  PROVE  /\ ManInv(r, id) /\ r.vvNew = a.vvNew /\ Ids(r) = Ids(a) /\ id \in Ids(a)
         /\ r.mapInfo[id].fInTried = a.mapInfo[id].fInTried
<1> DEFINE k == a.mapInfo[id].nRefCount + 1
<1>1. id \in Ids(a) /\ id \notin TriedIds(a) /\ id # NoId
  BY DEF NewIds, Ids, NoId, EntriesInv
<1>2. k \in 1..NEW_BUCKETS_PER_ADDRESS /\ k \in Int
  BY AddrManAssumption
<1>3. r = [a EXCEPT !.mapInfo[id].nRefCount = k]
  OBVIOUS
<1> HIDE DEF k
<1>4. /\ EntriesInv(r) /\ AddrInv(r) /\ RandomInv(r) /\ Ids(r) = Ids(a)
      /\ r.nIdCount = a.nIdCount /\ r.mapAddr = a.mapAddr /\ r.vRandom = a.vRandom
      /\ r.nTried = a.nTried /\ r.nNew = a.nNew /\ r.vvNew = a.vvNew /\ r.vvTried = a.vvTried
      /\ r.mapInfo[id].nRefCount = k
      /\ r.mapInfo[id].service = a.mapInfo[id].service
      /\ r.mapInfo[id].fInTried = a.mapInfo[id].fInTried
      /\ r.mapInfo[id].everGood = a.mapInfo[id].everGood
      /\ \A i \in Ids(a) : i # id => r.mapInfo[i] = a.mapInfo[i]
  BY SMTT(30), <1>1, <1>2, <1>3, RefChanged
<1>5. TriedIds(r) = TriedIds(a) /\ NewIds(r) = NewIds(a)
  <2>1. \A i \in Ids(a) : r.mapInfo[i].fInTried = a.mapInfo[i].fInTried
    BY <1>4
  <2>2. TriedIds(r) = TriedIds(a)
    BY <1>4, <2>1 DEF TriedIds, Ids
  <2> QED BY <1>4, <2>2 DEF NewIds, Ids
<1>6. CountInv(r)
  BY <1>4, <1>5 DEF CountInv
<1>7. TriedInv(r)
  <2>1. \A i \in TriedIds(a) : r.mapInfo[i].service = a.mapInfo[i].service
    BY <1>4 DEF TriedIds, Ids
  <2> QED BY <1>4, <1>5, <2>1, TriedSame
<1>8. RefInv(r, {})
  <2>1. \A i \in TriedIds(a) : i \in Ids(a) /\ i # id
    BY <1>1 DEF TriedIds, Ids
  <2>2. \A i \in NewIds(a) : i \in Ids(a)
    BY DEF NewIds, Ids
  <2> QED BY <1>2, <1>4, <1>5, <2>1, <2>2 DEF RefInv
<1>9. NewInv(r, id)
  <2>1. \A i : NewPlaces(r, i) = NewPlaces(a, i) /\ Cardinality(NewPlaces(a, i)) \in Nat
    BY <1>4, Finite DEF NewPlaces
  <2>2. ASSUME NEW i \in Ids(a)
        PROVE  r.mapInfo[i].nRefCount = Cardinality(NewPlaces(r, i)) + (IF i = id THEN 1 ELSE 0)
    <3>0. a.mapInfo[i].nRefCount = Cardinality(NewPlaces(a, i)) + (IF i = NoId THEN 1 ELSE 0)
      BY DEF NewInv
    <3>1. i # NoId
      BY DEF EntriesInv, NoId
    <3>2. CASE i = id
      BY <1>4, <2>1, <3>0, <3>1, <3>2 DEF k
    <3>3. CASE i # id
      BY <1>4, <2>1, <3>0, <3>1, <3>3
    <3> QED BY <3>2, <3>3
  <2> QED BY <1>4, <2>2 DEF NewInv
<1> QED BY <1>1, <1>4, <1>6, <1>7, <1>8, <1>9 DEF ManInv

\* And then put there.
LEMMA PutIn ==
  ASSUME NEW a, NEW id, ManInv(a, id), id \in Ids(a), NEW b \in NewBuckets, id \notin a.vvNew[b],
         Cardinality(a.vvNew[b]) < NEW_BUCKET_SIZE,
         NEW r, r = [a EXCEPT !.vvNew[b] = @ \cup {id}]
  PROVE  ManInv(r, NoId)
<1>0. EntriesInv(a) /\ AddrInv(a) /\ RandomInv(a) /\ CountInv(a) /\ NewInv(a, id) /\ RefInv(a, {}) /\ TriedInv(a)
  BY DEF ManInv
<1>1. /\ IsMan(r) /\ r.nIdCount = a.nIdCount /\ r.mapInfo = a.mapInfo /\ r.mapAddr = a.mapAddr
      /\ r.vRandom = a.vRandom /\ r.nTried = a.nTried /\ r.nNew = a.nNew
      /\ r.vvNew = [a.vvNew EXCEPT ![b] = @ \cup {id}] /\ r.vvTried = a.vvTried
  BY <1>0 DEF EntriesInv, IsMan
<1>2. EntriesInv(r) /\ AddrInv(r) /\ RandomInv(r) /\ Ids(r) = Ids(a)
  <2>1. r.mapInfo \in [Ids(a) -> InfoType]
    BY <1>0, <1>1 DEF EntriesInv
  <2> QED BY <1>0, <1>1, <2>1, Reindexed
<1>3. TriedIds(r) = TriedIds(a) /\ NewIds(r) = NewIds(a)
  BY <1>1 DEF TriedIds, NewIds
<1>4. CountInv(r) /\ RefInv(r, {})
  BY <1>0, <1>1, <1>3 DEF CountInv, RefInv
<1>5. TriedInv(r)
  BY <1>0, <1>1, <1>3, TriedSame
<1>6. /\ r.vvNew \in [NewBuckets -> SUBSET Ids(r)]
      /\ r.vvNew[b] = a.vvNew[b] \cup {id}
      /\ \A c \in NewBuckets : c # b => r.vvNew[c] = a.vvNew[c]
  <2>1. a.vvNew \in [NewBuckets -> SUBSET Ids(r)] /\ id \in Ids(r)
    BY <1>0, <1>2 DEF NewInv
  <2> QED BY <1>1, <2>1, SMTT(60)
<1>7. \A c \in NewBuckets : Cardinality(r.vvNew[c]) <= NEW_BUCKET_SIZE
  <2>1. a.vvNew[b] \in SUBSET Ids(a)
    BY <1>0 DEF NewInv
  <2>2. IsFiniteSet(a.vvNew[b]) /\ Cardinality(a.vvNew[b]) \in Nat
    BY <1>0, <2>1, Finite
  <2>3. Cardinality(r.vvNew[b]) = Cardinality(a.vvNew[b]) + 1
    BY <1>6, <2>2, FS_AddElement
  <2>4. Cardinality(r.vvNew[b]) <= NEW_BUCKET_SIZE
    BY <2>2, <2>3, AddrManAssumption
  <2> QED BY <1>0, <1>6, <2>4 DEF NewInv
<1>8. ASSUME NEW i \in Ids(r)
      PROVE  r.mapInfo[i].nRefCount = Cardinality(NewPlaces(r, i)) + (IF i = NoId THEN 1 ELSE 0)
  <2>0. /\ a.mapInfo[i].nRefCount = Cardinality(NewPlaces(a, i)) + (IF i = id THEN 1 ELSE 0)
        /\ IsFiniteSet(NewPlaces(a, i)) /\ Cardinality(NewPlaces(a, i)) \in Nat /\ i # NoId
    BY <1>0, <1>2, Finite DEF NewInv, EntriesInv, NoId
  <2>1. CASE i = id
    <3>1. NewPlaces(r, i) = NewPlaces(a, i) \cup {b} /\ b \notin NewPlaces(a, i)
      BY <1>6, <2>1 DEF NewPlaces
    <3>2. Cardinality(NewPlaces(r, i)) = Cardinality(NewPlaces(a, i)) + 1
      BY <2>0, <3>1, FS_AddElement
    <3> QED BY <1>1, <2>0, <2>1, <3>2
  <2>2. CASE i # id
    <3>1. NewPlaces(r, i) = NewPlaces(a, i)
      BY <1>6, <2>2 DEF NewPlaces
    <3> QED BY <1>1, <2>0, <2>2, <3>1
  <2> QED BY <2>1, <2>2
<1>9. NewInv(r, NoId)
  BY <1>6, <1>7, <1>8 DEF NewInv
<1> QED BY <1>2, <1>4, <1>5, <1>9 DEF ManInv

\* The last lines of Add_ put the entry into a bucket that has room, or gets it.
LEMMA InsertKeeps ==
  ASSUME NEW a, EntriesInv(a), AddrInv(a), RandomInv(a), CountInv(a), NewInv(a, NoId), TriedInv(a),
         NEW id \in NewIds(a), RefInv(a, {id}), a.mapInfo[id].nRefCount \in 0..(NEW_BUCKETS_PER_ADDRESS - 1),
         NEW src \in Source, NEW r \in InsertInNew(a, id, src)
  PROVE  ManInv(r, NoId)
<1> DEFINE b == NewBucketOf[<<a.mapInfo[id].service, src>>]
           more == [a EXCEPT !.mapInfo[id].nRefCount = @ + 1]
           room == IF Cardinality(a.vvNew[b]) = NEW_BUCKET_SIZE THEN ShrinkNew(more, b) ELSE {more}
<1>1. id \in Ids(a) /\ b \in NewBuckets
  BY AddrManAssumption DEF NewIds, Ids, EntriesInv, InfoType
<1>2. /\ a.vvNew[b] \in SUBSET Ids(a) /\ Cardinality(a.vvNew[b]) <= NEW_BUCKET_SIZE
      /\ IsFiniteSet(a.vvNew[b]) /\ Cardinality(a.vvNew[b]) \in Nat
  BY <1>1, Finite DEF NewInv
<1> HIDE DEF b, more
<1>3. CASE id \in a.vvNew[b]
  <2>1. r = a
    BY <1>3 DEF InsertInNew, b
  <2>2. b \in NewPlaces(a, id) /\ IsFiniteSet(NewPlaces(a, id)) /\ Cardinality(NewPlaces(a, id)) \in Nat
    BY <1>1, <1>3, Finite DEF NewPlaces
  <2>3. Cardinality(NewPlaces(a, id)) # 0
    BY <2>2, FS_EmptySet
  <2>4. a.mapInfo[id].nRefCount = Cardinality(NewPlaces(a, id)) + (IF id = NoId THEN 1 ELSE 0) /\ id # NoId
    BY <1>1 DEF NewInv, EntriesInv, NoId
  <2>5. a.mapInfo[id].nRefCount \in 1..NEW_BUCKETS_PER_ADDRESS
    BY <2>2, <2>3, <2>4, AddrManAssumption
  <2>6. RefInv(a, {})
    BY <2>5 DEF RefInv
  <2> QED BY <2>1, <2>6 DEF ManInv
<1>4. CASE id \notin a.vvNew[b]
  <2>1. PICK s \in room : r = [s EXCEPT !.vvNew[b] = @ \cup {id}]
    BY <1>4 DEF InsertInNew, b, more
  <2>2. ManInv(more, id) /\ more.vvNew = a.vvNew /\ Ids(more) = Ids(a)
    BY CountedFirst DEF more
  <2>3. ManInv(s, id) /\ id \in Ids(s) /\ id \notin s.vvNew[b] /\ Cardinality(s.vvNew[b]) < NEW_BUCKET_SIZE
    <3>1. CASE Cardinality(a.vvNew[b]) = NEW_BUCKET_SIZE
      <4>1. PICK old \in more.vvNew[b] : s = RemoveFromNew(more, b, old)
        BY <2>1, <3>1 DEF ShrinkNew
      <4>2. old # id /\ old \in a.vvNew[b]
        BY <1>4, <2>2, <4>1
      <4>3. ManInv(s, id) /\ s.vvNew[b] = more.vvNew[b] \ {old} /\ Ids(more) \ {old} \subseteq Ids(s)
        BY <1>1, <2>2, <4>1, <4>2, Removed
      <4>4. Cardinality(a.vvNew[b] \ {old}) = Cardinality(a.vvNew[b]) - 1
        BY <1>2, <4>2, FS_RemoveElement
      <4> QED BY <1>1, <1>2, <1>4, <2>2, <3>1, <4>2, <4>3, <4>4, AddrManAssumption
    <3>2. CASE Cardinality(a.vvNew[b]) # NEW_BUCKET_SIZE
      BY <1>1, <1>2, <1>4, <2>1, <2>2, <3>2, AddrManAssumption
    <3> QED BY <3>1, <3>2
  <2> QED BY <1>1, <2>1, <2>3, PutIn
<1> QED BY <1>3, <1>4

\* An object with one entry more is indexed.
LEMMA EntryAdded ==
  ASSUME NEW a, EntriesInv(a), AddrInv(a), RandomInv(a), NEW e \in InfoType,
         e.nRandomPos = Len(a.vRandom) + 1, IpOf[e.service] \notin DOMAIN a.mapAddr,
         NEW id, id = a.nIdCount, NEW r, IsMan(r), r.nIdCount = id + 1,
         r.mapInfo = With(a.mapInfo, id, e), r.mapAddr = With(a.mapAddr, IpOf[e.service], id),
         r.vRandom = Append(a.vRandom, id)
  PROVE  /\ EntriesInv(r) /\ AddrInv(r) /\ RandomInv(r)
         /\ Ids(r) = Ids(a) \cup {id} /\ id \notin Ids(a) /\ r.mapInfo[id] = e
         /\ \A i \in Ids(a) : r.mapInfo[i] = a.mapInfo[i]
         /\ Len(r.vRandom) = Len(a.vRandom) + 1 /\ Len(a.vRandom) \in Nat
<1>1. IsMan(r) /\ r.nIdCount = id + 1
  OBVIOUS
<1>2. id \in Nat /\ id \notin Ids(a) /\ Ids(a) \subseteq 0..(id - 1) /\ a.mapInfo \in [Ids(a) -> InfoType]
  BY DEF EntriesInv
<1>3. Len(a.vRandom) \in Nat /\ a.vRandom \in Seq(Ids(a))
  BY DEF RandomInv
<1>5. /\ Ids(r) = Ids(a) \cup {id} /\ r.mapInfo \in [Ids(r) -> InfoType] /\ r.mapInfo[id] = e
      /\ \A i \in Ids(a) : r.mapInfo[i] = a.mapInfo[i]
  <2>1. r.mapInfo = [i \in Ids(a) \cup {id} |-> IF i = id THEN e ELSE a.mapInfo[i]]
    BY DEF With, Ids
  <2>2. Ids(r) = Ids(a) \cup {id}
    BY <2>1 DEF Ids
  <2>3. r.mapInfo[id] = e /\ \A i \in Ids(a) : r.mapInfo[i] = a.mapInfo[i] /\ a.mapInfo[i] \in InfoType
    BY <1>2, <2>1
  <2>4. \A i \in Ids(r) : r.mapInfo[i] \in InfoType
    BY <2>2, <2>3
  <2>5. r.mapInfo \in [Ids(r) -> InfoType]
    BY <2>1, <2>2, <2>4
  <2> QED BY <2>2, <2>3, <2>5
<1>6. EntriesInv(r)
  BY <1>1, <1>2, <1>5 DEF EntriesInv
<1>7. AddrInv(r)
  <2>2. /\ DOMAIN r.mapAddr = DOMAIN a.mapAddr \cup {IpOf[e.service]} /\ r.mapAddr[IpOf[e.service]] = id
        /\ \A x \in DOMAIN a.mapAddr : r.mapAddr[x] = a.mapAddr[x] /\ a.mapAddr[x] \in Ids(a)
    BY DEF With, AddrInv
  <2>3. r.mapAddr = [x \in DOMAIN r.mapAddr |-> r.mapAddr[x]]
    BY DEF With
  <2>4. r.mapAddr \in [DOMAIN r.mapAddr -> Ids(r)]
    BY <1>5, <2>2, <2>3
  <2>5. ASSUME NEW i \in Ids(r)
        PROVE  IpOf[r.mapInfo[i].service] \in DOMAIN r.mapAddr /\ r.mapAddr[IpOf[r.mapInfo[i].service]] = i
    <3>1. CASE i = id
      BY <1>5, <2>2, <3>1
    <3>2. CASE i \in Ids(a)
      BY <1>5, <2>2, <3>2 DEF AddrInv
    <3> QED BY <1>5, <3>1, <3>2
  <2>6. ASSUME NEW x \in DOMAIN r.mapAddr PROVE IpOf[r.mapInfo[r.mapAddr[x]].service] = x
    <3>1. CASE x = IpOf[e.service]
      BY <1>5, <2>2, <3>1
    <3>2. CASE x \in DOMAIN a.mapAddr
      BY <1>5, <2>2, <3>2 DEF AddrInv
    <3> QED BY <2>2, <3>1, <3>2
  <2> QED BY <2>4, <2>5, <2>6 DEF AddrInv
<1>8. /\ r.vRandom \in Seq(Ids(r)) /\ Len(r.vRandom) = Len(a.vRandom) + 1
      /\ r.vRandom[Len(a.vRandom) + 1] = id
      /\ \A p \in 1..Len(a.vRandom) : r.vRandom[p] = a.vRandom[p] /\ a.vRandom[p] \in Ids(a)
  <2>1. a.vRandom \in Seq(Ids(r)) /\ id \in Ids(r)
    BY <1>3, <1>5
  <2>2. \A p \in 1..Len(a.vRandom) : a.vRandom[p] \in Ids(a)
    BY <1>3
  <2>3. /\ Append(a.vRandom, id) \in Seq(Ids(r)) /\ Len(Append(a.vRandom, id)) = Len(a.vRandom) + 1
        /\ Append(a.vRandom, id)[Len(a.vRandom) + 1] = id
        /\ \A p \in 1..Len(a.vRandom) : Append(a.vRandom, id)[p] = a.vRandom[p]
    BY <2>1, Appended
  <2> QED BY <2>2, <2>3
<1>9. RandomInv(r)
  <2>1. ASSUME NEW i \in Ids(r)
        PROVE  r.mapInfo[i].nRandomPos \in 1..Len(r.vRandom) /\ r.vRandom[r.mapInfo[i].nRandomPos] = i
    <3>1. CASE i = id
      BY <1>3, <1>5, <1>8, <3>1
    <3>2. CASE i \in Ids(a)
      <4>1. a.mapInfo[i].nRandomPos \in 1..Len(a.vRandom) /\ a.vRandom[a.mapInfo[i].nRandomPos] = i
        BY <3>2 DEF RandomInv
      <4>2. r.mapInfo[i] = a.mapInfo[i]
        BY <1>5, <3>2
      <4>3. a.mapInfo[i].nRandomPos \in 1..Len(r.vRandom)
        BY <1>3, <1>8, <4>1
      <4> QED BY <1>8, <4>1, <4>2, <4>3
    <3> QED BY <1>5, <3>1, <3>2
  <2>2. ASSUME NEW p \in 1..Len(r.vRandom) PROVE r.mapInfo[r.vRandom[p]].nRandomPos = p
    <3>1. CASE p = Len(a.vRandom) + 1
      BY <1>5, <1>8, <3>1
    <3>2. CASE p # Len(a.vRandom) + 1
      <4>1. p \in 1..Len(a.vRandom)
        BY <1>3, <1>8, <3>2
      <4> QED BY <1>5, <1>8, <4>1 DEF RandomInv
    <3> QED BY <3>1, <3>2
  <2> QED BY <1>8, <2>1, <2>2 DEF RandomInv
<1> QED BY <1>2, <1>3, <1>5, <1>6, <1>7, <1>8, <1>9

\* The entry Add_ makes.
AddCreated(a, s, src) == [Create(a, s, src) EXCEPT !.nNew = @ + 1]

\* Create makes an entry that is in no bucket yet.
LEMMA Created ==
  ASSUME NEW a, ManInv(a, NoId), NEW s \in Service, NEW src \in Source, ~Found(a, s),
         NEW r, r = AddCreated(a, s, src), NEW id, id = a.nIdCount
  PROVE  /\ EntriesInv(r) /\ AddrInv(r) /\ RandomInv(r) /\ CountInv(r) /\ NewInv(r, NoId)
         /\ TriedInv(r) /\ id \in NewIds(r) /\ RefInv(r, {id}) /\ r.mapInfo[id].nRefCount = 0
<1> DEFINE e == Entry(s, src, FALSE, 0, FALSE, Len(a.vRandom) + 1)
<1>0. EntriesInv(a) /\ AddrInv(a) /\ RandomInv(a) /\ CountInv(a) /\ NewInv(a, NoId) /\ RefInv(a, {}) /\ TriedInv(a)
  BY DEF ManInv
<1>1. /\ IsMan(r) /\ r.nIdCount = id + 1 /\ r.mapInfo = With(a.mapInfo, id, e)
      /\ r.mapAddr = With(a.mapAddr, IpOf[s], id) /\ r.vRandom = Append(a.vRandom, id)
      /\ r.nTried = a.nTried /\ r.nNew = a.nNew + 1 /\ r.vvNew = a.vvNew /\ r.vvTried = a.vvTried
  BY <1>0 DEF AddCreated, Create, IsMan, EntriesInv, Entry
<1>2. id \in Nat /\ id \notin Ids(a) /\ Ids(a) \subseteq 0..(id - 1) /\ a.mapInfo \in [Ids(a) -> InfoType]
  BY <1>0 DEF EntriesInv
<1>3. Len(a.vRandom) \in Nat /\ a.vRandom \in Seq(Ids(a))
  BY <1>0 DEF RandomInv
<1>4. e \in InfoType /\ e.service = s /\ e.nRefCount = 0 /\ e.fInTried = FALSE /\ e.nRandomPos = Len(a.vRandom) + 1
  BY <1>3 DEF InfoType, Entry
<1> HIDE DEF e
<1>5. /\ EntriesInv(r) /\ AddrInv(r) /\ RandomInv(r)
      /\ Ids(r) = Ids(a) \cup {id} /\ r.mapInfo[id] = e
      /\ \A i \in Ids(a) : r.mapInfo[i] = a.mapInfo[i]
      /\ Len(r.vRandom) = Len(a.vRandom) + 1
  <2>1. IpOf[e.service] \notin DOMAIN a.mapAddr
    BY <1>4 DEF Found
  <2>2. r.mapAddr = With(a.mapAddr, IpOf[e.service], id)
    BY <1>1, <1>4
  <2> QED BY <1>0, <1>1, <1>4, <2>1, <2>2, EntryAdded
<1>10. TriedIds(r) = TriedIds(a) /\ NewIds(r) = NewIds(a) \cup {id} /\ id \notin NewIds(a)
  <2>1. TriedIds(r) = TriedIds(a)
    BY <1>2, <1>4, <1>5 DEF TriedIds, Ids
  <2> QED BY <1>2, <1>5, <2>1 DEF NewIds, TriedIds, Ids
<1>11. CountInv(r)
  <2>1. IsFiniteSet(NewIds(a)) /\ Cardinality(NewIds(a)) \in Nat /\ Cardinality(TriedIds(a)) \in Nat
    BY <1>0, Finite
  <2>2. Cardinality(NewIds(r)) = Cardinality(NewIds(a)) + 1
    BY <1>10, <2>1, FS_AddElement
  <2>3. /\ a.nTried = Cardinality(TriedIds(a)) /\ a.nNew = Cardinality(NewIds(a))
        /\ Len(a.vRandom) = a.nTried + a.nNew
    BY <1>0 DEF CountInv
  <2>4. r.nTried = Cardinality(TriedIds(r)) /\ r.nNew = Cardinality(NewIds(r))
    BY <1>1, <1>10, <2>2, <2>3
  <2>5. Len(r.vRandom) = r.nTried + r.nNew
    BY <1>1, <1>5, <2>1, <2>3
  <2> QED BY <2>4, <2>5 DEF CountInv
<1>12. TriedInv(r)
  <2>1. \A i \in TriedIds(a) : r.mapInfo[i].service = a.mapInfo[i].service
    BY <1>5 DEF TriedIds, Ids
  <2> QED BY <1>0, <1>1, <1>10, <2>1, TriedSame
<1>13. RefInv(r, {id})
  <2>1. \A i \in TriedIds(a) : r.mapInfo[i] = a.mapInfo[i]
    BY <1>5 DEF TriedIds, Ids
  <2>2. \A i \in NewIds(a) : r.mapInfo[i] = a.mapInfo[i]
    BY <1>5 DEF NewIds, Ids
  <2> QED BY <1>0, <1>10, <2>1, <2>2 DEF RefInv
<1>14. NewInv(r, NoId)
  <2>1. \A i : NewPlaces(r, i) = NewPlaces(a, i)
    BY <1>1 DEF NewPlaces
  <2>2. r.vvNew \in [NewBuckets -> SUBSET Ids(r)]
    BY <1>0, <1>1, <1>5 DEF NewInv
  <2>3. id # NoId /\ NewPlaces(a, id) = {}
    BY <1>0, <1>2 DEF NewPlaces, NewInv, NoId
  <2>4. Cardinality(NewPlaces(r, id)) = 0
    BY <2>1, <2>3, FS_EmptySet
  <2>5. ASSUME NEW i \in Ids(r)
        PROVE  r.mapInfo[i].nRefCount = Cardinality(NewPlaces(r, i)) + (IF i = NoId THEN 1 ELSE 0)
    <3>1. CASE i = id
      BY <1>4, <1>5, <2>3, <2>4, <3>1
    <3>2. CASE i \in Ids(a)
      BY <1>0, <1>5, <2>1, <3>2 DEF NewInv
    <3> QED BY <1>5, <3>1, <3>2
  <2> QED BY <1>0, <1>1, <2>2, <2>5 DEF NewInv
<1> QED BY <1>4, <1>5, <1>10, <1>11, <1>12, <1>13, <1>14

\* Add keeps the invariant.
LEMMA AddKeeps ==
  ASSUME NEW a, ManInv(a, NoId), NEW s \in Service, NEW src \in Source, NEW r \in Add_(a, s, src)
  PROVE  ManInv(r, NoId)
<1>1. CASE Found(a, s)
  <2> DEFINE id == Find(a, s)
  <2>1. CASE r = a
    BY <2>1
  <2>2. CASE r # a
    <3>1. /\ ~a.mapInfo[id].fInTried /\ a.mapInfo[id].nRefCount # NEW_BUCKETS_PER_ADDRESS
          /\ r \in InsertInNew(a, id, src)
      BY <1>1, <2>2 DEF Add_
    <3>2. id \in Ids(a)
      BY <1>1 DEF Found, Find, ManInv, AddrInv
    <3>3. id \in NewIds(a)
      BY <3>1, <3>2 DEF NewIds, TriedIds, Ids
    <3> HIDE DEF id
    <3>4. RefInv(a, {id}) /\ a.mapInfo[id].nRefCount \in 1..NEW_BUCKETS_PER_ADDRESS
      BY <3>3 DEF ManInv, RefInv
    <3>5. a.mapInfo[id].nRefCount \in 0..(NEW_BUCKETS_PER_ADDRESS - 1)
      BY <3>1, <3>4, AddrManAssumption
    <3> QED BY <3>1, <3>3, <3>4, <3>5, InsertKeeps DEF ManInv
  <2> QED BY <2>1, <2>2
<1>2. CASE ~Found(a, s)
  <2> DEFINE c == AddCreated(a, s, src)
  <2>1. r \in InsertInNew(c, a.nIdCount, src)
    BY <1>2 DEF Add_, AddCreated
  <2>2. /\ EntriesInv(c) /\ AddrInv(c) /\ RandomInv(c) /\ CountInv(c) /\ NewInv(c, NoId)
        /\ TriedInv(c) /\ a.nIdCount \in NewIds(c) /\ RefInv(c, {a.nIdCount})
        /\ c.mapInfo[a.nIdCount].nRefCount = 0
    BY <1>2, Created
  <2> HIDE DEF c
  <2>3. c.mapInfo[a.nIdCount].nRefCount \in 0..(NEW_BUCKETS_PER_ADDRESS - 1)
    BY <2>2, AddrManAssumption
  <2> QED BY <2>1, <2>2, <2>3, InsertKeeps
<1> QED BY <1>1, <1>2

\* MakeTried first takes the entry out of the new buckets.
TakenOut(a, id) ==
  LET in == {b \in NewBuckets : id \in a.vvNew[b]}
  IN [a EXCEPT !.vvNew = [b \in NewBuckets |-> @[b] \ {id}],
               !.mapInfo[id].nRefCount = @ - Cardinality(in),
               !.nNew = @ - 1]

NewLess(a, id) == [b \in NewBuckets |-> a.vvNew[b] \ {id}]

\* MakeTried takes the entry out of every new bucket, and its count reaches 0.
LEMMA OutOfNew ==
  ASSUME NEW a, ManInv(a, NoId), NEW id \in NewIds(a), NEW o, o = TakenOut(a, id)
  PROVE  /\ EntriesInv(o) /\ AddrInv(o) /\ RandomInv(o) /\ Ids(o) = Ids(a) /\ id \in Ids(a)
         /\ o.vRandom = a.vRandom /\ o.nTried = a.nTried /\ o.nNew = a.nNew - 1
         /\ o.vvNew = NewLess(a, id) /\ o.vvTried = a.vvTried
         /\ o.mapInfo[id].nRefCount = 0 /\ o.mapInfo[id].everGood = a.mapInfo[id].everGood
         /\ o.mapInfo[id].service = a.mapInfo[id].service
         /\ \A i \in Ids(a) : i # id => o.mapInfo[i] = a.mapInfo[i]
<1> DEFINE k == a.mapInfo[id].nRefCount - Cardinality(NewPlaces(a, id))
           c == [a EXCEPT !.mapInfo[id].nRefCount = k]
<1>0. EntriesInv(a) /\ AddrInv(a) /\ RandomInv(a) /\ NewInv(a, NoId)
  BY DEF ManInv
<1>1. id \in Ids(a) /\ id # NoId
  BY <1>0 DEF NewIds, Ids, EntriesInv, NoId
<1>2. k = 0
  <2>1. Cardinality(NewPlaces(a, id)) \in Nat
    BY <1>0, Finite
  <2> QED BY <1>0, <1>1, <2>1 DEF NewInv
<1> HIDE DEF k
<1>3. /\ EntriesInv(c) /\ AddrInv(c) /\ RandomInv(c) /\ Ids(c) = Ids(a)
      /\ c.nIdCount = a.nIdCount /\ c.mapAddr = a.mapAddr /\ c.vRandom = a.vRandom
      /\ c.nTried = a.nTried /\ c.nNew = a.nNew /\ c.vvNew = a.vvNew /\ c.vvTried = a.vvTried
      /\ c.mapInfo[id].nRefCount = k
      /\ c.mapInfo[id].service = a.mapInfo[id].service
      /\ c.mapInfo[id].everGood = a.mapInfo[id].everGood
      /\ \A i \in Ids(a) : i # id => c.mapInfo[i] = a.mapInfo[i]
  BY <1>0, <1>1, <1>2, RefChanged
<1>4. /\ IsMan(o) /\ o.nIdCount = a.nIdCount /\ o.mapInfo = c.mapInfo /\ o.mapAddr = a.mapAddr
      /\ o.vRandom = a.vRandom /\ o.nTried = a.nTried /\ o.nNew = a.nNew - 1
      /\ o.vvNew = NewLess(a, id) /\ o.vvTried = a.vvTried
  BY <1>0 DEF TakenOut, NewLess, NewPlaces, k, EntriesInv, IsMan
<1> HIDE DEF c
<1>5. o.mapInfo \in [Ids(a) -> InfoType]
  BY <1>3, <1>4 DEF EntriesInv
<1>6. \A i \in Ids(c) : /\ o.mapInfo[i].service = c.mapInfo[i].service
                        /\ o.mapInfo[i].nRandomPos = c.mapInfo[i].nRandomPos
  BY <1>4
<1>7. EntriesInv(o) /\ AddrInv(o) /\ RandomInv(o) /\ Ids(o) = Ids(a)
  BY <1>3, <1>4, <1>5, <1>6, Reindexed
<1> QED BY <1>1, <1>2, <1>3, <1>4, <1>7

\* What the new buckets say when one entry is in none of them.
LEMMA NewWithout ==
  ASSUME NEW a, EntriesInv(a), NewInv(a, NoId), NEW id, NEW r, Ids(r) = Ids(a),
         r.vvNew = NewLess(a, id),
         \A i \in Ids(a) : i # id => r.mapInfo[i] = a.mapInfo[i], r.mapInfo[id].nRefCount = 0
  PROVE  NewInv(r, NoId)
<1>1. r.vvNew \in [NewBuckets -> SUBSET Ids(r)]
  BY DEF NewInv, NewLess
<1>2. ASSUME NEW b \in NewBuckets PROVE Cardinality(r.vvNew[b]) <= NEW_BUCKET_SIZE
  <2>1. a.vvNew[b] \in SUBSET Ids(a) /\ Cardinality(a.vvNew[b]) <= NEW_BUCKET_SIZE
    BY DEF NewInv
  <2>2. IsFiniteSet(a.vvNew[b]) /\ Cardinality(a.vvNew[b]) \in Nat
    BY <2>1, Finite
  <2>3. r.vvNew[b] \in SUBSET a.vvNew[b]
    BY DEF NewLess
  <2>4. Cardinality(r.vvNew[b]) \in Nat /\ Cardinality(r.vvNew[b]) <= Cardinality(a.vvNew[b])
    BY <2>2, <2>3, FS_Subset, FS_CardinalityType
  <2> QED BY <2>1, <2>2, <2>4, AddrManAssumption
<1>3. ASSUME NEW i \in Ids(r)
      PROVE  r.mapInfo[i].nRefCount = Cardinality(NewPlaces(r, i)) + (IF i = NoId THEN 1 ELSE 0)
  <2>1. i # NoId
    BY DEF EntriesInv, NoId
  <2>2. CASE i = id
    <3>1. NewPlaces(r, i) = {}
      BY <2>2 DEF NewPlaces, NewLess
    <3>2. Cardinality(NewPlaces(r, i)) = 0
      BY <3>1, FS_EmptySet
    <3> QED BY <2>1, <2>2, <3>2
  <2>3. CASE i # id
    <3>1. NewPlaces(r, i) = NewPlaces(a, i)
      BY <2>3 DEF NewPlaces, NewLess
    <3> QED BY <2>3, <3>1 DEF NewInv
  <2> QED BY <2>2, <2>3
<1> QED BY <1>1, <1>2, <1>3 DEF NewInv

\* fInTried or nRefCount of an entry is set, everything else stays.
SetTried(M, id, k) == [M EXCEPT ![id].fInTried = k]

SetRef(M, id, k) == [M EXCEPT ![id].nRefCount = k]

\* Setting fInTried in mapInfo changes that field of that entry only.
LEMMA TriedChanged ==
  ASSUME NEW S, NEW M \in [S -> InfoType], NEW id \in S, NEW k \in BOOLEAN, NEW m, m = SetTried(M, id, k)
  PROVE  /\ m \in [S -> InfoType] /\ m[id].fInTried = k
         /\ m[id].service = M[id].service /\ m[id].nRandomPos = M[id].nRandomPos
         /\ m[id].nRefCount = M[id].nRefCount /\ m[id].everGood = M[id].everGood
         /\ \A i \in S : i # id => m[i] = M[i]
<1> DEFINE e == [M[id] EXCEPT !.fInTried = k]
<1>1. M[id] \in InfoType
  OBVIOUS
<1>2. e \in InfoType /\ e = Entry(M[id].service, M[id].source, M[id].everGood, M[id].nRefCount, k, M[id].nRandomPos)
  BY <1>1, TriedSet
<1>3. m = [M EXCEPT ![id] = e]
  BY <1>1 DEF SetTried
<1> HIDE DEF e
<1>4. m \in [S -> InfoType] /\ m[id] = e /\ \A i \in S : i # id => m[i] = M[i]
  BY <1>2, <1>3
<1> QED BY <1>2, <1>4 DEF Entry

\* Setting nRefCount in mapInfo changes that field of that entry only.
LEMMA RefsChanged ==
  ASSUME NEW S, NEW M \in [S -> InfoType], NEW id \in S, NEW k \in Int, NEW m, m = SetRef(M, id, k)
  PROVE  /\ m \in [S -> InfoType] /\ m[id].nRefCount = k
         /\ m[id].service = M[id].service /\ m[id].nRandomPos = M[id].nRandomPos
         /\ m[id].fInTried = M[id].fInTried /\ m[id].everGood = M[id].everGood
         /\ \A i \in S : i # id => m[i] = M[i]
<1> DEFINE e == [M[id] EXCEPT !.nRefCount = k]
<1>1. M[id] \in InfoType
  OBVIOUS
<1>2. e \in InfoType /\ e = Entry(M[id].service, M[id].source, M[id].everGood, k, M[id].fInTried, M[id].nRandomPos)
  BY <1>1, RefSet
<1>3. m = [M EXCEPT ![id] = e]
  BY <1>1 DEF SetRef
<1> HIDE DEF e
<1>4. m \in [S -> InfoType] /\ m[id] = e /\ \A i \in S : i # id => m[i] = M[i]
  BY <1>2, <1>3
<1> QED BY <1>2, <1>4 DEF Entry

\* An entry becomes tried: its bucket has room.
MadeTried(a, id, kb) ==
  [TakenOut(a, id) EXCEPT !.vvTried[kb] = Append(@, id), !.nTried = @ + 1,
                          !.mapInfo[id].fInTried = TRUE]

\* MakeTried keeps the invariant when the tried bucket has room.
LEMMA TriedRoom ==
  ASSUME NEW a, ManInv(a, NoId), NEW id \in NewIds(a), a.mapInfo[id].everGood = TRUE,
         NEW kb \in TriedBuckets, TriedBucketOf[a.mapInfo[id].service] = kb,
         Len(a.vvTried[kb]) < TRIED_BUCKET_SIZE,
         NEW r, r = MadeTried(a, id, kb)
  PROVE  ManInv(r, NoId)
<1> DEFINE o == TakenOut(a, id)
           m == SetTried(o.mapInfo, id, TRUE)
<1>0. EntriesInv(a) /\ AddrInv(a) /\ RandomInv(a) /\ CountInv(a) /\ NewInv(a, NoId) /\ RefInv(a, {}) /\ TriedInv(a)
  BY DEF ManInv
<1>2a. r = [o EXCEPT !.vvTried[kb] = Append(@, id), !.nTried = @ + 1, !.mapInfo[id].fInTried = TRUE]
  BY DEF MadeTried
<1> HIDE DEF o
<1>1. /\ EntriesInv(o) /\ AddrInv(o) /\ RandomInv(o) /\ Ids(o) = Ids(a) /\ id \in Ids(a)
      /\ o.vRandom = a.vRandom /\ o.nTried = a.nTried /\ o.nNew = a.nNew - 1
      /\ o.vvNew = NewLess(a, id) /\ o.vvTried = a.vvTried
      /\ o.mapInfo[id].nRefCount = 0 /\ o.mapInfo[id].everGood = a.mapInfo[id].everGood
      /\ o.mapInfo[id].service = a.mapInfo[id].service
      /\ \A i \in Ids(a) : i # id => o.mapInfo[i] = a.mapInfo[i]
  <2>1. o = TakenOut(a, id)
    BY DEF o
  <2> QED BY <2>1, OutOfNew
<1>2. /\ IsMan(r) /\ r.nIdCount = o.nIdCount /\ r.mapInfo = m /\ r.mapAddr = o.mapAddr
      /\ r.vRandom = o.vRandom /\ r.nTried = o.nTried + 1 /\ r.nNew = o.nNew
      /\ r.vvNew = o.vvNew /\ r.vvTried = [o.vvTried EXCEPT ![kb] = Append(@, id)]
  <2>1. IsMan(o)
    BY <1>1 DEF EntriesInv
  <2> QED BY <1>2a, <2>1 DEF IsMan, SetTried
<1>3. /\ m \in [Ids(o) -> InfoType] /\ m[id].fInTried = TRUE
      /\ m[id].service = o.mapInfo[id].service /\ m[id].nRandomPos = o.mapInfo[id].nRandomPos
      /\ m[id].nRefCount = o.mapInfo[id].nRefCount /\ m[id].everGood = o.mapInfo[id].everGood
      /\ \A i \in Ids(o) : i # id => m[i] = o.mapInfo[i]
  <2> DEFINE t == TRUE
  <2>1. id \in Ids(o) /\ o.mapInfo \in [Ids(o) -> InfoType] /\ t \in BOOLEAN
    BY <1>1 DEF EntriesInv
  <2>2. m = SetTried(o.mapInfo, id, t)
    OBVIOUS
  <2> HIDE DEF m, t
  <2>3. /\ m \in [Ids(o) -> InfoType] /\ m[id].fInTried = t
        /\ m[id].service = o.mapInfo[id].service /\ m[id].nRandomPos = o.mapInfo[id].nRandomPos
        /\ m[id].nRefCount = o.mapInfo[id].nRefCount /\ m[id].everGood = o.mapInfo[id].everGood
        /\ \A i \in Ids(o) : i # id => m[i] = o.mapInfo[i]
    BY <2>1, <2>2, TriedChanged
  <2> QED BY <2>3 DEF t
<1> HIDE DEF m
<1>4. EntriesInv(r) /\ AddrInv(r) /\ RandomInv(r) /\ Ids(r) = Ids(a)
  <2>1. \A i \in Ids(o) : /\ r.mapInfo[i].service = o.mapInfo[i].service
                          /\ r.mapInfo[i].nRandomPos = o.mapInfo[i].nRandomPos
    BY <1>2, <1>3
  <2>2. r.mapInfo \in [Ids(o) -> InfoType]
    BY <1>2, <1>3
  <2>3. EntriesInv(r) /\ AddrInv(r) /\ RandomInv(r) /\ Ids(r) = Ids(o)
    BY <1>1, <1>2, <2>1, <2>2, Reindexed
  <2> QED BY <1>1, <2>3
<1>5. /\ \A i \in Ids(a) : i # id => r.mapInfo[i] = a.mapInfo[i]
      /\ r.mapInfo[id].nRefCount = 0 /\ r.mapInfo[id].fInTried /\ r.mapInfo[id].everGood
      /\ r.mapInfo[id].service = a.mapInfo[id].service
  BY <1>1, <1>2, <1>3
<1>6. /\ TriedIds(r) = TriedIds(a) \cup {id} /\ id \notin TriedIds(a) /\ NewIds(r) = NewIds(a) \ {id}
      /\ TriedIds(a) \subseteq Ids(a) /\ NewIds(a) \subseteq Ids(a)
  <2>1. id \notin TriedIds(a)
    BY DEF NewIds
  <2>2. TriedIds(r) = TriedIds(a) \cup {id}
    BY <1>1, <1>4, <1>5 DEF TriedIds, Ids
  <2> QED BY <1>4, <2>1, <2>2 DEF NewIds, TriedIds, Ids
<1>7. CountInv(r)
  <2>1. /\ IsFiniteSet(NewIds(a)) /\ Cardinality(NewIds(a)) \in Nat
        /\ IsFiniteSet(TriedIds(a)) /\ Cardinality(TriedIds(a)) \in Nat
    BY <1>0, Finite
  <2>2a. Cardinality(TriedIds(r)) = Cardinality(TriedIds(a)) + 1
    BY <1>6, <2>1, FS_AddElement
  <2>2b. Cardinality(NewIds(r)) = Cardinality(NewIds(a)) - 1
    BY <1>6, <2>1, FS_RemoveElement
  <2>2. Cardinality(TriedIds(r)) = Cardinality(TriedIds(a)) + 1 /\ Cardinality(NewIds(r)) = Cardinality(NewIds(a)) - 1
    BY <2>2a, <2>2b
  <2>3. /\ a.nTried = Cardinality(TriedIds(a)) /\ a.nNew = Cardinality(NewIds(a))
        /\ Len(a.vRandom) = a.nTried + a.nNew
    BY <1>0 DEF CountInv
  <2>4. r.nTried = a.nTried + 1 /\ r.nNew = a.nNew - 1 /\ r.vRandom = a.vRandom
    BY <1>1, <1>2
  <2>5. Len(r.vRandom) = r.nTried + r.nNew
    BY <2>1, <2>3, <2>4
  <2> QED BY <2>2, <2>3, <2>4, <2>5 DEF CountInv
<1>8. RefInv(r, {})
  BY <1>0, <1>5, <1>6 DEF RefInv
<1>9. NewInv(r, NoId)
  <2>1. r.vvNew = NewLess(a, id)
    BY <1>1, <1>2
  <2> QED BY <1>0, <1>4, <1>5, <2>1, NewWithout
<1>10. /\ \A b \in TriedBuckets : b # kb => TriedOf(r, b) = TriedOf(a, b)
       /\ TriedOf(r, kb) = TriedOf(a, kb) \cup {id} /\ id \notin TriedOf(a, kb)
  BY <1>5, <1>6 DEF TriedOf
<1>11. r.vvTried = Put(a.vvTried, kb, Append(a.vvTried[kb], id))
  BY <1>1, <1>2 DEF Put
<1>12. Lists(a.vvTried[kb], TriedOf(a, kb))
  BY <1>0 DEF TriedInv
<1>13. /\ Lists(Append(a.vvTried[kb], id), TriedOf(r, kb))
       /\ Len(Append(a.vvTried[kb], id)) <= TRIED_BUCKET_SIZE
  BY <1>10, <1>12, ListsMore, AddrManAssumption
<1>15. TriedInv(r)
  <2> DEFINE v == Append(a.vvTried[kb], id)
  <2> HIDE DEF v
  <2>1. r.vvTried = Put(a.vvTried, kb, v) /\ Lists(v, TriedOf(r, kb)) /\ Len(v) <= TRIED_BUCKET_SIZE
    BY <1>11, <1>13 DEF v
  <2> QED BY <1>0, <1>10, <2>1, TriedPut, ZenonT(60)
<1> QED BY <1>4, <1>7, <1>8, <1>9, <1>15 DEF ManInv

\* The entries when old makes place for id.
EvictedInfo(M, old, id) == SetTried(SetRef(SetTried(M, old, FALSE), old, 1), id, TRUE)

Flags(m, old, id) == m[old].fInTried = FALSE /\ m[id].fInTried = TRUE

\* Eviction changes fInTried of two entries and nRefCount of one.
LEMMA EvictedEntries ==
  ASSUME NEW S, NEW M \in [S -> InfoType], NEW id \in S, NEW old \in S, id # old,
         NEW m, m = EvictedInfo(M, old, id)
  PROVE  /\ m \in [S -> InfoType] /\ Flags(m, old, id) /\ m[old].nRefCount = 1
         /\ m[id].nRefCount = M[id].nRefCount /\ m[id].everGood = M[id].everGood
         /\ \A i \in S : m[i].service = M[i].service /\ m[i].nRandomPos = M[i].nRandomPos
         /\ \A i \in S : i # id /\ i # old => m[i] = M[i]
<1> DEFINE t == TRUE
           f == FALSE
           m1 == SetTried(M, old, f)
           m2 == SetRef(m1, old, 1)
<1>0. t \in BOOLEAN /\ f \in BOOLEAN /\ m = SetTried(m2, id, t)
  BY DEF EvictedInfo
<1> HIDE DEF t, f
<1>1. /\ m1 \in [S -> InfoType] /\ m1[old].fInTried = f
      /\ m1[old].service = M[old].service /\ m1[old].nRandomPos = M[old].nRandomPos
      /\ \A i \in S : i # old => m1[i] = M[i]
  BY <1>0, TriedChanged
<1> HIDE DEF m1
<1>2. /\ m2 \in [S -> InfoType] /\ m2[old].nRefCount = 1 /\ m2[old].fInTried = m1[old].fInTried
      /\ m2[old].service = m1[old].service /\ m2[old].nRandomPos = m1[old].nRandomPos
      /\ \A i \in S : i # old => m2[i] = m1[i]
  BY <1>1, RefsChanged
<1> HIDE DEF m2
<1>3. /\ m \in [S -> InfoType] /\ m[id].fInTried = t
      /\ m[id].service = m2[id].service /\ m[id].nRandomPos = m2[id].nRandomPos
      /\ m[id].nRefCount = m2[id].nRefCount /\ m[id].everGood = m2[id].everGood
      /\ \A i \in S : i # id => m[i] = m2[i]
  BY <1>0, <1>2, TriedChanged
<1>4. m[old] = m2[old] /\ m2[id] = m1[id] /\ m1[id] = M[id]
  BY <1>1, <1>2, <1>3
<1>5. m[id].fInTried = TRUE /\ m[old].fInTried = FALSE
  BY <1>1, <1>2, <1>3, <1>4 DEF t, f
<1>6. \A i \in S : i # id /\ i # old => m[i] = M[i]
  BY <1>1, <1>2, <1>3
<1>7. \A i \in S : m[i].service = M[i].service /\ m[i].nRandomPos = M[i].nRandomPos
  BY <1>1, <1>2, <1>3, <1>4, <1>6
<1> QED BY <1>2, <1>3, <1>4, <1>5, <1>6, <1>7 DEF Flags

\* An entry is put into one new bucket more.
NewMore(a, b, id) == Put(a.vvNew, b, a.vvNew[b] \cup {id})

\* Putting an entry into a new bucket with room, and counting it, keeps the new buckets right.
LEMMA NewPut ==
  ASSUME NEW a, EntriesInv(a), NewInv(a, NoId), NEW r, Ids(r) = Ids(a), NEW b \in NewBuckets,
         NEW id \in Ids(a), id \notin a.vvNew[b], Cardinality(a.vvNew[b]) < NEW_BUCKET_SIZE,
         r.vvNew = NewMore(a, b, id),
         r.mapInfo[id].nRefCount = a.mapInfo[id].nRefCount + 1,
         \A i \in Ids(a) : i # id => r.mapInfo[i].nRefCount = a.mapInfo[i].nRefCount
  PROVE  NewInv(r, NoId)
<1>1. /\ r.vvNew \in [NewBuckets -> SUBSET Ids(r)]
      /\ r.vvNew[b] = a.vvNew[b] \cup {id}
      /\ \A c \in NewBuckets : c # b => r.vvNew[c] = a.vvNew[c]
  <2>1. a.vvNew \in [NewBuckets -> SUBSET Ids(r)] /\ id \in Ids(r)
    BY DEF NewInv
  <2>2. a.vvNew[b] \cup {id} \in SUBSET Ids(r)
    BY <2>1
  <2> QED BY <2>1, <2>2 DEF Put, NewMore
<1>2. \A c \in NewBuckets : Cardinality(r.vvNew[c]) <= NEW_BUCKET_SIZE
  <2>1. a.vvNew[b] \in SUBSET Ids(a)
    BY DEF NewInv
  <2>2. IsFiniteSet(a.vvNew[b]) /\ Cardinality(a.vvNew[b]) \in Nat
    BY <2>1, Finite
  <2>3. Cardinality(r.vvNew[b]) = Cardinality(a.vvNew[b]) + 1
    BY <1>1, <2>2, FS_AddElement, ZenonT(60)
  <2>4. Cardinality(r.vvNew[b]) <= NEW_BUCKET_SIZE
    BY <2>2, <2>3, AddrManAssumption
  <2> QED BY <1>1, <2>4 DEF NewInv
<1>3. ASSUME NEW i \in Ids(r)
      PROVE  r.mapInfo[i].nRefCount = Cardinality(NewPlaces(r, i)) + (IF i = NoId THEN 1 ELSE 0)
  <2>0. /\ a.mapInfo[i].nRefCount = Cardinality(NewPlaces(a, i)) + (IF i = NoId THEN 1 ELSE 0)
        /\ IsFiniteSet(NewPlaces(a, i)) /\ Cardinality(NewPlaces(a, i)) \in Nat /\ i # NoId
    BY Finite DEF NewInv, EntriesInv, NoId
  <2>1. CASE i = id
    <3>1. NewPlaces(r, i) = NewPlaces(a, i) \cup {b} /\ b \notin NewPlaces(a, i)
      BY <1>1, <2>1 DEF NewPlaces
    <3>2. Cardinality(NewPlaces(r, i)) = Cardinality(NewPlaces(a, i)) + 1
      BY <2>0, <3>1, FS_AddElement
    <3> QED BY <2>0, <2>1, <3>2
  <2>2. CASE i # id
    <3>1. NewPlaces(r, i) = NewPlaces(a, i)
      BY <1>1, <2>2 DEF NewPlaces
    <3> QED BY <2>0, <2>2, <3>1
  <2> QED BY <2>1, <2>2
<1> QED BY <1>1, <1>2, <1>3 DEF NewInv

\* An entry becomes tried in the place of another one, which gets back into a new bucket.
Evicted(o, id, kb, old, w, to) ==
  [o EXCEPT !.mapInfo[old].fInTried = FALSE, !.mapInfo[old].nRefCount = 1,
            !.vvNew[to] = @ \cup {old}, !.nNew = @ + 1,
            !.vvTried[kb] = w, !.mapInfo[id].fInTried = TRUE]

\* Its members.
LEMMA EvictedFields ==
  ASSUME NEW o, IsMan(o), NEW id, NEW kb, NEW old, NEW w, NEW to, NEW r, r = Evicted(o, id, kb, old, w, to)
  PROVE  /\ IsMan(r) /\ r.nIdCount = o.nIdCount /\ r.mapInfo = EvictedInfo(o.mapInfo, old, id)
         /\ r.mapAddr = o.mapAddr
         /\ r.vRandom = o.vRandom /\ r.nTried = o.nTried /\ r.nNew = o.nNew + 1
         /\ r.vvNew = NewMore(o, to, old) /\ r.vvTried = Put(o.vvTried, kb, w)
  BY DEF IsMan, Evicted, EvictedInfo, SetTried, SetRef, Put, NewMore

\* Eviction keeps the invariant: the entry given up finds room in its own new bucket, or in
\* the one that the entry taking its place has just left.
LEMMA EvictKeeps ==
  ASSUME NEW a, ManInv(a, NoId), NEW id \in NewIds(a), a.mapInfo[id].everGood = TRUE,
         NEW kb \in TriedBuckets, TriedBucketOf[a.mapInfo[id].service] = kb,
         NEW old \in TriedOf(a, kb), NEW w, Lists(w, Exchanged(TriedOf(a, kb), old, id)),
         Len(w) <= TRIED_BUCKET_SIZE,
         NEW o, o = TakenOut(a, id), NEW to \in NewBuckets, Cardinality(o.vvNew[to]) < NEW_BUCKET_SIZE,
         NEW r, r = Evicted(o, id, kb, old, w, to)
  PROVE  ManInv(r, NoId)
<1> DEFINE m == EvictedInfo(o.mapInfo, old, id)
<1>0. EntriesInv(a) /\ AddrInv(a) /\ RandomInv(a) /\ CountInv(a) /\ NewInv(a, NoId) /\ RefInv(a, {}) /\ TriedInv(a)
  BY DEF ManInv
<1>1. /\ EntriesInv(o) /\ AddrInv(o) /\ RandomInv(o) /\ Ids(o) = Ids(a) /\ id \in Ids(a)
      /\ o.vRandom = a.vRandom /\ o.nTried = a.nTried /\ o.nNew = a.nNew - 1
      /\ o.vvNew = NewLess(a, id) /\ o.vvTried = a.vvTried
      /\ o.mapInfo[id].nRefCount = 0 /\ o.mapInfo[id].everGood = a.mapInfo[id].everGood
      /\ o.mapInfo[id].service = a.mapInfo[id].service
      /\ \A i \in Ids(a) : i # id => o.mapInfo[i] = a.mapInfo[i]
  BY OutOfNew
<1>2. id \notin TriedIds(a) /\ id \notin TriedOf(a, kb)
  BY DEF NewIds, TriedOf
<1>5. /\ IsMan(r) /\ r.nIdCount = o.nIdCount /\ r.mapInfo = m /\ r.mapAddr = o.mapAddr
      /\ r.vRandom = o.vRandom /\ r.nTried = o.nTried /\ r.nNew = o.nNew + 1
      /\ r.vvNew = NewMore(o, to, old) /\ r.vvTried = Put(o.vvTried, kb, w)
  <2>1. IsMan(o)
    BY <1>1 DEF EntriesInv
  <2> QED BY <2>1, EvictedFields
<1>6. old \in TriedIds(a) /\ old \in Ids(a) /\ old # id /\ o.mapInfo[old] = a.mapInfo[old]
  <2>1. old \in TriedIds(a) /\ old \in Ids(a)
    BY DEF TriedOf, TriedIds, Ids
  <2> QED BY <1>1, <1>2, <2>1
<1>7. /\ m \in [Ids(o) -> InfoType] /\ Flags(m, old, id) /\ m[old].nRefCount = 1
      /\ m[id].nRefCount = o.mapInfo[id].nRefCount
      /\ m[id].everGood = o.mapInfo[id].everGood
      /\ \A i \in Ids(o) : m[i].service = o.mapInfo[i].service /\ m[i].nRandomPos = o.mapInfo[i].nRandomPos
      /\ \A i \in Ids(o) : i # id /\ i # old => m[i] = o.mapInfo[i]
  <2>1. id \in Ids(o) /\ old \in Ids(o) /\ o.mapInfo \in [Ids(o) -> InfoType]
    BY <1>1, <1>6 DEF EntriesInv
  <2> HIDE DEF m
  <2>2. m = EvictedInfo(o.mapInfo, old, id)
    BY DEF m
  <2> QED BY <1>6, <2>1, <2>2, EvictedEntries
<1> HIDE DEF m
<1>8. EntriesInv(r) /\ AddrInv(r) /\ RandomInv(r) /\ Ids(r) = Ids(a)
  <2>1. \A i \in Ids(o) : /\ r.mapInfo[i].service = o.mapInfo[i].service
                          /\ r.mapInfo[i].nRandomPos = o.mapInfo[i].nRandomPos
    BY <1>5, <1>7
  <2>2. r.mapInfo \in [Ids(o) -> InfoType]
    BY <1>5, <1>7
  <2>3. EntriesInv(r) /\ AddrInv(r) /\ RandomInv(r) /\ Ids(r) = Ids(o)
    BY <1>1, <1>5, <2>1, <2>2, Reindexed
  <2> QED BY <1>1, <2>3
<1>9. /\ \A i \in Ids(a) : i # id /\ i # old => r.mapInfo[i] = a.mapInfo[i]
      /\ r.mapInfo[id].nRefCount = 0 /\ r.mapInfo[id].fInTried = TRUE /\ r.mapInfo[id].everGood = TRUE
      /\ r.mapInfo[old].nRefCount = 1 /\ r.mapInfo[old].fInTried = FALSE
      /\ r.mapInfo[id].service = a.mapInfo[id].service
  BY <1>1, <1>5, <1>7 DEF Flags
<1>10. /\ TriedIds(r) = (TriedIds(a) \ {old}) \cup {id} /\ NewIds(r) = (NewIds(a) \ {id}) \cup {old}
       /\ TriedIds(a) \subseteq Ids(a) /\ NewIds(a) \subseteq Ids(a) /\ old \notin NewIds(a)
  <2>1. TriedIds(r) = (TriedIds(a) \ {old}) \cup {id}
    BY <1>1, <1>6, <1>8, <1>9 DEF TriedIds, Ids
  <2> QED BY <1>1, <1>2, <1>6, <1>8, <2>1 DEF NewIds, TriedIds, Ids
<1>11. CountInv(r)
  <2>1. /\ IsFiniteSet(NewIds(a)) /\ Cardinality(NewIds(a)) \in Nat
        /\ IsFiniteSet(TriedIds(a)) /\ Cardinality(TriedIds(a)) \in Nat
    BY <1>0, Finite
  <2>2. IsFiniteSet(TriedIds(a) \ {old}) /\ Cardinality(TriedIds(a) \ {old}) = Cardinality(TriedIds(a)) - 1
    BY <1>6, <2>1, FS_RemoveElement
  <2>3. IsFiniteSet(NewIds(a) \ {id}) /\ Cardinality(NewIds(a) \ {id}) = Cardinality(NewIds(a)) - 1
    BY <2>1, FS_RemoveElement
  <2>4. Cardinality(TriedIds(r)) = Cardinality(TriedIds(a) \ {old}) + 1
    BY <1>2, <1>10, <2>2, FS_AddElement
  <2>5. Cardinality(NewIds(r)) = Cardinality(NewIds(a) \ {id}) + 1
    BY <1>10, <2>3, FS_AddElement
  <2>6. /\ a.nTried = Cardinality(TriedIds(a)) /\ a.nNew = Cardinality(NewIds(a))
        /\ Len(a.vRandom) = a.nTried + a.nNew
    BY <1>0 DEF CountInv
  <2>7. r.nTried = a.nTried /\ r.nNew = a.nNew /\ r.vRandom = a.vRandom
    BY <1>1, <1>5, <2>1, <2>6
  <2>8. Cardinality(TriedIds(r)) = Cardinality(TriedIds(a)) /\ Cardinality(NewIds(r)) = Cardinality(NewIds(a))
    BY <2>1, <2>2, <2>3, <2>4, <2>5
  <2> QED BY <2>6, <2>7, <2>8 DEF CountInv
<1>12. RefInv(r, {})
  <2>1. ASSUME NEW i \in TriedIds(r) PROVE r.mapInfo[i].everGood /\ r.mapInfo[i].nRefCount = 0
    <3>1. CASE i = id
      BY <1>9, <3>1
    <3>2. CASE i # id
      <4>1. i \in TriedIds(a) /\ r.mapInfo[i] = a.mapInfo[i]
        BY <1>9, <1>10, <3>2
      <4> QED BY <1>0, <4>1 DEF RefInv
    <3> QED BY <3>1, <3>2
  <2>2. ASSUME NEW i \in NewIds(r) PROVE r.mapInfo[i].nRefCount \in 1..NEW_BUCKETS_PER_ADDRESS
    <3>1. CASE i = old
      BY <1>9, <3>1, AddrManAssumption
    <3>2. CASE i # old
      <4>1. i \in NewIds(a) /\ r.mapInfo[i] = a.mapInfo[i]
        BY <1>9, <1>10, <3>2
      <4> QED BY <1>0, <4>1 DEF RefInv
    <3> QED BY <3>1, <3>2
  <2> QED BY <2>1, <2>2 DEF RefInv
<1>13. NewInv(o, NoId)
  BY <1>0, <1>1, NewWithout
<1>15. o.mapInfo[old].nRefCount = 0 /\ old \notin o.vvNew[to]
  <2>1. a.mapInfo[old].nRefCount = 0 /\ old # NoId
    BY <1>0, <1>6 DEF RefInv, EntriesInv, NoId
  <2>2. IsFiniteSet(NewPlaces(a, old)) /\ Cardinality(NewPlaces(a, old)) \in Nat
    BY <1>0, Finite
  <2>3. Cardinality(NewPlaces(a, old)) = 0
    BY <1>0, <1>6, <2>1, <2>2 DEF NewInv
  <2>4. NewPlaces(a, old) = {}
    BY <2>2, <2>3, FS_EmptySet
  <2>5. old \notin a.vvNew[to]
    BY <2>4 DEF NewPlaces
  <2> QED BY <1>1, <1>6, <2>1, <2>5 DEF NewLess
<1>16. NewInv(r, NoId)
  <2>1. /\ r.mapInfo[old].nRefCount = o.mapInfo[old].nRefCount + 1 /\ old \in Ids(o) /\ Ids(r) = Ids(o)
        /\ \A i \in Ids(o) : i # old => r.mapInfo[i].nRefCount = o.mapInfo[i].nRefCount
    BY <1>1, <1>5, <1>6, <1>7, <1>8, <1>9, <1>15
  <2> QED BY <1>1, <1>5, <1>13, <1>15, <2>1, NewPut
<1>17. /\ \A b \in TriedBuckets : b # kb => TriedOf(r, b) = TriedOf(a, b)
       /\ TriedOf(r, kb) = Exchanged(TriedOf(a, kb), old, id)
  <2>1. TriedBucketOf[a.mapInfo[old].service] = kb
    BY DEF TriedOf
  <2> QED BY <1>6, <1>9, <1>10, <2>1 DEF TriedOf, Exchanged
<1>18. TriedInv(r)
  <2>1. r.vvTried = Put(a.vvTried, kb, w) /\ Lists(w, TriedOf(r, kb))
    BY <1>1, <1>5, <1>17
  <2> QED BY <1>0, <1>17, <2>1, TriedPut
<1> QED BY <1>8, <1>11, <1>12, <1>16, <1>18 DEF ManInv

\* MakeTried keeps the invariant when the tried bucket is full.
LEMMA TriedEvict ==
  ASSUME NEW a, ManInv(a, NoId), NEW id \in NewIds(a), a.mapInfo[id].everGood = TRUE,
         NEW kb \in TriedBuckets, TriedBucketOf[a.mapInfo[id].service] = kb,
         NEW nOrigin \in NewBuckets, id \in a.vvNew[nOrigin],
         NEW f \in Bijection(DOMAIN a.vvTried[kb], DOMAIN a.vvTried[kb]), NEW p \in DOMAIN a.vvTried[kb],
         NEW u, u = Reordered(a.vvTried[kb], f),
         NEW r, r = Evict(TakenOut(a, id), id, nOrigin, kb, u, p)
  PROVE  ManInv(r, NoId)
<1> DEFINE o == TakenOut(a, id)
           old == u[p]
           w == Put(u, p, id)
           ub == NewBucketOf[<<o.mapInfo[old].service, o.mapInfo[old].source>>]
           to == IF Cardinality(o.vvNew[ub]) < NEW_BUCKET_SIZE THEN ub ELSE nOrigin
<1>0. EntriesInv(a) /\ NewInv(a, NoId) /\ TriedInv(a)
  BY DEF ManInv
<1>1. r = Evicted(o, id, kb, old, w, to)
  BY DEF Evict, Evicted, Put
<1>2. id \notin TriedIds(a) /\ id \notin TriedOf(a, kb)
  BY DEF NewIds, TriedOf
<1>3. /\ Lists(w, Exchanged(TriedOf(a, kb), old, id)) /\ old \in TriedOf(a, kb)
      /\ Len(w) <= TRIED_BUCKET_SIZE
  <2>1. Lists(a.vvTried[kb], TriedOf(a, kb)) /\ Len(a.vvTried[kb]) <= TRIED_BUCKET_SIZE
    BY <1>0 DEF TriedInv
  <2> DEFINE v == a.vvTried[kb]
             S == TriedOf(a, kb)
  <2>2. Lists(v, S) /\ f \in Bijection(DOMAIN v, DOMAIN v) /\ p \in DOMAIN v /\ id \notin S
        /\ u = Reordered(v, f)
    BY <1>2, <2>1
  <2> HIDE DEF v, S
  <2>3. /\ Lists(Put(u, p, id), Exchanged(S, u[p], id)) /\ u[p] \in S
        /\ Len(Put(u, p, id)) = Len(v)
    BY <2>2, ListsOther
  <2> QED BY <2>1, <2>3 DEF v, S
<1>4. /\ o.vvNew = NewLess(a, id)
      /\ \A i \in Ids(a) : i # id => o.mapInfo[i] = a.mapInfo[i]
  <2>1. o = TakenOut(a, id)
    OBVIOUS
  <2> HIDE DEF o
  <2> QED BY <2>1, OutOfNew
<1> HIDE DEF o, old, w
<1>5. old \in Ids(a) /\ o.mapInfo[old] = a.mapInfo[old]
  <2>1. old \in TriedIds(a) /\ old \in Ids(a)
    BY <1>3 DEF TriedOf, TriedIds, Ids
  <2> QED BY <1>2, <1>4, <2>1
<1>6. ub \in NewBuckets
  <2>1. a.mapInfo[old].service \in Service /\ a.mapInfo[old].source \in Source
    BY <1>0, <1>5 DEF EntriesInv, InfoType
  <2> QED BY <1>5, <2>1, AddrManAssumption
<1>7. Cardinality(o.vvNew[nOrigin]) < NEW_BUCKET_SIZE
  <2>1. a.vvNew[nOrigin] \in SUBSET Ids(a) /\ Cardinality(a.vvNew[nOrigin]) <= NEW_BUCKET_SIZE
    BY <1>0 DEF NewInv
  <2>2. IsFiniteSet(a.vvNew[nOrigin]) /\ Cardinality(a.vvNew[nOrigin]) \in Nat
    BY <1>0, <2>1, Finite
  <2>3. Cardinality(a.vvNew[nOrigin] \ {id}) = Cardinality(a.vvNew[nOrigin]) - 1
    BY <2>2, FS_RemoveElement
  <2>4. o.vvNew[nOrigin] = a.vvNew[nOrigin] \ {id}
    BY <1>4 DEF NewLess
  <2> QED BY <2>1, <2>2, <2>3, <2>4, AddrManAssumption
<1>8. to \in NewBuckets /\ Cardinality(o.vvNew[to]) < NEW_BUCKET_SIZE
  BY <1>6, <1>7
<1> HIDE DEF to
<1>9. o = TakenOut(a, id)
  BY DEF o
<1> QED BY <1>1, <1>3, <1>8, <1>9, EvictKeeps

\* MakeTried keeps the invariant.
LEMMA MakeTriedKeeps ==
  ASSUME NEW a, ManInv(a, NoId), NEW id \in NewIds(a), a.mapInfo[id].everGood = TRUE,
         NEW nOrigin \in NewBuckets, id \in a.vvNew[nOrigin], NEW r \in MakeTried(a, id, nOrigin)
  PROVE  ManInv(r, NoId)
<1> DEFINE kb == TriedBucketOf[a.mapInfo[id].service]
<1>1. kb \in TriedBuckets
  <2>1. id \in Ids(a) /\ EntriesInv(a)
    BY DEF NewIds, Ids, ManInv
  <2>2. a.mapInfo[id].service \in Service
    BY <2>1 DEF EntriesInv, InfoType
  <2> QED BY <2>2, AddrManAssumption
<1>2. CASE Len(a.vvTried[kb]) < TRIED_BUCKET_SIZE
  <2>1. r = MadeTried(a, id, kb)
    BY <1>2 DEF MakeTried, MadeTried, TakenOut
  <2> HIDE DEF kb
  <2>2. TriedBucketOf[a.mapInfo[id].service] = kb
    BY DEF kb
  <2> QED BY <1>1, <1>2, <2>1, <2>2, TriedRoom
<1>3. CASE ~(Len(a.vvTried[kb]) < TRIED_BUCKET_SIZE)
  <2>1. PICK sel \in SelectTried(a.vvTried[kb]) :
          r = Evict(TakenOut(a, id), id, nOrigin, kb, sel[1], sel[2])
    BY <1>3 DEF MakeTried, TakenOut
  <2> DEFINE v == a.vvTried[kb]
  <2>2. PICK f \in Bijection(DOMAIN v, DOMAIN v), p \in DOMAIN v : sel = <<Reordered(v, f), p>>
    <3>1. sel \in SelectTried(v)
      BY <2>1
    <3> HIDE DEF v
    <3>2. \E f \in Bijection(DOMAIN v, DOMAIN v), p \in DOMAIN v :
            sel = <<[i \in DOMAIN v |-> v[f[i]]], p>>
      BY SMTT(30), <3>1 DEF SelectTried
    <3> QED BY <3>2 DEF Reordered
  <2>3. r = Evict(TakenOut(a, id), id, nOrigin, kb, Reordered(v, f), p)
    BY <2>1, <2>2
  <2>4. TriedBucketOf[a.mapInfo[id].service] = kb
    OBVIOUS
  <2>5. f \in Bijection(DOMAIN a.vvTried[kb], DOMAIN a.vvTried[kb]) /\ p \in DOMAIN a.vvTried[kb]
        /\ r = Evict(TakenOut(a, id), id, nOrigin, kb, Reordered(a.vvTried[kb], f), p)
    BY <2>2, <2>3
  <2> HIDE DEF kb
  <2> QED BY <1>1, <2>4, <2>5, TriedEvict
<1> QED BY <1>2, <1>3

\* everGood of an entry is set.
SetGood(a, id) == [a EXCEPT !.mapInfo[id].everGood = TRUE]

\* Setting everGood keeps the invariant.
LEMMA GoodEntry ==
  ASSUME NEW a, ManInv(a, NoId), NEW id \in Ids(a), NEW r, r = SetGood(a, id)
  PROVE  /\ ManInv(r, NoId) /\ NewIds(r) = NewIds(a) /\ r.vvNew = a.vvNew
         /\ r.mapInfo[id].everGood = TRUE
<1> DEFINE t == TRUE
           e == [a.mapInfo[id] EXCEPT !.everGood = t]
           m == [a.mapInfo EXCEPT ![id] = e]
<1>0. EntriesInv(a) /\ AddrInv(a) /\ RandomInv(a) /\ CountInv(a) /\ NewInv(a, NoId) /\ RefInv(a, {}) /\ TriedInv(a)
  BY DEF ManInv
<1>1. /\ IsMan(r) /\ r.nIdCount = a.nIdCount /\ r.mapInfo = m /\ r.mapAddr = a.mapAddr
      /\ r.vRandom = a.vRandom /\ r.nTried = a.nTried /\ r.nNew = a.nNew
      /\ r.vvNew = a.vvNew /\ r.vvTried = a.vvTried
  BY <1>0 DEF SetGood, EntriesInv, IsMan
<1>2. a.mapInfo \in [Ids(a) -> InfoType] /\ a.mapInfo[id] \in InfoType /\ t \in BOOLEAN
  BY <1>0 DEF EntriesInv
<1> HIDE DEF t
<1>3. /\ e \in InfoType
      /\ e = Entry(a.mapInfo[id].service, a.mapInfo[id].source, t, a.mapInfo[id].nRefCount,
                   a.mapInfo[id].fInTried, a.mapInfo[id].nRandomPos)
  BY <1>2, GoodSet
<1> HIDE DEF e
<1>4. m \in [Ids(a) -> InfoType] /\ m[id] = e /\ \A i \in Ids(a) : i # id => m[i] = a.mapInfo[i]
  BY <1>2, <1>3
<1> HIDE DEF m
<1>5. \A i \in Ids(a) : /\ r.mapInfo[i].service = a.mapInfo[i].service
                        /\ r.mapInfo[i].nRandomPos = a.mapInfo[i].nRandomPos
                        /\ r.mapInfo[i].nRefCount = a.mapInfo[i].nRefCount
                        /\ r.mapInfo[i].fInTried = a.mapInfo[i].fInTried
                        /\ i # id => r.mapInfo[i].everGood = a.mapInfo[i].everGood
  BY <1>1, <1>3, <1>4 DEF Entry
<1>6. r.mapInfo[id].everGood = TRUE
  BY <1>1, <1>3, <1>4 DEF Entry, t
<1>7. EntriesInv(r) /\ AddrInv(r) /\ RandomInv(r) /\ Ids(r) = Ids(a)
  <2>1. r.mapInfo \in [Ids(a) -> InfoType]
    BY <1>1, <1>4
  <2> QED BY <1>0, <1>1, <1>5, <2>1, Reindexed
<1>8. TriedIds(r) = TriedIds(a) /\ NewIds(r) = NewIds(a) /\ TriedIds(a) \subseteq Ids(a) /\ NewIds(a) \subseteq Ids(a)
  <2>1. TriedIds(r) = TriedIds(a)
    BY <1>5, <1>7 DEF TriedIds, Ids
  <2> QED BY <1>7, <2>1 DEF NewIds, TriedIds, Ids
<1>9. CountInv(r)
  BY <1>0, <1>1, <1>8 DEF CountInv
<1>10. RefInv(r, {})
  <2>1. ASSUME NEW i \in TriedIds(r) PROVE r.mapInfo[i].everGood /\ r.mapInfo[i].nRefCount = 0
    <3>1. CASE i = id
      BY <1>0, <1>5, <1>6, <1>8, <3>1 DEF RefInv
    <3>2. CASE i # id
      BY <1>0, <1>5, <1>8, <3>2 DEF RefInv
    <3> QED BY <3>1, <3>2
  <2>2. \A i \in NewIds(r) : r.mapInfo[i].nRefCount \in 1..NEW_BUCKETS_PER_ADDRESS
    BY <1>0, <1>5, <1>8 DEF RefInv
  <2> QED BY <2>1, <2>2 DEF RefInv
<1>11. NewInv(r, NoId)
  <2>1. \A i : NewPlaces(r, i) = NewPlaces(a, i)
    BY <1>1 DEF NewPlaces
  <2> QED BY <1>0, <1>1, <1>5, <1>7, <2>1 DEF NewInv
<1>12. TriedInv(r)
  <2>1. \A i \in TriedIds(a) : r.mapInfo[i].service = a.mapInfo[i].service
    BY <1>5, <1>8
  <2> QED BY <1>0, <1>1, <1>8, <2>1, TriedSame
<1> QED BY <1>1, <1>6, <1>7, <1>8, <1>9, <1>10, <1>11, <1>12 DEF ManInv

\* Good keeps the invariant.
LEMMA GoodKeeps ==
  ASSUME NEW a, ManInv(a, NoId), NEW s \in Service, NEW r \in Good_(a, s)
  PROVE  ManInv(r, NoId)
<1> DEFINE id == Find(a, s)
           good == SetGood(a, id)
           origins == {b \in NewBuckets : id \in a.vvNew[b]}
<1>1. CASE r = a
  BY <1>1
<1>2. CASE r # a
  <2>1. Found(a, s) /\ (r = good \/ (~a.mapInfo[id].fInTried /\ r \in UNION {MakeTried(good, id, b) : b \in origins}))
    BY <1>2 DEF Good_, SetGood
  <2>2. id \in Ids(a)
    BY <2>1 DEF Found, Find, ManInv, AddrInv
  <2> HIDE DEF id
  <2>3. /\ ManInv(good, NoId) /\ NewIds(good) = NewIds(a) /\ good.vvNew = a.vvNew
        /\ good.mapInfo[id].everGood = TRUE
    BY <2>2, GoodEntry
  <2> HIDE DEF good
  <2>4. CASE r # good
    <3>1. PICK b \in NewBuckets : id \in a.vvNew[b] /\ r \in MakeTried(good, id, b)
      BY <2>1, <2>4
    <3>2. id \in NewIds(good) /\ id \in good.vvNew[b]
      BY <2>1, <2>2, <2>3, <2>4, <3>1 DEF NewIds, TriedIds, Ids
    <3> QED BY <2>3, <3>1, <3>2, MakeTriedKeeps
  <2> QED BY <2>3, <2>4
<1> QED BY <1>1, <1>2

\* SwapRandom keeps the invariant.
LEMMA SwapKeeps ==
  ASSUME NEW a, ManInv(a, NoId), NEW p1 \in 1..Len(a.vRandom), NEW p2 \in 1..Len(a.vRandom),
         NEW r, r = SwapRandom(a, p1, p2)
  PROVE  ManInv(r, NoId) /\ Len(r.vRandom) = Len(a.vRandom) /\ Ids(r) = Ids(a) /\ r.nIdCount = a.nIdCount
<1>0. EntriesInv(a) /\ AddrInv(a) /\ RandomInv(a) /\ CountInv(a) /\ NewInv(a, NoId) /\ RefInv(a, {}) /\ TriedInv(a)
  BY DEF ManInv
<1>1. /\ EntriesInv(r) /\ RandomInv(r) /\ Ids(r) = Ids(a) /\ r.nIdCount = a.nIdCount
      /\ r.mapAddr = a.mapAddr /\ r.nTried = a.nTried /\ r.nNew = a.nNew
      /\ r.vvNew = a.vvNew /\ r.vvTried = a.vvTried /\ Len(r.vRandom) = Len(a.vRandom)
      /\ \A i \in Ids(a) : SameEntry(r, a, i)
  BY <1>0, Swapped
<1>2. \A i \in Ids(a) : /\ r.mapInfo[i].service = a.mapInfo[i].service
                        /\ r.mapInfo[i].nRefCount = a.mapInfo[i].nRefCount
                        /\ r.mapInfo[i].fInTried = a.mapInfo[i].fInTried
                        /\ r.mapInfo[i].everGood = a.mapInfo[i].everGood
  BY <1>1 DEF SameEntry
<1>3. TriedIds(r) = TriedIds(a) /\ NewIds(r) = NewIds(a) /\ TriedIds(a) \subseteq Ids(a) /\ NewIds(a) \subseteq Ids(a)
  <2>1. TriedIds(r) = TriedIds(a)
    BY <1>1, <1>2 DEF TriedIds, Ids
  <2> QED BY <1>1, <2>1 DEF NewIds, TriedIds, Ids
<1>4. AddrInv(r)
  <2>1. \A ip \in DOMAIN a.mapAddr : a.mapAddr[ip] \in Ids(a)
    BY <1>0 DEF AddrInv
  <2> QED BY <1>0, <1>1, <1>2, <2>1 DEF AddrInv
<1>5. CountInv(r)
  BY <1>0, <1>1, <1>3 DEF CountInv
<1>6. RefInv(r, {})
  BY <1>0, <1>2, <1>3 DEF RefInv
<1>7. NewInv(r, NoId)
  <2>1. \A i : NewPlaces(r, i) = NewPlaces(a, i)
    BY <1>1 DEF NewPlaces
  <2> QED BY <1>0, <1>1, <1>2, <2>1 DEF NewInv
<1>8. TriedInv(r)
  <2>1. \A i \in TriedIds(a) : r.mapInfo[i].service = a.mapInfo[i].service
    BY <1>2, <1>3
  <2> QED BY <1>0, <1>1, <1>3, <2>1, TriedSame
<1> QED BY <1>1, <1>4, <1>5, <1>6, <1>7, <1>8 DEF ManInv

\* The objects are the elements of a set, so that functions of them exist.
ManType ==
  [nIdCount : Nat, mapInfo : UNION {[S -> InfoType] : S \in SUBSET Nat},
   mapAddr : UNION {[S -> Nat] : S \in SUBSET Ip}, vRandom : Seq(Nat), nTried : Int, nNew : Int,
   vvNew : [NewBuckets -> SUBSET Nat], vvTried : [TriedBuckets -> Seq(Nat)]]

\* An object that satisfies the parts of the invariant is a member of that set.
LEMMA InManType ==
  ASSUME NEW a, EntriesInv(a), AddrInv(a), RandomInv(a), NewInv(a, NoId), TriedInv(a),
         a.nTried \in Int, a.nNew \in Int
  PROVE  a \in ManType
<1>1. a.nIdCount \in Nat /\ Ids(a) \in SUBSET Nat /\ a.mapInfo \in [Ids(a) -> InfoType]
  BY DEF EntriesInv
<1>2. a.mapInfo \in UNION {[S -> InfoType] : S \in SUBSET Nat}
  BY <1>1
<1>3. DOMAIN a.mapAddr \in SUBSET Ip
  <2> SUFFICES ASSUME NEW ip \in DOMAIN a.mapAddr PROVE ip \in Ip
    OBVIOUS
  <2>1. a.mapAddr[ip] \in Ids(a) /\ IpOf[a.mapInfo[a.mapAddr[ip]].service] = ip
    BY DEF AddrInv
  <2>2. a.mapInfo[a.mapAddr[ip]].service \in Service
    BY <1>1, <2>1 DEF InfoType
  <2> QED BY <2>1, <2>2, AddrManAssumption
<1>4. a.mapAddr \in [DOMAIN a.mapAddr -> Nat]
  <2>1. a.mapAddr \in [DOMAIN a.mapAddr -> Ids(a)]
    BY DEF AddrInv
  <2> QED BY <1>1, <2>1
<1>5. a.mapAddr \in UNION {[S -> Nat] : S \in SUBSET Ip}
  BY <1>3, <1>4
<1>6. a.vRandom \in Seq(Nat)
  BY <1>1 DEF RandomInv
<1>7. a.vvNew \in [NewBuckets -> SUBSET Nat]
  BY <1>1 DEF NewInv
<1>8. a.vvTried \in [TriedBuckets -> Seq(Nat)]
  <2>1. ASSUME NEW b \in TriedBuckets PROVE a.vvTried[b] \in Seq(Nat)
    <3>1. a.vvTried[b] \in Seq(TriedOf(a, b))
      BY DEF TriedInv, Lists
    <3>2. TriedOf(a, b) \subseteq Nat
      BY <1>1 DEF TriedOf, TriedIds, Ids
    <3> QED BY <3>1, <3>2
  <2>2. a.vvTried = [b \in TriedBuckets |-> a.vvTried[b]]
    BY DEF TriedInv
  <2> QED BY <2>1, <2>2
<1>9. IsMan(a)
  BY DEF EntriesInv
<1> QED BY <1>1, <1>2, <1>5, <1>6, <1>7, <1>8, <1>9 DEF ManType, IsMan

\* So is one that satisfies the invariant.
LEMMA ManInvType ==
  ASSUME NEW a, ManInv(a, NoId)
  PROVE  a \in ManType
<1>1. EntriesInv(a) /\ AddrInv(a) /\ RandomInv(a) /\ CountInv(a) /\ NewInv(a, NoId) /\ TriedInv(a)
  BY DEF ManInv
<1>2. a.nTried \in Int /\ a.nNew \in Int
  BY <1>1, Finite DEF CountInv
<1> QED BY <1>1, <1>2, InManType

\* GetAddr keeps the invariant.
LEMMA GetAddrKeeps ==
  ASSUME NEW a, ManInv(a, NoId), NEW k \in Nat, k <= Len(a.vRandom),
         NEW pos, \A n \in 1..k : pos[n] \in 1..Len(a.vRandom)
  PROVE  ManInv(GetAddr_(a, k, pos), NoId)
<1> DEFINE size == Len(a.vRandom)
           T == {r \in ManType : ManInv(r, NoId) /\ Len(r.vRandom) = size}
           F == [x \in T \X (1..k) |-> SwapRandom(x[1], x[2], pos[x[2]])]
           after == CHOOSE g : g = [n \in 0..k |-> IF n = 0 THEN a ELSE SwapRandom(g[n - 1], n, pos[n])]
<1>0. size \in Nat
  BY DEF ManInv, RandomInv
<1>1. a \in T
  BY ManInvType
<1>2. ASSUME NEW x \in T, NEW n \in 1..k PROVE SwapRandom(x, n, pos[n]) \in T
  <2>1. ManInv(x, NoId) /\ Len(x.vRandom) = size
    OBVIOUS
  <2>2. n \in 1..Len(x.vRandom) /\ pos[n] \in 1..Len(x.vRandom)
    BY <1>0, <2>1
  <2> DEFINE r == SwapRandom(x, n, pos[n])
  <2>3. ManInv(r, NoId) /\ Len(r.vRandom) = Len(x.vRandom)
    BY <2>1, <2>2, SwapKeeps
  <2> HIDE DEF r
  <2>4. r \in ManType
    BY <2>3, ManInvType
  <2>5. r \in T
    BY <2>1, <2>3, <2>4
  <2> QED BY <2>5 DEF r
<1>3. \A x \in T, n \in 1..k : F[<<x, n>>] = SwapRandom(x, n, pos[n])
  <2> HIDE DEF T
  <2> QED BY Zenon
<1> HIDE DEF F, T
<1>4. PICK g : IsRecursion(g, 0, k, a, F) /\ g \in [0..k -> T]
  <2>1. \A n \in (0 + 1)..k : \A x \in T : F[<<x, n>>] \in T
    BY <1>2, <1>3
  <2>2. 0 \in Nat /\ 0 <= k
    OBVIOUS
  <2> QED BY <1>1, <2>1, <2>2, RecursionExists
<1>5. g = [n \in 0..k |-> IF n = 0 THEN a ELSE SwapRandom(g[n - 1], n, pos[n])]
  <2>1. \A n \in 0..k : n # 0 => n - 1 \in 0..k /\ n \in 1..k
    OBVIOUS
  <2>2. \A n \in 0..k : g[n] = IF n = 0 THEN a ELSE F[<<g[n - 1], n>>]
    BY <1>4 DEF IsRecursion
  <2>3. \A n \in 0..k : g[n] = IF n = 0 THEN a ELSE SwapRandom(g[n - 1], n, pos[n])
    BY <1>3, <1>4, <2>1, <2>2
  <2>4. g = [n \in 0..k |-> g[n]]
    BY <1>4
  <2> QED BY <2>3, <2>4
<1>6. after = [n \in 0..k |-> IF n = 0 THEN a ELSE SwapRandom(after[n - 1], n, pos[n])]
  BY <1>5
<1>7. after[k] \in T
  <2> HIDE DEF after
  <2>1. after[0] \in T
    BY <1>1, <1>6
  <2>2. \A n \in (0 + 1)..k : after[n - 1] \in T => after[n] \in T
    <3>1. \A n \in (0 + 1)..k : after[n] = SwapRandom(after[n - 1], n, pos[n])
      BY <1>6
    <3> QED BY <1>2, <3>1
  <2> QED BY <2>1, <2>2, RecursionKeeps
<1> QED BY <1>7 DEF GetAddr_, T

-----------------------------------------------------------------------------
\* The id at a position when the ids of a set are written in their order.
IdAt(S, n) == CHOOSE id \in S : Rank(S, id) = n

\* Positions and ids are in bijection.
LEMMA Ranked ==
  ASSUME NEW S, S \subseteq Nat, IsFiniteSet(S)
  PROVE  /\ \A i \in S : Rank(S, i) \in 0..(Cardinality(S) - 1) /\ IdAt(S, Rank(S, i)) = i
         /\ \A n \in 0..(Cardinality(S) - 1) : IdAt(S, n) \in S /\ Rank(S, IdAt(S, n)) = n
         /\ FirstOf(S, Cardinality(S)) = S
<1> DEFINE L(i) == {j \in S : j < i}
           c == Cardinality(S)
           P == 0..(c - 1)
           f == [i \in S |-> Rank(S, i)]
<1>0. c \in Nat
  BY FS_CardinalityType
<1>1. ASSUME NEW i \in S
      PROVE  IsFiniteSet(L(i)) /\ Cardinality(L(i)) \in Nat /\ Cardinality(L(i)) < c
  <2>1. L(i) \in SUBSET S /\ L(i) # S
    OBVIOUS
  <2> HIDE DEF L
  <2>2. IsFiniteSet(L(i)) /\ Cardinality(L(i)) <= c /\ Cardinality(L(i)) # c
    BY <2>1, FS_Subset
  <2>3. Cardinality(L(i)) \in Nat
    BY <2>2, FS_CardinalityType
  <2> QED BY <1>0, <2>2, <2>3
<1>2. ASSUME NEW i \in S, NEW j \in S, i < j PROVE Cardinality(L(i)) < Cardinality(L(j))
  <2>0. ~(i < i) /\ \A l \in S : l < i => l < j
    BY <1>2
  <2>1. L(i) \in SUBSET L(j) /\ i \in L(j) /\ i \notin L(i)
    BY <1>2, <2>0
  <2>2. IsFiniteSet(L(j)) /\ Cardinality(L(j)) \in Nat /\ Cardinality(L(i)) \in Nat
    BY <1>1
  <2> HIDE DEF L
  <2>3. Cardinality(L(i)) <= Cardinality(L(j)) /\ Cardinality(L(i)) # Cardinality(L(j))
    BY <2>1, <2>2, FS_Subset
  <2> QED BY <2>2, <2>3
<1>3. \A i \in S : Rank(S, i) = Cardinality(L(i))
  BY DEF Rank
<1>4. \A i \in S : Rank(S, i) \in P
  <2> HIDE DEF L, c
  <2> QED BY <1>0, <1>1, <1>3
<1>5. \A i, j \in S : Rank(S, i) = Rank(S, j) => i = j
  <2> SUFFICES ASSUME NEW i \in S, NEW j \in S, i # j PROVE Rank(S, i) # Rank(S, j)
    OBVIOUS
  <2>1. i < j \/ j < i
    OBVIOUS
  <2>2. Cardinality(L(i)) < Cardinality(L(j)) \/ Cardinality(L(j)) < Cardinality(L(i))
    BY <1>2, <2>1
  <2>3. Cardinality(L(i)) \in Nat /\ Cardinality(L(j)) \in Nat
    BY <1>1
  <2> HIDE DEF L
  <2> QED BY <1>3, <2>2, <2>3
<1>6. IsFiniteSet(P) /\ Cardinality(P) = c
  <2> HIDE DEF c
  <2>1. 0 \in Int /\ c - 1 \in Int
    BY <1>0
  <2>2. IsFiniteSet(P) /\ Cardinality(P) = IF 0 > c - 1 THEN 0 ELSE (c - 1) - 0 + 1
    BY <2>1, FS_Interval
  <2> QED BY <1>0, <2>2
<1>7. f \in Injection(S, P)
  BY <1>4, <1>5 DEF Injection, IsInjective
<1>8. f \in Surjection(S, P)
  <2> HIDE DEF f, P
  <2> QED BY <1>6, <1>7, FS_Injection
<1>9. \A n \in P : \E i \in S : Rank(S, i) = n
  BY <1>8 DEF Surjection
<1>10. \A n \in P : IdAt(S, n) \in S /\ Rank(S, IdAt(S, n)) = n
  BY <1>9 DEF IdAt
<1>11. \A i \in S : IdAt(S, Rank(S, i)) = i
  BY <1>4, <1>5, <1>10
<1>12. FirstOf(S, c) = S
  <2>1. \A i \in S : Rank(S, i) < c
    BY <1>0, <1>4
  <2> QED BY <2>1 DEF FirstOf
<1> QED BY <1>4, <1>10, <1>11, <1>12

\* The entry that is loaded as entry j.
Src(a, j) == IF j < a.nNew THEN IdAt(NewIds(a), j) ELSE IdAt(TriedIds(a), j - a.nNew)

\* The entries of the file and those in memory are in bijection, new ones and tried ones.
LEMMA Sources ==
  ASSUME NEW a, ManInv(a, NoId)
  PROVE  /\ a.nNew \in Nat /\ a.nTried \in Nat
         /\ \A j \in 0..(a.nNew - 1) : Src(a, j) \in NewIds(a) /\ Rank(NewIds(a), Src(a, j)) = j
         /\ \A j \in a.nNew..(a.nNew + a.nTried - 1) :
              Src(a, j) \in TriedIds(a) /\ Rank(TriedIds(a), Src(a, j)) = j - a.nNew
         /\ \A i \in NewIds(a) : /\ Rank(NewIds(a), i) \in 0..(a.nNew - 1)
                                 /\ Src(a, Rank(NewIds(a), i)) = i
         /\ \A i \in TriedIds(a) : /\ Rank(TriedIds(a), i) \in 0..(a.nTried - 1)
                                   /\ Src(a, a.nNew + Rank(TriedIds(a), i)) = i
         /\ FirstOf(NewIds(a), a.nNew) = NewIds(a) /\ FirstOf(TriedIds(a), a.nTried) = TriedIds(a)
<1> DEFINE N == NewIds(a)
           R == TriedIds(a)
<1>1. EntriesInv(a) /\ CountInv(a)
  BY DEF ManInv
<1>2. IsFiniteSet(N) /\ IsFiniteSet(R) /\ N \subseteq Nat /\ R \subseteq Nat
  <2>1. IsFiniteSet(N) /\ IsFiniteSet(R)
    BY <1>1, Finite
  <2>2. N \subseteq Ids(a) /\ R \subseteq Ids(a)
    BY DEF NewIds, TriedIds, Ids
  <2>3. Ids(a) \subseteq Nat
    BY <1>1 DEF EntriesInv
  <2> QED BY <2>1, <2>2, <2>3
<1>3. a.nNew = Cardinality(N) /\ a.nTried = Cardinality(R) /\ a.nNew \in Nat /\ a.nTried \in Nat
  BY <1>1, Finite DEF CountInv
<1> HIDE DEF N, R
<1>4. /\ \A i \in N : Rank(N, i) \in 0..(a.nNew - 1) /\ IdAt(N, Rank(N, i)) = i
      /\ \A n \in 0..(a.nNew - 1) : IdAt(N, n) \in N /\ Rank(N, IdAt(N, n)) = n
      /\ FirstOf(N, a.nNew) = N
  BY <1>2, <1>3, Ranked
<1>5. /\ \A i \in R : Rank(R, i) \in 0..(a.nTried - 1) /\ IdAt(R, Rank(R, i)) = i
      /\ \A n \in 0..(a.nTried - 1) : IdAt(R, n) \in R /\ Rank(R, IdAt(R, n)) = n
      /\ FirstOf(R, a.nTried) = R
  BY <1>2, <1>3, Ranked
<1>6. /\ \A j \in 0..(a.nNew - 1) : Src(a, j) = IdAt(N, j)
      /\ \A j \in a.nNew..(a.nNew + a.nTried - 1) :
           Src(a, j) = IdAt(R, j - a.nNew) /\ j - a.nNew \in 0..(a.nTried - 1)
      /\ \A n \in 0..(a.nTried - 1) : Src(a, a.nNew + n) = IdAt(R, n)
  <2>1. \A j \in 0..(a.nNew - 1) : Src(a, j) = IdAt(N, j)
    BY <1>3 DEF Src, N
  <2>2. \A j \in a.nNew..(a.nNew + a.nTried - 1) : ~(j < a.nNew) /\ j - a.nNew \in 0..(a.nTried - 1)
    BY <1>3
  <2>3. \A n \in 0..(a.nTried - 1) : ~(a.nNew + n < a.nNew) /\ (a.nNew + n) - a.nNew = n
    BY <1>3
  <2> QED BY <2>1, <2>2, <2>3 DEF Src, R
<1>7. \A j \in 0..(a.nNew - 1) : Src(a, j) \in N /\ Rank(N, Src(a, j)) = j
  BY <1>4, <1>6
<1>8. \A j \in a.nNew..(a.nNew + a.nTried - 1) : Src(a, j) \in R /\ Rank(R, Src(a, j)) = j - a.nNew
  BY <1>5, <1>6
<1>9. \A i \in N : Rank(N, i) \in 0..(a.nNew - 1) /\ Src(a, Rank(N, i)) = i
  BY <1>4, <1>6
<1>10. \A i \in R : Rank(R, i) \in 0..(a.nTried - 1) /\ Src(a, a.nNew + Rank(R, i)) = i
  BY <1>5, <1>6
<1> QED BY <1>3, <1>4, <1>5, <1>7, <1>8, <1>9, <1>10 DEF N, R

\* A row of addr.dat, and the file.
DumpRow(a, i) == [service |-> a.mapInfo[i].service, source |-> a.mapInfo[i].source,
                  everGood |-> a.mapInfo[i].everGood]

NewDump(a) == [b \in NewBuckets |-> {Rank(NewIds(a), id) : id \in a.vvNew[b]}]

\* What Serialize writes.
LEMMA Dumped ==
  ASSUME NEW a, ManInv(a, NoId), NEW d, d = Serialize(a)
  PROVE  /\ d.nNew = a.nNew /\ d.nTried = a.nTried
         /\ \A j \in 0..(a.nNew - 1) : d.new[j] = DumpRow(a, Src(a, j))
         /\ \A n \in 0..(a.nTried - 1) : d.tried[n] = DumpRow(a, Src(a, a.nNew + n))
         /\ d.vvNew = NewDump(a)
<1>1. {id \in DOMAIN a.mapInfo : a.mapInfo[id].nRefCount # 0} = NewIds(a)
  <2>1. RefInv(a, {})
    BY DEF ManInv
  <2>2. \A id \in NewIds(a) : a.mapInfo[id].nRefCount # 0
    BY <2>1 DEF RefInv
  <2> QED BY <2>1, <2>2 DEF RefInv, NewIds, TriedIds
<1>2. {id \in DOMAIN a.mapInfo : a.mapInfo[id].fInTried} = TriedIds(a)
  BY DEF TriedIds
<1>3. /\ a.nNew \in Nat /\ a.nTried \in Nat
      /\ FirstOf(NewIds(a), a.nNew) = NewIds(a) /\ FirstOf(TriedIds(a), a.nTried) = TriedIds(a)
  BY Sources
<1>4. d = [nNew |-> a.nNew, nTried |-> a.nTried,
           new |-> Written(a, NewIds(a)), tried |-> Written(a, TriedIds(a)),
           vvNew |-> NewDump(a)]
  BY <1>1, <1>2, <1>3 DEF Serialize, NewDump
<1>5. Cardinality(NewIds(a)) = a.nNew /\ Cardinality(TriedIds(a)) = a.nTried
  BY DEF ManInv, CountInv
<1>6. \A j \in 0..(a.nNew - 1) : d.new[j] = DumpRow(a, Src(a, j))
  <2>1. \A j \in 0..(a.nNew - 1) : Src(a, j) = IdAt(NewIds(a), j)
    BY <1>3 DEF Src
  <2>2. d.new = [n \in 0..(a.nNew - 1) |-> DumpRow(a, IdAt(NewIds(a), n))]
    BY <1>4, <1>5 DEF Written, IdAt, DumpRow
  <2> QED BY <2>1, <2>2
<1>7. \A n \in 0..(a.nTried - 1) : d.tried[n] = DumpRow(a, Src(a, a.nNew + n))
  <2>1. \A n \in 0..(a.nTried - 1) : Src(a, a.nNew + n) = IdAt(TriedIds(a), n)
    <3>1. \A n \in 0..(a.nTried - 1) : ~(a.nNew + n < a.nNew) /\ (a.nNew + n) - a.nNew = n
      BY <1>3
    <3> QED BY <3>1 DEF Src
  <2>2. d.tried = [n \in 0..(a.nTried - 1) |-> DumpRow(a, IdAt(TriedIds(a), n))]
    BY <1>4, <1>5 DEF Written, IdAt, DumpRow
  <2> QED BY <2>1, <2>2
<1> QED BY <1>4, <1>6, <1>7

\* A list is as long as the set it lists.
LEMMA ListsCard ==
  ASSUME NEW S, NEW v, Lists(v, S)
  PROVE  IsFiniteSet(S) /\ Cardinality(S) = Len(v) /\ Len(v) \in Nat
<1>1. Len(v) \in Nat /\ v \in [1..Len(v) -> S]
  BY DEF Lists
<1>2. v \in Bijection(1..Len(v), S)
  BY <1>1 DEF Lists, Bijection, Injection, Surjection, IsInjective
<1>3. ExistsBijection(1..Len(v), S)
  BY <1>2 DEF ExistsBijection
<1>4. IsFiniteSet(1..Len(v)) /\ Cardinality(1..Len(v)) = Len(v)
  BY <1>1, FS_Interval, SMTT(60)
<1>5. IsFiniteSet(S) /\ Cardinality(S) = Cardinality(1..Len(v))
  <2> DEFINE I == 1..Len(v)
  <2> HIDE DEF I
  <2>1. IsFiniteSet(I) /\ ExistsBijection(I, S)
    BY <1>3, <1>4 DEF I
  <2>2. IsFiniteSet(S) /\ Cardinality(S) = Cardinality(I)
    BY <2>1, FS_Bijection
  <2> QED BY <2>2 DEF I
<1> QED BY <1>1, <1>4, <1>5

\* Entry j of the loaded object is the entry it was written from, in the same table.
LoadRow(a, r, j) ==
  /\ r.mapInfo[j].service = a.mapInfo[Src(a, j)].service
  /\ r.mapInfo[j].source = a.mapInfo[Src(a, j)].source
  /\ r.mapInfo[j].everGood = a.mapInfo[Src(a, j)].everGood
  /\ r.mapInfo[j].fInTried <=> j >= a.nNew

\* What holds while the tried entries are loaded.
LoadInv(a, r) ==
  /\ EntriesInv(r) /\ AddrInv(r) /\ RandomInv(r) /\ NewInv(r, NoId) /\ RefInv(r, {}) /\ TriedInv(r)
  /\ r.nNew = a.nNew /\ r.nTried = a.nTried
  /\ r.nIdCount \in a.nNew..(a.nNew + a.nTried) /\ Ids(r) = 0..(r.nIdCount - 1)
  /\ Len(r.vRandom) = r.nIdCount
  /\ r.vvNew = NewDump(a)
  /\ \A j \in Ids(r) : LoadRow(a, r, j)

TriedEntry(a, x, p) == Loaded(DumpRow(a, x), 0, TRUE, p)

\* A tried entry as it is loaded.
LEMMA TriedEntryFields ==
  ASSUME NEW a, NEW x, a.mapInfo[x] \in InfoType, NEW p \in Int, NEW e, e = TriedEntry(a, x, p)
  PROVE  /\ e \in InfoType /\ e.service = a.mapInfo[x].service /\ e.source = a.mapInfo[x].source
         /\ e.everGood = a.mapInfo[x].everGood /\ e.nRefCount = 0 /\ e.nRandomPos = p
         /\ e.fInTried
  BY DEF TriedEntry, Loaded, DumpRow, InfoType

\* The tried bucket of the next entry has room: it holds fewer than it held.
LEMMA LoadRoom ==
  ASSUME NEW a, ManInv(a, NoId), NEW r, LoadInv(a, r), r.nIdCount < a.nNew + a.nTried,
         NEW kb \in TriedBuckets, TriedBucketOf[a.mapInfo[Src(a, r.nIdCount)].service] = kb
  PROVE  Len(r.vvTried[kb]) < TRIED_BUCKET_SIZE /\ Src(a, r.nIdCount) \in TriedIds(a)
         /\ IpOf[a.mapInfo[Src(a, r.nIdCount)].service] \notin DOMAIN r.mapAddr
<1> DEFINE id == r.nIdCount
           x == Src(a, id)
           A == TriedOf(a, kb)
           R == TriedOf(r, kb)
           f == [j \in R |-> Src(a, j)]
<1>1. /\ a.nNew \in Nat /\ a.nTried \in Nat
      /\ \A j \in 0..(a.nNew - 1) : Src(a, j) \in NewIds(a) /\ Rank(NewIds(a), Src(a, j)) = j
      /\ \A j \in a.nNew..(a.nNew + a.nTried - 1) :
           Src(a, j) \in TriedIds(a) /\ Rank(TriedIds(a), Src(a, j)) = j - a.nNew
  BY Sources
<1>2. /\ EntriesInv(r) /\ AddrInv(r) /\ TriedInv(r) /\ id \in a.nNew..(a.nNew + a.nTried)
      /\ Ids(r) = 0..(id - 1) /\ \A j \in Ids(r) : LoadRow(a, r, j)
  BY DEF LoadInv
<1>3. TriedInv(a) /\ AddrInv(a) /\ EntriesInv(a)
  BY DEF ManInv
<1>4. id \in a.nNew..(a.nNew + a.nTried - 1) /\ x \in TriedIds(a)
  BY <1>1, <1>2
<1>5. TriedIds(a) \cap NewIds(a) = {} /\ TriedIds(a) \subseteq Ids(a) /\ NewIds(a) \subseteq Ids(a)
  BY DEF NewIds, TriedIds, Ids
<1> HIDE DEF id
<1>6. ASSUME NEW j \in 0..(id - 1) PROVE Src(a, j) # x /\ Src(a, j) \in Ids(a)
  <2>1. CASE j < a.nNew
    <3>1. j \in 0..(a.nNew - 1)
      BY <1>1, <1>4, <2>1
    <3> QED BY <1>1, <1>4, <1>5, <3>1
  <2>2. CASE ~(j < a.nNew)
    <3>1. j \in a.nNew..(a.nNew + a.nTried - 1) /\ j # id
      BY <1>1, <1>4, <2>2
    <3>2. Rank(TriedIds(a), Src(a, j)) = j - a.nNew /\ Rank(TriedIds(a), x) = id - a.nNew
      BY <1>1, <1>4, <3>1
    <3>3. j - a.nNew # id - a.nNew
      BY <1>1, <1>4, <3>1
    <3> QED BY <1>1, <1>5, <3>1, <3>2, <3>3
  <2> QED BY <2>1, <2>2
<1>7. IpOf[a.mapInfo[x].service] \notin DOMAIN r.mapAddr
  <2> SUFFICES ASSUME IpOf[a.mapInfo[x].service] \in DOMAIN r.mapAddr PROVE FALSE
    OBVIOUS
  <2> DEFINE ip == IpOf[a.mapInfo[x].service]
             j == r.mapAddr[ip]
  <2>1. j \in Ids(r) /\ IpOf[r.mapInfo[j].service] = ip
    BY <1>2 DEF AddrInv
  <2>2. r.mapInfo[j].service = a.mapInfo[Src(a, j)].service
    BY <1>2, <2>1 DEF LoadRow
  <2>3. Src(a, j) # x /\ Src(a, j) \in Ids(a) /\ x \in Ids(a)
    BY <1>2, <1>4, <1>5, <1>6, <2>1
  <2> HIDE DEF j, x
  <2>4. a.mapAddr[ip] = x /\ a.mapAddr[IpOf[a.mapInfo[Src(a, j)].service]] = Src(a, j)
    BY <1>3, <2>3 DEF AddrInv
  <2> QED BY <2>1, <2>2, <2>3, <2>4
<1>8. ASSUME NEW j \in R PROVE Src(a, j) \in A \ {x} /\ j \in a.nNew..(a.nNew + a.nTried - 1)
  <2>1. /\ j \in 0..(id - 1) /\ r.mapInfo[j].fInTried /\ TriedBucketOf[r.mapInfo[j].service] = kb
        /\ LoadRow(a, r, j)
    BY <1>2 DEF TriedOf, TriedIds, Ids
  <2>2. j >= a.nNew /\ r.mapInfo[j].service = a.mapInfo[Src(a, j)].service
    BY <2>1 DEF LoadRow
  <2>3. j \in a.nNew..(a.nNew + a.nTried - 1)
    BY <1>1, <1>4, <2>1, <2>2
  <2>4. Src(a, j) \in TriedIds(a) /\ Src(a, j) # x
    BY <1>1, <1>6, <2>1, <2>3
  <2> QED BY <2>1, <2>2, <2>3, <2>4 DEF TriedOf
<1>9. \A i, j \in R : Src(a, i) = Src(a, j) => i = j
  <2> SUFFICES ASSUME NEW i \in R, NEW j \in R, Src(a, i) = Src(a, j) PROVE i = j
    OBVIOUS
  <2>1. i \in a.nNew..(a.nNew + a.nTried - 1) /\ j \in a.nNew..(a.nNew + a.nTried - 1)
    BY <1>8
  <2>2. i - a.nNew = j - a.nNew
    BY <1>1, <2>1
  <2> QED BY <1>1, <2>1, <2>2
<1>10. f \in Injection(R, A \ {x})
  BY <1>8, <1>9 DEF Injection, IsInjective
<1>11. x \in A
  BY <1>4 DEF TriedOf, id
<1>12. /\ IsFiniteSet(A) /\ Cardinality(A) = Len(a.vvTried[kb]) /\ Len(a.vvTried[kb]) \in Nat
       /\ Len(a.vvTried[kb]) <= TRIED_BUCKET_SIZE
       /\ Cardinality(R) = Len(r.vvTried[kb]) /\ Len(r.vvTried[kb]) \in Nat
  <2>1. Lists(a.vvTried[kb], A) /\ Len(a.vvTried[kb]) <= TRIED_BUCKET_SIZE /\ Lists(r.vvTried[kb], R)
    BY <1>2, <1>3 DEF TriedInv
  <2> QED BY <2>1, ListsCard
<1> HIDE DEF f, A, R, x
<1>13. IsFiniteSet(A \ {x}) /\ Cardinality(A \ {x}) = Cardinality(A) - 1
  BY <1>11, <1>12, FS_RemoveElement
<1>14. Cardinality(R) <= Cardinality(A \ {x})
  <2> DEFINE B == A \ {x}
  <2> HIDE DEF B
  <2>1. f \in Injection(R, B) /\ IsFiniteSet(B)
    BY <1>10, <1>13 DEF B
  <2>2. Cardinality(R) <= Cardinality(B)
    BY <2>1, FS_Injection
  <2> QED BY <2>2 DEF B
<1>15. Len(r.vvTried[kb]) < TRIED_BUCKET_SIZE
  BY <1>12, <1>13, <1>14, AddrManAssumption
<1> QED BY <1>4, <1>7, <1>15 DEF x, id

\* One round of the loop over the tried entries.
LEMMA LoadStep ==
  ASSUME NEW a, ManInv(a, NoId), NEW r, LoadInv(a, r), r.nIdCount < a.nNew + a.nTried,
         NEW q, q = LoadTried(r, DumpRow(a, Src(a, r.nIdCount)))
  PROVE  LoadInv(a, q) /\ q.nIdCount = r.nIdCount + 1
<1> DEFINE id == r.nIdCount
           x == Src(a, id)
           kb == TriedBucketOf[a.mapInfo[x].service]
           e == TriedEntry(a, x, Len(r.vRandom) + 1)
           v == Append(r.vvTried[kb], id)
<1>0. /\ EntriesInv(r) /\ AddrInv(r) /\ RandomInv(r) /\ NewInv(r, NoId) /\ RefInv(r, {}) /\ TriedInv(r)
      /\ r.nNew = a.nNew /\ r.nTried = a.nTried
      /\ id \in a.nNew..(a.nNew + a.nTried) /\ Ids(r) = 0..(id - 1)
      /\ Len(r.vRandom) = id /\ r.vvNew = NewDump(a)
      /\ \A j \in Ids(r) : LoadRow(a, r, j)
  BY DEF LoadInv
<1>1. a.nNew \in Nat /\ a.nTried \in Nat /\ x \in TriedIds(a)
  <2>1. a.nNew \in Nat /\ a.nTried \in Nat
    BY Sources
  <2>2. id \in a.nNew..(a.nNew + a.nTried - 1)
    BY <1>0, <2>1
  <2> QED BY <2>1, <2>2, Sources
<1>2. a.mapInfo[x] \in InfoType
  <2>1. EntriesInv(a) /\ x \in Ids(a)
    BY <1>1 DEF ManInv, TriedIds, Ids
  <2> QED BY <2>1 DEF EntriesInv
<1>2a. a.mapInfo[x].everGood
  BY <1>1 DEF ManInv, RefInv
<1>3. kb \in TriedBuckets
  <2>1. a.mapInfo[x].service \in Service
    BY <1>2 DEF InfoType
  <2> QED BY <2>1, AddrManAssumption
<1>4. Len(r.vvTried[kb]) < TRIED_BUCKET_SIZE /\ IpOf[a.mapInfo[x].service] \notin DOMAIN r.mapAddr
  BY <1>3, LoadRoom
<1>5. q = [r EXCEPT !.nIdCount = id + 1,
                    !.mapInfo = With(@, id, e), !.mapAddr = With(@, IpOf[a.mapInfo[x].service], id),
                    !.vRandom = Append(@, id), !.vvTried[kb] = Append(@, id)]
  <2>1. DumpRow(a, x).service = a.mapInfo[x].service
    BY DEF DumpRow
  <2> QED BY <1>4, <2>1 DEF LoadTried, TriedEntry
<1> HIDE DEF id, x, kb, e
<1>6. /\ IsMan(q) /\ q.nIdCount = id + 1 /\ q.mapInfo = With(r.mapInfo, id, e)
      /\ q.mapAddr = With(r.mapAddr, IpOf[a.mapInfo[x].service], id) /\ q.vRandom = Append(r.vRandom, id)
      /\ q.nTried = r.nTried /\ q.nNew = r.nNew /\ q.vvNew = r.vvNew /\ q.vvTried = Put(r.vvTried, kb, v)
  <2>1. IsMan(r)
    BY <1>0 DEF EntriesInv
  <2> QED BY <1>5, <2>1 DEF IsMan, Put
<1>7. /\ e \in InfoType /\ e.service = a.mapInfo[x].service /\ e.source = a.mapInfo[x].source
      /\ e.everGood = a.mapInfo[x].everGood /\ e.nRefCount = 0 /\ e.nRandomPos = Len(r.vRandom) + 1
      /\ e.fInTried
  <2>1. Len(r.vRandom) + 1 \in Int
    BY <1>0, <1>1
  <2>2. e = TriedEntry(a, x, Len(r.vRandom) + 1)
    BY DEF e
  <2> QED BY <1>2, <2>1, <2>2, TriedEntryFields
<1>8. /\ EntriesInv(q) /\ AddrInv(q) /\ RandomInv(q)
      /\ Ids(q) = Ids(r) \cup {id} /\ id \notin Ids(r) /\ q.mapInfo[id] = e
      /\ \A i \in Ids(r) : q.mapInfo[i] = r.mapInfo[i]
      /\ Len(q.vRandom) = Len(r.vRandom) + 1
  <2>1. IpOf[e.service] \notin DOMAIN r.mapAddr /\ q.mapAddr = With(r.mapAddr, IpOf[e.service], id)
    BY <1>4, <1>6, <1>7
  <2>2. id = r.nIdCount
    BY DEF id
  <2>3. e \in InfoType /\ e.nRandomPos = Len(r.vRandom) + 1
    BY <1>7
  <2>4. EntriesInv(r) /\ AddrInv(r) /\ RandomInv(r)
    BY <1>0
  <2>5. /\ IsMan(q) /\ q.nIdCount = id + 1 /\ q.mapInfo = With(r.mapInfo, id, e)
        /\ q.vRandom = Append(r.vRandom, id)
    BY <1>6
  <2> QED BY <2>1, <2>2, <2>3, <2>4, <2>5, EntryAdded
<1>9. TriedIds(q) = TriedIds(r) \cup {id} /\ NewIds(q) = NewIds(r) /\ id \notin TriedIds(r)
      /\ TriedIds(r) \subseteq Ids(r) /\ NewIds(r) \subseteq Ids(r)
  <2>1. TriedIds(q) = TriedIds(r) \cup {id}
    BY <1>7, <1>8 DEF TriedIds, Ids
  <2> QED BY <1>8, <2>1 DEF NewIds, TriedIds, Ids
<1>10. RefInv(q, {})
  <2>1. ASSUME NEW i \in TriedIds(q) PROVE q.mapInfo[i].everGood /\ q.mapInfo[i].nRefCount = 0
    <3>1. CASE i = id
      BY <1>2a, <1>7, <1>8, <3>1
    <3>2. CASE i \in TriedIds(r)
      BY <1>0, <1>8, <1>9, <3>2 DEF RefInv
    <3> QED BY <1>9, <3>1, <3>2
  <2>2. \A i \in NewIds(q) : q.mapInfo[i].nRefCount \in 1..NEW_BUCKETS_PER_ADDRESS
    BY <1>0, <1>8, <1>9 DEF RefInv
  <2> QED BY <2>1, <2>2 DEF RefInv
<1>11. NewInv(q, NoId)
  <2>1. \A i : NewPlaces(q, i) = NewPlaces(r, i)
    BY <1>6 DEF NewPlaces
  <2>2. q.vvNew \in [NewBuckets -> SUBSET Ids(q)]
    BY <1>0, <1>6, <1>8 DEF NewInv
  <2>3. id # NoId /\ NewPlaces(r, id) = {}
    BY <1>0, <1>1, <1>8 DEF NewPlaces, NewInv, NoId
  <2>4. Cardinality(NewPlaces(q, id)) = 0
    BY <2>1, <2>3, FS_EmptySet
  <2>5. ASSUME NEW i \in Ids(q)
        PROVE  q.mapInfo[i].nRefCount = Cardinality(NewPlaces(q, i)) + (IF i = NoId THEN 1 ELSE 0)
    <3>1. CASE i = id
      BY <1>7, <1>8, <2>3, <2>4, <3>1
    <3>2. CASE i \in Ids(r)
      BY <1>0, <1>8, <2>1, <3>2 DEF NewInv
    <3> QED BY <1>8, <3>1, <3>2
  <2> QED BY <1>0, <1>6, <2>2, <2>5 DEF NewInv
<1>12. TriedInv(q)
  <2>1. TriedBucketOf[a.mapInfo[x].service] = kb
    BY DEF kb
  <2>2. /\ \A b \in TriedBuckets : b # kb => TriedOf(q, b) = TriedOf(r, b)
        /\ TriedOf(q, kb) = TriedOf(r, kb) \cup {id} /\ id \notin TriedOf(r, kb)
    BY <1>7, <1>8, <1>9, <2>1 DEF TriedOf
  <2>3. Lists(r.vvTried[kb], TriedOf(r, kb))
    BY <1>0, <1>3 DEF TriedInv
  <2>4. Lists(v, TriedOf(q, kb)) /\ Len(v) <= TRIED_BUCKET_SIZE
    BY <1>4, <2>2, <2>3, ListsMore, AddrManAssumption
  <2> HIDE DEF v
  <2> QED BY <1>0, <1>3, <1>6, <2>2, <2>4, TriedPut
<1>13. \A j \in Ids(q) : LoadRow(a, q, j)
  <2> SUFFICES ASSUME NEW j \in Ids(q) PROVE LoadRow(a, q, j)
    OBVIOUS
  <2>1. CASE j = id
    <3>1. Src(a, j) = x
      BY <2>1 DEF x
    <3>2. j >= a.nNew
      BY <1>0, <1>1, <2>1
    <3> QED BY <1>7, <1>8, <2>1, <3>1, <3>2 DEF LoadRow
  <2>2. CASE j \in Ids(r)
    BY <1>0, <1>8, <2>2 DEF LoadRow
  <2> QED BY <1>8, <2>1, <2>2
<1>14. q.nIdCount \in a.nNew..(a.nNew + a.nTried) /\ Ids(q) = 0..(q.nIdCount - 1) /\ Len(q.vRandom) = q.nIdCount
  <2>1. id < a.nNew + a.nTried
    BY DEF id
  <2>2. q.nIdCount \in a.nNew..(a.nNew + a.nTried) /\ Len(q.vRandom) = q.nIdCount
    BY <1>0, <1>1, <1>6, <1>8, <2>1
  <2>3. 0..(id - 1) \cup {id} = 0..((id + 1) - 1)
    BY <1>0, <1>1
  <2> QED BY <1>0, <1>6, <1>8, <2>2, <2>3
<1>15. LoadInv(a, q)
  BY <1>0, <1>6, <1>8, <1>10, <1>11, <1>12, <1>13, <1>14 DEF LoadInv
<1> QED BY <1>6, <1>15 DEF id

\* The object that the first loop of Unserialize leaves.
LoadedNew(d) ==
  LET ids == 0..d.nNew - 1
      refs(id) == Cardinality({b \in NewBuckets : id \in d.vvNew[b]})
  IN [CAddrMan EXCEPT
         !.nIdCount = d.nNew, !.nNew = d.nNew, !.nTried = d.nTried,
         !.mapInfo = [id \in ids |-> Loaded(d.new[id], refs(id), FALSE, id + 1)],
         !.mapAddr = [ip \in {IpOf[d.new[id].service] : id \in ids} |->
                         CHOOSE id \in ids : IpOf[d.new[id].service] = ip],
         !.vRandom = [p \in 1..d.nNew |-> p - 1],
         !.vvNew = d.vvNew]

RefsIn(d, j) == Cardinality({b \in NewBuckets : j \in d.vvNew[b]})

NewInfo(d) == [j \in 0..d.nNew - 1 |-> Loaded(d.new[j], RefsIn(d, j), FALSE, j + 1)]

\* The entry that is loaded with address x.
Holder(d, x) == CHOOSE j \in 0..d.nNew - 1 : IpOf[d.new[j].service] = x

NewAddr(d) == [x \in {IpOf[d.new[j].service] : j \in 0..d.nNew - 1} |-> Holder(d, x)]

NewRandom(d) == [p \in 1..d.nNew |-> p - 1]

NoTried == [b \in TriedBuckets |-> <<>>]

\* Its members.
LEMMA LoadedNewFields ==
  ASSUME NEW d, NEW r, r = LoadedNew(d)
  PROVE  /\ IsMan(r) /\ r.nIdCount = d.nNew /\ r.nTried = d.nTried /\ r.nNew = d.nNew
         /\ r.vvNew = d.vvNew /\ r.vvTried = NoTried
         /\ r.vRandom = NewRandom(d) /\ r.mapInfo = NewInfo(d) /\ r.mapAddr = NewAddr(d)
<1> DEFINE NN == [b \in NewBuckets |-> {}]
<1>1. CAddrMan = [nIdCount |-> 0, mapInfo |-> <<>>, mapAddr |-> <<>>, vRandom |-> <<>>,
                  nTried |-> 0, nNew |-> 0, vvNew |-> NN, vvTried |-> NoTried]
  BY DEF CAddrMan, NoTried
<1>2. r = [CAddrMan EXCEPT
              !.nIdCount = d.nNew, !.nNew = d.nNew, !.nTried = d.nTried, !.mapInfo = NewInfo(d),
              !.mapAddr = NewAddr(d), !.vRandom = NewRandom(d), !.vvNew = d.vvNew]
  BY DEF LoadedNew, NewInfo, NewAddr, NewRandom, RefsIn, Holder
<1> HIDE DEF NN
<1> QED BY <1>1, <1>2 DEF IsMan

NewEntry(a, x, n, p) == Loaded(DumpRow(a, x), n, FALSE, p)

\* A new entry as it is loaded.
LEMMA NewEntryFields ==
  ASSUME NEW a, NEW x, a.mapInfo[x] \in InfoType, NEW n \in Int, NEW p \in Int, NEW e, e = NewEntry(a, x, n, p)
  PROVE  /\ e \in InfoType /\ e.service = a.mapInfo[x].service /\ e.source = a.mapInfo[x].source
         /\ e.everGood = a.mapInfo[x].everGood /\ e.nRefCount = n /\ e.nRandomPos = p
         /\ ~e.fInTried
  BY DEF NewEntry, Loaded, DumpRow, InfoType

\* The entries of the new buckets are new.
LEMMA BucketsNew ==
  ASSUME NEW a, ManInv(a, NoId), NEW b \in NewBuckets
  PROVE  a.vvNew[b] \subseteq NewIds(a) /\ IsFiniteSet(a.vvNew[b]) /\ Cardinality(a.vvNew[b]) \in Nat
         /\ Cardinality(a.vvNew[b]) <= NEW_BUCKET_SIZE
<1>0. EntriesInv(a) /\ NewInv(a, NoId) /\ RefInv(a, {})
  BY DEF ManInv
<1>1. a.vvNew[b] \in SUBSET Ids(a) /\ Cardinality(a.vvNew[b]) <= NEW_BUCKET_SIZE
  BY <1>0 DEF NewInv
<1>2. IsFiniteSet(a.vvNew[b]) /\ Cardinality(a.vvNew[b]) \in Nat
  BY <1>0, <1>1, Finite
<1>3. ASSUME NEW i \in a.vvNew[b] PROVE i \in NewIds(a)
  <2>1. IsFiniteSet(NewPlaces(a, i)) /\ Cardinality(NewPlaces(a, i)) \in Nat /\ b \in NewPlaces(a, i)
    BY <1>0, Finite DEF NewPlaces
  <2>2. Cardinality(NewPlaces(a, i)) # 0
    BY <2>1, FS_EmptySet
  <2>3. i \in Ids(a) /\ i # NoId
    BY <1>0, <1>1 DEF EntriesInv, NoId
  <2>4. a.mapInfo[i].nRefCount # 0
    BY <1>0, <2>1, <2>2, <2>3 DEF NewInv
  <2> QED BY <1>0, <2>3, <2>4 DEF RefInv, NewIds, Ids
<1> QED BY <1>1, <1>2, <1>3

\* A new bucket is loaded with the entries it had.
LEMMA BucketLoaded ==
  ASSUME NEW a, ManInv(a, NoId), NEW b \in NewBuckets
  PROVE  /\ \A j \in 0..(a.nNew - 1) : j \in NewDump(a)[b] <=> Src(a, j) \in a.vvNew[b]
         /\ NewDump(a)[b] \in SUBSET (0..(a.nNew - 1))
         /\ Cardinality(NewDump(a)[b]) <= NEW_BUCKET_SIZE
<1> DEFINE S == a.vvNew[b]
           D == {Rank(NewIds(a), id) : id \in S}
           f == [id \in S |-> Rank(NewIds(a), id)]
<1>1. /\ \A j \in 0..(a.nNew - 1) : Src(a, j) \in NewIds(a) /\ Rank(NewIds(a), Src(a, j)) = j
      /\ \A i \in NewIds(a) : Rank(NewIds(a), i) \in 0..(a.nNew - 1) /\ Src(a, Rank(NewIds(a), i)) = i
  BY Sources
<1>2. NewDump(a)[b] = D
  BY DEF NewDump
<1>3. S \subseteq NewIds(a) /\ IsFiniteSet(S) /\ Cardinality(S) \in Nat /\ Cardinality(S) <= NEW_BUCKET_SIZE
  BY BucketsNew
<1>4. D \in SUBSET (0..(a.nNew - 1))
  BY <1>1, <1>3
<1>5. \A j \in 0..(a.nNew - 1) : j \in D <=> Src(a, j) \in S
  BY <1>1, <1>3
<1>6. f \in Surjection(S, D)
  BY DEF Surjection
<1> HIDE DEF f, D, S
<1>7. IsFiniteSet(D) /\ Cardinality(D) <= Cardinality(S)
  BY <1>3, <1>6, FS_Surjection
<1>8. Cardinality(D) <= NEW_BUCKET_SIZE
  <2>1. Cardinality(D) \in Nat
    BY <1>7, FS_CardinalityType
  <2> QED BY <1>3, <1>7, <2>1, AddrManAssumption
<1> QED BY <1>2, <1>4, <1>5, <1>8 DEF S

\* The new entries are loaded.
LEMMA LoadNew ==
  ASSUME NEW a, ManInv(a, NoId), NEW d, d = Serialize(a), NEW r, r = LoadedNew(d)
  PROVE  LoadInv(a, r) /\ r.nIdCount = a.nNew
<1> DEFINE ids == 0..(a.nNew - 1)
           ip(j) == IpOf[a.mapInfo[Src(a, j)].service]
<1>1. /\ d.nNew = a.nNew /\ d.nTried = a.nTried
      /\ \A j \in ids : d.new[j] = DumpRow(a, Src(a, j))
      /\ d.vvNew = NewDump(a)
  BY Dumped
<1>2. /\ a.nNew \in Nat /\ a.nTried \in Nat
      /\ \A j \in ids : Src(a, j) \in NewIds(a) /\ Rank(NewIds(a), Src(a, j)) = j
      /\ \A i \in NewIds(a) : Rank(NewIds(a), i) \in ids /\ Src(a, Rank(NewIds(a), i)) = i
  BY Sources
<1>3. EntriesInv(a) /\ AddrInv(a) /\ NewInv(a, NoId) /\ RefInv(a, {})
  BY DEF ManInv
<1>4. /\ IsMan(r) /\ r.nIdCount = d.nNew /\ r.nTried = d.nTried /\ r.nNew = d.nNew
      /\ r.vvNew = d.vvNew /\ r.vvTried = NoTried
      /\ r.vRandom = NewRandom(d) /\ r.mapInfo = NewInfo(d) /\ r.mapAddr = NewAddr(d)
  BY LoadedNewFields
<1>5. IsMan(r) /\ r.nIdCount = a.nNew /\ r.nTried = a.nTried /\ r.nNew = a.nNew /\ r.vvNew = NewDump(a)
  BY <1>1, <1>4
<1>6. \A j \in ids : Src(a, j) \in Ids(a) /\ a.mapInfo[Src(a, j)] \in InfoType
  <2>1. NewIds(a) \subseteq Ids(a)
    BY DEF NewIds, Ids
  <2> QED BY <1>2, <1>3, <2>1 DEF EntriesInv
<1>7. \A j \in ids : NewPlaces(r, j) = NewPlaces(a, Src(a, j))
  BY <1>5, BucketLoaded DEF NewPlaces
<1>8. \A j \in ids : r.mapInfo[j] = NewEntry(a, Src(a, j), Cardinality(NewPlaces(r, j)), j + 1)
  <2>1. \A j \in ids : r.mapInfo[j] = Loaded(d.new[j], RefsIn(d, j), FALSE, j + 1)
    BY <1>1, <1>4 DEF NewInfo
  <2>2. \A j : RefsIn(d, j) = Cardinality(NewPlaces(r, j))
    BY <1>4 DEF NewPlaces, RefsIn
  <2> QED BY <1>1, <2>1, <2>2 DEF NewEntry
<1>9. DOMAIN r.mapInfo = ids /\ r.mapInfo = [j \in ids |-> r.mapInfo[j]]
  BY <1>1, <1>4 DEF NewInfo
<1>10. ASSUME NEW j \in ids
       PROVE  /\ r.mapInfo[j] \in InfoType
              /\ r.mapInfo[j].service = a.mapInfo[Src(a, j)].service
              /\ r.mapInfo[j].source = a.mapInfo[Src(a, j)].source
              /\ r.mapInfo[j].everGood = a.mapInfo[Src(a, j)].everGood
              /\ r.mapInfo[j].nRefCount = Cardinality(NewPlaces(r, j))
              /\ r.mapInfo[j].nRandomPos = j + 1
              /\ ~r.mapInfo[j].fInTried
  <2>1. Cardinality(NewPlaces(r, j)) \in Int /\ j + 1 \in Int
    BY <1>3, <1>7, Finite
  <2> DEFINE n == Cardinality(NewPlaces(r, j))
             x == Src(a, j)
             e == r.mapInfo[j]
  <2>2. e = NewEntry(a, x, n, j + 1) /\ a.mapInfo[x] \in InfoType /\ n \in Int
    BY <1>6, <1>8, <2>1
  <2> HIDE DEF n, x, e
  <2>3. /\ e \in InfoType /\ e.service = a.mapInfo[x].service /\ e.source = a.mapInfo[x].source
        /\ e.everGood = a.mapInfo[x].everGood /\ e.nRefCount = n /\ e.nRandomPos = j + 1
        /\ ~e.fInTried
    BY <2>1, <2>2, NewEntryFields
  <2> QED BY <2>3 DEF n, x, e
<1>11. Ids(r) = ids /\ EntriesInv(r)
  <2>1. Ids(r) = ids
    BY <1>9 DEF Ids
  <2>2. r.mapInfo \in [ids -> InfoType]
    BY <1>9, <1>10
  <2> QED BY <1>2, <1>5, <2>1, <2>2 DEF EntriesInv
<1>12. \A i, j \in ids : ip(i) = ip(j) => i = j
  <2> SUFFICES ASSUME NEW i \in ids, NEW j \in ids, ip(i) = ip(j) PROVE i = j
    OBVIOUS
  <2>1. Src(a, i) = Src(a, j)
    BY <1>3, <1>6 DEF AddrInv
  <2> QED BY <1>2, <2>1
<1>13. /\ DOMAIN r.mapAddr = {ip(j) : j \in ids} /\ \A j \in ids : r.mapAddr[ip(j)] = j
       /\ r.mapAddr = [x \in DOMAIN r.mapAddr |-> r.mapAddr[x]]
  <2>0. \A i : DumpRow(a, i).service = a.mapInfo[i].service
    BY DEF DumpRow
  <2>1. \A j \in ids : IpOf[d.new[j].service] = ip(j)
    <3> SUFFICES ASSUME NEW j \in ids PROVE IpOf[d.new[j].service] = ip(j)
      OBVIOUS
    <3>1. d.new[j] = DumpRow(a, Src(a, j))
      BY <1>1
    <3> QED BY <2>0, <3>1
  <2>2. {IpOf[d.new[j].service] : j \in 0..d.nNew - 1} = {ip(j) : j \in ids}
    BY <1>1, <2>1
  <2>3. DOMAIN r.mapAddr = {ip(j) : j \in ids} /\ r.mapAddr = [x \in DOMAIN r.mapAddr |-> r.mapAddr[x]]
    BY <1>4, <2>2 DEF NewAddr
  <2>4. \A j \in ids : r.mapAddr[ip(j)] = Holder(d, ip(j))
    BY <1>4, <2>2 DEF NewAddr
  <2>5. ASSUME NEW j \in ids PROVE r.mapAddr[ip(j)] = j
    <3> DEFINE h == Holder(d, ip(j))
    <3>1. h \in ids /\ IpOf[d.new[h].service] = ip(j)
      BY <1>1, <2>1 DEF Holder
    <3> HIDE DEF h
    <3>2. ip(h) = ip(j)
      BY <2>1, <3>1
    <3>3. h = j
      BY <1>12, <3>1, <3>2
    <3> QED BY <2>4, <3>3 DEF h
  <2> QED BY <2>3, <2>5
<1>14. AddrInv(r)
  <2>1. \A j \in ids : IpOf[r.mapInfo[j].service] = ip(j)
    BY <1>10
  <2>2. \A x \in DOMAIN r.mapAddr : r.mapAddr[x] \in ids /\ ip(r.mapAddr[x]) = x
    BY <1>13
  <2>3. r.mapAddr \in [DOMAIN r.mapAddr -> Ids(r)]
    BY <1>11, <1>13, <2>2
  <2>4. \A j \in Ids(r) : IpOf[r.mapInfo[j].service] \in DOMAIN r.mapAddr /\ r.mapAddr[IpOf[r.mapInfo[j].service]] = j
    BY <1>11, <1>13, <2>1, SMTT(60)
  <2>5. \A x \in DOMAIN r.mapAddr : IpOf[r.mapInfo[r.mapAddr[x]].service] = x
    BY <2>1, <2>2
  <2> QED BY <2>3, <2>4, <2>5 DEF AddrInv
<1>15. RandomInv(r) /\ Len(r.vRandom) = a.nNew
  <2>1. r.vRandom = [p \in 1..a.nNew |-> p - 1]
    BY <1>1, <1>4 DEF NewRandom
  <2>2. r.vRandom \in [1..a.nNew -> ids]
    BY <1>2, <2>1
  <2>3. r.vRandom \in Seq(ids) /\ Len(r.vRandom) = a.nNew
    <3> HIDE DEF ids
    <3> QED BY <1>2, <2>2, FunSeq
  <2>4. \A j \in ids : j + 1 \in 1..a.nNew /\ r.vRandom[j + 1] = j
    BY <1>2, <2>1
  <2>5. \A p \in 1..a.nNew : r.vRandom[p] \in ids /\ r.vRandom[p] + 1 = p
    BY <1>2, <2>1
  <2>6. \A j \in ids : r.mapInfo[j].nRandomPos \in 1..Len(r.vRandom) /\ r.vRandom[r.mapInfo[j].nRandomPos] = j
    BY <1>10, <2>3, <2>4
  <2>7. \A p \in 1..Len(r.vRandom) : r.mapInfo[r.vRandom[p]].nRandomPos = p
    BY <1>10, <2>3, <2>5
  <2> HIDE DEF ids
  <2> QED BY <1>11, <2>3, <2>6, <2>7 DEF RandomInv
<1>16. TriedIds(r) = {} /\ NewIds(r) = ids
  BY <1>10, <1>11 DEF TriedIds, NewIds, Ids
<1>17. NewInv(r, NoId)
  <2>1. r.vvNew \in [NewBuckets -> SUBSET Ids(r)]
    <3>1. r.vvNew = [b \in NewBuckets |-> r.vvNew[b]]
      BY <1>5 DEF NewDump
    <3>2. \A b \in NewBuckets : r.vvNew[b] \in SUBSET ids
      BY <1>5, BucketLoaded
    <3> HIDE DEF ids
    <3> QED BY <1>11, <3>1, <3>2
  <2>2. \A b \in NewBuckets : Cardinality(r.vvNew[b]) <= NEW_BUCKET_SIZE
    BY <1>5, BucketLoaded
  <2>3. ASSUME NEW j \in Ids(r)
        PROVE  r.mapInfo[j].nRefCount = Cardinality(NewPlaces(r, j)) + (IF j = NoId THEN 1 ELSE 0)
    <3>1. j \in ids /\ j # NoId /\ Cardinality(NewPlaces(r, j)) \in Nat
      BY <1>11, Finite DEF NoId
    <3>2. r.mapInfo[j].nRefCount = Cardinality(NewPlaces(r, j))
      BY <1>10, <3>1
    <3> QED BY <3>1, <3>2
  <2> QED BY <2>1, <2>2, <2>3 DEF NewInv
<1>18. RefInv(r, {})
  <2>1. ASSUME NEW j \in ids PROVE r.mapInfo[j].nRefCount \in 1..NEW_BUCKETS_PER_ADDRESS
    <3> DEFINE x == Src(a, j)
    <3>1. r.mapInfo[j].nRefCount = Cardinality(NewPlaces(a, x))
      BY <1>7, <1>10
    <3>2. x \in Ids(a) /\ x \in NewIds(a) /\ x # NoId
      BY <1>2, <1>3, <1>6 DEF EntriesInv, NoId
    <3> HIDE DEF x
    <3>3. Cardinality(NewPlaces(a, x)) \in Nat
      BY <1>3, Finite
    <3>4. a.mapInfo[x].nRefCount = Cardinality(NewPlaces(a, x))
      BY <1>3, <3>2, <3>3 DEF NewInv
    <3>5. a.mapInfo[x].nRefCount \in 1..NEW_BUCKETS_PER_ADDRESS
      BY <1>3, <3>2 DEF RefInv
    <3> QED BY <3>1, <3>4, <3>5
  <2> QED BY <1>16, <2>1 DEF RefInv
<1>19. TriedInv(r)
  <2>1. \A b \in TriedBuckets : r.vvTried[b] = <<>> /\ TriedOf(r, b) = {}
    BY <1>4, <1>16 DEF TriedOf, NoTried
  <2>2. Lists(<<>>, {}) /\ Len(<<>>) = 0
    BY DEF Lists
  <2>3. r.vvTried = [b \in TriedBuckets |-> r.vvTried[b]]
    BY <1>4 DEF NoTried
  <2>4. 0 <= TRIED_BUCKET_SIZE
    BY AddrManAssumption
  <2>5. \A b \in TriedBuckets : Lists(r.vvTried[b], TriedOf(r, b)) /\ Len(r.vvTried[b]) <= TRIED_BUCKET_SIZE
    BY <2>1, <2>2, <2>4
  <2> QED BY <2>3, <2>5 DEF TriedInv
<1>20. \A j \in Ids(r) : LoadRow(a, r, j)
  <2> SUFFICES ASSUME NEW j \in Ids(r) PROVE LoadRow(a, r, j)
    OBVIOUS
  <2>1. j \in ids /\ ~(j >= a.nNew)
    BY <1>2, <1>11
  <2> QED BY <1>10, <2>1 DEF LoadRow
<1>21. r.nIdCount \in a.nNew..(a.nNew + a.nTried) /\ Ids(r) = 0..(r.nIdCount - 1) /\ Len(r.vRandom) = r.nIdCount
  BY <1>2, <1>5, <1>11, <1>15
<1>22. LoadInv(a, r)
  <2> HIDE DEF ids, ip
  <2> QED BY <1>5, <1>11, <1>14, <1>15, <1>17, <1>18, <1>19, <1>20, <1>21 DEF LoadInv
<1> QED BY <1>5, <1>22

\* One round of the second loop of Unserialize.
LEMMA LoadRound ==
  ASSUME NEW a, ManInv(a, NoId), NEW d, d = Serialize(a), NEW n \in 1..a.nTried,
         NEW r, LoadInv(a, r), r.nIdCount = a.nNew + (n - 1), NEW q, q = LoadTried(r, d.tried[n - 1])
  PROVE  LoadInv(a, q) /\ q.nIdCount = a.nNew + n
<1>1. a.nNew \in Nat /\ a.nTried \in Nat
  BY Sources
<1>2. n - 1 \in 0..(a.nTried - 1) /\ r.nIdCount < a.nNew + a.nTried
  BY <1>1
<1>3. \A m \in 0..(a.nTried - 1) : d.tried[m] = DumpRow(a, Src(a, a.nNew + m))
  BY Dumped
<1>4. q = LoadTried(r, DumpRow(a, Src(a, r.nIdCount)))
  BY <1>2, <1>3
<1>5. LoadInv(a, q) /\ q.nIdCount = r.nIdCount + 1
  BY <1>2, <1>4, LoadStep
<1> QED BY <1>1, <1>5

\* While the tried entries are loaded the object is one of a set.
LEMMA LoadInvType ==
  ASSUME NEW a, ManInv(a, NoId), NEW r, LoadInv(a, r)
  PROVE  r \in ManType
<1>1. EntriesInv(r) /\ AddrInv(r) /\ RandomInv(r) /\ NewInv(r, NoId) /\ TriedInv(r)
  BY DEF LoadInv
<1>2. r.nTried \in Int /\ r.nNew \in Int
  <2>1. a.nNew \in Nat /\ a.nTried \in Nat
    BY Sources
  <2> QED BY <2>1 DEF LoadInv
<1> QED BY <1>1, <1>2, InManType

\* The file is loaded to its last entry.
LEMMA LoadAll ==
  ASSUME NEW a, ManInv(a, NoId), NEW r, r = Unserialize(Serialize(a))
  PROVE  LoadInv(a, r) /\ r.nIdCount = a.nNew + a.nTried
<1> DEFINE d == Serialize(a)
           k == d.nTried
           news == LoadedNew(d)
           T == {x \in ManType : LoadInv(a, x)}
           P == T \X (1..k)
           F == [x \in P |-> IF x[1].nIdCount = a.nNew + (x[2] - 1)
                             THEN LoadTried(x[1], d.tried[x[2] - 1]) ELSE x[1]]
           after == CHOOSE g : g = [n \in 0..k |-> IF n = 0 THEN news ELSE LoadTried(g[n - 1], d.tried[n - 1])]
<1>0. r = after[k]
  BY DEF Unserialize, LoadedNew
<1> HIDE DEF d
<1>1. k = a.nTried /\ k \in Nat /\ a.nNew \in Nat
  BY Sources, Dumped DEF d
<1>2. LoadInv(a, news) /\ news.nIdCount = a.nNew
  BY LoadNew DEF d
<1> HIDE DEF news, k
<1>3. news \in T
  BY <1>2, LoadInvType
<1>4. ASSUME NEW x \in T, NEW n \in 1..k, x.nIdCount = a.nNew + (n - 1)
      PROVE  LoadTried(x, d.tried[n - 1]) \in T /\ LoadTried(x, d.tried[n - 1]).nIdCount = a.nNew + n
  <2> DEFINE q == LoadTried(x, d.tried[n - 1])
  <2>1. LoadInv(a, x) /\ n \in 1..a.nTried /\ d = Serialize(a)
    BY <1>1 DEF d
  <2>2. LoadInv(a, q) /\ q.nIdCount = a.nNew + n
    BY <1>4, <2>1, LoadRound
  <2> HIDE DEF q
  <2>3. q \in T
    BY <2>2, LoadInvType
  <2> QED BY <2>2, <2>3 DEF q
<1>5. \A x \in T, n \in 1..k :
        F[<<x, n>>] = IF x.nIdCount = a.nNew + (n - 1) THEN LoadTried(x, d.tried[n - 1]) ELSE x
  <2> HIDE DEF T
  <2>1. \A x \in T, n \in 1..k : <<x, n>> \in P /\ <<x, n>>[1] = x /\ <<x, n>>[2] = n
    BY DEF P
  <2> QED BY <2>1, Zenon DEF F
<1> HIDE DEF F, T
<1>6. PICK g : IsRecursion(g, 0, k, news, F) /\ g \in [0..k -> T]
  <2>1. \A n \in (0 + 1)..k : \A x \in T : F[<<x, n>>] \in T
    <3> SUFFICES ASSUME NEW n \in (0 + 1)..k, NEW x \in T PROVE F[<<x, n>>] \in T
      OBVIOUS
    <3>1. n \in 1..k
      OBVIOUS
    <3> QED BY <1>4, <1>5, <3>1
  <2>2. 0 \in Nat /\ 0 <= k
    BY <1>1
  <2> QED BY <1>1, <1>3, <2>1, <2>2, RecursionExists
<1>7. \A n \in 0..k : g[n] = IF n = 0 THEN news ELSE F[<<g[n - 1], n>>]
  BY <1>6 DEF IsRecursion
<1>8. \A n \in 0..k : g[n] \in T /\ g[n].nIdCount = a.nNew + n
  <2> DEFINE H == {n \in 0..k : g[n].nIdCount = a.nNew + n}
  <2>1. 0 \in H
    <3>1. 0 \in 0..k /\ a.nNew + 0 = a.nNew
      BY <1>1
    <3> QED BY <1>2, <1>7, <3>1
  <2>2. ASSUME NEW n \in 0..k, n # k, n \in H PROVE n + 1 \in H
    <3>1. n + 1 \in 0..k /\ n + 1 \in 1..k /\ n + 1 # 0 /\ (n + 1) - 1 = n
      BY <1>1, <2>2
    <3>2. g[n] \in T /\ g[n].nIdCount = a.nNew + ((n + 1) - 1)
      BY <1>6, <2>2, <3>1
    <3>3a. g[n + 1] = F[<<g[(n + 1) - 1], n + 1>>]
      BY <1>7, <3>1
    <3>3b. g[n + 1] = F[<<g[n], n + 1>>]
      BY <3>1, <3>3a
    <3>3. g[n + 1] = LoadTried(g[n], d.tried[(n + 1) - 1])
      BY <1>5, <3>1, <3>2, <3>3b
    <3>4. g[n + 1].nIdCount = a.nNew + (n + 1)
      BY <1>4, <3>1, <3>2, <3>3
    <3> QED BY <3>1, <3>4
  <2> HIDE DEF H
  <2>3. \A n \in 0..k : n \in H
    BY <1>1, <2>1, <2>2, UpTo
  <2> QED BY <1>6, <2>3 DEF H
<1>9. g = [n \in 0..k |-> IF n = 0 THEN news ELSE LoadTried(g[n - 1], d.tried[n - 1])]
  <2>1. ASSUME NEW n \in 0..k, n # 0 PROVE g[n] = LoadTried(g[n - 1], d.tried[n - 1])
    <3>1. n \in 1..k /\ n - 1 \in 0..k
      BY <1>1, <2>1
    <3> QED BY <1>5, <1>7, <1>8, <2>1, <3>1
  <2>2. \A n \in 0..k : g[n] = IF n = 0 THEN news ELSE LoadTried(g[n - 1], d.tried[n - 1])
    BY <1>7, <2>1
  <2>3. g = [n \in 0..k |-> g[n]]
    BY <1>6
  <2> QED BY <2>2, <2>3
<1>10. after = [n \in 0..k |-> IF n = 0 THEN news ELSE LoadTried(after[n - 1], d.tried[n - 1])]
  BY <1>9
<1> HIDE DEF after
<1>11. \A n \in 0..k : after[n] \in T /\ after[n].nIdCount = a.nNew + n
  <2> DEFINE H == {n \in 0..k : after[n] \in T /\ after[n].nIdCount = a.nNew + n}
  <2>1. 0 \in H
    <3>1. 0 \in 0..k /\ a.nNew + 0 = a.nNew
      BY <1>1
    <3> QED BY <1>2, <1>3, <1>10, <3>1
  <2>2. ASSUME NEW n \in 0..k, n # k, n \in H PROVE n + 1 \in H
    <3>1. n + 1 \in 0..k /\ n + 1 \in 1..k /\ n + 1 # 0 /\ (n + 1) - 1 = n
      BY <1>1, <2>2
    <3>2. after[n] \in T /\ after[n].nIdCount = a.nNew + ((n + 1) - 1)
      BY <2>2, <3>1
    <3>3. after[n + 1] = LoadTried(after[n], d.tried[(n + 1) - 1])
      BY <1>10, <3>1
    <3>4. after[n + 1] \in T /\ after[n + 1].nIdCount = a.nNew + (n + 1)
      BY <1>4, <3>1, <3>2, <3>3
    <3> QED BY <3>1, <3>4
  <2> HIDE DEF H
  <2>3. \A n \in 0..k : n \in H
    BY <1>1, <2>1, <2>2, UpTo
  <2> QED BY <2>3 DEF H
<1>12. after[k] \in T /\ after[k].nIdCount = a.nNew + k
  BY <1>1, <1>11
<1> QED BY <1>0, <1>1, <1>12 DEF T

\* What View shows of an entry.
PeerOf(a, id) == <<a.mapInfo[id].service, a.mapInfo[id].source, a.mapInfo[id].everGood>>

NewView(a) == [b \in NewBuckets |-> {PeerOf(a, id) : id \in a.vvNew[b]}]

TriedView(a) == [b \in TriedBuckets |-> {PeerOf(a, id) : id \in TriedOf(a, b)}]

\* A tried bucket shows the tried entries that belong in it.
LEMMA Viewed ==
  ASSUME NEW a, TriedInv(a)
  PROVE  View(a) = [new |-> NewView(a), tried |-> TriedView(a)]
<1>1. ASSUME NEW b \in TriedBuckets
      PROVE  {PeerOf(a, a.vvTried[b][p]) : p \in DOMAIN a.vvTried[b]} = {PeerOf(a, id) : id \in TriedOf(a, b)}
  <2> DEFINE v == a.vvTried[b]
             S == TriedOf(a, b)
  <2>1. v \in Seq(S) /\ \A i \in S : \E p \in 1..Len(v) : v[p] = i
    BY DEF TriedInv, Lists
  <2> HIDE DEF v, S
  <2>2. DOMAIN v = 1..Len(v) /\ \A p \in 1..Len(v) : v[p] \in S
    BY <2>1
  <2>3. {PeerOf(a, v[p]) : p \in DOMAIN v} = {PeerOf(a, id) : id \in S}
    BY <2>1, <2>2
  <2> QED BY <2>3 DEF v, S
<1>2. [b \in TriedBuckets |-> {PeerOf(a, a.vvTried[b][p]) : p \in DOMAIN a.vvTried[b]}] = TriedView(a)
  BY <1>1 DEF TriedView
<1>3. View(a) = [new |-> NewView(a),
                 tried |-> [b \in TriedBuckets |-> {PeerOf(a, a.vvTried[b][p]) : p \in DOMAIN a.vvTried[b]}]]
  BY DEF View, NewView, PeerOf
<1> QED BY <1>2, <1>3

\* A restart keeps the invariant and every entry in its bucket.
LEMMA LoadKeeps ==
  ASSUME NEW a, ManInv(a, NoId), NEW r, r = Unserialize(Serialize(a))
  PROVE  ManInv(r, NoId) /\ View(r) = View(a)
<1> DEFINE lo == 0..(a.nNew - 1)
           hi == a.nNew..(a.nNew + a.nTried - 1)
<1>1. LoadInv(a, r) /\ r.nIdCount = a.nNew + a.nTried
  BY LoadAll
<1>2. /\ a.nNew \in Nat /\ a.nTried \in Nat
      /\ \A j \in lo : Src(a, j) \in NewIds(a) /\ Rank(NewIds(a), Src(a, j)) = j
      /\ \A j \in hi : Src(a, j) \in TriedIds(a) /\ Rank(TriedIds(a), Src(a, j)) = j - a.nNew
      /\ \A i \in NewIds(a) : Rank(NewIds(a), i) \in lo /\ Src(a, Rank(NewIds(a), i)) = i
      /\ \A i \in TriedIds(a) : /\ Rank(TriedIds(a), i) \in 0..(a.nTried - 1)
                                /\ Src(a, a.nNew + Rank(TriedIds(a), i)) = i
  BY Sources
<1>3. /\ EntriesInv(r) /\ AddrInv(r) /\ RandomInv(r) /\ NewInv(r, NoId) /\ RefInv(r, {}) /\ TriedInv(r)
      /\ r.nNew = a.nNew /\ r.nTried = a.nTried
      /\ Ids(r) = 0..(a.nNew + a.nTried - 1) /\ Len(r.vRandom) = a.nNew + a.nTried
      /\ r.vvNew = NewDump(a)
      /\ \A j \in Ids(r) : LoadRow(a, r, j)
  <2>1. /\ EntriesInv(r) /\ AddrInv(r) /\ RandomInv(r) /\ NewInv(r, NoId) /\ RefInv(r, {}) /\ TriedInv(r)
        /\ r.nNew = a.nNew /\ r.nTried = a.nTried
        /\ Ids(r) = 0..(r.nIdCount - 1) /\ Len(r.vRandom) = r.nIdCount
        /\ r.vvNew = NewDump(a)
    BY <1>1 DEF LoadInv
  <2>2. \A j \in Ids(r) : LoadRow(a, r, j)
    BY <1>1, Zenon DEF LoadInv
  <2>3. Ids(r) = 0..(a.nNew + a.nTried - 1) /\ Len(r.vRandom) = a.nNew + a.nTried
    <3>1. a.nNew + a.nTried - 1 = (a.nNew + a.nTried) - 1
      BY <1>2
    <3> QED BY <1>1, <2>1, <3>1
  <2> QED BY <2>1, <2>2, <2>3, Zenon
<1>4. /\ \A j \in lo : j \in Ids(r) /\ ~(j >= a.nNew)
      /\ \A j \in hi : j \in Ids(r) /\ j >= a.nNew
      /\ \A j \in Ids(r) : j >= a.nNew => j \in hi
      /\ \A j \in Ids(r) : ~(j >= a.nNew) => j \in lo
  BY <1>2, <1>3
<1>5. TriedIds(r) = hi /\ NewIds(r) = lo
  <2>1. \A j \in Ids(r) : r.mapInfo[j].fInTried <=> j >= a.nNew
    BY <1>3 DEF LoadRow
  <2> HIDE DEF lo, hi
  <2>2. TriedIds(r) = hi
    BY <1>4, <2>1 DEF TriedIds, Ids
  <2> QED BY <1>4, <2>2 DEF NewIds, Ids
<1>6. CountInv(r)
  <2>1. Cardinality(lo) = a.nNew
    <3>1. 0 \in Int /\ a.nNew - 1 \in Int
      BY <1>2
    <3>2. Cardinality(lo) = IF 0 > a.nNew - 1 THEN 0 ELSE (a.nNew - 1) - 0 + 1
      BY <3>1, FS_Interval
    <3> QED BY <1>2, <3>2
  <2>2. Cardinality(hi) = a.nTried
    <3>1. a.nNew \in Int /\ a.nNew + a.nTried - 1 \in Int
      BY <1>2
    <3>2. Cardinality(hi) = IF a.nNew > a.nNew + a.nTried - 1 THEN 0 ELSE (a.nNew + a.nTried - 1) - a.nNew + 1
      BY <3>1, FS_Interval
    <3> QED BY <1>2, <3>2
  <2> HIDE DEF lo, hi
  <2> QED BY <1>2, <1>3, <1>5, <2>1, <2>2 DEF CountInv
<1>7. ManInv(r, NoId)
  BY <1>3, <1>6 DEF ManInv
<1>8. \A j \in Ids(r) : /\ PeerOf(r, j) = PeerOf(a, Src(a, j))
                        /\ r.mapInfo[j].service = a.mapInfo[Src(a, j)].service
  BY <1>3 DEF LoadRow, PeerOf
<1>9. NewView(r) = NewView(a)
  <2> SUFFICES ASSUME NEW b \in NewBuckets
               PROVE  {PeerOf(r, id) : id \in r.vvNew[b]} = {PeerOf(a, id) : id \in a.vvNew[b]}
    BY DEF NewView
  <2> DEFINE D == r.vvNew[b]
             S == a.vvNew[b]
  <2>1. D \subseteq lo /\ \A j \in lo : j \in D <=> Src(a, j) \in S
    BY <1>3, BucketLoaded
  <2>2. S \subseteq NewIds(a)
    BY BucketsNew
  <2> HIDE DEF D, S, lo
  <2>3. \A j \in D : PeerOf(r, j) = PeerOf(a, Src(a, j)) /\ Src(a, j) \in S
    BY <1>4, <1>8, <2>1
  <2>4. \A i \in S : \E j \in D : PeerOf(r, j) = PeerOf(a, i)
    <3> SUFFICES ASSUME NEW i \in S PROVE \E j \in D : PeerOf(r, j) = PeerOf(a, i)
      OBVIOUS
    <3>1. Rank(NewIds(a), i) \in lo /\ Src(a, Rank(NewIds(a), i)) = i
      BY <1>2, <2>2
    <3>2. Rank(NewIds(a), i) \in D
      BY <2>1, <3>1
    <3> QED BY <2>3, <3>1, <3>2
  <2>5. {PeerOf(r, id) : id \in D} = {PeerOf(a, id) : id \in S}
    BY <2>3, <2>4
  <2> QED BY <2>5 DEF D, S
<1>10. TriedView(r) = TriedView(a)
  <2> SUFFICES ASSUME NEW b \in TriedBuckets
               PROVE  {PeerOf(r, id) : id \in TriedOf(r, b)} = {PeerOf(a, id) : id \in TriedOf(a, b)}
    BY DEF TriedView
  <2> DEFINE D == TriedOf(r, b)
             S == TriedOf(a, b)
  <2>0. \A i \in TriedIds(a) : a.nNew + Rank(TriedIds(a), i) \in hi
    BY <1>2
  <2> HIDE DEF hi
  <2>1. \A j \in D : j \in hi /\ j \in Ids(r) /\ TriedBucketOf[r.mapInfo[j].service] = b
    BY <1>4, <1>5 DEF TriedOf
  <2>2. \A j \in D : PeerOf(r, j) = PeerOf(a, Src(a, j)) /\ Src(a, j) \in S
    <3> SUFFICES ASSUME NEW j \in D PROVE PeerOf(r, j) = PeerOf(a, Src(a, j)) /\ Src(a, j) \in S
      OBVIOUS
    <3>1. j \in hi /\ j \in Ids(r) /\ TriedBucketOf[r.mapInfo[j].service] = b
      BY <2>1
    <3> HIDE DEF D
    <3> QED BY <1>2, <1>8, <3>1 DEF TriedOf
  <2>3. \A i \in S : \E j \in D : PeerOf(r, j) = PeerOf(a, i)
    <3> SUFFICES ASSUME NEW i \in S PROVE \E j \in D : PeerOf(r, j) = PeerOf(a, i)
      OBVIOUS
    <3> DEFINE j == a.nNew + Rank(TriedIds(a), i)
    <3>1. i \in TriedIds(a) /\ TriedBucketOf[a.mapInfo[i].service] = b
      BY DEF TriedOf
    <3>2. j \in hi /\ Src(a, j) = i
      BY <1>2, <2>0, <3>1
    <3> HIDE DEF j, D, S
    <3>3. j \in Ids(r) /\ j \in TriedIds(r)
      BY <1>4, <1>5, <3>2
    <3>4. PeerOf(r, j) = PeerOf(a, i) /\ TriedBucketOf[r.mapInfo[j].service] = b
      BY <1>8, <3>1, <3>2, <3>3
    <3>5. j \in D
      BY <3>3, <3>4 DEF D, TriedOf
    <3> QED BY <3>4, <3>5
  <2> HIDE DEF D, S
  <2>4. {PeerOf(r, id) : id \in D} = {PeerOf(a, id) : id \in S}
    BY <2>2, <2>3
  <2> QED BY <2>4 DEF D, S
<1>11. TriedInv(a)
  BY DEF ManInv
<1> QED BY <1>3, <1>7, <1>9, <1>10, <1>11, Viewed

-----------------------------------------------------------------------------
\* The invariant is what Check_ looks at.
LEMMA Checked ==
  ASSUME NEW a, ManInv(a, NoId)
  PROVE  /\ Consistent(a)
         /\ \A b \in NewBuckets : Cardinality(a.vvNew[b]) <= NEW_BUCKET_SIZE
         /\ \A b \in TriedBuckets : Len(a.vvTried[b]) <= TRIED_BUCKET_SIZE
<1>1. /\ EntriesInv(a) /\ AddrInv(a) /\ RandomInv(a) /\ CountInv(a)
      /\ NewInv(a, NoId) /\ RefInv(a, {}) /\ TriedInv(a)
  BY DEF ManInv
<1>2. Indexed(a)
  <2>1. DOMAIN a.vRandom = 1..Len(a.vRandom)
    BY <1>1 DEF RandomInv
  <2>2. \A id \in Ids(a) : /\ IpOf[a.mapInfo[id].service] \in DOMAIN a.mapAddr
                           /\ a.mapAddr[IpOf[a.mapInfo[id].service]] = id
    BY <1>1 DEF AddrInv
  <2>3. \A id \in Ids(a) : /\ a.mapInfo[id].nRandomPos \in DOMAIN a.vRandom
                           /\ a.vRandom[a.mapInfo[id].nRandomPos] = id
    BY <1>1, <2>1 DEF RandomInv
  <2>4. \A ip \in DOMAIN a.mapAddr : a.mapAddr[ip] \in Ids(a)
    BY <1>1 DEF AddrInv
  <2>5. Len(a.vRandom) = a.nTried + a.nNew
    BY <1>1 DEF CountInv
  <2> QED BY <2>2, <2>3, <2>4, <2>5 DEF Indexed, Ids
<1>3. Counted(a)
  BY <1>1 DEF CountInv, RefInv, Counted
<1>4. ASSUME NEW b \in TriedBuckets
      PROVE  /\ DOMAIN a.vvTried[b] = 1..Len(a.vvTried[b])
             /\ Len(a.vvTried[b]) \in Nat /\ Len(a.vvTried[b]) <= TRIED_BUCKET_SIZE
             /\ \A p \in DOMAIN a.vvTried[b] : a.vvTried[b][p] \in TriedOf(a, b)
             /\ \A i \in TriedOf(a, b) : \E p \in DOMAIN a.vvTried[b] : a.vvTried[b][p] = i
             /\ \A p, q \in DOMAIN a.vvTried[b] : a.vvTried[b][p] = a.vvTried[b][q] => p = q
  <2> DEFINE v == a.vvTried[b]
             S == TriedOf(a, b)
  <2>1. Lists(v, S) /\ Len(v) <= TRIED_BUCKET_SIZE
    BY <1>1 DEF TriedInv
  <2> HIDE DEF v, S
  <2>2. /\ DOMAIN v = 1..Len(v) /\ Len(v) \in Nat /\ \A p \in DOMAIN v : v[p] \in S
        /\ \A i \in S : \E p \in DOMAIN v : v[p] = i
        /\ \A p, q \in DOMAIN v : v[p] = v[q] => p = q
    BY <2>1, SMTT(60) DEF Lists
  <2> QED BY <2>1, <2>2 DEF v, S
<1>5. \A b \in TriedBuckets : TriedOf(a, b) \subseteq TriedIds(a)
  BY DEF TriedOf
<1>6. ASSUME NEW id \in Ids(a), ~a.mapInfo[id].fInTried PROVE Cardinality(TriedPlaces(a, id)) = 0
  <2>1. id \notin TriedIds(a)
    BY <1>6 DEF TriedIds
  <2>2. TriedPlaces(a, id) = {}
    BY <1>4, <1>5, <2>1 DEF TriedPlaces
  <2> QED BY <2>2, FS_EmptySet
<1>7. ASSUME NEW id \in Ids(a), a.mapInfo[id].fInTried PROVE Cardinality(TriedPlaces(a, id)) = 1
  <2> DEFINE b == TriedBucketOf[a.mapInfo[id].service]
  <2>1. b \in TriedBuckets
    <3>1. a.mapInfo[id] \in InfoType
      BY <1>1 DEF EntriesInv
    <3>2. a.mapInfo[id].service \in Service
      BY <3>1 DEF InfoType
    <3> QED BY <3>2, AddrManAssumption
  <2>2. id \in TriedOf(a, b)
    BY <1>7 DEF TriedOf, TriedIds, Ids
  <2>3. \A c \in TriedBuckets : id \in TriedOf(a, c) => c = b
    BY DEF TriedOf
  <2> HIDE DEF b
  <2>4. PICK p \in DOMAIN a.vvTried[b] : a.vvTried[b][p] = id
    BY <1>4, <2>1, <2>2
  <2>5. p \in 1..TRIED_BUCKET_SIZE
    BY <1>4, <2>1, <2>4, AddrManAssumption
  <2>6. <<b, p>> \in TriedPlaces(a, id)
    BY <2>1, <2>4, <2>5 DEF TriedPlaces
  <2>7. ASSUME NEW x \in TriedPlaces(a, id) PROVE x = <<b, p>>
    <3>1. /\ x = <<x[1], x[2]>> /\ x[1] \in TriedBuckets
          /\ x[2] \in DOMAIN a.vvTried[x[1]] /\ a.vvTried[x[1]][x[2]] = id
      BY DEF TriedPlaces
    <3>2. x[1] = b
      BY <1>4, <2>3, <3>1
    <3>3. x[2] = p
      BY <1>4, <2>1, <2>4, <3>1, <3>2
    <3> QED BY <3>1, <3>2, <3>3
  <2>8. TriedPlaces(a, id) = {<<b, p>>}
    BY <2>6, <2>7
  <2> QED BY <2>8, FS_Singleton
<1>8. \A id \in Ids(a) : Cardinality(TriedPlaces(a, id)) = IF a.mapInfo[id].fInTried THEN 1 ELSE 0
  BY <1>6, <1>7
<1>9. \A id \in Ids(a) : Cardinality(NewPlaces(a, id)) = a.mapInfo[id].nRefCount
  <2>1. \A id \in Ids(a) : id # NoId /\ Cardinality(NewPlaces(a, id)) \in Nat
    BY <1>1, Finite DEF EntriesInv, NoId
  <2> QED BY <1>1, <2>1 DEF NewInv
<1>10. \A b \in NewBuckets : a.vvNew[b] \subseteq Ids(a) /\ Cardinality(a.vvNew[b]) <= NEW_BUCKET_SIZE
  BY <1>1 DEF NewInv
<1>11. TriedIds(a) \subseteq Ids(a)
  BY DEF TriedIds, Ids
<1>12. Placed(a)
  BY <1>4, <1>5, <1>8, <1>9, <1>10, <1>11 DEF Placed, Ids
<1> QED BY <1>2, <1>3, <1>4, <1>10, <1>12 DEF Consistent

-----------------------------------------------------------------------------
\* The empty object.
LEMMA EmptyMan ==
  ManInv(CAddrMan, NoId)
<1> DEFINE NN == [b \in NewBuckets |-> {}]
           a == CAddrMan
<1>1. a = [nIdCount |-> 0, mapInfo |-> <<>>, mapAddr |-> <<>>, vRandom |-> <<>>,
           nTried |-> 0, nNew |-> 0, vvNew |-> NN, vvTried |-> NoTried]
  BY DEF CAddrMan, NoTried
<1> HIDE DEF NN, a
<1>2. /\ IsMan(a) /\ a.nIdCount = 0 /\ a.mapInfo = <<>> /\ a.mapAddr = <<>> /\ a.vRandom = <<>>
      /\ a.nTried = 0 /\ a.nNew = 0 /\ a.vvNew = NN /\ a.vvTried = NoTried
  BY <1>1 DEF IsMan
<1>3. Ids(a) = {} /\ TriedIds(a) = {} /\ NewIds(a) = {}
  BY <1>2 DEF Ids, TriedIds, NewIds
<1>4. EntriesInv(a)
  <2>1. a.mapInfo \in [{} -> InfoType]
    BY <1>2
  <2> QED BY <1>2, <1>3, <2>1 DEF EntriesInv
<1>5. AddrInv(a)
  <2>1. DOMAIN a.mapAddr = {} /\ a.mapAddr \in [{} -> Ids(a)]
    BY <1>2
  <2> QED BY <1>3, <2>1 DEF AddrInv
<1>6. RandomInv(a)
  BY <1>2, <1>3 DEF RandomInv
<1>7. CountInv(a)
  BY <1>2, <1>3, FS_EmptySet DEF CountInv
<1>8. NewInv(a, NoId)
  <2>1. \A b \in NewBuckets : a.vvNew[b] = {}
    BY <1>2 DEF NN
  <2>2. a.vvNew \in [NewBuckets -> SUBSET Ids(a)]
    BY <1>2 DEF NN
  <2>3. Cardinality({}) <= NEW_BUCKET_SIZE
    BY FS_EmptySet, AddrManAssumption
  <2> QED BY <1>3, <2>1, <2>2, <2>3 DEF NewInv
<1>9. RefInv(a, {})
  BY <1>3 DEF RefInv
<1>10. TriedInv(a)
  <2>1. \A b \in TriedBuckets : a.vvTried[b] = <<>> /\ TriedOf(a, b) = {}
    BY <1>2, <1>3 DEF TriedOf, NoTried
  <2>2. Lists(<<>>, {}) /\ Len(<<>>) = 0
    BY DEF Lists
  <2>3. a.vvTried = [b \in TriedBuckets |-> a.vvTried[b]]
    BY <1>2 DEF NoTried
  <2>4. 0 <= TRIED_BUCKET_SIZE
    BY AddrManAssumption
  <2>5. \A b \in TriedBuckets : Lists(a.vvTried[b], TriedOf(a, b)) /\ Len(a.vvTried[b]) <= TRIED_BUCKET_SIZE
    BY <2>1, <2>2, <2>4
  <2> QED BY <2>3, <2>5 DEF TriedInv
<1>11. ManInv(a, NoId)
  BY <1>4, <1>5, <1>6, <1>7, <1>8, <1>9, <1>10 DEF ManInv
<1> QED BY <1>11 DEF a

\* A share of at most a hundred percent is at most the whole.
LEMMA Percent ==
  ASSUME NEW p \in 0..100, NEW n \in Nat
  PROVE  (p * n) \div 100 \in Nat /\ (p * n) \div 100 <= n
<1>1. p * n \in Nat /\ p * n <= 100 * n
  OBVIOUS
<1> DEFINE x == p * n
<1> HIDE DEF x
<1>2. x \in Nat /\ x <= 100 * n
  BY <1>1 DEF x
<1>3. x \div 100 \in Nat /\ x \div 100 <= n
  BY <1>2
<1> QED BY <1>3 DEF x

\* The inductive invariant of the address manager.
ManSafe == ManInv(addrman, NoId)

\* Every method keeps it.
LEMMA ManSafeNext ==
  ASSUME ManSafe, [AddrNext]_addrman
  PROVE  ManSafe'
<1> DEFINE a == addrman
<1>0. ManInv(a, NoId)
  BY DEF ManSafe
<1>1. ASSUME NEW s \in Service, NEW src \in Source, Add(s, src) PROVE ManSafe'
  <2>1. addrman' \in Add_(addrman, s, src)
    BY <1>1 DEF Add
  <2> QED BY <1>0, <2>1, AddKeeps DEF ManSafe
<1>2. ASSUME NEW s \in Service, Good(s) PROVE ManSafe'
  <2>1. addrman' \in Good_(addrman, s)
    BY <1>2 DEF Good
  <2> QED BY <1>0, <2>1, GoodKeeps DEF ManSafe
<1>3. ASSUME GetAddr PROVE ManSafe'
  <2> DEFINE size == Len(addrman.vRandom)
             pct == (GETADDR_MAX_PCT * size) \div 100
             nNodes == IF pct > GETADDR_MAX THEN GETADDR_MAX ELSE pct
  <2>1. size \in Nat
    BY <1>0 DEF ManInv, RandomInv
  <2>2. PICK pos \in {f \in [1..nNodes -> 1..size] : \A n \in 1..nNodes : f[n] >= n} :
               addrman' = GetAddr_(addrman, nNodes, pos)
    BY <1>3 DEF GetAddr
  <2>3. \A n \in 1..nNodes : pos[n] \in 1..size
    OBVIOUS
  <2> HIDE DEF size
  <2>4. pct \in Nat /\ pct <= size
    BY <2>1, Percent, AddrManAssumption
  <2> HIDE DEF pct
  <2>5. nNodes \in Nat /\ nNodes <= size
    BY <2>1, <2>4, AddrManAssumption
  <2> HIDE DEF nNodes
  <2>6. ManInv(GetAddr_(addrman, nNodes, pos), NoId)
    BY <1>0, <2>3, <2>5, GetAddrKeeps DEF size
  <2> QED BY <2>2, <2>6 DEF ManSafe
<1>4. ASSUME LoadAddresses PROVE ManSafe'
  BY <1>0, <1>4, LoadKeeps DEF LoadAddresses, ManSafe
<1>5. ASSUME UNCHANGED addrman PROVE ManSafe'
  BY <1>0, <1>5 DEF ManSafe
<1> QED BY <1>1, <1>2, <1>3, <1>4, <1>5 DEF AddrNext

\* The indexes of the address manager agree after every call.
LEMMA ManAlwaysSafe ==
  AddrSpec => []ManSafe
<1>1. AddrInit => ManSafe
  BY EmptyMan DEF AddrInit, ManSafe
<1>2. ManSafe /\ [AddrNext]_addrman => ManSafe'
  BY ManSafeNext
<1> QED BY <1>1, <1>2, PTL DEF AddrSpec

\* The conditions of Check_ hold after every Add, Good, GetAddr and restart, for every
\* set of peers, every assignment of them to buckets, every bucket size and any number
\* of ids: the four indexes agree, the counts are right, and no bucket exceeds its size.
THEOREM AddrManChecks ==
  AddrSpec => []CheckPasses
<1>1. ManSafe => CheckPasses
  BY Checked DEF ManSafe, CheckPasses
<1> QED BY <1>1, ManAlwaysSafe, PTL

\* Whatever calls came before, a dump that is loaded again has every peer in the buckets
\* it was in and passes Check_; in particular no tried entry is dropped because its
\* bucket is full when its turn comes.
THEOREM AddressesLoadBack ==
  AddrSpec => []LoadsBack
<1>1. ManSafe => LoadsBack
  BY LoadKeeps, Checked DEF ManSafe, LoadsBack
<1> QED BY <1>1, ManAlwaysSafe, PTL

=============================================================================
