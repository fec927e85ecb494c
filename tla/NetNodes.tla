------------------------------- MODULE NetNodes -------------------------------
(***************************************************************************)
(* The life of a CNode (net.cpp, net.h): vNodes, the pool of disconnected   *)
(* nodes, the reference counts and the outbound grants of semOutbound.      *)
(*                                                                         *)
(* The socket handler creates inbound nodes, takes disconnected ones out of *)
(* vNodes and deletes them when their count is 0 and 15 minutes are over.   *)
(* It and the message handler work on a copy of vNodes whose nodes they     *)
(* hold a reference to.  The threads that open connections create outbound  *)
(* nodes, or join an existing node, and fill in its flags outside cs_vNodes *)
(* after the node was published.  Joining an existing node increments its   *)
(* count outside cs_vNodes as well: a read, and a write of what was read    *)
(* plus one.  A pending checkpoint is relayed along vNodes without the lock *)
(* and without references.                                                  *)
(***************************************************************************)
EXTENDS Integers, FiniteSets

CONSTANTS Conns,         \* every CNode object that is ever created
          NoConn,
          Addrs,         \* addresses of peers
          Openers,       \* threads that open connections
          UsesGrant,     \* those that wait for semOutbound (not -connect)
          nMaxOutbound, nMaxInbound

ASSUME NetAssumption ==
  /\ NoConn \notin Conns
  /\ IsFiniteSet(Openers) /\ UsesGrant \subseteq Openers
  /\ nMaxOutbound \in Nat /\ nMaxInbound \in Nat

VARIABLES node,                \* the CNode objects
          vNodes, vNodesDisconnected,
          vNodesCopy,          \* of each handler
          opener,              \* where each opener is, and with which node
          semOutbound,
          walk,                \* the nodes that a relay without cs_vNodes may be at
          races                \* of each node: the increments outside cs_vNodes that
                               \* wrote over other updates of the count

vars == <<node, vNodes, vNodesDisconnected, vNodesCopy, opener, semOutbound, walk, races>>

Handlers == {"socket", "message"}

\* nReleaseTime is in the future while held; life is that of the object.
NodeRecords ==
  [life : {"none", "live", "deleted"}, addr : Addrs, fInbound : BOOLEAN,
   fNetworkNode : BOOLEAN, fHasGrant : BOOLEAN, fDisconnect : BOOLEAN,
   nRefCount : Int, held : BOOLEAN]

OpenerRecords ==
  [pc : {"idle", "check", "connect", "dial", "addref", "incref", "grant", "set", "flag"},
   addr : Addrs, pnode : Conns \cup {NoConn}, nRead : Int]

NewNode(a, inbound) ==
  [life |-> "live", addr |-> a, fInbound |-> inbound, fNetworkNode |-> FALSE,
   fHasGrant |-> FALSE, fDisconnect |-> FALSE, nRefCount |-> 1, held |-> FALSE]

Init ==
  /\ \E a \in Addrs :
       /\ node = [c \in Conns |-> [NewNode(a, FALSE) EXCEPT !.life = "none"]]
       /\ opener = [o \in Openers |-> [pc |-> "idle", addr |-> a, pnode |-> NoConn,
                                      nRead |-> 0]]
  /\ vNodes = {} /\ vNodesDisconnected = {}
  /\ vNodesCopy = [h \in Handlers |-> {}]
  /\ semOutbound = nMaxOutbound
  /\ walk = {} /\ races = [c \in Conns |-> 0]

(***************************************************************************)
(* The socket handler.                                                     *)
(***************************************************************************)

GetRefCount(c) ==
  (IF node[c].nRefCount > 0 THEN node[c].nRefCount ELSE 0) + (IF node[c].held THEN 1 ELSE 0)

\* The nodes to disconnect: asked for, or nobody's and with empty buffers.
Unused(c) == GetRefCount(c) <= 0
ToDisconnect(idle) ==
  {c \in vNodes : node[c].fDisconnect \/ (Unused(c) /\ c \in idle)}

\* The owner's reference is released.
Owned(c) == node[c].fNetworkNode \/ node[c].fInbound

Disconnected(n) ==
  [n EXCEPT !.fDisconnect = TRUE, !.fHasGrant = FALSE, !.held = TRUE,
            !.nRefCount = IF n.fNetworkNode \/ n.fInbound THEN @ - 1 ELSE @]

\* Mutated form of ToDelete: the count is not looked at.
ToDeleteHeldOnly == {c \in vNodesDisconnected : ~node[c].held}

ToDelete == {c \in vNodesDisconnected : GetRefCount(c) <= 0}

Granted(S) == {c \in S : node[c].fHasGrant}

\* One pass with cs_vNodes held: disconnect, then delete what was in the pool.
DisconnectNodes ==
  /\ vNodesCopy["socket"] = {}
  /\ \E idle \in SUBSET vNodes :
       LET gone == ToDisconnect(idle) IN
         /\ gone # {} \/ ToDelete # {}
         /\ node' = [c \in Conns |->
                       IF c \in gone THEN Disconnected(node[c])
                       ELSE IF c \in ToDelete THEN [node[c] EXCEPT !.life = "deleted"]
                       ELSE node[c]]
         /\ vNodes' = vNodes \ gone
         /\ vNodesDisconnected' = (vNodesDisconnected \ ToDelete) \cup gone
         /\ semOutbound' = semOutbound + Cardinality(Granted(gone))
  /\ UNCHANGED <<vNodesCopy, opener, walk, races>>

\* A connection is accepted below the limit of inbound connections.
AcceptNode(c, a) ==
  /\ vNodesCopy["socket"] = {}
  /\ node[c].life = "none"
  /\ Cardinality({d \in vNodes : node[d].fInbound}) < nMaxInbound
  /\ node' = [node EXCEPT ![c] = NewNode(a, TRUE)]
  /\ vNodes' = vNodes \cup {c}
  /\ UNCHANGED <<vNodesDisconnected, vNodesCopy, opener, semOutbound, walk, races>>

\* Mutated form of CopyNodes: the references are not taken.
CopyNodesUnreferenced(h) ==
  /\ vNodesCopy[h] = {} /\ vNodes # {}
  /\ vNodesCopy' = [vNodesCopy EXCEPT ![h] = vNodes]
  /\ UNCHANGED <<node, vNodes, vNodesDisconnected, opener, semOutbound, walk, races>>

\* Either handler copies vNodes, with a reference to each node.
CopyNodes(h) ==
  /\ vNodesCopy[h] = {} /\ vNodes # {}
  /\ vNodesCopy' = [vNodesCopy EXCEPT ![h] = vNodes]
  /\ node' = [c \in Conns |-> IF c \in vNodes
                              THEN [node[c] EXCEPT !.nRefCount = @ + 1] ELSE node[c]]
  /\ UNCHANGED <<vNodes, vNodesDisconnected, opener, semOutbound, walk, races>>

\* The socket closed, failed, was flooded or silent, or the peer misbehaved.
CloseSocketDisconnect(h, c) ==
  /\ c \in vNodesCopy[h] /\ ~node[c].fDisconnect
  /\ node' = [node EXCEPT ![c].fDisconnect = TRUE]
  /\ UNCHANGED <<vNodes, vNodesDisconnected, vNodesCopy, opener, semOutbound, walk, races>>

\* The end of the handler's round.
ReleaseNodes(h) ==
  /\ vNodesCopy[h] # {}
  /\ node' = [c \in Conns |-> IF c \in vNodesCopy[h]
                              THEN [node[c] EXCEPT !.nRefCount = @ - 1] ELSE node[c]]
  /\ vNodesCopy' = [vNodesCopy EXCEPT ![h] = {}]
  /\ UNCHANGED <<vNodes, vNodesDisconnected, opener, semOutbound, walk, races>>

(***************************************************************************)
(* The threads that open connections.                                      *)
(***************************************************************************)

At(o, pc)   == opener[o].pc = pc
Goto(o, pc) == opener' = [opener EXCEPT ![o].pc = pc]

Done(o)     == opener' = [opener EXCEPT ![o].pc = "idle", ![o].pnode = NoConn]
Post(o)     == semOutbound' = IF o \in UsesGrant THEN semOutbound + 1 ELSE semOutbound

\* semOutbound->wait(), and an address was chosen.
WaitOutbound(o, a) ==
  /\ At(o, "idle")
  /\ o \in UsesGrant => semOutbound > 0
  /\ semOutbound' = IF o \in UsesGrant THEN semOutbound - 1 ELSE semOutbound
  /\ opener' = [opener EXCEPT ![o].pc = "check", ![o].addr = a]
  /\ UNCHANGED <<node, vNodes, vNodesDisconnected, vNodesCopy, walk, races>>

FindNode(a) == {c \in vNodes : node[c].addr = a}

\* Connected already, banned, or no address: the grant is released.
ReleaseGrant(o) ==
  /\ At(o, "check")
  /\ Done(o) /\ Post(o)
  /\ UNCHANGED <<node, vNodes, vNodesDisconnected, vNodesCopy, walk, races>>

OpenNetworkConnection(o) ==
  /\ At(o, "check") /\ FindNode(opener[o].addr) = {}
  /\ Goto(o, "connect")
  /\ UNCHANGED <<node, vNodes, vNodesDisconnected, vNodesCopy, semOutbound, walk, races>>

\* ConnectNode looks again: another thread may have connected meanwhile.
ConnectNodeExisting(o, c) ==
  /\ At(o, "connect") /\ c \in FindNode(opener[o].addr)
  /\ opener' = [opener EXCEPT ![o].pc = "addref", ![o].pnode = c]
  /\ UNCHANGED <<node, vNodes, vNodesDisconnected, vNodesCopy, semOutbound, walk, races>>

ConnectNodeDial(o) ==
  /\ At(o, "connect") /\ FindNode(opener[o].addr) = {}
  /\ Goto(o, "dial")
  /\ UNCHANGED <<node, vNodes, vNodesDisconnected, vNodesCopy, semOutbound, walk, races>>

ConnectFailed(o) ==
  /\ At(o, "dial")
  /\ Done(o) /\ Post(o)
  /\ UNCHANGED <<node, vNodes, vNodesDisconnected, vNodesCopy, walk, races>>

\* The node gets its reference, then it is published.
ConnectNode(o, c) ==
  /\ At(o, "dial") /\ node[c].life = "none"
  /\ node' = [node EXCEPT ![c] = NewNode(opener[o].addr, FALSE)]
  /\ vNodes' = vNodes \cup {c}
  /\ opener' = [opener EXCEPT ![o].pc = "grant", ![o].pnode = c]
  /\ UNCHANGED <<vNodesDisconnected, vNodesCopy, semOutbound, walk, races>>

\* nRefCount++ on an existing node, outside cs_vNodes: the count is read,
AddRefRead(o) ==
  /\ At(o, "addref")
  /\ opener' = [opener EXCEPT ![o].pc = "incref", ![o].nRead = node[opener[o].pnode].nRefCount]
  /\ UNCHANGED <<node, vNodes, vNodesDisconnected, vNodesCopy, semOutbound, walk, races>>

\* and written, over every update that was made since;
AddRefWrite(o) ==
  LET c == opener[o].pnode
      n == opener[o].nRead
  IN /\ At(o, "incref")
     /\ node' = [node EXCEPT ![c].nRefCount = n + 1]
     /\ races' = IF node[c].nRefCount = n THEN races ELSE [races EXCEPT ![c] = @ + 1]
     /\ opener' = [opener EXCEPT ![o].pc = "grant", ![o].nRead = 0]
     /\ UNCHANGED <<vNodes, vNodesDisconnected, vNodesCopy, semOutbound, walk>>

\* or it is written over by an update under the lock that has read before.
AddRefOverwritten(o) ==
  /\ At(o, "incref")
  /\ opener' = [opener EXCEPT ![o].pc = "grant", ![o].nRead = 0]
  /\ UNCHANGED <<node, vNodes, vNodesDisconnected, vNodesCopy, semOutbound, walk, races>>

\* Mutated form of ReadGrant: the grant is posted but kept as well.
ReadGrantKeep(o) ==
  /\ At(o, "grant")
  /\ IF node[opener[o].pnode].fHasGrant THEN Goto(o, "set") /\ Post(o)
     ELSE Goto(o, "set") /\ UNCHANGED semOutbound
  /\ UNCHANGED <<node, vNodes, vNodesDisconnected, vNodesCopy, walk, races>>

\* The node has a grant already, and the opener's is released; or it is to take
\* the opener's.
ReadGrant(o) ==
  /\ At(o, "grant")
  /\ IF node[opener[o].pnode].fHasGrant THEN Goto(o, "flag") /\ Post(o)
     ELSE Goto(o, "set") /\ UNCHANGED semOutbound
  /\ UNCHANGED <<node, vNodes, vNodesDisconnected, vNodesCopy, walk, races>>

SetGrant(o) ==
  /\ At(o, "set")
  /\ node' = [node EXCEPT ![opener[o].pnode].fHasGrant = o \in UsesGrant]
  /\ Goto(o, "flag")
  /\ UNCHANGED <<vNodes, vNodesDisconnected, vNodesCopy, semOutbound, walk, races>>

SetNetworkNode(o) ==
  /\ At(o, "flag")
  /\ node' = [node EXCEPT ![opener[o].pnode].fNetworkNode = TRUE]
  /\ Done(o)
  /\ UNCHANGED <<vNodes, vNodesDisconnected, vNodesCopy, semOutbound, walk, races>>

\* AcceptPendingSyncCheckpoint relays the checkpoint along vNodes, without cs_vNodes.
RelayStart ==
  /\ walk = {} /\ vNodes # {}
  /\ walk' = vNodes
  /\ UNCHANGED <<node, vNodes, vNodesDisconnected, vNodesCopy, opener, semOutbound, races>>

RelayEnd ==
  /\ walk # {} /\ walk' = {}
  /\ UNCHANGED <<node, vNodes, vNodesDisconnected, vNodesCopy, opener, semOutbound, races>>

\* The node's 15 minutes are over.  No opener needs that long between getting a
\* node and setting its last flag, and no relay that long along vNodes.
ReleaseTimePassed(c) ==
  /\ node[c].held
  /\ c \notin walk /\ \A o \in Openers : opener[o].pnode # c
  /\ node' = [node EXCEPT ![c].held = FALSE]
  /\ UNCHANGED <<vNodes, vNodesDisconnected, vNodesCopy, opener, semOutbound, walk, races>>

SocketNext ==
  \/ DisconnectNodes
  \/ \E c \in Conns, a \in Addrs : AcceptNode(c, a)
  \/ \E c \in Conns : ReleaseTimePassed(c)

HandlerNext(h) ==
  \/ CopyNodes(h)
  \/ \E c \in Conns : CloseSocketDisconnect(h, c)
  \/ ReleaseNodes(h)

OpenerNext(o) ==
  \/ \E a \in Addrs : WaitOutbound(o, a)
  \/ ReleaseGrant(o) \/ OpenNetworkConnection(o)
  \/ \E c \in Conns : ConnectNodeExisting(o, c)
  \/ ConnectNodeDial(o) \/ ConnectFailed(o)
  \/ \E c \in Conns : ConnectNode(o, c)
  \/ AddRefRead(o) \/ AddRefWrite(o) \/ AddRefOverwritten(o)
  \/ ReadGrant(o) \/ SetGrant(o) \/ SetNetworkNode(o)

Next ==
  \/ SocketNext
  \/ \E h \in Handlers : HandlerNext(h)
  \/ \E o \in Openers : OpenerNext(o)
  \/ RelayStart \/ RelayEnd

Spec == Init /\ [][Next]_vars

(***************************************************************************)
(* Properties.                                                             *)
(***************************************************************************)

\* How many references handler h has to the node.
Uses(h, c) == IF c \in vNodesCopy[h] THEN 1 ELSE 0
Users(c)   == Uses("socket", c) + Uses("message", c)

\* No thread ever has a node that was deleted: the release time keeps the object
\* while an opener still sets the node's flags or a checkpoint is relayed, and the
\* reference count while a handler works on its copy of vNodes, unless an increment
\* outside cs_vNodes wrote over other updates of that count.
NoUseAfterDelete ==
  \A c \in Conns :
    \/ c \in vNodes \/ c \in walk \/ (\E o \in Openers : opener[o].pnode = c)
    \/ Users(c) > 0 /\ races[c] = 0
      => node[c].life = "live"

\* A node counts the handlers that use it, and one more while it is in vNodes; an
\* increment outside cs_vNodes that writes over other updates, however many they
\* are, costs the node at most one of these references.
RefsCovered ==
  \A c \in Conns :
    node[c].life = "live" =>
      node[c].nRefCount + races[c] >= Users(c) + (IF c \in vNodes THEN 1 ELSE 0)

\* Never more outbound connections with a grant, grants under way and grants
\* left than there are: none is posted twice.
HoldsGrant(o) ==
  o \in UsesGrant /\ opener[o].pc \notin {"idle", "flag"}
GrantsBounded ==
  /\ semOutbound >= 0
  /\ semOutbound + Cardinality(Granted(vNodes))
       + Cardinality({o \in Openers : HoldsGrant(o)}) <= nMaxOutbound
===============================================================================
