------------------------------- MODULE Cluster -------------------------------
(***************************************************************************)
(* The cluster agent of daemon/cluster.go: every node announces itself on  *)
(* the CLUSTER channel once a second, keeps the list of the nodes it has   *)
(* heard of, and derives from the position of its own name in that list    *)
(* the range of the sorted list of mirrors it must monitor (IsHandled).    *)
(* The mirror list of a node follows the MIRROR_UPDATE events that reach   *)
(* its monitor (syncMirrorList).                                           *)
(*                                                                         *)
(* Node and mirror identifiers are ordered; both are natural numbers here. *)
(* Time is discrete: Tick is one second.  Everything that goes wrong (a    *)
(* node that stops, a lost announcement, a lost subscription, a loop that  *)
(* is late by a second, a dropped event, a fetch that fails or finds an    *)
(* old record) draws from a finite FaultBudget, so that what must happen   *)
(* once the system is quiet can be stated.                                 *)
(***************************************************************************)
EXTENDS Naturals, Sequences, FiniteSets

CONSTANTS
    Node,         \* node names
    Mirror,       \* mirror identifiers
    InitCatalog,  \* the mirrors known to Redis at first
    ExpireSec,    \* seconds of silence after which a node is unreachable (5)
    ChanCap,      \* capacity of clusterChan (10)
    FaultBudget,  \* how many things may go wrong
    ChangeBudget  \* how many times a mirror is added or removed

ASSUME ClusterAssumption ==
    /\ Node \subseteq Nat /\ IsFiniteSet(Node)
    /\ Mirror \subseteq Nat \ {0} /\ IsFiniteSet(Mirror) /\ InitCatalog \subseteq Mirror
    /\ ExpireSec \in Nat /\ ChanCap \in Nat
    /\ FaultBudget \in Nat /\ ChangeBudget \in Nat

\* Mirror identifiers start at 1 (INCR LAST_MID); a record without the field ID
\* is scanned into a Mirror whose ID is 0.
NoID == 0
Listed == Mirror \cup {NoID}

VARIABLES
    running,    \* nodes whose cluster loop runs
    listening,  \* nodes whose Redis subscription is up
    nodes,      \* cluster.nodes: the names each node knows
    age,        \* seconds since LastAnnounce of a known node other than itself
    nodeIndex,  \* cluster.nodeIndex
    nodeTotal,  \* cluster.nodeTotal
    due,        \* nodes whose announceTicker has fired
    inbox,      \* clusterChan
    catalog,    \* MIRRORS in Redis
    mirrorsIndex, \* cluster.mirrorsIndex, a sorted slice without duplicates
    pending,    \* MIRROR_UPDATE events the monitor has not consumed
    missed,     \* history: mirrors whose last update the monitor did not apply
    faults,
    changes

viewVars == <<nodes, age, nodeIndex, nodeTotal>>
mirrorVars == <<catalog, mirrorsIndex, pending, missed, changes>>
vars == <<running, listening, viewVars, due, inbox, mirrorVars, faults>>

TypeOK ==
    /\ running \subseteq Node
    /\ listening \subseteq Node
    /\ nodes \in [Node -> SUBSET Node]
    /\ age \in [Node -> [Node -> 0..(ExpireSec + 1)]]
    /\ nodeIndex \in [Node -> Nat]
    /\ nodeTotal \in [Node -> Nat]
    /\ due \subseteq Node
    /\ inbox \in [Node -> Seq(Node)]
    /\ catalog \subseteq Mirror
    /\ mirrorsIndex \in [Node -> SUBSET Listed]
    /\ pending \in [Node -> SUBSET Mirror]
    /\ missed \in [Node -> SUBSET Listed]
    /\ faults \in 0..FaultBudget
    /\ changes \in 0..ChangeBudget

-----------------------------------------------------------------------------
(* Positions and ranges.                                                   *)

\* Position of x in the sorted list of the elements of S (sort.SearchInts,
\* and the index of self in the sorted c.nodes).
Position(x, S) == Cardinality({y \in S : y < x})

\* int(float32(mirrors) / float32(total) + 0.5)
MirrorRange(total, mirrors) == (2 * mirrors + total) \div (2 * total)

\* Mutant: the upper bound of the range is included.
InRangeInclusive(index, position, total, range) ==
    /\ index >= range * position
    /\ index <= range * (position + 1) \/ position = total - 1

\* The bound check of IsHandled.
InRange(index, position, total, range) ==
    /\ index >= range * position
    /\ index < range * position + range \/ position = total - 1

IsHandled(n, id) ==
    InRange(Position(id, mirrorsIndex[n]), nodeIndex[n], nodeTotal[n],
            MirrorRange(nodeTotal[n], Cardinality(mirrorsIndex[n])))

-----------------------------------------------------------------------------
(* The view of a node.                                                     *)

\* Mutant: nodes expire as soon as they have been silent for a second.
TooEagerlyExpired(n, id) ==
    {m \in nodes[n] : age[n][m] > 0 /\ m # id /\ m # n}

\* Mutant: the loop over the sorted nodes stops at the sender.
ExpiredBeforeSender(n, id) ==
    {m \in nodes[n] : age[n][m] > ExpireSec /\ m < id /\ m # n}

\* utils.ElapsedSec(LastAnnounce, 5), except for the sender and for itself.
Expired(n, id) ==
    {m \in nodes[n] : age[n][m] > ExpireSec /\ m # id /\ m # n}

\* refreshNodeList: expire, renew or add the sender, recompute the position.
RefreshNodeList(n, id) ==
    LET known == (nodes[n] \ Expired(n, id)) \cup {id} IN
    /\ nodes' = [nodes EXCEPT ![n] = known]
    /\ age' = [age EXCEPT ![n] =
                 [m \in Node |-> IF m \in known \ {id} THEN @[m] ELSE 0]]
    /\ nodeTotal' = [nodeTotal EXCEPT ![n] = Cardinality(known)]
    /\ nodeIndex' = [nodeIndex EXCEPT ![n] = Position(n, known)]

-----------------------------------------------------------------------------

Init ==
    /\ running = {}
    /\ listening = {}
    /\ nodes = [n \in Node |-> {}]
    /\ age = [n \in Node |-> [m \in Node |-> 0]]
    /\ nodeIndex = [n \in Node |-> 0]
    /\ nodeTotal = [n \in Node |-> 0]
    /\ due = {}
    /\ inbox = [n \in Node |-> <<>>]
    /\ catalog = InitCatalog
    /\ mirrorsIndex = [n \in Node |-> {}]
    /\ pending = [n \in Node |-> {}]
    /\ missed = [n \in Node |-> {}]
    /\ faults = 0
    /\ changes = 0

Fault == faults < FaultBudget /\ faults' = faults + 1

\* A process starts: MonitorLoop lists the mirrors, then starts the cluster
\* loop, which records itself before it subscribes to CLUSTER.  A mirror whose
\* fetch fails is skipped: syncMirrorList returns nil, so that nothing retries.
Start(n) ==
    /\ n \notin running
    /\ running' = running \cup {n}
    /\ listening' = listening \cup {n}
    /\ RefreshNodeList(n, n)
    /\ \E skipped \in SUBSET catalog :
          /\ \/ skipped = {} /\ UNCHANGED faults
             \/ skipped # {} /\ Fault
          /\ mirrorsIndex' = [mirrorsIndex EXCEPT ![n] = catalog \ skipped]
          /\ missed' = [missed EXCEPT ![n] = skipped]
    /\ UNCHANGED <<due, inbox, catalog, pending, changes>>

\* The process is stopped or killed; its announcements in flight remain.
Stop(n) ==
    /\ n \in running
    /\ Fault
    /\ running' = running \ {n}
    /\ listening' = listening \ {n}
    /\ due' = due \ {n}
    /\ nodes' = [nodes EXCEPT ![n] = {}]
    /\ age' = [age EXCEPT ![n] = [m \in Node |-> 0]]
    /\ nodeIndex' = [nodeIndex EXCEPT ![n] = 0]
    /\ nodeTotal' = [nodeTotal EXCEPT ![n] = 0]
    /\ inbox' = [inbox EXCEPT ![n] = <<>>]
    /\ mirrorsIndex' = [mirrorsIndex EXCEPT ![n] = {}]
    /\ pending' = [pending EXCEPT ![n] = {}]
    /\ missed' = [missed EXCEPT ![n] = {}]
    /\ UNCHANGED <<catalog, changes>>

\* announceTicker: HELLO is published and reaches the channel of every
\* subscriber, its sender included, unless that channel is full.
Announce(n) ==
    /\ n \in due
    /\ due' = due \ {n}
    /\ inbox' = [m \in Node |->
                   IF m \in listening /\ Len(inbox[m]) < ChanCap
                   THEN Append(inbox[m], n) ELSE inbox[m]]
    /\ UNCHANGED <<running, listening, viewVars, mirrorVars, faults>>

\* The PUBLISH of an announcement fails; its error is ignored.
AnnounceLost(n) ==
    /\ n \in due
    /\ Fault
    /\ due' = due \ {n}
    /\ UNCHANGED <<running, listening, viewVars, inbox, mirrorVars>>

\* The cluster loop reads its channel.
Receive(n) ==
    /\ inbox[n] # <<>>
    /\ RefreshNodeList(n, Head(inbox[n]))
    /\ inbox' = [inbox EXCEPT ![n] = Tail(@)]
    /\ UNCHANGED <<running, listening, due, mirrorVars, faults>>

\* The subscription connection breaks ...
Disconnect(n) ==
    /\ n \in listening
    /\ Fault
    /\ listening' = listening \ {n}
    /\ UNCHANGED <<running, viewVars, due, inbox, mirrorVars>>

\* ... and is re-established by the loop of database/pubsub.go.  The monitor is
\* not told: nothing lists the mirrors again.
Reconnect(n) ==
    /\ n \in running \ listening
    /\ listening' = listening \cup {n}
    /\ UNCHANGED <<running, viewVars, due, inbox, mirrorVars, faults>>

\* One second passes.  The loops have announced, and have read what they were
\* sent unless one of them is late.
Tick ==
    /\ due = {}
    /\ \/ (\A n \in Node : inbox[n] = <<>>) /\ UNCHANGED faults
       \/ (\E n \in Node : inbox[n] # <<>>) /\ Fault
    /\ due' = running
    /\ age' = [n \in Node |-> [m \in Node |->
                 IF m \in nodes[n] \ {n} /\ age[n][m] <= ExpireSec
                 THEN age[n][m] + 1 ELSE age[n][m]]]
    /\ UNCHANGED <<running, listening, nodes, nodeIndex, nodeTotal, inbox, mirrorVars>>

-----------------------------------------------------------------------------
(* The mirror lists.                                                       *)

\* MIRROR_UPDATE is published for id.
NotifyMirror(id) ==
    /\ pending' = [n \in Node |-> IF n \in listening
                                  THEN pending[n] \cup {id} ELSE pending[n]]
    /\ missed' = [n \in Node |-> IF n \in listening \/ n \notin running
                                 THEN missed[n] \ {id} ELSE missed[n] \cup {id}]

\* The mirror is added to, or removed from, Redis by the RPC server.
ChangeMirror(id) ==
    /\ changes < ChangeBudget
    /\ changes' = changes + 1
    /\ catalog' = IF id \in catalog THEN catalog \ {id} ELSE catalog \cup {id}
    /\ NotifyMirror(id)
    /\ UNCHANGED <<running, listening, viewVars, due, inbox, mirrorsIndex, faults>>

\* addMirrorIDToSlice and removeMirrorIDFromSlice keep a sorted slice without
\* duplicates, which is a set.
AddMirrorID(slice, id) == slice \cup {id}
RemoveMirrorID(slice, id) == slice \ {id}

\* Mutant: a mirror that has disappeared from Redis is not removed.
SyncKeepsRemoved(n, id) ==
    /\ id \in pending[n]
    /\ pending' = [pending EXCEPT ![n] = @ \ {id}]
    /\ mirrorsIndex' = [mirrorsIndex EXCEPT ![n] =
                          IF id \in catalog THEN AddMirrorID(@, id) ELSE @]
    /\ UNCHANGED <<running, listening, viewVars, due, inbox, catalog, missed,
                   changes, faults>>

\* syncMirrorList(id): AddMirror when Redis has the mirror, else RemoveMirrorID.
SyncMirrorList(n, id) ==
    /\ id \in pending[n]
    /\ pending' = [pending EXCEPT ![n] = @ \ {id}]
    /\ mirrorsIndex' = [mirrorsIndex EXCEPT ![n] =
                          IF id \in catalog THEN AddMirrorID(@, id)
                          ELSE RemoveMirrorID(@, id)]
    /\ UNCHANGED <<running, listening, viewVars, due, inbox, catalog, missed,
                   changes, faults>>

\* Redis answers the fetch of syncMirrorList with an error: the event has been
\* consumed and the list is left as it is.
SyncFails(n, id) ==
    /\ id \in pending[n]
    /\ Fault
    /\ pending' = [pending EXCEPT ![n] = @ \ {id}]
    /\ missed' = [missed EXCEPT ![n] = @ \cup {id}]
    /\ UNCHANGED <<running, listening, viewVars, due, inbox, catalog,
                   mirrorsIndex, changes>>

\* The mirror has been removed, but the fetch finds something: the old record, put
\* back into the cache by a request that had read it before the removal, or what a
\* late check has written to MIRROR_<id> since, a record without an ID.
SyncStale(n, id) ==
    /\ id \in pending[n] \ catalog
    /\ Fault
    /\ pending' = [pending EXCEPT ![n] = @ \ {id}]
    /\ \E found \in {id, NoID} :
          /\ mirrorsIndex' = [mirrorsIndex EXCEPT ![n] = AddMirrorID(@, found)]
          /\ missed' = [missed EXCEPT ![n] = @ \cup {id, found}]
    /\ UNCHANGED <<running, listening, viewVars, due, inbox, catalog, changes>>

\* invalidationEvent is full (the monitor is busy, for example scanning the
\* repository in its own goroutine): the event is dropped.
DropEvent(n, id) ==
    /\ id \in pending[n]
    /\ Fault
    /\ pending' = [pending EXCEPT ![n] = @ \ {id}]
    /\ missed' = [missed EXCEPT ![n] = @ \cup {id}]
    /\ UNCHANGED <<running, listening, viewVars, due, inbox, catalog,
                   mirrorsIndex, changes>>

-----------------------------------------------------------------------------

Next ==
    \/ Tick
    \/ \E n \in Node : Start(n) \/ Stop(n)
    \/ \E n \in Node : Announce(n) \/ AnnounceLost(n) \/ Receive(n)
    \/ \E n \in Node : Disconnect(n) \/ Reconnect(n)
    \/ \E id \in Mirror : ChangeMirror(id)
    \/ \E n \in Node, id \in Mirror : SyncMirrorList(n, id) \/ SyncFails(n, id)
    \/ \E n \in Node, id \in Mirror : SyncStale(n, id) \/ DropEvent(n, id)

Spec == Init /\ [][Next]_vars

\* Clocks advance, the loops of a running process run, and the pubsub loop
\* keeps trying to reconnect.
Fairness ==
    /\ WF_vars(Tick)
    /\ \A n \in Node :
          /\ WF_vars(Announce(n))
          /\ WF_vars(Receive(n))
          /\ WF_vars(Reconnect(n))
          /\ \A id \in Mirror : WF_vars(SyncMirrorList(n, id))

FairSpec == Spec /\ Fairness

-----------------------------------------------------------------------------
(* Properties.                                                             *)

Agree == \A n \in running : nodes[n] = running
SameMirrors == \A n, m \in running : mirrorsIndex[n] = mirrorsIndex[m]

\* IsHandled, cluster.go:192: while the running nodes have the same view of
\* the cluster and of the mirrors, every mirror is monitored by exactly one of
\* them, whatever happened before.
AgreedPartition ==
    running # {} /\ Agree /\ SameMirrors =>
        \A n \in running : \A id \in mirrorsIndex[n] :
            \E m \in running :
                /\ IsHandled(m, id)
                /\ \A o \in running : IsHandled(o, id) => o = m

\* The mirror list of a node differs from Redis only by mirrors whose update
\* event is still queued, was lost, or was consumed by a fetch that failed or found
\* an outdated record: whatever the nodes and the RPC server do in between, a list
\* that has applied the last event of a mirror agrees with Redis on it, and no list
\* holds the ID 0 of a record without ID unless such a record was fetched.
MirrorListsFollow ==
    \A n \in running : \A id \in Listed \ (pending[n] \cup missed[n]) :
        id \in mirrorsIndex[n] <=> id \in catalog

\* As long as nothing has gone wrong, no node drops another one from its view.
NoSpuriousExpiry ==
    [][ faults' = 0 => \A n \in Node : nodes[n] \subseteq nodes'[n] ]_vars

CoveredOnce ==
    \A id \in catalog :
        \E m \in running :
            /\ id \in mirrorsIndex[m] /\ IsHandled(m, id)
            /\ \A o \in running :
                  id \in mirrorsIndex[o] /\ IsHandled(o, id) => o = m

\* Once nothing goes wrong any more, the nodes agree for ever on who is in the
\* cluster (the dead have expired, the living have been heard) and, unless an
\* update event was lost, or the fetch it called for failed, or a mirror was skipped
\* at the start, every mirror of Redis is monitored by exactly one node.
ClusterSettles ==
    <>[](/\ Agree
         /\ running # {} /\ (\A n \in running : missed[n] = {}) => CoveredOnce)

=============================================================================
