------------------------------- MODULE Cache -------------------------------
(***************************************************************************)
(* The local cache of one node (mirrors/cache.go) and the invalidation     *)
(* path that feeds it: writers that change an object in Redis and publish  *)
(* an event, the Pubsub connection of the node (database/pubsub.go) with   *)
(* its disconnections, the bounded event channels, the goroutine of the    *)
(* cache that evicts, the callers that fill the cache (a read of Redis,    *)
(* then LRUCache.Set) and the copy of every mirror kept by the monitor.    *)
(*                                                                         *)
(* The content of an object is a version number; the constant Absent says  *)
(* in which versions the object does not exist.  Every copy of an object   *)
(* outside Redis carries a history bit, lost: its value was outdated when  *)
(* the event that would have evicted it was dropped, or was handled before *)
(* the copy reached the cache, or when the fetch the event called for      *)
(* failed.                                                                 *)
(***************************************************************************)
EXTENDS Naturals, Sequences

CONSTANTS
    Mirror, Path,
    Reader,       \* callers that can fill the cache at the same time
    Monitor,      \* the monitorLoop, the reader of invalidationEvent
    Absent,       \* versions in which an object does not exist
    ChanCap,      \* capacity of the event channels (10)
    InvalCap,     \* capacity of invalidationEvent (10)
    MaxVersion,   \* bound on the updates of one object
    UpdateBudget, \* bound on the updates
    FaultBudget   \* bound on the disconnections and the failed commands

ASSUME CacheAssumption ==
    /\ Monitor \notin Reader
    /\ ChanCap \in Nat /\ InvalCap \in Nat
    /\ MaxVersion \in Nat \ {0}
    /\ UpdateBudget \in Nat /\ FaultBudget \in Nat

\* The keys of fiCache, fmCache, mCache and fimCache.
FileInfoOf(p) == <<"fileInfo", p>>
FileMirrorsOf(p) == <<"fileMirrors", p>>
MirrorOf(m) == <<"mirror", m>>
MirrorFileOf(m, p) == <<"mirrorFile", m, p>>

Object ==
    {FileInfoOf(p) : p \in Path} \cup {FileMirrorsOf(p) : p \in Path}
    \cup {MirrorOf(m) : m \in Mirror}
    \cup {MirrorFileOf(m, p) : m \in Mirror, p \in Path}

Channel == {"FILE_UPDATE", "MIRROR_UPDATE", "MIRROR_FILE_UPDATE"}

Message ==
    [event : {"FILE_UPDATE"}, path : Path]
    \cup [event : {"MIRROR_UPDATE"}, mirror : Mirror]
    \cup [event : {"MIRROR_FILE_UPDATE"}, mirror : Mirror, path : Path]

NoMessage == [event |-> "none"]
NoObject == <<"none">>

MirrorUpdate(m) == [event |-> "MIRROR_UPDATE", mirror |-> m]

\* Mutant: the mirror is not evicted from the list of the file.
EvictsOneKey(msg) ==
    {o \in Object :
        \/ msg.event = "FILE_UPDATE" /\ o = FileInfoOf(msg.path)
        \/ msg.event = "MIRROR_UPDATE" /\ o = MirrorOf(msg.mirror)
        \/ msg.event = "MIRROR_FILE_UPDATE" /\ o = MirrorFileOf(msg.mirror, msg.path)}

\* The entries the cache deletes when it handles an event.
Evicts(msg) ==
    {o \in Object :
        \/ msg.event = "FILE_UPDATE" /\ o = FileInfoOf(msg.path)
        \/ msg.event = "MIRROR_UPDATE" /\ o = MirrorOf(msg.mirror)
        \/ /\ msg.event = "MIRROR_FILE_UPDATE"
           /\ o \in {FileMirrorsOf(msg.path), MirrorFileOf(msg.mirror, msg.path)}}

\* What a transaction that ends with the publication of msg has changed.
Changes(msg) ==
    {o \in Object :
        \/ msg.event = "FILE_UPDATE" /\ o = FileInfoOf(msg.path)
        \/ /\ msg.event = "MIRROR_FILE_UPDATE"
           /\ o \in {FileMirrorsOf(msg.path), MirrorFileOf(msg.mirror, msg.path)}}

VARIABLES
    db,           \* the version of each object in Redis
    owed,         \* per mirror, writes whose MIRROR_UPDATE is still to be sent
    link,         \* "connecting", "ready" (SUBSCRIBE sent) or "subscribed"
    disconnected, \* the variable of updateEvents
    wire,         \* messages Redis has sent to the subscriber
    channel,      \* the event channels of the cache
    worker,       \* where the goroutine of the cache is
    event,        \* the event it is handling
    cache,        \* the four LRU caches
    target,       \* per caller, the object it is fetching from Redis
    reading,      \* per caller, the value it has read and not yet stored
    inval,        \* invalidationEvent
    copy,         \* the mirrors of the monitor (deleted in an Absent version)
    updates, faults

redisVars == <<db, owed>>
linkVars == <<link, disconnected, wire>>
workerVars == <<worker, event>>
copies == <<cache, reading, copy>>
vars == <<redisVars, linkVars, channel, workerVars, target, copies, inval,
          updates, faults>>

Caller == Reader \cup {Monitor}

\* A copy of an object; version 0 is no copy.
Copy == [ver : 0..MaxVersion, lost : BOOLEAN]
Fresh(v) == [ver |-> v, lost |-> FALSE]
Nothing == Fresh(0)

TypeOK ==
    /\ db \in [Object -> 1..MaxVersion]
    /\ owed \in [Mirror -> Nat]
    /\ link \in {"connecting", "ready", "subscribed"}
    /\ disconnected \in BOOLEAN
    /\ wire \in Seq(Message)
    /\ channel \in [Channel -> Seq(Message)]
    /\ worker \in {"parked", "evict", "forward", "clear"}
    /\ event \in Message \cup {NoMessage}
    /\ worker \in {"evict", "forward"} => event \in Message
    /\ worker = "forward" => event.event = "MIRROR_UPDATE"
    /\ cache \in [Object -> Copy]
    /\ target \in [Caller -> Object \cup {NoObject}]
    /\ reading \in [Caller -> Copy]
    /\ target[Monitor] \in {MirrorOf(m) : m \in Mirror} \cup {NoObject}
    /\ inval \in Seq(Mirror)
    /\ copy \in [Mirror -> Copy]
    /\ updates \in Nat /\ faults \in Nat

\* A node that has just started: the cache is empty, the monitor has read the
\* mirrors of its list, but for those whose fetch failed (monitor.go:295-297).
Init ==
    /\ db = [o \in Object |-> 1]
    /\ owed = [m \in Mirror |-> 0]
    /\ link = "connecting"
    /\ disconnected = FALSE
    /\ wire = <<>>
    /\ channel = [c \in Channel |-> <<>>]
    /\ worker = "parked"
    /\ event = NoMessage
    /\ cache = [o \in Object |-> Nothing]
    /\ target = [r \in Caller |-> NoObject]
    /\ reading = [r \in Caller |-> Nothing]
    /\ inval = <<>>
    /\ copy \in [Mirror -> {Fresh(1), Nothing}]
    /\ updates = 0
    /\ faults = 0

-----------------------------------------------------------------------------
(* History: marking the copies that no event will evict any more.          *)

\* e is a copy of o that differs from the content d of Redis.
Outdated(d, e, o) == e.ver # 0 /\ e.ver # d[o]
Mark(d, e, o) == [ver |-> e.ver, lost |-> e.lost \/ Outdated(d, e, o)]

MarkCache(d, objs) ==
    cache' = [o \in Object |-> IF o \in objs THEN Mark(d, cache[o], o) ELSE cache[o]]
MarkReading(d, objs) ==
    reading' = [r \in Caller |->
        IF target[r] \in objs THEN Mark(d, reading[r], target[r]) ELSE reading[r]]
MarkCopy(d, ms) ==
    copy' = [m \in Mirror |-> IF m \in ms THEN Mark(d, copy[m], MirrorOf(m)) ELSE copy[m]]

\* The notification of a change of objs does not reach this node.
Lose(d, objs) ==
    /\ MarkCache(d, objs)
    /\ MarkReading(d, objs)
    /\ MarkCopy(d, {m \in Mirror : MirrorOf(m) \in objs})

-----------------------------------------------------------------------------
(* Writers: the scans, the RPCs and the health checks, on any node.        *)

\* PUBLISH: a node that is not subscribed never hears of it.
Published(d, msg) ==
    \/ /\ link = "subscribed"
       /\ wire' = Append(wire, msg)
       /\ UNCHANGED copies
    \/ /\ link # "subscribed"
       /\ Lose(d, Evicts(msg))
       /\ UNCHANGED wire

Update(objs) ==
    /\ updates < UpdateBudget
    /\ updates' = updates + 1
    /\ \A o \in objs : db[o] < MaxVersion
    /\ db' = [o \in Object |-> IF o \in objs THEN db[o] + 1 ELSE db[o]]

\* One file of a scan or of a refresh of the repository: the changes and the
\* PUBLISH are in the same transaction.
WriteFile(msg) ==
    /\ msg.event # "MIRROR_UPDATE"
    /\ Update(Changes(msg))
    /\ Published(db', msg)
    /\ UNCHANGED <<owed, link, disconnected, channel, workerVars, target, inval, faults>>

\* A change of MIRROR_<id>, whose PUBLISH is a later command.
WriteMirror(m) ==
    /\ Update({MirrorOf(m)})
    /\ owed' = [owed EXCEPT ![m] = @ + 1]
    /\ UNCHANGED <<linkVars, channel, workerVars, target, copies, inval, faults>>

PublishMirror(m) ==
    /\ owed[m] > 0
    /\ owed' = [owed EXCEPT ![m] = @ - 1]
    /\ Published(db, MirrorUpdate(m))
    /\ UNCHANGED <<db, link, disconnected, channel, workerVars, target, inval,
                   updates, faults>>

Fault == faults < FaultBudget /\ faults' = faults + 1

\* The writer dies before it publishes, or the command fails: the callers of
\* Publish ignore its error.
PublishFails(m) ==
    /\ owed[m] > 0
    /\ Fault
    /\ owed' = [owed EXCEPT ![m] = @ - 1]
    /\ Lose(db, {MirrorOf(m)})
    /\ UNCHANGED <<db, linkVars, channel, workerVars, target, inval, updates>>

-----------------------------------------------------------------------------
(* Pubsub.updateEvents                                                     *)

ChannelsEmpty == \A c \in Channel : channel[c] = <<>>

\* pubsubReconnectedEvent has no buffer: the send succeeds only if the worker is
\* blocked in its select.
Reconnected ==
    worker' = IF disconnected /\ worker = "parked" /\ ChannelsEmpty
              THEN "clear" ELSE worker

\* PING succeeds, the SUBSCRIBE commands are sent and, after a disconnection,
\* PUBSUB_RECONNECTED is dispatched, without waiting for Redis to subscribe.
Connect ==
    /\ link = "connecting"
    /\ link' = "ready"
    /\ disconnected' = FALSE
    /\ Reconnected
    /\ UNCHANGED <<redisVars, wire, channel, event, target, copies, inval, updates, faults>>

PingFails ==
    /\ link = "connecting"
    /\ ~disconnected
    /\ Fault
    /\ disconnected' = TRUE
    /\ UNCHANGED <<redisVars, link, wire, channel, workerVars, target, copies, inval, updates>>

\* Redis executes the SUBSCRIBE.
Subscribed ==
    /\ link = "ready"
    /\ link' = "subscribed"
    /\ UNCHANGED <<redisVars, disconnected, wire, channel, workerVars, target,
                   copies, inval, updates, faults>>

OnWire == UNION {Evicts(wire[i]) : i \in DOMAIN wire}

\* The connection breaks: what Redis had sent and was not received is lost.
Disconnect ==
    /\ link # "connecting"
    /\ Fault
    /\ link' = "connecting"
    /\ disconnected' = TRUE
    /\ wire' = <<>>
    /\ Lose(db, OnWire)
    /\ UNCHANGED <<redisVars, channel, workerVars, target, inval, updates>>

\* A send that does not block.
HasRoom(queue, cap) == Len(queue) < cap

\* handleMessage: a message for a full channel is dropped.
Deliver ==
    /\ wire # <<>>
    /\ wire' = Tail(wire)
    /\ LET msg == Head(wire)
       IN \/ /\ HasRoom(channel[msg.event], ChanCap)
             /\ channel' = [channel EXCEPT ![msg.event] = Append(@, msg)]
             /\ UNCHANGED copies
          \/ /\ ~HasRoom(channel[msg.event], ChanCap)
             /\ Lose(db, Evicts(msg))
             /\ UNCHANGED channel
    /\ UNCHANGED <<redisVars, link, disconnected, workerVars, target, inval, updates,
                   faults>>

-----------------------------------------------------------------------------
(* The goroutine of NewCache                                               *)

\* Mutant: the select has no case for MIRROR_FILE_UPDATE.
TakeIgnoresMirrorFiles(c) ==
    /\ worker = "parked"
    /\ c # "MIRROR_FILE_UPDATE"
    /\ channel[c] # <<>>
    /\ worker' = "evict"
    /\ event' = Head(channel[c])
    /\ channel' = [channel EXCEPT ![c] = Tail(@)]
    /\ UNCHANGED <<redisVars, linkVars, target, copies, inval, updates, faults>>

Take(c) ==
    /\ worker = "parked"
    /\ channel[c] # <<>>
    /\ worker' = "evict"
    /\ event' = Head(channel[c])
    /\ channel' = [channel EXCEPT ![c] = Tail(@)]
    /\ UNCHANGED <<redisVars, linkVars, target, copies, inval, updates, faults>>

\* Mutant: the monitor is told of the mirror, which stays in the cache.
EvictKeepsMirror ==
    /\ worker = "evict"
    /\ cache' = [o \in Object |-> IF /\ o \in Evicts(event)
                                    /\ event.event # "MIRROR_UPDATE"
                                 THEN Nothing ELSE cache[o]]
    /\ MarkReading(db, Evicts(event))
    /\ worker' = IF event.event = "MIRROR_UPDATE"
                 THEN "forward" ELSE "parked"
    /\ event' = IF event.event = "MIRROR_UPDATE" THEN event ELSE NoMessage
    /\ UNCHANGED <<redisVars, linkVars, channel, target, inval, copy, updates, faults>>

\* LRUCache.Delete of the entries, which cannot reach a value that a caller has
\* read and not yet stored.
Evict ==
    /\ worker = "evict"
    /\ cache' = [o \in Object |-> IF o \in Evicts(event) THEN Nothing ELSE cache[o]]
    /\ MarkReading(db, Evicts(event))
    /\ worker' = IF event.event = "MIRROR_UPDATE"
                 THEN "forward" ELSE "parked"
    /\ event' = IF event.event = "MIRROR_UPDATE" THEN event ELSE NoMessage
    /\ UNCHANGED <<redisVars, linkVars, channel, target, inval, copy, updates, faults>>

\* The non-blocking send on invalidationEvent.
Forward ==
    /\ worker = "forward"
    /\ worker' = "parked"
    /\ event' = NoMessage
    /\ \/ /\ HasRoom(inval, InvalCap)
          /\ inval' = Append(inval, event.mirror)
          /\ UNCHANGED copy
       \/ /\ ~HasRoom(inval, InvalCap)
          /\ MarkCopy(db, {event.mirror})
          /\ UNCHANGED inval
    /\ UNCHANGED <<redisVars, linkVars, channel, target, cache, reading, updates,
                   faults>>

ClearCache ==
    /\ worker = "clear"
    /\ cache' = [o \in Object |-> Nothing]
    /\ MarkReading(db, Object)
    /\ worker' = "parked"
    /\ UNCHANGED <<redisVars, linkVars, channel, event, target, inval, copy, updates,
                   faults>>

-----------------------------------------------------------------------------
(* GetFileInfo, GetMirrors, GetMirror, GetFileInfoMirror                   *)

IsMirror(o) == o[1] = "mirror"

\* GetMirrors does not trust an empty list of mirrors.
Miss(o) ==
    \/ cache[o] = Nothing
    \/ o[1] = "fileMirrors" /\ cache[o] # Nothing /\ cache[o].ver \in Absent

\* The Redis command of a fetch.
FetchRead(r, o) ==
    /\ target[r] = NoObject
    /\ Miss(o)
    /\ target' = [target EXCEPT ![r] = o]
    /\ reading' = [reading EXCEPT ![r] = Fresh(db[o])]
    /\ UNCHANGED <<redisVars, linkVars, channel, workerVars, cache, inval, copy,
                   updates, faults>>

\* LRUCache.Set of what r has read.  The least recently used entries of the same
\* cache may be dropped.  fetchMirror stores nothing for a mirror that is gone.
Store(r) ==
    LET o == target[r]
        nothingThere == IsMirror(o) /\ reading[r].ver \in Absent
        others == {q \in Object \ {o} : q[1] = o[1] /\ cache[q] # Nothing}
    IN \/ /\ nothingThere
          /\ UNCHANGED cache
       \/ /\ ~nothingThere
          /\ \E dropped \in SUBSET others :
                cache' = [q \in Object |->
                            IF q = o THEN reading[r]
                            ELSE IF q \in dropped THEN Nothing ELSE cache[q]]

FetchDone(r) ==
    /\ target' = [target EXCEPT ![r] = NoObject]
    /\ reading' = [reading EXCEPT ![r] = Nothing]

FetchSet(r) ==
    /\ target[r] # NoObject
    /\ Store(r)
    /\ FetchDone(r)
    /\ UNCHANGED <<redisVars, linkVars, channel, workerVars, inval, copy, updates,
                   faults>>

-----------------------------------------------------------------------------
(* monitor.syncMirrorList, for a mirror received from invalidationEvent    *)

SyncCached(m) ==
    /\ cache[MirrorOf(m)] # Nothing
    /\ copy' = [copy EXCEPT ![m] = cache[MirrorOf(m)]]
    /\ UNCHANGED <<target, reading>>

SyncRead(m) ==
    /\ cache[MirrorOf(m)] = Nothing
    /\ target' = [target EXCEPT ![Monitor] = MirrorOf(m)]
    /\ reading' = [reading EXCEPT ![Monitor] = Fresh(db[MirrorOf(m)])]
    /\ UNCHANGED copy

MonitorReceive ==
    /\ inval # <<>>
    /\ target[Monitor] = NoObject
    /\ SyncCached(Head(inval)) \/ SyncRead(Head(inval))
    /\ inval' = Tail(inval)
    /\ UNCHANGED <<redisVars, linkVars, channel, workerVars, cache, updates, faults>>

\* Redis answers with an error: the event has been consumed, the mirror is skipped.
MonitorFetchFails ==
    /\ inval # <<>>
    /\ target[Monitor] = NoObject
    /\ cache[MirrorOf(Head(inval))] = Nothing
    /\ Fault
    /\ MarkCopy(db, {Head(inval)})
    /\ inval' = Tail(inval)
    /\ UNCHANGED <<redisVars, linkVars, channel, workerVars, target, cache, reading,
                   updates>>

MonitorSet ==
    /\ target[Monitor] # NoObject
    /\ Store(Monitor)
    /\ copy' = [m \in Mirror |->
                  IF MirrorOf(m) = target[Monitor] THEN reading[Monitor] ELSE copy[m]]
    /\ FetchDone(Monitor)
    /\ UNCHANGED <<redisVars, linkVars, channel, workerVars, inval, updates, faults>>

-----------------------------------------------------------------------------

Next ==
    \/ \E msg \in Message : WriteFile(msg)
    \/ \E m \in Mirror : WriteMirror(m) \/ PublishMirror(m) \/ PublishFails(m)
    \/ Connect \/ PingFails \/ Subscribed \/ Disconnect \/ Deliver
    \/ \E c \in Channel : Take(c)
    \/ Evict \/ Forward \/ ClearCache
    \/ \E r \in Reader : FetchSet(r) \/ \E o \in Object : FetchRead(r, o)
    \/ MonitorReceive \/ MonitorFetchFails \/ MonitorSet

Spec == Init /\ [][Next]_vars

\* Every writer goes on to its PUBLISH, updateEvents and the worker are loops
\* that never return, and a caller that has its reply stores it.
Fairness ==
    /\ \A m \in Mirror : WF_vars(PublishMirror(m))
    /\ WF_vars(Connect) /\ WF_vars(Subscribed) /\ WF_vars(Deliver)
    /\ \A c \in Channel : WF_vars(Take(c))
    /\ WF_vars(Evict) /\ WF_vars(Forward) /\ WF_vars(ClearCache)
    /\ \A r \in Reader : WF_vars(FetchSet(r))
    /\ WF_vars(MonitorReceive) /\ WF_vars(MonitorSet)

FairSpec == Spec /\ Fairness

-----------------------------------------------------------------------------
(* Properties                                                              *)

ToEvict(o, msg) == o \in Evicts(msg)

\* An event that will evict o is on its way.
Pending(o) ==
    \/ \E m \in Mirror : owed[m] > 0 /\ ToEvict(o, MirrorUpdate(m))
    \/ \E i \in DOMAIN wire : ToEvict(o, wire[i])
    \/ \E c \in Channel : \E i \in DOMAIN channel[c] : ToEvict(o, channel[c][i])
    \/ worker = "evict" /\ ToEvict(o, event)

CopyPending(m) ==
    \/ Pending(MirrorOf(m))
    \/ worker = "forward" /\ event.mirror = m
    \/ \E i \in DOMAIN inval : inval[i] = m
    \/ target[Monitor] = MirrorOf(m)

\* An entry that differs from Redis is either about to be evicted, or its event
\* was lost on the way or handled while the value was between Redis and the
\* cache: there is no other way for the cache to go stale.
StaleHasCause ==
    \A o \in Object :
        Outdated(db, cache[o], o) /\ ~cache[o].lost => Pending(o)

\* The comment of GetMirrorInvalidationEvent: the monitor, told of a mirror after
\* the eviction, does not read the old value back from the cache.  Its copy is
\* current, or the change is still on its way, or the event was lost, or the fetch
\* it called for failed.  (A mirror whose first fetch failed has no copy.)
CopyHasCause ==
    \A m \in Mirror :
        Outdated(db, copy[m], MirrorOf(m)) /\ ~copy[m].lost => CopyPending(m)

\* An outdated entry whose event was not lost is evicted or marked in the end.
EvictionArrives ==
    \A o \in Object :
        Outdated(db, cache[o], o) /\ ~cache[o].lost
            ~> (~Outdated(db, cache[o], o) \/ cache[o].lost)

=============================================================================
