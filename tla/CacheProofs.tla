---------------------------- MODULE CacheProofs ----------------------------
(***************************************************************************)
(* The only ways in which the cache, and the monitor's copy of a mirror,   *)
(* can go stale, for every number of mirrors, paths and callers and every  *)
(* capacity of the channels; and that the LRU caches it is made of account *)
(* for their entries and implement a bounded map, for every number of      *)
(* keys, values and capacities.                                            *)
(***************************************************************************)
EXTENDS Cache, LRU, FiniteSums, SequenceTheorems, TLAPS

-----------------------------------------------------------------------------
(* The objects an event is about.                                          *)

LEMMA MirrorObject ==
    \A m \in Mirror : MirrorOf(m) \in Object
    BY DEF Object

LEMMA EvictsObjects ==
    ASSUME NEW msg \in Message
    PROVE  Evicts(msg) \subseteq Object
    BY DEF Evicts

LEMMA ChangesEvicted ==
    ASSUME NEW msg \in Message
    PROVE  Changes(msg) \subseteq Evicts(msg)
    BY DEF Changes, Evicts

LEMMA MirrorUpdateType ==
    ASSUME NEW m \in Mirror
    PROVE  MirrorUpdate(m) \in Message /\ Evicts(MirrorUpdate(m)) = {MirrorOf(m)}
    BY MirrorObject DEF MirrorUpdate, Message, Evicts

LEMMA MirrorEvicted ==
    ASSUME NEW m \in Mirror, NEW msg \in Message, MirrorOf(m) \in Evicts(msg)
    PROVE  msg.event = "MIRROR_UPDATE" /\ msg.mirror = m
    BY DEF Evicts, Message, MirrorOf, FileInfoOf, FileMirrorsOf, MirrorFileOf

LEMMA MessageType ==
    ASSUME NEW msg \in Message
    PROVE  /\ msg.event \in Channel
           /\ msg.event = "MIRROR_UPDATE" => msg.mirror \in Mirror
    BY DEF Message, Channel

LEMMA MirrorOfInjective ==
    \A m, n \in Mirror : MirrorOf(m) = MirrorOf(n) => m = n
    BY DEF MirrorOf

-----------------------------------------------------------------------------
(* Queues.                                                                 *)

LEMMA AppendKeeps ==
    ASSUME NEW S, NEW s \in Seq(S), NEW x \in S
    PROVE  /\ Append(s, x) \in Seq(S)
           /\ \A i \in DOMAIN s : i \in DOMAIN Append(s, x) /\ Append(s, x)[i] = s[i]
           /\ \E i \in DOMAIN Append(s, x) : Append(s, x)[i] = x
<1>1. Len(s) + 1 \in DOMAIN Append(s, x) /\ Append(s, x)[Len(s) + 1] = x
    OBVIOUS
<1> QED BY <1>1

LEMMA TailKeeps ==
    ASSUME NEW S, NEW s \in Seq(S), s # <<>>
    PROVE  /\ Tail(s) \in Seq(S)
           /\ Head(s) \in S
           /\ \A i \in DOMAIN s :
                 s[i] = Head(s) \/ \E j \in DOMAIN Tail(s) : Tail(s)[j] = s[i]
<1>1. ASSUME NEW i \in DOMAIN s, s[i] # Head(s)
      PROVE  i - 1 \in DOMAIN Tail(s) /\ Tail(s)[i - 1] = s[i]
    BY <1>1
<1>2. Tail(s) \in Seq(S) /\ Head(s) \in S
    OBVIOUS
<1>3. ASSUME NEW i \in DOMAIN s
      PROVE  s[i] = Head(s) \/ \E j \in DOMAIN Tail(s) : Tail(s)[j] = s[i]
    BY <1>1
<1> QED BY <1>2, <1>3

-----------------------------------------------------------------------------
(* Marking.                                                                *)

\* A copy that is outdated although no event for it was lost.
Silent(d, e, o) == Outdated(d, e, o) /\ ~e.lost

LEMMA MarkType ==
    ASSUME NEW d, NEW o, NEW e \in Copy
    PROVE  Mark(d, e, o) \in Copy /\ ~Silent(d, Mark(d, e, o), o)
    BY DEF Mark, Outdated, Copy, Silent

LEMMA MarkReadingSilences ==
    ASSUME TypeOK, NEW objs, MarkReading(db', objs), UNCHANGED target
    PROVE  /\ reading' \in [Caller -> Copy]
           /\ \A r \in Caller : Silent(db', reading'[r], target'[r]) =>
                 reading'[r] = reading[r] /\ target[r] \notin objs
    BY MarkType DEF TypeOK, MarkReading

LEMMA MarkCopySilences ==
    ASSUME TypeOK, NEW ms, MarkCopy(db', ms)
    PROVE  /\ copy' \in [Mirror -> Copy]
           /\ \A m \in Mirror : Silent(db', copy'[m], MirrorOf(m)) =>
                 copy'[m] = copy[m] /\ m \notin ms
    BY MarkType DEF TypeOK, MarkCopy

LEMMA LoseSilences ==
    ASSUME TypeOK, NEW objs, Lose(db', objs), UNCHANGED target
    PROVE  /\ cache' \in [Object -> Copy]
           /\ reading' \in [Caller -> Copy]
           /\ copy' \in [Mirror -> Copy]
           /\ \A o \in Object : Silent(db', cache'[o], o) =>
                 cache'[o] = cache[o] /\ o \notin objs
           /\ \A r \in Caller : Silent(db', reading'[r], target'[r]) =>
                 reading'[r] = reading[r] /\ target[r] \notin objs
           /\ \A m \in Mirror : Silent(db', copy'[m], MirrorOf(m)) =>
                 copy'[m] = copy[m] /\ MirrorOf(m) \notin objs
<1>1. /\ cache' \in [Object -> Copy]
      /\ \A o \in Object : Silent(db', cache'[o], o) =>
            cache'[o] = cache[o] /\ o \notin objs
    BY MarkType DEF TypeOK, Lose, MarkCache
<1>2. MarkReading(db', objs) /\ MarkCopy(db', {m \in Mirror : MirrorOf(m) \in objs})
    BY DEF Lose
<1> QED BY <1>1, <1>2, MarkReadingSilences, MarkCopySilences

-----------------------------------------------------------------------------
(* The inductive invariant.                                                *)

ReadingHasCause ==
    \A r \in Caller :
        target[r] # NoObject /\ Silent(db, reading[r], target[r]) => Pending(target[r])

IInv == TypeOK /\ StaleHasCause /\ ReadingHasCause /\ CopyHasCause

LEMMA NoObjectIsNone == NoObject \notin Object
    BY DEF NoObject, Object, MirrorOf, FileInfoOf, FileMirrorsOf, MirrorFileOf

LEMMA NothingType == Nothing \in Copy /\ \A v \in 1..MaxVersion : Fresh(v) \in Copy
    BY CacheAssumption DEF Nothing, Fresh, Copy

LEMMA InitIInv == Init => IInv
<1> SUFFICES ASSUME Init PROVE IInv
    OBVIOUS
<1>1. Nothing \in Copy /\ Fresh(1) \in Copy /\ 1 \in 1..MaxVersion
    BY NothingType, CacheAssumption
<1>2. TypeOK
    <2>1. /\ cache \in [Object -> Copy] /\ reading \in [Caller -> Copy]
          /\ copy \in [Mirror -> Copy]
        BY <1>1 DEF Init
    <2>2. /\ db \in [Object -> 1..MaxVersion] /\ owed \in [Mirror -> Nat]
          /\ updates \in Nat /\ faults \in Nat
        BY <1>1 DEF Init
    <2>3. wire \in Seq(Message) /\ inval \in Seq(Mirror)
        BY DEF Init
    <2>4. channel \in [Channel -> Seq(Message)]
        BY DEF Init
    <2>5. /\ target \in [Caller -> Object \cup {NoObject}]
          /\ target[Monitor] = NoObject
        BY DEF Init, Caller
    <2> QED BY <2>1, <2>2, <2>3, <2>4, <2>5 DEF Init, TypeOK
<1>3. StaleHasCause /\ ReadingHasCause /\ CopyHasCause
    BY MirrorObject DEF Init, StaleHasCause, ReadingHasCause, CopyHasCause, Silent,
        Outdated, Nothing, Fresh
<1> QED BY <1>2, <1>3 DEF IInv

-----------------------------------------------------------------------------
(* Type correctness.                                                       *)

LEMMA PublishedType ==
    ASSUME TypeOK, NEW msg \in Message, Published(db', msg), UNCHANGED target
    PROVE  /\ wire' \in Seq(Message)
           /\ cache' \in [Object -> Copy] /\ reading' \in [Caller -> Copy]
           /\ copy' \in [Mirror -> Copy]
<1>1. CASE link = "subscribed"
    <2>1. wire' = Append(wire, msg) /\ UNCHANGED copies
        BY <1>1 DEF Published
    <2> QED BY <2>1, AppendKeeps DEF TypeOK, copies
<1>2. CASE link # "subscribed"
    <2>1. Lose(db', Evicts(msg)) /\ UNCHANGED wire
        BY <1>2 DEF Published
    <2> QED BY <2>1, LoseSilences DEF TypeOK
<1> QED BY <1>1, <1>2

LEMMA StoreType ==
    ASSUME TypeOK, NEW r \in Caller, Store(r)
    PROVE  cache' \in [Object -> Copy]
    BY NothingType DEF TypeOK, Store

LEMMA UpdateType ==
    ASSUME TypeOK, NEW objs, objs \subseteq Object, Update(objs)
    PROVE  /\ db' \in [Object -> 1..MaxVersion] /\ updates' \in Nat
           /\ \A o \in Object \ objs : db'[o] = db[o]
    BY CacheAssumption DEF TypeOK, Update

LEMMA WriterTypes ==
    ASSUME TypeOK
    PROVE  /\ \A msg \in Message : WriteFile(msg) => TypeOK'
           /\ \A m \in Mirror : WriteMirror(m) \/ PublishMirror(m) \/ PublishFails(m)
                                    => TypeOK'
<1>1. ASSUME NEW msg \in Message, WriteFile(msg) PROVE TypeOK'
    <2>1. db' \in [Object -> 1..MaxVersion] /\ updates' \in Nat
        BY <1>1, UpdateType, ChangesEvicted, EvictsObjects DEF WriteFile
    <2>2. /\ wire' \in Seq(Message)
          /\ cache' \in [Object -> Copy] /\ reading' \in [Caller -> Copy]
          /\ copy' \in [Mirror -> Copy]
        BY <1>1, PublishedType DEF WriteFile
    <2> QED BY <1>1, <2>1, <2>2 DEF TypeOK, WriteFile, workerVars
<1>2. ASSUME NEW m \in Mirror, WriteMirror(m) PROVE TypeOK'
    <2>1. db' \in [Object -> 1..MaxVersion] /\ updates' \in Nat
        BY <1>2, UpdateType, MirrorObject DEF WriteMirror
    <2>2. owed' \in [Mirror -> Nat]
        BY <1>2 DEF TypeOK, WriteMirror
    <2> QED BY <1>2, <2>1, <2>2 DEF TypeOK, WriteMirror, workerVars, copies, linkVars
<1>3. ASSUME NEW m \in Mirror, PublishMirror(m) PROVE TypeOK'
    <2>1. owed' \in [Mirror -> Nat]
        BY <1>3 DEF TypeOK, PublishMirror
    <2>2. Published(db', MirrorUpdate(m)) /\ UNCHANGED target
        BY <1>3 DEF PublishMirror
    <2>3. /\ wire' \in Seq(Message)
          /\ cache' \in [Object -> Copy] /\ reading' \in [Caller -> Copy]
          /\ copy' \in [Mirror -> Copy]
        BY <2>2, PublishedType, MirrorUpdateType
    <2> QED BY <1>3, <2>1, <2>3 DEF TypeOK, PublishMirror, workerVars
<1>4. ASSUME NEW m \in Mirror, PublishFails(m) PROVE TypeOK'
    <2>1. owed' \in [Mirror -> Nat] /\ faults' \in Nat
        BY <1>4 DEF TypeOK, PublishFails, Fault
    <2>2. Lose(db', {MirrorOf(m)}) /\ UNCHANGED target
        BY <1>4 DEF PublishFails
    <2>3. /\ cache' \in [Object -> Copy] /\ reading' \in [Caller -> Copy]
          /\ copy' \in [Mirror -> Copy]
        BY <2>2, LoseSilences
    <2> QED BY <1>4, <2>1, <2>3 DEF TypeOK, PublishFails, workerVars, linkVars
<1> QED BY <1>1, <1>2, <1>3, <1>4

LEMMA LinkTypes ==
    ASSUME TypeOK
    PROVE  Connect \/ PingFails \/ Subscribed \/ Disconnect \/ Deliver => TypeOK'
<1> USE DEF redisVars, workerVars, copies, linkVars
<1>1. ASSUME Connect PROVE TypeOK'
    BY <1>1 DEF TypeOK, Connect, Reconnected
<1>2. ASSUME PingFails PROVE TypeOK'
    BY <1>2 DEF TypeOK, PingFails, Fault
<1>3. ASSUME Subscribed PROVE TypeOK'
    BY <1>3 DEF TypeOK, Subscribed
<1>4. ASSUME Disconnect PROVE TypeOK'
    <2>1. Lose(db', OnWire) /\ UNCHANGED target
        BY <1>4 DEF Disconnect
    <2>2. /\ cache' \in [Object -> Copy] /\ reading' \in [Caller -> Copy]
          /\ copy' \in [Mirror -> Copy]
        BY <2>1, LoseSilences
    <2>3. faults' \in Nat /\ wire' \in Seq(Message)
        BY <1>4 DEF Disconnect, Fault, TypeOK
    <2> QED BY <1>4, <2>2, <2>3 DEF TypeOK, Disconnect
<1>5. ASSUME Deliver PROVE TypeOK'
    <2> DEFINE msg == Head(wire)
    <2>1. wire' \in Seq(Message) /\ msg \in Message /\ msg.event \in Channel
        BY <1>5, TailKeeps, MessageType DEF Deliver, TypeOK
    <2>2. CASE HasRoom(channel[msg.event], ChanCap)
        <3>1. channel' = [channel EXCEPT ![msg.event] = Append(@, msg)]
            BY <1>5, <2>2 DEF Deliver
        <3>2. channel' \in [Channel -> Seq(Message)]
            BY <3>1, <2>1, AppendKeeps DEF TypeOK
        <3>3. UNCHANGED copies
            BY <1>5, <2>2 DEF Deliver
        <3> QED BY <1>5, <2>1, <3>2, <3>3 DEF TypeOK, Deliver
    <2>3. CASE ~HasRoom(channel[msg.event], ChanCap)
        <3>1. Lose(db', Evicts(msg)) /\ UNCHANGED <<target, channel>>
            BY <1>5, <2>3 DEF Deliver
        <3>2. /\ cache' \in [Object -> Copy] /\ reading' \in [Caller -> Copy]
              /\ copy' \in [Mirror -> Copy]
            BY <3>1, LoseSilences
        <3> QED BY <1>5, <2>1, <3>1, <3>2 DEF TypeOK, Deliver
    <2> QED BY <2>2, <2>3
<1> QED BY <1>1, <1>2, <1>3, <1>4, <1>5

LEMMA WorkerTypes ==
    ASSUME TypeOK
    PROVE  (\E c \in Channel : Take(c)) \/ Evict \/ Forward \/ ClearCache => TypeOK'
<1> USE DEF redisVars, workerVars, copies, linkVars
<1>1. ASSUME NEW c \in Channel, Take(c) PROVE TypeOK'
    <2>1. event' \in Message /\ Tail(channel[c]) \in Seq(Message)
        BY <1>1, TailKeeps DEF Take, TypeOK
    <2>2. channel' \in [Channel -> Seq(Message)]
        BY <1>1, <2>1 DEF Take, TypeOK
    <2> QED BY <1>1, <2>1, <2>2 DEF TypeOK, Take
<1>2. ASSUME Evict PROVE TypeOK'
    <2>1. MarkReading(db', Evicts(event)) /\ UNCHANGED target
        BY <1>2 DEF Evict
    <2>2. reading' \in [Caller -> Copy]
        BY <2>1, MarkReadingSilences
    <2>3. cache' \in [Object -> Copy]
        BY <1>2, NothingType DEF TypeOK, Evict
    <2>4. /\ worker' \in {"forward", "parked"} /\ event' \in Message \cup {NoMessage}
          /\ worker' = "forward" => event' \in Message /\ event'.event = "MIRROR_UPDATE"
        BY <1>2 DEF TypeOK, Evict
    <2> QED BY <1>2, <2>2, <2>3, <2>4 DEF TypeOK, Evict
<1>3. ASSUME Forward PROVE TypeOK'
    <2>1. event.mirror \in Mirror
        BY <1>3, MessageType DEF Forward, TypeOK
    <2>2. CASE HasRoom(inval, InvalCap)
        <3>1. inval' = Append(inval, event.mirror) /\ UNCHANGED copy
            BY <1>3, <2>2 DEF Forward
        <3>2. inval' \in Seq(Mirror)
            BY <3>1, <2>1, AppendKeeps DEF TypeOK
        <3> QED BY <1>3, <3>1, <3>2 DEF TypeOK, Forward
    <2>3. CASE ~HasRoom(inval, InvalCap)
        <3>1. MarkCopy(db', {event.mirror}) /\ UNCHANGED inval
            BY <1>3, <2>3 DEF Forward
        <3>2. copy' \in [Mirror -> Copy]
            BY <3>1, MarkCopySilences
        <3> QED BY <1>3, <3>1, <3>2 DEF TypeOK, Forward
    <2> QED BY <2>2, <2>3
<1>4. ASSUME ClearCache PROVE TypeOK'
    <2>1. MarkReading(db', Object) /\ UNCHANGED target
        BY <1>4 DEF ClearCache
    <2>2. reading' \in [Caller -> Copy] /\ cache' \in [Object -> Copy]
        BY <1>4, <2>1, MarkReadingSilences, NothingType DEF ClearCache
    <2> QED BY <1>4, <2>2 DEF TypeOK, ClearCache
<1> QED BY <1>1, <1>2, <1>3, <1>4

LEMMA FetchTypes ==
    ASSUME TypeOK
    PROVE  /\ \A r \in Reader : FetchSet(r) \/ (\E o \in Object : FetchRead(r, o)) => TypeOK'
           /\ MonitorReceive \/ MonitorFetchFails \/ MonitorSet => TypeOK'
<1> USE DEF redisVars, workerVars, linkVars
<1>1. ASSUME NEW r \in Reader, NEW o \in Object, FetchRead(r, o) PROVE TypeOK'
    <2>1. Fresh(db[o]) \in Copy
        BY NothingType DEF TypeOK
    <2>2. r \in Caller /\ r # Monitor
        BY CacheAssumption DEF Caller
    <2>3. /\ target' \in [Caller -> Object \cup {NoObject}]
          /\ target'[Monitor] = target[Monitor] /\ reading' \in [Caller -> Copy]
        BY <1>1, <2>1, <2>2 DEF TypeOK, FetchRead, Caller
    <2> QED BY <1>1, <2>3 DEF TypeOK, FetchRead
<1>2. ASSUME NEW r \in Reader, FetchSet(r) PROVE TypeOK'
    <2>1. r \in Caller /\ r # Monitor
        BY CacheAssumption DEF Caller
    <2>2. /\ target' \in [Caller -> Object \cup {NoObject}]
          /\ target'[Monitor] = target[Monitor] /\ reading' \in [Caller -> Copy]
        BY <1>2, <2>1, NothingType DEF TypeOK, FetchSet, FetchDone, Caller
    <2>3. cache' \in [Object -> Copy]
        BY <1>2, <2>1, StoreType DEF FetchSet
    <2> QED BY <1>2, <2>2, <2>3 DEF TypeOK, FetchSet
<1>3. ASSUME MonitorReceive PROVE TypeOK'
    <2> DEFINE m == Head(inval)
    <2>1. m \in Mirror /\ inval' \in Seq(Mirror) /\ Monitor \in Caller
        BY <1>3, TailKeeps DEF MonitorReceive, TypeOK, Caller
    <2>2. MirrorOf(m) \in Object
        BY <2>1, MirrorObject
    <2>3. Fresh(db[MirrorOf(m)]) \in Copy
        BY <2>2, NothingType DEF TypeOK
    <2>4. CASE SyncCached(m)
        <3>1. copy' \in [Mirror -> Copy]
            BY <2>1, <2>2, <2>4 DEF SyncCached, TypeOK
        <3> QED BY <1>3, <2>1, <2>4, <3>1 DEF TypeOK, MonitorReceive, SyncCached
    <2>5. CASE SyncRead(m)
        <3>1. /\ target' \in [Caller -> Object \cup {NoObject}]
              /\ reading' \in [Caller -> Copy] /\ target'[Monitor] = MirrorOf(m)
            BY <2>1, <2>2, <2>3, <2>5 DEF SyncRead, TypeOK
        <3> QED BY <1>3, <2>1, <2>5, <3>1 DEF TypeOK, MonitorReceive, SyncRead
    <2> QED BY <1>3, <2>4, <2>5 DEF MonitorReceive
<1>4. ASSUME MonitorSet PROVE TypeOK'
    <2>1. Monitor \in Caller
        BY DEF Caller
    <2>2. /\ target' \in [Caller -> Object \cup {NoObject}]
          /\ target'[Monitor] = NoObject /\ reading' \in [Caller -> Copy]
        BY <1>4, <2>1, NothingType DEF TypeOK, MonitorSet, FetchDone
    <2>3. cache' \in [Object -> Copy]
        BY <1>4, <2>1, StoreType DEF MonitorSet
    <2>4. copy' \in [Mirror -> Copy]
        BY <1>4, <2>1 DEF MonitorSet, TypeOK
    <2> QED BY <1>4, <2>2, <2>3, <2>4 DEF TypeOK, MonitorSet
<1>5. ASSUME MonitorFetchFails PROVE TypeOK'
    <2>1. inval' \in Seq(Mirror) /\ faults' \in Nat
        BY <1>5, TailKeeps DEF MonitorFetchFails, Fault, TypeOK
    <2>2. MarkCopy(db', {Head(inval)})
        BY <1>5 DEF MonitorFetchFails
    <2>3. copy' \in [Mirror -> Copy]
        BY <2>2, MarkCopySilences
    <2> QED BY <1>5, <2>1, <2>3 DEF TypeOK, MonitorFetchFails
<1> QED BY <1>1, <1>2, <1>3, <1>4, <1>5

LEMMA TypeStep == TypeOK /\ [Next]_vars => TypeOK'
<1> SUFFICES ASSUME TypeOK, [Next]_vars PROVE TypeOK'
    OBVIOUS
<1>1. CASE Next
    BY <1>1, WriterTypes, LinkTypes, WorkerTypes, FetchTypes DEF Next
<1>2. CASE UNCHANGED vars
    BY <1>2 DEF TypeOK, vars, redisVars, linkVars, workerVars, copies
<1> QED BY <1>1, <1>2

-----------------------------------------------------------------------------
(* Causes.  A step is harmless outside objs when every copy that is silent *)
(* after it was there before it and is not of an object in objs, and every *)
(* event that was on its way still is, except the ones for objs.           *)

Carried(objs) ==
    /\ UNCHANGED target
    /\ \A o \in Object : Silent(db', cache'[o], o) =>
          cache'[o] = cache[o] /\ o \notin objs
    /\ \A r \in Caller : Silent(db', reading'[r], target'[r]) =>
          reading'[r] = reading[r] /\ target[r] \notin objs
    /\ \A m \in Mirror : Silent(db', copy'[m], MirrorOf(m)) =>
          copy'[m] = copy[m] /\ MirrorOf(m) \notin objs

StillPending(objs) ==
    \A o \in Object \ objs :
        (db'[o] = db[o] \/ Pending(o)') /\ (Pending(o) => Pending(o)')

StillCopyPending(objs) ==
    \A m \in Mirror : MirrorOf(m) \notin objs /\ CopyPending(m) => CopyPending(m)'

LEMMA CausesKept ==
    ASSUME IInv, NEW objs, Carried(objs), StillPending(objs), StillCopyPending(objs)
    PROVE  StaleHasCause' /\ ReadingHasCause' /\ CopyHasCause'
<1>1. StaleHasCause'
    BY DEF IInv, StaleHasCause, Carried, StillPending, Silent, Outdated
<1>2. ReadingHasCause'
    BY DEF IInv, TypeOK, ReadingHasCause, Carried, StillPending, Silent, Outdated
<1>3. CopyHasCause'
    <2> SUFFICES ASSUME NEW m \in Mirror,
                        Outdated(db, copy[m], MirrorOf(m))', ~copy'[m].lost
                 PROVE  CopyPending(m)'
        BY DEF CopyHasCause
    <2>1. MirrorOf(m) \in Object \ objs /\ copy'[m] = copy[m]
        BY MirrorObject DEF Carried, Silent, Outdated
    <2>2. CASE Pending(MirrorOf(m))'
        BY <2>2 DEF CopyPending
    <2>3. CASE ~Pending(MirrorOf(m))'
        <3>1. db'[MirrorOf(m)] = db[MirrorOf(m)]
            BY <2>1, <2>3 DEF StillPending
        <3>2. CopyPending(m)
            BY <2>1, <3>1 DEF IInv, CopyHasCause, Outdated
        <3> QED BY <2>1, <3>2 DEF StillCopyPending
    <2> QED BY <2>2, <2>3
<1> QED BY <1>1, <1>2, <1>3

LEMMA CarriedUnchanged ==
    ASSUME UNCHANGED <<target, copies>>
    PROVE  Carried({})
    BY DEF Carried, copies

LEMMA CarriedLose ==
    ASSUME TypeOK, NEW objs, Lose(db', objs), UNCHANGED target
    PROVE  Carried(objs)
    BY LoseSilences DEF Carried

\* The monitor's part of the invalidation path, when only the queues move.
LEMMA CopyPendingFollows ==
    ASSUME NEW objs, UNCHANGED <<worker, event, inval, target>>, StillPending(objs)
    PROVE  StillCopyPending(objs)
    BY MirrorObject DEF StillCopyPending, StillPending, CopyPending

LEMMA WriterCauses ==
    ASSUME IInv
    PROVE  /\ \A msg \in Message : WriteFile(msg) =>
                 StaleHasCause' /\ ReadingHasCause' /\ CopyHasCause'
           /\ \A m \in Mirror : WriteMirror(m) \/ PublishMirror(m) \/ PublishFails(m) =>
                 StaleHasCause' /\ ReadingHasCause' /\ CopyHasCause'
<1> USE DEF IInv, workerVars
<1>1. ASSUME NEW msg \in Message, WriteFile(msg)
      PROVE  StaleHasCause' /\ ReadingHasCause' /\ CopyHasCause'
    <2>1. \A o \in Object \ Evicts(msg) : db'[o] = db[o]
        BY <1>1, UpdateType, ChangesEvicted, EvictsObjects DEF WriteFile
    <2>2. CASE link = "subscribed"
        <3>1. wire' = Append(wire, msg) /\ UNCHANGED <<target, copies>>
            BY <1>1, <2>2 DEF WriteFile, Published
        <3>2. /\ \A i \in DOMAIN wire : i \in DOMAIN wire' /\ wire'[i] = wire[i]
              /\ \E i \in DOMAIN wire' : wire'[i] = msg
            BY <3>1, AppendKeeps DEF TypeOK
        <3>3. StillPending({})
            BY <1>1, <2>1, <3>2 DEF StillPending, Pending, ToEvict, WriteFile
        <3>4. StillCopyPending({})
            BY <1>1, <3>3, CopyPendingFollows DEF WriteFile
        <3> QED BY <3>1, <3>3, <3>4, CarriedUnchanged, CausesKept
    <2>3. CASE link # "subscribed"
        <3>1. Lose(db', Evicts(msg)) /\ UNCHANGED <<target, wire>>
            BY <1>1, <2>3 DEF WriteFile, Published
        <3>2. StillPending(Evicts(msg))
            BY <1>1, <2>1, <3>1 DEF StillPending, Pending, ToEvict, WriteFile
        <3>3. StillCopyPending(Evicts(msg))
            BY <1>1, <3>2, CopyPendingFollows DEF WriteFile
        <3> QED BY <3>1, <3>2, <3>3, CarriedLose, CausesKept
    <2> QED BY <2>2, <2>3
<1>2. ASSUME NEW m \in Mirror, WriteMirror(m)
      PROVE  StaleHasCause' /\ ReadingHasCause' /\ CopyHasCause'
    <2>1. \A o \in Object \ {MirrorOf(m)} : db'[o] = db[o]
        BY <1>2, UpdateType, MirrorObject DEF WriteMirror
    <2>2. owed'[m] > 0 /\ \A n \in Mirror : owed[n] > 0 => owed'[n] > 0
        BY <1>2 DEF WriteMirror, TypeOK
    <2>3. Pending(MirrorOf(m))'
        BY <2>2, MirrorUpdateType DEF Pending, ToEvict
    <2>4. \A o \in Object : Pending(o) => Pending(o)'
        BY <1>2, <2>2 DEF Pending, ToEvict, WriteMirror, linkVars
    <2>5. StillPending({})
        BY <2>1, <2>3, <2>4 DEF StillPending
    <2>6. StillCopyPending({})
        BY <1>2, <2>5, CopyPendingFollows DEF WriteMirror
    <2> QED BY <1>2, <2>5, <2>6, CarriedUnchanged, CausesKept DEF WriteMirror
<1>3. ASSUME NEW m \in Mirror, PublishMirror(m)
      PROVE  StaleHasCause' /\ ReadingHasCause' /\ CopyHasCause'
    <2>1. \A n \in Mirror : n # m /\ owed[n] > 0 => owed'[n] > 0
        BY <1>3 DEF PublishMirror, TypeOK
    <2>2. /\ MirrorUpdate(m) \in Message
          /\ Evicts(MirrorUpdate(m)) = {MirrorOf(m)}
        BY MirrorUpdateType
    <2>3. CASE link = "subscribed"
        <3>1. wire' = Append(wire, MirrorUpdate(m)) /\ UNCHANGED <<target, copies>>
            BY <1>3, <2>3 DEF PublishMirror, Published
        <3>2. /\ \A i \in DOMAIN wire : i \in DOMAIN wire' /\ wire'[i] = wire[i]
              /\ \E i \in DOMAIN wire' : wire'[i] = MirrorUpdate(m)
            <4>1. wire \in Seq(Message)
                BY DEF TypeOK
            <4> HIDE DEF IInv
            <4> QED BY <2>2, <3>1, <4>1, AppendKeeps
        <3>3. StillPending({})
            <4>1. ASSUME NEW o \in Object, o # MirrorOf(m), Pending(o) PROVE Pending(o)'
                BY <1>3, <2>1, <2>2, <3>2, <4>1 DEF Pending, ToEvict, PublishMirror
            <4>2. Pending(MirrorOf(m))'
                BY <2>2, <3>2 DEF Pending, ToEvict
            <4>3. db' = db
                BY <1>3 DEF PublishMirror
            <4> QED BY <4>1, <4>2, <4>3 DEF StillPending
        <3>4. StillCopyPending({})
            BY <1>3, <3>3, CopyPendingFollows DEF PublishMirror
        <3> QED BY <3>1, <3>3, <3>4, CarriedUnchanged, CausesKept
    <2>4. CASE link # "subscribed"
        <3>1. Lose(db', {MirrorOf(m)}) /\ UNCHANGED <<target, wire>>
            BY <1>3, <2>2, <2>4 DEF PublishMirror, Published
        <3>2. StillPending({MirrorOf(m)})
            BY <1>3, <2>1, <2>2, <3>1 DEF StillPending, Pending, ToEvict, PublishMirror
        <3>3. StillCopyPending({MirrorOf(m)})
            BY <1>3, <3>2, CopyPendingFollows DEF PublishMirror
        <3> QED BY <3>1, <3>2, <3>3, CarriedLose, CausesKept
    <2> QED BY <2>3, <2>4
<1>4. ASSUME NEW m \in Mirror, PublishFails(m)
      PROVE  StaleHasCause' /\ ReadingHasCause' /\ CopyHasCause'
    <2>1. \A n \in Mirror : n # m /\ owed[n] > 0 => owed'[n] > 0
        BY <1>4 DEF PublishFails, TypeOK
    <2>2. Lose(db', {MirrorOf(m)}) /\ UNCHANGED target
        BY <1>4 DEF PublishFails
    <2>3. StillPending({MirrorOf(m)})
        BY <1>4, <2>1, MirrorUpdateType
        DEF StillPending, Pending, ToEvict, PublishFails, linkVars
    <2>4. StillCopyPending({MirrorOf(m)})
        BY <1>4, <2>3, CopyPendingFollows DEF PublishFails
    <2> QED BY <2>2, <2>3, <2>4, CarriedLose, CausesKept
<1> QED BY <1>1, <1>2, <1>3, <1>4

LEMMA LinkCauses ==
    ASSUME IInv
    PROVE  Connect \/ PingFails \/ Subscribed \/ Disconnect \/ Deliver =>
               StaleHasCause' /\ ReadingHasCause' /\ CopyHasCause'
<1> USE DEF IInv, workerVars, redisVars
<1>1. ASSUME Connect PROVE StaleHasCause' /\ ReadingHasCause' /\ CopyHasCause'
    <2>1. /\ UNCHANGED <<db, owed, wire, channel, event, target, copies, inval>>
          /\ worker' = worker \/ worker = "parked"
        BY <1>1 DEF Connect, Reconnected
    <2>2. StillPending({})
        BY <2>1 DEF StillPending, Pending, ToEvict
    <2>3. StillCopyPending({})
        BY <2>1, <2>2, MirrorObject DEF StillCopyPending, StillPending, CopyPending
    <2> QED BY <2>1, <2>2, <2>3, CarriedUnchanged, CausesKept
<1>2. ASSUME PingFails \/ Subscribed
      PROVE  StaleHasCause' /\ ReadingHasCause' /\ CopyHasCause'
    <2>1. UNCHANGED <<db, owed, wire, channel, worker, event, target, copies, inval>>
        BY <1>2 DEF PingFails, Subscribed
    <2>2. StillPending({})
        BY <2>1 DEF StillPending, Pending, ToEvict
    <2> QED BY <2>1, <2>2, CopyPendingFollows, CarriedUnchanged, CausesKept
<1>3. ASSUME Disconnect PROVE StaleHasCause' /\ ReadingHasCause' /\ CopyHasCause'
    <2>1. Lose(db', OnWire) /\ UNCHANGED target
        BY <1>3 DEF Disconnect
    <2>2. \A o \in Object \ OnWire : ~\E i \in DOMAIN wire : ToEvict(o, wire[i])
        BY DEF OnWire, ToEvict
    <2>3. StillPending(OnWire)
        BY <1>3, <2>2 DEF StillPending, Pending, ToEvict, Disconnect
    <2>4. StillCopyPending(OnWire)
        BY <1>3, <2>3, CopyPendingFollows DEF Disconnect
    <2> QED BY <2>1, <2>3, <2>4, CarriedLose, CausesKept
<1>4. ASSUME Deliver PROVE StaleHasCause' /\ ReadingHasCause' /\ CopyHasCause'
    <2> DEFINE msg == Head(wire)
    <2>1. /\ msg \in Message /\ msg.event \in Channel
          /\ \A i \in DOMAIN wire :
                wire[i] = msg \/ \E j \in DOMAIN wire' : wire'[j] = wire[i]
        BY <1>4, TailKeeps, MessageType DEF Deliver, TypeOK
    <2>2. UNCHANGED <<db, owed, worker, event, target, inval>>
        BY <1>4 DEF Deliver
    <2>3. CASE HasRoom(channel[msg.event], ChanCap)
        <3>1. /\ channel' = [channel EXCEPT ![msg.event] = Append(@, msg)]
              /\ UNCHANGED copies
            BY <1>4, <2>3 DEF Deliver
        <3>2. /\ \A i \in DOMAIN channel[msg.event] :
                    /\ i \in DOMAIN channel'[msg.event]
                    /\ channel'[msg.event][i] = channel[msg.event][i]
              /\ \E i \in DOMAIN channel'[msg.event] : channel'[msg.event][i] = msg
              /\ \A c \in Channel : c # msg.event => channel'[c] = channel[c]
            <4>1. /\ channel[msg.event] \in Seq(Message)
                  /\ channel'[msg.event] = Append(channel[msg.event], msg)
                  /\ \A c \in Channel : c # msg.event => channel'[c] = channel[c]
                BY <2>1, <3>1 DEF TypeOK
            <4> HIDE DEF IInv, msg
            <4> QED BY <2>1, <4>1, AppendKeeps
        <3>3. StillPending({})
            <4>1. ASSUME NEW o \in Object, ToEvict(o, msg) PROVE Pending(o)'
                BY <2>1, <3>2, <4>1 DEF Pending, ToEvict
            <4>2. ASSUME NEW o \in Object, Pending(o), ~ToEvict(o, msg) PROVE Pending(o)'
                <5>1. CASE \E c \in Channel : \E i \in DOMAIN channel[c] :
                               ToEvict(o, channel[c][i])
                    <6>1. PICK c \in Channel : \E i \in DOMAIN channel[c] :
                               ToEvict(o, channel[c][i])
                        BY <5>1
                    <6>2. \E i \in DOMAIN channel'[c] : ToEvict(o, channel'[c][i])
                        BY <3>2, <6>1
                    <6> QED BY <6>2 DEF Pending, ToEvict
                <5>2. CASE \E i \in DOMAIN wire : ToEvict(o, wire[i])
                    BY <2>1, <4>2, <5>2 DEF Pending, ToEvict
                <5> QED BY <2>2, <4>2, <5>1, <5>2 DEF Pending, ToEvict
            <4> QED BY <2>2, <4>1, <4>2 DEF StillPending
        <3> QED BY <2>2, <3>1, <3>3, CopyPendingFollows, CarriedUnchanged, CausesKept
    <2>4. CASE ~HasRoom(channel[msg.event], ChanCap)
        <3>1. Lose(db', Evicts(msg)) /\ UNCHANGED channel
            BY <1>4, <2>4 DEF Deliver
        <3>2. StillPending(Evicts(msg))
            BY <2>1, <2>2, <3>1 DEF StillPending, Pending, ToEvict
        <3> QED BY <2>2, <3>1, <3>2, CopyPendingFollows, CarriedLose, CausesKept
    <2> QED BY <2>3, <2>4
<1> QED BY <1>1, <1>2, <1>3, <1>4

LEMMA WorkerCauses ==
    ASSUME IInv
    PROVE  (\E c \in Channel : Take(c)) \/ Evict \/ Forward \/ ClearCache =>
               StaleHasCause' /\ ReadingHasCause' /\ CopyHasCause'
<1> USE DEF IInv, redisVars, linkVars
<1>1. ASSUME NEW c \in Channel, Take(c)
      PROVE  StaleHasCause' /\ ReadingHasCause' /\ CopyHasCause'
    <2>1. /\ channel[c] \in Seq(Message) /\ channel[c] # <<>>
          /\ channel'[c] = Tail(channel[c])
          /\ \A d \in Channel : d # c => channel'[d] = channel[d]
        BY <1>1 DEF Take, TypeOK
    <2>2. \A i \in DOMAIN channel[c] :
              \/ channel[c][i] = Head(channel[c])
              \/ \E j \in DOMAIN channel'[c] : channel'[c][j] = channel[c][i]
        BY <2>1, TailKeeps
    <2>3. /\ worker = "parked" /\ worker' = "evict" /\ event' = Head(channel[c])
          /\ UNCHANGED <<db, owed, wire, target, copies, inval>>
        BY <1>1 DEF Take
    <2>4. StillPending({})
        <3>1. ASSUME NEW o \in Object, ToEvict(o, Head(channel[c])) PROVE Pending(o)'
            BY <2>3, <3>1 DEF Pending, ToEvict
        <3>2. ASSUME NEW o \in Object, Pending(o), ~ToEvict(o, Head(channel[c]))
              PROVE  Pending(o)'
            <4>1. CASE \E d \in Channel : \E i \in DOMAIN channel[d] :
                           ToEvict(o, channel[d][i])
                <5>1. PICK d \in Channel : \E i \in DOMAIN channel[d] :
                           ToEvict(o, channel[d][i])
                    BY <4>1
                <5>2. \E i \in DOMAIN channel'[d] : ToEvict(o, channel'[d][i])
                    BY <2>1, <2>2, <3>2, <5>1
                <5> QED BY <5>2 DEF Pending, ToEvict
            <4> QED BY <2>3, <3>2, <4>1 DEF Pending, ToEvict
        <3> QED BY <2>3, <3>1, <3>2 DEF StillPending
    <2>5. StillCopyPending({})
        BY <2>3, <2>4, MirrorObject DEF StillCopyPending, StillPending, CopyPending
    <2> QED BY <2>3, <2>4, <2>5, CarriedUnchanged, CausesKept
<1>2. ASSUME Evict PROVE StaleHasCause' /\ ReadingHasCause' /\ CopyHasCause'
    <2>1. /\ worker = "evict" /\ event \in Message
          /\ MarkReading(db', Evicts(event))
          /\ UNCHANGED <<db, owed, wire, channel, target, copy, inval>>
        BY <1>2 DEF Evict, TypeOK
    <2>2. \A o \in Object \ Evicts(event) : Pending(o) => Pending(o)'
        BY <2>1 DEF Pending, ToEvict
    <2>3. StaleHasCause'
        BY <1>2, <2>1, <2>2 DEF Evict, StaleHasCause, Outdated, Nothing, Fresh
    <2>4. ReadingHasCause'
        BY <2>1, <2>2, MarkReadingSilences DEF ReadingHasCause, TypeOK
    <2>5. CopyHasCause'
        <3> SUFFICES ASSUME NEW m \in Mirror,
                            Outdated(db, copy[m], MirrorOf(m))', ~copy'[m].lost
                     PROVE  CopyPending(m)'
            BY DEF CopyHasCause
        <3>1. CopyPending(m) /\ MirrorOf(m) \in Object
            BY <2>1, MirrorObject DEF CopyHasCause, Outdated
        <3>2. CASE MirrorOf(m) \in Evicts(event)
            <4>1. event.event = "MIRROR_UPDATE" /\ event.mirror = m
                BY <2>1, <3>2, MirrorEvicted
            <4> QED BY <1>2, <4>1 DEF Evict, CopyPending
        <3>3. CASE MirrorOf(m) \notin Evicts(event)
            BY <2>1, <2>2, <3>1, <3>3 DEF CopyPending
        <3> QED BY <3>2, <3>3
    <2> QED BY <2>3, <2>4, <2>5
<1>3. ASSUME Forward PROVE StaleHasCause' /\ ReadingHasCause' /\ CopyHasCause'
    <2>1. /\ worker = "forward" /\ worker' = "parked" /\ event.mirror \in Mirror
          /\ UNCHANGED <<db, owed, wire, channel, target, cache, reading>>
        BY <1>3, MessageType DEF Forward, TypeOK
    <2>2. \A o \in Object : Pending(o) => Pending(o)'
        BY <2>1 DEF Pending, ToEvict
    <2>3. StaleHasCause' /\ ReadingHasCause'
        BY <2>1, <2>2 DEF StaleHasCause, ReadingHasCause, Silent, Outdated, TypeOK
    <2>4. CopyHasCause'
        <3> SUFFICES ASSUME NEW m \in Mirror,
                            Outdated(db, copy[m], MirrorOf(m))', ~copy'[m].lost
                     PROVE  CopyPending(m)'
            BY DEF CopyHasCause
        <3>1. MirrorOf(m) \in Object
            BY MirrorObject
        <3>2. CASE HasRoom(inval, InvalCap)
            <4>1. inval' = Append(inval, event.mirror) /\ copy' = copy
                BY <1>3, <3>2 DEF Forward
            <4>2. /\ \A i \in DOMAIN inval : i \in DOMAIN inval' /\ inval'[i] = inval[i]
                  /\ \E i \in DOMAIN inval' : inval'[i] = event.mirror
                <5>1. inval \in Seq(Mirror)
                    BY DEF TypeOK
                <5> HIDE DEF IInv
                <5> QED BY <2>1, <4>1, <5>1, AppendKeeps
            <4>3. CopyPending(m)
                BY <2>1, <4>1 DEF CopyHasCause, Outdated
            <4> QED BY <2>1, <2>2, <3>1, <4>2, <4>3 DEF CopyPending
        <3>3. CASE ~HasRoom(inval, InvalCap)
            <4>1. MarkCopy(db', {event.mirror}) /\ inval' = inval
                BY <1>3, <2>1, <3>3 DEF Forward
            <4>2. copy'[m] = copy[m] /\ m # event.mirror
                BY <4>1, MarkCopySilences DEF Silent, Outdated
            <4>3. CopyPending(m)
                BY <2>1, <4>2 DEF CopyHasCause, Outdated
            <4> QED BY <2>1, <2>2, <3>1, <4>1, <4>2, <4>3 DEF CopyPending
        <3> QED BY <3>2, <3>3
    <2> QED BY <2>3, <2>4
<1>4. ASSUME ClearCache PROVE StaleHasCause' /\ ReadingHasCause' /\ CopyHasCause'
    <2>1. /\ worker = "clear" /\ worker' = "parked" /\ MarkReading(db', Object)
          /\ cache' = [o \in Object |-> Nothing]
          /\ UNCHANGED <<db, owed, wire, channel, event, target, copy, inval>>
        BY <1>4 DEF ClearCache
    <2>2. \A o \in Object : Pending(o) => Pending(o)'
        BY <2>1 DEF Pending, ToEvict
    <2>3. StaleHasCause'
        BY <2>1 DEF StaleHasCause, Outdated, Nothing, Fresh
    <2>4. ReadingHasCause'
        BY <2>1, MarkReadingSilences DEF ReadingHasCause, TypeOK
    <2>5. CopyHasCause'
        BY <2>1, <2>2, MirrorObject DEF CopyHasCause, CopyPending, Outdated
    <2> QED BY <2>3, <2>4, <2>5
<1> QED BY <1>1, <1>2, <1>3, <1>4

LEMMA FetchCauses ==
    ASSUME IInv
    PROVE  /\ \A r \in Reader : FetchSet(r) \/ (\E o \in Object : FetchRead(r, o)) =>
                 StaleHasCause' /\ ReadingHasCause' /\ CopyHasCause'
           /\ MonitorReceive \/ MonitorFetchFails \/ MonitorSet =>
                 StaleHasCause' /\ ReadingHasCause' /\ CopyHasCause'
<1> USE DEF IInv, redisVars, linkVars, workerVars
<1>0. ASSUME UNCHANGED <<owed, wire, channel, worker, event>>, NEW o
      PROVE  Pending(o)' <=> Pending(o)
    BY <1>0 DEF Pending, ToEvict
<1>1. ASSUME NEW r \in Caller, Store(r), target[r] # NoObject,
             UNCHANGED <<db, owed, wire, channel, worker, event>>
      PROVE  StaleHasCause'
    <2> SUFFICES ASSUME NEW o \in Object, Outdated(db, cache[o], o)', ~cache'[o].lost
                 PROVE  Pending(o)'
        BY DEF StaleHasCause
    <2>1. \/ cache'[o] = cache[o]
          \/ cache'[o] = Nothing
          \/ o = target[r] /\ cache'[o] = reading[r]
        BY <1>1 DEF Store
    <2>2. CASE cache'[o] = cache[o]
        BY <1>0, <1>1, <2>2 DEF StaleHasCause, Outdated
    <2>3. CASE cache'[o] = Nothing
        BY <2>3 DEF Outdated, Nothing, Fresh
    <2>4. CASE o = target[r] /\ cache'[o] = reading[r]
        BY <1>0, <1>1, <2>4 DEF ReadingHasCause, Silent, Outdated
    <2> QED BY <2>1, <2>2, <2>3, <2>4
<1>2. ASSUME NEW r \in Reader, NEW o \in Object, FetchRead(r, o)
      PROVE  StaleHasCause' /\ ReadingHasCause' /\ CopyHasCause'
    <2>1. /\ r \in Caller /\ r # Monitor
          /\ UNCHANGED <<db, owed, wire, channel, worker, event, cache, inval, copy>>
        BY <1>2, CacheAssumption DEF Caller, FetchRead
    <2>2. /\ reading'[r] = Fresh(db[o]) /\ target'[r] = o
          /\ \A q \in Caller : q # r => reading'[q] = reading[q] /\ target'[q] = target[q]
        BY <1>2, <2>1 DEF FetchRead, TypeOK
    <2>3. StaleHasCause'
        BY <1>0, <2>1 DEF StaleHasCause, Outdated
    <2>4. ReadingHasCause'
        BY <1>0, <2>1, <2>2 DEF ReadingHasCause, Silent, Outdated, Fresh
    <2>5. CopyHasCause'
        BY <1>0, <2>1, <2>2 DEF CopyHasCause, CopyPending, Outdated, Caller
    <2> QED BY <2>3, <2>4, <2>5
<1>3. ASSUME NEW r \in Reader, FetchSet(r)
      PROVE  StaleHasCause' /\ ReadingHasCause' /\ CopyHasCause'
    <2>1. /\ r \in Caller /\ r # Monitor
          /\ UNCHANGED <<db, owed, wire, channel, worker, event, inval, copy>>
        BY <1>3, CacheAssumption DEF Caller, FetchSet
    <2>2. /\ target'[r] = NoObject
          /\ \A q \in Caller : q # r => reading'[q] = reading[q] /\ target'[q] = target[q]
        BY <1>3, <2>1 DEF FetchSet, FetchDone, TypeOK
    <2>3. StaleHasCause'
        BY <1>1, <1>3, <2>1 DEF FetchSet
    <2>4. ReadingHasCause'
        BY <1>0, <2>1, <2>2 DEF ReadingHasCause, Silent, Outdated
    <2>5. CopyHasCause'
        BY <1>0, <2>1, <2>2 DEF CopyHasCause, CopyPending, Outdated, Caller
    <2> QED BY <2>3, <2>4, <2>5
<1>4. ASSUME MonitorReceive PROVE StaleHasCause' /\ ReadingHasCause' /\ CopyHasCause'
    <2>0. PICK m \in Mirror : m = Head(inval)
        BY <1>4, TailKeeps DEF MonitorReceive, TypeOK
    <2>1. /\ m \in Mirror /\ MirrorOf(m) \in Object /\ Monitor \in Caller
          /\ \A i \in DOMAIN inval :
                inval[i] = m \/ \E j \in DOMAIN inval' : inval'[j] = inval[i]
        BY <1>4, <2>0, TailKeeps, MirrorObject DEF MonitorReceive, TypeOK, Caller
    <2>2. /\ UNCHANGED <<db, owed, wire, channel, worker, event, cache>>
          /\ target[Monitor] = NoObject
        BY <1>4 DEF MonitorReceive
    <2>3. StaleHasCause'
        BY <1>0, <2>2 DEF StaleHasCause, Outdated
    <2>4. CASE SyncCached(m)
        <3>1. /\ UNCHANGED <<target, reading>> /\ copy'[m] = cache[MirrorOf(m)]
              /\ \A n \in Mirror : n # m => copy'[n] = copy[n]
            BY <2>1, <2>4 DEF SyncCached, TypeOK
        <3>2. ReadingHasCause'
            BY <1>0, <2>2, <3>1 DEF ReadingHasCause, Silent, Outdated
        <3>3. CopyHasCause'
            <4>1. ASSUME NEW n \in Mirror, n # m,
                         Outdated(db, copy[n], MirrorOf(n))', ~copy'[n].lost
                  PROVE  CopyPending(n)'
                BY <1>0, <2>1, <2>2, <3>1, <4>1 DEF CopyHasCause, CopyPending, Outdated
            <4>2. ASSUME Outdated(db', copy'[m], MirrorOf(m)), ~copy'[m].lost
                  PROVE  Pending(MirrorOf(m))'
                BY <1>0, <2>1, <2>2, <3>1, <4>2 DEF StaleHasCause, Outdated
            <4>3. ASSUME NEW n \in Mirror, Pending(MirrorOf(n))' PROVE CopyPending(n)'
                BY <4>3 DEF CopyPending
            <4> QED BY <4>1, <4>2, <4>3 DEF CopyHasCause, Outdated
        <3> QED BY <2>3, <3>2, <3>3
    <2>5. CASE SyncRead(m)
        <3>1. /\ copy' = copy
              /\ target'[Monitor] = MirrorOf(m) /\ reading'[Monitor] = Fresh(db[MirrorOf(m)])
              /\ \A q \in Caller : q # Monitor =>
                    reading'[q] = reading[q] /\ target'[q] = target[q]
            BY <2>1, <2>5 DEF SyncRead, TypeOK
        <3>2. ReadingHasCause'
            BY <1>0, <2>2, <3>1 DEF ReadingHasCause, Silent, Outdated, Fresh
        <3>3. CopyHasCause'
            <4>1. ASSUME NEW n \in Mirror, CopyPending(n) PROVE CopyPending(n)'
                <5>1. NoObject # MirrorOf(n)
                    BY NoObjectIsNone, MirrorObject
                <5>2. CASE \E i \in DOMAIN inval : inval[i] = n
                    BY <2>1, <3>1, <5>2 DEF CopyPending
                <5> QED BY <1>0, <2>2, <4>1, <5>1, <5>2 DEF CopyPending
            <4> QED BY <2>2, <3>1, <4>1 DEF CopyHasCause, Outdated
        <3> QED BY <2>3, <3>2, <3>3
    <2> QED BY <1>4, <2>0, <2>4, <2>5 DEF MonitorReceive
<1>6. ASSUME MonitorFetchFails
      PROVE  StaleHasCause' /\ ReadingHasCause' /\ CopyHasCause'
    <2>0. PICK m \in Mirror : m = Head(inval)
        BY <1>6, TailKeeps DEF MonitorFetchFails, TypeOK
    <2>1. \A i \in DOMAIN inval :
             inval[i] = m \/ \E j \in DOMAIN inval' : inval'[j] = inval[i]
        BY <1>6, <2>0, TailKeeps DEF MonitorFetchFails, TypeOK
    <2>2. /\ UNCHANGED <<db, owed, wire, channel, worker, event, cache, target, reading>>
          /\ MarkCopy(db', {m})
        BY <1>6, <2>0 DEF MonitorFetchFails
    <2>3. StaleHasCause' /\ ReadingHasCause'
        BY <1>0, <2>2 DEF StaleHasCause, ReadingHasCause, Silent, Outdated
    <2>4. CopyHasCause'
        <3> SUFFICES ASSUME NEW n \in Mirror,
                            Outdated(db, copy[n], MirrorOf(n))', ~copy'[n].lost
                     PROVE  CopyPending(n)'
            BY DEF CopyHasCause
        <3>1. copy'[n] = copy[n] /\ n # m
            BY <2>2, MarkCopySilences DEF Silent, Outdated
        <3>2. CopyPending(n)
            BY <2>2, <3>1 DEF CopyHasCause, Outdated
        <3>3. Pending(MirrorOf(n)) => Pending(MirrorOf(n))'
            BY <1>0, <2>2
        <3> QED BY <2>1, <2>2, <3>1, <3>2, <3>3 DEF CopyPending
    <2> QED BY <2>3, <2>4
<1>5. ASSUME MonitorSet PROVE StaleHasCause' /\ ReadingHasCause' /\ CopyHasCause'
    <2>1. /\ Monitor \in Caller /\ target[Monitor] # NoObject /\ Store(Monitor)
          /\ UNCHANGED <<db, owed, wire, channel, worker, event, inval>>
        BY <1>5 DEF Caller, MonitorSet
    <2>2. /\ target'[Monitor] = NoObject
          /\ \A q \in Caller : q # Monitor =>
                reading'[q] = reading[q] /\ target'[q] = target[q]
        BY <1>5, <2>1 DEF MonitorSet, FetchDone, TypeOK
    <2>3. StaleHasCause'
        BY <1>1, <2>1
    <2>4. ReadingHasCause'
        BY <1>0, <2>1, <2>2 DEF ReadingHasCause, Silent, Outdated
    <2>5. CopyHasCause'
        <3> SUFFICES ASSUME NEW m \in Mirror,
                            Outdated(db, copy[m], MirrorOf(m))', ~copy'[m].lost
                     PROVE  CopyPending(m)'
            BY DEF CopyHasCause
        <3>1. CASE MirrorOf(m) = target[Monitor]
            <4>1. copy'[m] = reading[Monitor]
                BY <1>5, <3>1 DEF MonitorSet
            <4>2. Pending(MirrorOf(m))
                BY <2>1, <3>1, <4>1 DEF ReadingHasCause, Silent, Outdated
            <4> QED BY <1>0, <2>1, <4>2 DEF CopyPending
        <3>2. CASE MirrorOf(m) # target[Monitor]
            <4>1. copy'[m] = copy[m]
                BY <1>5, <3>2 DEF MonitorSet
            <4>2. CopyPending(m)
                BY <2>1, <4>1 DEF CopyHasCause, Outdated
            <4> QED BY <1>0, <2>1, <3>2, <4>2 DEF CopyPending
        <3> QED BY <3>1, <3>2
    <2> QED BY <2>3, <2>4, <2>5
<1> QED BY <1>2, <1>3, <1>4, <1>5, <1>6

-----------------------------------------------------------------------------

LEMMA InvStep == IInv /\ [Next]_vars => IInv'
<1> SUFFICES ASSUME IInv, [Next]_vars PROVE IInv'
    OBVIOUS
<1>1. TypeOK'
    BY TypeStep DEF IInv
<1>2. StaleHasCause' /\ ReadingHasCause' /\ CopyHasCause'
    <2>1. CASE Next
        BY <2>1, WriterCauses, LinkCauses, WorkerCauses, FetchCauses DEF Next
    <2>2. CASE UNCHANGED vars
        <3>1. UNCHANGED <<db, owed, wire, channel, worker, event, target, copies, inval>>
            BY <2>2 DEF vars, redisVars, linkVars, workerVars
        <3>2. StillPending({})
            BY <3>1 DEF StillPending, Pending, ToEvict
        <3> QED BY <3>1, <3>2, CopyPendingFollows, CarriedUnchanged, CausesKept
    <2> QED BY <2>1, <2>2
<1> QED BY <1>1, <1>2 DEF IInv

\* The inductive invariant holds: every outdated copy on the node, in the cache,
\* in the hands of a caller or in the monitor, has a cause.
THEOREM CacheInvariant == Spec => []IInv
<1>1. Init => IInv
    BY InitIInv
<1>2. IInv /\ [Next]_vars => IInv'
    BY InvStep
<1> QED BY <1>1, <1>2, PTL DEF Spec

\* The variables of the cache, of Pubsub and of the monitor keep their types.
THEOREM CacheTypeCorrect == Spec => []TypeOK
<1>1. IInv => TypeOK
    BY DEF IInv
<1> QED BY <1>1, CacheInvariant, PTL

\* An outdated entry of the cache whose event was neither lost nor overtaken by a
\* fill is about to be evicted, whatever the size of the system.
THEOREM CacheStaleHasCause == Spec => []StaleHasCause
<1>1. IInv => StaleHasCause
    BY DEF IInv
<1> QED BY <1>1, CacheInvariant, PTL

\* The same for the copies of the monitor: the order of the eviction and of the
\* send on invalidationEvent keeps it from reading back the evicted value.  A copy
\* also stays behind when the fetch its event called for fails (monitor.go:295-297).
THEOREM CacheCopyHasCause == Spec => []CopyHasCause
<1>1. IInv => CopyHasCause
    BY DEF IInv
<1> QED BY <1>1, CacheInvariant, PTL

-----------------------------------------------------------------------------
(* The sizes of a list.                                                    *)

Sizes(l) == [i \in DOMAIN l |-> l[i].size]
Keys(l) == {l[i].key : i \in DOMAIN l}
Distinct(l) == \A i, j \in DOMAIN l : l[i].key = l[j].key => i = j

\* The recursion of TotalSize.
IsTotal(h, l) ==
    h = [s \in SUBSET DOMAIN l |-> IF s = {} THEN 0 ELSE l[Chosen(s)].size + h[s \ {Chosen(s)}]]

LEMMA TotalIsFold ==
    ASSUME NEW l
    PROVE  TotalSize(l) = (CHOOSE h : IsTotal(h, l))[DOMAIN l]
BY DEF TotalSize, FoldSeq, FoldFunction, FoldFunctionOnSet, MapThenFoldSet, IsTotal, Chosen

LEMMA TotalIsCount ==
    ASSUME NEW l \in Seq(Entry)
    PROVE  /\ TotalSize(l) = Count(Sizes(l), DOMAIN l)
           /\ IsFiniteSet(DOMAIN l)
           /\ \A i \in DOMAIN l : Sizes(l)[i] \in Nat
<1> DEFINE D == DOMAIN l
<1>1. D = 1..Len(l) /\ Len(l) \in Nat
  OBVIOUS
<1>2. IsFiniteSet(D)
  BY <1>1, FS_Interval
<1>3. \A i \in D : l[i] \in Entry
  OBVIOUS
<1>4. \A i \in D : Sizes(l)[i] = l[i].size /\ l[i].size \in Nat
  BY <1>3, LRUAssumption DEF Sizes, Entry
<1> HIDE DEF D
<1>5. ASSUME NEW h PROVE IsTotal(h, l) <=> IsSum(h, Sizes(l), D)
  <2> DEFINE A(s) == IF s = {} THEN 0 ELSE l[Chosen(s)].size + h[s \ {Chosen(s)}]
             B(s) == IF s = {} THEN 0 ELSE Sizes(l)[Chosen(s)] + h[s \ {Chosen(s)}]
  <2>1. ASSUME NEW s \in SUBSET D PROVE A(s) = B(s)
    <3>1. CASE s = {}
      BY <3>1
    <3>2. CASE s # {}
      <4>1. Chosen(s) \in D
        BY <3>2 DEF Chosen
      <4> QED BY <1>4, <4>1
    <3> QED BY <3>1, <3>2
  <2> HIDE DEF A, B
  <2>2. [s \in SUBSET D |-> A(s)] = [s \in SUBSET D |-> B(s)]
    BY <2>1
  <2> QED BY <2>2 DEF IsTotal, IsSum, A, B, D
<1>6. (CHOOSE h : IsTotal(h, l)) = (CHOOSE h : IsSum(h, Sizes(l), D))
  BY <1>5
<1>7. TotalSize(l) = SumOf(Sizes(l), D)
  BY <1>6, TotalIsFold DEF SumOf, D
<1>8. SumOf(Sizes(l), D) = Count(Sizes(l), D)
  BY <1>2, <1>4, SumIsCount
<1> QED BY <1>2, <1>4, <1>7, <1>8 DEF D

LEMMA TotalType ==
    ASSUME NEW l \in Seq(Entry)
    PROVE  TotalSize(l) \in Nat
BY TotalIsCount, CountStep

LEMMA TotalEmpty == TotalSize(<< >>) = 0
<1>1. << >> \in Seq(Entry) /\ DOMAIN << >> = {}
  OBVIOUS
<1>2. Count(Sizes(<< >>), {}) = 0
  BY CountZero
<1>3. TotalSize(<< >>) = Count(Sizes(<< >>), DOMAIN << >>)
  BY <1>1, TotalIsCount
<1> QED BY <1>1, <1>2, <1>3

LEMMA TotalSingle ==
    ASSUME NEW e \in Entry
    PROVE  TotalSize(<<e>>) = e.size
<1>1. <<e>> \in Seq(Entry) /\ DOMAIN <<e>> = {1} /\ <<e>>[1] = e
  OBVIOUS
<1>2. Sizes(<<e>>)[1] = e.size
  BY <1>1 DEF Sizes
<1>3. Sizes(<<e>>)[1] \in Nat
  BY <1>1, TotalIsCount
<1>4. Count(Sizes(<<e>>), {1}) = Sizes(<<e>>)[1]
  BY <1>3, CountSingle
<1> QED BY <1>1, <1>2, <1>4, TotalIsCount

\* The sizes of two lists put together add up.
LEMMA TotalConcat ==
    ASSUME NEW l \in Seq(Entry), NEW m \in Seq(Entry)
    PROVE  TotalSize(l \o m) = TotalSize(l) + TotalSize(m)
<1> DEFINE c == l \o m
           D == 1..Len(l)
           E == (Len(l) + 1)..(Len(l) + Len(m))
           f == [i \in DOMAIN m |-> Len(l) + i]
<1>1. /\ c \in Seq(Entry) /\ DOMAIN c = D \cup E /\ D \cap E = {}
      /\ DOMAIN l = D /\ DOMAIN m = 1..Len(m)
      /\ Len(l) \in Nat /\ Len(m) \in Nat
  OBVIOUS
<1>2. /\ \A i \in D : c[i] = l[i] /\ i \in DOMAIN c
      /\ \A i \in DOMAIN m : c[Len(l) + i] = m[i] /\ Len(l) + i \in DOMAIN c
  OBVIOUS
<1>3. IsFiniteSet(D) /\ IsFiniteSet(E)
  BY <1>1, FS_Interval
<1>4. f \in Bijection(DOMAIN m, E)
  <2>1. f \in [DOMAIN m -> E] /\ \A i, j \in DOMAIN m : f[i] = f[j] => i = j
    BY <1>1
  <2>2. ASSUME NEW e \in E PROVE \E i \in DOMAIN m : f[i] = e
    <3>1. e - Len(l) \in DOMAIN m /\ f[e - Len(l)] = e
      BY <1>1
    <3> QED BY <3>1
  <2> QED BY <2>1, <2>2 DEF Bijection, Injection, Surjection, IsInjective
<1>5. /\ \A i \in D : Sizes(c)[i] = Sizes(l)[i]
      /\ \A i \in DOMAIN m : Sizes(c)[f[i]] = Sizes(m)[i]
  BY <1>1, <1>2 DEF Sizes
<1> HIDE DEF c, D, E, f
<1>6. \A i \in D \cup E : Sizes(c)[i] \in Nat
  BY <1>1, TotalIsCount
<1>7. Count(Sizes(c), D \cup E) = Count(Sizes(c), D) + Count(Sizes(c), E)
  BY <1>1, <1>3, <1>6, CountUnion
<1>8. Count(Sizes(c), D) = Count(Sizes(l), D)
  BY <1>5, CountSame
<1>9. Count(Sizes(m), DOMAIN m) = Count(Sizes(c), E)
  <2>1. \A i \in DOMAIN m : Sizes(m)[i] \in Nat /\ IsFiniteSet(DOMAIN m)
    BY TotalIsCount
  <2>2. IsFiniteSet(DOMAIN m)
    BY TotalIsCount
  <2> QED BY <1>4, <1>5, <2>1, <2>2, CountReindex
<1>10. TotalSize(c) = Count(Sizes(c), D \cup E)
  BY <1>1, TotalIsCount
<1>11. TotalSize(l) = Count(Sizes(l), D) /\ TotalSize(m) = Count(Sizes(m), DOMAIN m)
  BY <1>1, TotalIsCount
<1> QED BY <1>7, <1>8, <1>9, <1>10, <1>11 DEF c

\* The first and the last entries of a list.
LEMMA Split ==
    ASSUME NEW l \in Seq(Entry), NEW n \in 0..Len(l)
    PROVE  /\ SubSeq(l, 1, n) \in Seq(Entry) /\ SubSeq(l, n + 1, Len(l)) \in Seq(Entry)
           /\ Len(SubSeq(l, 1, n)) = n
           /\ \A i \in 1..n : SubSeq(l, 1, n)[i] = l[i]
           /\ l = SubSeq(l, 1, n) \o SubSeq(l, n + 1, Len(l))
           /\ TotalSize(l) = TotalSize(SubSeq(l, 1, n)) + TotalSize(SubSeq(l, n + 1, Len(l)))
<1>1. /\ SubSeq(l, 1, n) \in Seq(Entry) /\ SubSeq(l, n + 1, Len(l)) \in Seq(Entry)
      /\ Len(SubSeq(l, 1, n)) = n /\ Len(SubSeq(l, n + 1, Len(l))) = Len(l) - n
      /\ \A i \in 1..n : SubSeq(l, 1, n)[i] = l[i]
      /\ \A i \in 1..(Len(l) - n) : SubSeq(l, n + 1, Len(l))[i] = l[n + i]
  OBVIOUS
<1>2. l = SubSeq(l, 1, n) \o SubSeq(l, n + 1, Len(l))
  <2>1. 1 \in 1..(Len(l) + 1) /\ n \in (1 - 1)..Len(l) /\ Len(l) \in n..Len(l)
    OBVIOUS
  <2>2. SubSeq(l, 1, n) \o SubSeq(l, n + 1, Len(l)) = SubSeq(l, 1, Len(l))
    BY <2>1, ConcatAdjacentSubSeq
  <2> QED BY <2>2, SubSeqFull
<1> QED BY <1>1, <1>2, TotalConcat

\* An element moved, or another put in its place, at the front.
LEMMA Removed ==
    ASSUME NEW l \in Seq(Entry), NEW i \in DOMAIN l
    PROVE  /\ RemoveAt(l, i) \in Seq(Entry)
           /\ Len(RemoveAt(l, i)) = Len(l) - 1
           /\ \A j \in 1..(Len(l) - 1) : RemoveAt(l, i)[j] = l[IF j < i THEN j ELSE j + 1]
           /\ TotalSize(l) = TotalSize(RemoveAt(l, i)) + l[i].size
<1> DEFINE a == SubSeq(l, 1, i - 1)
           b == SubSeq(l, i + 1, Len(l))
           t == SubSeq(l, i, Len(l))
<1>1. /\ a \in Seq(Entry) /\ b \in Seq(Entry) /\ t \in Seq(Entry)
      /\ Len(a) = i - 1 /\ Len(b) = Len(l) - i /\ Len(l) \in Nat /\ i \in 1..Len(l)
      /\ \A j \in 1..(i - 1) : a[j] = l[j]
      /\ \A j \in 1..(Len(l) - i) : b[j] = l[i + j]
  OBVIOUS
<1>2. t = <<l[i]>> \o b
  <2>1. i \in 1..Len(l) /\ Len(l) \in i..Len(l)
    OBVIOUS
  <2> QED BY <2>1, SubSeqRecursiveFirst
<1>3. l[i] \in Entry /\ <<l[i]>> \in Seq(Entry)
  BY <1>1
<1>4. RemoveAt(l, i) = a \o b
  BY DEF RemoveAt
<1>5. TotalSize(l) = TotalSize(a) + TotalSize(t)
  <2>1. i - 1 \in 0..Len(l) /\ (i - 1) + 1 = i
    BY <1>1
  <2> QED BY <2>1, Split
<1> HIDE DEF a, b, t
<1>6. TotalSize(t) = TotalSize(<<l[i]>>) + TotalSize(b)
  BY <1>1, <1>2, <1>3, TotalConcat
<1>7. TotalSize(<<l[i]>>) = l[i].size
  BY <1>3, TotalSingle
<1>8. TotalSize(a \o b) = TotalSize(a) + TotalSize(b)
  BY <1>1, TotalConcat
<1>9. /\ TotalSize(a) \in Nat /\ TotalSize(b) \in Nat /\ l[i].size \in Nat
  BY <1>1, <1>3, <1>7, TotalType
<1>10. TotalSize(l) = TotalSize(a \o b) + l[i].size
  BY <1>5, <1>6, <1>7, <1>8, <1>9
<1>11. /\ a \o b \in Seq(Entry) /\ Len(a \o b) = Len(l) - 1
       /\ \A j \in 1..(Len(l) - 1) : (a \o b)[j] = l[IF j < i THEN j ELSE j + 1]
  <2>1. /\ a \o b \in Seq(Entry) /\ Len(a \o b) = Len(l) - 1
        /\ \A j \in 1..(Len(l) - 1) : (a \o b)[j] = IF j <= i - 1 THEN a[j] ELSE b[j - (i - 1)]
    <3>1. /\ a \o b \in Seq(Entry) /\ Len(a \o b) = Len(a) + Len(b)
          /\ \A j \in 1..(Len(a) + Len(b)) :
                (a \o b)[j] = IF j <= Len(a) THEN a[j] ELSE b[j - Len(a)]
      BY <1>1, ConcatProperties
    <3>2. Len(a) + Len(b) = Len(l) - 1
      BY <1>1
    <3> QED BY <1>1, <3>1, <3>2
  <2>2. ASSUME NEW j \in 1..(Len(l) - 1) PROVE (a \o b)[j] = l[IF j < i THEN j ELSE j + 1]
    <3>1. CASE j < i
      BY <1>1, <2>1, <3>1
    <3>2. CASE ~(j < i)
      <4>1. j - (i - 1) \in 1..(Len(l) - i) /\ i + (j - (i - 1)) = j + 1 /\ ~(j <= i - 1)
        BY <1>1, <3>2
      <4> QED BY <1>1, <2>1, <3>2, <4>1
    <3> QED BY <3>1, <3>2
  <2> QED BY <2>1, <2>2
<1> QED BY <1>4, <1>10, <1>11

LEMMA InFront ==
    ASSUME NEW l \in Seq(Entry), NEW e \in Entry
    PROVE  /\ <<e>> \o l \in Seq(Entry) /\ Len(<<e>> \o l) = Len(l) + 1
           /\ (<<e>> \o l)[1] = e
           /\ \A j \in 2..(Len(l) + 1) : (<<e>> \o l)[j] = l[j - 1]
           /\ TotalSize(<<e>> \o l) = e.size + TotalSize(l)
<1>1. <<e>> \in Seq(Entry) /\ TotalSize(<<e>>) = e.size
  BY TotalSingle
<1>2. Len(<<e>>) = 1 /\ <<e>>[1] = e /\ Len(l) \in Nat
  OBVIOUS
<1>3. /\ <<e>> \o l \in Seq(Entry) /\ Len(<<e>> \o l) = Len(l) + 1
      /\ \A j \in 1..(1 + Len(l)) : (<<e>> \o l)[j] = IF j <= 1 THEN <<e>>[j] ELSE l[j - 1]
  BY <1>1, <1>2, ConcatProperties
<1>4. \A j \in 2..(Len(l) + 1) : j \in 1..(1 + Len(l)) /\ ~(j <= 1)
  BY <1>2
<1>5. (<<e>> \o l)[1] = e /\ \A j \in 2..(Len(l) + 1) : (<<e>> \o l)[j] = l[j - 1]
  BY <1>2, <1>3, <1>4
<1>6. TotalSize(<<e>> \o l) = TotalSize(<<e>>) + TotalSize(l)
  BY <1>1, TotalConcat
<1> QED BY <1>1, <1>3, <1>5, <1>6

-----------------------------------------------------------------------------
(* The map that a list holds.                                              *)

\* A list of entries that have their keys to themselves and the sizes of their values.
Sound(l) ==
    /\ l \in Seq(Entry)
    /\ Distinct(l)
    /\ \A i \in DOMAIN l : l[i].size = SizeOf(l[i].value)

\* What the callers see.
MapOf(l) == [k \in Keys(l) |-> l[CHOOSE i \in DOMAIN l : l[i].key = k].value]

LEMMA MapOfEntry ==
    ASSUME NEW l, Distinct(l), NEW i \in DOMAIN l
    PROVE  /\ l[i].key \in Keys(l) /\ MapOf(l)[l[i].key] = l[i].value
           /\ (CHOOSE j \in DOMAIN l : l[j].key = l[i].key) = i
<1>1. (CHOOSE j \in DOMAIN l : l[j].key = l[i].key) = i
  BY DEF Distinct
<1> QED BY <1>1 DEF Keys, MapOf

\* A function that has the value of every entry is the map.
LEMMA MapOfIs ==
    ASSUME NEW l, Distinct(l), NEW f, f = [k \in Keys(l) |-> f[k]],
           \A i \in DOMAIN l : f[l[i].key] = l[i].value
    PROVE  MapOf(l) = f
<1>1. ASSUME NEW k \in Keys(l) PROVE MapOf(l)[k] = f[k]
  <2>1. PICK i \in DOMAIN l : l[i].key = k
    BY DEF Keys
  <2> QED BY <2>1, MapOfEntry
<1>2. MapOf(l) = [k \in Keys(l) |-> MapOf(l)[k]]
  BY DEF MapOf
<1> QED BY <1>1, <1>2

\* The keys of a part of the list weigh what that part weighs.
LEMMA KeysOfFirst ==
    ASSUME NEW l, Sound(l), NEW n \in 0..Len(l)
    PROVE  /\ Keys(SubSeq(l, 1, n)) = {l[i].key : i \in 1..n}
           /\ Keys(SubSeq(l, 1, n)) \subseteq Keys(l)
           /\ Sound(SubSeq(l, 1, n))
           /\ MapOf(SubSeq(l, 1, n)) = [k \in Keys(SubSeq(l, 1, n)) |-> MapOf(l)[k]]
<1> DEFINE p == SubSeq(l, 1, n)
<1>1. /\ p \in Seq(Entry) /\ DOMAIN p = 1..n /\ 1..n \subseteq DOMAIN l
      /\ \A i \in 1..n : p[i] = l[i]
  BY Split DEF Sound
<1> HIDE DEF p
<1>2. Keys(p) = {l[i].key : i \in 1..n} /\ Keys(p) \subseteq Keys(l)
  BY <1>1 DEF Keys
<1>3. Sound(p)
  BY <1>1 DEF Sound, Distinct
<1>4. MapOf(p) = [k \in Keys(p) |-> MapOf(l)[k]]
  <2> DEFINE f == [k \in Keys(p) |-> MapOf(l)[k]]
  <2>1. f = [k \in Keys(p) |-> f[k]]
    OBVIOUS
  <2>2. ASSUME NEW i \in DOMAIN p PROVE f[p[i].key] = p[i].value
    <3>1. p[i].key \in Keys(p)
      BY DEF Keys
    <3>2. MapOf(l)[l[i].key] = l[i].value
      BY <1>1, MapOfEntry DEF Sound
    <3> QED BY <1>1, <3>1, <3>2
  <2> HIDE DEF f
  <2>3. MapOf(p) = f
    BY <1>3, <2>1, <2>2, MapOfIs DEF Sound
  <2> QED BY <2>3 DEF f
<1> QED BY <1>2, <1>3, <1>4 DEF p

\* ... and weigh as much.
LEMMA WeightOfFirst ==
    ASSUME NEW l, Sound(l), NEW n \in 0..Len(l)
    PROVE  Map!Weight(MapOf(l), Keys(SubSeq(l, 1, n))) = TotalSize(SubSeq(l, 1, n))
<1> DEFINE p == SubSeq(l, 1, n)
           D == DOMAIN p
           E == Keys(p)
           f == [i \in D |-> p[i].key]
           w == [k \in E |-> SizeOf(MapOf(l)[k])]
<1>1. Sound(p) /\ E \subseteq Keys(l)
  BY KeysOfFirst
<1>2. /\ DOMAIN p = 1..n /\ 1..n \subseteq DOMAIN l /\ \A i \in 1..n : p[i] = l[i]
  BY Split DEF Sound
<1>3. p \in Seq(Entry) /\ IsFiniteSet(D) /\ \A i \in D : Sizes(p)[i] \in Nat
  BY <1>1, TotalIsCount DEF Sound
<1> HIDE DEF p
<1>4. f \in Bijection(D, E)
  <2>1. f \in [D -> E] /\ \A i, j \in D : f[i] = f[j] => i = j
    BY <1>1 DEF Keys, Sound, Distinct
  <2>2. \A e \in E : \E i \in D : f[i] = e
    BY DEF Keys
  <2> QED BY <2>1, <2>2 DEF Bijection, Injection, Surjection, IsInjective
<1>5. ASSUME NEW i \in D PROVE w[f[i]] = Sizes(p)[i]
  <2>1. f[i] = p[i].key /\ f[i] \in E /\ p[i] = l[i] /\ i \in DOMAIN l
    BY <1>2 DEF Keys
  <2>2. MapOf(l)[l[i].key] = l[i].value
    BY <2>1, MapOfEntry DEF Sound
  <2>3. Sizes(p)[i] = SizeOf(l[i].value)
    BY <2>1 DEF Sizes, Sound
  <2> QED BY <2>1, <2>2, <2>3
<1> HIDE DEF D, E, f, w
<1>6. Count(Sizes(p), D) = Count(w, E)
  BY <1>3, <1>4, <1>5, CountReindex
<1>7. IsFiniteSet(E) /\ \A k \in E : w[k] \in Nat
  <2>1. ExistsBijection(D, E)
    BY <1>4 DEF ExistsBijection
  <2>2. ASSUME NEW k \in E PROVE w[k] \in Nat
    <3>1. PICK i \in D : f[i] = k
      BY <1>4 DEF Bijection, Surjection
    <3> QED BY <1>3, <1>5, <3>1
  <2> QED BY <1>3, <2>1, <2>2, FS_Bijection
<1>8. Map!Weight(MapOf(l), E) = SumOf(w, E)
  <2>1. ASSUME NEW h
        PROVE  h = [s \in SUBSET E |-> IF s = {} THEN 0
                        ELSE SizeOf(MapOf(l)[Chosen(s)]) + h[s \ {Chosen(s)}]]
                 <=> IsSum(h, w, E)
    <3> DEFINE A(s) == IF s = {} THEN 0
                       ELSE SizeOf(MapOf(l)[Chosen(s)]) + h[s \ {Chosen(s)}]
               B(s) == IF s = {} THEN 0 ELSE w[Chosen(s)] + h[s \ {Chosen(s)}]
    <3>1. ASSUME NEW s \in SUBSET E PROVE A(s) = B(s)
      <4>1. CASE s = {}
        BY <4>1
      <4>2. CASE s # {}
        <5>1. Chosen(s) \in E
          BY <4>2 DEF Chosen
        <5>2. w[Chosen(s)] = SizeOf(MapOf(l)[Chosen(s)])
          BY <5>1 DEF w
        <5> QED BY <5>2
      <4> QED BY <4>1, <4>2
    <3> HIDE DEF A, B
    <3>2. [s \in SUBSET E |-> A(s)] = [s \in SUBSET E |-> B(s)]
      BY <3>1
    <3> QED BY <3>2 DEF IsSum, A, B
  <2>2. Map!Weight(MapOf(l), E) =
           (CHOOSE h : h = [s \in SUBSET E |-> IF s = {} THEN 0
                        ELSE SizeOf(MapOf(l)[Chosen(s)]) + h[s \ {Chosen(s)}]])[E]
    BY DEF Map!Weight, Map!MapThenSumSet, Map!MapThenFoldSet, Chosen
  <2> QED BY <2>1, <2>2 DEF SumOf
<1>9. SumOf(w, E) = Count(w, E)
  BY <1>7, SumIsCount
<1>10. TotalSize(p) = Count(Sizes(p), D)
  BY <1>3, TotalIsCount DEF D
<1> QED BY <1>6, <1>8, <1>9, <1>10 DEF p, E

-----------------------------------------------------------------------------
(* checkCapacity.                                                          *)

LEMMA ModuloSmall ==
    ASSUME NEW a \in Int, NEW m \in Nat, 0 <= a, a < m
    PROVE  a % m = a
OBVIOUS

LEMMA ModuloSum ==
    ASSUME NEW a \in Nat, NEW d \in Int, NEW m \in Nat,
           a < m, -m < d, d < m, 0 <= a + d, a + d < m
    PROVE  (a + (d % m)) % m = a + d
<1>1. CASE 0 <= d
  <2>1. d % m = d
    BY <1>1, ModuloSmall
  <2> QED BY <2>1, ModuloSmall
<1>2. CASE d < 0
  <2>1. d % m = d + m
    BY <1>2
  <2>2. a + (d % m) = (a + d) + m
    BY <2>1
  <2>3. ((a + d) + m) % m = a + d
    OBVIOUS
  <2> QED BY <2>2, <2>3
<1> QED BY <1>1, <1>2

Enough(l, s, c) == {n \in 0..Len(l) : SizeWithout(l, s, n) <= c} \cup {Len(l)}
Dropped(l, s, c) == CHOOSE i \in Enough(l, s, c) : \A j \in Enough(l, s, c) : i <= j

\* What is left when the last entries are dropped one by one is what the list
\* without them weighs; it fits, and with one entry more it would not.
LEMMA Room ==
    ASSUME NEW l, Sound(l), NEW c \in Nat, NEW s, s = TotalSize(l), s < Modulus
    PROVE  LET n == Len(l) - Dropped(l, s, c)
           IN /\ n \in 0..Len(l)
              /\ SizeWithout(l, s, Dropped(l, s, c)) = TotalSize(SubSeq(l, 1, n))
              /\ TotalSize(SubSeq(l, 1, n)) <= c
              /\ n # Len(l) => TotalSize(SubSeq(l, 1, n + 1)) > c
<1> DEFINE E == Enough(l, s, c)
           d == Dropped(l, s, c)
<1>1. l \in Seq(Entry) /\ Len(l) \in Nat /\ s \in Nat
  BY TotalType DEF Sound
<1>2. ASSUME NEW n \in 0..Len(l)
      PROVE  /\ SizeWithout(l, s, n) = TotalSize(SubSeq(l, 1, Len(l) - n))
             /\ TotalSize(SubSeq(l, 1, Len(l) - n)) \in Nat
  <2>1. Len(l) - n \in 0..Len(l) /\ Len(l) - n + 1 = (Len(l) - n) + 1
    BY <1>1
  <2> DEFINE a == TotalSize(SubSeq(l, 1, Len(l) - n))
             b == TotalSize(SubSeq(l, (Len(l) - n) + 1, Len(l)))
  <2>2. a \in Nat /\ b \in Nat /\ s = a + b
    BY <1>1, <2>1, Split, TotalType
  <2>3. SizeWithout(l, s, n) = (s - b) % Modulus
    BY DEF SizeWithout
  <2> HIDE DEF a, b
  <2>4. s - b = a /\ a \in Int /\ 0 <= a /\ a < Modulus /\ Modulus \in Nat
    BY <1>1, <2>2, LRUAssumption
  <2> QED BY <2>2, <2>3, <2>4, ModuloSmall DEF a
<1>3. E \subseteq Nat /\ Len(l) \in E /\ E \subseteq 0..Len(l)
  BY <1>1 DEF Enough
<1>4. d \in E /\ \A j \in E : d <= j
  <2>1. \E i \in E : \A j \in E : i <= j
    <3> HIDE DEF E
    <3> QED BY <1>3, LeastNat
  <2> QED BY <2>1 DEF Dropped
<1> HIDE DEF E, d
<1>5. d \in 0..Len(l) /\ Len(l) - d \in 0..Len(l)
  BY <1>1, <1>3, <1>4
<1>6. TotalSize(SubSeq(l, 1, Len(l) - d)) <= c
  <2>1. CASE d = Len(l)
    <3>1. 1 \in Int /\ 0 \in Int /\ 0 < 1 /\ Len(l) - d = 0
      BY <1>1, <2>1
    <3>2. SubSeq(l, 1, 0) = << >>
      BY <1>1, <3>1, SubSeqEmpty
    <3>3. TotalSize(SubSeq(l, 1, 0)) = 0
      BY <3>2, TotalEmpty
    <3>4. SubSeq(l, 1, Len(l) - d) = SubSeq(l, 1, 0)
      BY <3>1
    <3>5. TotalSize(SubSeq(l, 1, Len(l) - d)) = 0
      BY <3>3, <3>4
    <3> QED BY <3>5
  <2>2. CASE d # Len(l)
    BY <1>2, <1>4, <1>5, <2>2 DEF E, Enough
  <2> QED BY <2>1, <2>2
<1>7. ASSUME Len(l) - d # Len(l) PROVE TotalSize(SubSeq(l, 1, (Len(l) - d) + 1)) > c
  <2>1. d - 1 \in 0..Len(l) /\ Len(l) - (d - 1) = (Len(l) - d) + 1 /\ ~(d <= d - 1)
    BY <1>1, <1>5, <1>7
  <2>2. ~(SizeWithout(l, s, d - 1) <= c)
    BY <1>4, <2>1 DEF E, Enough
  <2>3. SizeWithout(l, s, d - 1) = TotalSize(SubSeq(l, 1, (Len(l) - d) + 1))
    BY <1>2, <2>1
  <2>4. TotalSize(SubSeq(l, 1, (Len(l) - d) + 1)) \in Nat
    BY <1>2, <2>1
  <2> QED BY <2>2, <2>3, <2>4
<1> QED BY <1>2, <1>5, <1>6, <1>7 DEF d

-----------------------------------------------------------------------------
(* The changes to the list.                                                *)

\* An entry is taken out.
LEMMA TakenOut ==
    ASSUME NEW l, Sound(l), NEW i \in DOMAIN l
    PROVE  LET r == RemoveAt(l, i)
           IN /\ Sound(r)
              /\ Keys(r) = Keys(l) \ {l[i].key}
              /\ TotalSize(l) = TotalSize(r) + l[i].size
              /\ MapOf(r) = [k \in Keys(l) \ {l[i].key} |-> MapOf(l)[k]]
<1> DEFINE r == RemoveAt(l, i)
           p(j) == IF j < i THEN j ELSE j + 1
<1>1. /\ l \in Seq(Entry) /\ Len(l) \in Nat /\ i \in 1..Len(l) /\ DOMAIN l = 1..Len(l)
  BY DEF Sound
<1>2. /\ r \in Seq(Entry) /\ DOMAIN r = 1..(Len(l) - 1)
      /\ \A j \in DOMAIN r : r[j] = l[p(j)]
      /\ TotalSize(l) = TotalSize(r) + l[i].size
  <2>1. /\ r \in Seq(Entry) /\ Len(r) = Len(l) - 1
        /\ \A j \in 1..(Len(l) - 1) : r[j] = l[p(j)]
        /\ TotalSize(l) = TotalSize(r) + l[i].size
    BY <1>1, Removed
  <2> HIDE DEF r, p
  <2>2. DOMAIN r = 1..(Len(l) - 1)
    BY <2>1
  <2> QED BY <2>1, <2>2
<1>3. \A j \in DOMAIN r : p(j) \in DOMAIN l /\ p(j) # i
  BY <1>1, <1>2
<1>4. \A j \in DOMAIN l : j # i => \E m \in DOMAIN r : p(m) = j
  <2>1. SUFFICES ASSUME NEW j \in DOMAIN l, j # i PROVE \E m \in DOMAIN r : p(m) = j
    OBVIOUS
  <2>2. CASE j < i
    BY <1>1, <1>2, <2>1, <2>2
  <2>3. CASE ~(j < i)
    <3>1. j - 1 \in DOMAIN r /\ p(j - 1) = j
      BY <1>1, <1>2, <2>1, <2>3
    <3> QED BY <3>1
  <2> QED BY <2>2, <2>3
<1>5. \A j, m \in DOMAIN r : p(j) = p(m) => j = m
  BY <1>1, <1>2
<1> HIDE DEF r, p
<1>6. Sound(r)
  BY <1>2, <1>3, <1>5 DEF Sound, Distinct
<1>7. Keys(r) = Keys(l) \ {l[i].key}
  <2>1. \A j \in DOMAIN l : l[j].key = l[i].key => j = i
    BY DEF Sound, Distinct
  <2>2. ASSUME NEW k \in Keys(r) PROVE k \in Keys(l) \ {l[i].key}
    <3>1. PICK j \in DOMAIN r : r[j].key = k
      BY DEF Keys
    <3> QED BY <1>2, <1>3, <2>1, <3>1 DEF Keys
  <2>3. ASSUME NEW k \in Keys(l) \ {l[i].key} PROVE k \in Keys(r)
    <3>1. PICK j \in DOMAIN l : l[j].key = k
      BY DEF Keys
    <3>2. PICK m \in DOMAIN r : p(m) = j
      BY <1>4, <3>1
    <3> QED BY <1>2, <3>1, <3>2 DEF Keys
  <2> QED BY <2>2, <2>3
<1>8. MapOf(r) = [k \in Keys(r) |-> MapOf(l)[k]]
  <2> DEFINE f == [k \in Keys(r) |-> MapOf(l)[k]]
  <2>1. f = [k \in Keys(r) |-> f[k]]
    OBVIOUS
  <2>2. ASSUME NEW j \in DOMAIN r PROVE f[r[j].key] = r[j].value
    <3>1. r[j].key \in Keys(r)
      BY DEF Keys
    <3>2. MapOf(l)[l[p(j)].key] = l[p(j)].value
      BY <1>3, MapOfEntry DEF Sound
    <3> QED BY <1>2, <3>1, <3>2
  <2> HIDE DEF f
  <2>3. MapOf(r) = f
    BY <1>6, <2>1, <2>2, MapOfIs DEF Sound
  <2> QED BY <2>3 DEF f
<1> QED BY <1>2, <1>6, <1>7, <1>8 DEF r

\* An entry is put in front.
LEMMA PutInFront ==
    ASSUME NEW l, Sound(l), NEW e \in Entry, e.key \notin Keys(l), e.size = SizeOf(e.value)
    PROVE  LET m == <<e>> \o l
           IN /\ Sound(m)
              /\ Keys(m) = Keys(l) \cup {e.key}
              /\ TotalSize(m) = TotalSize(l) + e.size
              /\ MapOf(m) = Map!Extended(MapOf(l), e.key, e.value)
<1> DEFINE m == <<e>> \o l
<1>1. /\ l \in Seq(Entry) /\ Len(l) \in Nat /\ DOMAIN l = 1..Len(l)
  BY DEF Sound
<1>2. /\ m \in Seq(Entry) /\ DOMAIN m = 1..(Len(l) + 1) /\ m[1] = e
      /\ \A j \in DOMAIN m : j # 1 => m[j] = l[j - 1]
      /\ TotalSize(m) = e.size + TotalSize(l)
  BY <1>1, InFront
<1>3. \A j \in DOMAIN m : j # 1 => j - 1 \in DOMAIN l
  BY <1>1, <1>2
<1>4. \A j \in DOMAIN l : j + 1 \in DOMAIN m /\ j + 1 # 1 /\ (j + 1) - 1 = j
  BY <1>1, <1>2
<1>5. e.size \in Nat /\ TotalSize(l) \in Nat
  BY <1>1, TotalType, LRUAssumption DEF Entry
<1>6. /\ 1 \in DOMAIN m
      /\ \A j, n \in DOMAIN m : j # 1 /\ n # 1 /\ j - 1 = n - 1 => j = n
  BY <1>1, <1>2
<1> HIDE DEF m
<1>7. Keys(m) = Keys(l) \cup {e.key}
  <2>1. ASSUME NEW k \in Keys(m) PROVE k \in Keys(l) \cup {e.key}
    <3>1. PICK j \in DOMAIN m : m[j].key = k
      BY DEF Keys
    <3> QED BY <1>2, <1>3, <3>1 DEF Keys
  <2>2. ASSUME NEW k \in Keys(l) PROVE k \in Keys(m)
    <3>1. PICK j \in DOMAIN l : l[j].key = k
      BY DEF Keys
    <3>2. m[j + 1] = l[j] /\ j + 1 \in DOMAIN m
      BY <1>2, <1>4
    <3> QED BY <3>1, <3>2 DEF Keys
  <2>3. e.key \in Keys(m)
    BY <1>2, <1>6 DEF Keys
  <2> QED BY <2>1, <2>2, <2>3
<1>8. \A j \in DOMAIN l : l[j].key # e.key
  BY DEF Keys
<1>9. Sound(m)
  <2>1. ASSUME NEW j \in DOMAIN m, NEW n \in DOMAIN m, m[j].key = m[n].key PROVE j = n
    <3>1. CASE j = 1 \/ n = 1
      BY <1>2, <1>3, <1>8, <2>1, <3>1
    <3>2. CASE j # 1 /\ n # 1
      <4>1. l[j - 1].key = l[n - 1].key /\ j - 1 \in DOMAIN l /\ n - 1 \in DOMAIN l
        BY <1>2, <1>3, <2>1, <3>2
      <4>2. j - 1 = n - 1
        BY <4>1 DEF Sound, Distinct
      <4> QED BY <1>6, <3>2, <4>2
    <3> QED BY <3>1, <3>2
  <2>2. ASSUME NEW j \in DOMAIN m PROVE m[j].size = SizeOf(m[j].value)
    <3>1. CASE j = 1
      BY <1>2, <3>1
    <3>2. CASE j # 1
      BY <1>2, <1>3, <3>2 DEF Sound
    <3> QED BY <3>1, <3>2
  <2> QED BY <1>2, <2>1, <2>2 DEF Sound, Distinct
<1>10. MapOf(m) = Map!Extended(MapOf(l), e.key, e.value)
  <2> DEFINE f == [k \in Keys(m) |-> IF k = e.key THEN e.value ELSE MapOf(l)[k]]
  <2>1. f = [k \in Keys(m) |-> f[k]]
    OBVIOUS
  <2>2. ASSUME NEW j \in DOMAIN m PROVE f[m[j].key] = m[j].value
    <3>1. m[j].key \in Keys(m)
      BY DEF Keys
    <3>2. CASE j = 1
      BY <1>2, <3>1, <3>2
    <3>3. CASE j # 1
      <4>1. m[j] = l[j - 1] /\ j - 1 \in DOMAIN l
        BY <1>2, <1>3, <3>3
      <4>2. MapOf(l)[l[j - 1].key] = l[j - 1].value
        BY <4>1, MapOfEntry DEF Sound
      <4> QED BY <1>8, <3>1, <4>1, <4>2
    <3> QED BY <3>2, <3>3
  <2> HIDE DEF f
  <2>3. MapOf(m) = f
    BY <1>9, <2>1, <2>2, MapOfIs DEF Sound
  <2>4. DOMAIN MapOf(l) = Keys(l)
    BY DEF MapOf
  <2> QED BY <1>7, <2>3, <2>4 DEF f, Map!Extended
<1> QED BY <1>2, <1>5, <1>7, <1>9, <1>10 DEF m

\* An entry is moved to the front, or another takes its place there.
LEMMA MovedToFront ==
    ASSUME NEW l, Sound(l), NEW i \in DOMAIN l,
           NEW e \in Entry, e.key = l[i].key, e.size = SizeOf(e.value)
    PROVE  LET m == ToFront(l, i, e)
           IN /\ Sound(m)
              /\ Keys(m) = Keys(l)
              /\ TotalSize(m) + l[i].size = TotalSize(l) + e.size
              /\ MapOf(m) = Map!Extended(MapOf(l), e.key, e.value)
<1> DEFINE r == RemoveAt(l, i)
           m == <<e>> \o r
           k == e.key
<1>1. /\ Sound(r) /\ Keys(r) = Keys(l) \ {k}
      /\ TotalSize(l) = TotalSize(r) + l[i].size
      /\ MapOf(r) = [j \in Keys(l) \ {k} |-> MapOf(l)[j]]
  BY TakenOut
<1>2. k \in Keys(l)
  BY DEF Keys
<1> HIDE DEF r
<1>3. /\ Sound(m) /\ Keys(m) = Keys(r) \cup {k}
      /\ TotalSize(m) = TotalSize(r) + e.size
      /\ MapOf(m) = Map!Extended(MapOf(r), k, e.value)
  <2>1. k \notin Keys(r)
    BY <1>1
  <2> QED BY <1>1, <2>1, PutInFront
<1>4. Map!Extended(MapOf(r), k, e.value) = Map!Extended(MapOf(l), k, e.value)
  <2>1. DOMAIN MapOf(l) = Keys(l) /\ DOMAIN MapOf(r) = Keys(r)
    BY DEF MapOf
  <2>2. \A j \in Keys(l) : j # k => MapOf(r)[j] = MapOf(l)[j]
    BY <1>1
  <2> QED BY <1>1, <1>2, <2>1, <2>2 DEF Map!Extended
<1>5. TotalSize(r) \in Nat /\ l[i].size \in Nat /\ e.size \in Nat
  <2>1. l[i] \in Entry
    BY DEF Sound
  <2> QED BY <1>1, <2>1, TotalType, LRUAssumption DEF Sound, Entry
<1>6. TotalSize(m) + l[i].size = TotalSize(l) + e.size
  BY <1>1, <1>3, <1>5
<1> QED BY <1>1, <1>2, <1>3, <1>4, <1>6 DEF ToFront, r

-----------------------------------------------------------------------------
(* The cache.                                                              *)

\* checkCapacity leaves a sound list that fits the capacity, and forgets no
\* more than it must.
LEMMA CapacityChecked ==
    ASSUME NEW l, Sound(l), NEW t, t = Keys(l), NEW s, s = TotalSize(l), s < Modulus,
           NEW c \in Nat, checkCapacity(l, t, s, c)
    PROVE  /\ Sound(list') /\ table' = Keys(list')
           /\ size' = TotalSize(list') /\ size' <= c
           /\ capacity' = c
           /\ Map!MakesRoom(MapOf(l), c)
<1> DEFINE d == Dropped(l, s, c)
           n == Len(l) - d
           p == SubSeq(l, 1, n)
<1>1. l \in Seq(Entry) /\ Len(l) \in Nat /\ DOMAIN l = 1..Len(l)
  BY DEF Sound
<1>2. /\ n \in 0..Len(l)
      /\ SizeWithout(l, s, d) = TotalSize(p)
      /\ TotalSize(p) <= c
      /\ n # Len(l) => TotalSize(SubSeq(l, 1, n + 1)) > c
  BY Room
<1>3. /\ list' = p
      /\ table' = t \ {l[i].key : i \in (n + 1)..Len(l)}
      /\ size' = SizeWithout(l, s, d)
      /\ capacity' = c
  BY DEF checkCapacity, Dropped, Enough
<1> HIDE DEF n, p, d
<1>4. n \in Nat /\ n <= Len(l) /\ n \in 0..Len(l)
  <2>1. n \in 0..Len(l)
    BY <1>2
  <2> QED BY <1>1, <2>1
<1>5. /\ Keys(p) = {l[i].key : i \in 1..n}
      /\ Keys(p) \subseteq Keys(l)
      /\ Sound(p)
      /\ MapOf(p) = [k \in Keys(p) |-> MapOf(l)[k]]
  BY <1>2, KeysOfFirst DEF p
<1>6. table' = Keys(p)
  <2>1. \A i \in DOMAIN l : i \in 1..n \/ i \in (n + 1)..Len(l)
    BY <1>1, <1>4
  <2>2. \A i \in 1..n : \A j \in (n + 1)..Len(l) :
           i \in DOMAIN l /\ j \in DOMAIN l /\ i # j
    BY <1>1, <1>4
  <2>3. \A i \in 1..n : \A j \in (n + 1)..Len(l) : l[i].key # l[j].key
    BY <2>2 DEF Sound, Distinct
  <2>4. Keys(l) \ {l[i].key : i \in (n + 1)..Len(l)} = {l[i].key : i \in 1..n}
    <3>1. ASSUME NEW i \in 1..n PROVE l[i].key \in Keys(l) \ {l[j].key : j \in (n + 1)..Len(l)}
      <4>1. i \in DOMAIN l
        BY <1>1, <1>4
      <4> QED BY <2>3, <4>1 DEF Keys
    <3>2. ASSUME NEW k \in Keys(l), k \notin {l[j].key : j \in (n + 1)..Len(l)}
          PROVE  k \in {l[i].key : i \in 1..n}
      <4>1. PICK i \in DOMAIN l : l[i].key = k
        BY DEF Keys
      <4> QED BY <2>1, <3>2, <4>1
    <3> QED BY <3>1, <3>2
  <2> QED BY <1>3, <1>5, <2>4
<1>7. Map!MakesRoom(MapOf(l), c)
  <2>1. DOMAIN MapOf(l) = Keys(l)
    BY DEF MapOf
  <2>2. Map!Weight(MapOf(l), Keys(p)) <= c
    BY <1>2, WeightOfFirst DEF p
  <2>3. ASSUME Keys(p) # Keys(l)
        PROVE  \E k \in Keys(l) \ Keys(p) : Map!Weight(MapOf(l), Keys(p) \cup {k}) > c
    <3>1. n # Len(l)
      BY <1>1, <1>5, <2>3 DEF Keys
    <3>2. /\ n + 1 \in 0..Len(l) /\ n + 1 \in DOMAIN l
          /\ \A i \in 1..n : i \in DOMAIN l /\ i # n + 1
      <4>1. Len(l) \in Nat /\ n < Len(l)
        <5>1. Len(l) \in Nat
          BY <1>1
        <5> QED BY <1>4, <3>1, <5>1
      <4>2. n + 1 \in 1..Len(l) /\ n + 1 \in 0..Len(l)
        BY <1>4, <4>1
      <4>3. \A i \in 1..n : i \in 1..Len(l) /\ i # n + 1
        BY <1>4, <4>1
      <4> QED BY <1>1, <4>2, <4>3
    <3> DEFINE k == l[n + 1].key
    <3>3. k \in Keys(l) \ Keys(p)
      BY <1>5, <3>2 DEF Keys, Sound, Distinct
    <3>4. Keys(SubSeq(l, 1, n + 1)) = Keys(p) \cup {k}
      <4>1. Keys(SubSeq(l, 1, n + 1)) = {l[i].key : i \in 1..(n + 1)}
        BY <3>2, KeysOfFirst
      <4>2. 1..(n + 1) = (1..n) \cup {n + 1}
        BY <1>4
      <4> QED BY <1>5, <4>1, <4>2
    <3>5. Map!Weight(MapOf(l), Keys(SubSeq(l, 1, n + 1))) > c
      BY <1>2, <3>1, <3>2, WeightOfFirst
    <3> QED BY <3>3, <3>4, <3>5
  <2>4. [k \in table |-> list[Element(k)].value]' = MapOf(list')
    BY <1>3, <1>6 DEF MapOf, Element
  <2>5. [k \in table |-> list[Element(k)].value]' = Map!Restriction(MapOf(l), Keys(p))
    BY <1>3, <1>5, <2>4 DEF Map!Restriction
  <2>6. Keys(p) \in SUBSET DOMAIN MapOf(l)
    BY <1>5, <2>1
  <2> QED BY <2>1, <2>2, <2>3, <2>5, <2>6 DEF Map!MakesRoom
<1> QED BY <1>2, <1>3, <1>5, <1>6, <1>7

\* The inductive invariant: the entries also have the sizes of their values, and
\* the cache fits its capacity, which keeps the running size from wrapping.
LRUIInv ==
    /\ LRUTypeOK
    /\ Sound(list)
    /\ table = Keys(list)
    /\ size = TotalSize(list)
    /\ size <= capacity

\* The map of the refinement.
Held == [k \in table |-> list[Element(k)].value]

LEMMA HeldNow ==
    ASSUME table = Keys(list) PROVE Held = MapOf(list)
BY DEF Held, MapOf, Element

LEMMA HeldNext ==
    ASSUME table' = Keys(list') PROVE Held' = MapOf(list')
BY DEF Held, MapOf, Element

LEMMA SoundTyped ==
    ASSUME NEW l, Sound(l), NEW c \in Capacities, TotalSize(l) <= c
    PROVE  /\ l \in Seq(Entry) /\ Keys(l) \subseteq Key
           /\ TotalSize(l) \in 0..(Modulus - 1) /\ TotalSize(l) < Modulus
           /\ c \in Nat
<1>1. l \in Seq(Entry)
  BY DEF Sound
<1>2. \A i \in DOMAIN l : l[i] \in Entry
  BY <1>1
<1>3. TotalSize(l) \in Nat
  BY <1>1, TotalType
<1>4. c \in Nat /\ c < Modulus /\ Modulus \in Nat
  BY LRUAssumption
<1>5. Keys(l) \subseteq Key
  BY <1>2 DEF Keys, Entry
<1> QED BY <1>1, <1>3, <1>4, <1>5

\* What is to show of a step.
LEMMA KeepsLRUIInv ==
    ASSUME Sound(list'), table' = Keys(list'), size' = TotalSize(list'), size' <= capacity',
           capacity' \in Capacities, clock' \in 0..MaxClock,
           reply' \in Value \cup {NotFound, Done}
    PROVE  LRUIInv' /\ Held' = MapOf(list')
BY SoundTyped, HeldNext DEF LRUIInv, LRUTypeOK

LEMMA TickTyped ==
    ASSUME LRUIInv, Tick PROVE clock \in 0..MaxClock /\ clock' \in 0..MaxClock
BY LRUAssumption DEF LRUIInv, LRUTypeOK, Tick

\* The element of a key.
LEMMA Found ==
    ASSUME LRUIInv, NEW k \in table
    PROVE  /\ Element(k) \in DOMAIN list
           /\ list[Element(k)] \in Entry
           /\ list[Element(k)].key = k
           /\ list[Element(k)].size = SizeOf(list[Element(k)].value)
           /\ MapOf(list)[k] = list[Element(k)].value
<1>1. \E i \in DOMAIN list : list[i].key = k
  BY DEF LRUIInv, Keys
<1>2. Element(k) \in DOMAIN list /\ list[Element(k)].key = k
  BY <1>1 DEF Element
<1>3. list[Element(k)] \in Entry /\ list[Element(k)].size = SizeOf(list[Element(k)].value)
  <2>1. list \in Seq(Entry)
    BY DEF LRUIInv, LRUTypeOK
  <2> QED BY <1>2, <2>1 DEF LRUIInv, Sound
<1>4. MapOf(list)[k] = list[Element(k)].value
  BY <1>2, MapOfEntry DEF LRUIInv, Sound
<1> QED BY <1>2, <1>3, <1>4

LEMMA Moved ==
    ASSUME LRUIInv, NEW k \in table, moveToFront(k)
    PROVE  /\ Sound(list') /\ Keys(list') = table
           /\ TotalSize(list') = size
           /\ MapOf(list') = MapOf(list)
<1> DEFINE i == Element(k)
           e == Touched(list[i])
<1>1. /\ i \in DOMAIN list /\ list[i] \in Entry /\ list[i].key = k
      /\ list[i].size = SizeOf(list[i].value)
      /\ MapOf(list)[k] = list[i].value
  BY Found
<1>2. list' = ToFront(list, i, e)
  BY DEF moveToFront
<1>3. clock \in 0..MaxClock
  BY DEF LRUIInv, LRUTypeOK
<1> HIDE DEF i
<1>4. /\ e \in Entry /\ e.key = k /\ e.value = list[i].value /\ e.size = list[i].size
  BY <1>1, <1>3 DEF Touched, Entry
<1> HIDE DEF e
<1>5. /\ Sound(list') /\ Keys(list') = Keys(list)
      /\ TotalSize(list') + list[i].size = TotalSize(list) + e.size
      /\ MapOf(list') = Map!Extended(MapOf(list), k, e.value)
  BY <1>1, <1>2, <1>4, MovedToFront DEF LRUIInv
<1>6. TotalSize(list') = size
  <2>1. TotalSize(list') \in Nat /\ size \in Nat /\ list[i].size \in Nat /\ size = TotalSize(list)
    BY <1>1, <1>5, TotalType, LRUAssumption DEF LRUIInv, LRUTypeOK, Sound, Entry
  <2> QED BY <1>4, <1>5, <2>1
<1>7. Map!Extended(MapOf(list), k, e.value) = MapOf(list)
  <2>1. DOMAIN MapOf(list) = Keys(list) /\ k \in Keys(list)
        /\ MapOf(list) = [j \in Keys(list) |-> MapOf(list)[j]]
    BY DEF MapOf, LRUIInv
  <2>2. Keys(list) \cup {k} = Keys(list)
    BY <2>1
  <2>3. \A j \in Keys(list) : (IF j = k THEN e.value ELSE MapOf(list)[j]) = MapOf(list)[j]
    BY <1>1, <1>4
  <2> QED BY <2>1, <2>2, <2>3 DEF Map!Extended
<1> QED BY <1>5, <1>6, <1>7 DEF LRUIInv

\* The value of a key is replaced.
LEMMA Updated ==
    ASSUME LRUIInv, NEW k \in table, NEW v \in Value, updateInplace(k, v)
    PROVE  /\ Sound(list') /\ table' = Keys(list')
           /\ size' = TotalSize(list') /\ size' <= capacity'
           /\ capacity' = capacity
           /\ Map!MakesRoom(Map!Extended(MapOf(list), k, v), capacity)
<1> DEFINE i == Element(k)
           sizeDiff == SizeOf(v) - list[i].size
           e == Touched([list[i] EXCEPT !.value = v, !.size = SizeOf(v)])
           l == ToFront(list, i, e)
           s == (size + (sizeDiff % Modulus)) % Modulus
<1>1. /\ i \in DOMAIN list /\ list[i] \in Entry /\ list[i].key = k
      /\ list[i].size = SizeOf(list[i].value)
  BY Found
<1>2. checkCapacity(l, table, s, capacity)
  BY DEF updateInplace
<1>3. /\ clock \in 0..MaxClock /\ capacity \in Capacities /\ Sound(list)
      /\ size = TotalSize(list) /\ size <= capacity /\ table = Keys(list)
  BY DEF LRUIInv, LRUTypeOK
<1>4. /\ capacity \in Nat /\ SizeOf(v) \in Nat /\ Modulus \in Nat
      /\ capacity + SizeOf(v) < Modulus /\ capacity < Modulus
  BY <1>3, LRUAssumption
<1>5. SizeOf(v) \in 0..(Modulus - 1)
  BY <1>4
<1> HIDE DEF i
<1>6. e \in Entry /\ e.key = k /\ e.value = v /\ e.size = SizeOf(v)
  BY <1>1, <1>3, <1>5 DEF Touched, Entry
<1> HIDE DEF e
<1>7. /\ Sound(l) /\ Keys(l) = Keys(list)
      /\ TotalSize(l) + list[i].size = TotalSize(list) + SizeOf(v)
      /\ MapOf(l) = Map!Extended(MapOf(list), k, v)
  BY <1>1, <1>3, <1>6, MovedToFront
<1>8. s = TotalSize(l) /\ TotalSize(l) < Modulus
  <2>1. list[i].size \in Nat /\ list[i].size < Modulus
    BY <1>1, LRUAssumption DEF Entry
  <2>2. TotalSize(l) \in Nat
    BY <1>7, TotalType DEF Sound
  <2>3. TotalSize(list) = TotalSize(RemoveAt(list, i)) + list[i].size
        /\ TotalSize(RemoveAt(list, i)) \in Nat /\ TotalSize(list) \in Nat
    BY <1>1, <1>3, TakenOut, TotalType DEF Sound
  <2>4. size \in Nat /\ size < Modulus /\ list[i].size <= size
    BY <1>3, <1>4, <2>1, <2>3
  <2>5. TotalSize(l) = size + sizeDiff
    BY <1>3, <1>4, <1>7, <2>1, <2>2, <2>4
  <2>6. /\ sizeDiff \in Int /\ -Modulus < sizeDiff /\ sizeDiff < Modulus
        /\ size + sizeDiff < Modulus
    BY <1>3, <1>4, <2>1, <2>4
  <2> HIDE DEF sizeDiff, l
  <2>7. (size + (sizeDiff % Modulus)) % Modulus = size + sizeDiff
    BY <1>4, <2>2, <2>4, <2>5, <2>6, ModuloSum
  <2> QED BY <2>5, <2>6, <2>7
<1> HIDE DEF l, s
<1> QED BY <1>2, <1>3, <1>4, <1>7, <1>8, CapacityChecked

\* A key is added.
LEMMA Added ==
    ASSUME LRUIInv, NEW k \in Key, k \notin table, NEW v \in Value, addNew(k, v)
    PROVE  /\ Sound(list') /\ table' = Keys(list')
           /\ size' = TotalSize(list') /\ size' <= capacity'
           /\ capacity' = capacity
           /\ Map!MakesRoom(Map!Extended(MapOf(list), k, v), capacity)
<1> DEFINE e == [key |-> k, value |-> v, size |-> SizeOf(v), timeAccessed |-> clock]
           l == <<e>> \o list
           s == (size + SizeOf(v)) % Modulus
<1>1. checkCapacity(l, table \cup {k}, s, capacity)
  BY DEF addNew
<1>2. /\ clock \in 0..MaxClock /\ capacity \in Capacities /\ Sound(list)
      /\ size = TotalSize(list) /\ size <= capacity /\ table = Keys(list)
  BY DEF LRUIInv, LRUTypeOK
<1>3. /\ capacity \in Nat /\ SizeOf(v) \in Nat /\ Modulus \in Nat
      /\ capacity + SizeOf(v) < Modulus
  BY <1>2, LRUAssumption
<1>4. SizeOf(v) \in 0..(Modulus - 1)
  BY <1>3
<1>5. e \in Entry /\ e.key = k /\ e.value = v /\ e.size = SizeOf(v)
  BY <1>2, <1>4 DEF Entry
<1> HIDE DEF e
<1>6. /\ Sound(l) /\ Keys(l) = Keys(list) \cup {k}
      /\ TotalSize(l) = TotalSize(list) + SizeOf(v)
      /\ MapOf(l) = Map!Extended(MapOf(list), k, v)
  BY <1>2, <1>5, PutInFront
<1>7. s = TotalSize(l) /\ TotalSize(l) < Modulus
  <2>1. TotalSize(list) \in Nat
    BY <1>2, TotalType DEF Sound
  <2>2. size + SizeOf(v) \in Int /\ 0 <= size + SizeOf(v) /\ size + SizeOf(v) < Modulus
    BY <1>2, <1>3, <2>1
  <2>3. (size + SizeOf(v)) % Modulus = size + SizeOf(v)
    BY <1>3, <2>2, ModuloSmall
  <2> QED BY <1>2, <1>6, <2>2, <2>3
<1> HIDE DEF l, s
<1> QED BY <1>1, <1>2, <1>3, <1>6, <1>7, CapacityChecked

-----------------------------------------------------------------------------
(* One lemma per operation: it keeps the invariant, and the map does the   *)
(* same operation.                                                         *)

LEMMA GetStep ==
    ASSUME LRUIInv, NEW k \in Key, Get(k)
    PROVE  LRUIInv' /\ Map!Get(k)
<1>1. /\ Held = MapOf(list) /\ DOMAIN Held = table /\ clock' \in 0..MaxClock
      /\ UNCHANGED <<table, size, capacity>>
  BY HeldNow, TickTyped DEF Held, LRUIInv, Get
<1>2. CASE k \notin table
  <2>1. reply' = NotFound /\ UNCHANGED list
    BY <1>2 DEF Get
  <2>2. LRUIInv'
    BY <1>1, <2>1, KeepsLRUIInv DEF LRUIInv, LRUTypeOK
  <2>3. Held' = Held
    BY <1>1, <2>1 DEF Held, Element
  <2> QED BY <1>1, <1>2, <2>1, <2>2, <2>3 DEF Map!Get, Map!Absent, NotFound, Held
<1>3. CASE k \in table
  <2>1. moveToFront(k) /\ reply' = list[Element(k)].value
    BY <1>3 DEF Get
  <2>2. /\ Sound(list') /\ Keys(list') = table /\ TotalSize(list') = size
        /\ MapOf(list') = MapOf(list)
    BY <1>3, <2>1, Moved
  <2>3. reply' \in Value
    BY <1>3, <2>1, Found DEF Entry
  <2>4. LRUIInv' /\ Held' = Held
    BY <1>1, <2>2, <2>3, KeepsLRUIInv DEF LRUIInv, LRUTypeOK
  <2>5. reply' = Held[k]
    BY <1>3, <2>1 DEF Held
  <2> QED BY <1>1, <1>3, <2>4, <2>5 DEF Map!Get, Held
<1> QED BY <1>2, <1>3

LEMMA SetStep ==
    ASSUME LRUIInv, NEW k \in Key, NEW v \in Value, Set(k, v)
    PROVE  LRUIInv' /\ Map!Set(k, v)
<1>1. Held = MapOf(list) /\ clock' \in 0..MaxClock /\ reply' = Done /\ capacity \in Capacities
  BY HeldNow, TickTyped DEF LRUIInv, LRUTypeOK, Set
<1>2. \/ k \in table /\ updateInplace(k, v)
      \/ k \notin table /\ addNew(k, v)
  BY DEF Set
<1>3. /\ Sound(list') /\ table' = Keys(list')
      /\ size' = TotalSize(list') /\ size' <= capacity'
      /\ capacity' = capacity
      /\ Map!MakesRoom(Map!Extended(MapOf(list), k, v), capacity)
  BY <1>2, Updated, Added
<1>4. LRUIInv'
  BY <1>1, <1>3, KeepsLRUIInv
<1>5. Map!MakesRoom(Map!Extended(Held, k, v), capacity)
  BY <1>1, <1>3
<1> QED BY <1>1, <1>3, <1>4, <1>5 DEF Map!Set, Map!Done, Done, Held

LEMMA SetIfAbsentStep ==
    ASSUME LRUIInv, NEW k \in Key, NEW v \in Value, SetIfAbsent(k, v)
    PROVE  LRUIInv' /\ Map!SetIfAbsent(k, v)
<1>1. /\ Held = MapOf(list) /\ DOMAIN Held = table /\ clock' \in 0..MaxClock
      /\ reply' = Done /\ capacity \in Capacities
  BY HeldNow, TickTyped DEF LRUIInv, LRUTypeOK, SetIfAbsent, Held
<1>2. CASE k \in table
  <2>1. moveToFront(k) /\ UNCHANGED <<table, size, capacity>>
    BY <1>2 DEF SetIfAbsent
  <2>2. /\ Sound(list') /\ Keys(list') = table /\ TotalSize(list') = size
        /\ MapOf(list') = MapOf(list)
    BY <1>2, <2>1, Moved
  <2>3. LRUIInv' /\ Held' = Held
    BY <1>1, <2>1, <2>2, KeepsLRUIInv DEF LRUIInv, LRUTypeOK
  <2> QED BY <1>1, <1>2, <2>1, <2>3 DEF Map!SetIfAbsent, Map!Done, Done, Held
<1>3. CASE k \notin table
  <2>1. addNew(k, v)
    BY <1>3 DEF SetIfAbsent
  <2>2. /\ Sound(list') /\ table' = Keys(list')
        /\ size' = TotalSize(list') /\ size' <= capacity'
        /\ capacity' = capacity
        /\ Map!MakesRoom(Map!Extended(MapOf(list), k, v), capacity)
    BY <1>3, <2>1, Added
  <2>3. LRUIInv'
    BY <1>1, <2>2, KeepsLRUIInv
  <2>4. Map!MakesRoom(Map!Extended(Held, k, v), capacity)
    BY <1>1, <2>2
  <2> QED BY <1>1, <1>3, <2>2, <2>3, <2>4 DEF Map!SetIfAbsent, Map!Done, Done, Held
<1> QED BY <1>2, <1>3

LEMMA DeleteStep ==
    ASSUME LRUIInv, NEW k \in Key, Delete(k)
    PROVE  LRUIInv' /\ Map!Delete(k)
<1>1. /\ Held = MapOf(list) /\ DOMAIN Held = table /\ clock' \in 0..MaxClock
      /\ Held = [j \in table |-> Held[j]] /\ UNCHANGED capacity /\ table = Keys(list)
  BY HeldNow, TickTyped DEF Held, LRUIInv, Delete
<1>2. CASE k \notin table
  <2>1. reply' = NotFound /\ UNCHANGED <<list, table, size>>
    BY <1>2 DEF Delete
  <2>2. LRUIInv'
    BY <1>1, <2>1, KeepsLRUIInv DEF LRUIInv, LRUTypeOK
  <2>3. Held' = Held
    BY <2>1 DEF Held, Element
  <2>4. Held' = Map!Restriction(Held, DOMAIN Held \ {k})
    <3>1. table \ {k} = table
      BY <1>2
    <3> QED BY <1>1, <2>3, <3>1 DEF Map!Restriction
  <2> QED BY <1>1, <1>2, <2>1, <2>2, <2>4 DEF Map!Delete, Map!Absent, NotFound, Held
<1>3. CASE k \in table
  <2> DEFINE i == Element(k)
  <2>1. /\ list' = RemoveAt(list, i) /\ table' = table \ {k}
        /\ size' = (size - list[i].size) % Modulus
        /\ reply' = Done
    BY <1>3 DEF Delete
  <2>2. i \in DOMAIN list /\ list[i].key = k /\ list[i] \in Entry
    BY <1>3, Found
  <2> HIDE DEF i
  <2>3. /\ Sound(list') /\ Keys(list') = table \ {k}
        /\ TotalSize(list) = TotalSize(list') + list[i].size
        /\ MapOf(list') = [j \in table \ {k} |-> MapOf(list)[j]]
    <3> DEFINE r == RemoveAt(list, i)
    <3>1. /\ Sound(r) /\ Keys(r) = Keys(list) \ {k}
          /\ TotalSize(list) = TotalSize(r) + list[i].size
          /\ MapOf(r) = [j \in Keys(list) \ {k} |-> MapOf(list)[j]]
      BY <2>2, TakenOut DEF LRUIInv
    <3>2. list' = r
      BY <2>1
    <3> HIDE DEF r
    <3> QED BY <1>1, <3>1, <3>2
  <2>4. size' = TotalSize(list') /\ size' <= capacity
    <3>1. TotalSize(list') \in Nat /\ list[i].size \in Nat
      <4>1. list' \in Seq(Entry)
        BY <2>3 DEF Sound
      <4>2. list[i].size \in Nat
        BY <2>2, LRUAssumption DEF Entry
      <4> QED BY <4>1, <4>2, TotalType
    <3>2. /\ size = TotalSize(list) /\ size <= capacity /\ capacity \in Nat
          /\ capacity < Modulus /\ Modulus \in Nat
      BY LRUAssumption DEF LRUIInv, LRUTypeOK
    <3>3. size - list[i].size = TotalSize(list')
      BY <2>3, <3>1, <3>2
    <3>4. TotalSize(list') <= capacity /\ TotalSize(list') < Modulus
      BY <2>3, <3>1, <3>2
    <3>5. TotalSize(list') % Modulus = TotalSize(list')
      BY <3>1, <3>2, <3>4, ModuloSmall
    <3> QED BY <2>1, <3>3, <3>4, <3>5
  <2>5. LRUIInv' /\ Held' = MapOf(list')
    BY <1>1, <2>1, <2>3, <2>4, KeepsLRUIInv DEF LRUIInv, LRUTypeOK
  <2>6. Held' = Map!Restriction(Held, DOMAIN Held \ {k})
    BY <1>1, <2>3, <2>5 DEF Map!Restriction
  <2> QED BY <1>1, <1>3, <2>1, <2>5, <2>6 DEF Map!Delete, Map!Done, Done, Held
<1> QED BY <1>2, <1>3

LEMMA EmptySound == Sound(<< >>) /\ Keys(<< >>) = {} /\ TotalSize(<< >>) = 0
<1>1. << >> \in Seq(Entry) /\ DOMAIN << >> = {}
  OBVIOUS
<1> QED BY <1>1, TotalEmpty DEF Sound, Distinct, Keys

LEMMA ClearStep ==
    ASSUME LRUIInv, Clear
    PROVE  LRUIInv' /\ Map!Clear
<1>1. clock' \in 0..MaxClock
  BY TickTyped DEF Clear
<1>2. list' = << >> /\ table' = {} /\ size' = 0 /\ reply' = Done /\ capacity' = capacity
  BY DEF Clear
<1>3. capacity \in Capacities /\ 0 <= capacity
  BY LRUAssumption DEF LRUIInv, LRUTypeOK
<1>4. LRUIInv'
  BY <1>1, <1>2, <1>3, EmptySound, KeepsLRUIInv
<1>5. Held' = << >>
  BY <1>2 DEF Held
<1> QED BY <1>2, <1>4, <1>5 DEF Map!Clear, Map!Done, Done, Held

LEMMA SetCapacityStep ==
    ASSUME LRUIInv, NEW c \in Capacities, SetCapacity(c)
    PROVE  LRUIInv' /\ Map!SetCapacity(c)
<1>1. clock' \in 0..MaxClock /\ reply' = Done /\ Held = MapOf(list)
  BY TickTyped, HeldNow DEF SetCapacity, LRUIInv
<1>2. /\ Sound(list) /\ table = Keys(list) /\ size = TotalSize(list) /\ size < Modulus /\ c \in Nat
      /\ checkCapacity(list, table, size, c)
  BY LRUAssumption DEF LRUIInv, LRUTypeOK, SetCapacity
<1>3. /\ Sound(list') /\ table' = Keys(list')
      /\ size' = TotalSize(list') /\ size' <= c
      /\ capacity' = c
      /\ Map!MakesRoom(MapOf(list), c)
  BY <1>2, CapacityChecked
<1>4. LRUIInv'
  BY <1>1, <1>3, KeepsLRUIInv
<1>5. Map!MakesRoom(Held, c)
  BY <1>1, <1>3
<1> QED BY <1>1, <1>3, <1>4, <1>5 DEF Map!SetCapacity, Map!Done, Done, Held

LEMMA LRUStart ==
    ASSUME LRUInit
    PROVE  LRUIInv /\ Map!Init
<1>1. list = << >> /\ table = {} /\ size = 0 /\ capacity \in Capacities /\ clock = 0 /\ reply = Done
  BY DEF LRUInit
<1>2. capacity \in Nat /\ 0 \in 0..(Modulus - 1) /\ 0 \in 0..MaxClock
  BY <1>1, LRUAssumption
<1>3. << >> \in Seq(Entry)
  OBVIOUS
<1>4. LRUIInv
  BY <1>1, <1>2, <1>3, EmptySound DEF LRUIInv, LRUTypeOK
<1>5. Held = << >>
  BY <1>1 DEF Held
<1> QED BY <1>1, <1>4, <1>5 DEF Map!Init, Map!Done, Done, Held

LEMMA LRUStep ==
    ASSUME LRUIInv, [LRUNext]_lruVars
    PROVE  LRUIInv' /\ [Map!Next]_(Map!vars)
<1>1. CASE UNCHANGED lruVars
  <2>1. LRUIInv'
    BY <1>1 DEF lruVars, LRUIInv, LRUTypeOK, Sound, Distinct
  <2>2. Held' = Held
    BY <1>1 DEF lruVars, Held, Element
  <2> QED BY <1>1, <2>1, <2>2 DEF lruVars, Map!vars, Held
<1>2. ASSUME NEW k \in Key, Get(k) PROVE LRUIInv' /\ Map!Next
  BY <1>2, GetStep DEF Map!Next
<1>3. ASSUME NEW k \in Key, Delete(k) PROVE LRUIInv' /\ Map!Next
  BY <1>3, DeleteStep DEF Map!Next
<1>4. ASSUME NEW k \in Key, NEW v \in Value, Set(k, v) PROVE LRUIInv' /\ Map!Next
  BY <1>4, SetStep DEF Map!Next
<1>5. ASSUME NEW k \in Key, NEW v \in Value, SetIfAbsent(k, v) PROVE LRUIInv' /\ Map!Next
  BY <1>5, SetIfAbsentStep DEF Map!Next
<1>6. CASE Clear
  BY <1>6, ClearStep DEF Map!Next
<1>7. ASSUME NEW c \in Capacities, SetCapacity(c) PROVE LRUIInv' /\ Map!Next
  BY <1>7, SetCapacityStep DEF Map!Next
<1> QED BY <1>1, <1>2, <1>3, <1>4, <1>5, <1>6, <1>7 DEF LRUNext

\* The invariant holds of every behaviour of the cache.
THEOREM LRUInvariant == LRUSpec => []LRUIInv
<1>1. LRUInit => LRUIInv
  BY LRUStart
<1>2. LRUIInv /\ [LRUNext]_lruVars => LRUIInv'
  BY LRUStep
<1> QED BY <1>1, <1>2, PTL DEF LRUSpec

\* The running size is the sum of the sizes in the list and the table has one
\* element per entry, for every sequence of calls and any number of keys, values
\* and capacities: checkCapacity never meets an empty list.
THEOREM LRUAccounted == LRUSpec => []Accounted
<1>1. LRUIInv => Accounted
  BY DEF LRUIInv, Accounted, Sound, Distinct, Keys
<1> QED BY <1>1, LRUInvariant, PTL

\* The list and the table implement the bounded map that the callers rely on.
THEOREM LRUImplementsMap == LRUSpec => ImplementsMap
<1>1. LRUInit => Map!Init
  BY LRUStart
<1>2. LRUIInv /\ [LRUNext]_lruVars => [Map!Next]_(Map!vars)
  BY LRUStep
<1> QED BY <1>1, <1>2, LRUInvariant, PTL DEF LRUSpec, ImplementsMap, Map!Spec

=============================================================================
