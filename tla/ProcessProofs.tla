--------------------------- MODULE ProcessProofs ---------------------------
(***************************************************************************)
(* What the process does besides answering requests.  The flags of the     *)
(* monitor, for every number of mirrors, of health check and sync          *)
(* goroutines and of outside changes, and for every capacity of            *)
(* healthCheckChan; the listening socket and the pid file through seamless *)
(* upgrades, for every number of processes and of signals; the upgrade of  *)
(* the database at the start, for every number of processes, mirrors and   *)
(* files.                                                                  *)
(***************************************************************************)
EXTENDS Monitor, Lifecycle, DBUpgrade, TLAPS

-----------------------------------------------------------------------------
(* The monitor: the inductive invariant                                    *)

\* Until the list of mirrors has been read no mirror is listed and no goroutine
\* has been started.
StartupInv ==
    phase \in {"waiting", "repository", "repositoryFailed", "listing", "listingFailed"}
        => /\ listed = {}
           /\ \A c \in Checker : check[c] = "none"
           /\ \A s \in Syncer : sync[s] = "none"

\* A goroutine has a mirror exactly while it is working.
WorkerInv ==
    /\ \A c \in Checker :
          checkId[c] # NoMirror
              <=> check[c] \in {"picking", "requesting", "loading", "ending"}
    /\ \A s \in Syncer :
          syncId[s] # NoMirror
              <=> sync[s] \in {"starting", "scanning", "queueing", "ending"}

\* A mirror that has left the map under a working goroutine does not come back
\* unless UpdateMirror writes it again: identifiers are not used twice, and a
\* write by a late scan or check leaves a record without ID.  Without this the
\* mirror could return, with its flag down, while the old scan is running.
GoneForGood ==
    \A s \in Syncer :
        syncId[s] \notin {NoMirror} \cup listed \cup revived
            => record[syncId[s]] \in {"absent", "partial"}

ScanInv == GoneForGood /\ ScanningHasWorker /\ OneScanPerMirror

IInv == TypeOK /\ StartupInv /\ WorkerInv /\ CheckingHasCause /\ ScanInv

-----------------------------------------------------------------------------

LEMMA InitIInv == Init => IInv
<1> SUFFICES ASSUME Init PROVE IInv
    OBVIOUS
<1>1. TypeOK
    <2>1. healthCheckChan \in Seq(Mirror) /\ changes \in 0..ChangeBudget
        BY MonitorAssumption DEF Init
    <2>2. record \in [Mirror -> {"unused", "full", "absent", "partial"}]
        BY DEF Init
    <2> QED BY <2>1, <2>2 DEF Init, TypeOK
<1>2. StartupInv /\ WorkerInv /\ CheckingHasCause /\ ScanInv
    BY MonitorAssumption
       DEF Init, StartupInv, CheckingHasCause, ScanInv, WorkerInv, GoneForGood,
           ScanningHasWorker, OneScanPerMirror
<1> QED BY <1>1, <1>2 DEF IInv

\* What every action keeps of the types; checked, checking and scanning stay in
\* the map because an entry leaves the map as a whole.
LEMMA TypeStep == TypeOK /\ StartupInv /\ WorkerInv /\ [Next]_vars => TypeOK'
<1> SUFFICES ASSUME TypeOK, StartupInv, WorkerInv, [Next]_vars PROVE TypeOK'
    OBVIOUS
<1> USE MonitorAssumption
<1> USE DEF TypeOK, mapVars, checkVars, syncVars, dbVars, Goto, Change, Known
<1>1. CASE Ready
    BY <1>1 DEF Ready
<1>2. CASE ScanRepository
    BY <1>2 DEF ScanRepository
<1>3. CASE RetryTimer
    BY <1>3 DEF RetryTimer
<1>4. CASE RetryStopped
    BY <1>4 DEF RetryStopped
<1>5. CASE ListFails
    BY <1>5 DEF ListFails
<1>6. CASE ListMirrors
    BY <1>6 DEF ListMirrors, StartupInv
<1>7. CASE LoopReturn
    BY <1>7 DEF LoopReturn
<1>8. CASE Stop
    BY <1>8 DEF Stop
<1>9. ASSUME NEW id \in Mirror, MirrorUpdated(id) PROVE TypeOK'
    BY <1>9 DEF MirrorUpdated, UpdateMirror, DeleteMirror
<1>10. ASSUME NEW id \in Mirror, Visit(id) PROVE TypeOK'
    <2>1. healthCheckChan' \in Seq(Mirror)
        <3>1. \/ healthCheckChan' = Append(healthCheckChan, id)
              \/ UNCHANGED healthCheckChan
            BY <1>10 DEF Visit, QueueCheck
        <3>2. healthCheckChan \in Seq(Mirror)
            OBVIOUS
        <3> QED BY <3>1, <3>2
    <2>2. checking' \subseteq listed' /\ scanning' \subseteq listed'
        BY <1>10 DEF Visit, QueueCheck, QueueSync
    <2>3. /\ sync' \in [Syncer -> {"none", "select", "starting", "scanning",
                                   "queueing", "ending", "returned"}]
          /\ syncId' \in [Syncer -> Mirror \cup {NoMirror}]
        BY <1>10 DEF Visit, QueueSync
    <2> QED BY <1>10, <2>1, <2>2, <2>3 DEF Visit
<1>11. ASSUME NEW id \in Mirror, Elapse(id) PROVE TypeOK'
    BY <1>11 DEF Elapse
<1>12. ASSUME NEW c \in Checker, CheckTake(c) PROVE TypeOK'
    <2>1. healthCheckChan' \in Seq(Mirror) /\ Head(healthCheckChan) \in Mirror
        BY <1>12 DEF CheckTake
    <2> QED BY <1>12, <2>1 DEF CheckTake, CheckGoto
<1>13. ASSUME NEW c \in Checker, CheckPick(c) PROVE TypeOK'
    BY <1>13 DEF CheckPick, PickFails, CheckGoto
<1>14. ASSUME NEW c \in Checker, CheckReply(c) PROVE TypeOK'
    <2>1. checkId[c] \in Mirror
        BY <1>14 DEF CheckReply, WorkerInv
    <2> QED BY <1>14, <2>1 DEF CheckReply, WriteRecord, CheckGoto
<1>15. ASSUME NEW c \in Checker, CheckEnd(c) PROVE TypeOK'
    <2>1. checking' \subseteq listed'
        BY <1>15 DEF CheckEnd, ClearFlag
    <2>2. checked' \subseteq listed'
        BY <1>15 DEF CheckEnd
    <2>3. unscanned' \subseteq Mirror
        BY <1>15 DEF CheckEnd
    <2>4. check' \in [Checker -> {"none", "select", "picking", "requesting",
                                  "loading", "ending", "returned"}]
          /\ checkId' \in [Checker -> Mirror \cup {NoMirror}]
        BY <1>15 DEF CheckEnd, CheckGoto
    <2> QED BY <1>15, <2>1, <2>2, <2>3, <2>4 DEF CheckEnd
<1>16. ASSUME NEW c \in Checker, CheckReturn(c) PROVE TypeOK'
    BY <1>16 DEF CheckReturn, CheckGoto
<1>17. ASSUME NEW s \in Syncer, SyncStart(s) PROVE TypeOK'
    <2>1. syncId[s] \in Mirror
        BY <1>17 DEF SyncStart, WorkerInv
    <2>2. /\ record' \in [Mirror -> {"unused", "full", "absent", "partial"}]
          /\ events' \subseteq Mirror
        BY <1>17, <2>1 DEF SyncStart, WriteRecord
    <2>3. /\ sync' \in [Syncer -> {"none", "select", "starting", "scanning",
                                   "queueing", "ending", "returned"}]
          /\ syncId' \in [Syncer -> Mirror \cup {NoMirror}]
        BY <1>17, <2>1 DEF SyncStart, Abandon, SyncGoto
    <2>4. syncUp' \in [Syncer -> BOOLEAN]
        <3>1. \/ syncUp' = syncUp
              \/ syncUp' = [syncUp EXCEPT ![s] = syncId[s] \in up]
            BY <1>17, Zenon DEF SyncStart
        <3>2. syncUp \in [Syncer -> BOOLEAN]
            OBVIOUS
        <3>3. (syncId[s] \in up) \in BOOLEAN
            OBVIOUS
        <3> HIDE DEF TypeOK
        <3>4. [syncUp EXCEPT ![s] = syncId[s] \in up] \in [Syncer -> BOOLEAN]
            BY <3>2, <3>3, Zenon
        <3> QED BY <3>1, <3>2, <3>4, Zenon
    <2> QED BY <1>17, <2>2, <2>3, <2>4 DEF SyncStart
<1>18. ASSUME NEW s \in Syncer, SyncScanned(s) PROVE TypeOK'
    <2>1. syncId[s] \in Mirror
        BY <1>18 DEF SyncScanned, WorkerInv
    <2> QED BY <1>18, <2>1 DEF SyncScanned, SyncGoto, WriteRecord
<1>19. ASSUME NEW s \in Syncer, SyncFailed(s) PROVE TypeOK'
    BY <1>19 DEF SyncFailed, SyncGoto
<1>20. ASSUME NEW s \in Syncer, SyncQueue(s) PROVE TypeOK'
    <2>1. syncId[s] \in Mirror
        BY <1>20 DEF SyncQueue, WorkerInv
    <2>2. healthCheckChan' \in Seq(Mirror)
        BY <1>20, <2>1 DEF SyncQueue
    <2> QED BY <1>20, <2>2 DEF SyncQueue, SyncGoto
<1>21. ASSUME NEW s \in Syncer, SyncEnd(s) PROVE TypeOK'
    BY <1>21 DEF SyncEnd, SyncGoto
<1>22. ASSUME NEW s \in Syncer, SyncReturn(s) PROVE TypeOK'
    BY <1>22 DEF SyncReturn, SyncGoto
<1>23. ASSUME NEW id \in Mirror, ChangeMirror(id) PROVE TypeOK'
    BY <1>23 DEF ChangeMirror, AddMirror, EditMirror, SetMirror, RemoveMirror
<1>24. ASSUME NEW id \in Mirror, Rebalance(id) PROVE TypeOK'
    BY <1>24 DEF Rebalance
<1>25. CASE UNCHANGED vars
    BY <1>25 DEF vars
<1>26. CASE RedisFails \/ RedisBack
    <2>1. failure' \in BOOLEAN
        BY <1>26 DEF RedisFails, RedisBack
    <2>2. changes' \in 0..ChangeBudget
        BY <1>26 DEF RedisFails, RedisBack
    <2>3. UNCHANGED <<stop, phase, mapVars, healthCheckChan, checkVars, syncVars,
                      record, dbEnabled, dbUp, indexed, events, handled, unscanned, revived>>
        BY <1>26 DEF RedisFails, RedisBack
    <2> QED BY <2>1, <2>2, <2>3
<1> QED BY <1>1, <1>2, <1>3, <1>4, <1>5, <1>6, <1>7, <1>8, <1>9, <1>10, <1>11,
           <1>12, <1>13, <1>14, <1>15, <1>16, <1>17, <1>18, <1>19, <1>20, <1>21,
           <1>22, <1>23, <1>24, <1>25, <1>26 DEF Next

\* No goroutine starts, and no mirror is listed, before ListMirrors.
LEMMA StartupStep == TypeOK /\ StartupInv /\ WorkerInv /\ [Next]_vars => StartupInv'
<1> SUFFICES ASSUME TypeOK, StartupInv, WorkerInv, [Next]_vars PROVE StartupInv'
    OBVIOUS
<1> USE DEF StartupInv, mapVars, checkVars, syncVars, dbVars, Goto
<1>1. CASE Ready \/ ScanRepository \/ RetryTimer \/ RetryStopped \/ ListFails
    BY <1>1 DEF Ready, ScanRepository, RetryTimer, RetryStopped, ListFails
<1>2. CASE ListMirrors \/ LoopReturn \/ Stop \/ RedisFails \/ RedisBack
    BY <1>2 DEF ListMirrors, LoopReturn, Stop, RedisFails, RedisBack
<1>3. ASSUME NEW id \in Mirror, MirrorUpdated(id) \/ Visit(id) PROVE StartupInv'
    BY <1>3 DEF MirrorUpdated, Visit
<1>4. ASSUME NEW id \in Mirror, Elapse(id) \/ ChangeMirror(id) \/ Rebalance(id)
      PROVE  StartupInv'
    BY <1>4 DEF Elapse, ChangeMirror, Rebalance
<1>5. ASSUME NEW c \in Checker,
             \/ CheckTake(c) \/ CheckPick(c) \/ CheckReply(c)
             \/ CheckEnd(c) \/ CheckReturn(c)
      PROVE  StartupInv'
    <2>1. check[c] # "none" /\ UNCHANGED phase
        BY <1>5 DEF CheckTake, CheckPick, CheckReply, CheckEnd, CheckReturn
    <2> QED BY <2>1
<1>6. ASSUME NEW s \in Syncer,
             \/ SyncStart(s) \/ SyncScanned(s) \/ SyncFailed(s)
             \/ SyncQueue(s) \/ SyncEnd(s) \/ SyncReturn(s)
      PROVE  StartupInv'
    <2>1. sync[s] # "none" /\ UNCHANGED phase
        BY <1>6 DEF SyncStart, SyncScanned, SyncFailed, SyncQueue, SyncEnd, SyncReturn
    <2> QED BY <2>1
<1>7. CASE UNCHANGED vars
    BY <1>7 DEF vars
<1> QED BY <1>1, <1>2, <1>3, <1>4, <1>5, <1>6, <1>7 DEF Next

LEMMA WorkerStep == TypeOK /\ StartupInv /\ WorkerInv /\ [Next]_vars => WorkerInv'
<1> SUFFICES ASSUME TypeOK, StartupInv, WorkerInv, [Next]_vars PROVE WorkerInv'
    OBVIOUS
<1> USE MonitorAssumption DEF WorkerInv, TypeOK, mapVars, checkVars, syncVars, dbVars
<1>1. CASE Ready \/ ScanRepository \/ RetryTimer \/ RetryStopped \/ ListFails
    BY <1>1 DEF Ready, ScanRepository, RetryTimer, RetryStopped, ListFails
<1>2. CASE ListMirrors
    <2>1. /\ \A c \in Checker : checkId[c] = NoMirror
          /\ \A s \in Syncer : syncId[s] = NoMirror
        BY <1>2 DEF ListMirrors, StartupInv, Goto
    <2> QED BY <1>2, <2>1 DEF ListMirrors
<1>3. CASE LoopReturn \/ Stop \/ RedisFails \/ RedisBack
    BY <1>3 DEF LoopReturn, Stop, RedisFails, RedisBack
<1>4. ASSUME NEW id \in Mirror,
             MirrorUpdated(id) \/ Elapse(id) \/ ChangeMirror(id) \/ Rebalance(id)
      PROVE  WorkerInv'
    BY <1>4 DEF MirrorUpdated, Elapse, ChangeMirror, Rebalance
<1>5. ASSUME NEW id \in Mirror, Visit(id) PROVE WorkerInv'
    BY <1>5 DEF Visit, QueueSync
<1>6. ASSUME NEW c \in Checker, CheckTake(c) PROVE WorkerInv'
    <2>1. Head(healthCheckChan) \in Mirror
        BY <1>6 DEF CheckTake
    <2> QED BY <1>6, <2>1 DEF CheckTake, CheckGoto
<1>7. ASSUME NEW c \in Checker, CheckPick(c) PROVE WorkerInv'
    BY <1>7 DEF CheckPick, PickFails, CheckGoto
<1>8. ASSUME NEW c \in Checker, CheckReply(c) \/ CheckEnd(c) \/ CheckReturn(c)
      PROVE  WorkerInv'
    BY <1>8 DEF CheckReply, CheckEnd, CheckReturn, CheckGoto
<1>9. ASSUME NEW s \in Syncer, SyncStart(s) PROVE WorkerInv'
    BY <1>9 DEF SyncStart, Abandon, SyncGoto
<1>10. ASSUME NEW s \in Syncer, SyncScanned(s) \/ SyncFailed(s) \/ SyncQueue(s)
       PROVE  WorkerInv'
    BY <1>10 DEF SyncScanned, SyncFailed, SyncQueue, SyncGoto
<1>11. ASSUME NEW s \in Syncer, SyncEnd(s) \/ SyncReturn(s) PROVE WorkerInv'
    BY <1>11 DEF SyncEnd, SyncReturn, SyncGoto
<1>12. CASE UNCHANGED vars
    BY <1>12 DEF vars
<1> QED BY <1>1, <1>2, <1>3, <1>4, <1>5, <1>6, <1>7, <1>8, <1>9, <1>10, <1>11,
           <1>12 DEF Next

-----------------------------------------------------------------------------
(* The flag checking                                                       *)

LEMMA CheckStep ==
    TypeOK /\ StartupInv /\ WorkerInv /\ CheckingHasCause /\ [Next]_vars
        => CheckingHasCause'
<1> SUFFICES ASSUME TypeOK, StartupInv, WorkerInv, CheckingHasCause, [Next]_vars
             PROVE  CheckingHasCause'
    OBVIOUS
<1> USE DEF mapVars, checkVars, syncVars, dbVars
<1>0. ASSUME UNCHANGED <<checking, unscanned, healthCheckChan, checkVars>>, stop => stop'
      PROVE  CheckingHasCause'
    BY <1>0 DEF CheckingHasCause, BeingChecked
<1>1. CASE Ready \/ ScanRepository \/ RetryTimer \/ RetryStopped \/ ListFails
    BY <1>0, <1>1 DEF Ready, ScanRepository, RetryTimer, RetryStopped, ListFails
<1>2. CASE ListMirrors
    <2>1. checking = {}
        BY <1>2 DEF ListMirrors, StartupInv, TypeOK, Goto
    <2> QED BY <1>2, <2>1 DEF ListMirrors, CheckingHasCause
<1>3. CASE LoopReturn \/ Stop \/ RedisFails \/ RedisBack
    BY <1>0, <1>3 DEF LoopReturn, Stop, RedisFails, RedisBack
<1>4. ASSUME NEW id \in Mirror, MirrorUpdated(id) PROVE CheckingHasCause'
    <2>1. CASE DeleteMirror(id)
        BY <1>4, <2>1 DEF MirrorUpdated, DeleteMirror, CheckingHasCause, BeingChecked
    <2>2. CASE UNCHANGED <<checking, unscanned>>
        BY <1>0, <1>4, <2>2 DEF MirrorUpdated
    <2> QED BY <1>4, <2>1, <2>2 DEF MirrorUpdated, UpdateMirror
<1>5. ASSUME NEW id \in Mirror, Elapse(id) \/ ChangeMirror(id) \/ Rebalance(id)
      PROVE  CheckingHasCause'
    BY <1>0, <1>5 DEF Elapse, ChangeMirror, Rebalance
<1>6. ASSUME NEW id \in Mirror, Visit(id) PROVE CheckingHasCause'
    <2>1. CASE UNCHANGED <<healthCheckChan, checking>>
        BY <1>0, <1>6, <2>1 DEF Visit
    <2>2. CASE /\ healthCheckChan' = Append(healthCheckChan, id)
               /\ checking' = checking \cup {id}
        <3>1. /\ \A i \in DOMAIN healthCheckChan :
                    i \in DOMAIN healthCheckChan' /\ healthCheckChan'[i] = healthCheckChan[i]
              /\ \E i \in DOMAIN healthCheckChan' : healthCheckChan'[i] = id
            BY <2>2 DEF TypeOK
        <3> QED BY <1>6, <2>2, <3>1 DEF Visit, CheckingHasCause, BeingChecked
    <2> QED BY <1>6, <2>1, <2>2 DEF Visit, QueueCheck
<1>7. ASSUME NEW c \in Checker, CheckTake(c) PROVE CheckingHasCause'
    <2>1. CASE stop
        BY <1>7, <2>1 DEF CheckTake, CheckingHasCause
    <2>2. CASE ~stop
        <3> DEFINE id == Head(healthCheckChan)
        <3>1. \A i \in DOMAIN healthCheckChan :
                 \/ healthCheckChan[i] = id
                 \/ /\ i - 1 \in DOMAIN healthCheckChan'
                    /\ healthCheckChan'[i - 1] = healthCheckChan[i]
            BY <1>7 DEF CheckTake, TypeOK
        <3>2. checkId[c] = NoMirror
            BY <1>7 DEF CheckTake, WorkerInv
        <3>3. id \in listed => checkId' = [checkId EXCEPT ![c] = id]
            BY <1>7, <2>2 DEF CheckTake, CheckGoto
        <3>4. id \notin listed => id \notin checking /\ checkId' = checkId
            BY <1>7, <2>2 DEF CheckTake, TypeOK
        <3>5. NoMirror \notin checking
            BY MonitorAssumption DEF TypeOK
        <3>6. UNCHANGED <<checking, unscanned, stop>>
            BY <1>7 DEF CheckTake
        <3> HIDE DEF id
        <3>7. ASSUME NEW m \in checking, BeingChecked(m) PROVE BeingChecked(m)'
            <4>1. CASE \E d \in Checker : checkId[d] = m
                BY <3>2, <3>3, <3>4, <3>5, <3>7, <4>1 DEF BeingChecked, TypeOK
            <4>2. CASE m = id
                BY <3>3, <3>4, <3>7, <4>2 DEF BeingChecked, TypeOK
            <4>3. CASE m # id /\ \E i \in DOMAIN healthCheckChan : healthCheckChan[i] = m
                BY <3>1, <4>3 DEF BeingChecked
            <4> QED BY <3>7, <4>1, <4>2, <4>3 DEF BeingChecked
        <3> QED BY <3>6, <3>7 DEF CheckingHasCause
    <2> QED BY <2>1, <2>2
<1>8. ASSUME NEW c \in Checker, CheckPick(c) PROVE CheckingHasCause'
    <2>1. CASE UNCHANGED <<checkId, unscanned>>
        BY <1>8, <2>1 DEF CheckPick, CheckingHasCause, BeingChecked
    <2>2. CASE /\ unscanned' = unscanned \cup ({checkId[c]} \cap listed)
               /\ checkId' = [checkId EXCEPT ![c] = NoMirror]
        BY <1>8, <2>2 DEF CheckPick, CheckingHasCause, BeingChecked, TypeOK
    <2> QED BY <1>8, <2>1, <2>2 DEF CheckPick, PickFails, CheckGoto, TypeOK
<1>9. ASSUME NEW c \in Checker, CheckReply(c) PROVE CheckingHasCause'
    <2>1. UNCHANGED checkId
        BY <1>9 DEF CheckReply, CheckGoto, TypeOK
    <2> QED BY <1>9, <2>1 DEF CheckReply, CheckingHasCause, BeingChecked
<1>10. ASSUME NEW c \in Checker, CheckEnd(c) PROVE CheckingHasCause'
    BY <1>10 DEF CheckEnd, ClearFlag, CheckGoto, CheckingHasCause, BeingChecked, TypeOK
<1>11. ASSUME NEW c \in Checker, CheckReturn(c) PROVE CheckingHasCause'
    BY <1>11 DEF CheckReturn, CheckingHasCause
<1>12. ASSUME NEW s \in Syncer,
              \/ SyncStart(s) \/ SyncScanned(s) \/ SyncFailed(s)
              \/ SyncEnd(s) \/ SyncReturn(s)
       PROVE  CheckingHasCause'
    BY <1>0, <1>12 DEF SyncStart, SyncScanned, SyncFailed, SyncEnd, SyncReturn
<1>13. ASSUME NEW s \in Syncer, SyncQueue(s) PROVE CheckingHasCause'
    <2>1. syncId[s] \in Mirror
        BY <1>13 DEF SyncQueue, WorkerInv, TypeOK
    <2>2. \A i \in DOMAIN healthCheckChan :
             i \in DOMAIN healthCheckChan' /\ healthCheckChan'[i] = healthCheckChan[i]
        BY <1>13, <2>1 DEF SyncQueue, TypeOK
    <2> QED BY <1>13, <2>2 DEF SyncQueue, CheckingHasCause, BeingChecked
<1>14. CASE UNCHANGED vars
    BY <1>0, <1>14 DEF vars
<1> QED BY <1>1, <1>2, <1>3, <1>4, <1>5, <1>6, <1>7, <1>8, <1>9, <1>10, <1>11,
           <1>12, <1>13, <1>14 DEF Next

-----------------------------------------------------------------------------
(* The flag scanning                                                       *)

\* A step that leaves the map, the flags and the goroutines' mirrors alone, and
\* gives no removed mirror its record back, keeps the invariant.
LEMMA ScanFrame ==
    ASSUME ScanInv, UNCHANGED <<listed, scanning, syncId>>,
           revived \subseteq revived',
           \A id \in Mirror \ revived' : record[id] \in {"absent", "partial"}
                                            => record'[id] \in {"absent", "partial"},
           TypeOK
    PROVE  ScanInv'
BY DEF ScanInv, GoneForGood, ScanningHasWorker, OneScanPerMirror, TypeOK

\* So does a step after which one goroutine has no mirror, the flag of its mirror
\* being down or the mirror gone.
LEMMA ScanEnds ==
    ASSUME ScanInv, TypeOK, NEW s \in Syncer, syncId[s] # NoMirror,
           UNCHANGED <<listed, record, revived>>,
           scanning' = scanning \ {syncId[s]},
           syncId' = [syncId EXCEPT ![s] = NoMirror]
    PROVE  ScanInv'
<1>1. GoneForGood' /\ OneScanPerMirror'
    BY DEF ScanInv, GoneForGood, OneScanPerMirror, TypeOK
<1>2. ASSUME NEW id \in listed \ revived
      PROVE  id \in scanning' <=> \E t \in Syncer : syncId'[t] = id
    <2>1. id # NoMirror
        BY MonitorAssumption DEF TypeOK
    <2>2. CASE id = syncId[s]
        BY <2>1, <2>2 DEF ScanInv, OneScanPerMirror, TypeOK
    <2>3. CASE id # syncId[s]
        BY <2>1, <2>3, <1>2 DEF ScanInv, ScanningHasWorker, TypeOK
    <2> QED BY <2>2, <2>3
<1> QED BY <1>1, <1>2 DEF ScanInv, ScanningHasWorker

LEMMA ScanStep ==
    TypeOK /\ StartupInv /\ WorkerInv /\ ScanInv /\ [Next]_vars => ScanInv'
<1> SUFFICES ASSUME TypeOK, StartupInv, WorkerInv, ScanInv, [Next]_vars PROVE ScanInv'
    OBVIOUS
<1> USE DEF mapVars, checkVars, syncVars, dbVars
<1>1. CASE Ready \/ ScanRepository \/ RetryTimer \/ RetryStopped \/ ListFails
    BY <1>1, ScanFrame DEF Ready, ScanRepository, RetryTimer, RetryStopped, ListFails
<1>2. CASE ListMirrors
    <2>1. scanning' = {} /\ \A s \in Syncer : syncId'[s] = NoMirror
        BY <1>2 DEF ListMirrors, StartupInv, WorkerInv, TypeOK, Goto
    <2>2. NoMirror \notin listed'
        BY <1>2, MonitorAssumption DEF ListMirrors, Known
    <2> QED BY <2>1, <2>2
            DEF ScanInv, GoneForGood, ScanningHasWorker, OneScanPerMirror
<1>3. CASE LoopReturn \/ Stop \/ RedisFails \/ RedisBack
    BY <1>3, ScanFrame DEF LoopReturn, Stop, RedisFails, RedisBack
<1>4. ASSUME NEW id \in Mirror, MirrorUpdated(id) PROVE ScanInv'
    <2>1. UNCHANGED <<record, syncId, revived>>
        BY <1>4 DEF MirrorUpdated
    <2>2. CASE UNCHANGED mapVars
        BY <2>1, <2>2, ScanFrame
    <2>3. CASE record[id] = "full" /\ UpdateMirror(id)
        <3>1. listed' = listed \cup {id} /\ scanning' = scanning
            BY <2>3 DEF UpdateMirror
        <3>2. id \notin listed \cup revived
                 => id \notin scanning /\ \A s \in Syncer : syncId[s] # id
            BY <2>3, MonitorAssumption DEF ScanInv, GoneForGood, TypeOK
        <3>3. ScanningHasWorker'
            BY <2>1, <3>1, <3>2 DEF ScanInv, ScanningHasWorker
        <3>4. GoneForGood' /\ OneScanPerMirror'
            BY <2>1, <3>1 DEF ScanInv, GoneForGood, OneScanPerMirror
        <3> QED BY <3>3, <3>4 DEF ScanInv
    <2>4. CASE record[id] = "absent" /\ DeleteMirror(id)
        <3>1. listed' = listed \ {id} /\ scanning' = scanning \ {id}
            BY <2>4 DEF DeleteMirror
        <3> QED BY <2>1, <2>4, <3>1
                DEF ScanInv, GoneForGood, ScanningHasWorker, OneScanPerMirror
    <2> QED BY <1>4, <2>2, <2>3, <2>4 DEF MirrorUpdated
<1>5. ASSUME NEW id \in Mirror, Elapse(id) \/ Rebalance(id) PROVE ScanInv'
    BY <1>5, ScanFrame DEF Elapse, Rebalance
<1>6. ASSUME NEW id \in Mirror, ChangeMirror(id) PROVE ScanInv'
    <2>1. \A m \in Mirror \ revived' : record[m] \in {"absent", "partial"}
                                          => record'[m] \in {"absent", "partial"}
        BY <1>6 DEF ChangeMirror, AddMirror, EditMirror, SetMirror, RemoveMirror, TypeOK
    <2>2. revived \subseteq revived'
        BY <1>6 DEF ChangeMirror, AddMirror, EditMirror, SetMirror, RemoveMirror
    <2> QED BY <1>6, <2>1, <2>2, ScanFrame DEF ChangeMirror
<1>7. ASSUME NEW id \in Mirror, Visit(id) PROVE ScanInv'
    <2>1. UNCHANGED <<listed, record, revived>> /\ id \in listed
        BY <1>7 DEF Visit
    <2>2. CASE UNCHANGED <<sync, syncId, scanning>>
        BY <2>1, <2>2, ScanFrame
    <2>3. ASSUME NEW s \in Syncer, sync[s] = "select", NeedsSync(id),
                 syncId' = [syncId EXCEPT ![s] = id],
                 scanning' = scanning \cup {id}
          PROVE  ScanInv'
        <3>1. /\ syncId[s] = NoMirror
              /\ id \notin revived => \A t \in Syncer : syncId[t] # id
            BY <2>1, <2>3 DEF NeedsSync, WorkerInv, ScanInv, ScanningHasWorker
        <3>2. id # NoMirror /\ NoMirror \notin listed
            BY MonitorAssumption DEF TypeOK
        <3>3. ScanningHasWorker'
            BY <2>1, <2>3, <3>1, <3>2 DEF ScanInv, ScanningHasWorker, TypeOK
        <3>4. OneScanPerMirror'
            BY <2>1, <2>3, <3>1, <3>2 DEF ScanInv, OneScanPerMirror, TypeOK
        <3>5. GoneForGood'
            BY <2>1, <2>3 DEF ScanInv, GoneForGood, TypeOK
        <3> QED BY <3>3, <3>4, <3>5 DEF ScanInv
    <2> QED BY <1>7, <2>2, <2>3 DEF Visit, QueueSync
<1>8. ASSUME NEW c \in Checker,
             CheckTake(c) \/ CheckPick(c) \/ CheckEnd(c) \/ CheckReturn(c)
      PROVE  ScanInv'
    BY <1>8, ScanFrame DEF CheckTake, CheckPick, CheckEnd, CheckReturn
<1>9. ASSUME NEW c \in Checker, CheckReply(c) PROVE ScanInv'
    <2>1. \A m \in Mirror : record[m] \in {"absent", "partial"}
                               => record'[m] \in {"absent", "partial"}
        BY <1>9 DEF CheckReply, WriteRecord, TypeOK
    <2> QED BY <1>9, <2>1, ScanFrame DEF CheckReply
<1>10. ASSUME NEW s \in Syncer, SyncStart(s) PROVE ScanInv'
    <2>1. \A m \in Mirror : record[m] \in {"absent", "partial"}
                               => record'[m] \in {"absent", "partial"}
        BY <1>10 DEF SyncStart, WriteRecord, TypeOK
    <2>2. CASE syncId[s] \in listed
        <3>1. UNCHANGED <<listed, scanning, syncId, revived>>
            BY <1>10, <2>2 DEF SyncStart, Abandon
        <3> QED BY <2>1, <3>1, ScanFrame
    <2>3. CASE syncId[s] \notin listed
        <3>1. /\ syncId[s] # NoMirror /\ UNCHANGED <<listed, record, revived, scanning>>
              /\ syncId' = [syncId EXCEPT ![s] = NoMirror]
            BY <1>10, <2>3 DEF SyncStart, WorkerInv
        <3>2. scanning' = scanning \ {syncId[s]}
            BY <2>3, <3>1 DEF TypeOK
        <3> QED BY <3>1, <3>2, ScanEnds
    <2> QED BY <2>2, <2>3
<1>11. ASSUME NEW s \in Syncer, SyncScanned(s) PROVE ScanInv'
    <2>1. \A m \in Mirror : record[m] \in {"absent", "partial"}
                               => record'[m] \in {"absent", "partial"}
        BY <1>11 DEF SyncScanned, WriteRecord, TypeOK
    <2> QED BY <1>11, <2>1, ScanFrame DEF SyncScanned
<1>12. ASSUME NEW s \in Syncer, SyncFailed(s) \/ SyncQueue(s) \/ SyncReturn(s)
       PROVE  ScanInv'
    BY <1>12, ScanFrame DEF SyncFailed, SyncQueue, SyncReturn
<1>13. ASSUME NEW s \in Syncer, SyncEnd(s) PROVE ScanInv'
    <2>1. /\ syncId[s] # NoMirror /\ UNCHANGED <<listed, record, revived>>
          /\ scanning' = scanning \ {syncId[s]}
          /\ syncId' = [syncId EXCEPT ![s] = NoMirror]
        BY <1>13 DEF SyncEnd, WorkerInv
    <2> QED BY <2>1, ScanEnds
<1>14. CASE UNCHANGED vars
    BY <1>14, ScanFrame DEF vars
<1> QED BY <1>1, <1>2, <1>3, <1>4, <1>5, <1>6, <1>7, <1>8, <1>9, <1>10, <1>11,
           <1>12, <1>13, <1>14 DEF Next

-----------------------------------------------------------------------------

\* The inductive invariant holds in every behaviour of the monitor.
THEOREM MonitorInvariant == Spec => []IInv
<1>1. IInv /\ [Next]_vars => IInv'
    BY TypeStep, StartupStep, WorkerStep, CheckStep, ScanStep DEF IInv
<1> QED BY InitIInv, <1>1, PTL DEF Spec

\* The state of the monitor keeps its types; in particular no flag outlives the
\* entry of its mirror in m.mirrors.
THEOREM MonitorTypeCorrect == Spec => []TypeOK
<1>1. IInv => TypeOK
    BY DEF IInv
<1> QED BY MonitorInvariant, <1>1, PTL

\* However checks, removals and errors interleave, the flag checking is held for a
\* reason: a queued or running check, or the errMirrorNotScanned of monitor.go:362.
THEOREM MonitorCheckingHasCause == Spec => []CheckingHasCause
<1>1. IInv => CheckingHasCause
    BY DEF IInv
<1> QED BY MonitorInvariant, <1>1, PTL

\* The flag scanning of a listed mirror is up exactly while syncLoop works on it.
THEOREM MonitorScanningHasWorker == Spec => []ScanningHasWorker
<1>1. IInv => ScanningHasWorker
    BY DEF IInv, ScanInv
<1> QED BY MonitorInvariant, <1>1, PTL

\* A node never scans a mirror in two goroutines, for any number of them.
THEOREM MonitorOneScanPerMirror == Spec => []OneScanPerMirror
<1>1. IInv => OneScanPerMirror
    BY DEF IInv, ScanInv
<1> QED BY MonitorInvariant, <1>1, PTL

-----------------------------------------------------------------------------
(* The life cycle: the inductive invariant                                 *)

\* A process in its first steps has no listener of its own, and nothing has
\* happened to it; of one that has ended nothing is left.
StageOK(P) ==
    /\ P.at \in {"unborn", "boot", "pid"} => P.k = Empty /\ P.exit = "no" /\ ~P.monitorStop
    /\ P.at \in {"unborn", "boot", "pid", "ready", "listen"}
         => P.listener \in {"nil", "inherited"} /\ ~P.stopped /\ ~P.killing /\ ~P.server
    /\ P.at \in {"bound", "serving"} => P.listener = "open" /\ ~P.stopped
    /\ P.at \in {"stopping", "waiting", "ending"} => P.listener = "closed" /\ P.stopped
    /\ P.at \in {"unborn", "gone"}
         => P.parent = NoPid /\ P.k = Empty /\ P.listener = "nil" /\ P.exit = "no"
              /\ ~P.killing /\ ~P.monitorStop

StagesInv == \A p \in Pid : StageOK(proc[p])

\* A parent has a listener, or had one when it started the child, and a child has
\* a parent to inherit from and to tell to quit.
Late == {"bound", "serving", "stopping", "waiting", "ending", "gone"}

ParentsInv ==
    /\ \A c \in Pid : proc[c].parent # NoPid
                        => proc[c].parent # c /\ proc[proc[c].parent].at \in Late
    /\ \A c \in Pid : proc[c].listener = "inherited" \/ proc[c].killing => proc[c].parent # NoPid

\* As long as the operator has not asked for it, a process is told to stop only by
\* a child, so it has a listener to close.
UnaskedOK(P) ==
    /\ P.k \notin {"TERM", "NewAddress", "NoConfig"}
    /\ P.k = "QUIT" => P.listener \in {"open", "closed"}
    /\ P.monitorStop \/ P.exit # "no" => P.listener = "closed"

UnaskedInv == ~asked => \A p \in Pid : UnaskedOK(proc[p])

\* A process whose socket nobody has asked to close.
Keeper(q) ==
    /\ proc[q].listener = "open"
    /\ proc[q].k # "QUIT"
    /\ ~\E c \in Pid : proc[c].parent = q /\ proc[c].killing

KeeperInv == Held /\ ~asked /\ ~fatal => \E q \in Pid : Keeper(q)

\* The file has the pid of a child once the child can tell its parent to quit.
Told(P) == P.k = "QUIT" \/ P.monitorStop \/ P.exit # "no"

PidFileInv ==
    (~crashed /\ ~asked) =>
        /\ \A p \in Pid : Told(proc[p]) => pidFile # p /\ proc[p].exit # "remove"
        /\ \A c \in Pid : proc[c].at # "boot" /\ proc[c].parent # NoPid
                            => pidFile # proc[c].parent

LifecycleInv ==
    /\ LifecycleTypeOK /\ StagesInv /\ ParentsInv /\ UnaskedInv
    /\ KeeperInv /\ PidFileInv /\ PidFileAlive

-----------------------------------------------------------------------------
(* The steps that change one process, p, which becomes Q                   *)

Becomes(p, Q) ==
    /\ proc' = [proc EXCEPT ![p] = Q]
    /\ rpc' \in Pid \cup {NoPid} /\ signals' \in 0..MaxSignal
    /\ asked' \in BOOLEAN /\ crashed' \in BOOLEAN /\ fatal' \in BOOLEAN
    /\ asked => asked'
    /\ crashed => crashed'
    /\ fatal => fatal'

\* The process goes forward ...
KeepsShape(p, Q) ==
    /\ Q.parent \in {proc[p].parent, NoPid}
    /\ StageOK(Q)
    /\ proc[p].at \in Late => Q.at \in Late
    /\ Q.listener = "inherited" \/ Q.killing => Q.parent # NoPid
    /\ ~asked' => UnaskedOK(Q)

\* ... keeps its listener, unless it was told to quit or a fatal error ended it ...
KeepsListener(p, Q) ==
    /\ Q.killing => proc[p].killing
    /\ Q.listener \in {"inherited", "open"} => Holds(p)
    /\ ~asked' /\ ~fatal' /\ proc[p].listener = "open" /\ proc[p].k # "QUIT"
          => Q.listener = "open" /\ Q.k # "QUIT"

\* ... and does not invalidate the pid file.
KeepsPidFile(p, Q) ==
    /\ pidFile' = pidFile
    /\ ~crashed' /\ ~asked'
          => /\ Told(Q) => Told(proc[p])
             /\ Q.exit = "remove" => proc[p].exit = "remove"
             /\ Q.at # "boot" /\ Q.parent # NoPid => proc[p].at # "boot"
    /\ ~crashed' /\ pidFile = p => Q.at \notin {"unborn", "gone"}
    /\ proc[p].at \in {"unborn", "boot", "gone"} => Q.at \in {"unborn", "boot", "gone"}

LEMMA Changed ==
    ASSUME LifecycleTypeOK, NEW p \in Pid, NEW Q \in Process, Becomes(p, Q)
    PROVE  /\ proc'[p] = Q /\ \A q \in Pid : q # p => proc'[q] = proc[q]
           /\ proc' \in [Pid -> Process]
BY DEF LifecycleTypeOK, Becomes

LEMMA ShapeKept ==
    ASSUME LifecycleInv, NEW p \in Pid, NEW Q \in Process, Becomes(p, Q), KeepsShape(p, Q)
    PROVE  StagesInv' /\ ParentsInv' /\ UnaskedInv'
<1>1. /\ proc'[p] = Q /\ \A q \in Pid : q # p => proc'[q] = proc[q]
      /\ proc' \in [Pid -> Process] /\ proc \in [Pid -> Process]
  BY Changed DEF LifecycleInv, LifecycleTypeOK
<1>2. StagesInv'
  BY <1>1 DEF LifecycleInv, StagesInv, KeepsShape
<1>3. ParentsInv'
  <2>1. ASSUME NEW c \in Pid, proc'[c].parent # NoPid
        PROVE  proc'[c].parent # c /\ proc'[proc'[c].parent].at \in Late
    <3>1. proc'[c].parent = proc[c].parent
      BY <1>1, <2>1 DEF KeepsShape
    <3>2. proc[c].parent \in Pid /\ proc[c].parent # c /\ proc[proc[c].parent].at \in Late
      BY <1>1, <2>1, <3>1 DEF LifecycleInv, ParentsInv, Process
    <3> QED BY <1>1, <3>1, <3>2 DEF KeepsShape
  <2>2. ASSUME NEW c \in Pid, proc'[c].listener = "inherited" \/ proc'[c].killing
        PROVE  proc'[c].parent # NoPid
    BY <1>1, <2>2 DEF LifecycleInv, ParentsInv, KeepsShape
  <2> QED BY <2>1, <2>2 DEF ParentsInv
<1>4. UnaskedInv'
  BY <1>1 DEF LifecycleInv, UnaskedInv, KeepsShape, Becomes
<1> QED BY <1>2, <1>3, <1>4

LEMMA ListenersKept ==
    ASSUME LifecycleInv, NEW p \in Pid, NEW Q \in Process, Becomes(p, Q),
           KeepsShape(p, Q), KeepsListener(p, Q)
    PROVE  KeeperInv' /\ (Held /\ ~asked' /\ ~fatal' => Held')
<1>1. /\ proc'[p] = Q /\ \A q \in Pid : q # p => proc'[q] = proc[q]
  BY Changed DEF LifecycleInv
<1>2. ASSUME Held, ~asked', ~fatal' PROVE Held' /\ \E q \in Pid : Keeper(q)'
  <2>1. PICK q \in Pid : Keeper(q)
    BY <1>2 DEF LifecycleInv, KeeperInv, Becomes
  <2>2. proc'[q].listener = "open" /\ proc'[q].k # "QUIT"
    BY <1>1, <1>2, <2>1 DEF Keeper, KeepsListener
  <2>3. ASSUME NEW c \in Pid, proc'[c].parent = q, proc'[c].killing PROVE FALSE
    <3>1. proc[c].killing /\ proc[c].parent = q
      <4>1. q # NoPid
        BY LifecycleAssumption
      <4> QED BY <1>1, <2>3, <4>1 DEF KeepsListener, KeepsShape
    <3> QED BY <2>1, <3>1 DEF Keeper
  <2> QED BY <2>2, <2>3 DEF Keeper, Held, Holds
<1>3. Held' => Held
  <2>1. ASSUME NEW q \in Pid, Holds(q)' PROVE Held
    BY <1>1, <2>1 DEF Held, Holds, KeepsListener
  <2> QED BY <2>1 DEF Held
<1>4. KeeperInv'
  BY <1>2, <1>3 DEF KeeperInv
<1> QED BY <1>2, <1>4

LEMMA PidFileKept ==
    ASSUME LifecycleInv, NEW p \in Pid, NEW Q \in Process, Becomes(p, Q),
           KeepsShape(p, Q), KeepsPidFile(p, Q)
    PROVE  PidFileInv' /\ PidFileAlive'
<1>1. /\ proc'[p] = Q /\ \A q \in Pid : q # p => proc'[q] = proc[q]
      /\ proc' \in [Pid -> Process] /\ proc \in [Pid -> Process]
      /\ pidFile \in Pid \cup {NoPid}
  BY Changed DEF LifecycleInv, LifecycleTypeOK
<1>2. ASSUME ~crashed', ~asked' PROVE PidFileInv'
  <2>1. ~crashed /\ ~asked
    BY <1>2 DEF Becomes
  <2>2. ASSUME NEW q \in Pid, Told(proc'[q])
        PROVE  pidFile' # q /\ proc'[q].exit # "remove"
    <3>1. Told(proc[q]) /\ (proc'[q].exit = "remove" => proc[q].exit = "remove")
      BY <1>1, <1>2, <2>2 DEF KeepsPidFile
    <3> QED BY <2>1, <3>1 DEF LifecycleInv, PidFileInv, KeepsPidFile
  <2>3. ASSUME NEW c \in Pid, proc'[c].at # "boot", proc'[c].parent # NoPid
        PROVE  pidFile' # proc'[c].parent
    <3>1. proc[c].at # "boot" /\ proc[c].parent = proc'[c].parent
      BY <1>1, <1>2, <2>3 DEF KeepsPidFile, KeepsShape
    <3> QED BY <2>1, <2>3, <3>1 DEF LifecycleInv, PidFileInv, KeepsPidFile
  <2> QED BY <2>2, <2>3 DEF PidFileInv
<1>3. ASSUME ~crashed' PROVE PidFileAlive'
  <2>1. ~crashed
    BY <1>3 DEF Becomes
  <2>2. pidFile' # NoPid => Alive(pidFile)'
    BY <1>1, <1>3, <2>1 DEF LifecycleInv, PidFileAlive, Alive, KeepsPidFile
  <2>3. ASSUME pidFile' = NoPid, ~asked'
        PROVE  \A q \in Pid : proc'[q].at \in {"unborn", "boot", "gone"}
    <3>1. \A q \in Pid : proc[q].at \in {"unborn", "boot", "gone"}
      BY <2>1, <2>3 DEF LifecycleInv, PidFileAlive, KeepsPidFile, Becomes
    <3> QED BY <1>1, <3>1 DEF KeepsPidFile
  <2> QED BY <2>2, <2>3 DEF PidFileAlive
<1> QED BY <1>2, <1>3 DEF PidFileInv, PidFileAlive

\* Together.
Safe == LifecycleInv' /\ (Held /\ ~asked' /\ ~fatal' => Held')

LEMMA LocalStep ==
    ASSUME LifecycleInv, NEW p \in Pid, NEW Q \in Process, Becomes(p, Q),
           KeepsShape(p, Q), KeepsListener(p, Q), KeepsPidFile(p, Q)
    PROVE  Safe
<1>1. LifecycleTypeOK'
  <2>1. proc' \in [Pid -> Process]
    BY Changed DEF LifecycleInv
  <2> QED BY <2>1 DEF LifecycleInv, LifecycleTypeOK, Becomes, KeepsPidFile
<1> QED BY <1>1, ShapeKept, ListenersKept, PidFileKept DEF LifecycleInv, Safe

-----------------------------------------------------------------------------
(* The main goroutine                                                      *)

\* What the invariant says of one process.
LEMMA OneProcess ==
    ASSUME LifecycleInv, NEW p \in Pid
    PROVE  /\ proc[p] \in Process /\ StageOK(proc[p])
           /\ ~asked => UnaskedOK(proc[p])
           /\ proc[p].listener = "inherited" \/ proc[p].killing => proc[p].parent # NoPid
BY DEF LifecycleInv, LifecycleTypeOK, StagesInv, UnaskedInv, ParentsInv

LEMMA UnbornOK ==
    /\ Unborn \in Process
    /\ [Unborn EXCEPT !.at = "gone"] \in Process
    /\ StageOK([Unborn EXCEPT !.at = "gone"]) /\ UnaskedOK([Unborn EXCEPT !.at = "gone"])
BY DEF Unborn, Process, StageOK, UnaskedOK, Empty

\* A process that ends, unless it is the last one to accept connections or the
\* one of the pid file.
LEMMA GoneSafe ==
    ASSUME LifecycleInv, NEW p \in Pid, Gone(p), pidFile' = pidFile,
           signals' \in 0..MaxSignal, asked' \in BOOLEAN, crashed' \in BOOLEAN,
           fatal' \in BOOLEAN,
           asked => asked', crashed => crashed', fatal => fatal',
           proc[p].at # "unborn",
           ~asked' /\ ~fatal' => proc[p].listener # "open" \/ proc[p].k = "QUIT",
           ~crashed' => pidFile # p
    PROVE  Safe
<1> DEFINE Q == [Unborn EXCEPT !.at = "gone"]
<1>1. /\ Q.at = "gone" /\ Q.parent = NoPid /\ Q.k = Empty /\ Q.listener = "nil"
      /\ Q.exit = "no" /\ ~Q.killing /\ ~Q.monitorStop
  BY DEF Unborn
<1>2. Q \in Process /\ StageOK(Q) /\ UnaskedOK(Q)
  BY UnbornOK
<1>3. proc' = [proc EXCEPT ![p] = Q] /\ rpc' \in Pid \cup {NoPid}
  BY DEF Gone, LifecycleInv, LifecycleTypeOK
<1> HIDE DEF Q
<1>4. Becomes(p, Q)
  BY <1>3 DEF Becomes
<1>5. KeepsShape(p, Q) /\ KeepsListener(p, Q)
  BY <1>1, <1>2 DEF KeepsShape, KeepsListener, Late, Holds
<1>6. KeepsPidFile(p, Q)
  BY <1>1 DEF KeepsPidFile, Told, Empty
<1> QED BY <1>2, <1>4, <1>5, <1>6, LocalStep

LEMMA WritePidFileSafe ==
    ASSUME LifecycleInv, NEW p \in Pid, WritePidFile(p), UNCHANGED fatal
    PROVE  Safe
<1> DEFINE Q == [proc[p] EXCEPT !.at = "pid"]
<1>1. /\ proc[p] \in Process /\ StageOK(proc[p]) /\ (~asked => UnaskedOK(proc[p]))
      /\ proc[p].listener = "inherited" \/ proc[p].killing => proc[p].parent # NoPid
  BY OneProcess
<1>2. /\ proc[p].at = "boot" /\ UNCHANGED <<rpc, signals, asked>>
      /\ pidFile' \in Pid \cup {NoPid} /\ crashed' \in BOOLEAN /\ (crashed => crashed')
      /\ ~crashed' => ~crashed /\ pidFile' = p
  BY DEF WritePidFile, LifecycleInv, LifecycleTypeOK
<1>3. Q \in Process
  BY <1>1 DEF Process
<1>4. /\ Q.at = "pid" /\ Q.parent = proc[p].parent /\ Q.k = proc[p].k
      /\ Q.listener = proc[p].listener /\ Q.exit = proc[p].exit /\ Q.stopped = proc[p].stopped
      /\ Q.killing = proc[p].killing /\ Q.monitorStop = proc[p].monitorStop
      /\ Q.server = proc[p].server
  BY <1>1 DEF Process
<1>5. proc' = [proc EXCEPT ![p] = Q]
  BY DEF WritePidFile, LifecycleInv, LifecycleTypeOK
<1> HIDE DEF Q
<1>6. Becomes(p, Q)
  BY <1>2, <1>5 DEF Becomes, LifecycleInv, LifecycleTypeOK
<1>7. KeepsShape(p, Q) /\ KeepsListener(p, Q)
  BY <1>1, <1>2, <1>4 DEF KeepsShape, KeepsListener, StageOK, UnaskedOK, Late, Holds
<1>8. /\ proc'[p] = Q /\ \A q \in Pid : q # p => proc'[q] = proc[q]
      /\ proc' \in [Pid -> Process]
  BY <1>3, <1>6, Changed DEF LifecycleInv
<1>9. PidFileInv'
  <2>1. ~Told(proc'[p])
    BY <1>1, <1>2, <1>4, <1>8 DEF Told, StageOK, Empty
  <2>2. ASSUME NEW q \in Pid, Told(proc'[q]), ~crashed', ~asked'
        PROVE  pidFile' # q /\ proc'[q].exit # "remove"
    <3>1. q # p
      BY <2>1, <2>2
    <3> QED BY <1>2, <1>8, <2>2, <3>1 DEF LifecycleInv, PidFileInv
  <2>3. ASSUME NEW c \in Pid, proc'[c].parent # NoPid, ~crashed' PROVE pidFile' # proc'[c].parent
    <3>1. proc'[c].parent = proc[c].parent
      BY <1>4, <1>8
    <3>2. proc[c].parent # p
      BY <1>2, <2>3, <3>1 DEF LifecycleInv, ParentsInv, Late
    <3> QED BY <1>2, <2>3, <3>1, <3>2
  <2> QED BY <2>2, <2>3 DEF PidFileInv
<1>10. PidFileAlive'
  BY <1>2, <1>4, <1>8, LifecycleAssumption DEF PidFileAlive, Alive
<1>11. LifecycleTypeOK'
  BY <1>2, <1>8 DEF LifecycleInv, LifecycleTypeOK
<1> QED BY <1>3, <1>6, <1>7, <1>9, <1>10, <1>11, ShapeKept, ListenersKept DEF LifecycleInv, Safe

LEMMA StartSafe ==
    ASSUME LifecycleInv, NEW p \in Pid, Start(p), UNCHANGED fatal
    PROVE  Safe
<1> DEFINE Q == [proc[p] EXCEPT !.at = "ready"]
<1>1. /\ proc[p] \in Process /\ StageOK(proc[p]) /\ (~asked => UnaskedOK(proc[p]))
      /\ proc[p].listener = "inherited" \/ proc[p].killing => proc[p].parent # NoPid
  BY OneProcess
<1>2. proc[p].at = "pid" /\ UNCHANGED <<signals, asked, pidFile>>
  BY DEF Start, Dies
<1>3. CASE ~Dies(p)
  <2>1. Q \in Process
    BY <1>1 DEF Process
  <2>2. /\ Q.at = "ready" /\ Q.parent = proc[p].parent /\ Q.k = proc[p].k
        /\ Q.listener = proc[p].listener /\ Q.exit = proc[p].exit /\ Q.stopped = proc[p].stopped
        /\ Q.killing = proc[p].killing /\ Q.monitorStop = proc[p].monitorStop
        /\ Q.server = proc[p].server
    BY <1>1 DEF Process
  <2>3. proc' = [proc EXCEPT ![p] = Q] /\ rpc' = p /\ UNCHANGED <<pidFile, crashed>>
    BY <1>3 DEF Start, LifecycleInv, LifecycleTypeOK
  <2> HIDE DEF Q
  <2>4. Becomes(p, Q)
    BY <1>2, <2>3 DEF Becomes, LifecycleInv, LifecycleTypeOK
  <2>5. KeepsShape(p, Q) /\ KeepsListener(p, Q)
    BY <1>1, <1>2, <2>2 DEF KeepsShape, KeepsListener, StageOK, UnaskedOK, Late, Holds
  <2>6. KeepsPidFile(p, Q)
    BY <1>2, <2>2, <2>3 DEF KeepsPidFile, Told
  <2> QED BY <2>1, <2>4, <2>5, <2>6, LocalStep
<1>4. CASE Dies(p)
  <2>1. Gone(p) /\ crashed' = TRUE
    BY <1>4 DEF Dies
  <2>2. proc[p].listener # "open"
    BY <1>1, <1>2 DEF StageOK
  <2> QED BY <1>2, <2>1, <2>2, GoneSafe DEF LifecycleInv, LifecycleTypeOK
<1> QED BY <1>3, <1>4

LEMMA RecoverSafe ==
    ASSUME LifecycleInv, NEW p \in Pid, Recover(p), UNCHANGED fatal
    PROVE  Safe
<1>1. /\ proc[p] \in Process /\ StageOK(proc[p]) /\ (~asked => UnaskedOK(proc[p]))
      /\ proc[p].listener = "inherited" \/ proc[p].killing => proc[p].parent # NoPid
  BY OneProcess
<1>2. proc[p].at = "ready" /\ UNCHANGED <<rpc, pidFile, signals, asked, crashed>>
  BY DEF Recover
<1>3. ASSUME proc' = [proc EXCEPT ![p].at = "listen"] PROVE Safe
  <2> DEFINE Q == [proc[p] EXCEPT !.at = "listen"]
  <2>1. Q \in Process
    BY <1>1 DEF Process
  <2>2. /\ Q.at = "listen" /\ Q.parent = proc[p].parent /\ Q.k = proc[p].k
        /\ Q.listener = proc[p].listener /\ Q.exit = proc[p].exit /\ Q.stopped = proc[p].stopped
        /\ Q.killing = proc[p].killing /\ Q.monitorStop = proc[p].monitorStop
        /\ Q.server = proc[p].server
    BY <1>1 DEF Process
  <2>3. proc' = [proc EXCEPT ![p] = Q]
    BY <1>3 DEF LifecycleInv, LifecycleTypeOK
  <2> HIDE DEF Q
  <2>4. Becomes(p, Q)
    BY <1>2, <2>3 DEF Becomes, LifecycleInv, LifecycleTypeOK
  <2>5. KeepsShape(p, Q) /\ KeepsListener(p, Q)
    BY <1>1, <1>2, <2>2 DEF KeepsShape, KeepsListener, StageOK, UnaskedOK, Late, Holds
  <2>6. KeepsPidFile(p, Q)
    BY <1>2, <2>2 DEF KeepsPidFile, Told
  <2> QED BY <2>1, <2>4, <2>5, <2>6, LocalStep
<1>4. ASSUME proc[p].listener = "inherited",
             proc' = [proc EXCEPT ![p].at = "bound", ![p].listener = "open",
                                  ![p].killing = TRUE]
      PROVE  Safe
  <2> DEFINE Q == [proc[p] EXCEPT !.at = "bound", !.listener = "open", !.killing = TRUE]
  <2>1. Q \in Process
    BY <1>1 DEF Process
  <2>2. /\ Q.at = "bound" /\ Q.parent = proc[p].parent /\ Q.k = proc[p].k
        /\ Q.listener = "open" /\ Q.exit = proc[p].exit /\ Q.stopped = proc[p].stopped
        /\ Q.killing = TRUE /\ Q.monitorStop = proc[p].monitorStop /\ Q.server = proc[p].server
    BY <1>1 DEF Process
  <2>3. proc' = [proc EXCEPT ![p] = Q]
    BY <1>4 DEF LifecycleInv, LifecycleTypeOK
  <2> HIDE DEF Q
  <2>4. Becomes(p, Q)
    BY <1>2, <2>3 DEF Becomes, LifecycleInv, LifecycleTypeOK
  <2>5. KeepsShape(p, Q)
    BY <1>1, <1>2, <1>4, <2>2 DEF KeepsShape, StageOK, UnaskedOK, Late
  <2>6. KeepsPidFile(p, Q)
    BY <1>2, <2>2 DEF KeepsPidFile, Told
  <2>7. /\ proc'[p] = Q /\ \A q \in Pid : q # p => proc'[q] = proc[q]
        /\ proc' \in [Pid -> Process]
    BY <2>1, <2>4, Changed DEF LifecycleInv
  <2>8. ~asked' => Keeper(p)'
    <3>1. ASSUME NEW c \in Pid, proc'[c].parent = p PROVE FALSE
      <4>1. proc[c].parent = p
        BY <2>2, <2>7, <3>1
      <4>2. p # NoPid
        BY LifecycleAssumption
      <4> QED BY <1>2, <4>1, <4>2 DEF LifecycleInv, ParentsInv, Late
    <3>2. ~asked' => Q.k # "QUIT"
      BY <1>1, <1>2, <1>4, <2>2 DEF UnaskedOK
    <3> QED BY <2>2, <2>7, <3>1, <3>2 DEF Keeper
  <2>9. KeeperInv' /\ Held'
    BY <2>2, <2>7, <2>8 DEF KeeperInv, Held, Holds
  <2>10. LifecycleTypeOK'
    BY <1>2, <2>7 DEF LifecycleInv, LifecycleTypeOK
  <2> QED BY <2>1, <2>4, <2>5, <2>6, <2>9, <2>10, ShapeKept, PidFileKept DEF LifecycleInv, Safe
<1> QED BY <1>3, <1>4 DEF Recover

LEMMA ListenSafe ==
    ASSUME LifecycleInv, NEW p \in Pid, Listen(p), UNCHANGED fatal
    PROVE  Safe
<1>1. /\ proc[p] \in Process /\ StageOK(proc[p]) /\ (~asked => UnaskedOK(proc[p]))
      /\ proc[p].listener = "inherited" \/ proc[p].killing => proc[p].parent # NoPid
  BY OneProcess
<1>2. proc[p].at = "listen" /\ UNCHANGED <<signals, asked, pidFile>>
  BY DEF Listen, Dies
<1>3. CASE Held
  <2>1. Gone(p) /\ crashed' = TRUE
    BY <1>3 DEF Listen, Dies
  <2>2. proc[p].listener # "open"
    BY <1>1, <1>2 DEF StageOK
  <2> QED BY <1>2, <2>1, <2>2, GoneSafe DEF LifecycleInv, LifecycleTypeOK
<1>4. CASE ~Held
  <2> DEFINE Q == [proc[p] EXCEPT !.at = "bound", !.listener = "open"]
  <2>1. Q \in Process
    BY <1>1 DEF Process
  <2>2. /\ Q.at = "bound" /\ Q.parent = proc[p].parent /\ Q.k = proc[p].k
        /\ Q.listener = "open" /\ Q.exit = proc[p].exit /\ Q.stopped = proc[p].stopped
        /\ Q.killing = proc[p].killing /\ Q.monitorStop = proc[p].monitorStop
        /\ Q.server = proc[p].server
    BY <1>1 DEF Process
  <2>3. proc' = [proc EXCEPT ![p] = Q] /\ UNCHANGED <<rpc, crashed>>
    BY <1>4 DEF Listen, LifecycleInv, LifecycleTypeOK
  <2> HIDE DEF Q
  <2>4. Becomes(p, Q)
    BY <1>2, <2>3 DEF Becomes, LifecycleInv, LifecycleTypeOK
  <2>5. KeepsShape(p, Q)
    BY <1>1, <1>2, <2>2 DEF KeepsShape, StageOK, UnaskedOK, Late
  <2>6. KeepsPidFile(p, Q)
    BY <1>2, <2>2 DEF KeepsPidFile, Told
  <2>7. /\ proc'[p] = Q /\ \A q \in Pid : q # p => proc'[q] = proc[q]
        /\ proc' \in [Pid -> Process]
    BY <2>1, <2>4, Changed DEF LifecycleInv
  <2>8. ~asked' => Keeper(p)'
    <3>1. ASSUME NEW c \in Pid, proc'[c].parent = p PROVE FALSE
      <4>1. proc[c].parent = p
        BY <2>2, <2>7, <3>1
      <4>2. p # NoPid
        BY LifecycleAssumption
      <4> QED BY <1>2, <4>1, <4>2 DEF LifecycleInv, ParentsInv, Late
    <3>2. ~asked' => Q.k # "QUIT"
      BY <1>1, <1>2, <2>2 DEF UnaskedOK, StageOK
    <3> QED BY <2>2, <2>7, <3>1, <3>2 DEF Keeper
  <2>9. KeeperInv' /\ Held'
    BY <2>2, <2>7, <2>8 DEF KeeperInv, Held, Holds
  <2>10. LifecycleTypeOK'
    BY <1>2, <2>3, <2>7 DEF LifecycleInv, LifecycleTypeOK
  <2> QED BY <2>1, <2>4, <2>5, <2>6, <2>9, <2>10, ShapeKept, PidFileKept DEF LifecycleInv, Safe
<1> QED BY <1>3, <1>4

LEMMA ServeSafe ==
    ASSUME LifecycleInv, NEW p \in Pid, Serve(p), UNCHANGED fatal
    PROVE  Safe
<1> DEFINE Q == [proc[p] EXCEPT !.at = "serving", !.server = TRUE]
<1>1. /\ proc[p] \in Process /\ StageOK(proc[p]) /\ (~asked => UnaskedOK(proc[p]))
      /\ proc[p].listener = "inherited" \/ proc[p].killing => proc[p].parent # NoPid
  BY OneProcess
<1>2. proc[p].at = "bound" /\ UNCHANGED <<rpc, pidFile, signals, asked, crashed>>
  BY DEF Serve
<1>3. Q \in Process
  BY <1>1 DEF Process
<1>4. /\ Q.at = "serving" /\ Q.parent = proc[p].parent /\ Q.k = proc[p].k
      /\ Q.listener = proc[p].listener /\ Q.exit = proc[p].exit /\ Q.stopped = proc[p].stopped
      /\ Q.killing = proc[p].killing /\ Q.monitorStop = proc[p].monitorStop
  BY <1>1 DEF Process
<1>5. proc' = [proc EXCEPT ![p] = Q]
  BY DEF Serve, LifecycleInv, LifecycleTypeOK
<1> HIDE DEF Q
<1>6. Becomes(p, Q)
  BY <1>2, <1>5 DEF Becomes, LifecycleInv, LifecycleTypeOK
<1>7. KeepsShape(p, Q) /\ KeepsListener(p, Q)
  BY <1>1, <1>2, <1>4 DEF KeepsShape, KeepsListener, StageOK, UnaskedOK, Late, Holds
<1>8. KeepsPidFile(p, Q)
  BY <1>2, <1>4 DEF KeepsPidFile, Told
<1> QED BY <1>3, <1>6, <1>7, <1>8, LocalStep

\* RunServer returns, and the monitor ends, in a process whose listener is closed.
LEMMA WindsDownSafe ==
    ASSUME LifecycleInv, NEW p \in Pid, ServeReturns(p) \/ MonitorEnds(p), UNCHANGED fatal
    PROVE  Safe
<1>1. /\ proc[p] \in Process /\ StageOK(proc[p]) /\ (~asked => UnaskedOK(proc[p]))
      /\ proc[p].listener = "inherited" \/ proc[p].killing => proc[p].parent # NoPid
  BY OneProcess
<1>2. /\ proc[p].at \in {"stopping", "waiting"}
      /\ UNCHANGED <<rpc, pidFile, signals, asked, crashed>>
  BY DEF ServeReturns, MonitorEnds
<1>3. ASSUME NEW Q \in Process, proc' = [proc EXCEPT ![p] = Q],
             Q.at \in {"stopping", "waiting", "ending"},
             Q.exit = proc[p].exit \/ (Q.exit = "read" /\ proc[p].monitorStop),
             Q.parent = proc[p].parent, Q.k = proc[p].k, Q.listener = proc[p].listener,
             Q.stopped = proc[p].stopped, Q.killing = proc[p].killing,
             Q.monitorStop = proc[p].monitorStop, Q.server = proc[p].server
      PROVE  Safe
  <2>1. Becomes(p, Q)
    BY <1>2, <1>3 DEF Becomes, LifecycleInv, LifecycleTypeOK
  <2>2. KeepsShape(p, Q) /\ KeepsListener(p, Q)
    BY <1>1, <1>2, <1>3 DEF KeepsShape, KeepsListener, StageOK, UnaskedOK, Late, Holds
  <2>3. KeepsPidFile(p, Q)
    BY <1>2, <1>3 DEF KeepsPidFile, Told
  <2> QED BY <2>1, <2>2, <2>3, LocalStep
<1>4. CASE ServeReturns(p)
  <2> DEFINE Q == [proc[p] EXCEPT !.at = IF @ = "stopping" /\ proc[p].restarting
                                         THEN "stopping" ELSE "waiting",
                                  !.restarting = FALSE]
  <2>1. Q \in Process
    BY <1>1 DEF Process
  <2>2. /\ Q.at \in {"stopping", "waiting"} /\ Q.parent = proc[p].parent /\ Q.k = proc[p].k
        /\ Q.listener = proc[p].listener /\ Q.exit = proc[p].exit /\ Q.stopped = proc[p].stopped
        /\ Q.killing = proc[p].killing /\ Q.monitorStop = proc[p].monitorStop
        /\ Q.server = proc[p].server
    BY <1>1 DEF Process
  <2>3. proc' = [proc EXCEPT ![p] = Q]
    BY <1>4 DEF ServeReturns, LifecycleInv, LifecycleTypeOK
  <2> HIDE DEF Q
  <2> QED BY <1>3, <2>1, <2>2, <2>3
<1>5. CASE MonitorEnds(p)
  <2> DEFINE Q == [proc[p] EXCEPT !.at = "ending", !.exit = "read"]
  <2>1. Q \in Process
    BY <1>1 DEF Process
  <2>2. /\ Q.at = "ending" /\ Q.parent = proc[p].parent /\ Q.k = proc[p].k
        /\ Q.listener = proc[p].listener /\ Q.exit = "read" /\ Q.stopped = proc[p].stopped
        /\ Q.killing = proc[p].killing /\ Q.monitorStop = proc[p].monitorStop
        /\ Q.server = proc[p].server
    BY <1>1 DEF Process
  <2>3. proc' = [proc EXCEPT ![p] = Q] /\ proc[p].monitorStop
    BY <1>5 DEF MonitorEnds, LifecycleInv, LifecycleTypeOK
  <2> HIDE DEF Q
  <2> QED BY <1>3, <2>1, <2>2, <2>3
<1> QED BY <1>4, <1>5

-----------------------------------------------------------------------------
(* The end of a process                                                    *)

LEMMA ReadPidFileSafe ==
    ASSUME LifecycleInv, NEW p \in Pid, ReadPidFile(p), UNCHANGED fatal
    PROVE  Safe
<1>1. /\ proc[p] \in Process /\ StageOK(proc[p]) /\ (~asked => UnaskedOK(proc[p]))
      /\ proc[p].listener = "inherited" \/ proc[p].killing => proc[p].parent # NoPid
  BY OneProcess
<1>2. proc[p].exit = "read" /\ UNCHANGED <<pidFile, crashed, signals, asked>>
  BY DEF ReadPidFile
<1>3. CASE pidFile = p
  <2> DEFINE Q == [proc[p] EXCEPT !.exit = "remove"]
  <2>1. Q \in Process
    BY <1>1 DEF Process
  <2>2. /\ Q.at = proc[p].at /\ Q.parent = proc[p].parent /\ Q.k = proc[p].k
        /\ Q.listener = proc[p].listener /\ Q.exit = "remove" /\ Q.stopped = proc[p].stopped
        /\ Q.killing = proc[p].killing /\ Q.monitorStop = proc[p].monitorStop
        /\ Q.server = proc[p].server
    BY <1>1 DEF Process
  <2>3. proc' = [proc EXCEPT ![p] = Q] /\ rpc' = rpc
    BY <1>3 DEF ReadPidFile, LifecycleInv, LifecycleTypeOK
  <2> HIDE DEF Q
  <2>4. Becomes(p, Q)
    BY <1>2, <2>3 DEF Becomes, LifecycleInv, LifecycleTypeOK
  <2>5. KeepsShape(p, Q) /\ KeepsListener(p, Q)
    BY <1>1, <1>2, <2>2 DEF KeepsShape, KeepsListener, StageOK, UnaskedOK, Holds
  <2>6. crashed \/ asked
    BY <1>2, <1>3 DEF LifecycleInv, PidFileInv, Told
  <2>7. KeepsPidFile(p, Q)
    BY <1>1, <1>2, <2>2, <2>6 DEF KeepsPidFile, StageOK
  <2> QED BY <2>1, <2>4, <2>5, <2>7, LocalStep
<1>4. CASE pidFile # p
  <2>1. Gone(p)
    BY <1>4 DEF ReadPidFile
  <2>2. proc[p].at # "unborn" /\ (~asked => proc[p].listener # "open")
    BY <1>1, <1>2 DEF StageOK, UnaskedOK
  <2> QED BY <1>2, <1>4, <2>1, <2>2, GoneSafe DEF LifecycleInv, LifecycleTypeOK
<1> QED BY <1>3, <1>4

LEMMA RemovePidFileSafe ==
    ASSUME LifecycleInv, NEW p \in Pid, RemovePidFile(p), UNCHANGED fatal
    PROVE  Safe
<1> DEFINE Q == [Unborn EXCEPT !.at = "gone"]
<1>1. StageOK(proc[p]) /\ (~asked => UnaskedOK(proc[p]))
  BY OneProcess
<1>2. /\ proc[p].exit = "remove" /\ UNCHANGED <<signals, asked>>
      /\ pidFile' \in Pid \cup {NoPid} /\ crashed' \in BOOLEAN /\ (crashed => crashed')
      /\ ~crashed' => pidFile' = NoPid
      /\ proc' = [proc EXCEPT ![p] = Q] /\ rpc' \in Pid \cup {NoPid}
  BY DEF RemovePidFile, Gone, LifecycleInv, LifecycleTypeOK
<1>3. /\ Q.at = "gone" /\ Q.parent = NoPid /\ Q.k = Empty /\ Q.listener = "nil"
      /\ Q.exit = "no" /\ ~Q.killing /\ ~Q.monitorStop
  BY DEF Unborn
<1>4. Q \in Process /\ StageOK(Q) /\ UnaskedOK(Q)
  BY UnbornOK
<1> HIDE DEF Q
<1>5. Becomes(p, Q)
  BY <1>2 DEF Becomes, LifecycleInv, LifecycleTypeOK
<1>6. ~asked => proc[p].listener # "open"
  BY <1>1, <1>2 DEF UnaskedOK
<1>7. KeepsShape(p, Q) /\ KeepsListener(p, Q)
  BY <1>2, <1>3, <1>4, <1>6 DEF KeepsShape, KeepsListener, Late, Holds
<1>8. crashed \/ asked
  BY <1>2 DEF LifecycleInv, PidFileInv, Told
<1>9. PidFileInv' /\ PidFileAlive'
  BY <1>2, <1>8 DEF PidFileInv, PidFileAlive
<1>10. LifecycleTypeOK'
  <2>1. proc' \in [Pid -> Process]
    BY <1>4, <1>5, Changed DEF LifecycleInv
  <2> QED BY <1>2, <2>1 DEF LifecycleInv, LifecycleTypeOK
<1> QED BY <1>4, <1>5, <1>7, <1>9, <1>10, ShapeKept, ListenersKept DEF LifecycleInv, Safe

-----------------------------------------------------------------------------
(* Signals                                                                 *)

LEMMA OperatorSafe ==
    ASSUME LifecycleInv, NEW p \in Pid, NEW s \in Signal, Operator(p, s), UNCHANGED fatal
    PROVE  Safe
<1>1. /\ proc[p] \in Process /\ StageOK(proc[p]) /\ (~asked => UnaskedOK(proc[p]))
      /\ proc[p].listener = "inherited" \/ proc[p].killing => proc[p].parent # NoPid
  BY OneProcess
<1>2. /\ proc[p].at \notin {"unborn", "gone"}
      /\ asked' = (asked \/ s \in {"TERM", "QUIT", "NewAddress", "NoConfig"})
      /\ asked \in BOOLEAN /\ pidFile' = pidFile
  BY DEF Operator, Alive, LifecycleInv, LifecycleTypeOK, Deliver, Dies
<1>3. signals' \in 0..MaxSignal
  BY LifecycleAssumption DEF Operator, LifecycleInv, LifecycleTypeOK
<1>4. CASE proc[p].at \in {"boot", "pid"}
  <2>1. Gone(p) /\ crashed' = TRUE
    BY <1>4 DEF Operator, Deliver, Dies
  <2>2. proc[p].listener # "open"
    BY <1>1, <1>4 DEF StageOK
  <2> QED BY <1>2, <1>3, <2>1, <2>2, GoneSafe DEF LifecycleInv, LifecycleTypeOK
<1>5. CASE proc[p].at \notin {"boot", "pid"}
  <2>1. /\ proc' = IF proc[p].k = Empty THEN [proc EXCEPT ![p].k = s]
                   ELSE [proc EXCEPT ![p].lost = TRUE]
        /\ UNCHANGED <<rpc, crashed>>
    BY <1>5 DEF Operator, Deliver
  <2>2. ASSUME NEW Q \in Process, proc' = [proc EXCEPT ![p] = Q],
               Q.at = proc[p].at, Q.exit = proc[p].exit,
               Q.k = proc[p].k \/ Q.k = s,
               Q.parent = proc[p].parent, Q.listener = proc[p].listener,
               Q.stopped = proc[p].stopped, Q.killing = proc[p].killing,
               Q.monitorStop = proc[p].monitorStop, Q.server = proc[p].server
        PROVE  Safe
    <3>1. Becomes(p, Q)
      BY <1>2, <1>3, <2>1, <2>2 DEF Becomes, LifecycleInv, LifecycleTypeOK
    <3>2. KeepsShape(p, Q) /\ KeepsListener(p, Q)
      <4>1. StageOK(Q)
        BY <1>1, <1>2, <1>5, <2>2 DEF StageOK
      <4>2. ~asked' => UnaskedOK(Q)
        BY <1>1, <1>2, <2>2 DEF UnaskedOK
      <4> QED BY <1>1, <1>2, <2>2, <4>1, <4>2 DEF KeepsShape, KeepsListener, Holds
    <3>3. KeepsPidFile(p, Q)
      BY <1>2, <2>2 DEF KeepsPidFile, Told
    <3> QED BY <3>1, <3>2, <3>3, LocalStep
  <2>3. CASE proc[p].k = Empty
    <3> DEFINE Q == [proc[p] EXCEPT !.k = s]
    <3>1. Q \in Process
      BY <1>1 DEF Process
    <3>2. /\ Q.at = proc[p].at /\ Q.parent = proc[p].parent /\ Q.k = s
          /\ Q.listener = proc[p].listener /\ Q.exit = proc[p].exit
          /\ Q.stopped = proc[p].stopped
          /\ Q.killing = proc[p].killing /\ Q.monitorStop = proc[p].monitorStop
          /\ Q.server = proc[p].server
      BY <1>1 DEF Process
    <3>3. proc' = [proc EXCEPT ![p] = Q]
      BY <2>1, <2>3 DEF LifecycleInv, LifecycleTypeOK
    <3> HIDE DEF Q
    <3> QED BY <2>2, <3>1, <3>2, <3>3
  <2>4. CASE proc[p].k # Empty
    <3> DEFINE Q == [proc[p] EXCEPT !.lost = TRUE]
    <3>1. Q \in Process
      BY <1>1 DEF Process
    <3>2. /\ Q.at = proc[p].at /\ Q.parent = proc[p].parent /\ Q.k = proc[p].k
          /\ Q.listener = proc[p].listener /\ Q.exit = proc[p].exit
          /\ Q.stopped = proc[p].stopped
          /\ Q.killing = proc[p].killing /\ Q.monitorStop = proc[p].monitorStop
          /\ Q.server = proc[p].server
      BY <1>1 DEF Process
    <3>3. proc' = [proc EXCEPT ![p] = Q]
      BY <2>1, <2>4 DEF LifecycleInv, LifecycleTypeOK
    <3> HIDE DEF Q
    <3> QED BY <2>2, <3>1, <3>2, <3>3
  <2> QED BY <2>3, <2>4
<1> QED BY <1>4, <1>5

\* The parent is told to quit by a child that accepts connections in its place.
LEMMA KillParentSafe ==
    ASSUME LifecycleInv, NEW p \in Pid, KillParent(p), UNCHANGED fatal
    PROVE  Safe
<1> DEFINE q == proc[p].parent
           Q == [proc[p] EXCEPT !.killing = FALSE]
           R == IF ~Alive(q) THEN proc[q]
                ELSE IF proc[q].k = Empty THEN [proc[q] EXCEPT !.k = "QUIT"]
                ELSE [proc[q] EXCEPT !.lost = TRUE]
<1>1. /\ proc[p] \in Process /\ StageOK(proc[p]) /\ (~asked => UnaskedOK(proc[p]))
      /\ proc[p].killing /\ q # NoPid
  BY OneProcess DEF KillParent
<1>2. q \in Pid /\ q # p /\ proc[q].at \in Late
  BY <1>1 DEF LifecycleInv, ParentsInv, Process
<1>3. proc[q] \in Process /\ StageOK(proc[q]) /\ (~asked => UnaskedOK(proc[q]))
  BY <1>2, OneProcess
<1>4. UNCHANGED <<rpc, pidFile, signals, asked, crashed>>
  BY DEF KillParent
<1>5. Q \in Process /\ R \in Process
  <2>1. Q \in Process
    BY <1>1 DEF Process
  <2>2. [proc[q] EXCEPT !.k = "QUIT"] \in Process /\ [proc[q] EXCEPT !.lost = TRUE] \in Process
    BY <1>3 DEF Process, Signal
  <2> QED BY <1>3, <2>1, <2>2
<1>6. /\ Q.at = proc[p].at /\ Q.parent = proc[p].parent /\ Q.k = proc[p].k
      /\ Q.listener = proc[p].listener /\ Q.exit = proc[p].exit /\ Q.stopped = proc[p].stopped
      /\ ~Q.killing /\ Q.monitorStop = proc[p].monitorStop /\ Q.server = proc[p].server
  BY <1>1 DEF Process
<1>7. /\ R.at = proc[q].at /\ R.parent = proc[q].parent
      /\ R.listener = proc[q].listener /\ R.exit = proc[q].exit /\ R.stopped = proc[q].stopped
      /\ R.killing = proc[q].killing /\ R.monitorStop = proc[q].monitorStop
      /\ R.server = proc[q].server
      /\ R.k = proc[q].k \/ (R.k = "QUIT" /\ proc[q].at \notin {"unborn", "gone"})
  BY <1>3 DEF Process, Alive
<1>8. proc' = [proc EXCEPT ![p].killing = FALSE, ![q] = R]
  BY DEF KillParent
<1> HIDE DEF Q, R
<1>9. /\ proc' \in [Pid -> Process] /\ proc'[p] = Q /\ proc'[q] = R
      /\ \A c \in Pid : c # p /\ c # q => proc'[c] = proc[c]
  BY <1>2, <1>5, <1>8 DEF LifecycleInv, LifecycleTypeOK, Q
<1> HIDE DEF q
<1>10. \A c \in Pid : /\ proc'[c].at = proc[c].at /\ proc'[c].parent = proc[c].parent
                      /\ proc'[c].listener = proc[c].listener
                      /\ proc'[c].exit = proc[c].exit
                      /\ proc'[c].stopped = proc[c].stopped
                      /\ proc'[c].monitorStop = proc[c].monitorStop
                      /\ proc'[c].killing => proc[c].killing
                      /\ proc'[c].k = proc[c].k
                            \/ (c = q /\ proc'[c].k = "QUIT" /\ proc[q].at # "gone")
  BY <1>6, <1>7, <1>9
<1>11. StagesInv'
  <2>1. StageOK(Q) /\ StageOK(R)
    BY <1>1, <1>2, <1>3, <1>6, <1>7 DEF StageOK, Late
  <2> QED BY <1>9, <2>1 DEF LifecycleInv, StagesInv
<1>12. ParentsInv'
  <2>1. \A c \in Pid : proc[c].parent # NoPid => proc[c].parent \in Pid
    BY DEF LifecycleInv, LifecycleTypeOK, Process
  <2> QED BY <1>10, <2>1 DEF LifecycleInv, ParentsInv
<1>13. UnaskedInv'
  <2>1. proc[q].at # "gone" => proc[q].listener \in {"open", "closed"}
    BY <1>2, <1>3 DEF StageOK, Late
  <2>2. ASSUME ~asked PROVE UnaskedOK(Q) /\ UnaskedOK(R)
    BY <1>1, <1>3, <1>6, <1>7, <2>1, <2>2 DEF UnaskedOK
  <2> QED BY <1>4, <1>9, <2>2 DEF LifecycleInv, UnaskedInv
<1>14. KeeperInv' /\ (Held /\ ~asked' /\ ~fatal' => Held')
  <2>1. Held' <=> Held
    BY <1>10 DEF Held, Holds
  <2>2. ASSUME NEW c \in Pid, Keeper(c) PROVE Keeper(c)'
    <3>1. c # q
      BY <1>1, <2>2 DEF Keeper, q
    <3> QED BY <1>10, <2>2, <3>1 DEF Keeper
  <2> QED BY <1>4, <2>1, <2>2 DEF LifecycleInv, KeeperInv
<1>15. PidFileInv'
  <2>1. ASSUME ~crashed, ~asked, NEW c \in Pid, Told(proc'[c])
        PROVE  pidFile # c /\ proc'[c].exit # "remove"
    <3>1. CASE Told(proc[c])
      BY <1>10, <2>1, <3>1 DEF LifecycleInv, PidFileInv
    <3>2. CASE ~Told(proc[c])
      <4>1. c = q /\ proc'[c].exit = "no"
        BY <1>10, <2>1, <3>2 DEF Told
      <4>2. proc[p].at # "boot"
        BY <1>1 DEF StageOK
      <4> QED BY <1>1, <2>1, <4>1, <4>2 DEF LifecycleInv, PidFileInv, q
    <3> QED BY <3>1, <3>2
  <2>2. ASSUME ~crashed, ~asked, NEW c \in Pid, proc'[c].at # "boot", proc'[c].parent # NoPid
        PROVE  pidFile # proc'[c].parent
    BY <1>10, <2>2 DEF LifecycleInv, PidFileInv
  <2> QED BY <1>4, <2>1, <2>2 DEF PidFileInv
<1>16. PidFileAlive'
  <2>1. pidFile \in Pid \cup {NoPid}
    BY DEF LifecycleInv, LifecycleTypeOK
  <2> QED BY <1>4, <1>10, <2>1 DEF LifecycleInv, PidFileAlive, Alive
<1>17. LifecycleTypeOK'
  BY <1>4, <1>9 DEF LifecycleInv, LifecycleTypeOK
<1> QED BY <1>11, <1>12, <1>13, <1>14, <1>15, <1>16, <1>17 DEF LifecycleInv, Safe

-----------------------------------------------------------------------------
(* The signal handler                                                      *)

\* A signal that changes nothing but the channel, and the variables of the process
\* and of the RPC server that no other process looks at.
LEMMA TakenSafe ==
    ASSUME LifecycleInv, NEW p \in Pid, NEW Q \in Process, proc' = [proc EXCEPT ![p] = Q],
           rpc' \in Pid \cup {NoPid}, UNCHANGED <<pidFile, signals, asked, crashed, fatal>>,
           proc[p].k # Empty,
           Q.k = Empty, Q.parent = proc[p].parent, Q.killing = proc[p].killing,
           Q.server = proc[p].server,
           \/ /\ Q.at = proc[p].at /\ Q.listener = proc[p].listener
              /\ Q.stopped = proc[p].stopped
           \/ /\ Q.at = "stopping" /\ Q.listener = "closed" /\ Q.stopped
              /\ proc[p].at \in Late \ {"gone"}
              /\ asked \/ proc[p].k = "QUIT",
           \/ Q.monitorStop = proc[p].monitorStop /\ Q.exit = proc[p].exit
           \/ asked
           \/ proc[p].k = "QUIT" /\ Q.listener = "closed" /\ Q.exit = proc[p].exit
    PROVE  Safe
<1>1. /\ proc[p] \in Process /\ StageOK(proc[p]) /\ (~asked => UnaskedOK(proc[p]))
      /\ proc[p].listener = "inherited" \/ proc[p].killing => proc[p].parent # NoPid
  BY OneProcess
<1>2. proc[p].at \notin {"unborn", "boot", "pid", "gone"}
  BY <1>1 DEF StageOK
<1>3. Becomes(p, Q)
  BY DEF Becomes, LifecycleInv, LifecycleTypeOK
<1>4. StageOK(Q)
  BY <1>1, <1>2 DEF StageOK
<1>5. ~asked' => UnaskedOK(Q)
  BY <1>1 DEF UnaskedOK, Empty
<1>6. KeepsShape(p, Q) /\ KeepsListener(p, Q)
  BY <1>1, <1>2, <1>4, <1>5 DEF KeepsShape, KeepsListener, Late, Holds, Empty
<1>7. KeepsPidFile(p, Q)
  BY <1>2 DEF KeepsPidFile, Told, Late, Empty
<1> QED BY <1>3, <1>6, <1>7, LocalStep

\* The handler dies of a panic or of log.Fatal.
LEMMA DiesSafe ==
    ASSUME LifecycleInv, NEW p \in Pid, Dies(p), UNCHANGED <<signals, asked, fatal>>,
           proc[p].k # Empty,
           asked \/ proc[p].listener # "open" \/ proc[p].k = "QUIT"
    PROVE  Safe
<1>1. Gone(p) /\ crashed' = TRUE /\ pidFile' = pidFile
  BY DEF Dies
<1>2. proc[p].at # "unborn"
  BY OneProcess DEF StageOK
<1> QED BY <1>1, <1>2, GoneSafe DEF LifecycleInv, LifecycleTypeOK

LEMMA TakenType ==
    ASSUME LifecycleInv, NEW p \in Pid, proc[p].k # Empty
    PROVE  /\ Taken(p) \in Process
           /\ Taken(p).k = Empty /\ Taken(p).parent = proc[p].parent
           /\ Taken(p).killing = proc[p].killing /\ Taken(p).at = proc[p].at
           /\ Taken(p).listener = proc[p].listener /\ Taken(p).stopped = proc[p].stopped
           /\ Taken(p).server = proc[p].server
           /\ Taken(p).monitorStop = proc[p].monitorStop /\ Taken(p).exit = proc[p].exit
<1>1. proc[p] \in Process
  BY OneProcess
<1> QED BY <1>1 DEF Taken, Process

LEMMA CloseRpcType ==
    ASSUME LifecycleInv, NEW p \in Pid, CloseRpc(p)
    PROVE  rpc' \in Pid \cup {NoPid}
BY DEF CloseRpc, LifecycleInv, LifecycleTypeOK

\* Stop on a process P that has a server.
LEMMA StoppedOK ==
    ASSUME NEW P \in Process
    PROVE  /\ Stopped(P) \in Process
           /\ Stopped(P).k = P.k /\ Stopped(P).parent = P.parent
           /\ Stopped(P).killing = P.killing /\ Stopped(P).exit = P.exit
           /\ Stopped(P).server = P.server /\ Stopped(P).monitorStop = P.monitorStop
           /\ P.stopped => Stopped(P) = P
           /\ ~P.stopped => /\ Stopped(P).at = "stopping" /\ Stopped(P).listener = "closed"
                            /\ Stopped(P).stopped
<1> DEFINE Q == [P EXCEPT !.stopped = TRUE, !.listener = "closed", !.at = "stopping"]
<1>1. Q \in Process
  BY DEF Process
<1>2. /\ Q.k = P.k /\ Q.parent = P.parent /\ Q.killing = P.killing /\ Q.exit = P.exit
      /\ Q.server = P.server /\ Q.monitorStop = P.monitorStop
      /\ Q.at = "stopping" /\ Q.listener = "closed" /\ Q.stopped
  BY DEF Process
<1>3. Stopped(P) = IF P.stopped THEN P ELSE Q
  BY DEF Stopped
<1> HIDE DEF Q
<1> QED BY <1>1, <1>2, <1>3

LEMMA HandleTermSafe ==
    ASSUME LifecycleInv, NEW p \in Pid, HandleTerm(p), UNCHANGED fatal
    PROVE  Safe
<1> DEFINE Q == [Taken(p) EXCEPT !.exit = "read"]
<1>1. /\ proc[p].k = "TERM" /\ proc' = [proc EXCEPT ![p] = Q]
      /\ UNCHANGED <<rpc, pidFile, signals, asked, crashed>>
  BY DEF HandleTerm, Handle
<1>2. proc[p].k # Empty
  BY <1>1 DEF Empty
<1>3. asked
  BY <1>1, OneProcess DEF UnaskedOK
<1>4. /\ Q \in Process /\ Q.k = Empty /\ Q.parent = proc[p].parent
      /\ Q.killing = proc[p].killing /\ Q.at = proc[p].at
      /\ Q.listener = proc[p].listener /\ Q.stopped = proc[p].stopped
      /\ Q.server = proc[p].server
  BY <1>2, TakenType DEF Process
<1>5. rpc' \in Pid \cup {NoPid}
  BY <1>1 DEF LifecycleInv, LifecycleTypeOK
<1> HIDE DEF Q
<1> QED BY <1>1, <1>2, <1>3, <1>4, <1>5, TakenSafe

LEMMA HandleHupSafe ==
    ASSUME LifecycleInv, NEW p \in Pid, HandleHup(p), UNCHANGED fatal
    PROVE  Safe
<1>1. /\ proc[p].k = "HUP" /\ proc' = [proc EXCEPT ![p] = Taken(p)]
      /\ UNCHANGED <<rpc, pidFile, signals, asked, crashed>>
  BY DEF HandleHup, Handle
<1>2. proc[p].k # Empty
  BY <1>1 DEF Empty
<1>3. rpc' \in Pid \cup {NoPid}
  BY <1>1 DEF LifecycleInv, LifecycleTypeOK
<1> QED BY <1>1, <1>2, <1>3, TakenSafe, TakenType

LEMMA HandleNoConfigSafe ==
    ASSUME LifecycleInv, NEW p \in Pid, HandleNoConfig(p), UNCHANGED fatal
    PROVE  Safe
<1>1. proc[p].k = "NoConfig" /\ Dies(p) /\ UNCHANGED <<signals, asked>>
  BY DEF HandleNoConfig, Handle
<1>2. asked /\ proc[p].k # Empty
  BY <1>1, OneProcess DEF UnaskedOK, Empty
<1> QED BY <1>1, <1>2, DiesSafe

LEMMA HandleNewAddressSafe ==
    ASSUME LifecycleInv, NEW p \in Pid, HandleNewAddress(p), UNCHANGED fatal
    PROVE  Safe
<1> DEFINE P == [Taken(p) EXCEPT !.restarting = TRUE]
<1>1. /\ proc[p].k = "NewAddress" /\ UNCHANGED <<signals, asked>>
      /\ IF Panics(P) THEN Dies(p)
         ELSE /\ proc' = [proc EXCEPT ![p] = Stopped(P)]
              /\ UNCHANGED <<rpc, pidFile, crashed>>
  BY DEF HandleNewAddress, Handle
<1>2. asked /\ proc[p].k # Empty
  BY <1>1, OneProcess DEF UnaskedOK, Empty
<1>3. CASE Panics(P)
  BY <1>1, <1>2, <1>3, DiesSafe
<1>4. CASE ~Panics(P)
  <2>1. /\ P \in Process /\ P.k = Empty /\ P.parent = proc[p].parent
        /\ P.killing = proc[p].killing /\ P.at = proc[p].at
        /\ P.listener = proc[p].listener /\ P.stopped = proc[p].stopped
        /\ P.server = proc[p].server
    <3> DEFINE T == Taken(p)
    <3>1. /\ T \in Process /\ T.k = Empty /\ T.parent = proc[p].parent
          /\ T.killing = proc[p].killing /\ T.at = proc[p].at
          /\ T.listener = proc[p].listener /\ T.stopped = proc[p].stopped
          /\ T.server = proc[p].server
      BY <1>2, TakenType
    <3> HIDE DEF T
    <3>2. [T EXCEPT !.restarting = TRUE] \in Process
      BY <3>1 DEF Process
    <3> QED BY <3>1, <3>2 DEF T, Process
  <2> HIDE DEF P
  <2> DEFINE Q == Stopped(P)
  <2>2. /\ Q \in Process /\ Q.k = P.k /\ Q.parent = P.parent
        /\ Q.killing = P.killing /\ Q.server = P.server
        /\ P.stopped => Q = P
        /\ ~P.stopped => Q.at = "stopping" /\ Q.listener = "closed" /\ Q.stopped
    BY <2>1, StoppedOK
  <2>3. ~P.stopped => proc[p].server
    BY <1>4, <2>1 DEF Panics
  <2>4. ~proc[p].stopped => proc[p].at \in Late \ {"gone"}
    <3>1. StageOK(proc[p]) /\ proc[p].at \in {"unborn", "boot", "pid", "ready", "listen"} \cup Late
      BY OneProcess DEF Process, Late
    <3> QED BY <1>2, <2>1, <2>3, <3>1 DEF StageOK, Late
  <2>5. rpc' \in Pid \cup {NoPid}
    BY <1>1, <1>4 DEF LifecycleInv, LifecycleTypeOK
  <2> HIDE DEF Q
  <2> QED BY <1>1, <1>2, <1>4, <2>1, <2>2, <2>4, <2>5, TakenSafe DEF Q
<1> QED BY <1>3, <1>4

LEMMA HandleQuitSafe ==
    ASSUME LifecycleInv, NEW p \in Pid, HandleQuit(p), UNCHANGED fatal
    PROVE  Safe
<1> DEFINE P == [Taken(p) EXCEPT !.monitorStop = TRUE]
           hasListener == P.listener \in {"open", "closed"}
<1>1. /\ proc[p].k = "QUIT" /\ UNCHANGED <<signals, asked>>
      /\ IF hasListener /\ Panics(P) THEN Dies(p)
         ELSE /\ proc' = [proc EXCEPT ![p] = IF hasListener THEN Stopped(P)
                                             ELSE [P EXCEPT !.exit = "read"]]
              /\ CloseRpc(p)
              /\ UNCHANGED <<pidFile, crashed>>
  BY DEF HandleQuit, Handle
<1>2. proc[p].k # Empty
  BY <1>1 DEF Empty
<1>3. CASE hasListener /\ Panics(P)
  BY <1>1, <1>2, <1>3, DiesSafe
<1>4. CASE ~(hasListener /\ Panics(P))
  <2>1. /\ P \in Process /\ P.k = Empty /\ P.parent = proc[p].parent
        /\ P.killing = proc[p].killing /\ P.at = proc[p].at
        /\ P.listener = proc[p].listener /\ P.stopped = proc[p].stopped
        /\ P.server = proc[p].server /\ P.exit = proc[p].exit
    <3> DEFINE T == Taken(p)
    <3>1. /\ T \in Process /\ T.k = Empty /\ T.parent = proc[p].parent
          /\ T.killing = proc[p].killing /\ T.at = proc[p].at
          /\ T.listener = proc[p].listener /\ T.stopped = proc[p].stopped
          /\ T.server = proc[p].server /\ T.exit = proc[p].exit
      BY <1>2, TakenType
    <3> HIDE DEF T
    <3>2. [T EXCEPT !.monitorStop = TRUE] \in Process
      BY <3>1 DEF Process
    <3> QED BY <3>1, <3>2 DEF T, Process
  <2>2. /\ StageOK(proc[p]) /\ (~asked => UnaskedOK(proc[p]))
        /\ proc[p].at \in {"unborn", "boot", "pid", "ready", "listen"} \cup Late
    BY OneProcess DEF Process, Late
  <2>3. rpc' \in Pid \cup {NoPid} /\ UNCHANGED <<pidFile, crashed>>
    BY <1>1, <1>4, CloseRpcType
  <2>4. CASE hasListener
    <3> DEFINE Q == Stopped(P)
    <3>1. proc' = [proc EXCEPT ![p] = Q]
      BY <1>1, <1>4, <2>4
    <3> HIDE DEF P
    <3>2. /\ Q \in Process /\ Q.k = P.k /\ Q.parent = P.parent
          /\ Q.killing = P.killing /\ Q.server = P.server /\ Q.exit = P.exit
          /\ P.stopped => Q = P
          /\ ~P.stopped => Q.at = "stopping" /\ Q.listener = "closed" /\ Q.stopped
      BY <2>1, StoppedOK
    <3>3. proc[p].stopped => proc[p].listener = "closed"
      BY <1>2, <2>2 DEF StageOK, Late
    <3>4. proc[p].at \in Late \ {"gone"}
      BY <1>2, <2>1, <2>2, <2>4 DEF StageOK, Late
    <3> HIDE DEF Q
    <3>5. Q.listener = "closed"
      BY <2>1, <3>2, <3>3
    <3>6. \/ Q.at = proc[p].at /\ Q.listener = proc[p].listener /\ Q.stopped = proc[p].stopped
          \/ Q.at = "stopping" /\ Q.listener = "closed" /\ Q.stopped
      BY <2>1, <3>2
    <3>7. /\ Q.k = Empty /\ Q.parent = proc[p].parent /\ Q.killing = proc[p].killing
          /\ Q.server = proc[p].server /\ Q.exit = proc[p].exit /\ Q \in Process
      BY <2>1, <3>2
    <3>8. proc[p].k = "QUIT" /\ UNCHANGED <<pidFile, signals, asked, crashed>>
      BY <1>1, <2>3
    <3> HIDE DEF hasListener
    <3> QED BY <1>2, <2>3, <3>1, <3>4, <3>5, <3>6, <3>7, <3>8, TakenSafe
  <2>5. CASE ~hasListener
    <3> DEFINE Q == [P EXCEPT !.exit = "read"]
    <3>1. proc' = [proc EXCEPT ![p] = Q]
      BY <1>1, <1>4, <2>5
    <3>2. asked
      BY <1>1, <2>1, <2>2, <2>5 DEF UnaskedOK
    <3> HIDE DEF P
    <3>3. Q \in Process
      BY <2>1 DEF Process
    <3>4. /\ Q.k = P.k /\ Q.parent = P.parent /\ Q.at = P.at
          /\ Q.listener = P.listener /\ Q.stopped = P.stopped
          /\ Q.killing = P.killing /\ Q.server = P.server
      BY <2>1 DEF Process
    <3> HIDE DEF Q
    <3>5. /\ Q.k = Empty /\ Q.parent = proc[p].parent /\ Q.killing = proc[p].killing
          /\ Q.server = proc[p].server /\ Q.at = proc[p].at
          /\ Q.listener = proc[p].listener /\ Q.stopped = proc[p].stopped
      BY <2>1, <3>4
    <3>6. UNCHANGED <<pidFile, signals, asked, crashed>>
      BY <1>1, <2>3
    <3> HIDE DEF hasListener
    <3> QED BY <1>2, <2>3, <3>1, <3>2, <3>3, <3>5, <3>6, TakenSafe
  <2> QED BY <2>4, <2>5
<1> QED BY <1>3, <1>4

\* A child starts: it has the socket of its parent, and has told nobody anything.
LEMMA ForkSafe ==
    ASSUME LifecycleInv, NEW p \in Pid, NEW c \in Pid,
           proc[p].k = "USR2", proc[p].listener = "open", proc[c].at = "unborn",
           proc' = [proc EXCEPT ![p] = Taken(p),
                      ![c] = [Unborn EXCEPT !.at = "boot", !.parent = p,
                                            !.listener = "inherited"]],
           rpc' \in Pid \cup {NoPid}, UNCHANGED <<pidFile, signals, asked, crashed, fatal>>
    PROVE  Safe
<1> DEFINE Q == Taken(p)
           C == [Unborn EXCEPT !.at = "boot", !.parent = p, !.listener = "inherited"]
<1>1. /\ proc[p] \in Process /\ StageOK(proc[p]) /\ (~asked => UnaskedOK(proc[p]))
      /\ proc[p].k # Empty
  BY OneProcess DEF Empty
<1>2. StageOK(proc[c]) /\ proc[c].k = Empty /\ proc[c].listener = "nil"
      /\ proc[c].parent = NoPid /\ ~proc[c].killing
  BY OneProcess DEF StageOK
<1>3. p # c
  BY <1>1, <1>2
<1>4. /\ Q \in Process
      /\ Q.k = Empty /\ Q.parent = proc[p].parent
      /\ Q.killing = proc[p].killing /\ Q.at = proc[p].at
      /\ Q.listener = proc[p].listener /\ Q.stopped = proc[p].stopped
      /\ Q.server = proc[p].server
      /\ Q.monitorStop = proc[p].monitorStop /\ Q.exit = proc[p].exit
  BY <1>1, TakenType
<1>5. C \in Process
  BY DEF Unborn, Process, Empty
<1>6. /\ C.at = "boot" /\ C.parent = p /\ C.k = Empty /\ C.listener = "inherited"
      /\ ~C.server /\ ~C.stopped /\ ~C.monitorStop /\ ~C.killing /\ C.exit = "no"
  BY DEF Unborn
<1>7. proc[p].at \in {"bound", "serving"}
  BY <1>1 DEF StageOK, Process
<1> HIDE DEF Q, C
<1>8. /\ proc' \in [Pid -> Process] /\ proc'[p] = Q /\ proc'[c] = C
      /\ \A q \in Pid : q # p /\ q # c => proc'[q] = proc[q]
  BY <1>3, <1>4, <1>5 DEF LifecycleInv, LifecycleTypeOK, Q, C
<1>9. StagesInv'
  <2>1. StageOK(Q) /\ StageOK(C)
    BY <1>1, <1>4, <1>6, <1>7 DEF StageOK, Empty
  <2> QED BY <1>8, <2>1 DEF LifecycleInv, StagesInv
<1>10. ParentsInv'
  <2>1. ASSUME NEW q \in Pid, proc[q].at \in Late PROVE proc'[q].at \in Late
    BY <1>4, <1>8, <2>1 DEF Late
  <2>2. ASSUME NEW d \in Pid, proc'[d].parent # NoPid
        PROVE  proc'[d].parent # d /\ proc'[proc'[d].parent].at \in Late
    <3>1. CASE d = c
      <4>1. proc[p].at \in Late
        BY <1>7 DEF Late
      <4> QED BY <1>3, <1>6, <1>8, <2>1, <3>1, <4>1
    <3>2. CASE d # c
      <4>1. proc'[d].parent = proc[d].parent
        BY <1>4, <1>8, <3>2
      <4>2. proc[d].parent \in Pid /\ proc[d].parent # d /\ proc[proc[d].parent].at \in Late
        BY <2>2, <4>1 DEF LifecycleInv, ParentsInv, LifecycleTypeOK, Process
      <4> QED BY <2>1, <4>1, <4>2
    <3> QED BY <3>1, <3>2
  <2>3. ASSUME NEW d \in Pid, proc'[d].listener = "inherited" \/ proc'[d].killing
        PROVE  proc'[d].parent # NoPid
    BY <1>4, <1>6, <1>8, <2>3, LifecycleAssumption DEF LifecycleInv, ParentsInv
  <2> QED BY <2>2, <2>3 DEF ParentsInv
<1>11. UnaskedInv'
  <2>1. ASSUME ~asked PROVE UnaskedOK(Q) /\ UnaskedOK(C)
    BY <1>1, <1>4, <1>6, <2>1 DEF UnaskedOK, Empty
  <2> QED BY <1>8, <2>1 DEF LifecycleInv, UnaskedInv
<1>12. KeeperInv' /\ (Held /\ ~asked' /\ ~fatal' => Held')
  <2>1. Held /\ Held'
    BY <1>4, <1>8 DEF Held, Holds
  <2>2. ASSUME NEW q \in Pid, Keeper(q) PROVE Keeper(q)'
    <3>1. q # c
      BY <1>2, <2>2 DEF Keeper
    <3>2. proc'[q].listener = "open" /\ proc'[q].k # "QUIT"
      BY <1>4, <1>8, <2>2, <3>1 DEF Keeper, Empty
    <3>3. \A d \in Pid : proc'[d].killing => proc[d].killing /\ proc'[d].parent = proc[d].parent
      BY <1>4, <1>6, <1>8
    <3> QED BY <2>2, <3>2, <3>3 DEF Keeper
  <2> QED BY <2>1, <2>2 DEF LifecycleInv, KeeperInv
<1>13. PidFileInv'
  <2>1. \A q \in Pid : Told(proc'[q]) => Told(proc[q]) /\ proc'[q].exit = proc[q].exit
    BY <1>4, <1>6, <1>8 DEF Told, Empty
  <2>2. \A d \in Pid : proc'[d].at # "boot" => /\ proc'[d].parent = proc[d].parent
                                               /\ proc'[d].at = proc[d].at
    BY <1>4, <1>6, <1>8
  <2> QED BY <2>1, <2>2 DEF LifecycleInv, PidFileInv
<1>14. PidFileAlive'
  <2>1. \A q \in Pid : proc'[q].at = proc[q].at \/ (proc'[q].at = "boot" /\ proc[q].at = "unborn")
    BY <1>4, <1>6, <1>8
  <2>2. pidFile \in Pid \cup {NoPid}
    BY DEF LifecycleInv, LifecycleTypeOK
  <2> QED BY <2>1, <2>2 DEF LifecycleInv, PidFileAlive, Alive
<1>15. LifecycleTypeOK'
  BY <1>8 DEF LifecycleInv, LifecycleTypeOK
<1> QED BY <1>9, <1>10, <1>11, <1>12, <1>13, <1>14, <1>15 DEF LifecycleInv, Safe

LEMMA HandleUsr2Safe ==
    ASSUME LifecycleInv, NEW p \in Pid, HandleUsr2(p), UNCHANGED fatal
    PROVE  Safe
<1>1. proc[p].k = "USR2" /\ proc[p].k # Empty /\ UNCHANGED <<signals, asked>>
  BY DEF HandleUsr2, Handle, Empty
<1>2. ASSUME proc[p].listener \in {"nil", "inherited"}, Dies(p) PROVE Safe
  BY <1>1, <1>2, DiesSafe
<1>3. ASSUME CloseRpc(p), proc' = [proc EXCEPT ![p] = Taken(p)], UNCHANGED <<pidFile, crashed>>
      PROVE  Safe
  BY <1>1, <1>3, TakenSafe, TakenType, CloseRpcType
<1>4. ASSUME proc[p].listener = "open", CloseRpc(p), UNCHANGED <<pidFile, crashed>>,
             NEW c \in Pid, proc[c].at = "unborn",
             proc' = [proc EXCEPT ![p] = Taken(p),
                        ![c] = [Unborn EXCEPT !.at = "boot", !.parent = p,
                                              !.listener = "inherited"]]
      PROVE  Safe
  <2>1. rpc' \in Pid \cup {NoPid}
    BY <1>4, CloseRpcType
  <2> QED BY <1>1, <1>4, <2>1, ForkSafe
<1> QED BY <1>2, <1>3, <1>4 DEF HandleUsr2

-----------------------------------------------------------------------------

\* log.Fatal, at any time after the process has started.
LEMMA FatalSafe ==
    ASSUME LifecycleInv, NEW p \in Pid, Fatal(p), proc[p].at # "unborn"
    PROVE  Safe
<1>1. /\ Gone(p) /\ crashed' = TRUE /\ UNCHANGED <<pidFile, signals, asked>>
      /\ fatal' = (fatal \/ proc[p].listener = "open")
  BY DEF Fatal, Dies
<1> QED BY <1>1, GoneSafe DEF LifecycleInv, LifecycleTypeOK

LEMMA LifecycleStep == LifecycleInv /\ LifecycleNext => Safe
<1> SUFFICES ASSUME LifecycleInv, LifecycleNext PROVE Safe
  OBVIOUS
<1>1. PICK p \in Pid : \/ Main(p) \/ Handler(p) \/ Exit(p) \/ Kill(p) \/ Outside(p)
                       \/ ReloadFatal(p) \/ DatabaseFatal(p)
  BY DEF LifecycleNext
<1>2. CASE Main(p)
  BY <1>2, WritePidFileSafe, StartSafe, RecoverSafe, ListenSafe, ServeSafe, WindsDownSafe
     DEF Main
<1>3. CASE Handler(p)
  BY <1>3, HandleTermSafe, HandleQuitSafe, HandleHupSafe, HandleNoConfigSafe,
     HandleNewAddressSafe, HandleUsr2Safe DEF Handler
<1>4. CASE Exit(p)
  BY <1>4, ReadPidFileSafe, RemovePidFileSafe DEF Exit
<1>5. CASE Kill(p)
  BY <1>5, KillParentSafe DEF Kill
<1>6. CASE Outside(p)
  BY <1>6, WindsDownSafe, OperatorSafe DEF Outside
<1>7. CASE ReloadFatal(p)
  <2>1. proc[p].k # Empty /\ Fatal(p)
    BY <1>7 DEF ReloadFatal, Handle, Empty
  <2>2. proc[p].at # "unborn"
    BY <2>1, OneProcess DEF StageOK
  <2> QED BY <2>1, <2>2, FatalSafe
<1>8. CASE DatabaseFatal(p)
  BY <1>8, FatalSafe DEF DatabaseFatal
<1> QED BY <1>1, <1>2, <1>3, <1>4, <1>5, <1>6, <1>7, <1>8

LEMMA LifecycleStutters ==
    LifecycleInv /\ UNCHANGED lifecycleVars => LifecycleInv'
BY DEF lifecycleVars, LifecycleInv, LifecycleTypeOK, StagesInv, ParentsInv, UnaskedInv,
       KeeperInv, Keeper, Held, Holds, PidFileInv, PidFileAlive, Alive

LEMMA LifecycleStart == LifecycleInit => LifecycleInv
<1> SUFFICES ASSUME LifecycleInit PROVE LifecycleInv
  OBVIOUS
<1> DEFINE B == [Unborn EXCEPT !.at = "boot"]
<1>1. B \in Process /\ Unborn \in Process
  BY DEF Unborn, Process, Empty
<1>2. /\ B.at = "boot" /\ B.parent = NoPid /\ B.k = Empty /\ B.listener = "nil"
      /\ ~B.server /\ ~B.stopped /\ ~B.monitorStop /\ ~B.killing /\ B.exit = "no"
      /\ Unborn.at = "unborn" /\ Unborn.parent = NoPid /\ Unborn.k = Empty
      /\ Unborn.listener = "nil" /\ ~Unborn.server /\ ~Unborn.stopped
      /\ ~Unborn.monitorStop /\ ~Unborn.killing /\ Unborn.exit = "no"
  BY DEF Unborn
<1>3. /\ \A p \in Pid : proc[p] = B \/ proc[p] = Unborn
      /\ proc \in [Pid -> Process]
      /\ rpc = NoPid /\ pidFile = NoPid /\ signals = 0
      /\ asked = FALSE /\ crashed = FALSE /\ fatal = FALSE
  BY <1>1 DEF LifecycleInit
<1> HIDE DEF B
<1>4. LifecycleTypeOK
  <2>1. 0 \in 0..MaxSignal
    BY LifecycleAssumption
  <2>2. asked \in BOOLEAN /\ crashed \in BOOLEAN /\ fatal \in BOOLEAN
    BY <1>3
  <2>3. rpc \in Pid \cup {NoPid} /\ pidFile \in Pid \cup {NoPid}
    BY <1>3
  <2> QED BY <1>3, <2>1, <2>2, <2>3, Zenon DEF LifecycleTypeOK
<1>5. StageOK(B) /\ StageOK(Unborn) /\ UnaskedOK(B) /\ UnaskedOK(Unborn)
      /\ ~Told(B) /\ ~Told(Unborn)
  BY <1>2 DEF StageOK, UnaskedOK, Told, Empty
<1>6. StagesInv /\ ParentsInv /\ UnaskedInv /\ PidFileInv
  BY <1>2, <1>3, <1>5 DEF StagesInv, ParentsInv, UnaskedInv, PidFileInv
<1>7. ~Held
  BY <1>2, <1>3 DEF Held, Holds
<1>8. PidFileAlive
  BY <1>2, <1>3 DEF PidFileAlive
<1> QED BY <1>4, <1>6, <1>7, <1>8 DEF LifecycleInv, KeeperInv

THEOREM LifecycleInvariant == LifecycleSpec => []LifecycleInv
<1>1. LifecycleInv /\ [LifecycleNext]_lifecycleVars => LifecycleInv'
  BY LifecycleStep, LifecycleStutters DEF Safe
<1> QED BY <1>1, LifecycleStart, PTL DEF LifecycleSpec

\* The pid file names a process that lives, through upgrades that overlap or fail,
\* as long as every process that ends comes to RemovePidFile, and the file can be
\* written and removed.
THEOREM LifecyclePidFileAlive == LifecycleSpec => []PidFileAlive
<1>1. LifecycleInv => PidFileAlive
  BY DEF LifecycleInv
<1> QED BY <1>1, LifecycleInvariant, PTL

\* The socket is never closed by the last process that has it: there always is one
\* that neither the operator nor a child has asked to quit, unless a fatal error ended
\* a process that accepted connections.
THEOREM LifecycleNeverRefused == LifecycleSpec => NeverRefused
<1>1. LifecycleInv /\ [LifecycleNext]_lifecycleVars
        => [Held /\ ~asked' /\ ~fatal' => Held']_lifecycleVars
  BY LifecycleStep DEF Safe
<1> QED BY <1>1, LifecycleInvariant, PTL DEF LifecycleSpec, NeverRefused

-----------------------------------------------------------------------------
(* The database upgrade: the old data                                      *)

\* What is left of a database without its work keys.
Plain(d) == Restrict(d, {k \in DOMAIN d : ~IsWork(k)})

LEMMA PutWork ==
    ASSUME NEW d, NEW e, \A k \in DOMAIN e : IsWork(k)
    PROVE  Plain(Put(d, e)) = Plain(d)
<1> DEFINE P == Put(d, e)
<1>1. /\ DOMAIN P = DOMAIN d \cup DOMAIN e
      /\ \A k \in DOMAIN d : ~IsWork(k) => P[k] = d[k]
  BY DEF Put
<1> HIDE DEF P
<1>2. {k \in DOMAIN P : ~IsWork(k)} = {k \in DOMAIN d : ~IsWork(k)}
  BY <1>1
<1>3. Plain(P) = Plain(d)
  BY <1>1, <1>2 DEF Plain, Restrict
<1> QED BY <1>3 DEF P

LEMMA WithoutWork == ASSUME NEW d PROVE Plain(Plain(d)) = Plain(d)
<1> DEFINE P == Plain(d)
<1>1. /\ DOMAIN P = {k \in DOMAIN d : ~IsWork(k)}
      /\ \A k \in DOMAIN P : P[k] = d[k]
  BY DEF Plain, Restrict
<1> HIDE DEF P
<1>2. {k \in DOMAIN P : ~IsWork(k)} = {k \in DOMAIN d : ~IsWork(k)}
  BY <1>1
<1> QED BY <1>1, <1>2 DEF Plain, Restrict, P

\* What arrives of what was sent, and which keys may have lost something.
LEMMA Arriving ==
    ASSUME NEW sent, sent = [k \in DOMAIN sent |-> sent[k]], NEW got \in Arrives(sent)
    PROVE  DOMAIN got = DOMAIN sent /\ \A k \in DOMAIN sent : got[k] \subseteq sent[k]
<1>1. CASE got = sent
  BY <1>1
<1>2. ASSUME NEW x \in DOMAIN sent, NEW part \in SUBSET sent[x], got = [sent EXCEPT ![x] = part]
      PROVE  DOMAIN got = DOMAIN sent /\ \A k \in DOMAIN sent : got[k] \subseteq sent[k]
  BY <1>2
<1> QED BY <1>1, <1>2 DEF Arrives

LEMMA LossIsNoted ==
    ASSUME NEW sent, NEW got, Loses(sent, got)
    PROVE  /\ lost \subseteq lost'
           /\ \A k \in DOMAIN sent : k[2] \notin lost' => got[k] = sent[k]
           /\ \A x \in lost' \ lost : \E k \in DOMAIN sent : x = k[2]
BY DEF Loses

\* Every step but the transaction of the upgrade leaves the data alone.
LEMMA DataKept ==
    ASSUME [UpgradeNext]_upgradeVars, \A n \in Node : ~Exec(n)
    PROVE  Data' = Data
<1>1. CASE UNCHANGED db
  BY <1>1 DEF Data, Restrict
<1>2. ASSUME NEW n \in Node, Erase(n) PROVE Data' = Data
  BY <1>2, WithoutWork DEF Erase, Data, Plain
<1>3. ASSUME NEW n \in Node, AssignId(n) PROVE Data' = Data
  <2>1. PICK v : db' = Put(db, One(Work(Mirrors), v))
    BY <1>3 DEF AssignId
  <2>2. \A k \in DOMAIN One(Work(Mirrors), v) : IsWork(k)
    BY DEF One, IsWork, Work
  <2> QED BY <2>1, <2>2, PutWork DEF Data, Plain
<1>4. ASSUME NEW n \in Node, RenameKeys(n) PROVE Data' = Data
  <2> DEFINE served(f) == IF FileMirrors(f) \in DOMAIN db THEN IdsOf(n, db[FileMirrors(f)]) ELSE {}
             works == {Work(FileMirrors(f)) : f \in Repository}
             sent == [k \in works |-> served(k[2][2])]
  <2>1. PICK got \in Arrives(sent) : db' = Put(db, Restrict(got, NonEmpty(got)))
    BY <1>4 DEF RenameKeys
  <2> DEFINE E == Restrict(got, NonEmpty(got))
  <2>2. DOMAIN got = works
    BY Arriving
  <2>3. \A k \in DOMAIN E : IsWork(k)
    BY <2>2 DEF IsWork, Work, Restrict, NonEmpty
  <2> HIDE DEF E
  <2>4. db' = Put(db, E)
    BY <2>1 DEF E
  <2> QED BY <2>3, <2>4, PutWork DEF Data, Plain
<1>5. ASSUME NEW n \in Node, FixMirrorID(n) PROVE Data' = Data
  <2> DEFINE works == {Work(MirrorKey(id)) : id \in DOMAIN mids[n]}
             sent == [k \in works |-> {k[2][2]}]
             E(got) == [k \in works |-> db[MirrorKey(mids[n][k[2][2]])] \cup got[k]]
  <2>1. (\E got \in Arrives(sent) : db' = Put(db, E(got))) \/ UNCHANGED db
    BY <1>5 DEF FixMirrorID
  <2>2. ASSUME NEW got PROVE \A k \in DOMAIN E(got) : IsWork(k)
    BY DEF IsWork, Work
  <2> HIDE DEF E
  <2>3. ASSUME NEW got, db' = Put(db, E(got)) PROVE Data' = Data
    BY <2>2, <2>3, PutWork DEF Data, Plain
  <2> QED BY <1>1, <2>1, <2>3
<1>6. ASSUME NEW n \in Node, RenameStats(n) PROVE Data' = Data
  <2> DEFINE ids(t) == IF Stats(t) \in DOMAIN db THEN IdsOf(n, DOMAIN db[Stats(t)]) ELSE {}
             works == {Work(Stats(t)) : t \in {p \in Period : ids(p) # {}}}
             sent == [k \in works |-> ids(k[2][2])]
             E(got) == [k \in NonEmpty(got) |-> [id \in got[k] |-> db[k[2]][mids[n][id]]]]
  <2>1. PICK got \in Arrives(sent) : db' = Put(db, E(got))
    BY <1>6 DEF RenameStats
  <2>2. DOMAIN got = works
    BY Arriving
  <2>3. \A k \in DOMAIN E(got) : IsWork(k)
    BY <2>2 DEF IsWork, Work, NonEmpty
  <2> HIDE DEF E
  <2> QED BY <2>1, <2>3, PutWork DEF Data, Plain
<1>7. ASSUME UpgradeNext, db' # db
      PROVE  \E n \in Node : Erase(n) \/ AssignId(n) \/ RenameKeys(n) \/ FixMirrorID(n)
                               \/ RenameStats(n)
  <2>1. ~Expire
    BY <1>7 DEF Expire
  <2>2. PICK n \in Node : dbUpdateHandler(n) \/ Keepalive(n) \/ CommandFails(n)
                            \/ Crash(n) \/ Restart(n)
    BY <1>7, <2>1 DEF UpgradeNext
  <2>3. dbUpdateHandler(n)
    BY <1>7, <2>2 DEF Keepalive, CommandFails, Crash, Restart
  <2>4. ~(UpgradeNeeded(n) \/ Upgrade(n) \/ AcquireLock(n) \/ ReadMirrors(n) \/ Release(n)
            \/ DeleteKey(n))
    BY <1>7 DEF UpgradeNeeded, Upgrade, AcquireLock, ReadMirrors, Release, DeleteKey
  <2> QED BY <2>3, <2>4 DEF dbUpdateHandler
<1> QED BY <1>1, <1>2, <1>3, <1>4, <1>5, <1>6, <1>7 DEF upgradeVars

\* The version is set for good.
LEMMA VersionKept ==
    ASSUME [UpgradeNext]_upgradeVars, version \in {0, 1}
    PROVE  version' \in {0, 1} /\ (version = 1 => version' = 1)
<1>1. CASE UNCHANGED version
  BY <1>1
<1>2. ASSUME UpgradeNext, version' # version
      PROVE  \E n \in Node : UpgradeNeeded(n) \/ Upgrade(n) \/ Exec(n)
  <2>1. ~Expire
    BY <1>2 DEF Expire
  <2>2. PICK n \in Node : dbUpdateHandler(n) \/ Keepalive(n) \/ CommandFails(n)
                            \/ Crash(n) \/ Restart(n)
    BY <1>2, <2>1 DEF UpgradeNext
  <2>3. dbUpdateHandler(n)
    BY <1>2, <2>2 DEF Keepalive, CommandFails, Crash, Restart
  <2>4. ~(AcquireLock(n) \/ Erase(n) \/ ReadMirrors(n) \/ AssignId(n) \/ RenameKeys(n)
            \/ FixMirrorID(n) \/ RenameStats(n) \/ Release(n) \/ DeleteKey(n))
    BY <1>2 DEF AcquireLock, Erase, ReadMirrors, AssignId, RenameKeys, FixMirrorID,
                RenameStats, Release, DeleteKey
  <2> QED BY <2>3, <2>4 DEF dbUpdateHandler
<1>3. ASSUME NEW n \in Node, UpgradeNeeded(n) \/ Upgrade(n) \/ Exec(n)
      PROVE  version' \in {0, 1} /\ (version = 1 => version' = 1)
  BY <1>3 DEF UpgradeNeeded, Upgrade, GetDBFormatVersion, Exec
<1> QED BY <1>1, <1>2, <1>3 DEF upgradeVars

\* The list of the mirrors is never lost, and what was lost before the version
\* was set is remembered.
LEMMA LostKept ==
    ASSUME [UpgradeNext]_upgradeVars, Mirrors \notin lost
    PROVE  Mirrors \notin lost' /\ (version = 1 => lost \subseteq lost')
<1>1. CASE UNCHANGED lost
  BY <1>1
<1>2. ASSUME NEW n \in Node, Erase(n)
      PROVE  Mirrors \notin lost' /\ (version = 1 => lost \subseteq lost')
  BY <1>2 DEF Erase
<1>3. ASSUME NEW sent, NEW got, Loses(sent, got), \A k \in DOMAIN sent : k[2] # Mirrors
      PROVE  Mirrors \notin lost' /\ (version = 1 => lost \subseteq lost')
  BY <1>3, LossIsNoted
<1>4. ASSUME NEW n \in Node, RenameKeys(n)
      PROVE  Mirrors \notin lost' /\ (version = 1 => lost \subseteq lost')
  <2> DEFINE served(f) == IF FileMirrors(f) \in DOMAIN db THEN IdsOf(n, db[FileMirrors(f)]) ELSE {}
             works == {Work(FileMirrors(f)) : f \in Repository}
             sent == [k \in works |-> served(k[2][2])]
  <2>1. PICK got : Loses(sent, got)
    BY <1>4 DEF RenameKeys
  <2>2. \A k \in DOMAIN sent : k[2] # Mirrors
    BY DEF Work, FileMirrors, Mirrors
  <2> QED BY <1>3, <2>1, <2>2
<1>5. ASSUME NEW n \in Node, FixMirrorID(n)
      PROVE  Mirrors \notin lost' /\ (version = 1 => lost \subseteq lost')
  <2> DEFINE works == {Work(MirrorKey(id)) : id \in DOMAIN mids[n]}
             sent == [k \in works |-> {k[2][2]}]
  <2>1. (\E got : Loses(sent, got)) \/ UNCHANGED lost
    BY <1>5 DEF FixMirrorID
  <2>2. \A k \in DOMAIN sent : k[2] # Mirrors
    BY DEF Work, MirrorKey, Mirrors
  <2> QED BY <1>1, <1>3, <2>1, <2>2
<1>6. ASSUME NEW n \in Node, RenameStats(n)
      PROVE  Mirrors \notin lost' /\ (version = 1 => lost \subseteq lost')
  <2> DEFINE ids(t) == IF Stats(t) \in DOMAIN db THEN IdsOf(n, DOMAIN db[Stats(t)]) ELSE {}
             works == {Work(Stats(t)) : t \in {p \in Period : ids(p) # {}}}
             sent == [k \in works |-> ids(k[2][2])]
  <2>1. PICK got : Loses(sent, got)
    BY <1>6 DEF RenameStats
  <2>2. \A k \in DOMAIN sent : k[2] # Mirrors
    <3>1. \A t : Work(Stats(t))[2] # Mirrors
      BY DEF Work, Stats, Mirrors
    <3>2. \A k \in DOMAIN sent : \E t : k = Work(Stats(t))
      OBVIOUS
    <3> QED BY <3>1, <3>2
  <2> QED BY <1>3, <2>1, <2>2
<1>7. ASSUME UpgradeNext, lost' # lost
      PROVE  \E n \in Node : Erase(n) \/ RenameKeys(n) \/ FixMirrorID(n) \/ RenameStats(n)
  <2>1. ~Expire
    BY <1>7 DEF Expire
  <2>2. PICK n \in Node : dbUpdateHandler(n) \/ Keepalive(n) \/ CommandFails(n)
                            \/ Crash(n) \/ Restart(n)
    BY <1>7, <2>1 DEF UpgradeNext
  <2>3. dbUpdateHandler(n)
    BY <1>7, <2>2 DEF Keepalive, CommandFails, Crash, Restart
  <2>4. ~(UpgradeNeeded(n) \/ Upgrade(n) \/ AcquireLock(n) \/ ReadMirrors(n) \/ AssignId(n)
            \/ Exec(n) \/ Release(n) \/ DeleteKey(n))
    BY <1>7 DEF UpgradeNeeded, Upgrade, AcquireLock, ReadMirrors, AssignId, Exec, Release,
                DeleteKey
  <2> QED BY <2>3, <2>4 DEF dbUpdateHandler
<1> QED BY <1>1, <1>2, <1>4, <1>5, <1>6, <1>7 DEF upgradeVars

LEMMA OldAtStart == ASSUME UpgradeInit PROVE OldDataIntact
<1>1. CASE db = << >>
  BY <1>1 DEF UpgradeInit, OldDataIntact, Data, Restrict
<1>2. CASE db = Version0
  <2>1. \A k \in DOMAIN Version0 : ~IsWork(k)
    BY DEF Version0, Keys0, IsWork, Mirrors, Stats, MirrorKey, FilesKey, FileMirrors
  <2>2. Version0 = [k \in DOMAIN Version0 |-> Version0[k]]
    BY DEF Version0
  <2>3. {k \in DOMAIN Version0 : ~IsWork(k)} = DOMAIN Version0
    BY <2>1
  <2>4. Data = Version0
    BY <1>2, <2>2, <2>3 DEF Data, Restrict
  <2> QED BY <2>4 DEF UpgradeInit, OldDataIntact
<1> QED BY <1>1, <1>2 DEF UpgradeInit

\* Until the version is set the data of version 0 is untouched: the steps before
\* the transaction write work keys only, and the transaction sets the version
\* (v1/version1.go, Upgrade), for any number of processes, deaths and stalls.
THEOREM UpgradeOldDataIntact == UpgradeSpec => []OldDataIntact
<1>1. UpgradeInit => version \in {0, 1} /\ OldDataIntact
  BY OldAtStart DEF UpgradeInit
<1>2. version \in {0, 1} /\ OldDataIntact /\ [UpgradeNext]_upgradeVars
        => (version \in {0, 1} /\ OldDataIntact)'
  <2> SUFFICES ASSUME version \in {0, 1}, OldDataIntact, [UpgradeNext]_upgradeVars
               PROVE  version' \in {0, 1} /\ OldDataIntact'
    OBVIOUS
  <2>1. CASE \E n \in Node : Exec(n)
    BY <2>1 DEF Exec, OldDataIntact
  <2>2. CASE \A n \in Node : ~Exec(n)
    BY <2>2, DataKept, VersionKept DEF OldDataIntact
  <2> QED BY <2>1, <2>2
<1> QED BY <1>1, <1>2, PTL DEF UpgradeSpec

-----------------------------------------------------------------------------
(* The database upgrade: the conversion                                    *)

Locked == {"erase", "index", "assign", "fix", "stats", "exec", "release", "del"}
Labels == Locked \cup {"check", "upgrade", "lock", "ready", "exited"}

UpgradeShape ==
    /\ version \in {0, 1} /\ lastMID \in 0..MaxId
    /\ lock \in Node \cup {NoNode, Orphan}
    /\ pc \in [Node -> Labels]
    /\ held \in [Node -> BOOLEAN]
    /\ DOMAIN mids = Node /\ DOMAIN todo = Node /\ DOMAIN actions = Node
    /\ \A n \in Node : actions[n] = [rename |-> actions[n].rename, delete |-> actions[n].delete]
    /\ stalls \in Nat

\* As long as no holder stalls, whoever upgrades has the lock.
LockInv ==
    \A n \in Node : pc[n] \in Locked => lock = n /\ (pc[n] # "del" => held[n])

\* Only a database with mirrors is upgraded.
MirrorsInv == \A n \in Node : pc[n] \in Locked \cup {"lock"} => Mirrors \in DOMAIN db

\* An index: its identifiers have been given out, each to one name.
IsIndex(m) ==
    /\ DOMAIN m \subseteq 1..lastMID
    /\ m = [id \in DOMAIN m |-> m[id]]
    /\ \A id \in DOMAIN m : m[id] \in Name
    /\ \A i, j \in DOMAIN m : m[i] = m[j] => i = j

\* The work keys, as the steps write them; x: the keys that have lost writes.
HasIndex(d, m) ==
    Work(Mirrors) \in DOMAIN d /\ d[Work(Mirrors)] = [type |-> "hash", content |-> m]

HasFiles(d, m, x) ==
    \A file \in Repository :
        /\ Work(FileMirrors(file)) \in DOMAIN d => ServedBy(file) # {}
        /\ ServedBy(file) # {} /\ FileMirrors(file) \notin x =>
             /\ Work(FileMirrors(file)) \in DOMAIN d
             /\ d[Work(FileMirrors(file))] = Of(m, ServedBy(file))

HasMirrors(d, m, x) ==
    \A id \in DOMAIN m :
        /\ Work(MirrorKey(id)) \in DOMAIN d
        /\ MirrorKey(id) \notin x => d[Work(MirrorKey(id))] = {m[id], id}

HasStats(d, m, x) ==
    \A t \in Period :
        Of(m, Counted[t]) # {} /\ Stats(t) \notin x =>
             /\ Work(Stats(t)) \in DOMAIN d
             /\ d[Work(Stats(t))] = [id \in Of(m, Counted[t]) |-> m[id]]

\* The renames they collect on the way.
MarkedFiles(m) == {FilesKey(m[id]) : id \in DOMAIN m}
MarkedWork == {Work(Mirrors)} \cup {Work(FileMirrors(file)) : file \in Repository}
MarkedMirrors(m) == {Work(MirrorKey(id)) : id \in DOMAIN m}
MarkedStats(m) == {Work(Stats(t)) : t \in {p \in Period : Of(m, Counted[p]) # {}}}

Renaming(r, m, marked) ==
    /\ DOMAIN r = MarkedFiles(m) \cup MarkedWork \cup marked
    /\ \A id \in DOMAIN m : r[FilesKey(m[id])] = FilesKey(id)
    /\ \A k \in MarkedWork \cup marked : r[k] = k[2]

Old == version = 0 /\ Plain(db) = Version0

Whole(m) == IsIndex(m) /\ \A name \in Name : \E id \in DOMAIN m : m[id] = name

\* What each step of the upgrade finds.
StageInv(n) ==
    LET m == mids[n]
        r == actions[n].rename
    IN /\ pc[n] = "index" => \A k \in DOMAIN db : ~IsWork(k)
       /\ pc[n] = "assign" =>
            /\ Old /\ IsIndex(m)
            /\ \A name \in Name : name \in todo[n] <=> \A id \in DOMAIN m : m[id] # name
            /\ todo[n] \subseteq Name
            /\ \A k \in DOMAIN db : IsWork(k) => k = Work(Mirrors)
            /\ IF DOMAIN m = {} THEN Work(Mirrors) \notin DOMAIN db ELSE HasIndex(db, m)
       /\ pc[n] = "fix" =>
            Old /\ Whole(m) /\ HasIndex(db, m) /\ HasFiles(db, m, lost) /\ Renaming(r, m, {})
       /\ pc[n] = "stats" =>
            /\ Old /\ Whole(m) /\ HasIndex(db, m) /\ HasFiles(db, m, lost)
            /\ HasMirrors(db, m, lost)
            /\ Renaming(r, m, MarkedMirrors(m))
            /\ actions[n].delete = {MirrorKey(m[id]) : id \in DOMAIN m}
       /\ pc[n] = "exec" =>
            /\ Old /\ Whole(m) /\ HasIndex(db, m) /\ HasFiles(db, m, lost)
            /\ HasMirrors(db, m, lost)
            /\ HasStats(db, m, lost)
            /\ Renaming(r, m, MarkedMirrors(m) \cup MarkedStats(m))
            /\ actions[n].delete = {MirrorKey(m[id]) : id \in DOMAIN m}

UpgradeInv ==
    /\ UpgradeShape /\ OldDataIntact /\ Mirrors \notin lost
    /\ stalls = 0 => /\ LockInv /\ MirrorsInv
                     /\ \A n \in Node : StageInv(n)
                     /\ UpgradeConverts

\* The process n, or Redis, takes a step.
Action(n) ==
    \/ UpgradeNeeded(n) \/ Upgrade(n) \/ AcquireLock(n)
    \/ Erase(n) \/ ReadMirrors(n) \/ AssignId(n) \/ RenameKeys(n)
    \/ FixMirrorID(n) \/ RenameStats(n) \/ Exec(n)
    \/ Release(n) \/ DeleteKey(n)
    \/ Keepalive(n) \/ CommandFails(n) \/ Crash(n) \/ Restart(n)

LEMMA UpgradeCases == UpgradeNext <=> Expire \/ \E n \in Node : Action(n)
BY DEF UpgradeNext, Action, dbUpdateHandler

\* What the step of n leaves to the others.
LEMMA OwnStep ==
    ASSUME UpgradeShape, NEW n \in Node, Action(n)
    PROVE  /\ UpgradeShape'
           /\ \A q \in Node \ {n} : /\ pc'[q] = pc[q] /\ held'[q] = held[q]
                                     /\ mids'[q] = mids[q] /\ todo'[q] = todo[q]
                                     /\ actions'[q] = actions[q]
           /\ lastMID <= lastMID' /\ stalls' = stalls
<1> USE DBUpgradeAssumption DEF UpgradeShape, Labels, Locked
<1>1. CASE UpgradeNeeded(n)
  BY <1>1 DEF UpgradeNeeded, GetDBFormatVersion, Proceed, local
<1>2. CASE Upgrade(n)
  BY <1>2 DEF Upgrade, GetDBFormatVersion, Proceed, local
<1>3. CASE AcquireLock(n)
  <2>1. pc' \in [Node -> Labels] /\ \A q \in Node \ {n} : pc'[q] = pc[q]
    BY <1>3 DEF AcquireLock, Proceed
  <2>2. held' \in [Node -> BOOLEAN] /\ \A q \in Node \ {n} : held'[q] = held[q]
    BY <1>3 DEF AcquireLock, Proceed
  <2>3. /\ DOMAIN actions' = Node /\ \A q \in Node \ {n} : actions'[q] = actions[q]
        /\ actions'[n] = [rename |-> actions'[n].rename, delete |-> actions'[n].delete]
    BY <1>3 DEF AcquireLock, Proceed
  <2>4. /\ DOMAIN mids' = Node /\ \A q \in Node \ {n} : mids'[q] = mids[q]
        /\ DOMAIN todo' = Node /\ \A q \in Node \ {n} : todo'[q] = todo[q]
    BY <1>3 DEF AcquireLock, Proceed
  <2>5. /\ version' = version /\ lastMID' = lastMID /\ stalls' = stalls
        /\ lock' \in Node \cup {NoNode, Orphan}
    BY <1>3 DEF AcquireLock, Proceed
  <2> QED BY <2>1, <2>2, <2>3, <2>4, <2>5
<1>4. CASE Erase(n)
  BY <1>4 DEF Erase, Proceed, local
<1>5. CASE ReadMirrors(n)
  BY <1>5 DEF ReadMirrors, Proceed, Fail
<1>6. CASE AssignId(n)
  BY <1>6 DEF AssignId
<1>7. CASE RenameKeys(n)
  <2>1. pc' \in [Node -> Labels] /\ \A q \in Node \ {n} : pc'[q] = pc[q]
    BY <1>7 DEF RenameKeys, Proceed, Renames
  <2>2. held' \in [Node -> BOOLEAN] /\ \A q \in Node \ {n} : held'[q] = held[q]
    BY <1>7 DEF RenameKeys, Proceed, Renames
  <2>3. /\ DOMAIN actions' = Node /\ \A q \in Node \ {n} : actions'[q] = actions[q]
        /\ actions'[n] = [rename |-> actions'[n].rename, delete |-> actions'[n].delete]
    BY <1>7 DEF RenameKeys, Proceed, Renames
  <2>4. /\ DOMAIN mids' = Node /\ \A q \in Node \ {n} : mids'[q] = mids[q]
        /\ DOMAIN todo' = Node /\ \A q \in Node \ {n} : todo'[q] = todo[q]
    BY <1>7 DEF RenameKeys, Proceed, Renames
  <2>5. /\ version' = version /\ lastMID' = lastMID /\ stalls' = stalls
        /\ lock' \in Node \cup {NoNode, Orphan}
    BY <1>7 DEF RenameKeys, Proceed, Renames
  <2> QED BY <2>1, <2>2, <2>3, <2>4, <2>5
<1>8. CASE FixMirrorID(n)
  <2>1. pc' \in [Node -> Labels] /\ \A q \in Node \ {n} : pc'[q] = pc[q]
    BY <1>8 DEF FixMirrorID, Proceed, Fail
  <2>2. held' \in [Node -> BOOLEAN] /\ \A q \in Node \ {n} : held'[q] = held[q]
    BY <1>8 DEF FixMirrorID, Proceed, Fail
  <2>3. /\ DOMAIN actions' = Node /\ \A q \in Node \ {n} : actions'[q] = actions[q]
        /\ actions'[n] = [rename |-> actions'[n].rename, delete |-> actions'[n].delete]
    BY <1>8 DEF FixMirrorID, Proceed, Fail
  <2>4. /\ DOMAIN mids' = Node /\ \A q \in Node \ {n} : mids'[q] = mids[q]
        /\ DOMAIN todo' = Node /\ \A q \in Node \ {n} : todo'[q] = todo[q]
    BY <1>8 DEF FixMirrorID, Proceed, Fail
  <2>5. /\ version' = version /\ lastMID' = lastMID /\ stalls' = stalls
        /\ lock' \in Node \cup {NoNode, Orphan}
    BY <1>8 DEF FixMirrorID, Proceed, Fail
  <2> QED BY <2>1, <2>2, <2>3, <2>4, <2>5
<1>9. CASE RenameStats(n)
  <2>1. pc' \in [Node -> Labels] /\ \A q \in Node \ {n} : pc'[q] = pc[q]
    BY <1>9 DEF RenameStats, Proceed
  <2>2. held' \in [Node -> BOOLEAN] /\ \A q \in Node \ {n} : held'[q] = held[q]
    BY <1>9 DEF RenameStats, Proceed
  <2>3. /\ DOMAIN actions' = Node /\ \A q \in Node \ {n} : actions'[q] = actions[q]
        /\ actions'[n] = [rename |-> actions'[n].rename, delete |-> actions'[n].delete]
    BY <1>9 DEF RenameStats, Proceed
  <2>4. /\ DOMAIN mids' = Node /\ \A q \in Node \ {n} : mids'[q] = mids[q]
        /\ DOMAIN todo' = Node /\ \A q \in Node \ {n} : todo'[q] = todo[q]
    BY <1>9 DEF RenameStats, Proceed
  <2>5. /\ version' = version /\ lastMID' = lastMID /\ stalls' = stalls
        /\ lock' \in Node \cup {NoNode, Orphan}
    BY <1>9 DEF RenameStats, Proceed
  <2> QED BY <2>1, <2>2, <2>3, <2>4, <2>5
<1>10. CASE Exec(n)
  BY <1>10 DEF Exec, Proceed, local
<1>11. CASE Release(n)
  <2>1. pc' \in [Node -> Labels] /\ \A q \in Node \ {n} : pc'[q] = pc[q]
    BY <1>11 DEF Release, Proceed, Finish, NoActions
  <2>2. held' \in [Node -> BOOLEAN] /\ \A q \in Node \ {n} : held'[q] = held[q]
    BY <1>11 DEF Release, Proceed, Finish, NoActions
  <2>3. /\ DOMAIN actions' = Node /\ \A q \in Node \ {n} : actions'[q] = actions[q]
        /\ actions'[n] = [rename |-> actions'[n].rename, delete |-> actions'[n].delete]
    BY <1>11 DEF Release, Proceed, Finish, NoActions
  <2>4. /\ DOMAIN mids' = Node /\ \A q \in Node \ {n} : mids'[q] = mids[q]
        /\ DOMAIN todo' = Node /\ \A q \in Node \ {n} : todo'[q] = todo[q]
    BY <1>11 DEF Release, Proceed, Finish, NoActions
  <2>5. /\ version' = version /\ lastMID' = lastMID /\ stalls' = stalls
        /\ lock' \in Node \cup {NoNode, Orphan}
    BY <1>11 DEF Release, Proceed, Finish, NoActions
  <2> QED BY <2>1, <2>2, <2>3, <2>4, <2>5
<1>12. CASE DeleteKey(n)
  <2>1. pc' \in [Node -> Labels] /\ \A q \in Node \ {n} : pc'[q] = pc[q]
    BY <1>12 DEF DeleteKey, Proceed, Finish, NoActions
  <2>2. held' \in [Node -> BOOLEAN] /\ \A q \in Node \ {n} : held'[q] = held[q]
    BY <1>12 DEF DeleteKey, Proceed, Finish, NoActions
  <2>3. /\ DOMAIN actions' = Node /\ \A q \in Node \ {n} : actions'[q] = actions[q]
        /\ actions'[n] = [rename |-> actions'[n].rename, delete |-> actions'[n].delete]
    BY <1>12 DEF DeleteKey, Proceed, Finish, NoActions
  <2>4. /\ DOMAIN mids' = Node /\ \A q \in Node \ {n} : mids'[q] = mids[q]
        /\ DOMAIN todo' = Node /\ \A q \in Node \ {n} : todo'[q] = todo[q]
    BY <1>12 DEF DeleteKey, Proceed, Finish, NoActions
  <2>5. /\ version' = version /\ lastMID' = lastMID /\ stalls' = stalls
        /\ lock' \in Node \cup {NoNode, Orphan}
    BY <1>12 DEF DeleteKey, Proceed, Finish, NoActions
  <2> QED BY <2>1, <2>2, <2>3, <2>4, <2>5
<1>13. CASE Keepalive(n)
  BY <1>13 DEF Keepalive
<1>14. CASE CommandFails(n)
  <2>1. pc' \in [Node -> Labels] /\ \A q \in Node \ {n} : pc'[q] = pc[q]
    BY <1>14 DEF CommandFails, Proceed, Fail
  <2>2. held' \in [Node -> BOOLEAN] /\ \A q \in Node \ {n} : held'[q] = held[q]
    BY <1>14 DEF CommandFails, Proceed, Fail
  <2>3. /\ DOMAIN actions' = Node /\ \A q \in Node \ {n} : actions'[q] = actions[q]
        /\ actions'[n] = [rename |-> actions'[n].rename, delete |-> actions'[n].delete]
    BY <1>14 DEF CommandFails, Proceed, Fail
  <2>4. /\ DOMAIN mids' = Node /\ \A q \in Node \ {n} : mids'[q] = mids[q]
        /\ DOMAIN todo' = Node /\ \A q \in Node \ {n} : todo'[q] = todo[q]
    BY <1>14 DEF CommandFails, Proceed, Fail
  <2>5. /\ version' = version /\ lastMID' = lastMID /\ stalls' = stalls
        /\ lock' \in Node \cup {NoNode, Orphan}
    BY <1>14 DEF CommandFails, Proceed, Fail
  <2> QED BY <2>1, <2>2, <2>3, <2>4, <2>5
<1>15. CASE Crash(n)
  <2>1. pc' \in [Node -> Labels] /\ \A q \in Node \ {n} : pc'[q] = pc[q]
    BY <1>15 DEF Crash, Fresh, Proceed, NoActions
  <2>2. held' \in [Node -> BOOLEAN] /\ \A q \in Node \ {n} : held'[q] = held[q]
    BY <1>15 DEF Crash, Fresh, Proceed, NoActions
  <2>3. /\ DOMAIN actions' = Node /\ \A q \in Node \ {n} : actions'[q] = actions[q]
        /\ actions'[n] = [rename |-> actions'[n].rename, delete |-> actions'[n].delete]
    BY <1>15 DEF Crash, Fresh, Proceed, NoActions
  <2>4. /\ DOMAIN mids' = Node /\ \A q \in Node \ {n} : mids'[q] = mids[q]
        /\ DOMAIN todo' = Node /\ \A q \in Node \ {n} : todo'[q] = todo[q]
    BY <1>15 DEF Crash, Fresh, Proceed, NoActions
  <2>5. /\ version' = version /\ lastMID' = lastMID /\ stalls' = stalls
        /\ lock' \in Node \cup {NoNode, Orphan}
    BY <1>15 DEF Crash, Fresh, Proceed, NoActions
  <2> QED BY <2>1, <2>2, <2>3, <2>4, <2>5
<1>16. CASE Restart(n)
  <2>1. pc' \in [Node -> Labels] /\ \A q \in Node \ {n} : pc'[q] = pc[q]
    BY <1>16 DEF Restart, Fresh, Proceed, NoActions
  <2>2. held' \in [Node -> BOOLEAN] /\ \A q \in Node \ {n} : held'[q] = held[q]
    BY <1>16 DEF Restart, Fresh, Proceed, NoActions
  <2>3. /\ DOMAIN actions' = Node /\ \A q \in Node \ {n} : actions'[q] = actions[q]
        /\ actions'[n] = [rename |-> actions'[n].rename, delete |-> actions'[n].delete]
    BY <1>16 DEF Restart, Fresh, Proceed, NoActions
  <2>4. /\ DOMAIN mids' = Node /\ \A q \in Node \ {n} : mids'[q] = mids[q]
        /\ DOMAIN todo' = Node /\ \A q \in Node \ {n} : todo'[q] = todo[q]
    BY <1>16 DEF Restart, Fresh, Proceed, NoActions
  <2>5. /\ version' = version /\ lastMID' = lastMID /\ stalls' = stalls
        /\ lock' \in Node \cup {NoNode, Orphan}
    BY <1>16 DEF Restart, Fresh, Proceed, NoActions
  <2> QED BY <2>1, <2>2, <2>3, <2>4, <2>5
<1> QED BY <1>1, <1>2, <1>3, <1>4, <1>5, <1>6, <1>7, <1>8, <1>9, <1>10, <1>11, <1>12,
           <1>13, <1>14, <1>15, <1>16 DEF Action

LEMMA LockStep ==
    ASSUME UpgradeShape, LockInv, UpgradeNext, stalls = 0, stalls' = 0
    PROVE  LockInv'
<1>1. CASE Expire
  <2>1. lock = Orphan /\ UNCHANGED <<pc, held>>
    BY <1>1 DEF Expire, UpgradeShape, local
  <2> QED BY <2>1, DBUpgradeAssumption DEF LockInv
<1>2. ASSUME NEW n \in Node, Action(n) PROVE LockInv'
  <2> USE DEF LockInv, UpgradeShape
  <2>1. \A q \in Node \ {n} : pc'[q] = pc[q] /\ held'[q] = held[q]
    BY <1>2, OwnStep
  <2>2. ASSUME NEW q \in Node \ {n}, pc[q] \in Locked PROVE lock' = q
    <3>1. lock = q /\ pc[n] \notin Locked /\ lock # n
      BY <2>2
    <3>2. CASE AcquireLock(n)
      BY <3>1, <3>2, DBUpgradeAssumption DEF AcquireLock
    <3>3. CASE Crash(n)
      BY <3>1, <3>3 DEF Crash
    <3>4. CASE UpgradeNeeded(n) \/ Upgrade(n) \/ Keepalive(n) \/ Restart(n)
      BY <3>1, <3>4 DEF UpgradeNeeded, Upgrade, Keepalive, Restart
    <3> QED BY <1>2, <3>1, <3>2, <3>3, <3>4
            DEF Action, Locked, Erase, ReadMirrors, AssignId, RenameKeys, FixMirrorID,
                RenameStats, Exec, Release, DeleteKey, CommandFails
  <2>3. ASSUME pc'[n] \in Locked PROVE lock' = n /\ (pc'[n] # "del" => held'[n])
    <3>1. CASE AcquireLock(n)
      BY <2>3, <3>1 DEF AcquireLock, Proceed, Locked
    <3>2. CASE Release(n)
      BY <2>3, <3>2 DEF Release, Proceed, Finish, Locked
    <3>3. CASE Erase(n) \/ ReadMirrors(n) \/ AssignId(n) \/ RenameKeys(n) \/ FixMirrorID(n)
                 \/ RenameStats(n) \/ Exec(n) \/ CommandFails(n)
      <4>1. pc[n] \in Locked \ {"del"} /\ UNCHANGED <<lock, held>>
        BY <3>3 DEF Erase, ReadMirrors, AssignId, RenameKeys, FixMirrorID, RenameStats, Exec,
                    CommandFails, Locked, local
      <4> QED BY <4>1
    <3>4. CASE Keepalive(n)
      BY <2>3, <3>4 DEF Keepalive
    <3>5. CASE UpgradeNeeded(n) \/ Upgrade(n) \/ DeleteKey(n) \/ Crash(n) \/ Restart(n)
      BY <2>3, <3>5 DEF UpgradeNeeded, Upgrade, GetDBFormatVersion, Proceed, DeleteKey, Finish,
                        Crash, Restart, Fresh, Locked
    <3> QED BY <1>2, <3>1, <3>2, <3>3, <3>4, <3>5 DEF Action
  <2> QED BY <2>1, <2>2, <2>3
<1> QED BY <1>1, <1>2, UpgradeCases

\* The data is a function of the database.
LEMMA DataKeys ==
    /\ DOMAIN Data = {k \in DOMAIN db : ~IsWork(k)}
    /\ \A k \in DOMAIN Data : Data[k] = db[k]
    /\ Mirrors \in DOMAIN db <=> Mirrors \in DOMAIN Data
    /\ Data = Plain(db)
BY DEF Data, Plain, Restrict, IsWork, Mirrors

LEMMA MirrorsStep ==
    ASSUME UpgradeShape, MirrorsInv, [UpgradeNext]_upgradeVars, Data' = Data
    PROVE  MirrorsInv'
<1>1. Mirrors \in DOMAIN db' <=> Mirrors \in DOMAIN db
  <2>1. Mirrors \in DOMAIN db <=> Mirrors \in DOMAIN Data
    BY DataKeys
  <2>2. Mirrors \in DOMAIN db' <=> Mirrors \in DOMAIN Data'
    BY DEF Data, Restrict, IsWork, Mirrors
  <2> QED BY <2>1, <2>2
<1>2. CASE Expire \/ UNCHANGED upgradeVars
  BY <1>1, <1>2 DEF Expire, MirrorsInv, upgradeVars
<1>3. ASSUME NEW n \in Node, Action(n) PROVE MirrorsInv'
  <2>1. \A q \in Node \ {n} : pc'[q] = pc[q]
    BY <1>3, OwnStep
  <2>2. ASSUME pc'[n] \in Locked \cup {"lock"} PROVE Mirrors \in DOMAIN db
    <3>1. CASE UpgradeNeeded(n) \/ Upgrade(n)
      BY <2>2, <3>1 DEF UpgradeNeeded, Upgrade, GetDBFormatVersion, Proceed, Locked, UpgradeShape
    <3>2. CASE DeleteKey(n) \/ Crash(n) \/ Restart(n)
      BY <2>2, <3>2 DEF DeleteKey, Finish, Crash, Restart, Fresh, Proceed, Locked, UpgradeShape
    <3>3. CASE pc[n] \in Locked \cup {"lock"}
      BY <3>3 DEF MirrorsInv
    <3>4. CASE Keepalive(n)
      BY <2>2, <3>3, <3>4 DEF Keepalive
    <3> QED BY <1>3, <3>1, <3>2, <3>3, <3>4
            DEF Action, Locked, AcquireLock, Erase, ReadMirrors, AssignId, RenameKeys,
                FixMirrorID, RenameStats, Exec, Release, CommandFails
  <2> QED BY <1>1, <2>1, <2>2 DEF MirrorsInv
<1> QED BY <1>2, <1>3, UpgradeCases

\* Steps that leave the data and the version alone, or find an empty database.
LEMMA ConvertsStep ==
    ASSUME UpgradeShape, OldDataIntact, stalls = 0, UpgradeConverts, [UpgradeNext]_upgradeVars,
           \A n \in Node : ~Exec(n), Mirrors \notin lost
    PROVE  UpgradeConverts'
<1> SUFFICES ASSUME version' = 1, Data' # << >> PROVE UpgradeConverts'
  BY DEF UpgradeConverts
<1>1. Data' = Data
  BY DataKept
<1>2. version = 1
  <2>1. ASSUME version # 1 PROVE Mirrors \notin DOMAIN db
    <3>1. UpgradeNext
      BY <2>1 DEF upgradeVars
    <3>2. PICK n \in Node : Action(n)
      BY <2>1, <3>1, UpgradeCases DEF Expire
    <3> QED BY <2>1, <3>2
            DEF Action, UpgradeNeeded, Upgrade, GetDBFormatVersion, AcquireLock, Erase,
                ReadMirrors, AssignId, RenameKeys, FixMirrorID, RenameStats, Release, DeleteKey,
                Keepalive, CommandFails, Crash, Restart
  <2>2. Mirrors \in DOMAIN Version0
    BY DEF Version0, Keys0
  <2>3. version # 1 => Data \in {Version0, << >>}
    BY DEF OldDataIntact, UpgradeShape
  <2>4. Mirrors \in DOMAIN db <=> Mirrors \in DOMAIN Data
    BY DataKeys
  <2> QED BY <1>1, <2>1, <2>2, <2>3, <2>4
<1>3. Mirrors \in DOMAIN Data /\ db[Mirrors] = Data[Mirrors]
  <2>1. Mirrors \in DOMAIN Data
    BY <1>1, <1>2 DEF UpgradeConverts, Keys1
  <2> QED BY <2>1, DataKeys
<1>4. db'[Mirrors] = db[Mirrors]
  <2>1. Mirrors \in DOMAIN Data' /\ Data'[Mirrors] = db'[Mirrors]
    BY <1>1, <1>3 DEF Data, Restrict
  <2> QED BY <1>1, <1>3, <2>1
<1>5. lost \subseteq lost'
  BY <1>2, LostKept
<1> QED BY <1>1, <1>2, <1>4, <1>5 DEF UpgradeConverts

Stages == {"index", "assign", "fix", "stats", "exec"}

LEMMA NoStage == ASSUME NEW n \in Node, pc[n] \notin Stages PROVE StageInv(n)
BY DEF StageInv, Stages

LEMMA OtherStage ==
    ASSUME UpgradeShape, LockInv, MirrorsInv, NEW n \in Node, NEW q \in Node \ {n},
           Action(n), StageInv(q)
    PROVE  StageInv(q)'
<1>1. /\ pc'[q] = pc[q] /\ mids'[q] = mids[q] /\ todo'[q] = todo[q]
      /\ actions'[q] = actions[q]
  BY OwnStep
<1>2. CASE pc[q] \notin Stages
  BY <1>1, <1>2 DEF StageInv, Stages
<1>3. CASE pc[q] \in Stages
  <2>1. pc[n] \notin Locked /\ Mirrors \in DOMAIN db
    BY <1>3 DEF LockInv, MirrorsInv, Locked, Stages
  <2>2. UNCHANGED <<db, version, lastMID, lost>>
    BY <2>1 DEF Action, Locked, UpgradeNeeded, Upgrade, GetDBFormatVersion, AcquireLock, Erase,
                ReadMirrors, AssignId, RenameKeys, FixMirrorID, RenameStats, Exec, Release,
                DeleteKey, Keepalive, CommandFails, Crash, Restart
  <2> QED BY <1>1, <2>2 DEF StageInv, Old, Plain, Restrict, IsIndex, Whole
<1> QED BY <1>2, <1>3

\* The keys of version 0.
LEMMA OldKeys ==
    /\ DOMAIN Version0 = Keys0
    /\ Mirrors \in Keys0 /\ Version0[Mirrors] = [type |-> "list", content |-> Name]
    /\ \A n : MirrorKey(n) \in Keys0 <=> n \in Name
    /\ \A n : FilesKey(n) \in Keys0 <=> n \in Name /\ FilesOf[n] # {}
    /\ \A f : FileMirrors(f) \in Keys0 <=> f \in File /\ ServedBy(f) # {}
    /\ \A t : Stats(t) \in Keys0 <=> t \in Period /\ Counted[t] # {}
    /\ \A n \in Name : Version0[MirrorKey(n)] = {n}
    /\ \A n \in Name : FilesOf[n] # {} => Version0[FilesKey(n)] = FilesOf[n]
    /\ \A f \in File : ServedBy(f) # {} => Version0[FileMirrors(f)] = ServedBy(f)
    /\ \A t \in Period : Counted[t] # {} => Version0[Stats(t)] = [n \in Counted[t] |-> n]
    /\ \A f : Value0(FileMirrors(f)) = ServedBy(f)
    /\ \A t : Value0(Stats(t)) = [n \in Counted[t] |-> n]
<1>1. DOMAIN Version0 = Keys0 /\ \A k \in Keys0 : Version0[k] = Value0(k)
  BY DEF Version0
<1>2. /\ Mirrors \in Keys0
      /\ \A n : MirrorKey(n) \in Keys0 <=> n \in Name
      /\ \A n : FilesKey(n) \in Keys0 <=> n \in Name /\ FilesOf[n] # {}
      /\ \A f : FileMirrors(f) \in Keys0 <=> f \in File /\ ServedBy(f) # {}
      /\ \A t : Stats(t) \in Keys0 <=> t \in Period /\ Counted[t] # {}
  BY DEF Keys0, Mirrors, Stats, MirrorKey, FilesKey, FileMirrors
<1>3. Value0(Mirrors) = [type |-> "list", content |-> Name]
  BY DEF Value0, Mirrors
<1>4. \A t : Value0(Stats(t)) = [n \in Counted[t] |-> n]
  BY DEF Value0, Mirrors, Stats
<1>5. \A n : Value0(MirrorKey(n)) = {n}
  BY DEF Value0, Mirrors, MirrorKey
<1>6. \A n : Value0(FilesKey(n)) = FilesOf[n]
  BY DEF Value0, Mirrors, FilesKey
<1>7. \A f : Value0(FileMirrors(f)) = ServedBy(f)
  BY DEF Value0, Mirrors, FileMirrors
<1> QED BY <1>1, <1>2, <1>3, <1>4, <1>5, <1>6, <1>7

LEMMA OldDb ==
    ASSUME Old
    PROVE  /\ \A k : k \in DOMAIN db /\ ~IsWork(k) <=> k \in Keys0
           /\ \A k \in Keys0 : db[k] = Version0[k] /\ ~IsWork(k)
<1>1. DOMAIN Data = Keys0 /\ \A k \in Keys0 : Data[k] = Version0[k]
  BY OldKeys, DataKeys DEF Old
<1> QED BY <1>1, DataKeys

LEMMA OldValues ==
    ASSUME Old
    PROVE  /\ Mirrors \in DOMAIN db /\ db[Mirrors] = [type |-> "list", content |-> Name]
           /\ \A t : Stats(t) \in DOMAIN db <=> t \in Period /\ Counted[t] # {}
           /\ \A n : MirrorKey(n) \in DOMAIN db <=> n \in Name
           /\ \A n : FilesKey(n) \in DOMAIN db <=> n \in Name /\ FilesOf[n] # {}
           /\ \A f : FileMirrors(f) \in DOMAIN db <=> f \in File /\ ServedBy(f) # {}
           /\ \A n \in Name : db[MirrorKey(n)] = {n}
           /\ \A n \in Name : FilesOf[n] # {} => db[FilesKey(n)] = FilesOf[n]
           /\ \A f \in File : ServedBy(f) # {} => db[FileMirrors(f)] = ServedBy(f)
           /\ \A t \in Period : Counted[t] # {} => db[Stats(t)] = [n \in Counted[t] |-> n]
<1>1. \A n : /\ ~IsWork(MirrorKey(n)) /\ ~IsWork(FilesKey(n)) /\ ~IsWork(FileMirrors(n))
             /\ ~IsWork(Stats(n))
  BY DEF IsWork, MirrorKey, FilesKey, FileMirrors, Stats
<1> QED BY <1>1, OldDb, OldKeys

LEMMA EraseStage ==
    ASSUME UpgradeShape, NEW n \in Node, Erase(n)
    PROVE  StageInv(n)'
<1>1. pc'[n] = "index"
  BY DEF Erase, Proceed, UpgradeShape
<1>2. \A k \in DOMAIN db' : ~IsWork(k)
  BY DEF Erase, Restrict
<1> QED BY <1>1, <1>2 DEF StageInv

LEMMA ReadMirrorsStage ==
    ASSUME UpgradeShape, OldDataIntact, MirrorsInv, UpgradeConverts, stalls = 0,
           Mirrors \notin lost, NEW n \in Node, StageInv(n), ReadMirrors(n)
    PROVE  StageInv(n)'
<1>1. CASE pc'[n] \notin Stages
  BY <1>1 DEF StageInv, Stages
<1>2. CASE pc'[n] \in Stages
  <2>1. /\ pc[n] = "index" /\ pc'[n] = "assign" /\ db[Mirrors].type = "list"
        /\ todo'[n] = db[Mirrors].content /\ mids'[n] = << >>
        /\ UNCHANGED <<db, version, lastMID>>
    BY <1>2 DEF ReadMirrors, Proceed, Fail, UpgradeShape, Stages
  <2>2. Mirrors \in DOMAIN Data /\ Data[Mirrors] = db[Mirrors]
    BY <2>1, DataKeys DEF MirrorsInv, Locked
  <2>3. version = 0
    <3>1. CASE version = 1
      <4>1. Data # << >>
        BY <2>2
      <4>2. PICK index \in [DOMAIN db[Mirrors].content -> Name] :
              \A k \in DOMAIN Data \ lost : Data[k] = Value1(index, k)
        BY <3>1, <4>1 DEF UpgradeConverts
      <4>3. Data[Mirrors] = Value1(index, Mirrors)
        BY <2>2, <4>2
      <4>4. Value1(index, Mirrors) = [type |-> "hash", content |-> index]
        BY DEF Value1, Mirrors
      <4>5. db[Mirrors].type = "hash"
        BY <2>2, <4>3, <4>4
      <4> QED BY <2>1, <4>5
    <3> QED BY <3>1 DEF UpgradeShape
  <2>4. Data = Version0
    BY <2>2, <2>3 DEF OldDataIntact
  <2>5. Old
    BY <2>3, <2>4, DataKeys DEF Old
  <2>6. Old'
    BY <2>1, <2>5 DEF Old, Plain, Restrict
  <2>7. todo'[n] = Name
    BY <2>1, <2>5, OldValues
  <2>8. IsIndex(mids[n])' /\ DOMAIN mids'[n] = {}
    BY <2>1 DEF IsIndex
  <2>9. Work(Mirrors) \notin DOMAIN db' /\ \A k \in DOMAIN db' : ~IsWork(k)
    BY <2>1 DEF StageInv, IsWork, Work
  <2> QED BY <2>1, <2>6, <2>7, <2>8, <2>9 DEF StageInv
<1> QED BY <1>1, <1>2

LEMMA PutIsFunction ==
    ASSUME NEW d, NEW e, NEW p, p = Put(d, e)
    PROVE  p = [i \in DOMAIN p |-> p[i]]
BY DEF Put

LEMMA AssignIdStage ==
    ASSUME UpgradeShape, NEW n \in Node, StageInv(n), AssignId(n)
    PROVE  StageInv(n)'
<1> DEFINE m == mids[n]
           id == lastMID + 1
           name == CHOOSE x \in todo[n] : TRUE
           p == Put(m, One(id, name))
           w == Put(WorkMirrors, One(id, name))
           value == [type |-> "hash", content |-> w]
<1>1. /\ pc[n] = "assign" /\ pc'[n] = "assign" /\ todo[n] # {} /\ lastMID' = id
      /\ todo'[n] = todo[n] \ {name} /\ mids'[n] = p
      /\ db' = Put(db, One(Work(Mirrors), value)) /\ version' = version
  BY DEF AssignId, UpgradeShape
<1>2. /\ Old /\ IsIndex(m)
      /\ \A x \in Name : x \in todo[n] <=> \A i \in DOMAIN m : m[i] # x
      /\ todo[n] \subseteq Name
      /\ \A k \in DOMAIN db : IsWork(k) => k = Work(Mirrors)
      /\ IF DOMAIN m = {} THEN Work(Mirrors) \notin DOMAIN db ELSE HasIndex(db, m)
  BY <1>1 DEF StageInv
<1>3. name \in todo[n] /\ name \in Name
  BY <1>1, <1>2
<1>4. lastMID \in Nat /\ id \notin DOMAIN m /\ DOMAIN m \subseteq 1..id /\ id \in 1..id
  BY <1>2 DEF IsIndex, UpgradeShape
<1> HIDE DEF name, id
<1>5. /\ DOMAIN p = DOMAIN m \cup {id} /\ p[id] = name
      /\ \A i \in DOMAIN m : p[i] = m[i]
  BY <1>4 DEF Put, One
<1>6. w = p
  <2>1. CASE DOMAIN m = {}
    <3>1. WorkMirrors = << >>
      BY <1>2, <2>1 DEF WorkMirrors
    <3>2. DOMAIN WorkMirrors = {}
      BY <3>1
    <3> QED BY <2>1, <3>2 DEF Put
  <2>2. CASE DOMAIN m # {}
    <3>1. WorkMirrors = m
      BY <1>2, <2>2 DEF WorkMirrors, HasIndex
    <3> QED BY <3>1
  <2> QED BY <2>1, <2>2
<1> HIDE DEF p, w
<1>7. /\ DOMAIN db' = DOMAIN db \cup {Work(Mirrors)}
      /\ db'[Work(Mirrors)] = [type |-> "hash", content |-> p]
  BY <1>1, <1>6 DEF Put, One
<1>8. HasIndex(db, mids[n])' /\ DOMAIN mids'[n] # {}
  BY <1>1, <1>5, <1>7 DEF HasIndex
<1>9. IsIndex(mids[n])'
  <2>1. \A i \in DOMAIN m : m[i] # name
    BY <1>2, <1>3
  <2>2. /\ \A i \in DOMAIN p : p[i] \in Name
        /\ \A i, j \in DOMAIN p : p[i] = p[j] => i = j
        /\ DOMAIN p \subseteq 1..id
    BY <1>2, <1>3, <1>4, <1>5, <2>1 DEF IsIndex
  <2>3. p = [i \in DOMAIN p |-> p[i]]
    BY PutIsFunction DEF p
  <2> QED BY <1>1, <2>2, <2>3 DEF IsIndex
<1>10. Old'
  <2>1. \A k \in DOMAIN One(Work(Mirrors), value) : IsWork(k)
    BY DEF One, IsWork, Work
  <2> QED BY <1>1, <1>2, <2>1, PutWork DEF Old
<1>11. \A x \in Name : x \in todo'[n] <=> \A i \in DOMAIN mids'[n] : mids'[n][i] # x
  BY <1>1, <1>2, <1>3, <1>5
<1>12. \A k \in DOMAIN db' : IsWork(k) => k = Work(Mirrors)
  BY <1>2, <1>7
<1>13. todo'[n] \subseteq Name
  BY <1>1, <1>2
<1> QED BY <1>1, <1>8, <1>9, <1>10, <1>11, <1>12, <1>13 DEF StageInv

LEMMA RenameKeysStage ==
    ASSUME UpgradeShape, NEW n \in Node, StageInv(n), RenameKeys(n)
    PROVE  StageInv(n)'
<1> DEFINE m == mids[n]
           served(f) == IF FileMirrors(f) \in DOMAIN db THEN IdsOf(n, db[FileMirrors(f)]) ELSE {}
           works == {Work(FileMirrors(f)) : f \in Repository}
           sent == [k \in works |-> served(k[2][2])]
           F == [k \in {Work(Mirrors)} \cup works |-> k[2]]
           G == [k \in {FilesKey(m[id]) : id \in DOMAIN m} |->
                    FilesKey(CHOOSE id \in DOMAIN m : m[id] = k[2])]
<1>1. /\ pc[n] = "assign" /\ pc'[n] = "fix" /\ todo[n] = {}
      /\ mids'[n] = m /\ version' = version /\ lastMID' = lastMID
      /\ actions'[n].rename = Put(F, G)
  BY DEF RenameKeys, Renames, Proceed, UpgradeShape
<1>a. PICK got \in Arrives(sent) :
        db' = Put(db, Restrict(got, NonEmpty(got))) /\ Loses(sent, got)
  BY DEF RenameKeys
<1> DEFINE E == Restrict(got, NonEmpty(got))
<1>2. /\ Old /\ IsIndex(m)
      /\ \A x \in Name : x \in todo[n] <=> \A i \in DOMAIN m : m[i] # x
      /\ \A k \in DOMAIN db : IsWork(k) => k = Work(Mirrors)
      /\ IF DOMAIN m = {} THEN Work(Mirrors) \notin DOMAIN db ELSE HasIndex(db, m)
  BY <1>1 DEF StageInv
<1>3. Whole(m) /\ Whole(mids[n])'
  BY <1>1, <1>2 DEF Whole, IsIndex
<1>4. HasIndex(db, m)
  BY <1>2, <1>3, DBUpgradeAssumption DEF Whole
<1>5. \A f \in Repository : served(f) = Of(m, ServedBy(f)) /\ (served(f) # {} <=> ServedBy(f) # {})
  <2> TAKE f \in Repository
  <2>0. f \in File
    BY DBUpgradeAssumption
  <2>1. CASE ServedBy(f) = {}
    BY <1>2, <2>0, <2>1, OldValues DEF Of
  <2>2. CASE ServedBy(f) # {}
    <3>1. served(f) = Of(m, ServedBy(f))
      BY <1>2, <2>0, <2>2, OldValues DEF Of, IdsOf
    <3>2. ServedBy(f) \subseteq Name
      BY DEF ServedBy
    <3>3. Of(m, ServedBy(f)) # {}
      BY <1>3, <2>2, <3>2 DEF Of, Whole
    <3> QED BY <2>2, <3>1, <3>3
  <2> QED BY <2>1, <2>2
<1> HIDE DEF served
<1>b. \A f \in Repository : Work(FileMirrors(f)) \in works /\ sent[Work(FileMirrors(f))] = served(f)
  BY DEF Work, FileMirrors
<1>c. DOMAIN sent = works /\ sent = [k \in DOMAIN sent |-> sent[k]]
  OBVIOUS
<1>d. DOMAIN got = works /\ \A k \in works : got[k] \subseteq sent[k]
  BY <1>a, <1>c, Arriving
<1>e. /\ DOMAIN E = {k \in works : got[k] # {}}
      /\ \A k \in DOMAIN E : E[k] = got[k]
  BY <1>d DEF Restrict, NonEmpty
<1>f. \A f \in Repository : FileMirrors(f) \notin lost' => got[Work(FileMirrors(f))] = served(f)
  <2> TAKE f \in Repository
  <2>1. Work(FileMirrors(f))[2] = FileMirrors(f)
    BY DEF Work
  <2> HIDE DEF sent
  <2> QED BY <1>a, <1>b, <1>c, <2>1, LossIsNoted
<1> HIDE DEF sent
<1>7. \A k \in works : IsWork(k)
  BY DEF IsWork, Work
<1>8. Work(Mirrors) \notin works /\ \A f \in Repository : Work(FileMirrors(f)) \notin DOMAIN db
  <2>1. \A f : Work(FileMirrors(f)) # Work(Mirrors)
    BY DEF Work, FileMirrors, Mirrors
  <2>2. \A k : IsWork(Work(k))
    BY DEF Work, IsWork
  <2> QED BY <1>2, <2>1, <2>2
<1> HIDE DEF works, E
<1>0. /\ DOMAIN db' = DOMAIN db \cup DOMAIN E
      /\ \A k \in DOMAIN E : db'[k] = E[k]
      /\ \A k \in DOMAIN db : k \notin DOMAIN E => db'[k] = db[k]
  BY <1>a DEF Put, E
<1>10. HasIndex(db, mids[n])'
  BY <1>0, <1>1, <1>4, <1>8, <1>e DEF HasIndex
<1>11. HasFiles(db', m, lost')
  <2> SUFFICES ASSUME NEW f \in Repository
               PROVE  /\ Work(FileMirrors(f)) \in DOMAIN db' => ServedBy(f) # {}
                      /\ ServedBy(f) # {} /\ FileMirrors(f) \notin lost' =>
                           /\ Work(FileMirrors(f)) \in DOMAIN db'
                           /\ db'[Work(FileMirrors(f))] = Of(m, ServedBy(f))
    BY DEF HasFiles
  <2>1. ASSUME Work(FileMirrors(f)) \in DOMAIN db' PROVE ServedBy(f) # {}
    <3>1. got[Work(FileMirrors(f))] # {}
      BY <1>0, <1>8, <1>e, <2>1
    <3>2. got[Work(FileMirrors(f))] \subseteq served(f)
      BY <1>b, <1>d
    <3> QED BY <1>5, <3>1, <3>2
  <2>2. ASSUME ServedBy(f) # {}, FileMirrors(f) \notin lost'
        PROVE  /\ Work(FileMirrors(f)) \in DOMAIN db'
               /\ db'[Work(FileMirrors(f))] = Of(m, ServedBy(f))
    <3>1. got[Work(FileMirrors(f))] = served(f) /\ served(f) # {} /\ served(f) = Of(m, ServedBy(f))
      BY <1>5, <1>f, <2>2
    <3>2. Work(FileMirrors(f)) \in DOMAIN E /\ E[Work(FileMirrors(f))] = got[Work(FileMirrors(f))]
      BY <1>b, <1>e, <3>1
    <3> QED BY <1>0, <3>1, <3>2
  <2> QED BY <2>1, <2>2
<1>g. HasFiles(db, mids[n], lost)'
  BY <1>1, <1>11
<1>12. Old'
  <2>1. \A k \in DOMAIN E : IsWork(k)
    BY <1>7, <1>e
  <2>2. Plain(db') = Plain(db)
    BY <1>a, <2>1, PutWork DEF E
  <2> QED BY <1>1, <1>2, <2>2 DEF Old
<1>13. Renaming(actions[n].rename, mids[n], {})'
  <2>1. DOMAIN F = MarkedWork /\ \A k \in MarkedWork : F[k] = k[2]
    BY DEF MarkedWork, works
  <2>2. DOMAIN G = MarkedFiles(m)
    BY DEF MarkedFiles
  <2>3. \A id \in DOMAIN m : G[FilesKey(m[id])] = FilesKey(id)
    <3> TAKE id \in DOMAIN m
    <3>1. FilesKey(m[id])[2] = m[id]
      BY DEF FilesKey
    <3>2. (CHOOSE i \in DOMAIN m : m[i] = m[id]) = id
      BY <1>2 DEF IsIndex
    <3> QED BY <3>1, <3>2
  <2>4. MarkedWork \cap MarkedFiles(m) = {}
    BY DEF MarkedWork, MarkedFiles, Work, FilesKey
  <2>5. \A id \in DOMAIN m : FilesKey(m[id]) \in MarkedFiles(m)
    BY DEF MarkedFiles
  <2> HIDE DEF F, G
  <2> DEFINE r == Put(F, G)
  <2>6. /\ DOMAIN r = MarkedFiles(m) \cup MarkedWork
        /\ \A id \in DOMAIN m : r[FilesKey(m[id])] = FilesKey(id)
        /\ \A k \in MarkedWork : r[k] = k[2]
    <3>1. /\ DOMAIN r = DOMAIN F \cup DOMAIN G
          /\ \A k \in DOMAIN G : r[k] = G[k]
          /\ \A k \in DOMAIN F : k \notin DOMAIN G => r[k] = F[k]
      BY DEF Put
    <3> HIDE DEF r
    <3> QED BY <2>1, <2>2, <2>3, <2>4, <2>5, <3>1
  <2> HIDE DEF r
  <2>7. Renaming(r, m, {})
    BY <2>6 DEF Renaming
  <2> QED BY <1>1, <2>7 DEF r
<1> QED BY <1>1, <1>3, <1>10, <1>g, <1>12, <1>13 DEF StageInv

LEMMA KeysDiffer ==
    /\ \A x, y : Work(x) = Work(y) => x = y
    /\ \A x, y : MirrorKey(x) = MirrorKey(y) => x = y
    /\ \A x, y : FilesKey(x) = FilesKey(y) => x = y
    /\ \A x, y : FileMirrors(x) = FileMirrors(y) => x = y
    /\ \A x, y : Stats(x) = Stats(y) => x = y
    /\ \A x, y : /\ MirrorKey(x) # FilesKey(y) /\ MirrorKey(x) # FileMirrors(y)
                 /\ FilesKey(x) # FileMirrors(y)
                 /\ Stats(x) # MirrorKey(y) /\ Stats(x) # FilesKey(y) /\ Stats(x) # FileMirrors(y)
    /\ \A x : /\ Mirrors # MirrorKey(x) /\ Mirrors # FilesKey(x) /\ Mirrors # FileMirrors(x)
              /\ Mirrors # Stats(x)
    /\ \A x : /\ IsWork(Work(x)) /\ Work(x)[2] = x
              /\ ~IsWork(MirrorKey(x)) /\ ~IsWork(FilesKey(x)) /\ ~IsWork(FileMirrors(x))
              /\ ~IsWork(Stats(x)) /\ MirrorKey(x)[2] = x
    /\ ~IsWork(Mirrors)
<1>1. /\ \A x, y : Work(x) = Work(y) => x = y
      /\ \A x, y : MirrorKey(x) = MirrorKey(y) => x = y
      /\ \A x, y : FilesKey(x) = FilesKey(y) => x = y
      /\ \A x, y : FileMirrors(x) = FileMirrors(y) => x = y
      /\ \A x, y : Stats(x) = Stats(y) => x = y
  BY DEF Work, MirrorKey, FilesKey, FileMirrors, Stats
<1>2. \A x, y : /\ MirrorKey(x) # FilesKey(y) /\ MirrorKey(x) # FileMirrors(y)
                /\ FilesKey(x) # FileMirrors(y)
                /\ Stats(x) # MirrorKey(y) /\ Stats(x) # FilesKey(y) /\ Stats(x) # FileMirrors(y)
  BY DEF MirrorKey, FilesKey, FileMirrors, Stats
<1>3. \A x : /\ Mirrors # MirrorKey(x) /\ Mirrors # FilesKey(x) /\ Mirrors # FileMirrors(x)
             /\ Mirrors # Stats(x)
  BY DEF MirrorKey, FilesKey, FileMirrors, Mirrors, Stats
<1>4. /\ \A x : /\ IsWork(Work(x)) /\ Work(x)[2] = x
                /\ ~IsWork(MirrorKey(x)) /\ ~IsWork(FilesKey(x)) /\ ~IsWork(FileMirrors(x))
                /\ ~IsWork(Stats(x)) /\ MirrorKey(x)[2] = x
      /\ ~IsWork(Mirrors)
  BY DEF IsWork, Work, MirrorKey, FilesKey, FileMirrors, Mirrors, Stats
<1> QED BY <1>1, <1>2, <1>3, <1>4

\* More work keys leave those of the earlier steps alone.
LEMMA EarlierWorkKept ==
    ASSUME NEW m, NEW e, NEW x, NEW y, x \subseteq y,
           HasIndex(db, m), HasFiles(db, m, x), db' = Put(db, e),
           Work(Mirrors) \notin DOMAIN e, \A f \in File : Work(FileMirrors(f)) \notin DOMAIN e
    PROVE  HasIndex(db', m) /\ HasFiles(db', m, y)
<1>1. /\ DOMAIN db' = DOMAIN db \cup DOMAIN e
      /\ \A k \in DOMAIN db : k \notin DOMAIN e => db'[k] = db[k]
  BY DEF Put
<1>2. HasIndex(db', m)
  BY <1>1 DEF HasIndex
<1>3. HasFiles(db', m, y)
  BY <1>1, DBUpgradeAssumption DEF HasFiles
<1> QED BY <1>2, <1>3

LEMMA MoreRenames ==
    ASSUME NEW m, NEW marked, NEW more, NEW r, Renaming(r, m, marked),
           NEW e, DOMAIN e = more, \A k \in more : e[k] = k[2],
           more \cap MarkedFiles(m) = {}
    PROVE  Renaming(Put(r, e), m, marked \cup more)
<1> DEFINE p == Put(r, e)
<1>1. /\ DOMAIN p = DOMAIN r \cup DOMAIN e
      /\ \A k \in DOMAIN e : p[k] = e[k]
      /\ \A k \in DOMAIN r : k \notin DOMAIN e => p[k] = r[k]
  BY DEF Put
<1> HIDE DEF p
<1>2. DOMAIN p = MarkedFiles(m) \cup MarkedWork \cup (marked \cup more)
  BY <1>1 DEF Renaming
<1>3. \A id \in DOMAIN m : p[FilesKey(m[id])] = FilesKey(id)
  <2> TAKE id \in DOMAIN m
  <2>1. FilesKey(m[id]) \in MarkedFiles(m)
    BY DEF MarkedFiles
  <2> QED BY <1>1, <2>1 DEF Renaming
<1>4. \A k \in MarkedWork \cup (marked \cup more) : p[k] = k[2]
  BY <1>1 DEF Renaming
<1>5. Renaming(p, m, marked \cup more)
  BY <1>2, <1>3, <1>4 DEF Renaming
<1> QED BY <1>5 DEF p

LEMMA FixMirrorIDStage ==
    ASSUME UpgradeShape, NEW n \in Node, StageInv(n), FixMirrorID(n)
    PROVE  StageInv(n)'
<1>1. CASE pc'[n] \notin Stages
  BY <1>1 DEF StageInv, Stages
<1>2. CASE pc'[n] \in Stages
  <2> DEFINE m == mids[n]
             works == {Work(MirrorKey(id)) : id \in DOMAIN m}
             sent == [k \in works |-> {k[2][2]}]
             E(got) == [k \in works |-> db[MirrorKey(m[k[2][2]])] \cup got[k]]
             F == [k \in works |-> k[2]]
  <2>1. /\ pc[n] = "fix" /\ pc'[n] = "stats"
        /\ mids'[n] = m /\ version' = version /\ lastMID' = lastMID
        /\ actions'[n].rename = Put(actions[n].rename, F)
        /\ actions'[n].delete = {MirrorKey(m[id]) : id \in DOMAIN m}
    BY <1>2 DEF FixMirrorID, Proceed, Fail, UpgradeShape, Stages
  <2>a. PICK got \in Arrives(sent) : db' = Put(db, E(got)) /\ Loses(sent, got)
    BY <1>2 DEF FixMirrorID, Proceed, Fail, UpgradeShape, Stages
  <2>2. /\ Old /\ Whole(m) /\ HasIndex(db, m) /\ HasFiles(db, m, lost)
        /\ Renaming(actions[n].rename, m, {})
    BY <2>1 DEF StageInv
  <2>b. lost \subseteq lost'
    BY <2>a, LossIsNoted
  <2>c. \A id \in DOMAIN m : MirrorKey(id) \notin lost' => got[Work(MirrorKey(id))] = {id}
    <3> TAKE id \in DOMAIN m
    <3>1. Work(MirrorKey(id))[2] = MirrorKey(id) /\ Work(MirrorKey(id)) \in DOMAIN sent
      BY DEF Work
    <3>2. sent[Work(MirrorKey(id))] = {id}
      BY DEF Work, MirrorKey
    <3> HIDE DEF sent
    <3> QED BY <2>a, <3>1, <3>2, LossIsNoted
  <2>3. /\ DOMAIN E(got) = MarkedMirrors(m)
        /\ \A id \in DOMAIN m : MirrorKey(id) \notin lost' =>
              E(got)[Work(MirrorKey(id))] = {m[id], id}
    <3>1. DOMAIN E(got) = MarkedMirrors(m)
      BY DEF MarkedMirrors
    <3>2. \A id \in DOMAIN m : E(got)[Work(MirrorKey(id))]
                                 = db[MirrorKey(m[id])] \cup got[Work(MirrorKey(id))]
      BY DEF Work, MirrorKey
    <3>3. \A id \in DOMAIN m : m[id] \in Name
      BY <2>2 DEF Whole, IsIndex
    <3>4. \A id \in DOMAIN m : db[MirrorKey(m[id])] = {m[id]}
      BY <2>2, <3>3, OldValues
    <3> HIDE DEF E
    <3>5. \A id \in DOMAIN m : MirrorKey(id) \notin lost' =>
              E(got)[Work(MirrorKey(id))] = {m[id]} \cup {id}
      BY <2>c, <3>2, <3>4
    <3>6. \A x, y : {x} \cup {y} = {x, y}
      OBVIOUS
    <3> QED BY <3>1, <3>5, <3>6
  <2>4. DOMAIN F = MarkedMirrors(m) /\ \A k \in MarkedMirrors(m) : F[k] = k[2]
    BY DEF MarkedMirrors
  <2> HIDE DEF E, F
  <2>5. /\ \A k \in DOMAIN E(got) : IsWork(k)
        /\ Work(Mirrors) \notin DOMAIN E(got)
        /\ \A f \in File : Work(FileMirrors(f)) \notin DOMAIN E(got)
        /\ MarkedMirrors(m) \cap MarkedFiles(m) = {}
    BY <2>3, KeysDiffer DEF MarkedMirrors, MarkedFiles
  <2>6. Old'
    BY <2>1, <2>a, <2>2, <2>5, PutWork DEF Old
  <2>7. HasIndex(db', m) /\ HasFiles(db', m, lost')
    BY <2>a, <2>b, <2>2, <2>5, EarlierWorkKept
  <2>8. HasMirrors(db', m, lost')
    <3>1. /\ DOMAIN db' = DOMAIN db \cup DOMAIN E(got)
          /\ \A k \in DOMAIN E(got) : db'[k] = E(got)[k]
      BY <2>a DEF Put
    <3>2. \A id \in DOMAIN m : Work(MirrorKey(id)) \in DOMAIN E(got)
      BY <2>3 DEF MarkedMirrors
    <3> QED BY <2>3, <3>1, <3>2 DEF HasMirrors
  <2>9. Renaming(Put(actions[n].rename, F), m, {} \cup MarkedMirrors(m))
    BY <2>2, <2>4, <2>5, MoreRenames
  <2>10. Renaming(actions'[n].rename, m, MarkedMirrors(m))
    BY <2>1, <2>9
  <2>11. Whole(m)'
    BY <2>1, <2>2 DEF Whole, IsIndex
  <2>12. HasIndex(db, m)' /\ HasFiles(db, m, lost)' /\ HasMirrors(db, m, lost)'
    BY <2>1, <2>7, <2>8
  <2>13. Renaming(actions[n].rename, m, MarkedMirrors(m))'
    BY <2>1, <2>10 DEF MarkedMirrors
  <2> QED BY <2>1, <2>6, <2>11, <2>12, <2>13 DEF StageInv
<1> QED BY <1>1, <1>2

LEMMA RenameStatsStage ==
    ASSUME UpgradeShape, NEW n \in Node, StageInv(n), RenameStats(n)
    PROVE  StageInv(n)'
<1> DEFINE m == mids[n]
           ids(t) == IF Stats(t) \in DOMAIN db THEN IdsOf(n, DOMAIN db[Stats(t)]) ELSE {}
           works == {Work(Stats(t)) : t \in {p \in Period : ids(p) # {}}}
           sent == [k \in works |-> ids(k[2][2])]
           E(got) == [k \in NonEmpty(got) |-> [id \in got[k] |-> db[k[2]][m[id]]]]
           F == [k \in works |-> k[2]]
<1>1. /\ pc[n] = "stats" /\ pc'[n] = "exec"
      /\ mids'[n] = m /\ version' = version /\ lastMID' = lastMID
      /\ actions'[n].rename = Put(actions[n].rename, F)
      /\ actions'[n].delete = actions[n].delete
  BY DEF RenameStats, Proceed, UpgradeShape
<1>a. PICK got \in Arrives(sent) : db' = Put(db, E(got)) /\ Loses(sent, got)
  BY DEF RenameStats
<1>2. /\ Old /\ Whole(m) /\ HasIndex(db, m) /\ HasFiles(db, m, lost) /\ HasMirrors(db, m, lost)
      /\ Renaming(actions[n].rename, m, MarkedMirrors(m))
      /\ actions[n].delete = {MirrorKey(m[id]) : id \in DOMAIN m}
  BY <1>1 DEF StageInv
<1>3. \A t \in Period : ids(t) = Of(m, Counted[t])
  <2> TAKE t \in Period
  <2>1. CASE Counted[t] = {}
    BY <1>2, <2>1, OldValues DEF Of
  <2>2. CASE Counted[t] # {}
    <3>1. Stats(t) \in DOMAIN db /\ db[Stats(t)] = [x \in Counted[t] |-> x]
      BY <1>2, <2>2, OldValues
    <3>2. DOMAIN db[Stats(t)] = Counted[t]
      BY <3>1
    <3> QED BY <3>1, <3>2 DEF IdsOf, Of
  <2> QED BY <2>1, <2>2
<1>4. \A t \in Period : \A id \in ids(t) : db[Stats(t)][m[id]] = m[id]
  <2> TAKE t \in Period
  <2> TAKE id \in ids(t)
  <2>1. id \in Of(m, Counted[t])
    BY <1>3
  <2>2. m[id] \in Counted[t]
    BY <2>1 DEF Of
  <2>3. db[Stats(t)] = [x \in Counted[t] |-> x]
    BY <1>2, <2>2, OldValues
  <2> QED BY <2>2, <2>3
<1> HIDE DEF ids
<1>5. works = MarkedStats(m)
  BY <1>3 DEF MarkedStats
<1>6. DOMAIN F = MarkedStats(m) /\ \A k \in MarkedStats(m) : F[k] = k[2]
  BY <1>5
<1>b. \A t \in Period : Work(Stats(t)) \in works => sent[Work(Stats(t))] = ids(t)
  BY DEF Work, Stats
<1>c. DOMAIN sent = works /\ sent = [k \in DOMAIN sent |-> sent[k]]
  OBVIOUS
<1> HIDE DEF sent
<1>d. DOMAIN got = works /\ \A k \in works : got[k] \subseteq sent[k]
  BY <1>a, <1>c, Arriving
<1>e. lost \subseteq lost' /\ \A k \in works : k[2] \notin lost' => got[k] = sent[k]
  BY <1>a, <1>c, LossIsNoted
<1>7. /\ DOMAIN E(got) \subseteq works
      /\ \A k \in works : got[k] # {} =>
            k \in DOMAIN E(got) /\ E(got)[k] = [id \in got[k] |-> db[k[2]][m[id]]]
  BY <1>d DEF NonEmpty
<1> HIDE DEF works, F, E
<1>9. /\ \A k \in DOMAIN E(got) : IsWork(k)
      /\ Work(Mirrors) \notin DOMAIN E(got)
      /\ \A f \in File : Work(FileMirrors(f)) \notin DOMAIN E(got)
      /\ \A id : Work(MirrorKey(id)) \notin DOMAIN E(got)
      /\ MarkedStats(m) \cap MarkedFiles(m) = {}
  BY <1>5, <1>7, KeysDiffer DEF MarkedFiles, MarkedStats
<1>10. Old'
  BY <1>1, <1>a, <1>2, <1>9, PutWork DEF Old
<1>11. HasIndex(db', m) /\ HasFiles(db', m, lost')
  BY <1>a, <1>2, <1>e, <1>9, EarlierWorkKept
<1>0. /\ DOMAIN db' = DOMAIN db \cup DOMAIN E(got)
      /\ \A k \in DOMAIN E(got) : db'[k] = E(got)[k]
      /\ \A k \in DOMAIN db : k \notin DOMAIN E(got) => db'[k] = db[k]
  BY <1>a DEF Put
<1>12. HasMirrors(db', m, lost')
  BY <1>0, <1>2, <1>9, <1>e DEF HasMirrors
<1>17. HasStats(db', m, lost')
  <2> SUFFICES ASSUME NEW t \in Period, Of(m, Counted[t]) # {}, Stats(t) \notin lost'
               PROVE  /\ Work(Stats(t)) \in DOMAIN db'
                      /\ db'[Work(Stats(t))] = [id \in Of(m, Counted[t]) |-> m[id]]
    BY DEF HasStats
  <2>1. Work(Stats(t)) \in works /\ Work(Stats(t))[2] = Stats(t)
    BY <1>5, KeysDiffer DEF MarkedStats
  <2>2. got[Work(Stats(t))] = ids(t) /\ ids(t) = Of(m, Counted[t])
    BY <1>3, <1>b, <1>e, <2>1
  <2>3. /\ Work(Stats(t)) \in DOMAIN E(got)
        /\ E(got)[Work(Stats(t))] = [id \in ids(t) |-> db[Stats(t)][m[id]]]
    BY <1>7, <2>1, <2>2
  <2>4. [id \in ids(t) |-> db[Stats(t)][m[id]]] = [id \in ids(t) |-> m[id]]
    BY <1>4
  <2> QED BY <1>0, <2>2, <2>3, <2>4
<1>13. Renaming(Put(actions[n].rename, F), m, MarkedMirrors(m) \cup MarkedStats(m))
  BY <1>2, <1>6, <1>9, MoreRenames
<1>14. Whole(m)'
  BY <1>1, <1>2 DEF Whole, IsIndex
<1>15. /\ HasIndex(db, m)' /\ HasFiles(db, m, lost)' /\ HasMirrors(db, m, lost)'
       /\ HasStats(db, m, lost)'
       /\ actions'[n].delete = {MirrorKey(m[id]) : id \in DOMAIN m}
  BY <1>1, <1>2, <1>11, <1>12, <1>17
<1>16. Renaming(actions[n].rename, m, MarkedMirrors(m) \cup MarkedStats(m))'
  BY <1>1, <1>13 DEF MarkedMirrors, MarkedStats
<1> QED BY <1>1, <1>10, <1>14, <1>15, <1>16 DEF StageInv

\* The keys of version 1.
LEMMA NewKeys ==
    ASSUME NEW m
    PROVE  /\ Mirrors \in Keys1(m) /\ Value1(m, Mirrors) = [type |-> "hash", content |-> m]
           /\ \A t : Stats(t) \in Keys1(m) <=> t \in Period /\ Counted[t] # {}
           /\ \A t : Of(m, Counted[t]) # {} =>
                  Value1(m, Stats(t)) = [id \in Of(m, Counted[t]) |-> m[id]]
           /\ \A t : Of(m, Counted[t]) = {} => Value1(m, Stats(t)) = Value0(Stats(t))
           /\ \A x : MirrorKey(x) \in Keys1(m) <=> x \in DOMAIN m
           /\ \A x : Value1(m, MirrorKey(x)) = {m[x], x}
           /\ \A x : FilesKey(x) \in Keys1(m) <=> x \in DOMAIN m /\ FilesOf[m[x]] # {}
           /\ \A x : Value1(m, FilesKey(x)) = FilesOf[m[x]]
           /\ \A f : FileMirrors(f) \in Keys1(m) <=> f \in File /\ ServedBy(f) # {}
           /\ \A f \in Repository : Value1(m, FileMirrors(f)) = Of(m, ServedBy(f))
           /\ \A f : f \notin Repository => Value1(m, FileMirrors(f)) = Value0(FileMirrors(f))
           /\ \A k \in Keys1(m) : ~IsWork(k)
<1>1. /\ Mirrors \in Keys1(m)
      /\ \A t : Stats(t) \in Keys1(m) <=> t \in Period /\ Counted[t] # {}
      /\ \A x : MirrorKey(x) \in Keys1(m) <=> x \in DOMAIN m
      /\ \A x : FilesKey(x) \in Keys1(m) <=> x \in DOMAIN m /\ FilesOf[m[x]] # {}
      /\ \A f : FileMirrors(f) \in Keys1(m) <=> f \in File /\ ServedBy(f) # {}
  BY KeysDiffer DEF Keys1
<1>7. \A k \in Keys1(m) : ~IsWork(k)
  BY KeysDiffer DEF Keys1
<1>2. Value1(m, Mirrors) = [type |-> "hash", content |-> m]
  BY DEF Value1, Mirrors
<1>3. \A t : Value1(m, Stats(t)) = IF Of(m, Counted[t]) = {} THEN Value0(Stats(t))
                                   ELSE [id \in Of(m, Counted[t]) |-> m[id]]
  BY DEF Value1, Mirrors, Stats
<1>4. \A x : Value1(m, MirrorKey(x)) = {m[x], x}
  BY DEF Value1, Mirrors, MirrorKey
<1>5. \A x : Value1(m, FilesKey(x)) = FilesOf[m[x]]
  BY DEF Value1, Mirrors, FilesKey
<1>6. \A f : Value1(m, FileMirrors(f)) = IF f \in Repository THEN Of(m, ServedBy(f))
                                         ELSE Value0(FileMirrors(f))
  BY DEF Value1, Mirrors, FileMirrors
<1> QED BY <1>1, <1>2, <1>3, <1>4, <1>5, <1>6, <1>7

\* Each rename that finds its source leads to a key of version 1, and has its value
\* unless it has lost some; a key of version 1 that no rename leads to stays.
LEMMA Sources ==
    ASSUME NEW m, NEW r, Old, Whole(m), HasIndex(db, m), HasFiles(db, m, lost),
           HasMirrors(db, m, lost), HasStats(db, m, lost),
           Renaming(r, m, MarkedMirrors(m) \cup MarkedStats(m))
    PROVE  /\ \A s \in DOMAIN r \cap DOMAIN db :
                  r[s] \in Keys1(m) /\ (r[s] \notin lost => db[s] = Value1(m, r[s]))
           /\ \A k \in Keys1(m) :
                  \/ \E s \in DOMAIN r \cap DOMAIN db : r[s] = k
                  \/ k \in DOMAIN db \ DOMAIN r /\ (k \notin lost => db[k] = Value1(m, k))
<1>1. /\ \A id \in DOMAIN m : FilesKey(m[id]) \in DOMAIN r /\ r[FilesKey(m[id])] = FilesKey(id)
      /\ \A f \in Repository : Work(FileMirrors(f)) \in DOMAIN r
                                 /\ r[Work(FileMirrors(f))] = FileMirrors(f)
      /\ \A id \in DOMAIN m : Work(MirrorKey(id)) \in DOMAIN r
                                /\ r[Work(MirrorKey(id))] = MirrorKey(id)
      /\ Work(Mirrors) \in DOMAIN r /\ r[Work(Mirrors)] = Mirrors
      /\ \A t \in Period : Of(m, Counted[t]) # {} =>
            Work(Stats(t)) \in DOMAIN r /\ r[Work(Stats(t))] = Stats(t)
  BY KeysDiffer DEF Renaming, MarkedFiles, MarkedWork, MarkedMirrors, MarkedStats
<1>2. ASSUME NEW s \in DOMAIN r
      PROVE  \/ \E id \in DOMAIN m : s = FilesKey(m[id])
             \/ \E f \in Repository : s = Work(FileMirrors(f))
             \/ \E id \in DOMAIN m : s = Work(MirrorKey(id))
             \/ s = Work(Mirrors)
             \/ \E t \in Period : s = Work(Stats(t)) /\ Of(m, Counted[t]) # {}
  BY <1>2 DEF Renaming, MarkedFiles, MarkedWork, MarkedMirrors, MarkedStats
<1>3. \A id \in DOMAIN m : m[id] \in Name
  BY DEF Whole, IsIndex
<1>4. ASSUME NEW s \in DOMAIN r, s \in DOMAIN db
      PROVE  r[s] \in Keys1(m) /\ (r[s] \notin lost => db[s] = Value1(m, r[s]))
  <2>1. CASE \E id \in DOMAIN m : s = FilesKey(m[id])
    <3>1. PICK id \in DOMAIN m : s = FilesKey(m[id])
      BY <2>1
    <3>2. FilesOf[m[id]] # {} /\ db[s] = FilesOf[m[id]]
      BY <1>3, <1>4, <3>1, OldValues
    <3> QED BY <1>1, <3>1, <3>2, NewKeys
  <2>2. CASE \E f \in Repository : s = Work(FileMirrors(f))
    <3>1. PICK f \in Repository : s = Work(FileMirrors(f))
      BY <2>2
    <3>2. ServedBy(f) # {} /\ (FileMirrors(f) \notin lost => db[s] = Of(m, ServedBy(f)))
      BY <1>4, <3>1 DEF HasFiles
    <3>3. f \in File
      BY DBUpgradeAssumption
    <3> QED BY <1>1, <3>1, <3>2, <3>3, NewKeys
  <2>3. CASE \E id \in DOMAIN m : s = Work(MirrorKey(id))
    <3>1. PICK id \in DOMAIN m : s = Work(MirrorKey(id))
      BY <2>3
    <3>2. MirrorKey(id) \notin lost => db[s] = {m[id], id}
      BY <3>1 DEF HasMirrors
    <3>3. r[s] = MirrorKey(id) /\ MirrorKey(id) \in Keys1(m)
      BY <1>1, <3>1, NewKeys
    <3>4. Value1(m, MirrorKey(id)) = {m[id], id}
      BY NewKeys
    <3> QED BY <3>2, <3>3, <3>4
  <2>4. CASE s = Work(Mirrors)
    BY <1>1, <2>4, NewKeys DEF HasIndex
  <2>5. CASE \E t \in Period : s = Work(Stats(t)) /\ Of(m, Counted[t]) # {}
    <3>1. PICK t \in Period : s = Work(Stats(t)) /\ Of(m, Counted[t]) # {}
      BY <2>5
    <3>2. Stats(t) \notin lost => db[s] = [id \in Of(m, Counted[t]) |-> m[id]]
      BY <3>1 DEF HasStats
    <3>3. Counted[t] # {}
      BY <3>1 DEF Of
    <3>4. r[s] = Stats(t) /\ Stats(t) \in Keys1(m)
      BY <1>1, <3>1, <3>3, NewKeys
    <3>5. Value1(m, Stats(t)) = [id \in Of(m, Counted[t]) |-> m[id]]
      BY <3>1, NewKeys
    <3> QED BY <3>2, <3>4, <3>5
  <2> QED BY <1>2, <1>4, <2>1, <2>2, <2>3, <2>4, <2>5
<1> DEFINE Reached(k) == \/ \E s \in DOMAIN r \cap DOMAIN db : r[s] = k
                         \/ k \in DOMAIN db \ DOMAIN r /\ (k \notin lost => db[k] = Value1(m, k))
<1>5. ASSUME NEW k \in Keys1(m) PROVE Reached(k)
  <2>1. CASE k = Mirrors
    BY <1>1, <2>1 DEF HasIndex
  <2>2. ASSUME NEW t \in Period, k = Stats(t), Counted[t] # {} PROVE Reached(k)
    <3>1. k \in DOMAIN db /\ db[k] = [x \in Counted[t] |-> x] /\ k \notin DOMAIN r
      <4>1. k \notin DOMAIN r
        BY <1>2, <2>2, KeysDiffer
      <4> QED BY <2>2, <4>1, OldValues
    <3>2. CASE Of(m, Counted[t]) = {}
      <4>1. Value1(m, k) = [x \in Counted[t] |-> x]
        BY <2>2, <3>2, NewKeys, OldKeys
      <4> QED BY <3>1, <4>1
    <3>3. CASE Of(m, Counted[t]) # {} /\ k \notin lost
      <4>1. Work(Stats(t)) \in DOMAIN db
        BY <2>2, <3>3 DEF HasStats
      <4> QED BY <1>1, <2>2, <3>3, <4>1
    <3>4. CASE k \in lost
      BY <3>1, <3>4
    <3> QED BY <3>2, <3>3, <3>4
  <2>3. ASSUME NEW id \in DOMAIN m, k = MirrorKey(id) PROVE Reached(k)
    BY <1>1, <2>3 DEF HasMirrors
  <2>4. ASSUME NEW id \in DOMAIN m, k = FilesKey(id), FilesOf[m[id]] # {} PROVE Reached(k)
    <3>1. FilesKey(m[id]) \in DOMAIN db
      BY <1>3, <2>4, OldValues
    <3> QED BY <1>1, <2>4, <3>1
  <2>5. ASSUME NEW f \in File, k = FileMirrors(f), ServedBy(f) # {} PROVE Reached(k)
    <3>1. k \in DOMAIN db /\ db[k] = ServedBy(f) /\ k \notin DOMAIN r
      <4>1. k \notin DOMAIN r
        BY <1>2, <2>5, KeysDiffer
      <4> QED BY <2>5, <4>1, OldValues
    <3>2. CASE f \notin Repository
      <4>1. Value1(m, k) = ServedBy(f)
        BY <2>5, <3>2, NewKeys, OldKeys
      <4> QED BY <3>1, <4>1
    <3>3. CASE f \in Repository /\ k \notin lost
      <4>1. Work(FileMirrors(f)) \in DOMAIN db
        BY <2>5, <3>3 DEF HasFiles
      <4> QED BY <1>1, <2>5, <3>3, <4>1
    <3>4. CASE k \in lost
      BY <3>1, <3>4
    <3> QED BY <3>2, <3>3, <3>4
  <2>6. \/ k = Mirrors
        \/ \E id \in DOMAIN m : k = MirrorKey(id)
        \/ \E id \in DOMAIN m : k = FilesKey(id) /\ FilesOf[m[id]] # {}
        \/ \E f \in File : k = FileMirrors(f) /\ ServedBy(f) # {}
        \/ \E t \in Period : k = Stats(t) /\ Counted[t] # {}
    BY DEF Keys1
  <2> QED BY <2>1, <2>2, <2>3, <2>4, <2>5, <2>6
<1> QED BY <1>4, <1>5

LEMMA ExecConverts ==
    ASSUME UpgradeShape, Mirrors \notin lost, NEW n \in Node, StageInv(n), Exec(n)
    PROVE  UpgradeConverts' /\ Mirrors \in DOMAIN db'
<1> DEFINE m == mids[n]
           r == actions[n].rename
           moved == DOMAIN r \cap DOMAIN db
           deleted == actions[n].delete \ Range(r)
           source(k) == CHOOSE s \in moved : r[s] = k
           targets == {r[s] : s \in moved}
           K == ((DOMAIN db \ moved) \cup targets) \ deleted
<1>1. /\ pc[n] = "exec"
      /\ db' = [k \in K |-> IF k \in targets THEN db[source(k)] ELSE db[k]]
      /\ lost' = lost
  BY DEF Exec
<1>2. /\ Old /\ Whole(m) /\ HasIndex(db, m) /\ HasFiles(db, m, lost) /\ HasMirrors(db, m, lost)
      /\ HasStats(db, m, lost)
      /\ Renaming(r, m, MarkedMirrors(m) \cup MarkedStats(m))
      /\ actions[n].delete = {MirrorKey(m[id]) : id \in DOMAIN m}
  BY <1>1 DEF StageInv
<1>3. /\ \A s \in moved : r[s] \in Keys1(m) /\ (r[s] \notin lost => db[s] = Value1(m, r[s]))
      /\ \A k \in Keys1(m) :
            \/ \E s \in moved : r[s] = k
            \/ k \in DOMAIN db \ DOMAIN r /\ (k \notin lost => db[k] = Value1(m, k))
  <2> HIDE DEF m, r
  <2> QED BY <1>2, Sources
<1>4. /\ targets \subseteq Keys1(m)
      /\ \A k \in Keys1(m) \ targets :
            k \in DOMAIN db \ moved /\ (k \notin lost => db[k] = Value1(m, k))
  BY <1>3
<1>5. \A k \in targets : k \notin lost => db[source(k)] = Value1(m, k)
  BY <1>3
<1> HIDE DEF source
<1>6. /\ DOMAIN db' = K
      /\ \A k \in K : k \in Keys1(m) \ lost => db'[k] = Value1(m, k)
  BY <1>1, <1>4, <1>5
<1>7. /\ DOMAIN m \subseteq 1..MaxId /\ \A id \in DOMAIN m : m[id] \in Name
      /\ \A x \in Name : \E id \in DOMAIN m : m[id] = x
      /\ \A x \in Name : x \notin DOMAIN m
  <2>1. DOMAIN m \subseteq 1..MaxId
    <3>1. lastMID \in Nat /\ MaxId \in Nat /\ lastMID <= MaxId
      BY DBUpgradeAssumption DEF UpgradeShape
    <3>2. DOMAIN m \subseteq 1..lastMID
      BY <1>2 DEF Whole, IsIndex
    <3> QED BY <3>1, <3>2
  <2> QED BY <1>2, <2>1, DBUpgradeAssumption DEF Whole, IsIndex
<1>8. deleted = {MirrorKey(x) : x \in Name}
  <2>1. actions[n].delete = {MirrorKey(x) : x \in Name}
    BY <1>2, <1>7
  <2>2. ASSUME NEW x \in Name, NEW s \in DOMAIN r, r[s] = MirrorKey(x) PROVE FALSE
    <3>1. CASE s \in MarkedFiles(m)
      BY <1>2, <2>2, <3>1, KeysDiffer DEF Renaming, MarkedFiles
    <3>2. CASE s \in MarkedWork
      BY <1>2, <2>2, <3>2, KeysDiffer DEF Renaming, MarkedWork
    <3>3. CASE s \in MarkedMirrors(m)
      BY <1>2, <1>7, <2>2, <3>3, KeysDiffer DEF Renaming, MarkedMirrors
    <3>4. CASE s \in MarkedStats(m)
      <4>1. PICK t : s = Work(Stats(t))
        BY <3>4 DEF MarkedStats
      <4>2. r[s] = Stats(t)
        BY <1>2, <3>4, <4>1, KeysDiffer DEF Renaming
      <4> QED BY <2>2, <4>2, KeysDiffer
    <3> QED BY <1>2, <3>1, <3>2, <3>3, <3>4 DEF Renaming
  <2> QED BY <2>1, <2>2 DEF Range
<1>9. \A k \in Keys1(m) : k \notin deleted
  <2>1. ASSUME NEW x \in Name, MirrorKey(x) \in Keys1(m) PROVE FALSE
    BY <1>7, <2>1, NewKeys
  <2> QED BY <1>8, <2>1
<1>10. ASSUME NEW k \in DOMAIN db, k \notin moved, ~IsWork(k) PROVE k \in Keys1(m) \cup deleted
  <2>1. k \in Keys0
    BY <1>2, <1>10, OldDb
  <2>2. CASE k = Mirrors \/ \E t \in Period : k = Stats(t) /\ Counted[t] # {}
    BY <2>2, NewKeys
  <2>3. ASSUME NEW x \in Name, k = MirrorKey(x) PROVE k \in deleted
    BY <1>8, <2>3
  <2>4. ASSUME NEW x \in Name, k = FilesKey(x) PROVE FALSE
    <3>1. PICK id \in DOMAIN m : m[id] = x
      BY <1>7
    <3>2. k \in DOMAIN r
      BY <1>2, <2>4, <3>1 DEF Renaming, MarkedFiles
    <3> QED BY <1>10, <3>2
  <2>5. ASSUME NEW f \in File, k = FileMirrors(f), ServedBy(f) # {} PROVE k \in Keys1(m)
    BY <2>5, NewKeys
  <2> QED BY <2>1, <2>2, <2>3, <2>4, <2>5 DEF Keys0
<1>11. {k \in DOMAIN db' : ~IsWork(k)} = Keys1(m)
  <2> HIDE DEF moved, deleted, targets
  <2>1. \A k \in Keys1(m) : ~IsWork(k)
    BY NewKeys
  <2> QED BY <1>4, <1>6, <1>9, <1>10, <2>1
<1>12. DOMAIN Data' = Keys1(m) /\ \A k \in Keys1(m) \ lost' : Data'[k] = Value1(m, k)
  <2>1. Data' = [k \in Keys1(m) |-> db'[k]]
    BY <1>11 DEF Data, Restrict
  <2>2. \A k \in Keys1(m) \ lost' : db'[k] = Value1(m, k)
    BY <1>1, <1>6, <1>11
  <2> QED BY <2>1, <2>2
<1>13. Mirrors \in DOMAIN db' /\ db'[Mirrors].content = m
  BY <1>6, <1>11, NewKeys
<1>14. m \in [DOMAIN m -> Name] /\ m \in Bijection(DOMAIN m, Name)
  <2>1. m \in [DOMAIN m -> Name]
    BY <1>2 DEF Whole, IsIndex
  <2> QED BY <1>2, <2>1 DEF Whole, IsIndex, Bijection, Injection, IsInjective, Surjection
<1> QED BY <1>12, <1>13, <1>14 DEF UpgradeConverts

LEMMA UpgradeStep == UpgradeInv /\ [UpgradeNext]_upgradeVars => UpgradeInv'
<1> SUFFICES ASSUME UpgradeInv, [UpgradeNext]_upgradeVars PROVE UpgradeInv'
  OBVIOUS
<1>1. CASE UNCHANGED upgradeVars
  <2>1. Data' = Data
    BY <1>1 DEF upgradeVars, Data, Restrict
  <2>2. /\ UNCHANGED <<db, version, lastMID, lock, pc, stalls, lost>>
        /\ UNCHANGED <<held, mids, todo, actions>>
    BY <1>1 DEF upgradeVars, local
  <2>3. UpgradeShape' /\ OldDataIntact' /\ Mirrors \notin lost'
    BY <2>1, <2>2 DEF UpgradeInv, UpgradeShape, OldDataIntact
  <2>4. ASSUME stalls = 0 PROVE LockInv' /\ MirrorsInv'
    BY <2>2, <2>4 DEF UpgradeInv, LockInv, MirrorsInv
  <2>5. ASSUME stalls = 0 PROVE UpgradeConverts'
    BY <2>1, <2>2, <2>5 DEF UpgradeInv, UpgradeConverts
  <2>6. ASSUME stalls = 0, NEW n \in Node PROVE StageInv(n)'
    <3>1. StageInv(n)
      BY <2>6 DEF UpgradeInv
    <3> QED BY <2>2, <3>1 DEF StageInv, Old, Plain, Restrict, IsIndex, Whole
  <2> QED BY <2>2, <2>3, <2>4, <2>5, <2>6 DEF UpgradeInv
<1>2. CASE UpgradeNext
  <2>1. UpgradeShape'
    <3>1. CASE Expire
      BY <3>1, DBUpgradeAssumption DEF Expire, UpgradeInv, UpgradeShape, local
    <3>2. ASSUME NEW n \in Node, Action(n) PROVE UpgradeShape'
      BY <3>2, OwnStep DEF UpgradeInv
    <3> QED BY <1>2, <3>1, <3>2, UpgradeCases
  <2>2. OldDataIntact'
    <3>1. CASE \E n \in Node : Exec(n)
      BY <3>1 DEF Exec, OldDataIntact
    <3>2. CASE \A n \in Node : ~Exec(n)
      <4>1. Data' = Data /\ (version = 1 => version' = 1)
        BY <3>2, DataKept, VersionKept DEF UpgradeInv, UpgradeShape
      <4> QED BY <2>1, <4>1 DEF UpgradeInv, UpgradeShape, OldDataIntact
    <3> QED BY <3>1, <3>2
  <2>3. ASSUME stalls' = 0
        PROVE  /\ LockInv' /\ MirrorsInv' /\ UpgradeConverts'
               /\ \A n \in Node : StageInv(n)'
    <3>1. stalls = 0
      <4>1. CASE Expire
        BY <2>3, <4>1 DEF Expire, UpgradeInv, UpgradeShape
      <4>2. ASSUME NEW n \in Node, Action(n) PROVE stalls = 0
        BY <2>3, <4>2, OwnStep DEF UpgradeInv
      <4> QED BY <1>2, <4>1, <4>2, UpgradeCases
    <3>2. UpgradeShape /\ OldDataIntact /\ LockInv /\ MirrorsInv /\ UpgradeConverts
          /\ Mirrors \notin lost /\ \A n \in Node : StageInv(n)
      BY <3>1 DEF UpgradeInv
    <3>3. LockInv'
      BY <1>2, <2>3, <3>1, <3>2, LockStep
    <3>4. MirrorsInv' /\ UpgradeConverts'
      <4>1. CASE \A n \in Node : ~Exec(n)
        BY <3>1, <3>2, <4>1, DataKept, MirrorsStep, ConvertsStep
      <4>2. ASSUME NEW n \in Node, Exec(n) PROVE MirrorsInv' /\ UpgradeConverts'
        BY <3>2, <4>2, ExecConverts DEF MirrorsInv
      <4> QED BY <4>1, <4>2
    <3>5. ASSUME NEW q \in Node PROVE StageInv(q)'
      <4>1. CASE Expire
        <5>1. lock = Orphan /\ pc' = pc
          BY <2>3, <3>1, <4>1 DEF Expire, UpgradeInv, UpgradeShape
        <5>2. pc'[q] \notin Stages
          BY <3>2, <5>1, DBUpgradeAssumption DEF LockInv, Locked, Stages
        <5> QED BY <5>2 DEF StageInv, Stages
      <4>2. ASSUME NEW n \in Node, Action(n), n # q PROVE StageInv(q)'
        BY <3>2, <4>2, OtherStage
      <4>3. CASE Action(q)
        <5>1. CASE pc'[q] \notin Stages
          BY <5>1 DEF StageInv, Stages
        <5>2. CASE pc'[q] \in Stages
          <6>1. CASE Erase(q) \/ ReadMirrors(q) \/ AssignId(q) \/ RenameKeys(q)
                       \/ FixMirrorID(q) \/ RenameStats(q)
            BY <3>1, <3>2, <6>1, EraseStage, ReadMirrorsStage, AssignIdStage, RenameKeysStage,
               FixMirrorIDStage, RenameStatsStage
          <6>2. CASE Keepalive(q)
            BY <3>2, <5>2, <6>2 DEF Keepalive, LockInv, Locked, Stages
          <6>3. CASE UpgradeNeeded(q) \/ Upgrade(q) \/ AcquireLock(q) \/ Exec(q) \/ CommandFails(q)
            BY <3>2, <5>2, <6>3 DEF UpgradeNeeded, Upgrade, GetDBFormatVersion, AcquireLock, Exec,
               CommandFails, Fail, Proceed, UpgradeShape, Stages
          <6>4. CASE Release(q) \/ DeleteKey(q) \/ Crash(q) \/ Restart(q)
            BY <3>2, <5>2, <6>4 DEF Release, DeleteKey, Finish, Crash, Restart, Fresh, Proceed,
               UpgradeShape, Stages
          <6> QED BY <4>3, <6>1, <6>2, <6>3, <6>4 DEF Action
        <5> QED BY <5>1, <5>2
      <4> QED BY <1>2, <4>1, <4>2, <4>3, UpgradeCases
    <3> QED BY <3>3, <3>4, <3>5
  <2>4. Mirrors \notin lost'
    BY LostKept DEF UpgradeInv
  <2> QED BY <2>1, <2>2, <2>3, <2>4 DEF UpgradeInv
<1> QED BY <1>1, <1>2

LEMMA UpgradeStart == UpgradeInit => UpgradeInv
<1> SUFFICES ASSUME UpgradeInit PROVE UpgradeInv
  OBVIOUS
<1>1. \A n \in Node : pc[n] = "check"
  BY DEF UpgradeInit
<1>2. UpgradeShape
  <2>1. actions = [n \in Node |-> NoActions]
    BY DEF UpgradeInit
  <2>2. \A n \in Node : actions[n] = [rename |-> actions[n].rename, delete |-> actions[n].delete]
    BY <2>1 DEF NoActions
  <2> QED BY <2>1, <2>2, DBUpgradeAssumption DEF UpgradeInit, UpgradeShape, Labels
<1>3. LockInv /\ MirrorsInv
  BY <1>1 DEF LockInv, MirrorsInv, Locked
<1>4. \A n \in Node : StageInv(n)
  BY <1>1, NoStage DEF Stages
<1>5. UpgradeConverts
  BY DEF UpgradeInit, UpgradeConverts
<1>6. OldDataIntact /\ Mirrors \notin lost
  BY OldAtStart DEF UpgradeInit
<1> QED BY <1>2, <1>3, <1>4, <1>5, <1>6 DEF UpgradeInv

\* The inductive invariant holds in every reachable state.
THEOREM UpgradeInvariant == UpgradeSpec => []UpgradeInv
BY UpgradeStart, UpgradeStep, PTL DEF UpgradeSpec

\* Once the version is set the whole database is converted, whatever failed, died
\* or was started again on the way, for any number of processes, mirrors, files and
\* statistics (v1/version1.go, Upgrade), except the keys whose unread writes were
\* lost, unless a holder of the lock stalled.
THEOREM UpgradeConvertsAll == UpgradeSpec => []UpgradeConverts
<1>1. UpgradeInv => UpgradeConverts
  BY DEF UpgradeInv, UpgradeConverts
<1> QED BY <1>1, UpgradeInvariant, PTL

=============================================================================
