------------------------------ MODULE Monitor ------------------------------
(***************************************************************************)
(* The monitor of one node (daemon/monitor.go): the start of MonitorLoop   *)
(* with its retries, the loop itself, the health check goroutines fed by   *)
(* healthCheckChan, the sync goroutines fed by the unbuffered syncChan,    *)
(* and the end of all of them when the monitor is stopped.                 *)
(*                                                                         *)
(* The map m.mirrors is a family of sets of mirrors: the keys (listed),    *)
(* and the mirrors for which a field is true.  A time is reduced to the    *)
(* question the code asks of it, whether the interval has elapsed.  A scan *)
(* is one step here (MirrorScan has its commands), and an event that       *)
(* reaches the monitor is a member of the set events (Cache has its way).  *)
(* The tickers of the repository scan and of the configuration change none *)
(* of this state, they only delay the loop.                                *)
(***************************************************************************)
EXTENDS Naturals, Sequences

CONSTANTS
    Mirror, NoMirror,
    Checker,      \* the goroutines of healthCheckLoop (10)
    Syncer,       \* the goroutines of syncLoop (ConcurrentSync)
    CheckCap,     \* capacity of healthCheckChan (50)
    ChangeBudget  \* how often something outside of the monitor changes

ASSUME MonitorAssumption ==
    /\ NoMirror \notin Mirror
    /\ CheckCap \in Nat /\ ChangeBudget \in Nat

VARIABLES
    stop,      \* m.stop is closed
    phase,     \* where MonitorLoop is
    listed,    \* the keys of m.mirrors
    enabled, up,  \* fields of the mirrors, as last read from Redis
    checked,   \* mirrors for which NeedHealthCheck is false
    checking, scanning,
    healthCheckChan,
    check, checkId,           \* the health check goroutines
    sync, syncId, syncUp, \* the sync goroutines, and Up of the mirror being scanned
    record,    \* MIRROR_<id> in Redis; "partial" has no ID field
    dbEnabled, dbUp, \* its fields
    indexed,   \* mirrors whose HANDLEDFILES is not empty
    failure,   \* redis.Failure(): a connection has failed, and none since succeeded
    events,    \* invalidationEvent
    handled,   \* the mirrors for which cluster.IsHandled is true
    changes,
    unscanned, \* history: the last check ended with errMirrorNotScanned
    revived    \* history: mirrors written again by UpdateMirror after their removal

mapVars == <<listed, enabled, up, checked, checking, scanning>>
checkVars == <<check, checkId>>
syncVars == <<sync, syncId, syncUp>>
dbVars == <<record, dbEnabled, dbUp, indexed, failure>>
vars == <<stop, phase, mapVars, healthCheckChan, checkVars, syncVars, dbVars,
          events, handled, changes, unscanned, revived>>

TypeOK ==
    /\ stop \in BOOLEAN
    /\ phase \in {"waiting", "repository", "repositoryFailed", "listing",
                  "listingFailed", "running", "parked", "returned"}
    /\ listed \subseteq Mirror
    /\ enabled \subseteq Mirror /\ up \subseteq Mirror
    /\ checked \subseteq listed
    /\ checking \subseteq listed /\ scanning \subseteq listed
    /\ healthCheckChan \in Seq(Mirror)
    /\ check \in [Checker -> {"none", "select", "picking", "requesting",
                              "loading", "ending", "returned"}]
    /\ checkId \in [Checker -> Mirror \cup {NoMirror}]
    /\ sync \in [Syncer -> {"none", "select", "starting", "scanning",
                            "queueing", "ending", "returned"}]
    /\ syncId \in [Syncer -> Mirror \cup {NoMirror}]
    /\ syncUp \in [Syncer -> BOOLEAN]
    /\ record \in [Mirror -> {"unused", "full", "absent", "partial"}]
    /\ dbEnabled \subseteq Mirror /\ dbUp \subseteq Mirror
    /\ indexed \subseteq Mirror /\ failure \in BOOLEAN
    /\ events \subseteq Mirror /\ handled \subseteq Mirror
    /\ changes \in 0..ChangeBudget
    /\ unscanned \subseteq Mirror /\ revived \subseteq Mirror

Init ==
    /\ stop = FALSE
    /\ phase = "waiting"
    /\ listed = {} /\ enabled = {} /\ up = {}
    /\ checked = {} /\ checking = {} /\ scanning = {}
    /\ healthCheckChan = <<>>
    /\ check = [c \in Checker |-> "none"]
    /\ checkId = [c \in Checker |-> NoMirror]
    /\ sync = [s \in Syncer |-> "none"]
    /\ syncId = [s \in Syncer |-> NoMirror]
    /\ syncUp = [s \in Syncer |-> FALSE]
    /\ record \in [Mirror -> {"unused", "full"}]
    /\ dbEnabled \in SUBSET {id \in Mirror : record[id] = "full"}
    /\ dbUp = {} /\ indexed = {} /\ failure = FALSE
    /\ events = {}
    /\ handled = Mirror
    /\ changes = 0
    /\ unscanned = {} /\ revived = {}

-----------------------------------------------------------------------------
(* The start of MonitorLoop                                                *)

\* Something fails, or is changed by somebody else.
Change == changes < ChangeBudget /\ changes' = changes + 1

Goto(from, to) == phase = from /\ phase' = to

Known == {id \in Mirror : record[id] = "full"}

\* Redis is ready and the list of files of the repository exists: until then
\* the loop sleeps, whether or not it is stopped.
Ready ==
    /\ Goto("waiting", "repository")
    /\ UNCHANGED <<stop, mapVars, healthCheckChan, checkVars, syncVars, dbVars,
                   events, handled, changes, unscanned, revived>>

\* The first scan of the repository.
ScanRepository ==
    /\ Goto("repository", "listing") \/ Goto("repository", "repositoryFailed")
    /\ UNCHANGED <<stop, mapVars, healthCheckChan, checkVars, syncVars, dbVars,
                   events, handled, changes, unscanned, revived>>

\* retry, case <-timer.C: the only tick of the timer has been received, so that
\* Stop returns false and the second receive never returns.
RetryTimer ==
    /\ Goto("repositoryFailed", "parked") \/ Goto("listingFailed", "parked")
    /\ UNCHANGED <<stop, mapVars, healthCheckChan, checkVars, syncVars, dbVars,
                   events, handled, changes, unscanned, revived>>

\* retry, case <-m.stop: the caller goes on with its next stage, or returns.
RetryStopped ==
    /\ stop
    /\ Goto("repositoryFailed", "listing") \/ Goto("listingFailed", "returned")
    /\ UNCHANGED <<stop, mapVars, healthCheckChan, checkVars, syncVars, dbVars,
                   events, handled, changes, unscanned, revived>>

ListFails ==
    /\ Goto("listing", "listingFailed")
    /\ UNCHANGED <<stop, mapVars, healthCheckChan, checkVars, syncVars, dbVars,
                   events, handled, changes, unscanned, revived>>

\* mirrorsID and syncUpList of all mirrors, where a mirror that cannot be
\* fetched is skipped, then the goroutines are started unless the monitor has been
\* stopped.
ListMirrors ==
    /\ listed' \in SUBSET Known
    /\ enabled' = dbEnabled \cap listed'
    /\ up' = dbUp \cap listed'
    /\ \/ /\ stop
          /\ Goto("listing", "returned")
          /\ UNCHANGED <<check, sync>>
       \/ /\ ~stop
          /\ Goto("listing", "running")
          /\ check' = [c \in Checker |-> "select"]
          /\ sync' = [s \in Syncer |-> "select"]
    /\ UNCHANGED <<stop, checked, checking, scanning, healthCheckChan, checkId,
                   syncId, syncUp, dbVars, events, handled, changes, unscanned,
                   revived>>

-----------------------------------------------------------------------------
(* The loop of MonitorLoop                                                 *)

\* A mirror is in the map: its Mirror field is replaced, its flags are kept.
UpdateMirror(id) ==
    /\ listed' = listed \cup {id}
    /\ enabled' = (enabled \ {id}) \cup (dbEnabled \cap {id})
    /\ up' = (up \ {id}) \cup (dbUp \cap {id})
    /\ UNCHANGED <<checked, checking, scanning, unscanned>>

DeleteMirror(id) ==
    /\ listed' = listed \ {id}
    /\ enabled' = enabled \ {id} /\ up' = up \ {id}
    /\ checked' = checked \ {id}
    /\ checking' = checking \ {id} /\ scanning' = scanning \ {id}
    /\ unscanned' = unscanned \ {id}

\* case v := <-mirrorUpdateEvent, syncUpList(id).  A record without ID field
\* is taken for that of mirror 0, which MIRRORS does not know: the entry of id is
\* left as it is.  So it is when the mirror cannot be fetched.
MirrorUpdated(id) ==
    /\ phase = "running"
    /\ id \in events
    /\ events' = events \ {id}
    /\ \/ record[id] = "full" /\ UpdateMirror(id) /\ UNCHANGED changes
       \/ record[id] = "absent" /\ DeleteMirror(id) /\ UNCHANGED changes
       \/ record[id] = "partial" /\ UNCHANGED <<mapVars, unscanned, changes>>
       \/ Change /\ UNCHANGED <<mapVars, unscanned>>
    /\ UNCHANGED <<stop, phase, healthCheckChan, checkVars, syncVars, dbVars,
                   handled, revived>>

NeedsCheck(id) == id \notin checked /\ id \notin checking /\ id \in handled

NeedsSync(id) == id \notin scanning /\ id \in handled

\* The non-blocking send on healthCheckChan.
QueueCheck(id) ==
    IF NeedsCheck(id) /\ Len(healthCheckChan) < CheckCap
    THEN /\ healthCheckChan' = Append(healthCheckChan, id)
         /\ checking' = checking \cup {id}
    ELSE UNCHANGED <<healthCheckChan, checking>>

\* The non-blocking send on syncChan, which has no buffer: a sync goroutine must
\* be waiting.  Whether ScanInterval has elapsed is left open.
QueueSync(id) ==
    \/ /\ NeedsSync(id)
       /\ \E s \in Syncer :
             /\ sync[s] = "select"
             /\ sync' = [sync EXCEPT ![s] = "starting"]
             /\ syncId' = [syncId EXCEPT ![s] = id]
       /\ scanning' = scanning \cup {id}
    \/ UNCHANGED <<sync, syncId, scanning>>

\* case <-mirrorCheckTicker.C, for one mirror; nothing is done while Redis fails.
\* The loop over the map holds mapLock, which excludes nothing that could disturb
\* the visit of one mirror.
Visit(id) ==
    /\ phase = "running"
    /\ ~failure
    /\ id \in listed \cap enabled
    /\ QueueCheck(id)
    /\ QueueSync(id)
    /\ UNCHANGED <<stop, phase, listed, enabled, up, checked, checkVars,
                   syncUp, dbVars, events, handled, changes, unscanned, revived>>

LoopReturn ==
    /\ stop
    /\ Goto("running", "returned")
    /\ UNCHANGED <<stop, mapVars, healthCheckChan, checkVars, syncVars, dbVars,
                   events, handled, changes, unscanned, revived>>

\* Stop: cluster.Stop() and close(m.stop)
Stop ==
    /\ ~stop
    /\ stop' = TRUE
    /\ UNCHANGED <<phase, mapVars, healthCheckChan, checkVars, syncVars, dbVars,
                   events, handled, changes, unscanned, revived>>

-----------------------------------------------------------------------------
(* healthCheckLoop                                                         *)

\* HSET or HMSET of MIRROR_<id>, which creates the key of a removed mirror, and
\* the event that follows, which may be lost.
WriteRecord(id) ==
    /\ record' = [record EXCEPT ![id] = IF @ = "absent" THEN "partial" ELSE @]
    /\ events' \in {events, events \cup {id}}

CheckGoto(c, state, id) ==
    /\ check' = [check EXCEPT ![c] = state]
    /\ checkId' = [checkId EXCEPT ![c] = id]

\* case id := <-m.healthCheckChan
CheckTake(c) ==
    /\ check[c] = "select"
    /\ healthCheckChan # <<>>
    /\ healthCheckChan' = Tail(healthCheckChan)
    /\ IF stop THEN CheckGoto(c, "returned", NoMirror)
       ELSE IF Head(healthCheckChan) \notin listed THEN UNCHANGED checkVars
       ELSE CheckGoto(c, "picking", Head(healthCheckChan))
    /\ UNCHANGED <<stop, phase, mapVars, syncVars, dbVars, events, handled,
                   changes, unscanned, revived>>

\* Mutant: any error continues, as errMirrorNotScanned does.
PickFailsContinue(c) == CheckGoto(c, "select", NoMirror)
PickFails(c) ==
    CheckGoto(c, "loading", checkId[c]) \/ CheckGoto(c, "ending", checkId[c])

\* getRandomFile finds a file.  If HANDLEDFILES is empty, or the file has left the
\* repository, it ends with ErrNil, and the flag of the mirror stays up; any other
\* error takes it down ("loading" when it is RedisIsLoading).
CheckPick(c) ==
    /\ check[c] = "picking"
    /\ \/ /\ checkId[c] \in indexed
          /\ CheckGoto(c, IF stop THEN "ending" ELSE "requesting", checkId[c])
          /\ UNCHANGED <<changes, unscanned>>
       \/ /\ (checkId[c] \notin indexed /\ UNCHANGED changes) \/ Change
          /\ CheckGoto(c, "select", NoMirror)
          /\ unscanned' = unscanned \cup ({checkId[c]} \cap listed)
       \/ /\ Change
          /\ PickFails(c)
          /\ UNCHANGED unscanned
    /\ UNCHANGED <<stop, phase, mapVars, healthCheckChan, syncVars, dbVars,
                   events, handled, revived>>

\* The mirror answers, or the connection fails: it is marked up or down, and
\* disabled if a file is missing and the configuration says so.
CheckReply(c) ==
    /\ check[c] = "requesting"
    /\ LET id == checkId[c]
       IN /\ WriteRecord(id)
          /\ \/ dbUp' = dbUp \cup {id} /\ UNCHANGED dbEnabled
             \/ dbUp' = dbUp \ {id} /\ dbEnabled' \in {dbEnabled, dbEnabled \ {id}}
          /\ CheckGoto(c, "ending", id)
    /\ UNCHANGED <<stop, phase, mapVars, healthCheckChan, syncVars, indexed,
                   failure, handled, changes, unscanned, revived>>

\* Mutant: the flag is taken down only together with lastCheck.
ClearFlagUnlessLoading(c) ==
    checking' = IF check[c] = "loading" THEN checking ELSE checking \ {checkId[c]}
ClearFlag(c) == checking' = checking \ {checkId[c]}

\* The end of a health check: the flag of the mirror is taken down.
CheckEnd(c) ==
    /\ check[c] \in {"loading", "ending"}
    /\ checked' = IF check[c] = "ending" THEN checked \cup ({checkId[c]} \cap listed)
                  ELSE checked
    /\ ClearFlag(c)
    /\ unscanned' = unscanned \ {checkId[c]}
    /\ CheckGoto(c, "select", NoMirror)
    /\ UNCHANGED <<stop, phase, listed, enabled, up, scanning,
                   healthCheckChan, syncVars, dbVars, events, handled, changes,
                   revived>>

CheckReturn(c) ==
    /\ check[c] = "select"
    /\ stop
    /\ CheckGoto(c, "returned", NoMirror)
    /\ UNCHANGED <<stop, phase, mapVars, healthCheckChan, syncVars, dbVars,
                   events, handled, changes, unscanned, revived>>

-----------------------------------------------------------------------------
(* syncLoop                                                                *)

SyncGoto(s, state) == sync' = [sync EXCEPT ![s] = state]

\* Mutant: continue instead of goto end.
AbandonAtOnce(s) ==
    /\ SyncGoto(s, "select")
    /\ syncId' = [syncId EXCEPT ![s] = NoMirror]
Abandon(s) == SyncGoto(s, "ending") /\ UNCHANGED syncId

\* The mirror is copied.  Nothing is scanned if the copy is disabled, if another node
\* scans the mirror (IsScanning, ErrScanInProgress), if Redis fails, or if the
\* mirror is no longer in MIRRORS; otherwise scan.Scan has the lock and writes its
\* first setLastSync.
SyncStart(s) ==
    /\ sync[s] = "starting"
    /\ LET id == syncId[s]
       IN \/ /\ id \notin listed
             /\ SyncGoto(s, "select")
             /\ syncId' = [syncId EXCEPT ![s] = NoMirror]
             /\ UNCHANGED <<syncUp, record, events>>
          \/ /\ id \in listed
             /\ Abandon(s)
             /\ UNCHANGED <<syncUp, record, events>>
          \/ /\ id \in listed \cap enabled \cap Known
             /\ SyncGoto(s, "scanning")
             /\ syncUp' = [syncUp EXCEPT ![s] = id \in up]
             /\ WriteRecord(id)
             /\ UNCHANGED syncId
    /\ UNCHANGED <<stop, phase, mapVars, healthCheckChan, checkVars, dbEnabled,
                   dbUp, indexed, failure, handled, changes, unscanned, revived>>

\* scan.Scan returns without an error, as a scan that has been stopped also does:
\* HANDLEDFILES is what the mirror and the repository have in common.  A mirror
\* whose copy is down is checked at once.
SyncScanned(s) ==
    /\ sync[s] = "scanning"
    /\ indexed' \in {indexed \cup {syncId[s]}, indexed \ {syncId[s]}}
    /\ WriteRecord(syncId[s])
    /\ SyncGoto(s, IF syncUp[s] THEN "ending" ELSE "queueing")
    /\ syncUp' = [syncUp EXCEPT ![s] = FALSE]
    /\ UNCHANGED <<stop, phase, mapVars, healthCheckChan, checkVars, syncId,
                   dbEnabled, dbUp, failure, handled, changes, unscanned, revived>>

SyncFailed(s) ==
    /\ sync[s] = "scanning"
    /\ SyncGoto(s, "ending")
    /\ syncUp' = [syncUp EXCEPT ![s] = FALSE]
    /\ UNCHANGED <<stop, phase, mapVars, healthCheckChan, checkVars, syncId,
                   dbVars, events, handled, changes, unscanned, revived>>

\* m.healthCheckChan <- id, which blocks while the channel is full.
SyncQueue(s) ==
    /\ sync[s] = "queueing"
    /\ Len(healthCheckChan) < CheckCap
    /\ healthCheckChan' = Append(healthCheckChan, syncId[s])
    /\ SyncGoto(s, "ending")
    /\ UNCHANGED <<stop, phase, mapVars, checkVars, syncId, syncUp, dbVars,
                   events, handled, changes, unscanned, revived>>

SyncEnd(s) ==
    /\ sync[s] = "ending"
    /\ scanning' = scanning \ {syncId[s]}
    /\ SyncGoto(s, "select")
    /\ syncId' = [syncId EXCEPT ![s] = NoMirror]
    /\ UNCHANGED <<stop, phase, listed, enabled, up, checked, checking,
                   healthCheckChan, checkVars, syncUp, dbVars, events, handled,
                   changes, unscanned, revived>>

\* Mutant: the select has no case for m.stop.
SyncReturnForgotten(s) == FALSE
SyncReturn(s) ==
    /\ sync[s] = "select"
    /\ stop
    /\ SyncGoto(s, "returned")
    /\ UNCHANGED <<stop, phase, mapVars, healthCheckChan, checkVars, syncId,
                   syncUp, dbVars, events, handled, changes, unscanned, revived>>

-----------------------------------------------------------------------------
(* Outside of the monitor                                                  *)

\* CheckInterval has elapsed since lastCheck.
Elapse(id) ==
    /\ id \in checked
    /\ checked' = checked \ {id}
    /\ UNCHANGED <<stop, phase, listed, enabled, up, checking, scanning,
                   healthCheckChan, checkVars, syncVars, dbVars, events, handled,
                   changes, unscanned, revived>>

\* AddMirror takes a new identifier from LAST_MID.
AddMirror(id) ==
    /\ record[id] = "unused"
    /\ record' = [record EXCEPT ![id] = "full"]
    /\ UNCHANGED <<dbEnabled, dbUp, indexed, revived>>

\* UpdateMirror writes the whole record, and its entry in MIRRORS, without asking
\* whether the mirror still exists.
EditMirror(id) ==
    /\ record[id] # "unused"
    /\ record' = [record EXCEPT ![id] = "full"]
    /\ dbEnabled' \in {dbEnabled \cup {id}, dbEnabled \ {id}}
    /\ revived' = IF record[id] = "full" THEN revived ELSE revived \cup {id}
    /\ UNCHANGED <<dbUp, indexed>>

\* ChangeStatus, or the health check of another node, writes some fields.
SetMirror(id) ==
    /\ record[id] # "unused"
    /\ record' = [record EXCEPT ![id] = IF @ = "absent" THEN "partial" ELSE @]
    /\ \/ dbEnabled' \in {dbEnabled \cup {id}, dbEnabled \ {id}} /\ UNCHANGED dbUp
       \/ dbUp' \in {dbUp \cup {id}, dbUp \ {id}} /\ UNCHANGED dbEnabled
    /\ UNCHANGED <<indexed, revived>>

RemoveMirror(id) ==
    /\ record[id] = "full"
    /\ record' = [record EXCEPT ![id] = "absent"]
    /\ dbEnabled' = dbEnabled \ {id} /\ dbUp' = dbUp \ {id}
    /\ indexed' = indexed \ {id}
    /\ UNCHANGED revived

\* The RPCs, or another node, change a mirror; the event may be lost.
ChangeMirror(id) ==
    /\ Change
    /\ AddMirror(id) \/ EditMirror(id) \/ SetMirror(id) \/ RemoveMirror(id)
    /\ events' \in {events, events \cup {id}}
    /\ UNCHANGED <<stop, phase, mapVars, healthCheckChan, checkVars, syncVars,
                   failure, handled, unscanned>>

\* The cluster gives the mirror to this node, or to another one.
Rebalance(id) ==
    /\ Change
    /\ handled' = (handled \ {id}) \cup ({id} \ handled)
    /\ UNCHANGED <<stop, phase, mapVars, healthCheckChan, checkVars, syncVars,
                   dbVars, events, unscanned, revived>>

\* A connection to Redis fails.
RedisFails ==
    /\ Change
    /\ ~failure
    /\ failure' = TRUE
    /\ UNCHANGED <<stop, phase, mapVars, healthCheckChan, checkVars, syncVars,
                   record, dbEnabled, dbUp, indexed, events, handled, unscanned, revived>>

\* connRecover, or anybody else, gets a connection again.
RedisBack ==
    /\ failure
    /\ failure' = FALSE
    /\ UNCHANGED <<stop, phase, mapVars, healthCheckChan, checkVars, syncVars,
                   record, dbEnabled, dbUp, indexed, events, handled, changes, unscanned,
                   revived>>

-----------------------------------------------------------------------------

Next ==
    \/ Ready \/ ScanRepository \/ RetryTimer \/ RetryStopped
    \/ ListFails \/ ListMirrors
    \/ LoopReturn \/ Stop
    \/ \E id \in Mirror : MirrorUpdated(id) \/ Visit(id) \/ Elapse(id)
    \/ \E c \in Checker :
          \/ CheckTake(c) \/ CheckPick(c) \/ CheckReply(c) \/ CheckEnd(c)
          \/ CheckReturn(c)
    \/ \E s \in Syncer :
          \/ SyncStart(s) \/ SyncScanned(s) \/ SyncFailed(s) \/ SyncQueue(s)
          \/ SyncEnd(s) \/ SyncReturn(s)
    \/ \E id \in Mirror : ChangeMirror(id) \/ Rebalance(id)
    \/ RedisFails \/ RedisBack

Spec == Init /\ [][Next]_vars

\* The Go scheduler runs every goroutine that can run, and select chooses at
\* random among its ready cases, so that a case that is ready again and again is
\* taken, and a mirror of the map is visited at every tick.  Redis and the list
\* of files are there at some time, Redis comes back (connRecover tries every
\* second), and mirrors answer or refuse the connection: the HTTP clients have no
\* timeout, a silent mirror would hold its goroutine.
Fairness ==
    /\ WF_vars(Ready) /\ WF_vars(ScanRepository)
    /\ WF_vars(RetryTimer \/ RetryStopped) /\ WF_vars(ListFails \/ ListMirrors)
    /\ SF_vars(LoopReturn) /\ WF_vars(RedisBack)
    /\ \A id \in Mirror : SF_vars(Visit(id))
    /\ \A c \in Checker :
          /\ WF_vars(CheckTake(c)) /\ WF_vars(CheckPick(c)) /\ WF_vars(CheckReply(c))
          /\ WF_vars(CheckEnd(c)) /\ WF_vars(CheckReturn(c))
    /\ \A s \in Syncer :
          /\ WF_vars(SyncStart(s)) /\ WF_vars(SyncScanned(s) \/ SyncFailed(s))
          /\ WF_vars(SyncQueue(s)) /\ WF_vars(SyncEnd(s)) /\ WF_vars(SyncReturn(s))

FairSpec == Spec /\ Fairness

-----------------------------------------------------------------------------
(* Properties                                                              *)

BeingChecked(id) ==
    \/ \E i \in DOMAIN healthCheckChan : healthCheckChan[i] = id
    \/ \E c \in Checker : checkId[c] = id

\* The 'checking' lock of a mirror is held only while a check of it is queued or
\* under way, or after a check that found the mirror not scanned, which keeps the
\* lock on purpose (monitor.go:362), or once the monitor is being stopped: no
\* other path of healthCheckLoop leaks it.
CheckingHasCause ==
    \A id \in checking : BeingChecked(id) \/ id \in unscanned \/ stop

\* The scanning flag of a listed mirror is up exactly while a sync goroutine works
\* on it, whichever way syncLoop leaves the scan and whatever happens to the
\* mirror meanwhile, unless UpdateMirror has brought it back after its removal.
ScanningHasWorker ==
    \A id \in listed \ revived :
        id \in scanning <=> \E s \in Syncer : syncId[s] = id

\* Two sync goroutines of a node never work on one mirror, even when the mirror is
\* removed from the map, and its flag with it, while one of them scans; again
\* unless UpdateMirror has brought it back.
OneScanPerMirror ==
    \A s, t \in Syncer :
        syncId[s] \notin {NoMirror} \cup revived /\ syncId[s] = syncId[t] => s = t

\* A mirror that stays listed, enabled and assigned to this node is checked again
\* and again, unless a check has found it not scanned.
CheckedInTurn ==
    \A id \in Mirror :
        <>[](~stop /\ id \in (listed \cap enabled \cap handled) \ unscanned)
            => []<>(id \in checked)

\* After Stop all goroutines return, except a MonitorLoop whose retry is parked on
\* its drained timer, and a sync goroutine that sends on a full healthCheckChan.
StopEnds ==
    stop ~> /\ phase \in {"returned", "parked"}
            /\ \A c \in Checker : check[c] \in {"none", "returned"}
            /\ \A s \in Syncer : sync[s] \in {"none", "returned", "queueing"}

=============================================================================
