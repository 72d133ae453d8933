----------------------------- MODULE ClusterLock -----------------------------
(***************************************************************************)
(* The cluster-wide scan lock of network/clusterlock.go, as scan.Scan uses *)
(* it: one Redis key (SCANNING_<id>), the sessions that compete for it on  *)
(* every node, and the goroutine ("keeper") each successful Get starts.    *)
(*                                                                         *)
(* A session is one ClusterLock object with the Scan call that owns it.    *)
(* Time is discrete: LockTick is one second, the key's TTL and the keepers'    *)
(* timers count down.  A keeper that has something to do may be delayed by *)
(* the scheduler or the network for at most MaxDelay seconds.              *)
(*                                                                         *)
(* The keeper's timer case reads                                           *)
(*     case <-timer.C: if !timer.Stop() { <-timer.C }; timer.Reset(...)    *)
(* The timer has already expired and its only tick has been received, so   *)
(* Stop returns false and the second receive never returns: the goroutine  *)
(* parks at line 76, and lines 78-89 (Reset, EXPIRE) are unreachable.      *)
(***************************************************************************)
EXTENDS Naturals

CONSTANTS
    Session,      \* ClusterLock objects, over all the nodes
    NoSession,    \* the owner of a key that does not exist
    LockTTL,      \* lockTTL, seconds
    LockRefresh,  \* lockRefresh, seconds
    MaxDelay      \* longest time a runnable keeper waits before it acts

ASSUME NoSessionAssumption == NoSession \notin Session

ASSUME TimingAssumption ==
    /\ LockTTL \in Nat
    /\ LockRefresh \in Nat
    /\ MaxDelay \in Nat
    /\ LockRefresh + 2 * MaxDelay < LockTTL

VARIABLES
    ttl,      \* seconds before Redis expires the key, 0 when it does not exist
    owner,    \* the session whose SET created the key
    pc,       \* where the Scan call of each session is
    keeper,   \* the goroutine started by Get
    timer,    \* seconds before the keeper's timer fires
    lag,      \* delay a runnable keeper may still suffer
    left,     \* history: seconds before the key a session set expires by itself
    removed   \* RemoveMirror has deleted the mirror and its lock

lockVars == <<ttl, owner, pc, keeper, timer, lag, left, removed>>

LockTypeOK ==
    /\ ttl \in 0..LockTTL
    /\ owner \in Session \cup {NoSession}
    /\ pc \in [Session -> {"idle", "named", "holding", "released"}]
    /\ keeper \in [Session -> {"none", "starting", "select", "parked"}]
    /\ timer \in [Session -> 0..LockRefresh]
    /\ lag \in [Session -> 0..MaxDelay]
    /\ left \in [Session -> 0..LockTTL]
    /\ removed \in BOOLEAN

LockInit ==
    /\ ttl = 0
    /\ owner = NoSession
    /\ pc = [s \in Session |-> "idle"]
    /\ keeper = [s \in Session |-> "none"]
    /\ timer = [s \in Session |-> 0]
    /\ lag = [s \in Session |-> 0]
    /\ left = [s \in Session |-> 0]
    /\ removed = FALSE

-----------------------------------------------------------------------------
(* The Scan call.                                                          *)

\* HGET MIRRORS id: a removed mirror has no name and the scan ends there.
LookupName(s) ==
    /\ pc[s] = "idle"
    /\ keeper[s] = "none"
    /\ ~removed
    /\ pc' = [pc EXCEPT ![s] = "named"]
    /\ UNCHANGED <<ttl, owner, keeper, timer, lag, left, removed>>

\* Mutant: SET without NX.
SetKeyWithoutNX(s) ==
    /\ ttl' = LockTTL
    /\ owner' = s
    /\ left' = [left EXCEPT ![s] = LockTTL]

\* SET key 1 NX EX lockTTL, applied by Redis for session s.
SetKey(s) ==
    /\ ttl = 0
    /\ ttl' = LockTTL
    /\ owner' = s
    /\ left' = [left EXCEPT ![s] = LockTTL]

\* Get succeeds: done is allocated and the keeper goroutine is spawned.
GetGranted(s) ==
    /\ pc[s] = "named"
    /\ SetKey(s)
    /\ pc' = [pc EXCEPT ![s] = "holding"]
    /\ keeper' = [keeper EXCEPT ![s] = "starting"]
    /\ lag' = [lag EXCEPT ![s] = MaxDelay]
    /\ UNCHANGED <<timer, removed>>

\* DEL key, whoever set it: the stored value does not name its owner.
DelKey ==
    /\ ttl' = 0
    /\ owner' = NoSession

\* The key exists: SET NX answers nil, Get returns nil, Scan ErrScanInProgress.
GetBusy(s) ==
    /\ pc[s] = "named"
    /\ ttl > 0
    /\ pc' = [pc EXCEPT ![s] = "idle"]
    /\ UNCHANGED <<ttl, owner, keeper, timer, lag, left, removed>>

\* The connection fails: Get returns an error, and the SET may nevertheless
\* have been applied, leaving a key that no keeper watches.
GetFailed(s) ==
    /\ pc[s] = "named"
    /\ SetKey(s) \/ UNCHANGED <<ttl, owner, left>>
    /\ pc' = [pc EXCEPT ![s] = "idle"]
    /\ UNCHANGED <<keeper, timer, lag, removed>>

\* The deferred lock.Release(): close(n.done).
Release(s) ==
    /\ pc[s] = "holding"
    /\ pc' = [pc EXCEPT ![s] = "released"]
    /\ UNCHANGED <<ttl, owner, keeper, timer, lag, left, removed>>

-----------------------------------------------------------------------------
(* The keeper goroutine.                                                   *)

\* A keeper that has returned or parked has no running clock.
StopKeeperClock(s) ==
    /\ timer' = [timer EXCEPT ![s] = 0]
    /\ lag' = [lag EXCEPT ![s] = 0]

\* Mutant: the timer is started with the TTL instead of the refresh period.
KeeperStartLate(s) ==
    /\ keeper[s] = "starting"
    /\ keeper' = [keeper EXCEPT ![s] = "select"]
    /\ timer' = [timer EXCEPT ![s] = LockTTL]
    /\ lag' = [lag EXCEPT ![s] = MaxDelay]
    /\ UNCHANGED <<ttl, owner, pc, left, removed>>

\* redis.Get() and time.NewTimer(lockRefresh).
KeeperStart(s) ==
    /\ keeper[s] = "starting"
    /\ keeper' = [keeper EXCEPT ![s] = "select"]
    /\ timer' = [timer EXCEPT ![s] = LockRefresh]
    /\ lag' = [lag EXCEPT ![s] = MaxDelay]
    /\ UNCHANGED <<ttl, owner, pc, left, removed>>

\* case <-n.done: done is reset, the object can be used again, and the key is
\* deleted unless the connection fails (the error of Do is ignored).
KeeperDone(s) ==
    /\ keeper[s] = "select"
    /\ pc[s] = "released"
    /\ keeper' = [keeper EXCEPT ![s] = "none"]
    /\ pc' = [pc EXCEPT ![s] = "idle"]
    /\ StopKeeperClock(s)
    /\ DelKey \/ UNCHANGED <<ttl, owner>>
    /\ UNCHANGED <<left, removed>>

\* case <-timer.C, up to the second receive, where the goroutine parks.
KeeperTimer(s) ==
    /\ keeper[s] = "select"
    /\ timer[s] = 0
    /\ keeper' = [keeper EXCEPT ![s] = "parked"]
    /\ StopKeeperClock(s)
    /\ UNCHANGED <<ttl, owner, pc, left, removed>>

-----------------------------------------------------------------------------
(* The environment.                                                        *)

\* The process of s is killed and restarted: its goroutines are gone, the key
\* it may have set stays in Redis.
Crash(s) ==
    /\ pc[s] # "idle"
    /\ pc' = [pc EXCEPT ![s] = "idle"]
    /\ keeper' = [keeper EXCEPT ![s] = "none"]
    /\ StopKeeperClock(s)
    /\ UNCHANGED <<ttl, owner, left, removed>>

\* The RemoveMirror RPC deletes SCANNING_<id> with the other keys of the
\* mirror, whether or not a scan is running.
RemoveMirror ==
    /\ ~removed
    /\ removed' = TRUE
    /\ DelKey
    /\ UNCHANGED <<pc, keeper, timer, lag, left>>

Runnable(s) ==
    \/ keeper[s] = "starting"
    \/ keeper[s] = "select" /\ (timer[s] = 0 \/ pc[s] = "released")

Pred(n) == IF n = 0 THEN 0 ELSE n - 1

\* Mutant: SET without EX, the key never expires.
KeyNeverExpires == ttl' = ttl

\* What Redis leaves of the key's TTL after a second.
ExpireKey == ttl' = Pred(ttl)

\* One second passes.
LockTick ==
    /\ \A s \in Session : Runnable(s) => lag[s] > 0
    /\ ExpireKey
    /\ owner' = IF ttl' = 0 THEN NoSession ELSE owner
    /\ timer' = [s \in Session |->
                   IF keeper[s] = "select" THEN Pred(timer[s]) ELSE timer[s]]
    /\ lag' = [s \in Session |->
                   IF Runnable(s) THEN Pred(lag[s]) ELSE lag[s]]
    /\ left' = [s \in Session |-> Pred(left[s])]
    /\ UNCHANGED <<pc, keeper, removed>>

-----------------------------------------------------------------------------

LockNext ==
    \/ LockTick
    \/ RemoveMirror
    \/ \E s \in Session :
          \/ LookupName(s)
          \/ GetGranted(s)
          \/ GetBusy(s)
          \/ GetFailed(s)
          \/ Release(s)
          \/ KeeperStart(s)
          \/ KeeperDone(s)
          \/ KeeperTimer(s)
          \/ Crash(s)

LockSpec == LockInit /\ [][LockNext]_lockVars

\* Time passes and runnable goroutines run; a scan need never end.
LockFairness ==
    /\ WF_lockVars(LockTick)
    /\ \A s \in Session :
          /\ WF_lockVars(KeeperStart(s))
          /\ WF_lockVars(KeeperDone(s) \/ KeeperTimer(s))

FairLock == LockSpec /\ LockFairness

-----------------------------------------------------------------------------
(* Properties.                                                             *)

\* What the code does guarantee: of the scans of a mirror that run at the same
\* time, at most one has been running for less than lockTTL seconds.
FreshExclusion ==
    ~removed =>
        \A s, t \in Session :
            /\ pc[s] = "holding" /\ left[s] > 0
            /\ pc[t] = "holding" /\ left[t] > 0
            => s = t

\* A scan that has run for less than lockTTL seconds is visible to IsScanning
\* (EXISTS key): nobody has deleted its key, although DEL checks no owner.
FreshIsVisible ==
    ~removed =>
        \A s \in Session :
            pc[s] = "holding" /\ left[s] > 0 => ttl = left[s] /\ owner = s

\* The DEL of a released lock removes the key of its own session or nothing:
\* the missing owner check is harmless as long as a keeper acts before the key
\* it watches could have expired.
DeletesOwnKey ==
    [][ \A s \in Session :
          ~removed /\ KeeperDone(s) /\ owner # NoSession /\ owner' = NoSession
            => owner = s ]_lockVars

\* clusterlock.go:30-32: the key of a session that released it, crashed, or
\* never learnt that it had set it, goes away.
AbandonedKeyFreed ==
    \A s \in Session : pc[s] # "holding" ~> owner # s

=============================================================================
