# A TLA+ model of mirrorbits

Mirrorbits redirects downloads to mirrors. Several nodes share one Redis database; each node serves
HTTP requests from a local cache of that database, and the nodes divide among themselves the work of
checking and scanning the mirrors. The modules of this directory model the parts of the program where
several processes, goroutines and Redis commands interleave, TLC checks them on small instances, and
TLAPS proves most of the safety properties for every value of the constants.

## 1. Inventory

| component | state | operations | interacts with | modelled in |
|---|---|---|---|---|
| cluster lock (`network/clusterlock.go`) | key `SCANNING_<id>` with a TTL, a `done` channel, a keeper goroutine with a timer | `Get`, `Release`, renew | `scan.Scan`, `ScanSource`, `RemoveMirror` (deletes the key) | `ClusterLock` |
| cluster agent (`daemon/cluster.go`) | `nodes` with the time of their last announcement, `nodeIndex`, `nodeTotal`, `mirrorsIndex` | announce, `refreshNodeList`, `AddMirror`, `RemoveMirrorID`, `IsHandled` | CLUSTER channel, monitor | `Cluster` |
| monitor (`daemon/monitor.go`) | map of mirrors with `checking`, `scanning`, `lastCheck`; `healthCheckChan` (50), `syncChan` (unbuffered), `stop` | `MonitorLoop`, 10 `healthCheckLoop`, n `syncLoop`, `syncMirrorList`, `retry`, `scanRepository` | cluster agent, cache, scans, mirrors | `Monitor` |
| mirror scan (`scan/scan.go`, `scan/http.go`) | `MIRRORFILES_<id>`, `MIRRORFILESTMP_<id>`, `FILEMIRRORS_<f>`, `FILEINFO_<id>_<f>`, `HANDLEDFILES_<id>`, fields of `MIRROR_<id>` | `Scan`, `adjustTZOffset` | lock, file tree, events, RPC | `MirrorScan` |
| repository scan (`scan/scan.go`) | `FILES`, `FILES_TMP`, `FILE_<f>`, lock `SOURCE_REPO_SYNC` | `ScanSource` | lock, file tree, events | `SourceScan` |
| file tree (`filesystem/layerfile.go`) | `fileTree`, `fileTreeReplica`, version and selector lists | `BuildFileTree`, `UpdateFileTree`, readers | repository scan, mirror scan, HTTP | `FileTree`, `SourceScan` |
| trace files (`scan/trace.go`) | field `lastModTime` of `MIRROR_<id>` | `GetLastUpdate` | monitor, RPC | `Cache`, `MirrorAdmin` (the write) |
| cache (`mirrors/cache.go`) | four LRU caches, four event channels, `invalidationEvent` | the goroutine that evicts, `GetFileInfo`, `GetMirrors`, `GetMirror`, `GetFileInfoMirror` | publish/subscribe, HTTP, monitor | `Cache` |
| LRU (`mirrors/lru.go`) | table, list, unsigned size, capacity | `Get`, `Set`, `SetIfAbsent`, `Delete`, `Clear`, `SetCapacity` | cache | `LRU`, `BoundedMap` |
| publish/subscribe (`database/pubsub.go`) | one connection, the list of subscriber channels | `updateEvents`, `handleMessage`, `Publish`, `Close` | everyone | `Cache`, `Cluster` |
| mirrors and their logs (`mirrors/mirrors.go`, `logs.go`) | fields `enabled`, `up`, `excludeReason`, `stateSince` of `MIRROR_<id>`, `MIRRORLOGS_<id>` | `SetMirrorEnabled`, `SetMirrorState`, `PushLog`, sort orders | monitor, RPC, selection | `MirrorAdmin`, `Monitor`, `Serve` |
| selection and requests (`http/http.go`, `http/selection.go`, `http/context.go`) | none of its own | `mirrorHandler`, `Selection`, pages of statistics | cache, GeoIP, statistics | `Serve`, `Stats` |
| statistics (`http/stats.go`, `utils/utils.go`) | `countChan` (1000), `mapStats`, `STATS_*` of days, months, years and all time | `CountDownload`, `processCountDownload`, `pushStats`, `Terminate`, reports over a range | requests, Redis, RPC | `Stats` |
| RPC and command line (`rpc/rpc.go`, `cli/commands.go`) | `MIRRORS`, `LAST_MID`, `MIRROR_<id>` | add, edit, remove, enable, disable, scan, refresh, statistics, reload, upgrade | everything above | `MirrorAdmin`, `MirrorScan`, `Stats`, `Lifecycle` |
| database upgrade (`database/upgrade.go`, `lock.go`, `v1/`) | format version, `LOCK_upgrade`, `V1_*` work keys | `UpgradeNeeded`, `Upgrade`, `AcquireLock`, `keepalive`, `Release` | every user of Redis waits for it | `DBUpgrade` |
| Redis connections (`database/redis.go`) | pool, readiness, failure state | `Get`, `Connect`, `connRecover`, `dbUpdateHandler` | everyone | `DBUpgrade` (`dbUpdateHandler`), `Monitor` (the failure state) |
| life cycle (`main.go`, `process/process.go`) | listener, `stopped`, `Restarting`, pid file, RPC port | signals, restart, seamless upgrade | HTTP, monitor, RPC | `Lifecycle` |

Hard behaviours. Nothing protects a sequence of Redis commands except `MULTI`/`EXEC` and two kinds of
locks that expire; events are best effort at four places (failed `PUBLISH`, broken subscription, full
channel of 10, unbuffered channel); two goroutines drain a timer that has already been received; the
views that nodes have of each other differ most of the time; two scanners of a process fill one tree;
an administrator edits a copy of a record while others change it; a request reads the mirrors one by
one while they change; processes that replace one another share a socket, a port and a pid file.
`PROJECT.json` lists every hazard with its line and the properties that would catch it.

What makes each part correct:

* lock: two scans of one mirror never overlap; nobody deletes the key of another; an abandoned key expires.
* cluster agent: nodes that agree hand each mirror to exactly one of them; disagreements end.
* index of the mirrors: its two halves (which mirrors have a file, what is known of it) agree; everything
  in it can be found again by the next scan and by `RemoveMirror`; a removal is final.
* index of the repository: `FILES` is one whole listing, never a mixture; the tree and the list of
  versions belong to one listing; the last listing gets in.
* cache: an entry that differs from Redis is about to be evicted; the copy the monitor works on is not
  older than what it was told of.
* LRU: the size is the sum of the entries, at most the capacity; entries are dropped only to make room.
* statistics: nothing counted is lost, the redundant counters agree, all of it reaches Redis, and a report
  over a range of days is the sum of the days.
* monitor: every enabled mirror is checked and scanned again and again, by one goroutine at a time; `Stop`
  ends all loops.
* administration: names are unique, the two places that hold them agree, the log tells what happened.
* upgrade: until the version is set the old data is intact, afterwards everything is converted; every node starts.
* life cycle: no gap in the service during an upgrade, the pid file names a live process, a child takes over and
  its parent stops.
* requests: never an excluded mirror, none passed over that could serve all along, every mirror with its own statistics.

## 2. Modules

`MC<name>.tla` only gives constants to `<name>.tla`; `<name>Proofs.tla` holds its theorems, `ClusterProofs` also those
of `ClusterLock`, `CacheProofs` those of `LRU`, `ScanProofs` those of `MirrorScan`, `FileTree` and `SourceScan`, and
`ProcessProofs` those of `Monitor`, `Lifecycle` and `DBUpgrade`. `FiniteSums` has the lemmas on sums over finite sets
that several of them cite. Operators marked "Mutant" in a module are the definitions with a plausible bug that `PROJECT.json` uses to show
that each property can fail; no specification uses them. Every module states its types in `TypeOK`
(`LockTypeOK`, `LRUTypeOK`, `LifecycleTypeOK`, `UpgradeTypeOK`, `RepositoryTypeOK` where modules are extended
together).

### ClusterLock
`ttl` and `owner` are the Redis key; `pc[s]`, `keeper[s]`, `timer[s]` are one `Scan` call with its lock
object and goroutine. `GetGranted`, `GetBusy`, `GetFailed` are the outcomes of `Get`; `KeeperStart`,
`KeeperDone`, `KeeperTimer` the steps of the goroutine. `LockTick` is one second; a goroutine that can run is
delayed by at most `MaxDelay` seconds (`lag`). `left[s]` is history: what remains of the TTL of the key
that s set. `KeeperTimer` parks the goroutine for ever, which is what lines 74-77 do, whatever the
version of Go: after the tick has been received `Stop` returns false and no second tick comes.

### Cluster
One node's `nodes`, `nodeIndex`, `nodeTotal` are recomputed by `RefreshNodeList`; `age` is the time since
the last announcement. Sorted slices without duplicates are sets, and a position in them is the number of
smaller elements. The float32 rounding of `IsHandled` is integer arithmetic (`MirrorRange`), exact below
2^23 mirrors. `pending` holds the MIRROR_UPDATE events between Redis and the monitor, `missed` is history:
the mirrors whose last event the node never got, or spent on a fetch that failed (`SyncFails`, and `Start` for the
mirrors it skips), or that found what a removal should have left nowhere: an entry put back into the cache, or a
record without ID written late (`SyncStale`). Everything that goes wrong draws from `FaultBudget`.

### MirrorScan
One action per Redis command or transaction of `Scan` and `RemoveMirror`, for one mirror. A version of
the repository is the path of its first file, the only one `HttpScanner.Scan` records. `HttpScan` gives
the outcomes of probing. The name is read (`ScanName`) and the lock taken (`ScanLock`) in two steps, and nothing looks
again whether the mirror is there; `late` records a lock taken after the removal. The error of the `EXEC` in
`ScanCommit` is ignored, as in the code. `disturbed` is history: two writers overlapped (the lock expired, or the
removal ran during a scan), or a scan was killed between its `EXEC` and its `RENAME`. The lock is abstracted to
what `ClusterLock` guarantees its callers: granted when free, may expire, deleted by its owner.

### FileTree and SourceScan
`FileTree` has the pure part of `layerfile.go`: a `FileStore` grows line by line (`BuildFileTree`,
`setRecentFile`), and `collectRepoVersionList` makes the list of versions and of selected files of it. A path
is the tuple of its components, and a node is known by the path under which it was created, so that the
entries `dfsEveryFile` changes in place keep their identity. `SourceScan` extends it: each process has two
scanners, the ticker and the RPC, which fill the one `fileTreeReplica` of the process, publish it
(`UpdateFileTree`), and then, under the lock, write `FILES_TMP` in one transaction and rename it in a second
one. The filter matches a rule anywhere in a path (`Matches`); names that end or begin like those of a rule are given
by `Endings` and `Beginnings`. `Expire`, `Disconnect` and `Restart` are faults, and so are the errors that `ScanSource`
survives: a listing that breaks off (`CutShort`), an `HMGET` that is refused (`RefuseFile`), a lock that cannot be had
(`GiveUp`). `cut`, `refused`, `clipped` and `partial` are history and follow what a scanner has lost into the tree and
the keys. `stalled` (the lock expired under a scan) and
`overlap` (both scanners of a process ran at once) are history. The listing of the repository
(`RepositoryFileListText`) goes through the sequence `Lists`.

### Cache
The content of an object is a version number. `wire`, `channel`, `worker`, `inval` are the stages of an
event on its way; `target` and `reading` are a fill in progress (a read of Redis, then `LRUCache.Set`);
`copy` is the monitor's map of mirrors; `MonitorFetchFails` consumes an event whose fetch fails. An LRU eviction is a nondeterministic drop of other entries of
the same cache. The history bit `lost` of a copy says that the event that would have evicted it was
dropped, was handled before the copy reached the cache, or was consumed by a fetch that failed.

### LRU and BoundedMap
`LRU` is the code: a list in order of use, the table as the set of its keys, and a size that wraps at
`Modulus`, as the unsigned sums of `updateInplace` and `Delete` do; each operation holds the mutex and is one
step. `BoundedMap` is what the callers rely on: a map whose values fit the capacity, in which an operation
drops other entries only if there is no room, and no more of them than needed. `ImplementsMap` is the
refinement, with the map read off the list.

### Stats
`countChan`, `mapStats` and the counters in Redis of days (`saved`), of months, years and all time
(`savedPeriod`), which `Apply` increments with one transaction. `MonthLength` and `YearLength` are a small
calendar. `PushError` is an `EXEC` that returns an error, executed or not. `TimeKeyCoverage` splits a range
into days, months and years as the code does, and `Report` sums the hashes of `StatsFile` and `StatsMirror`;
`StatsFileNow` is the page of `fileStatsHandler`. `received` and `replayed` are history.

### Monitor
`m.mirrors` is a family of sets: the keys (`listed`) and the mirrors for which a field holds (`enabled`,
`up`, `checking`, `scanning`; `checked` while `CheckInterval` has not elapsed). `phase` is the position of
`MonitorLoop`; `check`, `checkId` and `sync`, `syncId` are the goroutines of `healthCheckLoop` and
`syncLoop`. `ListMirrors`, `MirrorUpdated`, `Visit`, `LoopReturn` are the loop, `RetryTimer` and
`RetryStopped` are `retry`: as in the lock, the timer case parks for ever. `record` is `MIRROR_<id>`,
"partial" when a late write has created it again without its ID. The configuration notifier and the scan
of the repository by the ticker change none of this state and are left out; `ScanInterval` may elapse at
any time; while Redis is known to be down (`failure`) the tick does nothing; a scan is two steps (`SyncStart`, then `SyncScanned` or `SyncFailed`), whose commands are in
`MirrorScan`; a mirror's event is in `events` or lost, `Cache` has its way. `unscanned` and `revived` are
history: the last check found no file; `UpdateMirror` has written the mirror again after its removal.
Faults, administrators and the cluster draw from `ChangeBudget`.

### DBUpgrade
Every node runs `dbUpdateHandler`: the version is read, the lock taken (`AcquireLock`), and the upgrade to
version 1 runs one step per exchange with Redis, down to the `EXEC` that renames everything and sets the
version. The database is a function from keys to values, work keys included; a `RENAME` of a missing key fails
alone, as in Redis. The last writes of a step are sent and their replies never read: they arrive in part (`Arrives`),
and `lost` is history, the keys that suffered. `FILEMIRRORS` is converted for the files in `FILES` only, and a statistic
that counts removed mirrors only stays as it is. `Keepalive`, `Release` and `DeleteKey` are the lock; `Expire` happens when the owner is
dead, or stalls (`stalls`). `Crash`, `Restart` and `CommandFails` draw from `CrashBudget`.

### MirrorAdmin
Each client runs one command of `cli/commands.go` at a time, one step per Redis command or transaction of its
RPC handlers, on `MIRRORS`, `MIRROR_<id>`, `MIRRORLOGS_<id>` and `LAST_MID`. A mirror is its name and its
`enabled` flag. `Fails` is a command that ends with an error at any step. The goroutines of the monitor run beside
the clients: health checks, scans and traces that hold a copy of a mirror (`task`) and write its hash and its log, after
its removal too. `raced`, `disturbed` and `late` are history: a name was saved although `MIRRORS` had changed since the
check; commands overlapped on an id, or one failed; a mirror was removed under a task of the monitor.

### Lifecycle
`proc[p]` is a process: its main goroutine (`at`), the channel of signals with its one slot (`k`), the listener,
`h.server`, `h.stopped`, `h.Restarting`, and the steps of `RemovePidFile`. `Recover`, `Listen`, `Serve`,
`ServeReturns`, `MonitorEnds` are `main`; `Handle...` are the cases of the signal handler, with the panics of a
signal that comes before `h.server` or `h.Listener` is set; `HandleUsr2` is `Relaunch` and its child, which
inherits the socket. `ReloadFatal` and `DatabaseFatal` are the `log.Fatal`s of a process that runs, `Start` may always
die. The RPC port has one owner. `asked`, `crashed`, `fatal` and `lost` are history: the operator wants the socket closed;
a process ended abnormally, or the pid file could not be written; a process died of an error while it listened; a signal
was dropped.

### Serve
One request, step by step: the path is evaluated, `GetMirrors` reads the list of the mirrors that have the file, then
each mirror and each file (each read answered from Redis or by a cache that still has the state of before), then
`Selection` filters and sorts; or the page of statistics is made line by line. Between two reads a mirror is
disabled, goes down, is scanned or is removed. What GeoIP and the settings make of a mirror for this client is
its `profile` (same country, score, distance, who it serves). Sorting is any order that `Less` allows:
`sort.Sort` is not stable. `changed` is history, the mirrors that changed during the request. The time of modification
that `Selection` compares is always unset, since `cache.go:279` never parses what `scan.go:217` stores, and is left out.

## 3. Runs

| run | constants | states | what it shows |
|---|---|---|---|
| `lock` | 3 sessions, TTL 6, refresh 3, delay 1 | 118,271 | exclusion while the key is fresh (`FreshExclusion`), no DEL of a foreign key (`DeletesOwnKey`), abandoned keys go (`AbandonedKeyFreed`) |
| `cluster` | 2 nodes, 2 mirrors, expiry after 2 s, 2 faults, 1 change | 132,707 | one owner per mirror among nodes that agree (`AgreedPartition`), `MirrorListsFollow`, `NoSpuriousExpiry`, `ClusterSettles` |
| `mirror_scan` | 2 files, 2 scans, 1 refresh | 2,991,261 | `InfoMatchesIndex`, `IndexReachable`, `RemovalIsFinal` |
| `cache` | 1 mirror, 1 path, 1 reader, channels of 1, 2 updates, 1 fault | 193,400 | stale entries have a cause (`StaleHasCause`, `CopyHasCause`), `EvictionArrives` |
| `lru` | 3 keys, values that are empty, fit or are too large, capacities 2 and 4, 8 calls | 6,737 | `Accounted`; the refinement `ImplementsMap` |
| `stats` | 2 files, 1 mirror, 6 days (2 months of 3 days, 1 year), 2 downloads, 2 faults | 55,320 | `NothingLost`, `TotalsAgree`, `RangeAgrees`, `DownloadsSaved` |
| `monitor` | 1 mirror, 1 checker, 1 syncer, channel of 1, 1 change | 234,911 | the flags do not leak (`CheckingHasCause`, `ScanningHasWorker`), `CheckedInTurn`, `StopEnds`, known exceptions apart |
| `source` | 1 process with both scanners, 2 listings, 1 retry, 1 fault | 417,223 | `FilesWhole`, `IndexAgrees`, `TreeWhole`, `SelectsFiles`, `Converges` |
| `upgrade` | 2 nodes, 2 mirrors and a removed one, 2 files, 1 crash or failure, 1 stall | 164,147 | `OldDataIntact`, `UpgradeConverts`, `Starts` |
| `admin` | 2 clients, 2 goroutines, 2 names, 2 ids, 4 commands or tasks | 478,300 | `UniqueNames`, `RecordsAgree`, `LogsTell` |
| `lifecycle` | 3 processes, 3 signals | 211,276 | `NeverRefused`, `PidFileAlive`, `HandsOver` |
| `serve` | 3 mirrors of 5 profiles, 2 sizes, 2 fallbacks, room for 2, 1 change | 2,099,042 | `DuplicatesAgree`, `NonePassedOver`, `OwnStatistics` |

Why the bounds are enough.

* Lock: a third session is needed for a late keeper to meet a key that is neither its own nor the one that
  replaced it; the ratio of TTL, refresh and delay is that of the code (10, 5).
* Cluster: with two nodes every disagreement (each alone, one dead, both) happens, the range is rounded up and
  down, and two mirrors make it 0, 1 and 2; the proof covers the rest.
* Index of a mirror: two files allow a scan to add, keep and drop in one pass; two scans allow any overlap.
* Cache: one channel slot makes it full after one event; versions 1 to 3 include a deletion; the proof covers
  more mirrors and readers.
* LRU: three keys and a capacity of 2 make a Set evict one, two or all of the others, itself included when the
  value is larger than the cache; a `Modulus` of 16 is far above the sizes, so that a wrap is an error.
* Statistics: two downloads on different days leave a map with several days and a second push of the same key;
  months of three days allow a range to begin and to end inside one. Two years of two months of two days
  (8 days, 118,416 states) pass as well and split a range into days, months and a year.
* Monitor: a mirror meets others only through the channel, which one slot and the send of `syncLoop` fill. Two
  checkers or two syncers, a mirror brought back after its removal (two changes) and more mirrors are left to
  the proof of the invariants.
* Repository: the second listing loses the file of the first and has another directory with two files, so that
  a mixture of the two would show; both scanners of a process, the lock that expires and a restart give every
  overlap that one process has.
* Upgrade: a node that dies or fails leaves its work keys to the other; `MaxId` 8 is never reached, so no guard
  hides a second attempt.
* Administration: four commands or tasks are an addition and three that race, or two additions and two that race; the
  proof covers more.
* Life cycle: three processes allow an upgrade during an upgrade; three signals are two upgrades and a reload or
  an end.
* Requests: three mirrors with room for two leave one out; the five profiles give every outcome of the filter
  and a mirror that is better by country, by score or by distance; one change between any two reads.

Deadlock is checked in `lock` and `cluster`. The other systems may rest: their budgets (scans after a removal,
updates, downloads, commands, signals) end, the monitor is stopped, the request is answered.

Fairness. Clock ticks and the steps of a goroutine that is a loop with a ready `select` case are weakly
fair: the Go scheduler runs every runnable goroutine. Nothing that a user, a mirror or a network does is
fair, except that Redis comes back (`Stats`) and that the endless retry of `updateEvents` eventually
connects (`Cluster`, `Cache`), without which nothing can be promised. A scan need not end (`ClusterLock`). In
`Monitor` mirrors answer or refuse, so that checks and scans end: an assumption, as the HTTP clients have no
timeout and a silent mirror holds its goroutine. Redis is ready at some time. Two cases of the loop are strongly
fair: the return on `stop`, since `select` picks at random among its ready cases, and the visit of each
mirror at the tick, since the loop over the map visits them all. In `SourceScan` the ticker scans again and
again, a call of the RPC goes on once it has begun, and Redis drops the key of a dead owner; in `DBUpgrade` a
process that runs keeps trying, and Redis drops the key of a dead owner; in `Lifecycle` the goroutines of a
process run, while nothing obliges the monitor to end (`StopEnds` has exceptions) or an error to happen. `LRU`, `MirrorAdmin`, `MirrorScan` and `Serve` state no
fairness: nothing in them must happen.

## 4. Proofs

Every theorem holds for all values of the constants that satisfy the named assumption of its module. Each rests
on an inductive invariant, proved in three steps (it holds at the start, every action keeps it, it implies the
property); TLC has checked the invariants before they were proved.

| module | theorems | inductive invariant |
|---|---|---|
| `ClusterProofs` | `LockTypeCorrect`, `LockFreshExclusion`, `LockFreshIsVisible`, `LockDeletesOwnKey` | a keeper exists only with its call (`KeeperMatchesCall`); a keeper that can still delete acts before the key expires: `timer + lag` is below `left` (`KeeperInTime`); the key has an owner, and its TTL is the owner's `left` |
| | `ClusterTypeCorrect`, `ClusterAgreedPartition` | `nodeIndex` and `nodeTotal` are the position of the node in, and the size of, the set it knows, itself included |
| | `ClusterMirrorListsFollow` | the property itself: a list changes only through an event or at the start, and an event that is not queued, or a fetch that fails, is recorded as missed |
| | `ClusterNoSpuriousExpiry` | until something goes wrong (`Calm`), a node known to another has been silent for at most a second, and if so its announcement is due or in the channel, which holds one of each node at most |
| `ScanProofs` | `ScanTypeCorrect`, `ScanInfoMatchesIndex`, `ScanIndexReachable`, `ScanRemovalIsFinal` | while undisturbed: at most one scan, what each stage of a scan has established about the sets, what the removal has read; a scan that has its lock after the removal is recorded as late |
| | `RepositoryFilesWhole`, `RepositoryIndexAgrees` | what a scanner has found and has still to read are one listing, or a part of one if it has lost something (`Collected`); both keys hold one or nothing, or such a part (`KeysWhole`); until the lock expires under its owner, one scanner is between the transactions (`OneCommitter`) and what it has read of Redis still holds (`Between`) |
| | `RepositoryTreeWhole`, `RepositorySelectsFiles` | every tree is as `BuildFileTree` makes it (`TreeOK`: its order has exactly its nodes, each node says what it is about, the most recent entry of a version is one of its nodes); until two scanners of a process overlap, one at most fills the replica, and what that holds and the lines still to read are one listing, or the beginning of one that broke off (`Growing`) |
| `CacheProofs` | `CacheTypeCorrect`, `CacheStaleHasCause`, `CacheCopyHasCause` | the same statement for values that are between Redis and the cache (`ReadingHasCause`) |
| | `LRUAccounted`, `LRUImplementsMap` | the property, that every entry has the size of its value, and that the size is within the capacity: without the last the running size could wrap (`LRUIInv`). Each operation of the list is shown to be the same operation of the map |
| `StatsProofs` | `StatsNothingLost` | types of the counters |
| | `StatsTotalsAgree` | the hashes agree, and what is about to be pushed adds the same to each of them |
| | `StatsRangeAgrees` | that invariant, and what `TimeKeyCoverage` covers: every day of the range once |
| `MirrorAdminProofs` | `AdminTypeCorrect`, `AdminUniqueNames`, `AdminRecordsAgree`, `AdminLogsTell` | `LAST_MID` is not behind any id in use; a name check that is not stale is of a free name; commands on the same mirror have disturbed it; a task works on a mirror that is listed or was removed under it (`TasksKnown`); an undisturbed mirror is in the state that the one command on it has brought it to, whatever the monitor adds |
| `ServeProofs` | `ServeTypeCorrect`, `ServeDuplicatesAgree`, `ServeNonePassedOver`, `ServeOwnStatistics` | the mirrors still to be read are in the list once and are not among those read (`ReadsAhead`, `ReadOnce`); an answer is the head of an order of the selected mirrors (`Answered`); the counters left are those of the mirrors left, or more of them (`StatsAhead`); a mirror that did not change is the same in the database and in the cache, and is ahead in the list or has been read as it is (`SteadyInv`) |
| `ProcessProofs` | `MonitorTypeCorrect`, `MonitorCheckingHasCause`, `MonitorScanningHasWorker`, `MonitorOneScanPerMirror` | before the list is read nothing runs (`StartupInv`); a goroutine has a mirror exactly while it works (`WorkerInv`); a mirror that left the map under a goroutine is not written in full again except by `UpdateMirror` (`GoneForGood`): otherwise it could be listed again with its flag down |
| | `LifecycleNeverRefused`, `LifecyclePidFileAlive` | once the socket is held, and until the operator asks for an end or a process that listens dies of an error, some process holds it that nobody has told to quit (`KeeperInv`): a parent is told only by a child that has inherited the socket (`ParentsInv`); the file has the pid of a child once the child can tell its parent to quit (`PidFileInv`) |
| | `UpgradeOldDataIntact`, `UpgradeConvertsAll` | `UpgradeOldDataIntact`: the property itself. Without a stall: whoever upgrades has the lock (`LockInv`) and found mirrors (`MirrorsInv`); at each stage the old data, the ids given so far (each to one name), the work keys and the renames collected fit together, lost writes apart (`StageInv`) |

Assumptions on the constants.

* Lock: `LockRefresh + 2 * MaxDelay < LockTTL` (with the 5 and 10 seconds of the code, a goroutine is delayed by
  less than 2.5 s).
* Cluster: nodes and mirrors are finite sets of naturals. `ClusterNoSpuriousExpiry` has two hypotheses of its own:
  no more nodes than `clusterChan` has room for (10), and an expiry of a second or more (5). With more nodes it is
  false: a full channel drops announcements although nothing has failed.
* Statistics and requests: finite sets of files and mirrors, a calendar with months and years of any length but 0.
* LRU: a capacity and the size of one value more add up to less than 2^64: `addNew` adds before `checkCapacity`
  looks. (`Size()` is an int, and the largest cache has 4,096,000 bytes.)
* Upgrade: the old database has a mirror (a Redis key without content does not exist), and no mirror is named like
  an identifier.
* Repository: at least one listing; a listing is a sequence of lines, with at least one file that is indexed (section
  5 has the other case).
* Capacities and budgets are naturals.

What the longer proofs rest on. The partition needs an arithmetic lemma: the ranges of consecutive positions are
adjacent, and the last node takes all that follows. The sums of the statistics, of the sizes in a list and of the
weights of a map are counted (`FiniteSums`): a sum of naturals is the cardinality of the set of its units, so that the
theorems on finite sets apply, and that the recursion of `MapThenSumSet` has this solution, like every other fact about
a recursion here, follows from a minimal counterexample, since the induction theorems are out of the provers' reach. The
coverage of a range is shown right by the latest day that would be covered wrongly. The refinement of the map needs that
the keys of the first n entries of a list weigh what these entries add up to (`WeightOfFirst`), so that what
`checkCapacity` drops from the back is no more than the map must forget. For the trees, a fold over a sequence is a
recursion over the sets of its positions: that it has a solution is shown by the size of these sets
(`CollectedExists`), and what it keeps (`GoodAcc`: contents move only between the files of one version, and only files
are selected) by a minimal set of positions where it would fail; below every node there is a file, since a longest path
below it is one (`FileBelow`).

Only model-checked: the liveness properties (`AbandonedKeyFreed`, `ClusterSettles`, `EvictionArrives`,
`DownloadsSaved`, `CheckedInTurn`, `StopEnds`, `Converges`, `Starts`, `HandsOver`), which are out of the prover's
reach. Every invariant and action property of the runs, and the refinement, is proved. Theorems without a run of their
own (`LockFreshIsVisible`, `MonitorOneScanPerMirror` and the type theorems) are proved only.

## 5. Observations

What the models show of the code that a reader may not expect. The properties above are stated so that they say
what does hold beside these.

Locks and scans
* `clusterlock.go:76`: the keeper waits for a tick it has already received. The lock is never renewed, and two
  scans of a mirror overlap once the first takes longer than `lockTTL`. `monitor.go:598` is the same: `retry`
  hangs after its first failure and then ignores `stop` (an exception of `StopEnds`, with the `syncLoop` that
  blocks at `monitor.go:445` once the checkers have returned).
* `scan.go:168`, `178`: a scan that indexes nothing does not rename, and `HANDLEDFILES` keeps files the mirror has
  lost, which `monitor.go:532` then relies on.
* `rpc.go:512`: a scan or a check that runs during `RemoveMirror` writes `MIRROR_<id>` and `MIRRORLOGS_<id>` again
  afterwards (`LogsTell` says what is left). `scan.go:83`, `94`: a scan that has read the name before the removal and
  gets the lock after it indexes the removed mirror.
* `scan.go:140`: the error of `EXEC` is ignored. `scan.go:187`: an error of `adjustTZOffset` is pushed to the log of the
  mirror as a scan error, although the scan has succeeded.
* `monitor.go:295`: a mirror whose fetch fails is skipped, at the start until its next update.
* `monitor.go:363`, `444`: a mirror that is up when a check finds that it is not scanned is never checked again.
* `cache.go:246`: an entry filled while its event is handled stays stale for ever.

Repository
* `layerfile.go:533`: `dfsEveryFile` changes entries of `Mapping` in place, against the comment at line 81;
  `layerfile.go:145` reuses a slice that readers hold; the list cached under the read lock at line 178 is never
  invalidated.
* `scan.go:466`: a listing that cannot be read to its end is logged, and the part that was read replaces the tree and
  `FILES`. `scan.go:379`: a file whose `HMGET` is refused is dropped from the index until the next scan.
* `scan.go:540`: with an empty listing the `RENAME` of `FILES_TMP` fails, and the rest of the transaction runs.

Database upgrade
* A node that stalls loses its lock without noticing (`Held()` has no caller): two upgrades run at once,
  the `RENAME`s of keys that are gone fail alone, and the version is set all the same.
* `version1.go:190`, `216`, `260`: the replies to the last writes of a step are not read, so a write that failed does not
  stop the upgrade. `version1.go:163`: `FILEMIRRORS` of a file that is not in `FILES` keeps the names.

Administration
* `rpc.go:376`: two clients that check a name at once both get it. `rpc.go:309`: an edit revives a mirror removed
  meanwhile. `mirrors.go:183`: enabling a removed mirror leaves a hash without ID.
* `rpc.go:361` (`createDiff`) and `commands.go:885` (export) index a slice without looking at its length.

Life cycle
* A SIGHUP with another `ListenAddress` closes the socket, and `RunServer` serves on the closed one: the process
  ends. `stopped` is never reset. A reload that finds no file exits.
* `http.go:442`: a SIGHUP with a template that is missing or bad ends the process and closes the socket.
  `redis.go:401`: so does an upgrade of the database that fails in a child that has already told its parent to quit.
* A failed `Relaunch` leaves the RPC closed. The second child of two SIGUSR2 dies on the RPC port with its pid in
  the pid file. `main.go:76` has room for one signal, others are dropped. A signal before `h.server` or
  `h.Listener` is set makes the process panic. `RemovePidFile` reads and removes in two steps.

Requests
* `http.go:256`: the size a mirror must have is that of whichever mirror comes first, even one that is disabled or
  down, while `selection.go:66` speaks of the source: healthy mirrors may all be excluded. A missing `FILEINFO`
  counts as a size of 0. One missing record fails the whole list, and fallbacks answer.
* `http.go:670`: after a mirror that cannot be read, removed or not, the page of statistics gives the following
  mirrors the counters of their neighbours (the lines that are not `aligned`). Fallbacks are counted under the IDs 0, -1, ...

Statistics
* A report up to now counts today only if it begins in the current month and not on its first day; a start of now
  with an earlier end covers days to come (`utils.go:179`).
* `http.go:485` takes local time, the counters UTC. `rpc.go:670` answers nothing and no error when a cast fails.

## 6. Not modelled

* The offset that `adjustTZOffset` computes: arithmetic on the times that mirrors report, used by no other step.
* `Connect` and the sentinels (`database/redis.go`): a dialogue with servers that the model would have to invent;
  failing commands are modelled where the code goes on after one or leaves something half done: in the scans, the
  administration, the upgrade, the statistics and the monitor at every step; in `Cluster` and `Cache` the publication, the
  subscription and the fetches of the monitor; in `Serve` every read.
* `checksumHandler`, templates, renderers, `GetRepoFileList` and the flattening for the page; the commands and
  calls that only read (list, show, export, logs, version); `Close` of the subscription at the end of a process.
* Parsing of the configuration, GeoIP files, path evaluation, hashing, log output: no state of their own, or pure
  I/O. Their results are inputs of the models.
* The generated RPC code.

Left for later: that `ClusterLock` implements the lock `MirrorScan` and `SourceScan` assume.
