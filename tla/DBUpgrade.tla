----------------------------- MODULE DBUpgrade -----------------------------
(***************************************************************************)
(* The start of the nodes on a database of the previous format: every      *)
(* process runs dbUpdateHandler (database/redis.go), which checks the      *)
(* version of the format and, if it must, takes the lock of                *)
(* database/lock.go and runs the upgrade from version 0 to version 1       *)
(* (database/upgrade.go, database/v1/version1.go), one step per exchange   *)
(* with Redis or per function of the upgrade.  Processes die at any step   *)
(* and start again; a holder of the lock can stall for longer than the     *)
(* five seconds its key lives.                                             *)
(*                                                                         *)
(* The database is a function from keys to values.  A key is a tuple: its  *)
(* prefix, then the identifier of a mirror (its name in version 0, a       *)
(* number in version 1) or a file.  <<"V1", k>> is the work key of k.      *)
(***************************************************************************)
EXTENDS Naturals, FiniteSets, Functions

CONSTANTS
    Node, NoNode, Orphan,   \* Orphan: the owner of the key has died
    Name, File,
    Removed,       \* the names of mirrors removed before the upgrade
    FilesOf,       \* the files of each mirror
    Repository,    \* FILES: the files of the local repository
    Period,        \* the dates of the STATS_MIRROR_* and STATS_MIRROR_BYTES_* keys
    Counted,       \* the mirrors counted under each
    MaxId,         \* bound on LAST_MID
    CrashBudget,   \* bound on the processes that die and the commands that fail
    StallBudget    \* bound on the stalls of a holder of the lock

ASSUME DBUpgradeAssumption ==
    /\ NoNode \notin Node /\ Orphan \notin Node /\ NoNode # Orphan
    /\ FilesOf \in [Name -> SUBSET File] /\ Repository \subseteq File
    /\ Counted \in [Period -> SUBSET (Name \cup Removed)]
    /\ MaxId \in Nat /\ CrashBudget \in Nat /\ StallBudget \in Nat
    /\ Name # {} /\ Name \cap Removed = {}
    /\ (Name \cup Removed) \cap (1..MaxId) = {}   \* no mirror is named like an identifier

VARIABLES
    db,            \* Redis, except the three keys below
    version,       \* core.DBVersionKey; 0 if there is no such key
    lastMID,       \* LAST_MID
    lock,          \* the owner of the value of LOCK_upgrade
    pc,            \* where dbUpdateHandler is in each process
    held,          \* Lock.held
    mids,          \* the map m of Version1.Upgrade: the names by identifier
    todo,          \* the names CreateMirrorIndex has read and not yet indexed
    actions,       \* the actions a of Version1.Upgrade
    failed,        \* Upgrade has returned an error
    crashes, stalls,
    lost           \* history: the keys some of whose writes were lost without an error

local == <<held, mids, todo, actions, failed>>
upgradeVars == <<db, version, lastMID, lock, pc, local, crashes, stalls, lost>>

Mirrors == <<"MIRRORS">>
MirrorKey(x) == <<"MIRROR", x>>
FilesKey(x) == <<"MIRRORFILES", x>>
FileMirrors(f) == <<"FILEMIRRORS", f>>
Stats(t) == <<"STATS_MIRROR", t>>
Work(k) == <<"V1", k>>

NoActions == [rename |-> << >>, delete |-> {}]

ServedBy(f) == {n \in Name : f \in FilesOf[n]}

\* A database of version 0: MIRRORS is a list, everything else uses the names.
\* A set or a hash without members has no key.  The hash MIRROR_<name> is the set
\* of what its fields hold.
Keys0 ==
    {Mirrors} \cup {MirrorKey(n) : n \in Name}
        \cup {FilesKey(n) : n \in {m \in Name : FilesOf[m] # {}}}
        \cup {FileMirrors(f) : f \in {g \in File : ServedBy(g) # {}}}
        \cup {Stats(t) : t \in {p \in Period : Counted[p] # {}}}

Value0(k) ==
    CASE k = Mirrors -> [type |-> "list", content |-> Name]
      [] k[1] = "STATS_MIRROR" -> [n \in Counted[k[2]] |-> n]
      [] k[1] = "MIRROR" -> {k[2]}
      [] k[1] = "MIRRORFILES" -> FilesOf[k[2]]
      [] k[1] = "FILEMIRRORS" -> ServedBy(k[2])

Version0 == [k \in Keys0 |-> Value0(k)]

UpgradeInit ==
    /\ db \in {Version0, << >>}
    /\ version = 0
    /\ lastMID = 0
    /\ lock = NoNode
    /\ pc = [n \in Node |-> "check"]
    /\ held = [n \in Node |-> FALSE]
    /\ mids = [n \in Node |-> << >>]
    /\ todo = [n \in Node |-> {}]
    /\ actions = [n \in Node |-> NoActions]
    /\ failed = [n \in Node |-> FALSE]
    /\ crashes = 0
    /\ stalls = 0
    /\ lost = {}

IsWork(k) == k[1] = "V1"
Put(d, f) == [k \in DOMAIN d \cup DOMAIN f |-> IF k \in DOMAIN f THEN f[k] ELSE d[k]]
One(k, v) == [x \in {k} |-> v]
Proceed(n, l) == pc' = [pc EXCEPT ![n] = l]

-----------------------------------------------------------------------------
(* dbUpdateHandler, UpgradeNeeded, Upgrade                                 *)

\* GetDBFormatVersion: a database without version and without mirrors is new,
\* and is given the current version.
GetDBFormatVersion(n, old) ==
    \/ /\ version = 1
       /\ Proceed(n, "ready")
       /\ UNCHANGED version
    \/ /\ version = 0 /\ Mirrors \in DOMAIN db
       /\ Proceed(n, old)
       /\ UNCHANGED version
    \/ /\ version = 0 /\ Mirrors \notin DOMAIN db
       /\ version' = 1
       /\ Proceed(n, "ready")

UpgradeNeeded(n) ==
    /\ pc[n] = "check"
    /\ GetDBFormatVersion(n, "upgrade")
    /\ UNCHANGED <<db, lastMID, lock, local, crashes, stalls, lost>>

\* Upgrade reads the version again, still without the lock.
Upgrade(n) ==
    /\ pc[n] = "upgrade"
    /\ GetDBFormatVersion(n, "lock")
    /\ UNCHANGED <<db, lastMID, lock, local, crashes, stalls, lost>>

\* SET NX; on ErrAlreadyLocked dbUpdateHandler starts again.
AcquireLock(n) ==
    /\ pc[n] = "lock"
    /\ \/ /\ lock = NoNode
          /\ lock' = n
          /\ held' = [held EXCEPT ![n] = TRUE]
          /\ Proceed(n, "erase")
       \/ /\ lock # NoNode
          /\ Proceed(n, "check")
          /\ UNCHANGED <<lock, held>>
    /\ UNCHANGED <<db, version, lastMID, mids, todo, actions, failed, crashes, stalls, lost>>

-----------------------------------------------------------------------------
(* Version1.Upgrade                                                        *)

Fail(n) ==
    /\ failed' = [failed EXCEPT ![n] = TRUE]
    /\ Proceed(n, "release")

\* Mutant: the work keys of a previous upgrade are kept.
EraseNothing(n) ==
    /\ pc[n] = "erase"
    /\ Proceed(n, "index")
    /\ UNCHANGED <<db, version, lastMID, lock, local, crashes, stalls, lost>>

Erase(n) ==
    /\ pc[n] = "erase"
    /\ db' = Restrict(db, {k \in DOMAIN db : ~IsWork(k)})
    /\ lost' = IF version = 0 THEN {} ELSE lost
    /\ Proceed(n, "index")
    /\ UNCHANGED <<version, lastMID, lock, local, crashes, stalls>>

\* CreateMirrorIndex, LRANGE: an error (WRONGTYPE) if MIRRORS is a hash.
ReadMirrors(n) ==
    /\ pc[n] = "index"
    /\ \/ /\ db[Mirrors].type = "list"
          /\ todo' = [todo EXCEPT ![n] = db[Mirrors].content]
          /\ mids' = [mids EXCEPT ![n] = << >>]
          /\ Proceed(n, "assign")
          /\ UNCHANGED failed
       \/ /\ db[Mirrors].type = "hash"
          /\ Fail(n)
          /\ UNCHANGED <<todo, mids>>
    /\ UNCHANGED <<db, version, lastMID, lock, held, actions, crashes, stalls, lost>>

WorkMirrors == IF Work(Mirrors) \in DOMAIN db THEN db[Work(Mirrors)].content ELSE << >>

\* CreateMirrorIndex: INCR LAST_MID and HSET V1_MIRRORS for the next name.
AssignId(n) ==
    /\ pc[n] = "assign"
    /\ lastMID < MaxId
    /\ todo[n] # {}
    /\ LET name == CHOOSE x \in todo[n] : TRUE   \* the next of the list
           id == lastMID + 1
       IN  /\ lastMID' = id
           /\ todo' = [todo EXCEPT ![n] = @ \ {name}]
           /\ mids' = [mids EXCEPT ![n] = Put(@, One(id, name))]
           /\ db' = Put(db, One(Work(Mirrors),
                              [type |-> "hash", content |-> Put(WorkMirrors, One(id, name))]))
    /\ UNCHANGED <<version, lock, pc, held, actions, failed, crashes, stalls, lost>>

IdsOf(n, names) == {id \in DOMAIN mids[n] : mids[n][id] \in names}
Renames(f) == [rename |-> f, delete |-> {}]

\* The writes that RenameKeys, FixMirrorID and RenameStats send for a key are
\* answered when the next command on the connection is read, so that an error of
\* theirs is returned; those of the last key nobody answers for: conn.Flush only
\* sends them, and conn.Close drops the replies.  sent: the members, fields or
\* counters written to each work key.
Arrives(sent) ==
    {sent} \cup UNION {{[sent EXCEPT ![k] = part] : part \in SUBSET sent[k]} : k \in DOMAIN sent}

Loses(sent, got) ==
    /\ lost' = lost \cup {k[2] : k \in {w \in DOMAIN sent : got[w] # sent[w]}}
    /\ \/ got = sent /\ UNCHANGED crashes
       \/ got # sent /\ crashes < CrashBudget /\ crashes' = crashes + 1

\* A key that is given no member is not there.
NonEmpty(got) == {k \in DOMAIN got : got[k] # {}}

\* RenameKeys, after the last name.  SMEMBERS of a missing key is an empty set
\* and no error, so every mirror and every file of FILES is marked for renaming;
\* FILEMIRRORS of a file that is not in FILES is not looked at.  FILEINFO and
\* HANDLEDFILES go the way of MIRRORFILES.
RenameKeys(n) ==
    LET served(f) == IF FileMirrors(f) \in DOMAIN db THEN IdsOf(n, db[FileMirrors(f)]) ELSE {}
        works == {Work(FileMirrors(f)) : f \in Repository}
        sent == [k \in works |-> served(k[2][2])]
    IN /\ pc[n] = "assign" /\ todo[n] = {}
       /\ \E got \in Arrives(sent) :
             /\ db' = Put(db, Restrict(got, NonEmpty(got)))
             /\ Loses(sent, got)
       /\ actions' = [actions EXCEPT ![n] = Renames(
            Put([k \in {Work(Mirrors)} \cup works |-> k[2]],
                [k \in {FilesKey(mids[n][id]) : id \in DOMAIN mids[n]} |->
                    FilesKey(CHOOSE id \in DOMAIN mids[n] : mids[n][id] = k[2])]))]
       /\ Proceed(n, "fix")
       /\ UNCHANGED <<version, lastMID, lock, held, mids, todo, failed, stalls>>

\* Mutant: the mirrors are renamed at once, not in the transaction.
FixMirrorIDInPlace(n) ==
    /\ pc[n] = "fix"
    /\ db' = [k \in (DOMAIN db \ {MirrorKey(name) : name \in Name})
                    \cup {MirrorKey(id) : id \in DOMAIN mids[n]} |->
                IF k[1] = "MIRROR" /\ k[2] \in DOMAIN mids[n]
                THEN {mids[n][k[2]], k[2]} ELSE db[k]]
    /\ Proceed(n, "stats")
    /\ UNCHANGED <<version, lastMID, lock, local, crashes, stalls, lost>>

\* FixMirrorID copies MIRROR_<name> to V1_MIRROR_<id> and sets its fields ID and
\* name; a mirror without MIRROR_<name> is an error.
FixMirrorID(n) ==
    LET ids == DOMAIN mids[n]
        works == {Work(MirrorKey(id)) : id \in ids}
        sent == [k \in works |-> {k[2][2]}]
    IN /\ pc[n] = "fix"
       /\ \/ /\ \A id \in ids : MirrorKey(mids[n][id]) \in DOMAIN db
             /\ \E got \in Arrives(sent) :
                   /\ db' = Put(db, [k \in works |->
                                        db[MirrorKey(mids[n][k[2][2]])] \cup got[k]])
                   /\ Loses(sent, got)
             /\ actions' = [actions EXCEPT ![n] =
                  [rename |-> Put(@.rename, [k \in works |-> k[2]]),
                   delete |-> {MirrorKey(mids[n][id]) : id \in ids}]]
             /\ Proceed(n, "stats")
             /\ UNCHANGED failed
          \/ /\ \E id \in ids : MirrorKey(mids[n][id]) \notin DOMAIN db
             /\ Fail(n)
             /\ UNCHANGED <<db, actions, crashes, lost>>
       /\ UNCHANGED <<version, lastMID, lock, held, mids, todo, stalls>>

\* RenameStats: the counters of the mirrors that still exist.  A hash without any
\* is not marked for renaming.
RenameStats(n) ==
    LET ids(t) == IF Stats(t) \in DOMAIN db THEN IdsOf(n, DOMAIN db[Stats(t)]) ELSE {}
        works == {Work(Stats(t)) : t \in {p \in Period : ids(p) # {}}}
        sent == [k \in works |-> ids(k[2][2])]
    IN /\ pc[n] = "stats"
       /\ \E got \in Arrives(sent) :
             /\ db' = Put(db, [k \in NonEmpty(got) |-> [id \in got[k] |-> db[k[2]][mids[n][id]]]])
             /\ Loses(sent, got)
       /\ actions' = [actions EXCEPT ![n].rename = Put(@, [k \in works |-> k[2]])]
       /\ Proceed(n, "exec")
       /\ UNCHANGED <<version, lastMID, lock, held, mids, todo, failed, stalls>>

\* The transaction.  A RENAME whose key is missing fails alone: Redis executes
\* the other commands, and EXEC returns no error.
Exec(n) ==
    LET rename == actions[n].rename
        moved == DOMAIN rename \cap DOMAIN db
        deleted == actions[n].delete \ Range(rename)
        source(k) == CHOOSE s \in moved : rename[s] = k
        targets == {rename[s] : s \in moved}
    IN /\ pc[n] = "exec"
       /\ db' = [k \in (((DOMAIN db \ moved) \cup targets) \ deleted) |->
                    IF k \in targets THEN db[source(k)] ELSE db[k]]
       /\ version' = 1
       /\ Proceed(n, "release")
       /\ UNCHANGED <<lastMID, lock, local, crashes, stalls, lost>>

-----------------------------------------------------------------------------
(* Lock.Release, the keepalive and the expiry of the key                   *)

\* After Release, dbUpdateHandler closes ready, or ends the process; what Upgrade
\* had in its variables is forgotten.
Finish(n) ==
    /\ Proceed(n, IF failed[n] THEN "exited" ELSE "ready")
    /\ mids' = [mids EXCEPT ![n] = << >>]
    /\ todo' = [todo EXCEPT ![n] = {}]
    /\ actions' = [actions EXCEPT ![n] = NoActions]
    /\ UNCHANGED failed

\* Release: GET, and DEL only if the value is still ours.
Release(n) ==
    /\ pc[n] = "release"
    /\ held' = [held EXCEPT ![n] = FALSE]
    /\ \/ held[n] /\ lock = n /\ Proceed(n, "del") /\ UNCHANGED <<mids, todo, actions, failed>>
       \/ ~(held[n] /\ lock = n) /\ Finish(n)
    /\ UNCHANGED <<db, version, lastMID, lock, crashes, stalls, lost>>

\* DEL, whoever owns the key by now.
DeleteKey(n) ==
    /\ pc[n] = "del"
    /\ lock' = NoNode
    /\ Finish(n)
    /\ UNCHANGED <<db, version, lastMID, held, crashes, stalls, lost>>

\* keepalive finds that the key is not ours any more; nobody reads Held().
\* (When the key is ours it sets its expiry again, which is why it expires only
\* under a holder that stalls.)
Keepalive(n) ==
    /\ held[n] /\ lock # n
    /\ held' = [held EXCEPT ![n] = FALSE]
    /\ UNCHANGED <<db, version, lastMID, lock, pc, mids, todo, actions, failed, crashes,
                   stalls, lost>>

\* Mutant: SET without PX.
NeverExpires ==
    /\ lock \in Node /\ stalls < StallBudget
    /\ lock' = NoNode
    /\ stalls' = stalls + 1
    /\ UNCHANGED <<db, version, lastMID, pc, local, crashes, lost>>

\* The key expires: its owner is dead, or could not reach Redis for five seconds.
Expire ==
    /\ \/ lock = Orphan /\ UNCHANGED stalls
       \/ lock \in Node /\ stalls < StallBudget /\ stalls' = stalls + 1
    /\ lock' = NoNode
    /\ UNCHANGED <<db, version, lastMID, pc, local, crashes, lost>>

-----------------------------------------------------------------------------
(* Failures                                                                *)

\* A command of the upgrade whose reply is read fails, or the connection under it:
\* Upgrade returns the error.
CommandFails(n) ==
    /\ crashes < CrashBudget
    /\ crashes' = crashes + 1
    /\ pc[n] \in {"erase", "index", "assign", "fix", "stats", "exec"}
    /\ Fail(n)
    /\ UNCHANGED <<db, version, lastMID, lock, held, mids, todo, actions, stalls, lost>>

Fresh(n) ==
    /\ held' = [held EXCEPT ![n] = FALSE]
    /\ mids' = [mids EXCEPT ![n] = << >>]
    /\ todo' = [todo EXCEPT ![n] = {}]
    /\ actions' = [actions EXCEPT ![n] = NoActions]
    /\ failed' = [failed EXCEPT ![n] = FALSE]
    /\ Proceed(n, "check")

\* The process dies and is started again.
Crash(n) ==
    /\ crashes < CrashBudget
    /\ crashes' = crashes + 1
    /\ pc[n] \notin {"check", "exited"}
    /\ lock' = IF lock = n THEN Orphan ELSE lock
    /\ Fresh(n)
    /\ UNCHANGED <<db, version, lastMID, stalls, lost>>

\* The process that log.Fatalf ended is started again, perhaps.
Restart(n) ==
    /\ pc[n] = "exited"
    /\ Fresh(n)
    /\ UNCHANGED <<db, version, lastMID, lock, crashes, stalls, lost>>

dbUpdateHandler(n) ==
    \/ UpgradeNeeded(n) \/ Upgrade(n) \/ AcquireLock(n)
    \/ Erase(n) \/ ReadMirrors(n) \/ AssignId(n) \/ RenameKeys(n)
    \/ FixMirrorID(n) \/ RenameStats(n) \/ Exec(n)
    \/ Release(n) \/ DeleteKey(n)

UpgradeNext ==
    \/ \E n \in Node :
          dbUpdateHandler(n) \/ Keepalive(n) \/ CommandFails(n) \/ Crash(n) \/ Restart(n)
    \/ Expire

UpgradeSpec == UpgradeInit /\ [][UpgradeNext]_upgradeVars

\* A process that runs makes progress, and the key of a dead owner expires.
FairUpgrade ==
    /\ UpgradeSpec
    /\ \A n \in Node : WF_upgradeVars(dbUpdateHandler(n))
    /\ WF_upgradeVars(Expire /\ lock = Orphan)

UpgradeTypeOK ==
    /\ version \in {0, 1} /\ lastMID \in 0..MaxId
    /\ lock \in Node \cup {NoNode, Orphan}
    /\ held \in [Node -> BOOLEAN] /\ failed \in [Node -> BOOLEAN]
    /\ todo \in [Node -> SUBSET Name]
    /\ \A n \in Node : DOMAIN mids[n] \subseteq 1..MaxId
    /\ crashes \in 0..CrashBudget /\ stalls \in 0..StallBudget

-----------------------------------------------------------------------------
(* Properties                                                              *)

\* The database without the work keys.
Data == Restrict(db, {k \in DOMAIN db : ~IsWork(k)})

\* As long as the version is not set the data of version 0 is untouched,
\* whatever failed, died, stalled or ran twice on the way: it is still safe to
\* run a previous version of mirrorbits.
OldDataIntact == version = 0 => Data \in {Version0, << >>}

\* A database of version 1, with the names under the identifiers of index.
Keys1(index) ==
    {Mirrors} \cup {MirrorKey(id) : id \in DOMAIN index}
        \cup {FilesKey(id) : id \in {i \in DOMAIN index : FilesOf[index[i]] # {}}}
        \cup {FileMirrors(f) : f \in {g \in File : ServedBy(g) # {}}}
        \cup {Stats(t) : t \in {p \in Period : Counted[p] # {}}}

\* The identifiers of some names.
Of(index, names) == {id \in DOMAIN index : index[id] \in names}

Value1(index, k) ==
    CASE k = Mirrors -> [type |-> "hash", content |-> index]
      [] k[1] = "STATS_MIRROR" ->
            LET ids == Of(index, Counted[k[2]])
            IN  IF ids = {} THEN Value0(k) ELSE [id \in ids |-> index[id]]
      [] k[1] = "MIRROR" -> {index[k[2]], k[2]}
      [] k[1] = "MIRRORFILES" -> FilesOf[index[k[2]]]
      [] k[1] = "FILEMIRRORS" ->
            IF k[2] \in Repository THEN Of(index, ServedBy(k[2])) ELSE Value0(k)

\* Once the version is set, the keys of every mirror are those of one new
\* identifier each, and the record, the files, the counters and the servers of
\* every file of the repository are what they were under the names: failed
\* upgrades that left work keys, and identifiers they have used up, leave no
\* trace.  Two things are not converted, as in the code: the servers of a file
\* that is not in FILES, and a statistic that counts removed mirrors only.  Two
\* things can break it, and are excepted: a holder of the lock that stalled, and a
\* key whose last writes were lost with their replies (lost), which keeps its
\* names or a part of its members although the version says it was converted.
UpgradeConverts ==
    (version = 1 /\ stalls = 0 /\ Data # << >>) =>
        \E index \in [DOMAIN db[Mirrors].content -> Name] :
            /\ index \in Bijection(DOMAIN index, Name)
            /\ DOMAIN Data = Keys1(index)
            /\ \A k \in DOMAIN Data \ lost : Data[k] = Value1(index, k)

\* Every process that starts becomes ready, or has ended with an error: one that
\* dies holding the lock blocks the others for as long as its key lives.
Starts == \A n \in Node : pc[n] = "check" ~> pc[n] \in {"ready", "exited"}
=============================================================================
