----------------------------- MODULE SourceScan -----------------------------
(***************************************************************************)
(* The scan of the repository (scan/scan.go, ScanSource): a scanner reads  *)
(* the list of the files line by line into the tree that its process is    *)
(* building (FileTree), publishes the tree, and then, under the cluster    *)
(* lock SOURCE_REPO_SYNC, replaces the index of Redis in two transactions. *)
(*                                                                         *)
(* A process runs two scanners: the ticker of the monitor and the RPC      *)
(* RefreshRepository.  They share fileTree and fileTreeReplica, and        *)
(* nothing keeps them from running at the same time.  Processes die at any *)
(* step (Go ends one that it catches writing a map twice at once), and     *)
(* connections fail.                                                       *)
(***************************************************************************)
EXTENDS FileTree

CONSTANTS
    Process, Ticker, Rpc,  \* the scanners of both kinds
    ProcessOf,             \* the process of each scanner
    NoScanner, Orphan,     \* no owner of the lock; one that died or left it
    Lists,                 \* the lists of the repository, one after the other
    MaxRetry,              \* 10 in the code
    MaxFaults              \* bound on the failures, deaths and stalls

Scanner == Ticker \cup Rpc

ASSUME SourceScanAssumption ==
    /\ ProcessOf \in [Scanner -> Process]
    /\ {NoScanner, Orphan} \cap Scanner = {} /\ NoScanner # Orphan
    /\ MaxRetry \in Nat /\ MaxFaults \in Nat
    /\ Lists \in Seq(Seq(Line)) /\ Lists # << >>

VARIABLES
    current,       \* the list RepositoryFileListText holds now
    built,         \* the replica that was last published, in each process
    fileTreeReplica,
    at,            \* the step of ScanSource a scanner is at
    lines,         \* the lines a scanner has not read yet
    sourceFiles,   \* the files it has found
    broken,        \* its connection has failed
    retry,
    toremove,
    sourceLock,    \* the owner of LOCK_SOURCE_REPO_SYNC
    FILES, FILES_TMP,
    FILE,          \* the paths that have a hash FILE_<path>
    faults,
    overlap,       \* two scanners of a process have run at once
    stalled,       \* the lock has expired under its owner
    cut,           \* the scanners whose reading of the list has failed
    refused,       \* the scanners that have lost a file to an error of HMGET
    clipped,       \* the processes that serve the tree of a list that was cut
    partial,       \* the keys that hold the files of such scanners
    void           \* the last scan to commit has found no file at all

trees == <<built, fileTreeReplica, clipped>>
local == <<lines, sourceFiles, broken, retry, toremove, cut, refused>>
redis == <<FILES, FILES_TMP, FILE, partial, void>>
repositoryVars == <<current, trees, at, local, sourceLock, redis, faults, overlap, stalled>>

RepositoryInit ==
    /\ current = 1
    /\ built = [p \in Process |-> NoFiles]
    /\ fileTreeReplica = [p \in Process |-> NoFiles]
    /\ at = [s \in Scanner |-> "idle"]
    /\ lines = [s \in Scanner |-> << >>]
    /\ sourceFiles = [s \in Scanner |-> {}]
    /\ broken = [s \in Scanner |-> FALSE]
    /\ retry = [s \in Scanner |-> MaxRetry]
    /\ toremove = [s \in Scanner |-> {}]
    /\ sourceLock = NoScanner
    /\ FILES = {} /\ FILES_TMP = {} /\ FILE = {}
    /\ faults = 0
    /\ overlap = FALSE
    /\ stalled = FALSE
    /\ cut = {} /\ refused = {} /\ clipped = {} /\ partial = {}
    /\ void = FALSE

\* fileTree, as collectRepoVersionList leaves it.
fileTree(p) == collectRepoVersionList(built[p]).store

Goto(s, l) == at' = [at EXCEPT ![s] = l]

\* ScanSource returns: its variables are gone.
Return(own) ==
    /\ at' = [s \in Scanner |-> IF s \in own THEN "idle" ELSE at[s]]
    /\ lines' = [s \in Scanner |-> IF s \in own THEN << >> ELSE lines[s]]
    /\ sourceFiles' = [s \in Scanner |-> IF s \in own THEN {} ELSE sourceFiles[s]]
    /\ broken' = [s \in Scanner |-> s \notin own /\ broken[s]]
    /\ retry' = [s \in Scanner |-> IF s \in own THEN MaxRetry ELSE retry[s]]
    /\ toremove' = [s \in Scanner |-> IF s \in own THEN {} ELSE toremove[s]]
    /\ cut' = cut \ own
    /\ refused' = refused \ own

Building(p) == {s \in Scanner : ProcessOf[s] = p /\ at[s] = "read"}

-----------------------------------------------------------------------------
(* ScanSource                                                              *)

Start(s) ==
    /\ at[s] = "idle"
    /\ Goto(s, "read")
    /\ lines' = [lines EXCEPT ![s] = Lists[current]]
    /\ overlap' = (overlap \/ Building(ProcessOf[s]) # {})
    /\ UNCHANGED <<current, trees, sourceFiles, broken, retry, toremove, cut, refused,
                   sourceLock, redis, faults, stalled>>

\* A line that passes the filter grows the tree; walkSource drops it from the
\* files found if HMGET fails.
ReadLine(s) ==
    LET p == ProcessOf[s]
        line == Head(lines[s])
    IN /\ at[s] = "read" /\ lines[s] # << >>
       /\ lines' = [lines EXCEPT ![s] = Tail(@)]
       /\ \/ /\ Filter(line.path)
             /\ fileTreeReplica' = [fileTreeReplica EXCEPT ![p] = BuildFileTree(@, line)]
             /\ sourceFiles' = [sourceFiles EXCEPT ![s] =
                                    IF broken[s] THEN @ ELSE @ \cup {line.path}]
          \/ /\ ~Filter(line.path)
             /\ UNCHANGED <<fileTreeReplica, sourceFiles>>
       /\ UNCHANGED <<current, built, clipped, at, broken, retry, toremove, cut, refused,
                      sourceLock, redis, faults, overlap, stalled>>

\* Mutant: the next scan grows the tree that is being served.
UpdateFileTreeShared(s) ==
    LET p == ProcessOf[s]
    IN /\ at[s] = "read" /\ lines[s] = << >>
       /\ built' = [built EXCEPT ![p] = fileTreeReplica[p]]
       /\ clipped' = IF s \in cut THEN clipped \cup {p} ELSE clipped \ {p}
       /\ Goto(s, "lock")
       /\ UNCHANGED <<current, fileTreeReplica, local, sourceLock, redis, faults, overlap, stalled>>

\* At the end of the list, or of what could be read of it: the replica becomes the
\* tree, and (in the same step: UpdateFileTree has the lock of the tree) is
\* collected.
UpdateFileTree(s) ==
    LET p == ProcessOf[s]
    IN /\ at[s] = "read" /\ lines[s] = << >>
       /\ built' = [built EXCEPT ![p] = fileTreeReplica[p]]
       /\ fileTreeReplica' = [fileTreeReplica EXCEPT ![p] = NoFiles]
       /\ clipped' = IF s \in cut THEN clipped \cup {p} ELSE clipped \ {p}
       /\ Goto(s, "lock")
       /\ UNCHANGED <<current, local, sourceLock, redis, faults, overlap, stalled>>

\* Mutant: after the last try the scan goes on without the lock.
GetLockAnyway(s) ==
    /\ at[s] = "lock"
    /\ IF sourceLock = NoScanner
       THEN sourceLock' = s /\ Goto(s, "index") /\ UNCHANGED retry
       ELSE /\ retry' = [retry EXCEPT ![s] = IF @ = 0 THEN 0 ELSE @ - 1]
            /\ Goto(s, IF retry[s] = 0 THEN "index" ELSE "lock")
            /\ UNCHANGED sourceLock
    /\ UNCHANGED <<current, trees, lines, sourceFiles, broken, toremove, cut, refused, redis,
                   faults, overlap, stalled>>

\* NewClusterLock, Get: the lock, another try or ErrScanInProgress (for an error
\* see GiveUp).
GetLock(s) ==
    /\ at[s] = "lock"
    /\ \/ retry[s] = 0 /\ Return({s}) /\ UNCHANGED sourceLock
       \/ /\ retry[s] > 0 /\ sourceLock = NoScanner
          /\ sourceLock' = s
          /\ Goto(s, "index")
          /\ UNCHANGED local
       \/ /\ retry[s] > 0 /\ sourceLock # NoScanner
          /\ retry' = [retry EXCEPT ![s] = @ - 1]
          /\ UNCHANGED <<sourceLock, at, lines, sourceFiles, broken, toremove, cut, refused>>
    /\ UNCHANGED <<current, trees, redis, faults, overlap, stalled>>

\* The scanner has not found all the files of its list.
Lossy(s) == s \in cut \cup refused

\* Mutant: what a scan that was cut short has left over is kept.
AddFilesToLeftOver(s) ==
    /\ at[s] = "index"
    /\ \/ broken[s] /\ Goto(s, "release") /\ UNCHANGED FILES_TMP
       \/ ~broken[s] /\ Goto(s, "diff") /\ FILES_TMP' = FILES_TMP \cup sourceFiles[s]
    /\ partial' = IF Lossy(s) /\ ~broken[s] THEN partial \cup {"FILES_TMP"} ELSE partial
    /\ UNCHANGED <<current, trees, local, sourceLock, FILES, FILE, void, faults, overlap,
                   stalled>>

\* The first transaction: DEL FILES_TMP, SADD FILES_TMP.
AddFiles(s) ==
    /\ at[s] = "index"
    /\ \/ broken[s] /\ Goto(s, "release") /\ UNCHANGED <<FILES_TMP, partial>>
       \/ /\ ~broken[s] /\ Goto(s, "diff")
          /\ FILES_TMP' = sourceFiles[s]
          /\ partial' = (partial \ {"FILES_TMP"}) \cup
                            {key \in {"FILES_TMP"} : Lossy(s)}
    /\ UNCHANGED <<current, trees, local, sourceLock, FILES, FILE, void, faults, overlap,
                   stalled>>

\* SDIFF FILES FILES_TMP, whose error is overwritten.
DiffFiles(s) ==
    /\ at[s] = "diff"
    /\ toremove' = [toremove EXCEPT ![s] = IF broken[s] THEN {} ELSE FILES \ FILES_TMP]
    /\ Goto(s, "commit")
    /\ UNCHANGED <<current, trees, lines, sourceFiles, broken, retry, cut, refused, sourceLock,
                   redis, faults, overlap, stalled>>

\* The second transaction.  RENAME fails alone if there is no FILES_TMP.
Commit(s) ==
    /\ at[s] = "commit"
    /\ Goto(s, "release")
    /\ \/ broken[s] /\ UNCHANGED redis
       \/ /\ ~broken[s]
          /\ FILE' = (FILE \cup sourceFiles[s]) \ toremove[s]
          /\ FILES' = IF FILES_TMP = {} THEN FILES ELSE FILES_TMP
          /\ FILES_TMP' = {}
          /\ void' = (FILES_TMP = {})
          /\ partial' = {key \in {"FILES"} :
                            IF FILES_TMP = {} THEN "FILES" \in partial
                                              ELSE "FILES_TMP" \in partial}
    /\ UNCHANGED <<current, trees, local, sourceLock, faults, overlap, stalled>>

\* The deferred Release.  The keeper of the lock deletes the key, if it is still
\* its own (ClusterLock, DeletesOwnKey); a key it does not get to is left to
\* expire.
Release(s) ==
    /\ at[s] = "release"
    /\ Return({s})
    /\ sourceLock' \in IF sourceLock = s THEN {NoScanner, Orphan} ELSE {sourceLock}
    /\ UNCHANGED <<current, trees, redis, faults, overlap, stalled>>

ScanSource(s) ==
    \/ Start(s) \/ ReadLine(s) \/ UpdateFileTree(s) \/ GetLock(s)
    \/ AddFiles(s) \/ DiffFiles(s) \/ Commit(s) \/ Release(s)

-----------------------------------------------------------------------------
(* The environment                                                         *)

\* The list is replaced by the next one.
Publish ==
    /\ current < Len(Lists)
    /\ current' = current + 1
    /\ UNCHANGED <<trees, at, local, sourceLock, redis, faults, overlap, stalled>>

Fault == faults < MaxFaults /\ faults' = faults + 1

\* The list cannot be read to its end: the error is logged, and the scan goes on
\* with what it has read.
CutShort(s) ==
    /\ Fault
    /\ at[s] = "read" /\ lines[s] # << >>
    /\ lines' = [lines EXCEPT ![s] = << >>]
    /\ cut' = cut \cup {s}
    /\ UNCHANGED <<current, trees, at, sourceFiles, broken, retry, toremove, refused,
                   sourceLock, redis, overlap, stalled>>

\* HMGET answers with an error: the file is in the tree and not in the index.
RefuseFile(s) ==
    LET p == ProcessOf[s]
        line == Head(lines[s])
    IN /\ Fault
       /\ at[s] = "read" /\ lines[s] # << >> /\ Filter(line.path)
       /\ lines' = [lines EXCEPT ![s] = Tail(@)]
       /\ fileTreeReplica' = [fileTreeReplica EXCEPT ![p] = BuildFileTree(@, line)]
       /\ refused' = refused \cup {s}
       /\ UNCHANGED <<current, built, clipped, at, sourceFiles, broken, retry, toremove, cut,
                      sourceLock, redis, overlap, stalled>>

\* ScanSource returns before it indexes: it is stopped, or lock.Get fails, which
\* may leave a key that nobody deletes (ClusterLock).
GiveUp(s) ==
    /\ Fault
    /\ at[s] = "lock" /\ retry[s] > 0
    /\ Return({s})
    /\ sourceLock' \in IF sourceLock = NoScanner THEN {NoScanner, Orphan} ELSE {sourceLock}
    /\ UNCHANGED <<current, trees, redis, overlap, stalled>>

\* The connection of a scanner fails; every later command on it fails too.
Disconnect(s) ==
    /\ Fault
    /\ at[s] # "idle" /\ ~broken[s]
    /\ broken' = [broken EXCEPT ![s] = TRUE]
    /\ UNCHANGED <<current, trees, at, lines, sourceFiles, retry, toremove, cut, refused,
                   sourceLock, redis, overlap, stalled>>

ScanFails(s) == CutShort(s) \/ RefuseFile(s) \/ GiveUp(s) \/ Disconnect(s)

\* The process dies, or is stopped, and is started again.
Restart(p) ==
    LET own == {s \in Scanner : ProcessOf[s] = p}
    IN /\ Fault
       /\ \E s \in own : at[s] # "idle"
       /\ Return(own)
       /\ built' = [built EXCEPT ![p] = NoFiles]
       /\ fileTreeReplica' = [fileTreeReplica EXCEPT ![p] = NoFiles]
       /\ clipped' = clipped \ {p}
       /\ sourceLock' = IF sourceLock \in own THEN Orphan ELSE sourceLock
       /\ UNCHANGED <<current, redis, overlap, stalled>>

\* Mutant: the key has no TTL.
ExpireNever ==
    /\ sourceLock \in Scanner /\ Fault
    /\ stalled' = TRUE
    /\ sourceLock' = NoScanner
    /\ UNCHANGED <<current, trees, at, local, redis, overlap>>

\* The key of the lock expires: its owner has died or left it, or is slow (the
\* key is not refreshed).
Expire ==
    /\ \/ sourceLock = Orphan /\ UNCHANGED <<faults, stalled>>
       \/ sourceLock \in Scanner /\ Fault /\ stalled' = TRUE
    /\ sourceLock' = NoScanner
    /\ UNCHANGED <<current, trees, at, local, redis, overlap>>

RepositoryNext ==
    \/ \E s \in Scanner : ScanSource(s) \/ ScanFails(s)
    \/ \E p \in Process : Restart(p)
    \/ Publish
    \/ Expire

RepositorySpec == RepositoryInit /\ [][RepositoryNext]_repositoryVars

\* A scan that has begun goes on, the ticker starts one again and again, and a
\* key that nobody refreshes expires.
FairRepository ==
    /\ RepositorySpec
    /\ \A s \in Ticker : WF_repositoryVars(ScanSource(s))
    /\ \A s \in Rpc : WF_repositoryVars(ScanSource(s) /\ at[s] # "idle")
    /\ WF_repositoryVars(Expire /\ sourceLock = Orphan)

RepositoryTypeOK ==
    /\ current \in 1..Len(Lists)
    /\ at \in [Scanner -> {"idle", "read", "lock", "index", "diff", "commit", "release"}]
    /\ retry \in [Scanner -> 0..MaxRetry]
    /\ broken \in [Scanner -> BOOLEAN]
    /\ sourceLock \in Scanner \cup {NoScanner, Orphan}
    /\ faults \in 0..MaxFaults
    /\ cut \subseteq Scanner /\ refused \subseteq Scanner /\ clipped \subseteq Process
    /\ partial \subseteq {"FILES", "FILES_TMP"}

-----------------------------------------------------------------------------
(* Properties                                                              *)

IndexOf == [i \in DOMAIN Lists |-> Indexed(Lists[i])]
AllFiles == Range(IndexOf)
AllTrees == {UNION {Ancestry(path) : path \in files} : files \in AllFiles \cup {{}}}

\* The index in Redis is the whole of one list, however scans are cut short by a
\* failure, between their two transactions or against each other, unless the scan
\* that wrote it has lost a part of its list to a failed read of the list or to an
\* error of HMGET, which ScanSource logs and then commits what is left; and even
\* then it is a part of one list and never a mixture of two.
FilesWhole ==
    /\ \E files \in AllFiles : FILES \subseteq files
    /\ "FILES" \notin partial => FILES \in AllFiles \cup {{}}

\* FILES and the hashes FILE_<path> speak of the same files, unless the lock has
\* expired under a scan: no hash is orphaned and no file of the index lacks one.
\* The exception is a scan that finds nothing: it takes all the hashes away, and
\* its RENAME fails, so that FILES stays as it was until the next scan.
IndexAgrees == ~stalled => FILE = IF void THEN {} ELSE FILES

\* If the two scanners of a process have never run at once (they fill the same
\* replica, and each publishes what is there), the tree it serves is part of one
\* list, and all of it unless the reading of the list has failed: that error is
\* logged, and what has been read until then is published.
TreeWhole ==
    ~overlap => \A p \in Process :
        LET files == DOMAIN fileTree(p).mapping
        IN /\ \E tree \in AllTrees : files \subseteq tree
           /\ p \notin clipped => files \in AllTrees

\* For every version the website shows, the file the mirrors are first asked for
\* is a file of that version, never a directory, although directories pass the
\* filter and can be the most recent entry; versions without a time are left out.
\* A directory is what has something in it (IsDir): an empty directory that passes
\* the filter would be taken for a file, as in the code.
SelectsFiles ==
    \A p \in Process :
        LET collected == collectRepoVersionList(built[p])
            tree == collected.store
            selected == collected.selected
            file == [i \in DOMAIN selected |-> tree.mapping[selected[i]].path]
        IN \A r \in RepoVersionList(tree) : r.version \in DOMAIN tree.selector =>
             LET own == {i \in DOMAIN selected : Head(file[i]) = r.version}
             IN \E i \in own : (\A j \in own : i <= j) /\ ~IsDir(tree, file[i])

\* Once the repository no longer changes, the index comes to be its list and
\* stays so, whatever old or incomplete list a slow scan has still to commit.  (A
\* list with no file in it would never be indexed: see IndexAgrees.)
Converges == <>[](FILES = IndexOf[current])
=============================================================================
