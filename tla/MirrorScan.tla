----------------------------- MODULE MirrorScan -----------------------------
(***************************************************************************)
(* The file index of one mirror in Redis, and everything that writes it:   *)
(* the scans of scan/scan.go and scan/http.go (several may be started, by  *)
(* the monitors of the cluster or by the ScanMirror RPC), the RemoveMirror *)
(* RPC of rpc/rpc.go, the health checks of daemon/monitor.go and the       *)
(* refresh of the local repository (ScanSource).                           *)
(*                                                                         *)
(* Every Redis command, and every MULTI/EXEC block, is one atomic step;    *)
(* what the code does between two commands can be interleaved with the     *)
(* steps of the others.  The scan lock is kept at the level its callers    *)
(* see (ClusterLock has the details): it is granted when nobody owns it,   *)
(* may expire under a running scan, and is deleted only by its owner or by *)
(* RemoveMirror.                                                           *)
(*                                                                         *)
(* A version of the repository is represented by the path of its first     *)
(* file, the only path HttpScanner.Scan ever records for it.               *)
(***************************************************************************)
EXTENDS Naturals

CONSTANTS
    File,      \* paths
    Session,   \* calls of scan.Scan for this mirror
    NoSession, \* nobody owns the lock
    MaxRefresh \* how many times the local repository is refreshed

ASSUME ScanAssumption ==
    /\ NoSession \notin Session
    /\ MaxRefresh \in Nat

VARIABLES
    known,      \* the mirror is in MIRRORS
    record,     \* MIRROR_<id>: "absent", "full", or "partial" (no ID field)
    mirrorFiles,  \* MIRRORFILES_<id>
    filesTmp,     \* MIRRORFILESTMP_<id>
    fileMirrors,  \* the files f such that FILEMIRRORS_f contains this mirror
    fileInfo,     \* the files f such that FILEINFO_<id>_f exists
    handled,      \* HANDLEDFILES_<id>
    lock,         \* owner of SCANNING_<id>
    files,        \* FILES, the paths of the local repository
    selector,     \* the versions of the file tree kept in memory
    refreshes,    \* how many ScanSource have started
    refresh,      \* a ScanSource has switched the file tree, not yet FILES
    pc,           \* where each scan is
    versions,     \* the selector list a scan works on
    indexed,      \* s.count > 0
    toRemove,     \* result of SDIFF
    rpc,          \* where RemoveMirror is
    rpcFiles,     \* result of SMEMBERS in RemoveMirror
    checking,     \* a health check is waiting for the answer of the mirror
    disturbed,    \* history: an event after which the index may be damaged
    late          \* history: a scan took the lock of a mirror that was gone

scanVars == <<pc, versions, indexed, toRemove>>
indexVars == <<mirrorFiles, filesTmp, fileMirrors, fileInfo, handled>>
rpcVars == <<rpc, rpcFiles>>
sourceVars == <<files, selector, refreshes, refresh>>
vars == <<known, record, indexVars, lock, sourceVars, scanVars, rpcVars,
          checking, disturbed, late>>

TypeOK ==
    /\ known \in BOOLEAN
    /\ record \in {"absent", "full", "partial"}
    /\ mirrorFiles \subseteq File /\ filesTmp \subseteq File
    /\ fileMirrors \subseteq File /\ fileInfo \subseteq File
    /\ handled \subseteq File
    /\ lock \in Session \cup {NoSession}
    /\ files \subseteq File /\ selector \subseteq File
    /\ refreshes \in 0..MaxRefresh /\ refresh \in BOOLEAN
    /\ pc \in [Session -> {"idle", "named", "locked", "probing", "indexed", "diffed",
                           "pruned", "renamed", "stored"}]
    /\ versions \in [Session -> SUBSET File]
    /\ indexed \in [Session -> BOOLEAN]
    /\ toRemove \in [Session -> SUBSET File]
    /\ rpc \in {"idle", "disabled", "listed", "done"}
    /\ rpcFiles \subseteq File
    /\ checking \in BOOLEAN
    /\ disturbed \in BOOLEAN /\ late \in BOOLEAN

\* A mirror that has just been added (rpc.AddMirror) to a running system.
Init ==
    /\ known = TRUE
    /\ record = "full"
    /\ mirrorFiles = {} /\ filesTmp = {}
    /\ fileMirrors = {} /\ fileInfo = {} /\ handled = {}
    /\ lock = NoSession
    /\ files = File
    /\ selector = File
    /\ refreshes = 0
    /\ refresh = FALSE
    /\ pc = [s \in Session |-> "idle"]
    /\ versions = [s \in Session |-> {}]
    /\ indexed = [s \in Session |-> FALSE]
    /\ toRemove = [s \in Session |-> {}]
    /\ rpc = "idle" /\ rpcFiles = {}
    /\ checking = FALSE
    /\ disturbed = FALSE /\ late = FALSE

\* s has obtained the lock, whether or not it still owns it.
Active(s) == pc[s] \notin {"idle", "named"}
Quiet == \A s \in Session : ~Active(s)

\* HSET / HMSET of some fields of MIRROR_<id>: creates the key if need be.
WriteRecord == record' = IF record = "absent" THEN "partial" ELSE record

Disturb(bad) == disturbed' = (disturbed \/ bad)

\* The end of a scan: its local variables are gone.
EndScan(s) ==
    /\ pc' = [pc EXCEPT ![s] = "idle"]
    /\ versions' = [versions EXCEPT ![s] = {}]
    /\ indexed' = [indexed EXCEPT ![s] = FALSE]
    /\ toRemove' = [toRemove EXCEPT ![s] = {}]

\* The deferred lock.Release(): the key of s is deleted, or left to expire when
\* the keeper of the lock has parked or its connection fails.
ReleaseLock(s) == lock' = lock \/ (lock = s /\ lock' = NoSession)

-----------------------------------------------------------------------------
(* scan.Scan                                                               *)

\* HGET MIRRORS: the name of the mirror, which proves that it exists.
ScanName(s) ==
    /\ pc[s] = "idle"
    /\ known
    /\ pc' = [pc EXCEPT ![s] = "named"]
    /\ UNCHANGED <<known, record, indexVars, lock, sourceVars, versions, indexed,
                   toRemove, rpcVars, checking, disturbed, late>>

\* lock.Get(), a later command: nothing checks that the mirror is still there.
ScanLock(s) ==
    /\ pc[s] = "named"
    /\ lock = NoSession
    /\ lock' = s
    /\ pc' = [pc EXCEPT ![s] = "locked"]
    /\ Disturb(~Quiet \/ rpc = "listed")
    /\ late' = (late \/ ~known)
    /\ UNCHANGED <<known, record, indexVars, sourceVars, versions, indexed,
                   toRemove, rpcVars, checking>>

\* The lock is taken (ErrScanInProgress), or lock.Get returns an error, possibly
\* one that hides a SET that was executed.
ScanRefused(s) ==
    /\ pc[s] = "named"
    /\ pc' = [pc EXCEPT ![s] = "idle"]
    /\ lock' = lock \/ (lock = NoSession /\ lock' = s)
    /\ UNCHANGED <<known, record, indexVars, sourceVars, versions, indexed,
                   toRemove, rpcVars, checking, disturbed, late>>

\* setLastSync(false), then GetSelectorList.
ScanBegin(s) ==
    /\ pc[s] = "locked"
    /\ WriteRecord
    /\ pc' = [pc EXCEPT ![s] = "probing"]
    /\ versions' = [versions EXCEPT ![s] = selector]
    /\ UNCHANGED <<known, indexVars, lock, sourceVars, indexed, toRemove,
                   rpcVars, checking, disturbed, late>>

\* What HttpScanner.Scan can do to the versions vs.  For each one it has called
\* ScannerAddFile some number of times ("added" when at least once) and returned
\* an error or not ("failed"): success is added and not failed, an error after a
\* few files is both, a scan that is stopped or a mirror that answers badly is
\* failed only, and a network error on the first file, which returns a nil error,
\* is neither.
HttpScan(vs) == [added : SUBSET vs, failed : SUBSET vs]

\* Mutant: a version that fails is removed from FILEMIRRORS but its FILEINFO
\* is left behind.
ScanCommitKeepsInfo(s) ==
    /\ pc[s] = "probing"
    /\ \E result \in HttpScan(versions[s]) :
          /\ filesTmp' = result.added
          /\ fileMirrors' = (fileMirrors \cup result.added) \ result.failed
          /\ fileInfo' = fileInfo \cup result.added
          /\ indexed' = [indexed EXCEPT ![s] = result.added # {}]
    /\ pc' = [pc EXCEPT ![s] = "indexed"]
    /\ versions' = [versions EXCEPT ![s] = {}]
    /\ UNCHANGED <<known, record, mirrorFiles, handled, lock, sourceVars,
                   toRemove, rpcVars, checking, disturbed, late>>

\* The EXEC of the block built while the mirror was probed: ScannerAddFile for
\* the files found, SREM and DEL for the versions that failed, in that order.
\* The error of this EXEC is ignored: when Redis refuses the block, the scan goes
\* on with the lists as they were.
ScanCommit(s) ==
    /\ pc[s] = "probing"
    /\ \E result \in HttpScan(versions[s]) :
          /\ \/ /\ filesTmp' = result.added
                /\ fileMirrors' = (fileMirrors \cup result.added) \ result.failed
                /\ fileInfo' = (fileInfo \cup result.added) \ result.failed
             \/ UNCHANGED <<filesTmp, fileMirrors, fileInfo>>
          /\ indexed' = [indexed EXCEPT ![s] = result.added # {}]
    /\ pc' = [pc EXCEPT ![s] = "indexed"]
    /\ versions' = [versions EXCEPT ![s] = {}]
    /\ UNCHANGED <<known, record, mirrorFiles, handled, lock, sourceVars,
                   toRemove, rpcVars, checking, disturbed, late>>

\* Mutant: the operands of SDIFF are swapped.
ScanDiffSwapped(s) ==
    /\ pc[s] = "indexed"
    /\ toRemove' = [toRemove EXCEPT ![s] = filesTmp \ mirrorFiles]
    /\ pc' = [pc EXCEPT ![s] = "diffed"]
    /\ UNCHANGED <<known, record, indexVars, lock, sourceVars, versions,
                   indexed, rpcVars, checking, disturbed, late>>

\* SDIFF MIRRORFILES MIRRORFILESTMP
ScanDiff(s) ==
    /\ pc[s] = "indexed"
    /\ toRemove' = [toRemove EXCEPT ![s] = mirrorFiles \ filesTmp]
    /\ pc' = [pc EXCEPT ![s] = "diffed"]
    /\ UNCHANGED <<known, record, indexVars, lock, sourceVars, versions,
                   indexed, rpcVars, checking, disturbed, late>>

\* The EXEC that forgets the files no more present, if there are any.
ScanPrune(s) ==
    /\ pc[s] = "diffed"
    /\ fileMirrors' = fileMirrors \ toRemove[s]
    /\ fileInfo' = fileInfo \ toRemove[s]
    /\ pc' = [pc EXCEPT ![s] = "pruned"]
    /\ toRemove' = [toRemove EXCEPT ![s] = {}]
    /\ UNCHANGED <<known, record, mirrorFiles, filesTmp, handled, lock,
                   sourceVars, versions, indexed, rpcVars, checking,
                   disturbed, late>>

\* RENAME MIRRORFILESTMP MIRRORFILES, skipped when nothing was indexed.  When the
\* key is not there (the EXEC was refused, or someone else has taken it away)
\* RENAME fails and Scan returns.
ScanRename(s) ==
    /\ pc[s] = "pruned"
    /\ \/ /\ indexed[s] /\ filesTmp # {}
          /\ mirrorFiles' = filesTmp
          /\ filesTmp' = {}
          /\ pc' = [pc EXCEPT ![s] = "renamed"]
          /\ indexed' = [indexed EXCEPT ![s] = FALSE]
          /\ UNCHANGED <<lock, versions, toRemove>>
       \/ /\ ~indexed[s]
          /\ pc' = [pc EXCEPT ![s] = "renamed"]
          /\ UNCHANGED <<mirrorFiles, filesTmp, lock, versions, indexed, toRemove>>
       \/ /\ indexed[s] /\ filesTmp = {}
          /\ EndScan(s)
          /\ ReleaseLock(s)
          /\ UNCHANGED <<mirrorFiles, filesTmp>>
    /\ UNCHANGED <<known, record, fileMirrors, fileInfo, handled, sourceVars,
                   rpcVars, checking, disturbed, late>>

\* SINTERSTORE HANDLEDFILES FILES MIRRORFILES
ScanStore(s) ==
    /\ pc[s] = "renamed"
    /\ handled' = files \cap mirrorFiles
    /\ pc' = [pc EXCEPT ![s] = "stored"]
    /\ UNCHANGED <<known, record, mirrorFiles, filesTmp, fileMirrors, fileInfo,
                   lock, sourceVars, versions, indexed, toRemove, rpcVars,
                   checking, disturbed, late>>

\* setLastSync(true), adjustTZOffset, and the deferred Release.
ScanFinish(s) ==
    /\ pc[s] = "stored"
    /\ WriteRecord
    /\ EndScan(s)
    /\ ReleaseLock(s)
    /\ UNCHANGED <<known, indexVars, sourceVars, rpcVars, checking, disturbed, late>>

\* A command fails and Scan returns its error, or the process is killed.  The
\* temporary key survives when the scan was between EXEC and RENAME.
ScanAbort(s) ==
    /\ Active(s)
    /\ EndScan(s)
    /\ ReleaseLock(s)
    /\ Disturb(pc[s] \in {"indexed", "diffed", "pruned"})
    /\ UNCHANGED <<known, record, indexVars, sourceVars, rpcVars, checking, late>>

\* SCANNING_<id> reaches its TTL.
LockExpires ==
    /\ lock # NoSession
    /\ lock' = NoSession
    /\ UNCHANGED <<known, record, indexVars, sourceVars, scanVars, rpcVars,
                   checking, disturbed, late>>

-----------------------------------------------------------------------------
(* The RemoveMirror RPC                                                    *)

\* mirrors.DisableMirror
RemoveDisable ==
    /\ rpc = "idle"
    /\ WriteRecord
    /\ rpc' = "disabled"
    /\ UNCHANGED <<known, indexVars, lock, sourceVars, scanVars, rpcFiles,
                   checking, disturbed, late>>

\* SMEMBERS MIRRORFILES
RemoveList ==
    /\ rpc = "disabled"
    /\ rpcFiles' = mirrorFiles
    /\ rpc' = "listed"
    /\ Disturb(~Quiet)
    /\ UNCHANGED <<known, record, indexVars, lock, sourceVars, scanVars, checking, late>>

\* Mutant: the files are not removed from the FILEMIRRORS sets.
RemoveExecKeepsIndex ==
    /\ rpc = "listed"
    /\ fileInfo' = fileInfo \ rpcFiles
    /\ record' = "absent"
    /\ mirrorFiles' = {} /\ filesTmp' = {} /\ handled' = {}
    /\ lock' = NoSession
    /\ known' = FALSE
    /\ rpc' = "done"
    /\ rpcFiles' = {}
    /\ UNCHANGED <<fileMirrors, sourceVars, scanVars, checking, disturbed, late>>

\* The EXEC that deletes every key of the mirror.
RemoveExec ==
    /\ rpc = "listed"
    /\ fileInfo' = fileInfo \ rpcFiles
    /\ fileMirrors' = fileMirrors \ rpcFiles
    /\ record' = "absent"
    /\ mirrorFiles' = {} /\ filesTmp' = {} /\ handled' = {}
    /\ lock' = NoSession
    /\ known' = FALSE
    /\ rpc' = "done"
    /\ rpcFiles' = {}
    /\ UNCHANGED <<sourceVars, scanVars, checking, disturbed, late>>

-----------------------------------------------------------------------------
(* The monitor's health check                                              *)

\* getRandomFile finds a file, and the request is sent to the mirror.
CheckBegin ==
    /\ ~checking
    /\ handled # {}
    /\ checking' = TRUE
    /\ UNCHANGED <<known, record, indexVars, lock, sourceVars, scanVars,
                   rpcVars, disturbed, late>>

\* MarkMirrorUp, MarkMirrorDown and possibly DisableMirror.
CheckEnd ==
    /\ checking
    /\ checking' = FALSE
    /\ WriteRecord
    /\ UNCHANGED <<known, indexVars, lock, sourceVars, scanVars, rpcVars, disturbed, late>>

-----------------------------------------------------------------------------
(* scan.ScanSource, as far as the scans of mirrors depend on it            *)

\* The list of files is read and UpdateFileTree switches the file tree.
SourceRead ==
    /\ ~refresh
    /\ refreshes < MaxRefresh
    /\ refreshes' = refreshes + 1
    /\ refresh' = TRUE
    /\ selector' \in (SUBSET File) \ {{}}
    /\ UNCHANGED <<known, record, indexVars, lock, files, scanVars, rpcVars,
                   checking, disturbed, late>>

\* The EXEC that renames FILES_TMP, which holds the same list, to FILES.
SourceCommit ==
    /\ refresh
    /\ files' = selector
    /\ refresh' = FALSE
    /\ UNCHANGED <<known, record, indexVars, lock, selector, refreshes, scanVars,
                   rpcVars, checking, disturbed, late>>

-----------------------------------------------------------------------------

Next ==
    \/ \E s \in Session :
          \/ ScanName(s) \/ ScanLock(s) \/ ScanRefused(s)
          \/ ScanBegin(s) \/ ScanCommit(s) \/ ScanDiff(s)
          \/ ScanPrune(s) \/ ScanRename(s) \/ ScanStore(s) \/ ScanFinish(s)
          \/ ScanAbort(s)
    \/ LockExpires
    \/ RemoveDisable \/ RemoveList \/ RemoveExec
    \/ CheckBegin \/ CheckEnd
    \/ SourceRead \/ SourceCommit

Spec == Init /\ [][Next]_vars

-----------------------------------------------------------------------------
(* Properties.                                                             *)

\* FILEINFO_<id>_f exists exactly when FILEMIRRORS_f lists the mirror, whatever
\* scans, removals and failures overlap: a mirror offered for a file always has
\* a recorded size (mirrors/cache.go reads both to build a list of mirrors).
InfoMatchesIndex == fileInfo = fileMirrors

\* As long as no scan was interrupted between its EXEC and its RENAME, and no
\* two writers overlapped, every file that lists the mirror is in the mirror's
\* own list (or in the list being built): the next scan or RemoveMirror, which
\* both start from that list, can find it again.
IndexReachable ==
    ~disturbed => fileMirrors \subseteq mirrorFiles \cup filesTmp

\* Under the same condition, RemoveMirror leaves nothing of the index behind, for
\* ever, unless a scan that had read the mirror's name before the removal took the
\* lock after it (scan.go:83 and 94; RemoveMirror deletes the lock too).
RemovalIsFinal ==
    ~disturbed /\ ~late /\ rpc = "done" =>
        /\ fileMirrors = {} /\ fileInfo = {}
        /\ mirrorFiles = {} /\ filesTmp = {} /\ handled = {}

=============================================================================
