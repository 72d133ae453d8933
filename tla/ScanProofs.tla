------------------------------ MODULE ScanProofs ------------------------------
(***************************************************************************)
(* The file index of a mirror, for every set of files and of scans, and    *)
(* the file index and the trees of the repository, for every sequence of   *)
(* published lists, every set of scanners and every set of processes.      *)
(***************************************************************************)
EXTENDS MirrorScan, SourceScan, FiniteSums, SequenceTheorems, TLAPS

-----------------------------------------------------------------------------
(* The inductive invariant: what an undisturbed scan has established when  *)
(* it reaches each of its steps.                                           *)

OneScan == \A s, t \in Session : Active(s) /\ Active(t) => s = t

\* Between two scans the temporary key does not exist, and every file that
\* lists the mirror is in the mirror's list.
Settled == filesTmp = {} /\ fileMirrors \subseteq mirrorFiles

ScanProgress(s) ==
    /\ pc[s] \in {"locked", "probing", "renamed", "stored"} => Settled
    /\ pc[s] \in {"indexed", "diffed"} =>
          fileMirrors \subseteq mirrorFiles \cup filesTmp
    /\ pc[s] = "diffed" => toRemove[s] = mirrorFiles \ filesTmp
    /\ pc[s] = "pruned" => fileMirrors \subseteq filesTmp
    /\ pc[s] \in {"indexed", "diffed", "pruned"} =>
          (filesTmp # {} => indexed[s])

RemovalProgress ==
    /\ rpc = "listed" => Quiet /\ rpcFiles = mirrorFiles
    /\ rpc = "done" => ~known
    /\ rpc = "done" /\ ~late =>
          /\ Quiet
          /\ mirrorFiles = {} /\ fileMirrors = {} /\ handled = {}

IndexInv ==
    ~disturbed =>
        /\ OneScan
        /\ Quiet => Settled
        /\ \A s \in Session : ScanProgress(s)
        /\ RemovalProgress

IInv == TypeOK /\ InfoMatchesIndex /\ IndexInv

-----------------------------------------------------------------------------

LEMMA InitIInv == Init => IInv
<1> SUFFICES ASSUME Init PROVE IInv
    OBVIOUS
<1>1. TypeOK
    <2>1. 0 \in 0..MaxRefresh
        BY ScanAssumption
    <2> QED BY <2>1 DEF Init, TypeOK
<1>2. InfoMatchesIndex /\ IndexInv
    BY DEF Init, InfoMatchesIndex, IndexInv, OneScan, Settled, ScanProgress,
           RemovalProgress, Quiet, Active
<1> QED BY <1>1, <1>2 DEF IInv

LEMMA TypeStep == TypeOK /\ [Next]_vars => TypeOK'
<1> SUFFICES ASSUME TypeOK, [Next]_vars PROVE TypeOK'
    OBVIOUS
<1> USE DEF TypeOK, indexVars, scanVars, rpcVars, sourceVars, Disturb,
            WriteRecord, EndScan, ReleaseLock
<1>1. ASSUME NEW s \in Session, ScanLock(s) PROVE TypeOK'
    BY <1>1 DEF ScanLock
<1>16. ASSUME NEW s \in Session, ScanName(s) PROVE TypeOK'
    BY <1>16 DEF ScanName
<1>17. ASSUME NEW s \in Session, ScanRefused(s) PROVE TypeOK'
    BY <1>17 DEF ScanRefused
<1>2. ASSUME NEW s \in Session, ScanBegin(s) PROVE TypeOK'
    BY <1>2 DEF ScanBegin
<1>3. ASSUME NEW s \in Session, ScanCommit(s) PROVE TypeOK'
    BY <1>3 DEF HttpScan, ScanCommit
<1>4. ASSUME NEW s \in Session, ScanDiff(s) PROVE TypeOK'
    BY <1>4 DEF ScanDiff
<1>5. ASSUME NEW s \in Session, ScanPrune(s) PROVE TypeOK'
    BY <1>5 DEF ScanPrune
<1>6. ASSUME NEW s \in Session, ScanRename(s) PROVE TypeOK'
    BY <1>6 DEF ScanRename
<1>7. ASSUME NEW s \in Session, ScanStore(s) PROVE TypeOK'
    BY <1>7 DEF ScanStore
<1>8. ASSUME NEW s \in Session, ScanFinish(s) PROVE TypeOK'
    BY <1>8 DEF ScanFinish
<1>9. ASSUME NEW s \in Session, ScanAbort(s) PROVE TypeOK'
    BY <1>9 DEF ScanAbort
<1>10. CASE LockExpires
    BY <1>10 DEF LockExpires
<1>11. CASE RemoveDisable \/ RemoveList \/ RemoveExec
    BY <1>11 DEF RemoveDisable, RemoveList, RemoveExec
<1>12. CASE CheckBegin \/ CheckEnd
    BY <1>12 DEF CheckBegin, CheckEnd
<1>13. CASE SourceRead
    BY <1>13, ScanAssumption DEF SourceRead
<1>14. CASE SourceCommit
    BY <1>14 DEF SourceCommit
<1>15. CASE UNCHANGED vars
    BY <1>15 DEF vars
<1> QED
    BY <1>1, <1>2, <1>3, <1>4, <1>5, <1>6, <1>7, <1>8, <1>9, <1>10, <1>11,
       <1>12, <1>13, <1>14, <1>15, <1>16, <1>17
    DEF Next

\* FILEINFO and FILEMIRRORS are always changed in the same transaction.
LEMMA InfoStep == InfoMatchesIndex /\ [Next]_vars => InfoMatchesIndex'
<1> SUFFICES ASSUME InfoMatchesIndex, [Next]_vars PROVE InfoMatchesIndex'
    OBVIOUS
<1> USE DEF InfoMatchesIndex, indexVars
<1>1. ASSUME NEW s \in Session, ScanCommit(s) PROVE InfoMatchesIndex'
    BY <1>1 DEF HttpScan, ScanCommit
<1>2. ASSUME NEW s \in Session, ScanPrune(s) PROVE InfoMatchesIndex'
    BY <1>2 DEF ScanPrune
<1>3. CASE RemoveExec
    BY <1>3 DEF RemoveExec
<1>4. ASSUME UNCHANGED <<fileInfo, fileMirrors>> PROVE InfoMatchesIndex'
    BY <1>4
<1> QED
    BY <1>1, <1>2, <1>3, <1>4
    DEF Next, vars, ScanName, ScanLock, ScanRefused, ScanBegin, ScanDiff, ScanRename, ScanStore,
        ScanFinish, ScanAbort, LockExpires, RemoveDisable, RemoveList,
        CheckBegin, CheckEnd, SourceRead, SourceCommit

\* Steps that touch neither the index, nor a scan, nor the removal.
LEMMA BystanderStep ==
    ASSUME IndexInv, UNCHANGED <<indexVars, scanVars, rpcVars, disturbed, late, known>>
    PROVE  IndexInv'
BY DEF IndexInv, OneScan, Settled, ScanProgress, RemovalProgress, Quiet, Active,
       indexVars, scanVars, rpcVars

LEMMA IndexStep == TypeOK /\ IndexInv /\ [Next]_vars => IndexInv'
<1> SUFFICES ASSUME TypeOK, IndexInv, [Next]_vars, ~disturbed' PROVE IndexInv'
    BY DEF IndexInv
<1>0. ~disturbed
    BY DEF Next, vars, Disturb, ScanName, ScanLock, ScanRefused, ScanBegin, ScanCommit, ScanDiff,
           ScanPrune, ScanRename, ScanStore, ScanFinish, ScanAbort, LockExpires,
           RemoveDisable, RemoveList, RemoveExec, CheckBegin, CheckEnd,
           SourceRead, SourceCommit
<1>a. /\ OneScan
      /\ Quiet => Settled
      /\ \A s \in Session : ScanProgress(s)
      /\ RemovalProgress
    BY <1>0 DEF IndexInv
<1> USE DEF OneScan, Settled, ScanProgress, RemovalProgress, Quiet, Active
<1>1. ASSUME NEW s \in Session, ScanLock(s) PROVE IndexInv'
    <2>1. Quiet /\ rpc # "listed" /\ (rpc # "done" \/ late')
        BY <1>a, <1>1 DEF ScanLock, Disturb
    <2> QED BY <1>a, <1>1, <2>1 DEF ScanLock, IndexInv, indexVars, rpcVars, TypeOK
<1>2. ASSUME NEW s \in Session, ScanBegin(s) PROVE IndexInv'
    BY <1>a, <1>2 DEF ScanBegin, IndexInv, indexVars, rpcVars, TypeOK
<1>3. ASSUME NEW s \in Session, ScanCommit(s) PROVE IndexInv'
    BY <1>a, <1>3 DEF HttpScan, ScanCommit, IndexInv, rpcVars, TypeOK
<1>4. ASSUME NEW s \in Session, ScanDiff(s) PROVE IndexInv'
    BY <1>a, <1>4 DEF ScanDiff, IndexInv, indexVars, rpcVars, TypeOK
<1>5. ASSUME NEW s \in Session, ScanPrune(s) PROVE IndexInv'
    BY <1>a, <1>5 DEF ScanPrune, IndexInv, rpcVars, TypeOK
<1>6. ASSUME NEW s \in Session, ScanRename(s) PROVE IndexInv'
    <2>1. pc[s] = "pruned" /\ ~Quiet /\ (filesTmp # {} => indexed[s])
          /\ fileMirrors \subseteq filesTmp
        BY <1>a, <1>6 DEF ScanRename
    <2>2. /\ \/ pc' = [pc EXCEPT ![s] = "renamed"]
             \/ pc' = [pc EXCEPT ![s] = "idle"]
          /\ filesTmp' = {}
          /\ fileMirrors' \subseteq mirrorFiles'
        BY <1>6, <2>1 DEF ScanRename, EndScan
    <2>3. UNCHANGED <<rpcVars, known, disturbed, late, handled>>
        BY <1>6 DEF ScanRename
    <2>4. \A t \in Session \ {s} : ~Active(t) /\ ~Active(t)'
        BY <1>a, <2>1, <2>2 DEF TypeOK
    <2>5. OneScan' /\ Settled' /\ \A t \in Session : ScanProgress(t)'
        BY <2>1, <2>2, <2>4 DEF TypeOK
    <2> QED BY <1>a, <2>1, <2>3, <2>5 DEF IndexInv, rpcVars
<1>7. ASSUME NEW s \in Session, ScanStore(s) PROVE IndexInv'
    BY <1>a, <1>7 DEF ScanStore, IndexInv, rpcVars, TypeOK
<1>8. ASSUME NEW s \in Session, ScanFinish(s) PROVE IndexInv'
    BY <1>a, <1>8 DEF ScanFinish, EndScan, IndexInv, indexVars, rpcVars, TypeOK
<1>9. ASSUME NEW s \in Session, ScanAbort(s) PROVE IndexInv'
    <2>1. pc[s] \in {"locked", "probing", "renamed", "stored"}
        BY <1>9 DEF ScanAbort, Disturb, TypeOK
    <2> QED BY <1>a, <1>9, <2>1 DEF ScanAbort, EndScan, IndexInv, indexVars,
                                    rpcVars, TypeOK
<1>10. CASE LockExpires
    BY <1>10, BystanderStep DEF LockExpires
<1>11. CASE RemoveDisable
    BY <1>a, <1>11 DEF RemoveDisable, IndexInv, indexVars, scanVars
<1>12. CASE RemoveList
    BY <1>a, <1>12 DEF RemoveList, Disturb, IndexInv, indexVars, scanVars
<1>13. CASE RemoveExec
    BY <1>a, <1>13 DEF RemoveExec, IndexInv, scanVars
<1>14. CASE CheckBegin \/ CheckEnd \/ SourceRead \/ SourceCommit
    BY <1>14, BystanderStep DEF CheckBegin, CheckEnd, SourceRead, SourceCommit
<1>15. CASE UNCHANGED vars
    BY <1>15, BystanderStep DEF vars
<1>16. ASSUME NEW s \in Session, ScanName(s) \/ ScanRefused(s) PROVE IndexInv'
    <2>1. \A t \in Session : Active(t)' <=> Active(t)
        BY <1>16 DEF ScanName, ScanRefused, TypeOK
    <2>2. UNCHANGED <<indexVars, versions, indexed, toRemove, rpcVars, disturbed, late, known>>
        BY <1>16 DEF ScanName, ScanRefused
    <2>3. \A t \in Session : Active(t)' => pc'[t] = pc[t]
        BY <1>16 DEF ScanName, ScanRefused, TypeOK
    <2> QED BY <1>a, <2>1, <2>2, <2>3 DEF IndexInv, indexVars, rpcVars
<1> QED
    BY <1>1, <1>2, <1>3, <1>4, <1>5, <1>6, <1>7, <1>8, <1>9, <1>10, <1>11,
       <1>12, <1>13, <1>14, <1>15, <1>16
    DEF Next

\* The inductive invariant holds in every reachable state.
THEOREM ScanInvariant == Spec => []IInv
<1>1. IInv /\ [Next]_vars => IInv'
    BY TypeStep, InfoStep, IndexStep DEF IInv
<1> QED BY InitIInv, <1>1, PTL DEF Spec

\* Every key and every local variable keeps its type.
THEOREM ScanTypeCorrect == Spec => []TypeOK
<1>1. IInv => TypeOK
    BY DEF IInv
<1> QED BY <1>1, ScanInvariant, PTL

\* A mirror listed for a file always has a FILEINFO for it, and conversely,
\* even when scans overlap, fail or race with RemoveMirror.
THEOREM ScanInfoMatchesIndex == Spec => []InfoMatchesIndex
<1>1. IInv => InfoMatchesIndex
    BY DEF IInv
<1> QED BY <1>1, ScanInvariant, PTL

\* Without an interrupted or overlapping writer, the mirror's own list reaches
\* every file that lists the mirror.
THEOREM ScanIndexReachable == Spec => []IndexReachable
<1>1. IInv => IndexReachable
    BY DEF IInv, TypeOK, IndexInv, IndexReachable, Settled, ScanProgress, Quiet, Active
<1> QED BY <1>1, ScanInvariant, PTL

\* Under the same condition RemoveMirror leaves nothing of the index behind, unless
\* a scan that had read the mirror's name before the removal locked it afterwards.
THEOREM ScanRemovalIsFinal == Spec => []RemovalIsFinal
<1>1. IInv => RemovalIsFinal
    BY DEF IInv, IndexInv, InfoMatchesIndex, RemovalIsFinal, RemovalProgress, Settled
<1> QED BY <1>1, ScanInvariant, PTL

-----------------------------------------------------------------------------
(* The index of the repository: the inductive invariant                    *)

ScanStep == {"idle", "read", "lock", "index", "diff", "commit", "release"}

RepositoryShape ==
    /\ current \in DOMAIN Lists
    /\ at \in [Scanner -> ScanStep]
    /\ lines \in [Scanner -> Seq(Line)]
    /\ broken \in [Scanner -> BOOLEAN]
    /\ DOMAIN sourceFiles = Scanner /\ DOMAIN retry = Scanner /\ DOMAIN toremove = Scanner
    /\ sourceLock \in Scanner \cup {NoScanner, Orphan}
    /\ stalled \in BOOLEAN

\* The scanner s has lost nothing of its list.
Whole(s) == ~broken[s] /\ ~Lossy(s)

Part(x) == \E list \in AllFiles : x \subseteq list

\* What a scanner has found and what it has still to read are one whole list, as
\* long as nothing was lost, and a part of one in any case.
Collected(s) ==
    /\ at[s] = "idle" => sourceFiles[s] = {} /\ Whole(s)
    /\ at[s] = "read" =>
          /\ Part(sourceFiles[s] \cup Indexed(lines[s]))
          /\ Whole(s) => sourceFiles[s] \cup Indexed(lines[s]) \in AllFiles
    /\ at[s] \in {"lock", "index", "diff", "commit"} =>
          /\ Part(sourceFiles[s])
          /\ Whole(s) => sourceFiles[s] \in AllFiles

\* The two keys hold a whole list, or nothing, or what a scanner has not lost.
KeysWhole ==
    /\ Part(FILES) /\ Part(FILES_TMP)
    /\ "FILES" \notin partial => FILES \in AllFiles \cup {{}}
    /\ "FILES_TMP" \notin partial => FILES_TMP \in AllFiles \cup {{}}

\* As long as the lock has not expired under its owner, one scanner is between the
\* two transactions, and what it has read of Redis is still true.
OneCommitter ==
    \A s \in Scanner : at[s] \in {"index", "diff", "commit", "release"} => sourceLock = s

Between(s) ==
    ~broken[s] =>
        /\ at[s] \in {"diff", "commit"} => FILES_TMP = sourceFiles[s]
        /\ at[s] = "commit" => toremove[s] = FILES \ FILES_TMP

Agree == FILE = IF void THEN {} ELSE FILES

RepositoryInv ==
    /\ RepositoryShape /\ KeysWhole
    /\ \A s \in Scanner : Collected(s)
    /\ ~stalled => OneCommitter /\ Agree /\ \A s \in Scanner : Between(s)

LEMMA IndexedIsWhole ==
    /\ \A i \in DOMAIN Lists : Indexed(Lists[i]) \in AllFiles
    /\ Part({}) /\ \A x \in AllFiles : Part(x)
<1>1. DOMAIN Lists # {}
  <2>1. /\ DOMAIN Lists = 1..Len(Lists) /\ Len(Lists) \in Nat
        /\ Lists \in Seq(Seq(Line)) /\ Lists # << >>
    BY SourceScanAssumption
  <2>2. Len(Lists) > 0
    BY <2>1
  <2>3. 1 \in 1..Len(Lists)
    BY <2>1, <2>2
  <2> QED BY <2>1, <2>3
<1> QED BY <1>1 DEF AllFiles, IndexOf, Range, Part

LEMMA IndexedNone == Indexed(<< >>) = {}
BY DEF Indexed, Range

\* The index of a list: that of its first line, and that of the others.
LEMMA IndexedFirst ==
    ASSUME NEW l \in Seq(Line), l # << >>
    PROVE  /\ Head(l) \in Line /\ Tail(l) \in Seq(Line)
           /\ Filter(Head(l).path) => Indexed(l) = {Head(l).path} \cup Indexed(Tail(l))
           /\ ~Filter(Head(l).path) => Indexed(l) = Indexed(Tail(l))
<1>1. /\ Head(l) \in Line /\ Tail(l) \in Seq(Line) /\ Head(l) = l[1]
      /\ Len(l) \in Nat /\ Len(l) > 0 /\ Len(Tail(l)) = Len(l) - 1
      /\ DOMAIN l = 1..Len(l) /\ DOMAIN Tail(l) = 1..Len(Tail(l))
      /\ \A i \in 1..Len(Tail(l)) : Tail(l)[i] = l[i + 1]
  OBVIOUS
<1> DEFINE t == Tail(l)
<1> HIDE DEF t
<1>2. Range(l) = {l[1]} \cup Range(t)
  <2>1. ASSUME NEW x \in Range(l) PROVE x \in {l[1]} \cup Range(t)
    <3>1. PICK i \in 1..Len(l) : x = l[i]
      BY <1>1, <2>1 DEF Range
    <3>2. CASE i = 1
      BY <3>1, <3>2
    <3>3. CASE i # 1
      <4>1. i - 1 \in 1..Len(t) /\ t[i - 1] = l[i]
        BY <1>1, <3>1, <3>3 DEF t
      <4> QED BY <1>1, <3>1, <4>1 DEF Range, t
    <3> QED BY <3>2, <3>3
  <2>2. ASSUME NEW x \in Range(t) PROVE x \in Range(l)
    <3>1. PICK i \in 1..Len(t) : x = t[i]
      BY <1>1, <2>2 DEF Range, t
    <3>2. i + 1 \in 1..Len(l) /\ x = l[i + 1]
      BY <1>1, <3>1 DEF t
    <3> QED BY <1>1, <3>2 DEF Range
  <2>3. l[1] \in Range(l)
    BY <1>1 DEF Range
  <2> QED BY <2>1, <2>2, <2>3
<1>3. Indexed(l) = {line.path : line \in {x \in Range(l) : Filter(x.path)}}
  BY DEF Indexed
<1>4. Indexed(t) = {line.path : line \in {x \in Range(t) : Filter(x.path)}}
  BY DEF Indexed
<1>5. Filter(l[1].path) => Indexed(l) = {l[1].path} \cup Indexed(t)
  BY <1>2, <1>3, <1>4
<1>6. ~Filter(l[1].path) => Indexed(l) = Indexed(t)
  BY <1>2, <1>3, <1>4
<1> QED BY <1>1, <1>5, <1>6 DEF t

\* What the step of the scanner s leaves to the others.
LEMMA ScannerStep ==
    ASSUME RepositoryShape, NEW s \in Scanner, ScanSource(s) \/ ScanFails(s)
    PROVE  /\ RepositoryShape'
           /\ \A q \in Scanner \ {s} : /\ at'[q] = at[q] /\ lines'[q] = lines[q]
                                       /\ sourceFiles'[q] = sourceFiles[q]
                                       /\ broken'[q] = broken[q] /\ toremove'[q] = toremove[q]
                                       /\ (q \in cut' <=> q \in cut)
                                       /\ (q \in refused' <=> q \in refused)
<1> USE SourceScanAssumption DEF RepositoryShape, ScanStep
<1>1. CASE Start(s)
  <2>1. Lists[current] \in Seq(Line)
    OBVIOUS
  <2> QED BY <1>1, <2>1 DEF Start, Goto
<1>2. CASE ReadLine(s)
  <2>1. lines'[s] \in Seq(Line)
    BY <1>2, IndexedFirst DEF ReadLine
  <2>2. lines' \in [Scanner -> Seq(Line)] /\ \A q \in Scanner \ {s} : lines'[q] = lines[q]
    BY <1>2, <2>1 DEF ReadLine
  <2>3. /\ DOMAIN sourceFiles' = Scanner
        /\ \A q \in Scanner \ {s} : sourceFiles'[q] = sourceFiles[q]
    BY <1>2 DEF ReadLine
  <2> QED BY <1>2, <2>2, <2>3 DEF ReadLine
<1>3. CASE UpdateFileTree(s)
  BY <1>3 DEF UpdateFileTree, Goto, local
<1>4. CASE GetLock(s)
  <2>1. CASE retry[s] = 0 /\ Return({s}) /\ UNCHANGED sourceLock
    BY <1>4, <2>1 DEF GetLock, Return
  <2>2. CASE ~(retry[s] = 0 /\ Return({s}) /\ UNCHANGED sourceLock)
    BY <1>4, <2>2 DEF GetLock, Goto, local
  <2> QED BY <2>1, <2>2
<1>5. CASE AddFiles(s)
  BY <1>5 DEF AddFiles, Goto, local
<1>6. CASE DiffFiles(s)
  BY <1>6 DEF DiffFiles, Goto
<1>7. CASE Commit(s)
  BY <1>7 DEF Commit, Goto, local
<1>8. CASE Release(s)
  BY <1>8 DEF Release, Return
<1>9. CASE Disconnect(s)
  BY <1>9 DEF Disconnect
<1>10. CASE CutShort(s)
  <2>1. << >> \in Seq(Line)
    OBVIOUS
  <2> QED BY <1>10, <2>1 DEF CutShort
<1>11. CASE RefuseFile(s)
  <2>1. lines'[s] \in Seq(Line)
    BY <1>11, IndexedFirst DEF RefuseFile
  <2>2. lines' \in [Scanner -> Seq(Line)] /\ \A q \in Scanner \ {s} : lines'[q] = lines[q]
    BY <1>11, <2>1 DEF RefuseFile
  <2> QED BY <1>11, <2>2 DEF RefuseFile
<1>12. CASE GiveUp(s)
  BY <1>12 DEF GiveUp, Return
<1> QED BY <1>1, <1>2, <1>3, <1>4, <1>5, <1>6, <1>7, <1>8, <1>9, <1>10, <1>11, <1>12
        DEF ScanSource, ScanFails

LEMMA CollectedStep ==
    ASSUME RepositoryShape, NEW s \in Scanner, Collected(s), ScanSource(s) \/ ScanFails(s)
    PROVE  Collected(s)'
<1> USE DEF Collected, RepositoryShape, Whole, Lossy
<1>0. /\ AllFiles' = AllFiles
      /\ \A x, y : x \subseteq y /\ Part(y) => Part(x)
      /\ \A x : Part(x)' <=> Part(x)
  BY DEF AllFiles, IndexOf, Part
<1>1. CASE Start(s)
  <2>1. /\ at'[s] = "read" /\ lines'[s] = Lists[current] /\ sourceFiles'[s] = {}
    BY <1>1 DEF Start, Goto
  <2>2. {} \cup Indexed(Lists[current]) \in AllFiles
    BY IndexedIsWhole
  <2>3. Part({} \cup Indexed(Lists[current]))
    BY <2>2, IndexedIsWhole
  <2> QED BY <1>0, <2>1, <2>2, <2>3 DEF Part
<1>2. CASE ReadLine(s) \/ RefuseFile(s)
  <2> DEFINE line == Head(lines[s])
             old == sourceFiles[s] \cup Indexed(lines[s])
             new == sourceFiles'[s] \cup Indexed(lines'[s])
  <2>1. /\ at[s] = "read" /\ lines[s] # << >> /\ at'[s] = "read" /\ broken'[s] = broken[s]
        /\ lines'[s] = Tail(lines[s]) /\ cut' = cut
        /\ \/ refused' = refused /\ ReadLine(s)
           \/ s \in refused' /\ sourceFiles'[s] = sourceFiles[s]
    BY <1>2 DEF ReadLine, RefuseFile
  <2>2. ReadLine(s) =>
        /\ Filter(line.path) => sourceFiles'[s] = IF broken[s] THEN sourceFiles[s]
                                                  ELSE sourceFiles[s] \cup {line.path}
        /\ ~Filter(line.path) => sourceFiles'[s] = sourceFiles[s]
    BY DEF ReadLine
  <2>3. /\ Filter(line.path) => Indexed(lines[s]) = {line.path} \cup Indexed(lines'[s])
        /\ ~Filter(line.path) => Indexed(lines[s]) = Indexed(lines'[s])
    BY <2>1, IndexedFirst
  <2>4. (new \subseteq old) /\ (ReadLine(s) /\ ~broken[s] => new = old)
    <3> HIDE DEF line
    <3>1. CASE Filter(line.path)
      BY <2>1, <2>2, <2>3, <3>1
    <3>2. CASE ~Filter(line.path)
      BY <2>1, <2>2, <2>3, <3>2
    <3> QED BY <3>1, <3>2
  <2> HIDE DEF line, old, new
  <2>5. Part(old) /\ (Whole(s) => old \in AllFiles)
    BY <2>1 DEF old
  <2>6. Part(new) /\ (Whole(s)' => new \in AllFiles)
    BY <1>0, <2>1, <2>4, <2>5
  <2>7. Part(sourceFiles[s] \cup Indexed(lines[s]))' <=> Part(new)
    BY <1>0 DEF Part, new
  <2> QED BY <1>0, <2>1, <2>6, <2>7 DEF new
<1>3. CASE UpdateFileTree(s)
  <2>1. /\ at[s] = "read" /\ lines[s] = << >> /\ at'[s] = "lock"
        /\ UNCHANGED <<broken, sourceFiles, cut, refused>>
    BY <1>3 DEF UpdateFileTree, Goto, local
  <2>2. sourceFiles[s] \cup Indexed(lines[s]) = sourceFiles[s]
    BY <2>1, IndexedNone
  <2>3. Part(sourceFiles[s]) /\ (Whole(s) => sourceFiles[s] \in AllFiles)
    BY <2>1, <2>2
  <2> QED BY <1>0, <2>1, <2>3 DEF Part
<1>4. CASE GetLock(s) \/ Release(s) \/ GiveUp(s)
  <2>1. CASE Return({s})
    BY <2>1 DEF Return
  <2>2. CASE ~Return({s})
    <3>1. /\ at[s] = "lock" /\ at'[s] \in {"lock", "index"}
          /\ UNCHANGED <<broken, sourceFiles, cut, refused>>
      BY <1>4, <2>2 DEF GetLock, Release, GiveUp, Goto, local
    <3> QED BY <1>0, <3>1 DEF Part
  <2> QED BY <2>1, <2>2
<1>5. CASE AddFiles(s) \/ DiffFiles(s) \/ Commit(s)
  <2>1. /\ at[s] \in {"index", "diff", "commit"} /\ at'[s] \in {"diff", "commit", "release"}
        /\ UNCHANGED <<broken, sourceFiles, cut, refused>>
    BY <1>5 DEF AddFiles, DiffFiles, Commit, Goto, local
  <2> QED BY <1>0, <2>1 DEF Part
<1>6. CASE Disconnect(s)
  <2>1. broken'[s] /\ at'[s] # "idle" /\ UNCHANGED <<at, sourceFiles, lines>>
    BY <1>6 DEF Disconnect
  <2> QED BY <1>0, <2>1 DEF Part
<1>7. CASE CutShort(s)
  <2>1. /\ at[s] = "read" /\ at' = at /\ sourceFiles' = sourceFiles /\ s \in cut'
        /\ lines'[s] = << >>
    BY <1>7 DEF CutShort
  <2>2. sourceFiles[s] \cup Indexed(lines'[s]) \subseteq sourceFiles[s] \cup Indexed(lines[s])
    BY <2>1, IndexedNone
  <2>3. Part(sourceFiles[s] \cup Indexed(lines'[s]))
    BY <1>0, <2>1, <2>2
  <2> QED BY <1>0, <2>1, <2>3 DEF Part
<1> QED BY <1>1, <1>2, <1>3, <1>4, <1>5, <1>6, <1>7 DEF ScanSource, ScanFails

LEMMA KeysStep ==
    ASSUME RepositoryShape, KeysWhole, NEW s \in Scanner, Collected(s),
           ScanSource(s) \/ ScanFails(s)
    PROVE  KeysWhole'
<1>0. AllFiles' = AllFiles
  BY DEF AllFiles, IndexOf
<1>1. CASE AddFiles(s)
  <2>1. at[s] = "index" /\ FILES' = FILES
    BY <1>1 DEF AddFiles
  <2>2. CASE broken[s]
    <3>1. FILES_TMP' = FILES_TMP /\ partial' = partial
      BY <1>1, <2>2 DEF AddFiles
    <3> QED BY <1>0, <2>1, <3>1 DEF KeysWhole, Part
  <2>3. CASE ~broken[s]
    <3>1. /\ FILES_TMP' = sourceFiles[s]
          /\ "FILES" \in partial' <=> "FILES" \in partial
          /\ "FILES_TMP" \in partial' <=> Lossy(s)
      BY <1>1, <2>3 DEF AddFiles
    <3>2. Part(sourceFiles[s]) /\ (~Lossy(s) => sourceFiles[s] \in AllFiles)
      BY <2>1, <2>3 DEF Collected, Whole
    <3> QED BY <1>0, <2>1, <3>1, <3>2 DEF KeysWhole, Part
  <2> QED BY <2>2, <2>3
<1>2. CASE Commit(s)
  <2>1. CASE broken[s]
    BY <1>0, <1>2, <2>1 DEF Commit, KeysWhole, Part, redis
  <2>2. CASE ~broken[s]
    <3>1. /\ FILES' = IF FILES_TMP = {} THEN FILES ELSE FILES_TMP
          /\ FILES_TMP' = {}
          /\ "FILES" \in partial' <=> IF FILES_TMP = {} THEN "FILES" \in partial
                                                        ELSE "FILES_TMP" \in partial
      BY <1>2, <2>2 DEF Commit
    <3>2. Part(FILES') /\ Part({}) /\ ("FILES" \notin partial' => FILES' \in AllFiles \cup {{}})
      BY <3>1, IndexedIsWhole DEF KeysWhole
    <3> QED BY <1>0, <3>1, <3>2 DEF KeysWhole, Part
  <2> QED BY <2>1, <2>2
<1>3. CASE ~AddFiles(s) /\ ~Commit(s)
  <2>1. UNCHANGED <<FILES, FILES_TMP, partial>>
    BY <1>3 DEF ScanSource, ScanFails, Start, ReadLine, UpdateFileTree, GetLock, DiffFiles,
                Release, CutShort, RefuseFile, GiveUp, Disconnect, redis
  <2> QED BY <1>0, <2>1 DEF KeysWhole, Part
<1> QED BY <1>1, <1>2, <1>3

LEMMA CommitterStep ==
    ASSUME RepositoryShape, OneCommitter, NEW s \in Scanner, ScanSource(s) \/ ScanFails(s)
    PROVE  OneCommitter'
<1> USE DEF OneCommitter, RepositoryShape
<1>1. \A q \in Scanner \ {s} : at'[q] = at[q]
  BY ScannerStep
<1> DEFINE Committing == {"index", "diff", "commit", "release"}
<1>2. ASSUME NEW q \in Scanner \ {s}, at[q] \in Committing PROVE sourceLock' = q
  <2>1. sourceLock = q /\ at[s] \notin Committing
    BY <1>2
  <2>2. sourceLock # NoScanner
    BY <2>1, SourceScanAssumption
  <2> QED BY <2>1, <2>2 DEF ScanSource, ScanFails, Start, ReadLine, UpdateFileTree, GetLock,
                            AddFiles, DiffFiles, Commit, Release, CutShort, RefuseFile, GiveUp,
                            Disconnect
<1>3. ASSUME at'[s] \in Committing PROVE sourceLock' = s
  <2>1. CASE GetLock(s)
    BY <1>3, <2>1 DEF GetLock, Return
  <2>2. CASE Release(s) \/ GiveUp(s)
    BY <1>3, <2>2 DEF Release, GiveUp, Return
  <2>3. CASE Start(s) \/ ReadLine(s) \/ UpdateFileTree(s) \/ CutShort(s) \/ RefuseFile(s)
    BY <1>3, <2>3 DEF Start, ReadLine, UpdateFileTree, CutShort, RefuseFile, Goto
  <2>4. CASE AddFiles(s) \/ DiffFiles(s) \/ Commit(s) \/ Disconnect(s)
    <3>1. at[s] \in Committing /\ sourceLock' = sourceLock
      BY <1>3, <2>4 DEF AddFiles, DiffFiles, Commit, Disconnect
    <3> QED BY <3>1
  <2> QED BY <2>1, <2>2, <2>3, <2>4 DEF ScanSource, ScanFails
<1> QED BY <1>1, <1>2, <1>3

LEMMA AgreesStep ==
    ASSUME RepositoryShape, OneCommitter, Agree, NEW s \in Scanner, Collected(s),
           \A q \in Scanner : Between(q), ScanSource(s) \/ ScanFails(s)
    PROVE  Agree' /\ \A q \in Scanner : Between(q)'
<1> USE DEF RepositoryShape
<1>1. CASE AddFiles(s) \/ DiffFiles(s) \/ Commit(s)
  <2>1. at[s] \in {"index", "diff", "commit"} /\ sourceLock = s
    BY <1>1 DEF AddFiles, DiffFiles, Commit, OneCommitter
  <2>2. ASSUME NEW q \in Scanner \ {s} PROVE Between(q)'
    <3>1. at[q] \notin {"diff", "commit"} /\ at'[q] = at[q]
      BY <2>1, ScannerStep DEF OneCommitter
    <3> QED BY <3>1 DEF Between
  <2>3. Agree' /\ Between(s)'
    <3>1. CASE AddFiles(s)
      BY <3>1 DEF AddFiles, Goto, local, Between, Agree
    <3>2. CASE DiffFiles(s)
      BY <3>2 DEF DiffFiles, Goto, redis, Between, Agree
    <3>3. CASE Commit(s)
      <4>1. at'[s] = "release"
        BY <3>3 DEF Commit, Goto
      <4>2. ASSUME broken[s] PROVE Agree'
        BY <3>3, <4>2 DEF Commit, redis, Agree
      <4>3. ASSUME ~broken[s] PROVE Agree'
        <5>1. FILES_TMP = sourceFiles[s] /\ toremove[s] = FILES \ FILES_TMP
          BY <3>3, <4>3 DEF Commit, Between
        <5>2. /\ FILE' = (FILE \cup sourceFiles[s]) \ toremove[s]
              /\ FILES' = IF FILES_TMP = {} THEN FILES ELSE FILES_TMP
              /\ void' <=> FILES_TMP = {}
          BY <3>3, <4>3 DEF Commit
        <5>3. FILE \subseteq FILES
          BY DEF Agree
        <5> QED BY <5>1, <5>2, <5>3 DEF Agree
      <4>4. Between(s)'
        BY <4>1 DEF Between
      <4> QED BY <4>2, <4>3, <4>4
    <3> QED BY <1>1, <3>1, <3>2, <3>3
  <2> QED BY <2>2, <2>3
<1>2. CASE ~(AddFiles(s) \/ DiffFiles(s) \/ Commit(s))
  <2>1. UNCHANGED <<FILE, FILES, FILES_TMP, void>>
    BY <1>2 DEF ScanSource, ScanFails, Start, ReadLine, UpdateFileTree, GetLock, Release,
                CutShort, RefuseFile, GiveUp, Disconnect, redis
  <2>2. ASSUME NEW q \in Scanner \ {s} PROVE Between(q)'
    <3>1. /\ at'[q] = at[q] /\ sourceFiles'[q] = sourceFiles[q] /\ broken'[q] = broken[q]
          /\ toremove'[q] = toremove[q]
      BY ScannerStep
    <3> QED BY <2>1, <3>1 DEF Between
  <2>3. Between(s)'
    <3>1. CASE Disconnect(s)
      <4>1. broken'[s]
        BY <3>1 DEF Disconnect
      <4> QED BY <4>1 DEF Between
    <3>2. CASE ~Disconnect(s)
      <4>1. at'[s] \notin {"diff", "commit"}
        BY <1>2, <3>2 DEF ScanSource, ScanFails, Start, ReadLine, UpdateFileTree, GetLock,
                          Release, CutShort, RefuseFile, GiveUp, Goto, Return
      <4> QED BY <4>1 DEF Between
    <3> QED BY <3>1, <3>2
  <2> QED BY <2>1, <2>2, <2>3 DEF Agree
<1> QED BY <1>1, <1>2

\* A process that dies: its scanners are idle, and the key of the lock has no owner.
LEMMA RestartStep ==
    ASSUME RepositoryInv, NEW p \in Process, Restart(p)
    PROVE  RepositoryInv'
<1> DEFINE own == {s \in Scanner : ProcessOf[s] = p}
<1> AllFiles' = AllFiles
  BY DEF AllFiles, IndexOf
<1>1. /\ Return(own) /\ UNCHANGED <<current, FILES, FILES_TMP, FILE, partial, void, stalled>>
      /\ sourceLock' = IF sourceLock \in own THEN Orphan ELSE sourceLock
  BY DEF Restart, redis
<1> HIDE DEF own
<1>2. RepositoryShape'
  <2>1. at' \in [Scanner -> ScanStep] /\ lines' \in [Scanner -> Seq(Line)]
    BY <1>1 DEF Return, RepositoryInv, RepositoryShape, ScanStep
  <2>2. broken' \in [Scanner -> BOOLEAN]
    BY <1>1 DEF Return
  <2>3. DOMAIN sourceFiles' = Scanner /\ DOMAIN retry' = Scanner /\ DOMAIN toremove' = Scanner
    BY <1>1 DEF Return
  <2> QED BY <1>1, <2>1, <2>2, <2>3 DEF RepositoryInv, RepositoryShape
<1>3. ASSUME NEW s \in Scanner
      PROVE  \/ /\ at'[s] = "idle" /\ sourceFiles'[s] = {}
                /\ ~broken'[s] /\ s \notin cut' \cup refused'
             \/ /\ s \notin own /\ at'[s] = at[s] /\ sourceFiles'[s] = sourceFiles[s]
                /\ (broken'[s] <=> broken[s]) /\ toremove'[s] = toremove[s]
                /\ lines'[s] = lines[s]
                /\ (s \in cut' <=> s \in cut) /\ (s \in refused' <=> s \in refused)
  BY <1>1 DEF Return
<1>4. KeysWhole'
  BY <1>1 DEF RepositoryInv, KeysWhole, Part
<1>5. \A s \in Scanner : Collected(s)'
  BY <1>3 DEF RepositoryInv, Collected, Whole, Lossy, Part
<1>6. ASSUME ~stalled' PROVE OneCommitter' /\ Agree' /\ \A s \in Scanner : Between(s)'
  <2>1. OneCommitter /\ Agree /\ \A s \in Scanner : Between(s)
    BY <1>1, <1>6 DEF RepositoryInv
  <2>2. OneCommitter'
    BY <1>1, <1>3, <2>1 DEF OneCommitter
  <2>3. \A s \in Scanner : Between(s)'
    BY <1>1, <1>3, <2>1 DEF Between
  <2> QED BY <1>1, <2>1, <2>2, <2>3 DEF Agree
<1> QED BY <1>2, <1>4, <1>5, <1>6 DEF RepositoryInv

LEMMA RepositoryStep == RepositoryInv /\ [RepositoryNext]_repositoryVars => RepositoryInv'
<1> SUFFICES ASSUME RepositoryInv, [RepositoryNext]_repositoryVars PROVE RepositoryInv'
  OBVIOUS
<1> AllFiles' = AllFiles
  BY DEF AllFiles, IndexOf
<1>1. ASSUME NEW s \in Scanner, ScanSource(s) \/ ScanFails(s) PROVE RepositoryInv'
  <2>1. RepositoryShape' /\ KeysWhole'
    BY <1>1, ScannerStep, KeysStep DEF RepositoryInv
  <2>2. ASSUME NEW q \in Scanner PROVE Collected(q)'
    <3>1. CASE q = s
      BY <1>1, <3>1, CollectedStep DEF RepositoryInv
    <3>2. CASE q # s
      BY <1>1, <3>2, ScannerStep DEF RepositoryInv, Collected, Whole, Lossy, Part
    <3> QED BY <3>1, <3>2
  <2>3. stalled' = stalled
    BY <1>1 DEF ScanSource, ScanFails, Start, ReadLine, UpdateFileTree, GetLock, AddFiles,
                DiffFiles, Commit, Release, CutShort, RefuseFile, GiveUp, Disconnect
  <2>4. ASSUME ~stalled PROVE OneCommitter' /\ Agree' /\ \A q \in Scanner : Between(q)'
    BY <1>1, <2>4, CommitterStep, AgreesStep DEF RepositoryInv
  <2> QED BY <2>1, <2>2, <2>3, <2>4 DEF RepositoryInv
<1>2. ASSUME NEW p \in Process, Restart(p) PROVE RepositoryInv'
  BY <1>2, RestartStep
<1>3. CASE Publish
  <2>1. /\ UNCHANGED <<at, lines, sourceFiles, broken, retry, toremove, cut, refused, sourceLock>>
        /\ UNCHANGED <<FILES, FILES_TMP, FILE, partial, void, stalled>>
    BY <1>3 DEF Publish, local, redis
  <2>2. current' \in DOMAIN Lists
    BY <1>3, SourceScanAssumption DEF Publish, RepositoryInv, RepositoryShape
  <2>3. RepositoryShape' /\ KeysWhole'
    BY <2>1, <2>2 DEF RepositoryInv, RepositoryShape, KeysWhole, Part
  <2>4. \A s \in Scanner : Collected(s)'
    BY <2>1 DEF RepositoryInv, Collected, Whole, Lossy, Part
  <2>5. ~stalled => OneCommitter' /\ Agree' /\ \A s \in Scanner : Between(s)'
    BY <2>1 DEF RepositoryInv, OneCommitter, Between, Agree
  <2> QED BY <2>1, <2>3, <2>4, <2>5 DEF RepositoryInv
<1>4. CASE Expire
  <2>1. /\ UNCHANGED <<current, at, lines, sourceFiles, broken, retry, toremove, cut, refused>>
        /\ UNCHANGED <<FILES, FILES_TMP, FILE, partial, void>> /\ sourceLock' = NoScanner
        /\ (sourceLock = Orphan /\ stalled' = stalled) \/ stalled' = TRUE
    BY <1>4 DEF Expire, local, redis
  <2>2. RepositoryShape' /\ KeysWhole'
    BY <2>1 DEF RepositoryInv, RepositoryShape, KeysWhole, Part
  <2>3. \A s \in Scanner : Collected(s)'
    BY <2>1 DEF RepositoryInv, Collected, Whole, Lossy, Part
  <2>4. ~stalled' => OneCommitter' /\ Agree' /\ \A s \in Scanner : Between(s)'
    BY <2>1, SourceScanAssumption DEF RepositoryInv, OneCommitter, Between, Agree
  <2> QED BY <2>2, <2>3, <2>4 DEF RepositoryInv
<1>5. CASE UNCHANGED repositoryVars
  <2>1. /\ UNCHANGED <<current, at, lines, sourceFiles, broken, retry, toremove, cut, refused>>
        /\ UNCHANGED sourceLock
        /\ UNCHANGED <<FILES, FILES_TMP, FILE, partial, void, stalled>>
    BY <1>5 DEF repositoryVars, local, redis
  <2>2. RepositoryShape' /\ KeysWhole'
    BY <2>1 DEF RepositoryInv, RepositoryShape, KeysWhole, Part
  <2>3. \A s \in Scanner : Collected(s)'
    BY <2>1 DEF RepositoryInv, Collected, Whole, Lossy, Part
  <2>4. ~stalled => OneCommitter' /\ Agree' /\ \A s \in Scanner : Between(s)'
    BY <2>1 DEF RepositoryInv, OneCommitter, Between, Agree
  <2> QED BY <2>1, <2>2, <2>3, <2>4 DEF RepositoryInv
<1> QED BY <1>1, <1>2, <1>3, <1>4, <1>5 DEF RepositoryNext

LEMMA RepositoryStart == RepositoryInit => RepositoryInv
<1> SUFFICES ASSUME RepositoryInit PROVE RepositoryInv
  OBVIOUS
<1>1. /\ current \in DOMAIN Lists /\ << >> \in Seq(Line)
  BY SourceScanAssumption DEF RepositoryInit
<1>2. RepositoryShape /\ KeysWhole
  BY <1>1, IndexedIsWhole DEF RepositoryInit, RepositoryShape, KeysWhole, ScanStep
<1>3. \A s \in Scanner : at[s] = "idle" /\ sourceFiles[s] = {} /\ Whole(s)
  BY DEF RepositoryInit, Whole, Lossy
<1>4. OneCommitter /\ Agree
  BY <1>3 DEF RepositoryInit, OneCommitter, Agree
<1> QED BY <1>2, <1>3, <1>4 DEF RepositoryInv, Collected, Between

\* The inductive invariant holds in every reachable state.
THEOREM RepositoryInvariant == RepositorySpec => []RepositoryInv
BY RepositoryStart, RepositoryStep, PTL DEF RepositorySpec

\* FILES is one whole list or empty, or, if the scan that wrote it has lost files
\* to a failed read or HMGET, a part of one, for any number of processes, scanners
\* and lists, whatever else fails, dies or overlaps (scan.go ScanSource, whose RENAME
\* puts the finished list in place).
THEOREM RepositoryFilesWhole == RepositorySpec => []FilesWhole
<1>1. RepositoryInv => FilesWhole
  BY DEF RepositoryInv, KeysWhole, Part, FilesWhole
<1> QED BY <1>1, RepositoryInvariant, PTL

\* FILES and the hashes FILE_<path> speak of the same files, unless the lock
\* SOURCE_REPO_SYNC expired under a scan or the last scan found nothing (scan.go
\* ScanSource, the two transactions).
THEOREM RepositoryIndexAgrees == RepositorySpec => []IndexAgrees
<1>1. RepositoryInv => IndexAgrees
  BY DEF RepositoryInv, IndexAgrees, Agree
<1> QED BY <1>1, RepositoryInvariant, PTL

-----------------------------------------------------------------------------
(* Folds over the positions of a sequence.  A fold is a recursion over the *)
(* sets of positions; that it has a solution is shown by the size of the   *)
(* sets.                                                                   *)

LEMMA MaxIn ==
    ASSUME NEW n \in Nat, NEW t \in SUBSET (1..n), t # {}
    PROVE  Max(t) \in t
<1> DEFINE T == {n - i : i \in t}
<1>1. T \subseteq Nat /\ T # {}
  OBVIOUS
<1>2. PICK m \in T : \A k \in T : m <= k
  <2> HIDE DEF T
  <2> QED BY <1>1, LeastNat
<1>3. PICK x \in t : m = n - x
  BY <1>2
<1>4. ASSUME NEW y \in t PROVE x >= y
  <2>1. n - y \in T
    OBVIOUS
  <2>2. n - x <= n - y
    BY <1>2, <1>3, <2>1
  <2>3. x \in Nat /\ y \in Nat
    OBVIOUS
  <2> QED BY <2>2, <2>3
<1>5. \E z \in t : \A y \in t : z >= y
  BY <1>4
<1> QED BY <1>5 DEF Max

\* The sets of at most n positions.
Small(D, n) == {t \in SUBSET D : Cardinality(t) <= n}

LEMMA SmallSets ==
    ASSUME NEW D, IsFiniteSet(D)
    PROVE  /\ \A t \in Small(D, 0) : t = {}
           /\ \A n \in Nat : {} \in Small(D, n)
           /\ \A n \in Nat \ {0} : Small(D, n - 1) \subseteq Small(D, n)
           /\ \A n \in Nat \ {0} : \A t \in Small(D, n) : \A x \in t : t \ {x} \in Small(D, n - 1)
           /\ Small(D, Cardinality(D)) = SUBSET D /\ Cardinality(D) \in Nat
<1>1. \A t \in SUBSET D :
         IsFiniteSet(t) /\ Cardinality(t) \in Nat /\ Cardinality(t) <= Cardinality(D)
  BY FS_Subset, FS_CardinalityType
<1>2. \A t \in Small(D, 0) : t = {}
  <2>1. ASSUME NEW t \in Small(D, 0) PROVE t = {}
    <3>1. Cardinality(t) = 0 /\ IsFiniteSet(t)
      BY <1>1 DEF Small
    <3> QED BY <3>1, FS_EmptySet
  <2> QED BY <2>1
<1>3. \A n \in Nat : {} \in Small(D, n)
  BY FS_EmptySet DEF Small
<1>4. \A n \in Nat \ {0} : Small(D, n - 1) \subseteq Small(D, n)
  BY <1>1 DEF Small
<1>5. ASSUME NEW n \in Nat \ {0}, NEW t \in Small(D, n), NEW x \in t
      PROVE  t \ {x} \in Small(D, n - 1)
  <2>1. IsFiniteSet(t) /\ Cardinality(t) \in Nat /\ Cardinality(t) <= n
    BY <1>1 DEF Small
  <2>2. Cardinality(t \ {x}) = Cardinality(t) - 1
    BY <2>1, FS_RemoveElement
  <2> QED BY <2>1, <2>2 DEF Small
<1>6. Small(D, Cardinality(D)) = SUBSET D /\ Cardinality(D) \in Nat
  BY <1>1 DEF Small
<1> QED BY <1>2, <1>3, <1>4, <1>5, <1>6

\* The recursion of Among.
KeptStep(seq, S, t, h) ==
    IF t = {} THEN << >>
    ELSE IF seq[Max(t)] \in S THEN Append(h[t \ {Max(t)}], seq[Max(t)]) ELSE h[t \ {Max(t)}]
IsKept(h, seq, S, sets) == h = [t \in sets |-> KeptStep(seq, S, t, h)]

LEMMA AmongIsFold ==
    ASSUME NEW seq, NEW S
    PROVE  Among(seq, S) = (CHOOSE h : IsKept(h, seq, S, SUBSET DOMAIN seq))[DOMAIN seq]
BY DEF Among, FoldLeft, MapThenFoldSet, IsKept, KeptStep

LEMMA KeptExists ==
    ASSUME NEW n \in Nat, NEW seq, NEW S
    PROVE  \E h : IsKept(h, seq, S, SUBSET (1..n))
<1> DEFINE D == 1..n
           T == {m \in Nat : ~\E h : IsKept(h, seq, S, Small(D, m))}
<1>1. /\ \A t \in Small(D, 0) : t = {}
      /\ \A m \in Nat : {} \in Small(D, m)
      /\ \A m \in Nat \ {0} : Small(D, m - 1) \subseteq Small(D, m)
      /\ \A m \in Nat \ {0} : \A t \in Small(D, m) : \A x \in t : t \ {x} \in Small(D, m - 1)
      /\ Small(D, Cardinality(D)) = SUBSET D /\ Cardinality(D) \in Nat
  <2>1. IsFiniteSet(D)
    BY FS_Interval
  <2> HIDE DEF D
  <2> QED BY <2>1, SmallSets
<1>2. \A t \in SUBSET D : t # {} => Max(t) \in t
  BY MaxIn
<1>3. \A m \in Nat : \A t \in Small(D, m) : t \in SUBSET D
  BY DEF Small
<1> HIDE DEF D
<1>4. T = {}
  <2>1. SUFFICES ASSUME T # {} PROVE FALSE
    OBVIOUS
  <2>2. PICK m \in T : \A k \in T : m <= k
    <3>1. T \subseteq Nat
      OBVIOUS
    <3> HIDE DEF T
    <3> QED BY <2>1, <3>1, LeastNat
  <2>3. m \in Nat /\ ~\E h : IsKept(h, seq, S, Small(D, m))
    BY <2>2
  <2>4. m # 0
    <3> DEFINE h == [t \in Small(D, 0) |-> << >>]
    <3>1. \A t \in Small(D, 0) : KeptStep(seq, S, t, h) = << >>
      BY <1>1 DEF KeptStep
    <3>2. h = [t \in Small(D, 0) |-> KeptStep(seq, S, t, h)]
      BY <3>1
    <3> QED BY <2>3, <3>2 DEF IsKept
  <2>5. PICK h : IsKept(h, seq, S, Small(D, m - 1))
    <3>1. m - 1 \in Nat /\ ~(m <= m - 1)
      BY <2>3, <2>4
    <3>2. m - 1 \notin T
      BY <2>2, <3>1
    <3> QED BY <3>1, <3>2
  <2> DEFINE g == [t \in Small(D, m) |-> KeptStep(seq, S, t, h)]
  <2>6. \A t \in Small(D, m - 1) : g[t] = h[t]
    BY <1>1, <2>3, <2>4, <2>5 DEF IsKept
  <2>7. ASSUME NEW t \in Small(D, m) PROVE KeptStep(seq, S, t, h) = KeptStep(seq, S, t, g)
    <3>1. CASE t = {}
      BY <3>1 DEF KeptStep
    <3>2. CASE t # {}
      <4>1. Max(t) \in t
        BY <1>2, <1>3, <2>3, <3>2
      <4>2. t \ {Max(t)} \in Small(D, m - 1)
        BY <1>1, <2>3, <2>4, <4>1
      <4> HIDE DEF g
      <4>3. g[t \ {Max(t)}] = h[t \ {Max(t)}]
        BY <2>6, <4>2
      <4> QED BY <4>3 DEF KeptStep
    <3> QED BY <3>1, <3>2
  <2>8. g = [t \in Small(D, m) |-> KeptStep(seq, S, t, g)]
    <3> DEFINE a == [t \in Small(D, m) |-> KeptStep(seq, S, t, g)]
    <3>1. \A t \in Small(D, m) : g[t] = KeptStep(seq, S, t, g)
      BY <2>7
    <3> QED BY <3>1
  <2> QED BY <2>3, <2>8 DEF IsKept
<1>5. \E h : IsKept(h, seq, S, Small(D, Cardinality(D)))
  BY <1>1, <1>4
<1>6. \E h : IsKept(h, seq, S, SUBSET D)
  <2>1. Small(D, Cardinality(D)) = SUBSET D
    BY <1>1
  <2> QED BY <1>5, <2>1
<1> QED BY <1>6 DEF D

\* Among keeps the elements that are in S, and only them.
LEMMA AmongIs ==
    ASSUME NEW X, NEW seq \in Seq(X), NEW S
    PROVE  Among(seq, S) \in Seq(X) /\ Range(Among(seq, S)) = Range(seq) \cap S
<1> DEFINE D == DOMAIN seq
           h == CHOOSE f : IsKept(f, seq, S, SUBSET D)
           Good(t) == h[t] \in Seq(X) /\ Range(h[t]) = {seq[i] : i \in t} \cap S
           T == {t \in SUBSET D : ~Good(t)}
<1>1. D = 1..Len(seq) /\ Len(seq) \in Nat /\ \A i \in D : seq[i] \in X
  OBVIOUS
<1>2. IsKept(h, seq, S, SUBSET D)
  BY <1>1, KeptExists
<1>3. IsFiniteSet(D) /\ \A t \in SUBSET D : t # {} => Max(t) \in t
  <2>1. IsFiniteSet(1..Len(seq))
    BY <1>1, FS_Interval
  <2>2. \A t \in SUBSET (1..Len(seq)) : t # {} => Max(t) \in t
    BY <1>1, MaxIn
  <2> HIDE DEF D
  <2> QED BY <1>1, <2>1, <2>2
<1> HIDE DEF D, h
<1>4. \A t \in SUBSET D : h[t] = KeptStep(seq, S, t, h)
  BY <1>2 DEF IsKept
<1>5. T = {}
  <2>1. SUFFICES ASSUME T # {} PROVE FALSE
    OBVIOUS
  <2>2. PICK t \in T : \A u \in T : u \subseteq t => u = t
    <3>1. T \subseteq SUBSET D
      OBVIOUS
    <3> HIDE DEF T
    <3> QED BY <1>3, <2>1, <3>1, MinimalSubset
  <2>3. t \in SUBSET D /\ ~Good(t)
    BY <2>2
  <2>4. CASE t = {}
    <3>1. h[t] = << >>
      BY <1>4, <2>3, <2>4 DEF KeptStep
    <3>2. << >> \in Seq(X) /\ Range(<< >>) = {}
      BY DEF Range
    <3> QED BY <2>3, <2>4, <3>1, <3>2
  <2>5. CASE t # {}
    <3> DEFINE x == Max(t)
               u == t \ {x}
    <3>1. x \in t /\ x \in D /\ seq[x] \in X
      BY <1>1, <1>3, <2>3, <2>5
    <3>2. u \in SUBSET D /\ u # t /\ u \subseteq t
      BY <2>3, <3>1
    <3>3. Good(u)
      BY <2>2, <3>2
    <3>4. h[t] = IF seq[x] \in S THEN Append(h[u], seq[x]) ELSE h[u]
      BY <1>4, <2>3, <2>5 DEF KeptStep
    <3> HIDE DEF x
    <3>5. {seq[i] : i \in t} = {seq[i] : i \in u} \cup {seq[x]}
      BY <3>1
    <3> HIDE DEF u
    <3>6. CASE seq[x] \in S
      <4> DEFINE w == h[u]
      <4>1. w \in Seq(X) /\ Range(w) = {seq[i] : i \in u} \cap S
        BY <3>3
      <4> HIDE DEF w
      <4>2. Append(w, seq[x]) \in Seq(X) /\ Range(Append(w, seq[x])) = Range(w) \cup {seq[x]}
        <5>1. /\ Append(w, seq[x]) \in Seq(X) /\ Len(w) \in Nat
              /\ DOMAIN Append(w, seq[x]) = 1..(Len(w) + 1) /\ DOMAIN w = 1..Len(w)
              /\ \A i \in 1..Len(w) : Append(w, seq[x])[i] = w[i]
              /\ Append(w, seq[x])[Len(w) + 1] = seq[x]
          BY <3>1, <4>1
        <5>2. 1..(Len(w) + 1) = (1..Len(w)) \cup {Len(w) + 1}
          BY <5>1
        <5> QED BY <5>1, <5>2 DEF Range
      <4> QED BY <2>3, <3>4, <3>5, <3>6, <4>1, <4>2 DEF w
    <3>7. CASE seq[x] \notin S
      BY <2>3, <3>3, <3>4, <3>5, <3>7
    <3> QED BY <3>6, <3>7
  <2> QED BY <2>4, <2>5
<1>6. Good(D)
  BY <1>5
<1>7. Among(seq, S) = h[D]
  BY AmongIsFold DEF h, D
<1> QED BY <1>6, <1>7 DEF Range, D

-----------------------------------------------------------------------------
(* The tree of the repository.                                             *)

Node == Seq(STRING) \ {<< >>}

\* A store as BuildFileTree leaves it: every node says what it is about, and the
\* most recent entry of a version is one of its nodes.
TreeOK(S) ==
    /\ S = [mapping |-> S.mapping, order |-> S.order, selector |-> S.selector]
    /\ DOMAIN S.mapping \subseteq Node /\ IsFiniteSet(DOMAIN S.mapping)
    /\ S.order \in Seq(Node) /\ Range(S.order) = DOMAIN S.mapping
    /\ \A q \in DOMAIN S.mapping : S.mapping[q].path = q /\ S.mapping[q].mod \in Nat
    /\ \A v \in DOMAIN S.selector : S.selector[v] \in DOMAIN S.mapping /\ Head(S.selector[v]) = v

FilesOf(S) == {q \in DOMAIN S.mapping : ~IsDir(S, q)}

\* The store S with other contents, and contents that only move between the files
\* of a version.
With(S, m) == [mapping |-> m, order |-> S.order, selector |-> S.selector]
Kin(S, m) ==
    /\ DOMAIN m = DOMAIN S.mapping
    /\ \A q \in DOMAIN m : m[q].mod \in Nat
    /\ \A q \in FilesOf(S) : m[q].path \in FilesOf(S) /\ Head(m[q].path) = Head(q)

LEMMA WithSame ==
    ASSUME NEW S, NEW m, DOMAIN m = DOMAIN S.mapping
    PROVE  /\ With(S, m).mapping = m
           /\ With(S, m).order = S.order
           /\ With(S, m).selector = S.selector
           /\ \A q : IsDir(With(S, m), q) <=> IsDir(S, q)
           /\ \A dirs : Leaves(With(S, m), dirs) = Leaves(S, dirs)
           /\ \A v : selectEveryScenarioArchDir(With(S, m), v) = selectEveryScenarioArchDir(S, v)
           /\ Versions(With(S, m)) = Versions(S)
<1>1. /\ With(S, m).mapping = m /\ With(S, m).order = S.order /\ With(S, m).selector = S.selector
  BY DEF With
<1>2. \A q : IsDir(With(S, m), q) <=> IsDir(S, q)
  BY <1>1 DEF IsDir
<1>3. \A dirs : Leaves(With(S, m), dirs) = Leaves(S, dirs)
  <2>1. SUFFICES ASSUME NEW dirs PROVE Leaves(With(S, m), dirs) = Leaves(S, dirs)
    OBVIOUS
  <2> DEFINE A == {q \in DOMAIN With(S, m).mapping :
                      ~IsDir(With(S, m), q) /\ \E d \in dirs : IsPrefix(d, q)}
             B == {q \in DOMAIN S.mapping : ~IsDir(S, q) /\ \E d \in dirs : IsPrefix(d, q)}
  <2>2. A = B
    BY <1>1, <1>2
  <2>3. Leaves(With(S, m), dirs) = Among(With(S, m).order, A) /\ Leaves(S, dirs) = Among(S.order, B)
    BY DEF Leaves
  <2> HIDE DEF A, B
  <2> QED BY <1>1, <2>2, <2>3
<1>4. \A v : selectEveryScenarioArchDir(With(S, m), v) = selectEveryScenarioArchDir(S, v)
  BY <1>1 DEF selectEveryScenarioArchDir
<1>5. \A v : checkRepoArch(With(S, m), v) = checkRepoArch(S, v)
  BY <1>1 DEF checkRepoArch, checkRepoScenario
<1>6. Versions(With(S, m)) = Versions(S)
  BY <1>1, <1>5 DEF Versions
<1> QED BY <1>1, <1>2, <1>3, <1>4, <1>6

\* A function on a finite set has a maximum.
LEMMA Highest ==
    ASSUME NEW D, IsFiniteSet(D), D # {}, NEW f, \A i \in D : f[i] \in Nat
    PROVE  \E i \in D : \A j \in D : f[j] <= f[i]
<1> DEFINE T == {t \in SUBSET D : t # {} /\ ~\E i \in t : \A j \in t : f[j] <= f[i]}
<1>1. SUFFICES ASSUME T # {} PROVE FALSE
  <2>1. D \notin T => \E i \in D : \A j \in D : f[j] <= f[i]
    OBVIOUS
  <2> QED BY <2>1
<1>2. PICK t \in T : \A u \in T : u \subseteq t => u = t
  <2>1. T \subseteq SUBSET D
    OBVIOUS
  <2> HIDE DEF T
  <2> QED BY <1>1, <2>1, MinimalSubset
<1>3. t \subseteq D /\ t # {} /\ ~\E i \in t : \A j \in t : f[j] <= f[i]
  BY <1>2
<1>4. PICK x \in t : TRUE
  BY <1>3
<1>5. f[x] \in Nat /\ \A j \in t : f[j] \in Nat
  BY <1>3, <1>4
<1>6. CASE t \ {x} = {}
  <2>1. \A j \in t : j = x
    BY <1>6
  <2> QED BY <1>3, <1>4, <1>5, <2>1
<1>7. CASE t \ {x} # {}
  <2>1. t \ {x} \notin T
    BY <1>2, <1>4
  <2>2. PICK y \in t \ {x} : \A j \in t \ {x} : f[j] <= f[y]
    BY <1>3, <1>7, <2>1
  <2>3. CASE f[x] <= f[y]
    BY <1>3, <2>2, <2>3
  <2>4. CASE ~(f[x] <= f[y])
    <3>1. \A j \in t : f[j] <= f[x]
      BY <1>5, <2>2, <2>4
    <3> QED BY <1>3, <1>4, <3>1
  <2> QED BY <2>3, <2>4
<1> QED BY <1>6, <1>7

LEMMA PrefixFacts ==
    ASSUME NEW d \in Node, NEW q \in Node, IsPrefix(d, q)
    PROVE  /\ Head(q) = Head(d)
           /\ \A r \in Node : Len(r) > 1 /\ Front(r) = q => IsPrefix(d, r) /\ Len(r) > Len(q)
<1>1. /\ Len(d) \in Nat \ {0} /\ Len(q) \in Nat \ {0} /\ Len(d) <= Len(q)
      /\ SubSeq(d, 1, Len(d)) = SubSeq(q, 1, Len(d))
  BY DEF IsPrefix, Node
<1>2. Head(q) = Head(d)
  <2>1. SubSeq(d, 1, Len(d))[1] = d[1] /\ SubSeq(q, 1, Len(d))[1] = q[1]
    BY <1>1 DEF Node
  <2>2. Head(q) = q[1] /\ Head(d) = d[1]
    BY DEF Node
  <2> QED BY <1>1, <2>1, <2>2
<1>3. ASSUME NEW r \in Node, Len(r) > 1, Front(r) = q
      PROVE  IsPrefix(d, r) /\ Len(r) > Len(q)
  <2>1. Len(r) \in Nat /\ Len(q) = Len(r) - 1 /\ q = SubSeq(r, 1, Len(r) - 1)
    BY <1>3 DEF Front, Node
  <2>2. SubSeq(q, 1, Len(d)) = SubSeq(r, 1, Len(d))
    <3>1. \A i \in 1..Len(q) : q[i] = r[i]
      BY <2>1 DEF Node
    <3>2. /\ Len(SubSeq(q, 1, Len(d))) = Len(d) /\ Len(SubSeq(r, 1, Len(d))) = Len(d)
          /\ \A i \in 1..Len(d) : SubSeq(q, 1, Len(d))[i] = q[i]
          /\ \A i \in 1..Len(d) : SubSeq(r, 1, Len(d))[i] = r[i]
          /\ SubSeq(q, 1, Len(d)) \in Seq(STRING) /\ SubSeq(r, 1, Len(d)) \in Seq(STRING)
      BY <1>1, <2>1 DEF Node
    <3>3. \A i \in 1..Len(d) : i \in 1..Len(q)
      BY <1>1
    <3> QED BY <3>1, <3>2, <3>3, SeqEqual
  <2> QED BY <1>1, <2>1, <2>2 DEF IsPrefix
<1> QED BY <1>2, <1>3

\* The leaves below some directories are files of the store.
LEMMA LeavesAre ==
    ASSUME NEW S, TreeOK(S), NEW dirs
    PROVE  /\ Leaves(S, dirs) \in Seq(FilesOf(S))
           /\ Range(Leaves(S, dirs)) = {q \in FilesOf(S) : \E d \in dirs : IsPrefix(d, q)}
<1> DEFINE L == {q \in DOMAIN S.mapping : ~IsDir(S, q) /\ \E d \in dirs : IsPrefix(d, q)}
           l == Among(S.order, L)
<1>1. Leaves(S, dirs) = l
  BY DEF Leaves
<1>2. S.order \in Seq(Node) /\ Range(S.order) = DOMAIN S.mapping
  BY DEF TreeOK
<1>3. L = {q \in FilesOf(S) : \E d \in dirs : IsPrefix(d, q)}
  BY DEF FilesOf
<1> HIDE DEF L
<1>4. l \in Seq(Node) /\ Range(l) = Range(S.order) \cap L
  BY <1>2, AmongIs
<1>5. Range(l) = L
  BY <1>2, <1>3, <1>4 DEF FilesOf
<1> HIDE DEF l
<1>6. l \in Seq(FilesOf(S))
  <2>1. Len(l) \in Nat /\ l = [i \in 1..Len(l) |-> l[i]]
    BY <1>4
  <2>2. \A i \in 1..Len(l) : l[i] \in FilesOf(S)
    BY <1>3, <1>4, <1>5 DEF Range
  <2>3. l \in [1..Len(l) -> FilesOf(S)]
    BY <2>1, <2>2
  <2> QED BY <2>1, <2>3, SeqDef
<1> QED BY <1>1, <1>3, <1>5, <1>6

\* Below every node there is a file.
LEMMA FileBelow ==
    ASSUME NEW S, TreeOK(S), NEW d \in DOMAIN S.mapping
    PROVE  \E q \in FilesOf(S) : IsPrefix(d, q)
<1> DEFINE B == {q \in DOMAIN S.mapping : IsPrefix(d, q)}
           f == [q \in B |-> Len(q)]
<1>1. DOMAIN S.mapping \subseteq Node /\ IsFiniteSet(DOMAIN S.mapping)
  BY DEF TreeOK
<1>2. IsFiniteSet(B) /\ \A q \in B : f[q] \in Nat
  <2>1. \A q \in B : f[q] \in Nat
    BY <1>1 DEF Node
  <2>2. B \subseteq DOMAIN S.mapping
    OBVIOUS
  <2> QED BY <1>1, <2>1, <2>2, FS_Subset
<1>3. d \in B
  BY <1>1 DEF Node, IsPrefix
<1>4. PICK q \in B : \A r \in B : f[r] <= f[q]
  <2> HIDE DEF B, f
  <2>1. B # {}
    BY <1>3
  <2> QED BY <1>2, <2>1, Highest
<1>5. ASSUME NEW r \in DOMAIN S.mapping, Len(r) > 1, Front(r) = q PROVE FALSE
  <2>1. d \in Node /\ q \in Node /\ r \in Node /\ IsPrefix(d, q)
    BY <1>1, <1>4, <1>5
  <2>2. IsPrefix(d, r) /\ Len(r) > Len(q)
    BY <1>5, <2>1, PrefixFacts
  <2>3. r \in B /\ Len(r) <= Len(q)
    BY <1>4, <1>5, <2>2
  <2>4. Len(r) \in Nat /\ Len(q) \in Nat
    BY <2>1 DEF Node
  <2> QED BY <2>2, <2>3, <2>4
<1>6. ~IsDir(S, q)
  BY <1>5 DEF IsDir
<1> QED BY <1>4, <1>6 DEF FilesOf

\* dfsEveryFile moves contents between files of one version.
LEMMA NewestKin ==
    ASSUME NEW S, NEW m, Kin(S, m), NEW found \in Seq(FilesOf(S)), NEW file \in FilesOf(S),
           \A i \in DOMAIN found : Head(found[i]) = Head(file)
    PROVE  \E n : Newest(With(S, m), found, file) = With(S, n) /\ Kin(S, n)
<1> DEFINE mod(q) == m[q].mod
           latest == {i \in DOMAIN found : \A j \in DOMAIN found : mod(found[j]) <= mod(found[i])}
           first == CHOOSE i \in latest : \A j \in latest : i <= j
           q == found[first]
           n == [m EXCEPT ![file] = m[q]]
<1>1. With(S, m).mapping = m
  BY DEF With
<1>2. Newest(With(S, m), found, file) =
          IF found # << >> /\ mod(q) > mod(file)
          THEN [With(S, m) EXCEPT !.mapping[file] = m[q]] ELSE With(S, m)
  BY <1>1 DEF Newest
<1>3. CASE found # << >> /\ mod(q) > mod(file)
  <2>1. first \in DOMAIN found
    <3>1. DOMAIN found = 1..Len(found) /\ Len(found) \in Nat /\ DOMAIN found # {}
      BY <1>3
    <3>2. \A i \in DOMAIN found : found[i] \in FilesOf(S) /\ found[i] \in DOMAIN m
      BY DEF Kin, FilesOf
    <3>3. \A i \in DOMAIN found : mod(found[i]) \in Nat
      BY <3>2 DEF Kin
    <3> DEFINE f == [i \in DOMAIN found |-> mod(found[i])]
    <3>4. \E i \in DOMAIN found : \A j \in DOMAIN found : f[j] <= f[i]
      <4>1. IsFiniteSet(DOMAIN found) /\ \A i \in DOMAIN found : f[i] \in Nat
        BY <3>1, <3>3, FS_Interval
      <4> HIDE DEF f
      <4> QED BY <3>1, <4>1, Highest
    <3>5. latest # {} /\ latest \subseteq Nat
      BY <3>1, <3>4
    <3>6. \E i \in latest : \A j \in latest : i <= j
      <4> HIDE DEF latest
      <4> QED BY <3>5, LeastNat
    <3>7. first \in latest
      <4> HIDE DEF latest
      <4> QED BY <3>6
    <3> QED BY <3>7
  <2>2. q \in FilesOf(S) /\ Head(q) = Head(file)
    <3> HIDE DEF first
    <3> QED BY <2>1
  <2> HIDE DEF q
  <2>3. [With(S, m) EXCEPT !.mapping[file] = m[q]] = With(S, n)
    BY DEF With
  <2>4. DOMAIN n = DOMAIN m /\ \A p \in DOMAIN m : n[p] = IF p = file THEN m[q] ELSE m[p]
    OBVIOUS
  <2>5. q \in DOMAIN m /\ file \in DOMAIN m
    BY <2>2 DEF Kin, FilesOf
  <2> HIDE DEF n
  <2>6. Kin(S, n)
    <3>1. \A p \in DOMAIN n : n[p].mod \in Nat
      BY <2>4, <2>5 DEF Kin
    <3>2. ASSUME NEW p \in FilesOf(S)
          PROVE  n[p].path \in FilesOf(S) /\ Head(n[p].path) = Head(p)
      <4>1. p \in DOMAIN m
        BY DEF Kin, FilesOf
      <4>2. CASE p = file
        BY <2>2, <2>4, <2>5, <4>2 DEF Kin
      <4>3. CASE p # file
        BY <2>4, <4>1, <4>3 DEF Kin
      <4> QED BY <4>2, <4>3
    <3> QED BY <2>4, <3>1, <3>2 DEF Kin
  <2> QED BY <1>2, <1>3, <2>3, <2>6
<1>4. CASE ~(found # << >> /\ mod(q) > mod(file))
  BY <1>2, <1>4
<1> QED BY <1>3, <1>4

\* What the loop of collectRepoVersionList keeps: contents move between the files
\* of a version, and only files are selected.
GoodAcc(S, acc) ==
    /\ \E m : acc.store = With(S, m) /\ Kin(S, m)
    /\ acc.selected \in Seq(FilesOf(S))

LEMMA JoinFiles ==
    ASSUME NEW F, NEW a \in Seq(F), NEW p \in F, NEW b \in Seq(F)
    PROVE  /\ a \o <<p>> \o b \in Seq(F)
           /\ Range(a) \subseteq Range(a \o <<p>> \o b)
           /\ p \in Range(a \o <<p>> \o b)
<1> DEFINE c == a \o <<p>>
           d == c \o b
<1>1. /\ Len(a) \in Nat /\ Len(b) \in Nat /\ c \in Seq(F) /\ Len(c) = Len(a) + 1
      /\ \A i \in 1..Len(a) : c[i] = a[i]
      /\ c[Len(a) + 1] = p
  OBVIOUS
<1> HIDE DEF c
<1>2. /\ d \in Seq(F) /\ Len(d) = Len(c) + Len(b) /\ \A i \in 1..Len(c) : d[i] = c[i]
  BY <1>1
<1> HIDE DEF d
<1>3. DOMAIN a = 1..Len(a) /\ DOMAIN d = 1..Len(d)
  BY <1>2
<1>4. ASSUME NEW x \in Range(a) PROVE x \in Range(d)
  <2>1. PICK i \in 1..Len(a) : x = a[i]
    BY <1>3, <1>4 DEF Range
  <2>2. i \in 1..Len(c) /\ i \in 1..Len(d)
    BY <1>1, <1>2
  <2> QED BY <1>1, <1>2, <1>3, <2>1, <2>2 DEF Range
<1>5. p \in Range(d)
  <2>1. Len(a) + 1 \in 1..Len(c) /\ Len(a) + 1 \in 1..Len(d)
    BY <1>1, <1>2
  <2> QED BY <1>1, <1>2, <1>3, <2>1 DEF Range
<1> QED BY <1>2, <1>4, <1>5 DEF c, d

LEMMA VersionCollected ==
    ASSUME NEW S, TreeOK(S), NEW acc, GoodAcc(S, acc), NEW v
    PROVE  LET next == CollectVersion(acc, v)
           IN /\ GoodAcc(S, next)
              /\ Range(acc.selected) \subseteq Range(next.selected)
              /\ v \in DOMAIN S.selector => \E p \in Range(next.selected) : Head(p) = v
<1>1. PICK m : acc.store = With(S, m) /\ Kin(S, m)
  BY DEF GoodAcc
<1>2. DOMAIN m = DOMAIN S.mapping
  BY <1>1 DEF Kin
<1>3. acc.store.selector = S.selector
  BY <1>1, <1>2, WithSame
<1>4. CASE v \notin DOMAIN S.selector
  BY <1>3, <1>4 DEF CollectVersion
<1>5. CASE v \in DOMAIN S.selector
  <2> DEFINE entry == S.selector[v]
             below == Leaves(S, {entry})
             p == Head(below)
             store == IF IsDir(S, entry) THEN Newest(With(S, m), below, p) ELSE With(S, m)
             dirs == selectEveryScenarioArchDir(S, v)
             all == Leaves(S, dirs)
  <2>1. /\ entry \in DOMAIN S.mapping /\ Head(entry) = v
        /\ DOMAIN S.mapping \subseteq Node
        /\ FilesOf(S) \subseteq Node
    BY <1>5 DEF TreeOK, FilesOf
  <2>2. /\ below \in Seq(FilesOf(S)) /\ Range(below) = {q \in FilesOf(S) : IsPrefix(entry, q)}
        /\ \A q \in Range(below) : Head(q) = v
    <3>1. /\ below \in Seq(FilesOf(S))
          /\ Range(below) = {q \in FilesOf(S) : \E d \in {entry} : IsPrefix(d, q)}
      BY LeavesAre
    <3>2. Range(below) = {q \in FilesOf(S) : IsPrefix(entry, q)}
      BY <3>1
    <3>3. \A q \in FilesOf(S) : IsPrefix(entry, q) => Head(q) = v
      BY <2>1, PrefixFacts
    <3> QED BY <3>1, <3>2, <3>3
  <2>3. p \in FilesOf(S) /\ Head(p) = v
    <3>1. Range(below) # {}
      BY <2>1, <2>2, FileBelow
    <3> HIDE DEF below
    <3>2. Len(below) \in Nat /\ DOMAIN below = 1..Len(below) /\ DOMAIN below # {}
      <4>1. DOMAIN below # {}
        BY <3>1 DEF Range
      <4> QED BY <2>2, <4>1
    <3>3. below # << >> /\ 1 \in DOMAIN below /\ p = below[1]
      BY <2>2, <3>2
    <3>4. p \in Range(below)
      BY <3>3 DEF Range
    <3> QED BY <2>2, <3>4
  <2>4. \A q : IsDir(With(S, m), q) <=> IsDir(S, q)
    BY <1>2, WithSame
  <2>5. Leaves(With(S, m), {entry}) = below
    BY <1>2, WithSame
  <2>6. PICK n : store = With(S, n) /\ Kin(S, n)
    <3> HIDE DEF below, p, entry
    <3>1. \A i \in DOMAIN below : Head(below[i]) = Head(p)
      BY <2>2, <2>3 DEF Range
    <3>2. \E n : Newest(With(S, m), below, p) = With(S, n) /\ Kin(S, n)
      BY <1>1, <2>2, <2>3, <3>1, NewestKin
    <3> QED BY <1>1, <3>2
  <2>7. DOMAIN n = DOMAIN S.mapping
    BY <2>6 DEF Kin
  <2>8. /\ Leaves(With(S, n), dirs) = all
        /\ selectEveryScenarioArchDir(With(S, n), v) = dirs
    BY <2>7, WithSame
  <2>9. /\ all \in Seq(FilesOf(S))
        /\ \A q \in Range(all) : Head(q) = v
    <3>1. /\ all \in Seq(FilesOf(S))
          /\ Range(all) = {q \in FilesOf(S) : \E d \in dirs : IsPrefix(d, q)}
      BY LeavesAre
    <3>2. ASSUME NEW d \in dirs PROVE d \in Node /\ Head(d) = v
      <4>1. d \in DOMAIN S.mapping /\ \E s \in SecondDir, a \in ThirdDir : d = <<v, s, a>>
        BY DEF selectEveryScenarioArchDir
      <4> QED BY <2>1, <4>1
    <3> HIDE DEF dirs, all
    <3>3. ASSUME NEW q \in Range(all) PROVE Head(q) = v
      <4>1. PICK d \in dirs : q \in FilesOf(S) /\ IsPrefix(d, q)
        BY <3>1
      <4> QED BY <2>1, <3>2, <4>1, PrefixFacts
    <3> QED BY <3>1, <3>3
  <2>10. Cardinality(dirs) \in Nat
    <3>1. IsFiniteSet(DOMAIN S.mapping) /\ dirs \subseteq DOMAIN S.mapping
      BY DEF TreeOK, selectEveryScenarioArchDir
    <3> QED BY <3>1, FS_Subset, FS_CardinalityType
  <2> DEFINE one == [store |-> With(S, n), selected |-> acc.selected \o <<p>> \o all]
             many == [i \in 1..Cardinality(dirs) |-> p]
             two == [store |-> Newest(With(S, n), all, p),
                     selected |-> acc.selected \o <<p>> \o many]
  <2>11. CollectVersion(acc, v) = one \/ CollectVersion(acc, v) = two
    <3>1. dfsFirstFile(With(S, m), entry) = p
      BY <2>5 DEF dfsFirstFile
    <3>2. (IF IsDir(With(S, m), entry) THEN Newest(With(S, m), below, p) ELSE With(S, m))
             = With(S, n)
      BY <2>4, <2>6
    <3> HIDE DEF entry, below, p, dirs, all
    <3> QED BY <1>1, <1>3, <1>5, <2>5, <2>8, <3>1, <3>2 DEF CollectVersion, entry
  <2> HIDE DEF p, dirs, all
  <2>12. many \in Seq(FilesOf(S))
    BY <2>3, <2>10
  <2>13. acc.selected \in Seq(FilesOf(S))
    BY DEF GoodAcc
  <2>14. CASE CollectVersion(acc, v) = one
    <3>1. one.store = With(S, n) /\ one.selected = acc.selected \o <<p>> \o all
      OBVIOUS
    <3>2. /\ one.selected \in Seq(FilesOf(S))
          /\ Range(acc.selected) \subseteq Range(one.selected)
          /\ p \in Range(one.selected)
      BY <2>3, <2>9, <2>13, <3>1, JoinFiles
    <3> HIDE DEF one
    <3>3. GoodAcc(S, one)
      BY <2>6, <3>1, <3>2 DEF GoodAcc
    <3> QED BY <2>3, <2>14, <3>2, <3>3
  <2>15. CASE CollectVersion(acc, v) = two
    <3>1. two.store = Newest(With(S, n), all, p) /\ two.selected = acc.selected \o <<p>> \o many
      OBVIOUS
    <3>2. \E k : Newest(With(S, n), all, p) = With(S, k) /\ Kin(S, k)
      <4>1. \A i \in DOMAIN all : Head(all[i]) = Head(p)
        BY <2>3, <2>9 DEF Range
      <4> QED BY <2>3, <2>6, <2>9, <4>1, NewestKin
    <3> HIDE DEF many
    <3>3. /\ two.selected \in Seq(FilesOf(S))
          /\ Range(acc.selected) \subseteq Range(two.selected)
          /\ p \in Range(two.selected)
      BY <2>3, <2>12, <2>13, <3>1, JoinFiles
    <3> HIDE DEF two
    <3>4. GoodAcc(S, two)
      BY <3>1, <3>2, <3>3 DEF GoodAcc
    <3> QED BY <2>3, <2>15, <3>3, <3>4
  <2> QED BY <2>11, <2>14, <2>15
<1> QED BY <1>4, <1>5

\* The recursion of collectRepoVersionList.
OneMore(S, seq, t, h) ==
    IF t = {} THEN [store |-> S, selected |-> << >>]
    ELSE CollectVersion(h[t \ {Max(t)}], Head(seq[Max(t)]))
IsCollected(h, S, seq, sets) == h = [t \in sets |-> OneMore(S, seq, t, h)]

LEMMA CollectIsFold ==
    ASSUME NEW S
    PROVE  LET shown == Among(S.order, Versions(S))
           IN collectRepoVersionList(S)
                = (CHOOSE h : IsCollected(h, S, shown, SUBSET DOMAIN shown))[DOMAIN shown]
BY DEF collectRepoVersionList, FoldLeft, MapThenFoldSet, IsCollected, OneMore

LEMMA CollectedExists ==
    ASSUME NEW n \in Nat, NEW S, NEW seq
    PROVE  \E h : IsCollected(h, S, seq, SUBSET (1..n))
<1> DEFINE D == 1..n
           T == {m \in Nat : ~\E h : IsCollected(h, S, seq, Small(D, m))}
           none == [store |-> S, selected |-> << >>]
<1>1. /\ \A t \in Small(D, 0) : t = {}
      /\ \A m \in Nat : {} \in Small(D, m)
      /\ \A m \in Nat \ {0} : Small(D, m - 1) \subseteq Small(D, m)
      /\ \A m \in Nat \ {0} : \A t \in Small(D, m) : \A x \in t : t \ {x} \in Small(D, m - 1)
      /\ Small(D, Cardinality(D)) = SUBSET D /\ Cardinality(D) \in Nat
  <2>1. IsFiniteSet(D)
    BY FS_Interval
  <2> HIDE DEF D
  <2> QED BY <2>1, SmallSets
<1>2. \A t \in SUBSET D : t # {} => Max(t) \in t
  BY MaxIn
<1>3. \A m \in Nat : \A t \in Small(D, m) : t \in SUBSET D
  BY DEF Small
<1> HIDE DEF D
<1>4. T = {}
  <2>1. SUFFICES ASSUME T # {} PROVE FALSE
    OBVIOUS
  <2>2. PICK m \in T : \A k \in T : m <= k
    <3>1. T \subseteq Nat
      OBVIOUS
    <3> HIDE DEF T
    <3> QED BY <2>1, <3>1, LeastNat
  <2>3. m \in Nat /\ ~\E h : IsCollected(h, S, seq, Small(D, m))
    BY <2>2
  <2>4. m # 0
    <3> DEFINE h == [t \in Small(D, 0) |-> none]
    <3>1. \A t \in Small(D, 0) : OneMore(S, seq, t, h) = none
      BY <1>1 DEF OneMore
    <3>2. h = [t \in Small(D, 0) |-> OneMore(S, seq, t, h)]
      BY <3>1
    <3> QED BY <2>3, <3>2 DEF IsCollected
  <2>5. PICK h : IsCollected(h, S, seq, Small(D, m - 1))
    <3>1. m - 1 \in Nat /\ ~(m <= m - 1)
      BY <2>3, <2>4
    <3>2. m - 1 \notin T
      BY <2>2, <3>1
    <3> QED BY <3>1, <3>2
  <2> DEFINE g == [t \in Small(D, m) |-> OneMore(S, seq, t, h)]
  <2>6. \A t \in Small(D, m - 1) : g[t] = h[t]
    BY <1>1, <2>3, <2>4, <2>5 DEF IsCollected
  <2>7. ASSUME NEW t \in Small(D, m)
        PROVE  OneMore(S, seq, t, h) = OneMore(S, seq, t, g)
    <3>1. CASE t = {}
      BY <3>1 DEF OneMore
    <3>2. CASE t # {}
      <4>1. Max(t) \in t
        BY <1>2, <1>3, <2>3, <3>2
      <4>2. t \ {Max(t)} \in Small(D, m - 1)
        BY <1>1, <2>3, <2>4, <4>1
      <4> HIDE DEF g
      <4>3. g[t \ {Max(t)}] = h[t \ {Max(t)}]
        BY <2>6, <4>2
      <4> QED BY <4>3 DEF OneMore
    <3> QED BY <3>1, <3>2
  <2>8. g = [t \in Small(D, m) |-> OneMore(S, seq, t, g)]
    <3>1. \A t \in Small(D, m) : g[t] = OneMore(S, seq, t, g)
      BY <2>7
    <3> QED BY <3>1
  <2> QED BY <2>3, <2>8 DEF IsCollected
<1>5. \E h : IsCollected(h, S, seq, Small(D, Cardinality(D)))
  BY <1>1, <1>4
<1>6. \E h : IsCollected(h, S, seq, SUBSET D)
  <2>1. Small(D, Cardinality(D)) = SUBSET D
    BY <1>1
  <2> QED BY <1>5, <2>1
<1> QED BY <1>6 DEF D

\* collectRepoVersionList keeps the nodes, selects only files, and selects one
\* of every version that is shown and has a most recent entry.
LEMMA CollectKeeps ==
    ASSUME NEW S, TreeOK(S)
    PROVE  LET c == collectRepoVersionList(S)
           IN /\ GoodAcc(S, c)
              /\ \A q \in Versions(S) : Head(q) \in DOMAIN S.selector =>
                    \E p \in Range(c.selected) : Head(p) = Head(q)
<1> DEFINE shown == Among(S.order, Versions(S))
           D == DOMAIN shown
           h == CHOOSE f : IsCollected(f, S, shown, SUBSET D)
           Good(t) == /\ GoodAcc(S, h[t])
                      /\ \A i \in t : Head(shown[i]) \in DOMAIN S.selector =>
                            \E p \in Range(h[t].selected) : Head(p) = Head(shown[i])
           T == {t \in SUBSET D : ~Good(t)}
<1>1. shown \in Seq(Node) /\ Range(shown) = Versions(S)
  <2>1. S.order \in Seq(Node) /\ Range(S.order) = DOMAIN S.mapping
    BY DEF TreeOK
  <2>2. shown \in Seq(Node) /\ Range(shown) = Range(S.order) \cap Versions(S)
    BY <2>1, AmongIs
  <2>3. Versions(S) \subseteq DOMAIN S.mapping
    BY DEF Versions
  <2> QED BY <2>1, <2>2, <2>3
<1>2. collectRepoVersionList(S) = h[D]
  BY CollectIsFold
<1> HIDE DEF shown
<1>3. D = 1..Len(shown) /\ Len(shown) \in Nat
  BY <1>1
<1>4. IsCollected(h, S, shown, SUBSET D)
  BY <1>3, CollectedExists
<1>5. IsFiniteSet(D) /\ \A t \in SUBSET D : t # {} => Max(t) \in t
  <2>1. IsFiniteSet(1..Len(shown))
    BY <1>3, FS_Interval
  <2>2. \A t \in SUBSET (1..Len(shown)) : t # {} => Max(t) \in t
    BY <1>3, MaxIn
  <2> HIDE DEF D
  <2> QED BY <1>3, <2>1, <2>2
<1> HIDE DEF D, h
<1>6. \A t \in SUBSET D : h[t] = OneMore(S, shown, t, h)
  BY <1>4 DEF IsCollected
<1>7. T = {}
  <2>1. SUFFICES ASSUME T # {} PROVE FALSE
    OBVIOUS
  <2>2. PICK t \in T : \A u \in T : u \subseteq t => u = t
    <3>1. T \subseteq SUBSET D
      OBVIOUS
    <3> HIDE DEF T
    <3> QED BY <1>5, <2>1, <3>1, MinimalSubset
  <2>3. t \in SUBSET D /\ ~Good(t)
    BY <2>2
  <2>4. CASE t = {}
    <3>1. h[t] = [store |-> S, selected |-> << >>]
      BY <1>6, <2>3, <2>4 DEF OneMore
    <3>2. S = With(S, S.mapping)
      BY DEF TreeOK, With
    <3>3. Kin(S, S.mapping)
      BY DEF TreeOK, Kin, FilesOf
    <3>4. h[t].store = S /\ h[t].selected = << >> /\ << >> \in Seq(FilesOf(S))
      BY <3>1
    <3>5. GoodAcc(S, h[t])
      BY <3>2, <3>3, <3>4 DEF GoodAcc
    <3> QED BY <2>3, <2>4, <3>5
  <2>5. CASE t # {}
    <3> DEFINE x == Max(t)
               u == t \ {x}
               v == Head(shown[x])
    <3>1. x \in t
      BY <1>5, <2>3, <2>5
    <3>2. u \in SUBSET D /\ u # t /\ u \subseteq t
      BY <2>3, <3>1
    <3>3. Good(u)
      BY <2>2, <3>2
    <3>4. h[t] = CollectVersion(h[u], v)
      BY <1>6, <2>3, <2>5 DEF OneMore
    <3> HIDE DEF x
    <3>5. \A i \in t : i \in u \/ i = x
      OBVIOUS
    <3> HIDE DEF u, v
    <3>6. /\ GoodAcc(S, h[t])
          /\ Range(h[u].selected) \subseteq Range(h[t].selected)
          /\ v \in DOMAIN S.selector => \E p \in Range(h[t].selected) : Head(p) = v
      <4>1. GoodAcc(S, h[u])
        BY <3>3
      <4> DEFINE acc == h[u]
                 next == CollectVersion(acc, v)
      <4> HIDE DEF acc
      <4>2. GoodAcc(S, acc)
        BY <4>1 DEF acc
      <4>3. /\ GoodAcc(S, next)
            /\ Range(acc.selected) \subseteq Range(next.selected)
            /\ v \in DOMAIN S.selector => \E p \in Range(next.selected) : Head(p) = v
        BY <4>2, VersionCollected
      <4>4. h[t] = next
        BY <3>4 DEF acc
      <4> QED BY <4>3, <4>4 DEF acc
    <3>7. ASSUME NEW i \in t, Head(shown[i]) \in DOMAIN S.selector
          PROVE  \E p \in Range(h[t].selected) : Head(p) = Head(shown[i])
      <4>1. CASE i = x
        BY <3>6, <3>7, <4>1 DEF v
      <4>2. CASE i \in u
        BY <3>3, <3>6, <3>7, <4>2
      <4> QED BY <3>5, <4>1, <4>2
    <3> QED BY <2>3, <3>6, <3>7
  <2> QED BY <2>4, <2>5
<1>8. Good(D)
  BY <1>7
<1>9. ASSUME NEW q \in Versions(S), Head(q) \in DOMAIN S.selector
      PROVE  \E p \in Range(h[D].selected) : Head(p) = Head(q)
  <2>1. PICK i \in D : q = shown[i]
    BY <1>1 DEF Range, D
  <2> QED BY <1>8, <1>9, <2>1
<1> QED BY <1>2, <1>8, <1>9

-----------------------------------------------------------------------------
(* The trees of the processes: the inductive invariant                     *)

TreeFor(paths) == UNION {Ancestry(path) : path \in paths}

\* Nodes that are the tree of one list or, if something was lost, a part of it.
TreeOf(nodes, lost) ==
    /\ \E tree \in AllTrees : nodes \subseteq tree
    /\ ~lost => nodes \in AllTrees

\* As long as the scanners of a process have not run at once, one at most fills
\* the replica, which is empty before, and what it holds and the lines still to
\* read make up a whole list, if its reading has not failed.
Growing(p) ==
    /\ TreeOf(DOMAIN built[p].mapping, p \in clipped)
    /\ \A s, t \in Building(p) : s = t
    /\ Building(p) = {} => DOMAIN fileTreeReplica[p].mapping = {}
    /\ \A s \in Building(p) :
          TreeOf(DOMAIN fileTreeReplica[p].mapping \cup TreeFor(Indexed(lines[s])), s \in cut)

TreeInv ==
    /\ DOMAIN built = Process /\ DOMAIN fileTreeReplica = Process
    /\ \A p \in Process : TreeOK(built[p]) /\ TreeOK(fileTreeReplica[p])
    /\ overlap \in BOOLEAN
    /\ ~overlap => \A p \in Process : Growing(p)

LEMMA AncestryIs ==
    ASSUME NEW path \in Seq(STRING)
    PROVE  /\ Ancestry(path) = {SubSeq(path, 1, i) : i \in 1..Len(path)}
           /\ Ancestry(path) \subseteq Node
           /\ IsFiniteSet(Ancestry(path))
           /\ path # << >> => path \in Ancestry(path)
<1>1. Len(path) \in Nat
  OBVIOUS
<1>2. \A i \in 1..Len(path) : SubSeq(path, 1, i) \in Seq(STRING) /\ Len(SubSeq(path, 1, i)) = i
  OBVIOUS
<1>3. \A i \in 1..Len(path) : SubSeq(path, 1, i) \in Node
  <2>1. ASSUME NEW i \in 1..Len(path) PROVE SubSeq(path, 1, i) # << >>
    <3>1. Len(SubSeq(path, 1, i)) # 0 /\ Len(<< >>) = 0
      BY <1>2
    <3> QED BY <3>1
  <2> QED BY <1>2, <2>1 DEF Node
<1>4. SubSeq(path, 1, 0) = << >>
  <2>1. 1 \in Int /\ 0 \in Int /\ 0 < 1
    OBVIOUS
  <2> QED BY <2>1, SubSeqEmpty
<1>5. Ancestry(path) = {SubSeq(path, 1, i) : i \in 1..Len(path)}
  <2> DEFINE A == {SubSeq(path, 1, i) : i \in 1..Len(path)}
  <2>1. 0..Len(path) = {0} \cup (1..Len(path))
    BY <1>1
  <2>2. Prefixes(path) = {<< >>} \cup A
    BY <1>4, <2>1 DEF Prefixes
  <2>3. << >> \notin A
    BY <1>3 DEF Node
  <2> HIDE DEF A
  <2>4. Ancestry(path) = A
    BY <2>2, <2>3 DEF Ancestry
  <2> QED BY <2>4 DEF A
<1>6. IsFiniteSet(Ancestry(path))
  <2>1. IsFiniteSet(1..Len(path))
    BY <1>1, FS_Interval
  <2> DEFINE f == [i \in 1..Len(path) |-> SubSeq(path, 1, i)]
  <2>2. f \in Surjection(1..Len(path), Ancestry(path))
    BY <1>5 DEF Surjection
  <2> QED BY <2>1, <2>2, FS_Surjection
<1>7. ASSUME path # << >> PROVE path \in Ancestry(path)
  <2>1. Len(path) \in 1..Len(path)
    BY <1>1, <1>7
  <2>2. path = SubSeq(path, 1, Len(path))
    BY SubSeqFull
  <2> QED BY <1>5, <2>1, <2>2
<1> QED BY <1>3, <1>5, <1>6, <1>7

\* BuildFileTree adds the path and its directories.
LEMMA Grown ==
    ASSUME NEW S, TreeOK(S), NEW line \in Line, Filter(line.path)
    PROVE  /\ TreeOK(BuildFileTree(S, line))
           /\ DOMAIN BuildFileTree(S, line).mapping = DOMAIN S.mapping \cup Ancestry(line.path)
<1> DEFINE path == line.path
           missing == Ancestry(path) \ DOMAIN S.mapping
           node(q) == [path |-> q, mod |-> IF q = path THEN line.mod ELSE 0]
           m == [q \in missing \cup DOMAIN S.mapping |->
                    IF q \in missing THEN node(q) ELSE S.mapping[q]]
           steps == [i \in DOMAIN path |-> SubSeq(path, 1, i)]
           o == S.order \o Among(steps, missing)
           sel == setRecentFile(S, path, line.mod)
           B == [mapping |-> m, order |-> o, selector |-> sel]
<1>1. BuildFileTree(S, line) = B
  BY DEF BuildFileTree
<1>2. B.mapping = m /\ B.order = o /\ B.selector = sel
  OBVIOUS
<1>3. path \in Seq(STRING) /\ line.mod \in Nat
  BY DEF Line
<1>4. path # << >>
  <2>1. PICK rule \in pathFilter : Matches(path, rule)
    BY DEF Filter
  <2>2. Len(rule) \in Nat /\ Len(rule) >= 2
    <3>1. CASE rule \in SourcePath
      BY <3>1, FileTreeAssumption
    <3>2. CASE rule \notin SourcePath
      <4>1. PICK x \in SecondDir, y \in ThirdDir : rule = <<x, y>>
        BY <2>1, <3>2 DEF pathFilter
      <4> QED BY <4>1
    <3> QED BY <3>1, <3>2
  <2>3. Len(path) >= 2
    BY <1>3, <2>1, <2>2 DEF Matches
  <2> QED BY <2>3
<1> HIDE DEF path
<1>5. /\ Ancestry(path) = {SubSeq(path, 1, i) : i \in 1..Len(path)}
      /\ Ancestry(path) \subseteq Node /\ IsFiniteSet(Ancestry(path))
      /\ path \in Ancestry(path)
  BY <1>3, <1>4, AncestryIs
<1>6. /\ DOMAIN S.mapping \subseteq Node /\ IsFiniteSet(DOMAIN S.mapping)
      /\ S.order \in Seq(Node) /\ Range(S.order) = DOMAIN S.mapping
      /\ \A q \in DOMAIN S.mapping : S.mapping[q].path = q /\ S.mapping[q].mod \in Nat
      /\ \A v \in DOMAIN S.selector :
            S.selector[v] \in DOMAIN S.mapping /\ Head(S.selector[v]) = v
  BY DEF TreeOK
<1>7. DOMAIN m = DOMAIN S.mapping \cup Ancestry(path)
  OBVIOUS
<1>8. DOMAIN m \subseteq Node /\ IsFiniteSet(DOMAIN m)
  BY <1>5, <1>6, <1>7, FS_Union
<1>9. \A q \in DOMAIN m : m[q].path = q /\ m[q].mod \in Nat
  BY <1>3, <1>6
<1> HIDE DEF m
<1>10. o \in Seq(Node) /\ Range(o) = DOMAIN m
  <2>1. steps \in Seq(Node) /\ Range(steps) = Ancestry(path)
    <3>1. DOMAIN path = 1..Len(path) /\ Len(path) \in Nat
      BY <1>3
    <3>2. \A i \in 1..Len(path) : SubSeq(path, 1, i) \in Node
      BY <1>5
    <3>3. steps = [i \in 1..Len(path) |-> SubSeq(path, 1, i)]
      BY <3>1
    <3> HIDE DEF steps
    <3>4. steps \in [1..Len(path) -> Node]
      BY <3>2, <3>3
    <3>5. steps \in Seq(Node)
      BY <3>1, <3>4, SeqDef
    <3>6. Range(steps) = {SubSeq(path, 1, i) : i \in 1..Len(path)}
      BY <3>3 DEF Range
    <3> QED BY <1>5, <3>5, <3>6
  <2> HIDE DEF steps, missing
  <2> DEFINE a == Among(steps, missing)
  <2>2. a \in Seq(Node) /\ Range(a) = missing
    <3>1. a \in Seq(Node) /\ Range(a) = Range(steps) \cap missing
      BY <2>1, AmongIs
    <3>2. missing \subseteq Ancestry(path)
      BY DEF missing
    <3> QED BY <2>1, <3>1, <3>2
  <2> HIDE DEF a
  <2>3. o = S.order \o a
    BY DEF a
  <2>4. o \in Seq(Node) /\ Range(o) = Range(S.order) \cup Range(a)
    <3> DEFINE w == S.order
    <3>1. w \in Seq(Node)
      BY <1>6
    <3> HIDE DEF w
    <3>2. /\ w \o a \in Seq(Node) /\ Len(w) \in Nat /\ Len(a) \in Nat
          /\ DOMAIN w = 1..Len(w) /\ DOMAIN a = 1..Len(a)
          /\ DOMAIN (w \o a) = 1..(Len(w) + Len(a))
          /\ \A i \in 1..Len(w) : (w \o a)[i] = w[i] /\ i \in 1..(Len(w) + Len(a))
          /\ \A i \in 1..Len(a) : (w \o a)[Len(w) + i] = a[i]
                                  /\ Len(w) + i \in 1..(Len(w) + Len(a))
      BY <2>2, <3>1
    <3>3. \A i \in 1..(Len(w) + Len(a)) : \/ i \in 1..Len(w)
                                           \/ \E j \in 1..Len(a) : i = Len(w) + j
      <4>1. ASSUME NEW i \in 1..(Len(w) + Len(a)), i \notin 1..Len(w)
            PROVE  \E j \in 1..Len(a) : i = Len(w) + j
        <5>1. i - Len(w) \in 1..Len(a) /\ i = Len(w) + (i - Len(w))
          BY <3>2, <4>1
        <5> QED BY <5>1
      <4> QED BY <4>1
    <3>4. Range(w \o a) = Range(w) \cup Range(a)
      <4> DEFINE x == w \o a
      <4>1. DOMAIN x = 1..(Len(w) + Len(a))
        BY <3>2
      <4>2. \A i \in 1..Len(w) : x[i] = w[i] /\ i \in DOMAIN x
        BY <3>2
      <4>3. \A i \in 1..Len(a) : x[Len(w) + i] = a[i] /\ Len(w) + i \in DOMAIN x
        BY <3>2
      <4> HIDE DEF x
      <4>4. ASSUME NEW y \in Range(x) PROVE y \in Range(w) \cup Range(a)
        <5>1. PICK i \in DOMAIN x : y = x[i]
          BY DEF Range
        <5>2. CASE i \in 1..Len(w)
          BY <3>2, <4>2, <5>1, <5>2 DEF Range
        <5>3. CASE \E j \in 1..Len(a) : i = Len(w) + j
          BY <3>2, <4>3, <5>1, <5>3 DEF Range
        <5> QED BY <3>3, <4>1, <5>2, <5>3
      <4>5. ASSUME NEW y \in Range(w) PROVE y \in Range(x)
        BY <3>2, <4>2 DEF Range
      <4>6. ASSUME NEW y \in Range(a) PROVE y \in Range(x)
        <5>1. PICK i \in 1..Len(a) : y = a[i]
          BY <3>2 DEF Range
        <5> QED BY <4>3, <5>1 DEF Range
      <4> QED BY <4>4, <4>5, <4>6 DEF x
    <3> QED BY <2>3, <3>2, <3>4 DEF w
  <2> QED BY <1>6, <1>7, <2>2, <2>4 DEF missing
<1> HIDE DEF o
<1>11. \A v \in DOMAIN sel : sel[v] \in DOMAIN m /\ Head(sel[v]) = v
  <2>1. CASE sel = S.selector
    BY <1>6, <1>7, <2>1
  <2>2. CASE sel # S.selector
    <3>1. sel = [u \in DOMAIN S.selector \cup {path[1]} |->
                    IF u = path[1] THEN path ELSE S.selector[u]]
      BY <2>2 DEF setRecentFile
    <3>2. Head(path) = path[1]
      BY <1>3, <1>4
    <3> HIDE DEF sel
    <3> QED BY <1>5, <1>6, <1>7, <3>1, <3>2
  <2> QED BY <2>1, <2>2
<1> HIDE DEF sel
<1>12. B = [mapping |-> B.mapping, order |-> B.order, selector |-> B.selector]
  OBVIOUS
<1>13. TreeOK(B)
  BY <1>2, <1>8, <1>9, <1>10, <1>11, <1>12 DEF TreeOK
<1> QED BY <1>1, <1>2, <1>7, <1>13 DEF path

LEMMA TreeForFacts ==
    /\ AllTrees' = AllTrees
    /\ TreeFor({}) = {}
    /\ \A x, A : TreeFor({x} \cup A) = Ancestry(x) \cup TreeFor(A)
    /\ {} \in AllTrees
    /\ \A i \in DOMAIN Lists : TreeFor(Indexed(Lists[i])) \in AllTrees
<1>1. TreeFor({}) = {} /\ \A x, A : TreeFor({x} \cup A) = Ancestry(x) \cup TreeFor(A)
  BY DEF TreeFor
<1>2. AllTrees = {TreeFor(paths) : paths \in AllFiles \cup {{}}}
  BY DEF AllTrees, TreeFor
<1>3. {} \in AllTrees
  BY <1>1, <1>2
<1>4. \A i \in DOMAIN Lists : TreeFor(Indexed(Lists[i])) \in AllTrees
  BY <1>2, IndexedIsWhole
<1>5. AllTrees' = AllTrees
  BY DEF AllTrees, AllFiles, IndexOf
<1> QED BY <1>1, <1>3, <1>4, <1>5

LEMMA NoFilesOK == TreeOK(NoFiles) /\ DOMAIN NoFiles.mapping = {}
<1>1. /\ NoFiles.mapping = << >> /\ NoFiles.order = << >> /\ NoFiles.selector = << >>
      /\ NoFiles = [mapping |-> NoFiles.mapping, order |-> NoFiles.order,
                    selector |-> NoFiles.selector]
  BY DEF NoFiles
<1>2. DOMAIN << >> = {} /\ << >> \in Seq(Node) /\ Range(<< >>) = {}
  BY DEF Range
<1> QED BY <1>1, <1>2, FS_EmptySet DEF TreeOK

\* A step that leaves the trees and those that build them alone.
LEMMA TreesAlone ==
    ASSUME TreeInv, UNCHANGED <<trees, overlap>>,
           \A s \in Scanner : /\ at'[s] = "read" <=> at[s] = "read"
                              /\ at[s] = "read" => /\ lines'[s] = lines[s]
                                                   /\ s \in cut' <=> s \in cut
    PROVE  TreeInv'
<1>1. /\ built' = built /\ fileTreeReplica' = fileTreeReplica /\ overlap' = overlap
      /\ clipped' = clipped
  BY DEF trees
<1>2. \A p : Building(p)' = Building(p)
  BY DEF Building
<1>3. ASSUME ~overlap, NEW p \in Process PROVE Growing(p)'
  <2>1. Growing(p)
    BY <1>3 DEF TreeInv
  <2>2. \A s \in Building(p) : lines'[s] = lines[s] /\ (s \in cut' <=> s \in cut)
    BY DEF Building
  <2> QED BY <1>1, <1>2, <2>1, <2>2, TreeForFacts DEF Growing, TreeOf
<1> QED BY <1>1, <1>3 DEF TreeInv

LEMMA StartTree ==
    ASSUME RepositoryShape, TreeInv, NEW s \in Scanner, Start(s)
    PROVE  TreeInv'
<1> DEFINE p == ProcessOf[s]
<1>1. /\ p \in Process /\ built' = built /\ fileTreeReplica' = fileTreeReplica
      /\ clipped' = clipped /\ cut' = cut
      /\ overlap' = (overlap \/ Building(p) # {})
      /\ lines'[s] = Lists[current] /\ at'[s] = "read"
      /\ \A q \in Scanner \ {s} : at'[q] = at[q] /\ lines'[q] = lines[q]
  BY SourceScanAssumption DEF Start, Goto, trees, RepositoryShape
<1>2. overlap' \in BOOLEAN
  BY <1>1 DEF TreeInv
<1>3. ASSUME ~overlap', NEW q \in Process PROVE Growing(q)'
  <2>1. ~overlap /\ Building(p) = {} /\ Growing(q)
    BY <1>1, <1>3 DEF TreeInv
  <2>2. CASE q = p
    <3>1. Building(q)' = {s}
      BY <1>1, <2>1, <2>2 DEF Building
    <3>2. DOMAIN fileTreeReplica[q].mapping = {}
      BY <2>1, <2>2 DEF Growing
    <3>3. TreeFor(Indexed(lines'[s])) \in AllTrees
      BY <1>1, TreeForFacts DEF RepositoryShape
    <3>4. DOMAIN fileTreeReplica[q].mapping \cup TreeFor(Indexed(lines'[s])) \in AllTrees
      BY <3>2, <3>3
    <3> QED BY <1>1, <2>1, <3>1, <3>4, TreeForFacts DEF Growing, TreeOf
  <2>3. CASE q # p
    <3>1. Building(q)' = Building(q) /\ s \notin Building(q)
      BY <1>1, <2>3 DEF Building
    <3>2. \A t \in Building(q) : lines'[t] = lines[t]
      BY <1>1, <3>1 DEF Building
    <3> QED BY <1>1, <2>1, <3>1, <3>2, TreeForFacts DEF Growing, TreeOf
  <2> QED BY <2>2, <2>3
<1> QED BY <1>1, <1>2, <1>3 DEF TreeInv

LEMMA ReadTree ==
    ASSUME RepositoryShape, TreeInv, NEW s \in Scanner, ReadLine(s) \/ RefuseFile(s)
    PROVE  TreeInv'
<1> DEFINE p == ProcessOf[s]
           line == Head(lines[s])
           old == fileTreeReplica[p]
<1>1. /\ p \in Process /\ at[s] = "read" /\ lines[s] \in Seq(Line) /\ lines[s] # << >>
      /\ built' = built /\ overlap' = overlap /\ at' = at
      /\ clipped' = clipped /\ cut' = cut
      /\ lines'[s] = Tail(lines[s])
      /\ \A t \in Scanner \ {s} : lines'[t] = lines[t]
  BY SourceScanAssumption DEF ReadLine, RefuseFile, RepositoryShape
<1>2. /\ line \in Line
      /\ Filter(line.path) => Indexed(lines[s]) = {line.path} \cup Indexed(lines'[s])
      /\ ~Filter(line.path) => Indexed(lines[s]) = Indexed(lines'[s])
  BY <1>1, IndexedFirst
<1>3. /\ DOMAIN fileTreeReplica' = Process
      /\ \A q \in Process \ {p} : fileTreeReplica'[q] = fileTreeReplica[q]
      /\ Filter(line.path) => fileTreeReplica'[p] = BuildFileTree(old, line)
      /\ ~Filter(line.path) => fileTreeReplica'[p] = old
  BY <1>1 DEF ReadLine, RefuseFile, TreeInv
<1>4. TreeOK(old)
  BY <1>1 DEF TreeInv
<1> HIDE DEF line, old, p
<1>5. /\ TreeOK(fileTreeReplica'[p])
      /\ Filter(line.path) =>
            DOMAIN fileTreeReplica'[p].mapping = DOMAIN old.mapping \cup Ancestry(line.path)
  BY <1>2, <1>3, <1>4, Grown
<1>6. DOMAIN fileTreeReplica'[p].mapping \cup TreeFor(Indexed(lines'[s]))
        = DOMAIN old.mapping \cup TreeFor(Indexed(lines[s]))
  <2>1. CASE Filter(line.path)
    <3>1. TreeFor(Indexed(lines[s])) = Ancestry(line.path) \cup TreeFor(Indexed(lines'[s]))
      BY <1>2, <2>1, TreeForFacts
    <3>2. DOMAIN fileTreeReplica'[p].mapping = DOMAIN old.mapping \cup Ancestry(line.path)
      BY <1>5, <2>1
    <3> QED BY <3>1, <3>2
  <2>2. CASE ~Filter(line.path)
    BY <1>2, <1>3, <2>2
  <2> QED BY <2>1, <2>2
<1>7. \A q : Building(q)' = Building(q)
  BY <1>1 DEF Building
<1>8. s \in Building(p) /\ \A q \in Process : s \in Building(q) => q = p
  BY <1>1 DEF Building, p
<1>9. ASSUME ~overlap, NEW q \in Process PROVE Growing(q)'
  <2>1. Growing(q)
    BY <1>9 DEF TreeInv
  <2>2. CASE q = p
    <3>1. \A t \in Building(q) : t = s
      BY <1>8, <2>1, <2>2 DEF Growing
    <3>2. TreeOf(DOMAIN fileTreeReplica'[q].mapping \cup TreeFor(Indexed(lines'[s])), s \in cut)
      BY <1>6, <1>8, <2>1, <2>2 DEF Growing, old
    <3>3. \A t \in Building(q) :
             TreeOf(DOMAIN fileTreeReplica'[q].mapping \cup TreeFor(Indexed(lines'[t])), t \in cut)
      BY <3>1, <3>2
    <3>4. Building(q) # {}
      BY <1>8, <2>2
    <3> QED BY <1>1, <1>7, <2>1, <3>3, <3>4, TreeForFacts DEF Growing, TreeOf
  <2>3. CASE q # p
    <3>1. \A t \in Building(q) : lines'[t] = lines[t]
      BY <1>1, <1>8, <2>3 DEF Building
    <3>2. fileTreeReplica'[q] = fileTreeReplica[q]
      BY <1>3, <2>3
    <3> QED BY <1>1, <1>7, <2>1, <3>1, <3>2, TreeForFacts DEF Growing, TreeOf
  <2> QED BY <2>2, <2>3
<1>10. \A q \in Process : TreeOK(fileTreeReplica'[q])
  BY <1>3, <1>5 DEF TreeInv
<1> QED BY <1>1, <1>3, <1>9, <1>10 DEF TreeInv

LEMMA CutTree ==
    ASSUME RepositoryShape, TreeInv, NEW s \in Scanner, CutShort(s)
    PROVE  TreeInv'
<1>1. /\ built' = built /\ fileTreeReplica' = fileTreeReplica /\ overlap' = overlap
      /\ clipped' = clipped /\ at' = at /\ s \in cut' /\ lines'[s] = << >>
      /\ \A t \in Scanner \ {s} : lines'[t] = lines[t] /\ (t \in cut' <=> t \in cut)
  BY DEF CutShort, trees, RepositoryShape
<1>2. \A p : Building(p)' = Building(p)
  BY <1>1 DEF Building
<1>3. ASSUME ~overlap, NEW p \in Process PROVE Growing(p)'
  <2>1. Growing(p)
    BY <1>3 DEF TreeInv
  <2>2. ASSUME NEW t \in Building(p)
        PROVE  TreeOf(DOMAIN fileTreeReplica[p].mapping \cup TreeFor(Indexed(lines'[t])),
                      t \in cut')
    <3> DEFINE grown(l) == DOMAIN fileTreeReplica[p].mapping \cup TreeFor(Indexed(l))
    <3>1. TreeOf(grown(lines[t]), t \in cut)
      BY <2>1, <2>2 DEF Growing
    <3>2. CASE t = s
      <4>1. grown(lines'[t]) \subseteq grown(lines[t])
        BY <1>1, <3>2, IndexedNone, TreeForFacts
      <4> HIDE DEF grown
      <4>2. TreeOf(grown(lines'[t]), t \in cut')
        BY <1>1, <3>1, <3>2, <4>1 DEF TreeOf
      <4> QED BY <4>2 DEF grown
    <3>3. CASE t # s
      <4>1. lines'[t] = lines[t] /\ (t \in cut' <=> t \in cut)
        BY <1>1, <2>2, <3>3 DEF Building
      <4> QED BY <3>1, <4>1 DEF TreeOf
    <3> QED BY <3>2, <3>3
  <2> QED BY <1>1, <1>2, <2>1, <2>2, TreeForFacts DEF Growing, TreeOf
<1> QED BY <1>1, <1>3 DEF TreeInv

LEMMA UpdateTree ==
    ASSUME RepositoryShape, TreeInv, NEW s \in Scanner, UpdateFileTree(s)
    PROVE  TreeInv'
<1> DEFINE p == ProcessOf[s]
<1>1. /\ p \in Process /\ at[s] = "read" /\ lines[s] = << >>
      /\ overlap' = overlap /\ lines' = lines /\ cut' = cut
      /\ at'[s] = "lock" /\ \A t \in Scanner \ {s} : at'[t] = at[t]
  BY SourceScanAssumption DEF UpdateFileTree, RepositoryShape, Goto, local
<1>2. /\ DOMAIN built' = Process /\ DOMAIN fileTreeReplica' = Process
      /\ built'[p] = fileTreeReplica[p] /\ fileTreeReplica'[p] = NoFiles
      /\ \A q \in Process \ {p} : built'[q] = built[q] /\ fileTreeReplica'[q] = fileTreeReplica[q]
      /\ p \in clipped' <=> s \in cut
      /\ \A q \in Process \ {p} : q \in clipped' <=> q \in clipped
  BY <1>1 DEF UpdateFileTree, TreeInv
<1>3. \A q \in Process : TreeOK(built'[q]) /\ TreeOK(fileTreeReplica'[q])
  BY <1>1, <1>2, NoFilesOK DEF TreeInv
<1>4. s \in Building(p)
  BY <1>1 DEF Building
<1>5. \A q \in Process : Building(q)' = Building(q) \ {s}
  BY <1>1 DEF Building
<1>6. ASSUME ~overlap, NEW q \in Process PROVE Growing(q)'
  <2>1. Growing(q)
    BY <1>6 DEF TreeInv
  <2>2. CASE q = p
    <3>1. Building(q)' = {}
      BY <1>4, <1>5, <2>1, <2>2 DEF Growing
    <3>2. TreeOf(DOMAIN fileTreeReplica[q].mapping \cup TreeFor(Indexed(<< >>)), s \in cut)
      BY <1>1, <1>4, <2>1, <2>2 DEF Growing
    <3>3. DOMAIN fileTreeReplica[q].mapping \cup TreeFor(Indexed(<< >>))
            = DOMAIN fileTreeReplica[q].mapping
      BY IndexedNone, TreeForFacts
    <3>4. TreeOf(DOMAIN fileTreeReplica[q].mapping, s \in cut)
      BY <3>2, <3>3
    <3> QED BY <1>2, <2>2, <3>1, <3>4, NoFilesOK, TreeForFacts DEF Growing, TreeOf
  <2>3. CASE q # p
    <3>1. Building(q)' = Building(q)
      BY <1>5, <2>3 DEF Building
    <3> QED BY <1>1, <1>2, <2>1, <2>3, <3>1, TreeForFacts DEF Growing, TreeOf
  <2> QED BY <2>2, <2>3
<1> QED BY <1>1, <1>2, <1>3, <1>6 DEF TreeInv

LEMMA RestartTree ==
    ASSUME RepositoryShape, TreeInv, NEW p \in Process, Restart(p)
    PROVE  TreeInv'
<1>1. /\ overlap' = overlap
      /\ \A s \in Scanner : IF ProcessOf[s] = p THEN at'[s] = "idle"
                            ELSE /\ at'[s] = at[s] /\ lines'[s] = lines[s]
                                 /\ s \in cut' <=> s \in cut
  BY DEF Restart, Return
<1>2. /\ DOMAIN built' = Process /\ DOMAIN fileTreeReplica' = Process
      /\ built'[p] = NoFiles /\ fileTreeReplica'[p] = NoFiles
      /\ \A q \in Process \ {p} : built'[q] = built[q] /\ fileTreeReplica'[q] = fileTreeReplica[q]
      /\ \A q \in Process \ {p} : q \in clipped' <=> q \in clipped
  BY DEF Restart, TreeInv
<1>3. \A q \in Process : TreeOK(built'[q]) /\ TreeOK(fileTreeReplica'[q])
  BY <1>2, NoFilesOK DEF TreeInv
<1>4. ASSUME ~overlap, NEW q \in Process PROVE Growing(q)'
  <2>1. CASE q = p
    <3>1. Building(q)' = {}
      BY <1>1, <2>1 DEF Building
    <3> QED BY <1>2, <2>1, <3>1, NoFilesOK, TreeForFacts DEF Growing, TreeOf
  <2>2. CASE q # p
    <3>1. /\ Building(q)' = Building(q)
          /\ \A t \in Building(q) : lines'[t] = lines[t] /\ (t \in cut' <=> t \in cut)
      BY <1>1, <2>2 DEF Building
    <3>2. Growing(q)
      BY <1>4 DEF TreeInv
    <3> QED BY <1>2, <2>2, <3>1, <3>2, TreeForFacts DEF Growing, TreeOf
  <2> QED BY <2>1, <2>2
<1> QED BY <1>1, <1>2, <1>3, <1>4 DEF TreeInv

LEMMA TreeStep ==
    ASSUME RepositoryShape, TreeInv, [RepositoryNext]_repositoryVars
    PROVE  TreeInv'
<1> USE DEF RepositoryShape
<1>1. ASSUME NEW s \in Scanner, ScanSource(s) \/ ScanFails(s) PROVE TreeInv'
  <2>1. CASE Start(s)
    BY <2>1, StartTree
  <2>2. CASE ReadLine(s) \/ RefuseFile(s)
    BY <2>2, ReadTree
  <2>3. CASE UpdateFileTree(s)
    BY <2>3, UpdateTree
  <2>4. CASE GetLock(s)
    <3>1. UNCHANGED <<trees, overlap>> /\ at[s] = "lock" /\ at'[s] # "read"
      BY <2>4 DEF GetLock, Return, Goto
    <3>2. \A t \in Scanner \ {s} : /\ at'[t] = at[t] /\ lines'[t] = lines[t]
                                   /\ t \in cut' <=> t \in cut
      <4>1. CASE retry[s] = 0 /\ Return({s}) /\ UNCHANGED sourceLock
        BY <4>1 DEF Return
      <4>2. CASE ~(retry[s] = 0 /\ Return({s}) /\ UNCHANGED sourceLock)
        BY <2>4, <4>2 DEF GetLock, Goto, local
      <4> QED BY <4>1, <4>2
    <3>3. \A t \in Scanner : /\ at'[t] = "read" <=> at[t] = "read"
                             /\ at[t] = "read" => /\ lines'[t] = lines[t]
                                                  /\ t \in cut' <=> t \in cut
      BY <3>1, <3>2
    <3> QED BY <3>1, <3>3, TreesAlone
  <2>5. CASE AddFiles(s)
    BY <2>5, TreesAlone DEF AddFiles, Goto, local
  <2>6. CASE DiffFiles(s)
    BY <2>6, TreesAlone DEF DiffFiles, Goto
  <2>7. CASE Commit(s)
    BY <2>7, TreesAlone DEF Commit, Goto, local
  <2>8. CASE Release(s)
    BY <2>8, TreesAlone DEF Release, Return
  <2>9. CASE Disconnect(s)
    BY <2>9, TreesAlone DEF Disconnect
  <2>10. CASE CutShort(s)
    BY <2>10, CutTree
  <2>11. CASE GiveUp(s)
    BY <2>11, TreesAlone DEF GiveUp, Return
  <2> QED BY <1>1, <2>1, <2>2, <2>3, <2>4, <2>5, <2>6, <2>7, <2>8, <2>9, <2>10, <2>11
          DEF ScanSource, ScanFails
<1>2. ASSUME NEW p \in Process, Restart(p) PROVE TreeInv'
  BY <1>2, RestartTree
<1>3. CASE Publish
  BY <1>3, TreesAlone DEF Publish, local
<1>4. CASE Expire
  BY <1>4, TreesAlone DEF Expire, local
<1>5. CASE UNCHANGED repositoryVars
  BY <1>5, TreesAlone DEF repositoryVars, local
<1> QED BY <1>1, <1>2, <1>3, <1>4, <1>5 DEF RepositoryNext

LEMMA TreeStart == RepositoryInit => TreeInv
<1>1. SUFFICES ASSUME RepositoryInit PROVE TreeInv
  OBVIOUS
<1>2. /\ built = [p \in Process |-> NoFiles] /\ fileTreeReplica = [p \in Process |-> NoFiles]
      /\ at = [s \in Scanner |-> "idle"] /\ overlap = FALSE
  BY <1>1 DEF RepositoryInit
<1>3. \A p \in Process : Building(p) = {}
  BY <1>2 DEF Building
<1>4. \A p \in Process : Growing(p)
  BY <1>2, <1>3, NoFilesOK, TreeForFacts DEF Growing, TreeOf
<1> QED BY <1>2, <1>4, NoFilesOK DEF TreeInv

\* The trees of every process are well formed, and hold whole lists as long as no
\* two of its scanners have run at once and no reading of a list has failed.
THEOREM RepositoryTrees == RepositorySpec => []TreeInv
<1>1. RepositoryInv => RepositoryShape
  BY DEF RepositoryInv
<1>2. RepositoryShape /\ TreeInv /\ [RepositoryNext]_repositoryVars => TreeInv'
  BY TreeStep
<1> QED BY <1>1, <1>2, TreeStart, RepositoryInvariant, PTL DEF RepositorySpec

\* The tree that a process serves is that of one whole list, or a part of it if the
\* reading of the list has failed, if its scanners have never run at once: for every
\* set of processes, of scanners and of lists.
THEOREM RepositoryTreeWhole == RepositorySpec => []TreeWhole
<1>1. ASSUME TreeInv, ~overlap, NEW p \in Process
      PROVE  TreeOf(DOMAIN fileTree(p).mapping, p \in clipped)
  <2>1. TreeOK(built[p]) /\ TreeOf(DOMAIN built[p].mapping, p \in clipped)
    BY <1>1 DEF TreeInv, Growing
  <2>2. GoodAcc(built[p], collectRepoVersionList(built[p]))
    BY <2>1, CollectKeeps
  <2>3. PICK m : fileTree(p) = With(built[p], m) /\ Kin(built[p], m)
    BY <2>2 DEF GoodAcc, fileTree
  <2>4. DOMAIN fileTree(p).mapping = DOMAIN built[p].mapping
    BY <2>3 DEF With, Kin
  <2> QED BY <2>1, <2>4
<1>2. TreeInv => TreeWhole
  BY <1>1 DEF TreeWhole, TreeOf
<1> QED BY <1>2, RepositoryTrees, PTL

\* For every version that is shown, the file that the mirrors are first asked for
\* is a file of that version: for every tree, those of scanners that have run at
\* once included.
THEOREM RepositorySelectsFiles == RepositorySpec => []SelectsFiles
<1>1. ASSUME TreeInv, NEW p \in Process,
             NEW r \in RepoVersionList(collectRepoVersionList(built[p]).store),
             r.version \in DOMAIN collectRepoVersionList(built[p]).store.selector
      PROVE  LET collected == collectRepoVersionList(built[p])
                 tree == collected.store
                 selected == collected.selected
                 file == [i \in DOMAIN selected |-> tree.mapping[selected[i]].path]
                 own == {i \in DOMAIN selected : Head(file[i]) = r.version}
             IN \E i \in own : (\A j \in own : i <= j) /\ ~IsDir(tree, file[i])
  <2> DEFINE S == built[p]
             T == collectRepoVersionList(S).store
             sel == collectRepoVersionList(S).selected
             v == r.version
             file(i) == T.mapping[sel[i]].path
             own == {i \in DOMAIN sel : Head(file(i)) = v}
  <2>1. TreeOK(S)
    BY <1>1 DEF TreeInv
  <2>2. /\ \E m : T = With(S, m) /\ Kin(S, m)
        /\ sel \in Seq(FilesOf(S))
        /\ \A q \in Versions(S) : Head(q) \in DOMAIN S.selector =>
              \E x \in Range(sel) : Head(x) = Head(q)
    <3>1. collectRepoVersionList(S).store = T /\ collectRepoVersionList(S).selected = sel
      OBVIOUS
    <3> HIDE DEF S, T, sel
    <3> QED BY <2>1, <3>1, CollectKeeps DEF GoodAcc
  <2> HIDE DEF S, T, sel
  <2>3. PICK m : T = With(S, m) /\ Kin(S, m)
    BY <2>2
  <2>4. /\ T.mapping = m /\ T.selector = S.selector /\ Versions(T) = Versions(S)
        /\ \A q : IsDir(T, q) <=> IsDir(S, q)
    BY <2>3, WithSame DEF Kin
  <2>5. PICK q \in Versions(T) : v = Head(q)
    BY <1>1 DEF RepoVersionList, S, T
  <2>6. PICK x \in Range(sel) : Head(x) = v
    <3>1. v \in DOMAIN S.selector
      BY <1>1, <2>4 DEF S, T
    <3> QED BY <2>2, <2>4, <2>5, <3>1
  <2>7. PICK i0 \in DOMAIN sel : sel[i0] = x
    BY <2>6 DEF Range
  <2>8. \A i \in DOMAIN sel : sel[i] \in FilesOf(S)
    BY <2>2
  <2>9. \A i \in DOMAIN sel : file(i) \in FilesOf(S) /\ Head(file(i)) = Head(sel[i])
    BY <2>3, <2>4, <2>8 DEF Kin
  <2>10. i0 \in own
    BY <2>6, <2>7, <2>9
  <2>11. own \subseteq Nat
    BY <2>2
  <2>12. PICK i \in own : \A j \in own : i <= j
    <3> HIDE DEF own
    <3> QED BY <2>10, <2>11, LeastNat
  <2>13. ~IsDir(T, file(i))
    BY <2>4, <2>9, <2>12 DEF FilesOf
  <2> QED BY <2>12, <2>13 DEF S, T, sel
<1>2. TreeInv => SelectsFiles
  BY <1>1 DEF SelectsFiles
<1> QED BY <1>2, RepositoryTrees, PTL

===============================================================================
