-------------------------- MODULE MirrorAdminProofs --------------------------
(***************************************************************************)
(* The commands of an administrator, for any number of terminals, names,   *)
(* mirrors, commands and goroutines of the monitor, and whatever overlaps  *)
(* or fails.                                                               *)
(***************************************************************************)
EXTENDS MirrorAdmin, TLAPS

-----------------------------------------------------------------------------
(* The inductive invariant, in parts.                                      *)

\* What the progress of a command says of its fields.
StageOK(k) ==
    /\ k.at \in {"idle", "incr"} => k.id = NoId
    /\ k.at \notin {"idle", "incr", "check"} => k.id # NoId
    /\ k.at \in {"check", "incr", "save"} => k.mirror.name \in Name
    /\ k.at \in {"check", "incr"} /\ k.id = NoId => ~k.mirror.enabled
    /\ k.at = "incr" => k.entry = "added"
    /\ k.at = "save" => k.entry \in {"added", "edited"}
    /\ k.at = "log" => k.entry \in Entry \ {"state"}

\* And that of a task.
TaskOK(t) ==
    /\ t.at = "idle" <=> t.id = NoId
    /\ t.at = "log" <=> t.entry # ""

Stages ==
    /\ \A c \in Client : StageOK(cmd[c])
    /\ \A g \in Goroutine : TaskOK(task[g])

\* LAST_MID is not behind any id in use.
IdsUsed ==
    /\ Listed \subseteq 1..lastMid
    /\ DOMAIN record \subseteq 1..lastMid
    /\ \A i \in Id : i > lastMid => logs[i] = <<>>
    /\ \A c \in Client : cmd[c].id <= lastMid
    /\ late \subseteq 1..lastMid

\* A task works on a listed mirror, or on one removed since it began.
TasksKnown == \A g \in Goroutine : task[g].id # NoId => task[g].id \in Listed \cup late

\* A setMirror whose check of the name is not stale will save a free name.
NamesFree ==
    raced \/ \A c \in Client : cmd[c].at \in {"incr", "save"} /\ ~cmd[c].stale => ~Taken(c)

\* MIRRORS lists the hashes that have a name.
NamesAgree ==
    /\ Listed = {i \in DOMAIN record : record[i].name # NoName}
    /\ \A i \in Listed : record[i].name = index[i]

\* Commands that work on the same mirror have disturbed it, and so has a command
\* on a mirror that the monitor is disabling.
Overlaps ==
    \A c \in Client : cmd[c].id # NoId =>
        /\ \A d \in Client \ {c} : cmd[c].id = cmd[d].id => cmd[c].id \in disturbed
        /\ Disabling(cmd[c].id) => cmd[c].id \in disturbed

\* Nothing is known of the mirror.
Fresh(i) == i \notin Listed \cup late /\ i \notin DOMAIN record /\ logs[i] = <<>>

\* The log has no entry but those of the monitor.
Only(i, E) == \A k \in 1..Len(logs[i]) : logs[i][k] \in E

\* The mirror was removed, or never added.
Gone(i) ==
    /\ i \notin Listed
    /\ i \notin late => i \notin DOMAIN record /\ logs[i] = <<>>
    /\ Only(i, Monitored \cup {"disabled"})

Started(i) == i \in Listed /\ Began(i)

\* The log of a listed mirror says of it what its hash says.
Truthful(i) ==
    /\ Started(i)
    /\ Tells(i, "enabled") => record[i].enabled
    /\ Tells(i, "added") \/ Tells(i, "disabled") => ~record[i].enabled

\* The commands that will leave the log as it is, or only add a failed scan.
LeavesLog(k) ==
    /\ k.at # "delete"
    /\ k.at = "save" => k.entry = "edited"
    /\ k.at = "log" => k.entry = "error"

\* The state of an undisturbed mirror while the command k works on it.
Working(k) ==
    LET i == k.id IN
    /\ k.at = "save" /\ k.entry = "added" => Fresh(i) /\ ~k.mirror.enabled
    /\ k.at = "log" /\ k.entry = "added" =>
          i \in Listed /\ Only(i, Monitored) /\ ~record[i].enabled
    /\ k.at = "log" /\ k.entry \in {"edited", "enabled", "disabled"} =>
          /\ Started(i)
          /\ k.entry = "enabled" => record[i].enabled
          /\ k.entry = "disabled" => ~record[i].enabled
    /\ LeavesLog(k) => Truthful(i)

\* And while none does.
Settled(i) ==
    \/ Gone(i)
    \/ Started(i) /\ IF Disabling(i) THEN ~record[i].enabled ELSE Truthful(i)

MirrorOK(i) ==
    /\ (\A c \in Client : cmd[c].id # i) => Settled(i)
    /\ \A c \in Client : cmd[c].id = i => Working(cmd[c])

Undisturbed == \A i \in Id \ disturbed : MirrorOK(i)

IInv ==
    /\ TypeOK /\ Stages /\ IdsUsed /\ TasksKnown /\ UniqueNames /\ NamesFree /\ NamesAgree
    /\ Overlaps /\ Undisturbed

-----------------------------------------------------------------------------
(* Types and stages.                                                       *)

\* The actions of the command of c, by what they do to the database.
Starts(c) ==
    \/ \E n \in Name : CmdAdd(c, n)
    \/ \E i \in Id : CmdEdit(c, i) \/ CmdRemove(c, i)
    \/ \E i \in Id, e \in BOOLEAN : CmdEnableDisable(c, i, e) \/ CmdScan(c, i, e)

Reads(c) ==
    \/ MirrorInfo(c) \/ Unmodified(c)
    \/ \E n \in Name, e \in BOOLEAN : Edit(c, n, e)
    \/ CheckName(c) \/ NameTaken(c)
    \/ ScanMirror(c) \/ ScanName(c) \/ ScanFails(c)

Writes(c) == ChangeStatus(c) \/ RemoveDisable(c) \/ ScanBegin(c) \/ ScanEnds(c)

LEMMA NextCases ==
    ASSUME Next
    PROVE  \/ /\ UNCHANGED task
              /\ \E c \in Client :
                    \/ Starts(c) \/ Reads(c) \/ Writes(c) \/ NewId(c) \/ Save(c)
                    \/ PushLog(c) \/ LogLost(c) \/ RemoveMirror(c) \/ Fails(c)
           \/ UNCHANGED cmd /\ \E g \in Goroutine : TaskNext(g)
BY DEF Next, CommandNext, Starts, Reads, Writes

\* An idle command is well formed.
LEMMA IdleOK == Idle \in Command /\ StageOK(Idle)
BY DEF Idle, Blank, Command, Record, StageOK, NoId, Entry

LEMMA StoredType ==
    ASSUME TypeOK, NEW i \in Id
    PROVE  Stored(i) \in Record
BY DEF TypeOK, Stored, Blank, Record

\* The command that begins.
LEMMA BeginMoves ==
    ASSUME TypeOK, NEW c \in Client, Starts(c)
    PROVE  /\ cmd[c].at = "idle"
           /\ cmd' \in [Client -> Command] /\ StageOK(cmd'[c])
           /\ \A d \in Client \ {c} : cmd'[d] = cmd[d]
           /\ commands' \in 0..MaxCommand
           /\ UNCHANGED <<dbVars, raced, late>>
           /\ disturbed \subseteq disturbed' /\ disturbed' \subseteq Id
           /\ cmd'[c].at \notin {"idle", "incr", "save", "log", "delete"}
           /\ \/ cmd'[c].id = NoId /\ disturbed' = disturbed
              \/ /\ cmd'[c].id \in Listed
                 /\ disturbed' = IF \/ Disabling(cmd'[c].id)
                                    \/ \E d \in Client \ {c} : cmd[d].id = cmd'[c].id
                                 THEN disturbed \cup {cmd'[c].id} ELSE disturbed
<1>0. cmd \in [Client -> Command] /\ disturbed \subseteq Id /\ Listed \subseteq Id
    BY DEF TypeOK
<1>1. ASSUME NEW new \in Command, Begin(c, new)
      PROVE  /\ cmd[c].at = "idle" /\ commands' \in 0..MaxCommand
             /\ cmd' \in [Client -> Command] /\ cmd'[c] = new
             /\ \A d \in Client \ {c} : cmd'[d] = cmd[d]
    BY <1>0, <1>1, AdminAssumption DEF Begin, TypeOK
<1>2. ASSUME NEW n \in Name, CmdAdd(c, n)
      PROVE  cmd'[c].id = NoId /\ StageOK(cmd'[c]) /\ cmd'[c].at = "check"
                /\ cmd'[c] \in Command /\ Begin(c, cmd'[c]) 
    <2> DEFINE new == [Idle EXCEPT !.at = "check", !.mirror = [Blank EXCEPT !.name = n]]
    <2>1. new \in Command /\ StageOK(new) /\ new.id = NoId /\ new.at = "check"
        BY DEF Idle, Blank, Command, Record, StageOK, NoId, Entry
    <2> HIDE DEF new
    <2>2. Begin(c, new)
        BY <1>2 DEF CmdAdd, new
    <2> QED BY <1>1, <2>1, <2>2
<1>3. ASSUME NEW i \in Id, NEW base \in Command,
             base.at \in {"fetch", "disable", "status", "scanFetch"}, Match(c, i, base)
      PROVE  /\ cmd'[c].id = i /\ StageOK(cmd'[c]) /\ cmd'[c].at = base.at
             /\ cmd'[c] \in Command /\ Begin(c, cmd'[c]) /\ i \in Listed
             /\ disturbed' = IF Disabling(i) \/ \E d \in Client \ {c} : cmd[d].id = i
                             THEN disturbed \cup {i} ELSE disturbed
             /\ UNCHANGED <<dbVars, raced, late>>
    <2> DEFINE new == [base EXCEPT !.id = i]
    <2>1. new \in Command /\ new.id = i /\ new.at = base.at
        BY DEF Command
    <2>2. StageOK(new)
        BY <1>3, <2>1 DEF StageOK, NoId, Id
    <2> HIDE DEF new
    <2>3. Begin(c, new)
        BY <1>3 DEF Match, new
    <2> QED BY <1>1, <1>3, <2>1, <2>2, <2>3 DEF Match
<1>4. CASE \E n \in Name : CmdAdd(c, n)
    BY <1>0, <1>1, <1>2, <1>4 DEF CmdAdd, dbVars, historyVars
<1>5. CASE \E i \in Id, base \in Command :
              /\ base.at \in {"fetch", "disable", "status", "scanFetch"}
              /\ Match(c, i, base)
    BY <1>0, <1>1, <1>3, <1>5
<1>6. ASSUME NEW e \in BOOLEAN
      PROVE  /\ [Idle EXCEPT !.at = "fetch"] \in Command
             /\ [Idle EXCEPT !.at = "fetch"].at = "fetch"
             /\ [Idle EXCEPT !.at = "disable"] \in Command
             /\ [Idle EXCEPT !.at = "disable"].at = "disable"
             /\ [Idle EXCEPT !.at = "status", !.enable = e] \in Command
             /\ [Idle EXCEPT !.at = "status", !.enable = e].at = "status"
             /\ [Idle EXCEPT !.at = "scanFetch", !.enable = e] \in Command
             /\ [Idle EXCEPT !.at = "scanFetch", !.enable = e].at = "scanFetch"
    <2>1. Idle \in Command
        BY IdleOK
    <2> QED BY <2>1 DEF Command
<1> QED BY <1>4, <1>5, <1>6
        DEF Starts, CmdEdit, CmdRemove, CmdEnableDisable, CmdScan

\* The command ends, or goes on at another place.
LEMMA Moves ==
    ASSUME TypeOK, NEW c \in Client
    PROVE  /\ End(c) => /\ cmd' \in [Client -> Command] /\ cmd'[c] = Idle
                        /\ \A d \in Client \ {c} : cmd'[d] = cmd[d]
           /\ \A new \in Command :
                 cmd' = [cmd EXCEPT ![c] = new] =>
                    /\ cmd' \in [Client -> Command] /\ cmd'[c] = new
                    /\ \A d \in Client \ {c} : cmd'[d] = cmd[d]
BY IdleOK DEF TypeOK, End

\* What a command that only reads the database does.
LEMMA ReadMoves ==
    ASSUME TypeOK, Stages, NEW c \in Client, Reads(c)
    PROVE  /\ cmd' \in [Client -> Command] /\ StageOK(cmd'[c])
           /\ \A d \in Client \ {c} : cmd'[d] = cmd[d]
           /\ UNCHANGED <<dbVars, commands, historyVars>>
           /\ cmd[c].at \notin {"idle", "incr", "save", "log", "delete"}
           /\ cmd'[c].id = cmd[c].id \/ cmd'[c] = Idle
           /\ cmd'[c].at # "delete" /\ (cmd'[c].at = "log" => cmd'[c].entry = "error")
           /\ cmd'[c].at \in {"incr", "save"} =>
                 /\ ~Taken(c)'
                 /\ cmd'[c].entry = IF cmd[c].id \in Listed THEN "edited" ELSE "added"
<1>0. cmd[c] \in Command /\ StageOK(cmd[c]) /\ cmd \in [Client -> Command]
    BY DEF TypeOK, Stages
<1> DEFINE Good(k) ==
        /\ k \in Command /\ StageOK(k)
        /\ k.id = cmd[c].id \/ k = Idle
        /\ k.at # "delete" /\ (k.at = "log" => k.entry = "error")
        /\ k.at \in {"incr", "save"} =>
              /\ k.id = cmd[c].id /\ k.mirror.name = cmd[c].mirror.name /\ ~Taken(c)
              /\ k.entry = IF cmd[c].id \in Listed THEN "edited" ELSE "added"
<1> DEFINE Goal ==
        /\ cmd' \in [Client -> Command] /\ StageOK(cmd'[c])
        /\ \A d \in Client \ {c} : cmd'[d] = cmd[d]
        /\ UNCHANGED <<dbVars, commands, historyVars>>
        /\ cmd[c].at \notin {"idle", "incr", "save", "log", "delete"}
        /\ cmd'[c].id = cmd[c].id \/ cmd'[c] = Idle
        /\ cmd'[c].at # "delete" /\ (cmd'[c].at = "log" => cmd'[c].entry = "error")
        /\ cmd'[c].at \in {"incr", "save"} =>
              /\ ~Taken(c)'
              /\ cmd'[c].entry = IF cmd[c].id \in Listed THEN "edited" ELSE "added"
<1>r. ASSUME NEW k, Good(k), cmd' = [cmd EXCEPT ![c] = k],
             UNCHANGED <<dbVars, commands, historyVars>>,
             cmd[c].at \notin {"idle", "incr", "save", "log", "delete"}
      PROVE  Goal
    <2>1. /\ cmd' \in [Client -> Command] /\ cmd'[c] = k
          /\ \A d \in Client \ {c} : cmd'[d] = cmd[d]
        BY <1>r, Moves
    <2>2. index' = index
        BY <1>r DEF dbVars
    <2>3. k.at \in {"incr", "save"} => ~Taken(c)'
        BY <1>r, <2>1, <2>2 DEF Taken, Listed
    <2>4. StageOK(cmd'[c])
        BY <1>r, <2>1
    <2> QED BY <1>r, <2>1, <2>3, <2>4
<1> HIDE DEF Goal
<1>1. Good(Idle)
    <2>1. Idle.at = "idle"
        BY DEF Idle
    <2> QED BY <2>1, IdleOK
<1>2. ASSUME MirrorInfo(c) \/ Unmodified(c) PROVE Goal
    <2> DEFINE m == Stored(cmd[c].id)
               new == [cmd[c] EXCEPT !.at = "edit", !.mirror = m]
    <2>1. cmd[c].at \in {"fetch", "edit"} /\ (End(c) \/ cmd' = [cmd EXCEPT ![c] = new])
        BY <1>0, <1>2 DEF MirrorInfo, Unmodified
    <2>2. cmd[c].id # NoId /\ m \in Record
        BY <1>0, <2>1, StoredType DEF StageOK, Command
    <2>3. Good(new)
        <3>1. new \in Command /\ new.at = "edit" /\ new.id = cmd[c].id
            BY <1>0, <2>2 DEF Command
        <3> QED BY <2>2, <3>1 DEF StageOK
    <2>4. \E k : Good(k) /\ cmd' = [cmd EXCEPT ![c] = k]
        BY <1>1, <2>1, <2>3 DEF End
    <2> HIDE DEF Good
    <2> QED BY <1>2, <2>1, <2>4, <1>r DEF MirrorInfo, Unmodified
<1>3. ASSUME \E n \in Name, e \in BOOLEAN : Edit(c, n, e) PROVE Goal
    <2> PICK n \in Name, e \in BOOLEAN : Edit(c, n, e)
        BY <1>3
    <2> DEFINE new == [cmd[c] EXCEPT !.at = "check", !.mirror = [name |-> n, enabled |-> e]]
    <2>1. cmd[c].at = "edit" /\ cmd' = [cmd EXCEPT ![c] = new]
        BY <1>0 DEF Edit
    <2>2. cmd[c].id # NoId
        BY <1>0, <2>1 DEF StageOK
    <2>3. Good(new)
        <3>1. new \in Command /\ new.at = "check" /\ new.id = cmd[c].id /\ new.mirror.name = n
            BY <1>0 DEF Command, Record
        <3> QED BY <2>2, <3>1 DEF StageOK
    <2> HIDE DEF Good
    <2> QED BY <2>1, <2>3, <1>r DEF Edit
<1>4. ASSUME CheckName(c) PROVE Goal
    <2> DEFINE at == IF cmd[c].id = NoId THEN "incr" ELSE "save"
               entry == IF cmd[c].id \in Listed THEN "edited" ELSE "added"
               new == [cmd[c] EXCEPT !.at = at, !.entry = entry, !.stale = FALSE]
    <2>1. cmd[c].at = "check" /\ ~Taken(c) /\ cmd' = [cmd EXCEPT ![c] = new]
        BY <1>0, <1>4 DEF CheckName
    <2>2. NoId \notin Listed
        BY DEF TypeOK, Id, NoId
    <2>3. Good(new)
        <3>1. /\ new \in Command /\ new.at = at /\ new.id = cmd[c].id
              /\ new.entry = entry /\ new.mirror = cmd[c].mirror
            BY <1>0 DEF Command, Entry
        <3>2. at \in {"incr", "save"} /\ entry \in {"added", "edited"}
            OBVIOUS
        <3>3. StageOK(new)
            BY <1>0, <2>1, <2>2, <3>1 DEF StageOK
        <3> QED BY <2>1, <3>1, <3>2, <3>3
    <2> HIDE DEF Good
    <2> QED BY <1>4, <2>1, <2>3, <1>r DEF CheckName
<1>5. ASSUME NameTaken(c) PROVE Goal
    <2> DEFINE new == [cmd[c] EXCEPT !.at = "edit"]
    <2>1. /\ cmd[c].at = "check"
          /\ End(c) \/ (cmd[c].id # NoId /\ cmd' = [cmd EXCEPT ![c] = new])
        BY <1>0, <1>5 DEF NameTaken, Goto
    <2>2. cmd[c].id # NoId => Good(new)
        <3>1. new \in Command /\ new.at = "edit" /\ new.id = cmd[c].id
            BY <1>0 DEF Command
        <3> QED BY <3>1 DEF StageOK
    <2>3. \E k : Good(k) /\ cmd' = [cmd EXCEPT ![c] = k]
        BY <1>1, <2>1, <2>2 DEF End
    <2> HIDE DEF Good
    <2> QED BY <1>5, <2>1, <2>3, <1>r DEF NameTaken
<1>6. ASSUME ScanMirror(c) \/ ScanName(c) PROVE Goal
    <2> PICK at \in {"scanName", "scanSync"} :
                /\ cmd[c].at \in {"scanFetch", "scanName"}
                /\ End(c) \/ cmd' = [cmd EXCEPT ![c].at = at]
        BY <1>6 DEF ScanMirror, ScanName, Goto
    <2> DEFINE new == [cmd[c] EXCEPT !.at = at]
    <2>1. cmd[c].at \in {"scanFetch", "scanName"} /\ (End(c) \/ cmd' = [cmd EXCEPT ![c] = new])
        BY <1>0
    <2>2. Good(new)
        <3>1. new \in Command /\ new.at = at /\ new.id = cmd[c].id
            BY <1>0 DEF Command
        <3>2. cmd[c].id # NoId
            BY <1>0, <2>1 DEF StageOK
        <3> QED BY <3>1, <3>2 DEF StageOK
    <2>3. \E k : Good(k) /\ cmd' = [cmd EXCEPT ![c] = k]
        BY <1>1, <2>1, <2>2 DEF End
    <2> HIDE DEF Good
    <2> QED BY <1>6, <2>1, <2>3, <1>r DEF ScanMirror, ScanName
<1>7. ASSUME ScanFails(c) PROVE Goal
    <2> DEFINE new == [cmd[c] EXCEPT !.at = "log", !.entry = "error"]
    <2>1. cmd[c].at = "scanning" /\ cmd' = [cmd EXCEPT ![c] = new]
        BY <1>0, <1>7 DEF ScanFails
    <2>2. Good(new)
        <3>1. new \in Command /\ new.at = "log" /\ new.id = cmd[c].id /\ new.entry = "error"
            BY <1>0 DEF Command, Entry
        <3>2. cmd[c].id # NoId
            BY <1>0, <2>1 DEF StageOK
        <3> QED BY <3>1, <3>2 DEF StageOK, Entry
    <2> HIDE DEF Good
    <2> QED BY <1>7, <2>1, <2>2, <1>r DEF ScanFails
<1> QED BY <1>2, <1>3, <1>4, <1>5, <1>6, <1>7 DEF Reads, Goal

\* What a command that writes the hash of its mirror, and nothing else, does.
LEMMA WriteMoves ==
    ASSUME TypeOK, Stages, NEW c \in Client, Writes(c)
    PROVE  /\ cmd' \in [Client -> Command] /\ StageOK(cmd'[c])
           /\ \A d \in Client \ {c} : cmd'[d] = cmd[d]
           /\ UNCHANGED <<lastMid, index, logs, commands, historyVars>>
           /\ cmd[c].at \notin {"idle", "check", "incr", "save", "log", "delete"}
           /\ cmd[c].id \in Id
           /\ cmd'[c].at \notin {"incr", "save", "delete"}
           /\ \/ /\ record' = Put(record, cmd[c].id, Stored(cmd[c].id))
                 /\ cmd'[c].at = "log" => cmd'[c].entry = "error"
                 /\ cmd'[c].id = cmd[c].id \/ cmd'[c] = Idle
              \/ \E e \in BOOLEAN :
                    /\ record' = Put(record, cmd[c].id,
                                     [Stored(cmd[c].id) EXCEPT !.enabled = e])
                    /\ cmd'[c].at = "log" /\ cmd'[c].id = cmd[c].id
                    /\ cmd'[c].entry = IF e THEN "enabled" ELSE "disabled"
<1>0. cmd[c] \in Command /\ StageOK(cmd[c]) /\ cmd \in [Client -> Command]
    BY DEF TypeOK, Stages
<1>1. cmd[c].at \in {"status", "disable", "scanSync", "scanning"}
    BY DEF Writes, ChangeStatus, RemoveDisable, ScanBegin, ScanEnds
<1>2. cmd[c].id # NoId /\ cmd[c].id \in Id
    BY <1>0, <1>1 DEF StageOK, Command
<1>3. UNCHANGED <<lastMid, index, logs, commands, historyVars>>
    BY DEF Writes, ChangeStatus, RemoveDisable, ScanBegin, ScanEnds, SetMirrorEnabled
<1>4. CASE ScanBegin(c) \/ ScanEnds(c)
    <2>0. /\ record' = Put(record, cmd[c].id, Stored(cmd[c].id))
          /\ \/ End(c)
             \/ \E at \in {"scanning", "status"} : cmd' = [cmd EXCEPT ![c].at = at]
             \/ \E then \in {"status", "idle"} :
                   cmd' = [cmd EXCEPT ![c].at = "log", ![c].entry = "error", ![c].then = then]
        BY <1>4 DEF ScanBegin, ScanEnds, SetLastSync, Touch, Goto
    <2>1. PICK new \in Command :
             /\ new.at \in {"scanning", "status", "log"} /\ new.id = cmd[c].id
             /\ new.at = "log" => new.entry = "error"
             /\ End(c) \/ cmd' = [cmd EXCEPT ![c] = new]
        <3>1. CASE End(c)
            <4> DEFINE k == [cmd[c] EXCEPT !.at = "scanning"]
            <4>1. k \in Command /\ k.at = "scanning" /\ k.id = cmd[c].id
                BY <1>0 DEF Command
            <4> HIDE DEF k
            <4> QED BY <3>1, <4>1
        <3>2. ASSUME NEW at \in {"scanning", "status"}, cmd' = [cmd EXCEPT ![c].at = at]
              PROVE  \E k \in Command : /\ k.at = at /\ k.id = cmd[c].id
                                        /\ cmd' = [cmd EXCEPT ![c] = k]
            <4> DEFINE k == [cmd[c] EXCEPT !.at = at]
            <4>1. k \in Command /\ k.at = at /\ k.id = cmd[c].id
                BY <1>0 DEF Command
            <4>2. cmd' = [cmd EXCEPT ![c] = k]
                BY <1>0, <3>2
            <4> QED BY <4>1, <4>2
        <3>3. ASSUME NEW then \in {"status", "idle"},
                     cmd' = [cmd EXCEPT ![c].at = "log", ![c].entry = "error", ![c].then = then]
              PROVE  \E k \in Command : /\ k.at = "log" /\ k.id = cmd[c].id
                                        /\ k.entry = "error"
                                        /\ cmd' = [cmd EXCEPT ![c] = k]
            <4> DEFINE k == [cmd[c] EXCEPT !.at = "log", !.entry = "error", !.then = then]
            <4>1. k \in Command /\ k.at = "log" /\ k.id = cmd[c].id /\ k.entry = "error"
                BY <1>0 DEF Command, Entry
            <4>2. cmd' = [cmd EXCEPT ![c] = k]
                BY <1>0, <3>3
            <4> QED BY <4>1, <4>2
        <3> QED BY <2>0, <3>1, <3>2, <3>3
    <2>3. StageOK(new)
        BY <1>2, <2>1 DEF StageOK, Entry
    <2>5. CASE End(c)
        <3>1. Idle.at = "idle"
            BY DEF Idle
        <3> QED BY <1>1, <1>2, <1>3, <2>0, <2>5, <3>1, Moves, IdleOK
    <2>6. CASE cmd' = [cmd EXCEPT ![c] = new]
        BY <1>1, <1>2, <1>3, <2>0, <2>1, <2>3, <2>6, Moves
    <2> QED BY <2>1, <2>5, <2>6
<1>5. CASE ChangeStatus(c) \/ RemoveDisable(c)
    <2>1. PICK e \in BOOLEAN, then \in {"idle", "delete"} : SetMirrorEnabled(c, e, then)
        BY <1>0, <1>5 DEF ChangeStatus, RemoveDisable, Command
    <2> DEFINE entry == IF e THEN "enabled" ELSE "disabled"
               new == [cmd[c] EXCEPT !.at = "log", !.then = then, !.entry = entry]
    <2>2. /\ new \in Command /\ new.at = "log" /\ new.id = cmd[c].id
          /\ new.entry = entry /\ entry \in Entry \ {"state"}
        BY <1>0 DEF Command, Entry
    <2>3. StageOK(new)
        BY <1>2, <2>2 DEF StageOK
    <2>4. cmd' = [cmd EXCEPT ![c] = new]
        BY <1>0, <2>1 DEF SetMirrorEnabled
    <2>5. record' = Put(record, cmd[c].id, [Stored(cmd[c].id) EXCEPT !.enabled = e])
        BY <2>1 DEF SetMirrorEnabled
    <2> HIDE DEF new
    <2>6. /\ cmd' \in [Client -> Command] /\ cmd'[c] = new
          /\ \A d \in Client \ {c} : cmd'[d] = cmd[d]
        BY <2>2, <2>4, Moves
    <2> QED BY <1>1, <1>2, <1>3, <2>2, <2>3, <2>5, <2>6
<1> QED BY <1>4, <1>5 DEF Writes

\* A new mirror gets its id.
LEMMA IncrMoves ==
    ASSUME TypeOK, Stages, NEW c \in Client, NewId(c)
    PROVE  /\ cmd' \in [Client -> Command] /\ StageOK(cmd'[c])
           /\ \A d \in Client \ {c} : cmd'[d] = cmd[d]
           /\ cmd[c].at = "incr" /\ cmd[c].id = NoId
           /\ lastMid + 1 \in Id /\ lastMid' = lastMid + 1
           /\ cmd'[c].at = "save" /\ cmd'[c].id = lastMid + 1
           /\ cmd'[c].entry = "added" /\ ~cmd'[c].mirror.enabled
           /\ cmd'[c].mirror = cmd[c].mirror /\ cmd'[c].stale = cmd[c].stale
           /\ UNCHANGED <<index, record, logs, commands, historyVars>>
<1>0. cmd[c] \in Command /\ StageOK(cmd[c]) /\ cmd \in [Client -> Command]
    BY DEF TypeOK, Stages
<1>1. lastMid + 1 \in Id
    BY AdminAssumption DEF NewId, TypeOK, Id
<1> DEFINE new == [cmd[c] EXCEPT !.at = "save", !.id = lastMid + 1]
<1>2. /\ new \in Command /\ new.at = "save" /\ new.id = lastMid + 1
      /\ new.entry = cmd[c].entry /\ new.mirror = cmd[c].mirror /\ new.stale = cmd[c].stale
    BY <1>0, <1>1 DEF Command
<1>3. cmd' = [cmd EXCEPT ![c] = new]
    BY <1>0 DEF NewId
<1>4. cmd[c].at = "incr" /\ cmd[c].id = NoId /\ cmd[c].entry = "added"
         /\ cmd[c].mirror.name \in Name /\ ~cmd[c].mirror.enabled
    BY <1>0 DEF NewId, StageOK
<1>5. StageOK(new)
    BY <1>1, <1>2, <1>4 DEF StageOK, Id, NoId
<1> HIDE DEF new
<1> QED BY <1>1, <1>2, <1>3, <1>4, <1>5, Moves DEF NewId

\* setMirror saves the mirror; the name checks of the others are stale then.
LEMMA SaveMoves ==
    ASSUME TypeOK, Stages, NEW c \in Client, Save(c)
    PROVE  /\ cmd' \in [Client -> Command] /\ \A d \in Client : StageOK(cmd'[d])
           /\ cmd[c].at = "save" /\ cmd[c].id \in Id
           /\ cmd[c].mirror \in Record /\ cmd[c].mirror.name \in Name
           /\ cmd[c].entry \in {"added", "edited"}
           /\ cmd'[c].at = "log" /\ cmd'[c].id = cmd[c].id /\ cmd'[c].entry = cmd[c].entry
           /\ \A d \in Client \ {c} :
                 /\ cmd'[d].at = cmd[d].at /\ cmd'[d].id = cmd[d].id
                 /\ cmd'[d].mirror = cmd[d].mirror /\ cmd'[d].entry = cmd[d].entry
                 /\ cmd[d].at \in {"incr", "save"} => cmd'[d].stale
           /\ record' = Put(record, cmd[c].id, cmd[c].mirror)
           /\ index' = Put(index, cmd[c].id, cmd[c].mirror.name)
           /\ raced' = (raced \/ cmd[c].stale)
           /\ UNCHANGED <<lastMid, logs, commands, disturbed, late>>
<1>0. cmd \in [Client -> Command] /\ \A d \in Client : cmd[d] \in Command /\ StageOK(cmd[d])
    BY DEF TypeOK, Stages
<1>1. /\ cmd[c].at = "save" /\ cmd[c].id \in Id /\ cmd[c].mirror \in Record
      /\ cmd[c].mirror.name \in Name /\ cmd[c].entry \in {"added", "edited"}
    BY <1>0 DEF Save, StageOK, Command
<1>2. cmd'[c] = [cmd[c] EXCEPT !.at = "log", !.stale = FALSE]
    BY DEF Save
<1>3. /\ cmd'[c] \in Command /\ cmd'[c].at = "log" /\ cmd'[c].id = cmd[c].id
      /\ cmd'[c].entry = cmd[c].entry
    BY <1>0, <1>2 DEF Command
<1>4. StageOK(cmd'[c])
    BY <1>0, <1>1, <1>3 DEF StageOK, Entry
<1>5. ASSUME NEW d \in Client \ {c}
      PROVE  /\ cmd'[d] \in Command /\ StageOK(cmd'[d])
             /\ cmd'[d].at = cmd[d].at /\ cmd'[d].id = cmd[d].id
             /\ cmd'[d].mirror = cmd[d].mirror /\ cmd'[d].entry = cmd[d].entry
             /\ cmd[d].at \in {"incr", "save"} => cmd'[d].stale
    <2> DEFINE stale == cmd[d].stale \/ cmd[d].at \in {"incr", "save"}
    <2>1. cmd'[d] = [cmd[d] EXCEPT !.stale = stale]
        BY <1>0 DEF Save
    <2>2. stale \in BOOLEAN
        OBVIOUS
    <2> HIDE DEF stale
    <2>3. /\ cmd'[d] \in Command
          /\ cmd'[d].at = cmd[d].at /\ cmd'[d].id = cmd[d].id
          /\ cmd'[d].mirror = cmd[d].mirror /\ cmd'[d].entry = cmd[d].entry
          /\ cmd'[d].stale = stale
        BY <1>0, <2>1, <2>2 DEF Command
    <2>4. StageOK(cmd'[d])
        BY <1>0, <2>3 DEF StageOK
    <2> QED BY <2>3, <2>4 DEF stale
<1>6. DOMAIN cmd' = Client /\ cmd' = [d \in Client |-> cmd'[d]]
    BY DEF Save
<1>7. cmd' \in [Client -> Command] /\ \A d \in Client : StageOK(cmd'[d])
    BY <1>3, <1>4, <1>5, <1>6
<1> QED BY <1>1, <1>3, <1>5, <1>7 DEF Save

\* A command that has logged, or failed to, ends or goes on to the deletion.
LEMMA LogMoves ==
    ASSUME TypeOK, Stages, NEW c \in Client, PushLog(c) \/ LogLost(c)
    PROVE  /\ cmd' \in [Client -> Command] /\ StageOK(cmd'[c])
           /\ \A d \in Client \ {c} : cmd'[d] = cmd[d]
           /\ cmd[c].at = "log" /\ cmd[c].id \in Id /\ cmd[c].entry \in Entry \ {"state"}
           /\ cmd'[c] = Idle \/ (cmd'[c].at \in {"delete", "status"} /\ cmd'[c].id = cmd[c].id)
<1>0. cmd[c] \in Command /\ StageOK(cmd[c]) /\ cmd \in [Client -> Command]
    BY DEF TypeOK, Stages
<1>1. /\ cmd[c].at = "log" /\ cmd[c].id \in Id /\ cmd[c].id # NoId
      /\ cmd[c].entry \in Entry \ {"state"}
    BY <1>0 DEF PushLog, LogLost, StageOK, Command
<1> DEFINE new == [cmd[c] EXCEPT !.at = cmd[c].then]
<1>4. End(c) \/ (cmd' = [cmd EXCEPT ![c] = new] /\ cmd[c].then \in {"delete", "status"})
    <2>1. cmd[c].then \in {"idle", "delete", "status"}
        BY <1>0 DEF Command
    <2> QED BY <1>0, <2>1 DEF PushLog, LogLost, Goto
<1>2. cmd[c].then \in {"delete", "status"} =>
         new \in Command /\ new.at = cmd[c].then /\ new.id = cmd[c].id
    BY <1>0 DEF Command
<1>3. cmd[c].then \in {"delete", "status"} => StageOK(new)
    BY <1>1, <1>2 DEF StageOK
<1> HIDE DEF new
<1> QED BY <1>1, <1>2, <1>3, <1>4, Moves, IdleOK

\* A task takes up a mirror, goes on or ends: what it does to the database.
LEMMA TaskMoves ==
    ASSUME TypeOK, Stages, NEW g \in Goroutine, TaskNext(g)
    PROVE  /\ task' \in [Goroutine -> Task] /\ TaskOK(task'[g])
           /\ \A h \in Goroutine \ {g} : task'[h] = task[h]
           /\ UNCHANGED <<lastMid, index, raced, late>> /\ commands' \in 0..MaxCommand
           /\ \/ task'[g].id \in {task[g].id, NoId}
              \/ task[g].id = NoId /\ task'[g].id \in Listed
           /\ \/ /\ UNCHANGED <<record, logs>> /\ task'[g].entry # "disabled"
                 /\ disturbed' = IF task[g].entry = "disabled"
                                 THEN disturbed \cup {task[g].id} ELSE disturbed
              \/ /\ Touch(task[g].id) /\ UNCHANGED <<logs, disturbed>>
                 /\ task[g].id \in Id
                 /\ task[g].entry # "disabled" /\ task'[g].entry # "disabled"
              \/ /\ record' = Put(record, task[g].id,
                                  [Stored(task[g].id) EXCEPT !.enabled = FALSE])
                 /\ logs' = logs /\ task[g].id \in Id /\ task'[g].id = task[g].id
                 /\ task'[g].entry = "disabled"
                 /\ disturbed' = IF \E c \in Client : cmd[c].id = task[g].id
                                 THEN disturbed \cup {task[g].id} ELSE disturbed
              \/ /\ logs' = [logs EXCEPT ![task[g].id] = Append(@, task[g].entry)]
                 /\ UNCHANGED <<record, disturbed>> /\ task[g].id \in Id
                 /\ task[g].entry \in {"state", "error", "disabled"}
                 /\ task'[g].entry # "disabled"
<1>0. task \in [Goroutine -> Task] /\ task[g] \in Task /\ TaskOK(task[g])
    BY DEF TypeOK, Stages
<1>1. Rest \in Task /\ TaskOK(Rest) /\ Rest.id = NoId /\ Rest.entry = ""
    BY DEF Rest, Task, TaskOK, NoId
<1>2. task[g].at # "idle" => task[g].id \in Id
    BY <1>0 DEF TaskOK, Task
<1> DEFINE Good(k) ==
        /\ k \in Task /\ TaskOK(k) /\ task' = [task EXCEPT ![g] = k]
<1>3. ASSUME NEW k, Good(k)
      PROVE  /\ task' \in [Goroutine -> Task] /\ task'[g] = k /\ TaskOK(task'[g])
             /\ \A h \in Goroutine \ {g} : task'[h] = task[h]
    BY <1>0, <1>3
<1>4. ASSUME Done(g) PROVE Good(Rest)
    BY <1>1, <1>4 DEF Done
<1>5. ASSUME NEW at \in {"scanSync", "scanning"}, Step(g, at), task[g].at \notin {"idle", "log"}
      PROVE  \E k : Good(k) /\ k.id = task[g].id /\ k.entry = ""
    <2> DEFINE k == [task[g] EXCEPT !.at = at]
    <2>1. k \in Task /\ k.at = at /\ k.id = task[g].id /\ k.entry = task[g].entry
        BY <1>0 DEF Task
    <2>2. TaskOK(k) /\ k.entry = ""
        BY <1>0, <1>5, <2>1 DEF TaskOK
    <2>3. task' = [task EXCEPT ![g] = k]
        BY <1>0, <1>5 DEF Step
    <2> QED BY <2>1, <2>2, <2>3
<1>6. ASSUME NEW e \in {"state", "error", "disabled"}, NEW m \in BOOLEAN, Log(g, e, m),
             task[g].at # "idle"
      PROVE  \E k : Good(k) /\ k.id = task[g].id /\ k.entry = e
    <2> DEFINE k == [task[g] EXCEPT !.at = "log", !.entry = e, !.missing = m]
    <2>1. k \in Task /\ k.at = "log" /\ k.id = task[g].id /\ k.entry = e
        BY <1>0 DEF Task
    <2>2. TaskOK(k)
        BY <1>0, <1>6, <2>1 DEF TaskOK
    <2>3. task' = [task EXCEPT ![g] = k]
        BY <1>0, <1>6 DEF Log
    <2> QED BY <2>1, <2>2, <2>3
<1>7. ASSUME NEW m \in BOOLEAN, Continue(g, m), task[g].at # "idle"
      PROVE  \E k : Good(k) /\ k.id \in {task[g].id, NoId} /\ k.entry = ""
    <2> DEFINE k == [task[g] EXCEPT !.at = "missing", !.entry = "", !.missing = FALSE]
    <2>1. k \in Task /\ k.at = "missing" /\ k.id = task[g].id /\ k.entry = ""
        BY <1>0 DEF Task
    <2>2. TaskOK(k)
        BY <1>0, <1>7, <2>1 DEF TaskOK
    <2>3. task' = [task EXCEPT ![g] = k] \/ Done(g)
        BY <1>0, <1>7 DEF Continue
    <2> HIDE DEF k
    <2> QED BY <1>1, <1>4, <2>1, <2>2, <2>3
<1>8. ASSUME NEW i \in Id, NEW at \in {"request", "scanName", "trace"}, Take(g, i, at)
      PROVE  /\ \E k : Good(k) /\ k.id = i /\ k.entry = ""
             /\ task[g].id = NoId /\ i \in Listed /\ commands' \in 0..MaxCommand
             /\ UNCHANGED <<dbVars, historyVars>> /\ task[g].entry = ""
    <2> DEFINE k == [Rest EXCEPT !.at = at, !.id = i]
    <2>1. k \in Task /\ k.at = at /\ k.id = i /\ k.entry = ""
        BY <1>1 DEF Task
    <2>2. i # NoId
        BY DEF Id, NoId
    <2>3. TaskOK(k)
        BY <2>1, <2>2 DEF TaskOK
    <2>4. task' = [task EXCEPT ![g] = k] /\ task[g].at = "idle"
        BY <1>8 DEF Take
    <2>5. commands' \in 0..MaxCommand
        BY <1>8, AdminAssumption DEF Take, TypeOK
    <2> HIDE DEF k
    <2> QED BY <1>0, <1>8, <2>1, <2>3, <2>4, <2>5 DEF Take, TaskOK
<1> HIDE DEF Good
<1>c. commands \in 0..MaxCommand
    BY DEF TypeOK
<1>a. CASE \E i \in Id : HealthCheck(g, i) \/ SyncMirror(g, i) \/ FetchTrace(g, i)
    <2>1. PICK i \in Id, at \in {"request", "scanName", "trace"} : Take(g, i, at)
        BY <1>a DEF HealthCheck, SyncMirror, FetchTrace
    <2>2. PICK k : Good(k) /\ k.id = i /\ k.entry = ""
        BY <1>8, <2>1
    <2>3. task[g].id = NoId /\ i \in Listed /\ commands' \in 0..MaxCommand
              /\ UNCHANGED <<dbVars, historyVars>> /\ task[g].entry = ""
        BY <1>8, <2>1
    <2>4. /\ task' \in [Goroutine -> Task] /\ task'[g] = k /\ TaskOK(task'[g])
          /\ \A h \in Goroutine \ {g} : task'[h] = task[h]
        BY <1>3, <2>2
    <2> QED BY <2>2, <2>3, <2>4 DEF dbVars, historyVars
<1>b. CASE \/ \E m \in BOOLEAN : SetMirrorState(g, m)
           \/ SyncBegin(g) \/ SyncEnds(g) \/ GetLastUpdate(g)
    <2>1. /\ task[g].at \in {"request", "scanSync", "scanning", "trace"}
          /\ Touch(task[g].id)
          /\ UNCHANGED <<lastMid, index, logs, commands, historyVars>>
          /\ \/ \E m \in BOOLEAN : Log(g, "state", m) \/ Continue(g, m)
             \/ Step(g, "scanning") \/ Done(g) \/ Log(g, "error", FALSE)
        BY <1>b DEF SetMirrorState, SyncBegin, SyncEnds, GetLastUpdate
    <2>2. PICK k : Good(k) /\ k.id \in {task[g].id, NoId} /\ k.entry # "disabled"
        BY <1>1, <1>4, <1>5, <1>6, <1>7, <2>1
    <2>3. /\ task' \in [Goroutine -> Task] /\ task'[g] = k /\ TaskOK(task'[g])
          /\ \A h \in Goroutine \ {g} : task'[h] = task[h]
        BY <1>3, <2>2
    <2>4. task[g].id \in Id /\ task[g].entry = ""
        BY <1>0, <1>2, <2>1 DEF TaskOK
    <2> QED BY <1>c, <2>1, <2>2, <2>3, <2>4 DEF historyVars
<1>d. CASE SyncName(g) \/ SyncFails(g)
    <2>1. /\ task[g].at \in {"scanName", "scanning"}
          /\ UNCHANGED <<dbVars, commands, historyVars>>
          /\ Step(g, "scanSync") \/ Done(g) \/ Log(g, "error", FALSE)
        BY <1>d DEF SyncName, SyncFails
    <2>2. PICK k : Good(k) /\ k.id \in {task[g].id, NoId} /\ k.entry # "disabled"
        BY <1>1, <1>4, <1>5, <1>6, <2>1
    <2>3. /\ task' \in [Goroutine -> Task] /\ task'[g] = k /\ TaskOK(task'[g])
          /\ \A h \in Goroutine \ {g} : task'[h] = task[h]
        BY <1>3, <2>2
    <2>4. task[g].entry = ""
        BY <1>0, <2>1 DEF TaskOK
    <2> QED BY <1>c, <2>1, <2>2, <2>3, <2>4 DEF dbVars, historyVars
<1>e. CASE DisableMirror(g)
    <2>1. task[g].at = "missing" /\ Log(g, "disabled", FALSE)
        BY <1>e DEF DisableMirror
    <2>2. PICK k : Good(k) /\ k.id = task[g].id /\ k.entry = "disabled"
        BY <1>6, <2>1
    <2>3. /\ task' \in [Goroutine -> Task] /\ task'[g] = k /\ TaskOK(task'[g])
          /\ \A h \in Goroutine \ {g} : task'[h] = task[h]
        BY <1>3, <2>2
    <2> QED BY <1>c, <1>e, <1>2, <2>1, <2>2, <2>3 DEF DisableMirror
<1>f. CASE TaskLog(g)
    <2>1. task[g].at = "log" /\ Continue(g, task[g].missing) /\ task[g].missing \in BOOLEAN
        BY <1>0, <1>f DEF TaskLog, Task
    <2>2. PICK k : Good(k) /\ k.id \in {task[g].id, NoId} /\ k.entry = ""
        BY <1>7, <2>1
    <2>3. /\ task' \in [Goroutine -> Task] /\ task'[g] = k /\ TaskOK(task'[g])
          /\ \A h \in Goroutine \ {g} : task'[h] = task[h]
        BY <1>3, <2>2
    <2>4. task[g].entry \in {"state", "error", "disabled"}
        BY <1>0, <2>1 DEF TaskOK, Task
    <2> QED BY <1>c, <1>f, <1>2, <2>1, <2>2, <2>3, <2>4 DEF TaskLog, historyVars
<1>g. CASE TaskFails(g)
    <2>1. /\ task[g].at # "idle"
          /\ Done(g) \/ \E m \in BOOLEAN : Continue(g, m)
        BY <1>0, <1>g DEF TaskFails, Task
    <2>2. PICK k : Good(k) /\ k.id \in {task[g].id, NoId} /\ k.entry = ""
        BY <1>1, <1>4, <1>7, <2>1
    <2>3. /\ task' \in [Goroutine -> Task] /\ task'[g] = k /\ TaskOK(task'[g])
          /\ \A h \in Goroutine \ {g} : task'[h] = task[h]
        BY <1>3, <2>2
    <2> QED BY <1>c, <1>g, <2>1, <2>2, <2>3 DEF TaskFails, dbVars
<1> QED BY <1>a, <1>b, <1>d, <1>e, <1>f, <1>g DEF TaskNext

LEMMA OthersStages ==
    ASSUME Stages, NEW c \in Client, StageOK(cmd'[c]), task' = task,
           \A d \in Client \ {c} : cmd'[d] = cmd[d]
    PROVE  Stages'
BY DEF Stages

LEMMA StepType == TypeOK /\ Stages /\ [Next]_vars => TypeOK' /\ Stages'
<1> SUFFICES ASSUME TypeOK, Stages, [Next]_vars PROVE TypeOK' /\ Stages'
    OBVIOUS
<1>1. CASE UNCHANGED vars
    BY <1>1 DEF vars, dbVars, historyVars, TypeOK, Stages, Listed
<1>2. ASSUME NEW c \in Client, task' = task, Starts(c) PROVE TypeOK' /\ Stages'
    <2>1. Stages'
        BY <1>2, BeginMoves, OthersStages
    <2>2. TypeOK'
        BY <1>2, BeginMoves DEF TypeOK, dbVars, Listed
    <2> QED BY <2>1, <2>2
<1>3. ASSUME NEW c \in Client, task' = task, Reads(c) PROVE TypeOK' /\ Stages'
    <2>1. Stages'
        BY <1>3, ReadMoves, OthersStages
    <2>2. TypeOK'
        BY <1>3, ReadMoves DEF TypeOK, dbVars, historyVars, Listed
    <2> QED BY <2>1, <2>2
<1>4. ASSUME NEW c \in Client, task' = task, Writes(c) PROVE TypeOK' /\ Stages'
    <2>1. Stages'
        BY <1>4, WriteMoves, OthersStages
    <2>2. cmd[c].id \in Id /\ \E r \in Record : record' = Put(record, cmd[c].id, r)
        <3>1. cmd[c].id \in Id /\ Stored(cmd[c].id) \in Record
            BY <1>4, WriteMoves, StoredType
        <3>2. \A e \in BOOLEAN : [Stored(cmd[c].id) EXCEPT !.enabled = e] \in Record
            BY <3>1 DEF Record
        <3> QED BY <1>4, <3>1, <3>2, WriteMoves
    <2>3. DOMAIN record' \subseteq Id /\ record' \in [DOMAIN record' -> Record]
        BY <2>2 DEF Put, TypeOK
    <2>4. TypeOK'
        BY <1>4, <2>3, WriteMoves DEF TypeOK, historyVars, Listed
    <2> QED BY <2>1, <2>4
<1>5. ASSUME NEW c \in Client, task' = task, NewId(c) PROVE TypeOK' /\ Stages'
    <2>1. Stages'
        BY <1>5, IncrMoves, OthersStages
    <2>2. lastMid' \in 0..MaxId
        BY <1>5, IncrMoves, AdminAssumption DEF Id
    <2>3. TypeOK'
        BY <1>5, <2>2, IncrMoves DEF TypeOK, historyVars, Listed
    <2> QED BY <2>1, <2>3
<1>6. ASSUME NEW c \in Client, task' = task, Save(c) PROVE TypeOK' /\ Stages'
    <2>1. DOMAIN record' \subseteq Id /\ record' \in [DOMAIN record' -> Record]
        <3>1. DOMAIN record \subseteq Id /\ record \in [DOMAIN record -> Record]
            BY DEF TypeOK
        <3>2. /\ cmd[c].id \in Id /\ cmd[c].mirror \in Record
              /\ record' = Put(record, cmd[c].id, cmd[c].mirror)
            BY <1>6, SaveMoves
        <3> QED BY <3>1, <3>2 DEF Put
    <2>2. Listed' \subseteq Id /\ index' \in [Listed' -> Name]
        <3>1. DOMAIN index \subseteq Id /\ index \in [DOMAIN index -> Name]
            BY DEF TypeOK, Listed
        <3>2. /\ cmd[c].id \in Id /\ cmd[c].mirror.name \in Name
              /\ index' = Put(index, cmd[c].id, cmd[c].mirror.name)
            BY <1>6, SaveMoves
        <3> QED BY <3>1, <3>2 DEF Put, Listed
    <2>3. raced' \in BOOLEAN
        BY <1>6, SaveMoves
    <2>4. TypeOK'
        BY <1>6, <2>1, <2>2, <2>3, SaveMoves DEF TypeOK
    <2> QED BY <1>6, <2>4, SaveMoves DEF Stages
<1>7. ASSUME NEW c \in Client, task' = task, PushLog(c) \/ LogLost(c) PROVE TypeOK' /\ Stages'
    <2>1. Stages'
        BY <1>7, LogMoves, OthersStages
    <2>2. /\ cmd[c].id \in Id /\ cmd[c].entry \in Entry
          /\ cmd' \in [Client -> Command]
        BY <1>7, LogMoves
    <2>3. logs' \in [Id -> Seq(Entry)]
        <3>1. logs \in [Id -> Seq(Entry)]
            BY DEF TypeOK
        <3>2. Append(logs[cmd[c].id], cmd[c].entry) \in Seq(Entry)
            BY <2>2, <3>1
        <3>3. logs' = logs \/ logs' = [logs EXCEPT
                                 ![cmd[c].id] = Append(logs[cmd[c].id], cmd[c].entry)]
            BY <1>7, <2>2, <3>1 DEF PushLog, LogLost, dbVars
        <3> QED BY <3>1, <3>2, <3>3
    <2>4. TypeOK'
        BY <1>7, <2>2, <2>3 DEF PushLog, LogLost, TypeOK, dbVars, historyVars, Listed
    <2> QED BY <2>1, <2>4
<1>8. ASSUME NEW c \in Client, task' = task, RemoveMirror(c) PROVE TypeOK' /\ Stages'
    <2>1. End(c)
        BY <1>8 DEF RemoveMirror
    <2>2. Stages' /\ cmd' \in [Client -> Command]
        BY <1>8, <2>1, Moves, IdleOK, OthersStages
    <2>3. DOMAIN record' \subseteq Id /\ record' \in [DOMAIN record' -> Record]
        BY <1>8 DEF RemoveMirror, Restrict, TypeOK
    <2>4. Listed' \subseteq Id /\ index' \in [Listed' -> Name]
        BY <1>8 DEF RemoveMirror, Restrict, TypeOK, Listed
    <2>5. logs' \in [Id -> Seq(Entry)]
        <3>1. logs \in [Id -> Seq(Entry)] /\ <<>> \in Seq(Entry)
            BY DEF TypeOK
        <3>2. logs' = [logs EXCEPT ![cmd[c].id] = <<>>]
            BY <1>8 DEF RemoveMirror
        <3> QED BY <3>1, <3>2
    <2>6. late' \subseteq Id
        <3>1. cmd[c].id \in Id
            BY <1>8 DEF RemoveMirror, TypeOK, Stages, StageOK, Command
        <3> QED BY <1>8, <3>1 DEF RemoveMirror, TypeOK
    <2>7. TypeOK'
        BY <1>8, <2>2, <2>3, <2>4, <2>5, <2>6 DEF RemoveMirror, TypeOK
    <2> QED BY <2>2, <2>7
<1>9. ASSUME NEW c \in Client, task' = task, Fails(c) PROVE TypeOK' /\ Stages'
    <2>1. End(c) /\ cmd[c].id \in Id \cup {NoId}
        BY <1>9 DEF Fails, TypeOK, Command
    <2>2. Stages' /\ cmd' \in [Client -> Command]
        BY <1>9, <2>1, Moves, IdleOK, OthersStages
    <2>3. TypeOK'
        BY <1>9, <2>1, <2>2 DEF Fails, TypeOK, dbVars, Listed
    <2> QED BY <2>2, <2>3
<1>10. ASSUME NEW g \in Goroutine, TaskNext(g), cmd' = cmd PROVE TypeOK' /\ Stages'
    <2>0. /\ DOMAIN record \subseteq Id /\ record \in [DOMAIN record -> Record]
          /\ logs \in [Id -> Seq(Entry)] /\ task[g] \in Task
        BY DEF TypeOK
    <2>1. Stages'
        BY <1>10, TaskMoves DEF Stages
    <2>2. DOMAIN record' \subseteq Id /\ record' \in [DOMAIN record' -> Record]
        <3>1. \/ record' = record
              \/ task[g].id \in Id /\ \E r \in Record : record' = Put(record, task[g].id, r)
            <4>1. task[g].id \in Id => /\ Stored(task[g].id) \in Record
                                       /\ [Stored(task[g].id) EXCEPT !.enabled = FALSE] \in Record
                BY StoredType DEF Record
            <4> QED BY <1>10, <4>1, TaskMoves DEF Touch
        <3> QED BY <2>0, <3>1 DEF Put
    <2>3. logs' \in [Id -> Seq(Entry)]
        <3>1. \/ logs' = logs
              \/ /\ task[g].id \in Id /\ task[g].entry \in Entry
                 /\ logs' = [logs EXCEPT ![task[g].id] = Append(@, task[g].entry)]
            BY <1>10, TaskMoves DEF Entry
        <3>2. task[g].id \in Id /\ task[g].entry \in Entry
                 => Append(logs[task[g].id], task[g].entry) \in Seq(Entry)
            BY <2>0
        <3> QED BY <2>0, <3>1, <3>2
    <2>4. disturbed' \subseteq Id
        <3>1. task[g].entry = "disabled" => task[g].id \in Id
            BY <2>0 DEF Stages, TaskOK, Task
        <3>2. \/ disturbed' = disturbed
              \/ task[g].id \in Id /\ disturbed' = disturbed \cup {task[g].id}
            BY <1>10, <3>1, TaskMoves
        <3> QED BY <3>2 DEF TypeOK
    <2>5. TypeOK'
        BY <1>10, <2>2, <2>3, <2>4, TaskMoves DEF TypeOK, Listed
    <2> QED BY <2>1, <2>5
<1> QED BY <1>1, <1>2, <1>3, <1>4, <1>5, <1>6, <1>7, <1>8, <1>9, <1>10, NextCases

-----------------------------------------------------------------------------
(* Ids and names.                                                          *)

LEMMA StepIds ==
    TypeOK /\ Stages /\ IdsUsed /\ TasksKnown /\ [Next]_vars => IdsUsed'
<1> SUFFICES ASSUME TypeOK, Stages, IdsUsed, TasksKnown, [Next]_vars PROVE IdsUsed'
    OBVIOUS
<1>0. /\ lastMid \in Nat /\ NoId <= lastMid /\ Idle.id = NoId
      /\ \A c \in Client : cmd[c].id \in Nat
    <2>1. lastMid \in Nat
        BY AdminAssumption DEF TypeOK
    <2>2. \A c \in Client : cmd[c].id \in Id \cup {NoId}
        BY DEF TypeOK, Command
    <2>3. Id \subseteq Nat /\ NoId = 0
        BY DEF Id, NoId
    <2>4. Idle.id = NoId
        BY DEF Idle
    <2>5. NoId <= lastMid
        BY <2>1, <2>3
    <2>6. \A c \in Client : cmd[c].id \in Nat
        <3>1. Id \cup {NoId} \subseteq Nat
            BY DEF Id, NoId
        <3> QED BY <2>2, <3>1
    <2> QED BY <2>1, <2>4, <2>5, <2>6
<1>1. CASE UNCHANGED vars
    BY <1>1 DEF vars, dbVars, historyVars, IdsUsed, Listed
<1>a. ASSUME NEW c \in Client, cmd'[c].id <= lastMid,
             \A d \in Client \ {c} : cmd'[d] = cmd[d],
             UNCHANGED <<dbVars, late>>
      PROVE  IdsUsed'
    BY <1>a DEF IdsUsed, Listed, dbVars
<1>2. ASSUME NEW c \in Client, Starts(c) PROVE IdsUsed'
    <2>1. cmd'[c].id <= lastMid
        <3>1. cmd'[c].id = NoId \/ cmd'[c].id \in Listed
            BY <1>2, BeginMoves
        <3>2. \A i \in Listed : i <= lastMid
            BY <1>0 DEF IdsUsed
        <3> QED BY <1>0, <3>1, <3>2
    <2> QED BY <1>a, <1>2, <2>1, BeginMoves DEF dbVars
<1>3. ASSUME NEW c \in Client, Reads(c) PROVE IdsUsed'
    <2>1. cmd'[c].id <= lastMid
        BY <1>0, <1>3, ReadMoves DEF IdsUsed
    <2> QED BY <1>a, <1>3, <2>1, ReadMoves DEF dbVars, historyVars
<1>4. ASSUME NEW c \in Client, Writes(c) PROVE IdsUsed'
    <2>1. cmd[c].id \in 1..lastMid /\ \E r : record' = Put(record, cmd[c].id, r)
        <3>1. cmd[c].id \in Id /\ cmd[c].id <= lastMid
            BY <1>4, WriteMoves DEF IdsUsed
        <3>2. cmd[c].id \in 1..lastMid
            BY <1>0, <3>1 DEF Id
        <3>3. \E r : record' = Put(record, cmd[c].id, r)
            BY <1>4, WriteMoves
        <3> QED BY <3>2, <3>3
    <2>2. DOMAIN record' \subseteq 1..lastMid
        BY <2>1 DEF IdsUsed, Put
    <2>3. cmd'[c].id <= lastMid
        BY <1>0, <1>4, WriteMoves DEF IdsUsed
    <2> QED BY <1>4, <2>2, <2>3, WriteMoves DEF IdsUsed, Listed, historyVars
<1>5. ASSUME NEW c \in Client, NewId(c) PROVE IdsUsed'
    <2>1. /\ lastMid' = lastMid + 1 /\ cmd'[c].id = lastMid + 1
          /\ \A d \in Client \ {c} : cmd'[d] = cmd[d]
          /\ UNCHANGED <<index, record, logs, late>>
        BY <1>5, IncrMoves DEF historyVars
    <2>2. \A d \in Client : cmd'[d].id <= lastMid + 1
        BY <1>0, <2>1 DEF IdsUsed
    <2>3. \A i \in Id : i > lastMid + 1 => i > lastMid
        BY <1>0 DEF Id
    <2>4. 1..lastMid \subseteq 1..(lastMid + 1)
        BY <1>0
    <2> QED BY <2>1, <2>2, <2>3, <2>4 DEF IdsUsed, Listed
<1>6. ASSUME NEW c \in Client, Save(c) PROVE IdsUsed'
    <2>1. cmd[c].id \in 1..lastMid
        BY <1>0, <1>6, SaveMoves DEF IdsUsed, Id
    <2>2. Listed' \subseteq 1..lastMid /\ DOMAIN record' \subseteq 1..lastMid
        <3>1. /\ record' = Put(record, cmd[c].id, cmd[c].mirror)
              /\ index' = Put(index, cmd[c].id, cmd[c].mirror.name)
            BY <1>6, SaveMoves
        <3> QED BY <2>1, <3>1 DEF Put, IdsUsed, Listed
    <2>3. \A d \in Client : cmd'[d].id = cmd[d].id
        BY <1>6, SaveMoves
    <2> QED BY <1>6, <2>2, <2>3, SaveMoves DEF IdsUsed
<1>7. ASSUME NEW c \in Client, PushLog(c) \/ LogLost(c) PROVE IdsUsed'
    <2>1. cmd[c].id \in 1..lastMid /\ cmd'[c].id <= lastMid
        BY <1>0, <1>7, LogMoves DEF IdsUsed, Id
    <2>2. \A i \in Id : i > lastMid => logs'[i] = logs[i]
        BY <1>7, <2>1 DEF PushLog, LogLost, dbVars, TypeOK
    <2>3. \A d \in Client \ {c} : cmd'[d] = cmd[d]
        BY <1>7, LogMoves
    <2> QED BY <1>7, <2>1, <2>2, <2>3 DEF PushLog, LogLost, IdsUsed, Listed, dbVars,
                                              historyVars
<1>8. ASSUME NEW c \in Client, RemoveMirror(c) PROVE IdsUsed'
    <2>1. cmd'[c].id <= lastMid /\ \A d \in Client \ {c} : cmd'[d] = cmd[d]
        BY <1>0, <1>8, Moves DEF RemoveMirror
    <2>2. \A i \in Id : logs'[i] = logs[i] \/ logs'[i] = <<>>
        BY <1>8 DEF RemoveMirror, TypeOK
    <2>3. Listed' \subseteq Listed /\ DOMAIN record' \subseteq DOMAIN record
        BY <1>8 DEF RemoveMirror, Restrict, Listed
    <2>4. late' \subseteq 1..lastMid
        <3>1. cmd[c].id \in Id
            BY <1>8 DEF RemoveMirror, TypeOK, Stages, StageOK, Command
        <3>2. cmd[c].id \in 1..lastMid
            BY <1>0, <3>1 DEF IdsUsed, Id
        <3> QED BY <1>8, <3>2 DEF RemoveMirror, IdsUsed
    <2> QED BY <1>8, <2>1, <2>2, <2>3, <2>4 DEF RemoveMirror, IdsUsed
<1>9. ASSUME NEW c \in Client, Fails(c) PROVE IdsUsed'
    BY <1>0, <1>a, <1>9, Moves DEF Fails
<1>10. ASSUME NEW g \in Goroutine, TaskNext(g), cmd' = cmd PROVE IdsUsed'
    <2>1. task[g].id \in Id => task[g].id \in 1..lastMid
        BY DEF TasksKnown, IdsUsed, Id, NoId
    <2>2. DOMAIN record' \subseteq 1..lastMid
        <3>1. \/ record' = record
              \/ task[g].id \in Id /\ \E r : record' = Put(record, task[g].id, r)
            BY <1>10, TaskMoves DEF Touch
        <3> QED BY <2>1, <3>1 DEF IdsUsed, Put
    <2>3. \A i \in Id : i > lastMid => logs'[i] = logs[i]
        <3>1. \/ logs' = logs
              \/ task[g].id \in 1..lastMid
                 /\ logs' = [logs EXCEPT ![task[g].id] = Append(@, task[g].entry)]
            BY <1>10, <2>1, TaskMoves
        <3> QED BY <1>0, <3>1 DEF TypeOK
    <2> QED BY <1>10, <2>2, <2>3, TaskMoves DEF IdsUsed, Listed
<1> QED BY <1>1, <1>2, <1>3, <1>4, <1>5, <1>6, <1>7, <1>8, <1>9, <1>10, NextCases

\* A mirror leaves MIRRORS by a removal only, which notes the tasks on it.
LEMMA StepKnown ==
    TypeOK /\ Stages /\ TasksKnown /\ [Next]_vars => TasksKnown'
<1> SUFFICES ASSUME TypeOK, Stages, TasksKnown, [Next]_vars PROVE TasksKnown'
    OBVIOUS
<1>1. CASE UNCHANGED vars
    BY <1>1 DEF vars, dbVars, historyVars, TasksKnown, Listed
<1>a. ASSUME task' = task, Listed \subseteq Listed', late' = late PROVE TasksKnown'
    BY <1>a DEF TasksKnown
<1>2. ASSUME NEW c \in Client, task' = task, RemoveMirror(c) PROVE TasksKnown'
    BY <1>2 DEF RemoveMirror, Restrict, TasksKnown, Listed
<1>3. ASSUME NEW c \in Client, task' = task, Save(c) PROVE TasksKnown'
    <2>1. Listed \subseteq Listed' /\ late' = late
        BY <1>3, SaveMoves DEF Put, Listed
    <2> QED BY <1>3, <1>a, <2>1
<1>4. ASSUME NEW c \in Client, task' = task, Starts(c) \/ Reads(c) \/ Writes(c) \/ NewId(c)
      PROVE  TasksKnown'
    <2>1. index' = index /\ late' = late
        BY <1>4, BeginMoves, ReadMoves, WriteMoves, IncrMoves DEF dbVars, historyVars
    <2> QED BY <1>4, <1>a, <2>1 DEF Listed
<1>5. ASSUME NEW c \in Client, task' = task, PushLog(c) \/ LogLost(c) \/ Fails(c)
      PROVE  TasksKnown'
    <2>1. index' = index /\ late' = late
        BY <1>5 DEF PushLog, LogLost, Fails, dbVars, historyVars
    <2> QED BY <1>5, <1>a, <2>1 DEF Listed
<1>6. ASSUME NEW g \in Goroutine, TaskNext(g) PROVE TasksKnown'
    <2>1. /\ \A h \in Goroutine \ {g} : task'[h] = task[h]
          /\ index' = index /\ late' = late
          /\ \/ task'[g].id \in {task[g].id, NoId}
             \/ task'[g].id \in Listed
        BY <1>6, TaskMoves
    <2> QED BY <2>1 DEF TasksKnown, Listed
<1> QED BY <1>1, <1>2, <1>3, <1>4, <1>5, <1>6, NextCases

LEMMA StepNames ==
    TypeOK /\ Stages /\ UniqueNames /\ NamesFree /\ [Next]_vars
        => UniqueNames' /\ NamesFree'
<1> SUFFICES ASSUME TypeOK, Stages, UniqueNames, NamesFree, [Next]_vars
             PROVE  UniqueNames' /\ NamesFree'
    OBVIOUS
<1>0. Idle.at = "idle"
    BY DEF Idle
<1>1. CASE UNCHANGED vars
    BY <1>1 DEF vars, dbVars, historyVars, UniqueNames, NamesFree, Taken, Listed
<1>a. ASSUME NEW c \in Client, index' = index, raced' = raced,
             \A d \in Client \ {c} : cmd'[d] = cmd[d],
             cmd'[c].at \in {"incr", "save"} => ~Taken(c)' \/ cmd'[c].stale
      PROVE  UniqueNames' /\ NamesFree'
    <2>1. \A d \in Client \ {c} : Taken(d)' => Taken(d)
        BY <1>a DEF Taken, Listed
    <2> QED BY <1>a, <2>1 DEF UniqueNames, NamesFree, Listed
<1>2. ASSUME NEW c \in Client, Starts(c) PROVE UniqueNames' /\ NamesFree'
    BY <1>a, <1>2, BeginMoves DEF dbVars
<1>3. ASSUME NEW c \in Client, Reads(c) PROVE UniqueNames' /\ NamesFree'
    BY <1>a, <1>3, ReadMoves DEF dbVars, historyVars
<1>4. ASSUME NEW c \in Client, Writes(c) PROVE UniqueNames' /\ NamesFree'
    BY <1>a, <1>4, WriteMoves DEF historyVars
<1>5. ASSUME NEW c \in Client, NewId(c) PROVE UniqueNames' /\ NamesFree'
    <2>1. CASE raced
        BY <1>5, <2>1, IncrMoves DEF UniqueNames, NamesFree, historyVars
    <2>2. CASE ~raced
        <3>1. NoId \notin Listed
            BY DEF TypeOK, Id, NoId
        <3>2. Taken(c)' => Taken(c)
            BY <1>5, <3>1, IncrMoves DEF Taken, Listed
        <3>3. cmd'[c].stale = cmd[c].stale /\ cmd[c].stale \in BOOLEAN
            BY <1>5, IncrMoves DEF TypeOK, Command
        <3>4. ~Taken(c) \/ cmd[c].stale
            BY <1>5, <2>2, IncrMoves DEF NamesFree
        <3> QED BY <1>a, <1>5, <3>2, <3>3, <3>4, IncrMoves DEF historyVars
    <2> QED BY <2>1, <2>2
<1>6. ASSUME NEW c \in Client, Save(c) PROVE UniqueNames' /\ NamesFree'
    <2>1. CASE raced \/ cmd[c].stale
        BY <1>6, <2>1, SaveMoves DEF UniqueNames, NamesFree
    <2>2. CASE ~raced /\ ~cmd[c].stale
        <3>1. ~Taken(c)
            BY <1>6, <2>2, SaveMoves DEF NamesFree
        <3>2. \A i, j \in Listed' : index'[i] = index'[j] => i = j
            <4>1. /\ Listed' = Listed \cup {cmd[c].id}
                  /\ index'[cmd[c].id] = cmd[c].mirror.name
                  /\ \A i \in Listed \ {cmd[c].id} : index'[i] = index[i]
                <5>1. index' = Put(index, cmd[c].id, cmd[c].mirror.name)
                    BY <1>6, SaveMoves
                <5> QED BY <5>1 DEF Put, Listed
            <4> QED BY <2>2, <3>1, <4>1 DEF UniqueNames, Taken
        <3>3. \A d \in Client \ {c} : cmd'[d].at \in {"incr", "save"} => cmd'[d].stale
            BY <1>6, SaveMoves
        <3>4. cmd'[c].at = "log"
            BY <1>6, SaveMoves
        <3> QED BY <3>2, <3>3, <3>4 DEF UniqueNames, NamesFree
    <2> QED BY <2>1, <2>2
<1>7. ASSUME NEW c \in Client, PushLog(c) \/ LogLost(c) PROVE UniqueNames' /\ NamesFree'
    BY <1>0, <1>a, <1>7, LogMoves DEF PushLog, LogLost, dbVars, historyVars
<1>8. ASSUME NEW c \in Client, RemoveMirror(c) PROVE UniqueNames' /\ NamesFree'
    <2>1. Listed' \subseteq Listed /\ \A i \in Listed' : index'[i] = index[i]
        BY <1>8 DEF RemoveMirror, Restrict, Listed
    <2>2. cmd'[c] = Idle /\ \A d \in Client \ {c} : cmd'[d] = cmd[d]
        BY <1>8, Moves DEF RemoveMirror
    <2>3. raced' = raced
        BY <1>8 DEF RemoveMirror
    <2>4. \A d \in Client \ {c} : Taken(d)' => Taken(d)
        BY <2>1, <2>2 DEF Taken
    <2> QED BY <1>0, <2>1, <2>2, <2>3, <2>4 DEF UniqueNames, NamesFree
<1>9. ASSUME NEW c \in Client, Fails(c) PROVE UniqueNames' /\ NamesFree'
    BY <1>0, <1>a, <1>9, Moves DEF Fails, dbVars
<1>10. ASSUME NEW g \in Goroutine, TaskNext(g), cmd' = cmd PROVE UniqueNames' /\ NamesFree'
    <2>1. index' = index /\ raced' = raced
        BY <1>10, TaskMoves
    <2> QED BY <1>10, <2>1 DEF UniqueNames, NamesFree, Taken, Listed
<1> QED BY <1>1, <1>2, <1>3, <1>4, <1>5, <1>6, <1>7, <1>8, <1>9, <1>10, NextCases

\* A write of the hash that keeps its name.
LEMMA NameKept ==
    ASSUME NamesAgree, NEW i \in Id, NEW r, record' = Put(record, i, r),
           r.name = Stored(i).name, index' = index
    PROVE  NamesAgree'
<1>1. i \in DOMAIN record => r.name = record[i].name
    BY DEF Stored
<1>2. i \notin DOMAIN record => r.name = NoName
    BY DEF Stored, Blank
<1>3. /\ DOMAIN record' = DOMAIN record \cup {i} /\ record'[i] = r
      /\ \A j \in DOMAIN record \ {i} : record'[j] = record[j]
    BY DEF Put
<1> QED BY <1>1, <1>2, <1>3 DEF NamesAgree, Listed

LEMMA StepRecords ==
    TypeOK /\ Stages /\ NamesAgree /\ [Next]_vars => NamesAgree'
<1> SUFFICES ASSUME TypeOK, Stages, NamesAgree, [Next]_vars PROVE NamesAgree'
    OBVIOUS
<1>a. CASE index' = index /\ record' = record
    BY <1>a DEF NamesAgree, Listed
<1>1. ASSUME NEW c \in Client, Writes(c) PROVE NamesAgree'
    <2> DEFINE i == cmd[c].id
    <2>0. i \in Id /\ index' = index
        BY <1>1, WriteMoves
    <2>1. PICK r : record' = Put(record, i, r) /\ r.name = Stored(i).name
        <3>1. Stored(i) \in Record
            BY <2>0, StoredType
        <3>2. \A e \in BOOLEAN : [Stored(i) EXCEPT !.enabled = e].name = Stored(i).name
            BY <3>1 DEF Record
        <3> QED BY <1>1, <3>2, WriteMoves
    <2> QED BY <2>0, <2>1, NameKept
<1>2. ASSUME NEW c \in Client, Save(c) PROVE NamesAgree'
    <2> DEFINE i == cmd[c].id
               m == cmd[c].mirror
    <2>1. /\ Listed' = Listed \cup {i} /\ index'[i] = m.name
          /\ \A j \in Listed \ {i} : index'[j] = index[j]
        <3>1. index' = Put(index, i, m.name)
            BY <1>2, SaveMoves
        <3> QED BY <3>1 DEF Put, Listed
    <2>2. /\ DOMAIN record' = DOMAIN record \cup {i} /\ record'[i] = m
          /\ \A j \in DOMAIN record \ {i} : record'[j] = record[j]
        <3>1. record' = Put(record, i, m)
            BY <1>2, SaveMoves
        <3> QED BY <3>1 DEF Put
    <2>3. m.name # NoName
        BY <1>2, SaveMoves, AdminAssumption
    <2> HIDE DEF i, m
    <2> QED BY <2>1, <2>2, <2>3 DEF NamesAgree
<1>3. ASSUME NEW c \in Client, RemoveMirror(c) PROVE NamesAgree'
    BY <1>3 DEF RemoveMirror, Restrict, NamesAgree, Listed
<1>4. ASSUME NEW c \in Client, Starts(c) \/ Reads(c) \/ NewId(c)
      PROVE  index' = index /\ record' = record
    BY <1>4, BeginMoves, ReadMoves, IncrMoves DEF dbVars
<1>5. ASSUME NEW c \in Client, PushLog(c) \/ LogLost(c) \/ Fails(c)
      PROVE  index' = index /\ record' = record
    BY <1>5 DEF PushLog, LogLost, Fails, dbVars
<1>6. CASE UNCHANGED vars
    BY <1>a, <1>6 DEF vars, dbVars
<1>7. ASSUME NEW g \in Goroutine, TaskNext(g) PROVE NamesAgree'
    <2> DEFINE i == task[g].id
    <2>0. index' = index
        BY <1>7, TaskMoves
    <2>1. \/ record' = record
          \/ i \in Id /\ \E r : record' = Put(record, i, r) /\ r.name = Stored(i).name
        <3>1. i \in Id => [Stored(i) EXCEPT !.enabled = FALSE].name = Stored(i).name
            BY StoredType DEF Record
        <3> QED BY <1>7, <3>1, TaskMoves DEF Touch
    <2> QED BY <1>a, <2>0, <2>1, NameKept
<1> QED BY <1>a, <1>1, <1>2, <1>3, <1>4, <1>5, <1>6, <1>7, NextCases

-----------------------------------------------------------------------------
(* Overlapping commands.                                                   *)

\* Only a command that begins, or that gets the id of a new mirror, has another id.
LEMMA StepOverlaps ==
    TypeOK /\ Stages /\ IdsUsed /\ TasksKnown /\ Overlaps /\ [Next]_vars
        => Overlaps'
<1> SUFFICES ASSUME TypeOK, Stages, IdsUsed, TasksKnown, Overlaps, [Next]_vars PROVE Overlaps'
    OBVIOUS
<1>0. Idle.id = NoId
    BY DEF Idle
<1>a. ASSUME \A d \in Client : cmd'[d].id = cmd[d].id \/ cmd'[d].id = NoId,
             disturbed \subseteq disturbed', task' = task
      PROVE  Overlaps'
    BY <1>a DEF Overlaps, Disabling
<1>1. CASE UNCHANGED vars
    BY <1>1 DEF vars, historyVars, Overlaps, Disabling
<1>2. ASSUME NEW c \in Client, task' = task, Starts(c) PROVE Overlaps'
    <2>1. /\ \A d \in Client \ {c} : cmd'[d] = cmd[d]
          /\ disturbed \subseteq disturbed'
          /\ \/ cmd'[c].id = NoId
             \/ disturbed' = IF \/ Disabling(cmd'[c].id)
                                \/ \E d \in Client \ {c} : cmd[d].id = cmd'[c].id
                             THEN disturbed \cup {cmd'[c].id} ELSE disturbed
        BY <1>2, BeginMoves
    <2>2. \A i : Disabling(i)' <=> Disabling(i)
        BY <1>2 DEF Disabling
    <2>3. cmd'[c].id # NoId =>
             /\ \A d \in Client \ {c} : cmd'[d].id = cmd'[c].id => cmd'[c].id \in disturbed'
             /\ Disabling(cmd'[c].id) => cmd'[c].id \in disturbed'
        BY <2>1
    <2> QED BY <2>1, <2>2, <2>3 DEF Overlaps
<1>3. ASSUME NEW c \in Client, task' = task, Reads(c) PROVE Overlaps'
    BY <1>0, <1>a, <1>3, ReadMoves DEF historyVars
<1>4. ASSUME NEW c \in Client, task' = task, Writes(c) PROVE Overlaps'
    BY <1>0, <1>a, <1>4, WriteMoves DEF historyVars
<1>5. ASSUME NEW c \in Client, task' = task, NewId(c) PROVE Overlaps'
    <2>1. /\ \A d \in Client \ {c} : cmd'[d] = cmd[d]
          /\ cmd'[c].id = lastMid + 1 /\ disturbed' = disturbed
        BY <1>5, IncrMoves DEF historyVars
    <2>2. lastMid \in Nat
        BY AdminAssumption DEF TypeOK
    <2>3. \A d \in Client : cmd[d].id # lastMid + 1
        <3>1. ASSUME NEW d \in Client, cmd[d].id = lastMid + 1 PROVE FALSE
            <4>1. cmd[d].id <= lastMid
                BY DEF IdsUsed
            <4> QED BY <2>2, <3>1, <4>1
        <3> QED BY <3>1
    <2>4. ~Disabling(lastMid + 1)
        <3>1. \A g \in Goroutine : task[g].id # lastMid + 1
            <4>1. lastMid + 1 # NoId /\ lastMid + 1 \notin 1..lastMid
                BY <2>2 DEF NoId
            <4> QED BY <4>1 DEF TasksKnown, IdsUsed
        <3> QED BY <3>1 DEF Disabling
    <2>5. \A i : Disabling(i)' <=> Disabling(i)
        BY <1>5 DEF Disabling
    <2> QED BY <2>1, <2>3, <2>4, <2>5 DEF Overlaps
<1>6. ASSUME NEW c \in Client, task' = task, Save(c) PROVE Overlaps'
    BY <1>a, <1>6, SaveMoves
<1>7. ASSUME NEW c \in Client, task' = task, PushLog(c) \/ LogLost(c) PROVE Overlaps'
    <2>1. disturbed \subseteq disturbed'
        BY <1>7 DEF PushLog, LogLost, historyVars
    <2> QED BY <1>0, <1>a, <1>7, <2>1, LogMoves
<1>8. ASSUME NEW c \in Client, task' = task, RemoveMirror(c) \/ Fails(c) PROVE Overlaps'
    <2>1. disturbed \subseteq disturbed' /\ End(c)
        BY <1>8 DEF RemoveMirror, Fails, historyVars
    <2> QED BY <1>0, <1>a, <1>8, <2>1, Moves
<1>9. ASSUME NEW g \in Goroutine, TaskNext(g), cmd' = cmd PROVE Overlaps'
    <2>1. disturbed \subseteq disturbed' /\ \A h \in Goroutine \ {g} : task'[h] = task[h]
        BY <1>9, TaskMoves
    <2>2. \/ task'[g].entry # "disabled"
          \/ /\ task'[g].id = task[g].id
             /\ \A c \in Client : cmd[c].id = task[g].id => cmd[c].id \in disturbed'
        BY <1>9, TaskMoves
    <2>3. ASSUME NEW c \in Client, cmd[c].id # NoId, Disabling(cmd[c].id)'
          PROVE  cmd[c].id \in disturbed'
        <3>1. PICK h \in Goroutine : task'[h].id = cmd[c].id /\ task'[h].entry = "disabled"
            BY <1>9, <2>3 DEF Disabling
        <3>2. CASE h = g
            BY <2>2, <3>1, <3>2
        <3>3. CASE h # g
            BY <2>1, <2>3, <3>1, <3>3 DEF Overlaps, Disabling
        <3> QED BY <3>2, <3>3
    <2> QED BY <1>9, <2>1, <2>3 DEF Overlaps
<1> QED BY <1>1, <1>2, <1>3, <1>4, <1>5, <1>6, <1>7, <1>8, <1>9, NextCases

-----------------------------------------------------------------------------
(* The logs.                                                               *)

\* What the log tells after an entry is pushed: that entry, unless it is one of the
\* monitor or of a scan.
LEMMA TellsAppend ==
    ASSUME NEW i \in Id, NEW e \in Entry, NEW x \in Entry \ Monitored,
           logs[i] \in Seq(Entry), logs'[i] = Append(logs[i], e), Tells(i, x)'
    PROVE  IF e \in Monitored THEN Tells(i, x) ELSE x = e
<1> DEFINE n == Len(logs[i])
<1>1. /\ n \in Nat /\ Len(logs'[i]) = n + 1 /\ logs'[i][n + 1] = e
      /\ \A k \in 1..n : logs'[i][k] = logs[i][k]
    OBVIOUS
<1>2. PICK k \in 1..(n + 1) :
         logs'[i][k] = x /\ \A l \in (k + 1)..(n + 1) : logs'[i][l] \in Monitored
    BY <1>1 DEF Tells
<1>3. CASE e \in Monitored
    <2>1. k \in 1..n
        BY <1>1, <1>2, <1>3
    <2>2. logs[i][k] = x /\ \A l \in (k + 1)..n : logs[i][l] \in Monitored
        BY <1>1, <1>2, <2>1
    <2> QED BY <1>3, <2>1, <2>2 DEF Tells
<1>4. CASE e \notin Monitored
    <2>1. k = n + 1
        BY <1>1, <1>2, <1>4
    <2> QED BY <1>1, <1>2, <1>4, <2>1
<1> QED BY <1>3, <1>4

\* How the log begins, and what it holds, after an entry is pushed.
LEMMA BeganAppend ==
    ASSUME NEW i \in Id, NEW e \in Entry,
           logs[i] \in Seq(Entry), logs'[i] = Append(logs[i], e)
    PROVE  /\ Began(i) => Began(i)'
           /\ Only(i, Monitored) /\ e = "added" => Began(i)'
           /\ \A E : Only(i, E) /\ e \in E => Only(i, E)'
<1> DEFINE n == Len(logs[i])
<1>1. /\ n \in Nat /\ Len(logs'[i]) = n + 1 /\ logs'[i][n + 1] = e
      /\ \A k \in 1..n : logs'[i][k] = logs[i][k]
    OBVIOUS
<1>2. ASSUME Began(i) PROVE Began(i)'
    <2>1. PICK k \in 1..n : logs[i][k] = "added" /\ \A l \in 1..(k - 1) : logs[i][l] \in Monitored
        BY <1>2 DEF Began
    <2>2. k \in 1..(n + 1) /\ logs'[i][k] = "added"
        BY <1>1, <2>1
    <2>3. \A l \in 1..(k - 1) : logs'[i][l] \in Monitored
        BY <1>1, <2>1
    <2> QED BY <1>1, <2>2, <2>3 DEF Began
<1>3. ASSUME Only(i, Monitored), e = "added" PROVE Began(i)'
    <2>1. n + 1 \in 1..(n + 1) /\ \A l \in 1..((n + 1) - 1) : l \in 1..n
        BY <1>1
    <2>2. \A l \in 1..((n + 1) - 1) : logs'[i][l] \in Monitored
        BY <1>1, <1>3, <2>1 DEF Only
    <2> QED BY <1>1, <1>3, <2>1, <2>2 DEF Began
<1>4. ASSUME NEW E, Only(i, E), e \in E PROVE Only(i, E)'
    <2>1. ASSUME NEW k \in 1..(n + 1) PROVE logs'[i][k] \in E
        <3>1. k \in 1..n \/ k = n + 1
            BY <1>1
        <3> QED BY <1>1, <1>4, <3>1 DEF Only
    <2> QED BY <1>1, <2>1 DEF Only
<1> QED BY <1>2, <1>3, <1>4

\* A mirror that a step does not touch, and whose commands it leaves where they are.
SameMirror(i) ==
    /\ i \in Listed' <=> i \in Listed
    /\ i \in late' <=> i \in late
    /\ i \in DOMAIN record' <=> i \in DOMAIN record
    /\ i \in DOMAIN record => record'[i] = record[i]
    /\ logs'[i] = logs[i]
    /\ Disabling(i)' <=> Disabling(i)

SameWork(d) ==
    /\ cmd'[d].at = cmd[d].at /\ cmd'[d].id = cmd[d].id
    /\ cmd'[d].mirror = cmd[d].mirror /\ cmd'[d].entry = cmd[d].entry

LEMMA SameFacts ==
    ASSUME NamesAgree, NEW i, SameMirror(i)
    PROVE  /\ Fresh(i)' <=> Fresh(i)
           /\ Started(i)' <=> Started(i)
           /\ Truthful(i)' <=> Truthful(i)
           /\ Settled(i)' <=> Settled(i)
           /\ \A E : Only(i, E)' <=> Only(i, E)
<1>1. i \in Listed => record'[i] = record[i]
    BY DEF NamesAgree, SameMirror
<1>2. \A e : Tells(i, e)' <=> Tells(i, e)
    BY DEF SameMirror, Tells
<1>3. Started(i)' <=> Started(i)
    BY DEF SameMirror, Started, Began
<1>4. Fresh(i)' <=> Fresh(i)
    BY DEF SameMirror, Fresh
<1>5. \A E : Only(i, E)' <=> Only(i, E)
    BY DEF SameMirror, Only
<1>6. Gone(i)' <=> Gone(i)
    BY <1>5 DEF SameMirror, Gone, Monitored
<1>7. Truthful(i)' <=> Truthful(i)
    BY <1>1, <1>2, <1>3 DEF Truthful, Started
<1>8. Settled(i)' <=> Settled(i)
    BY <1>1, <1>3, <1>6, <1>7 DEF Settled, SameMirror, Started
<1> QED BY <1>3, <1>4, <1>5, <1>7, <1>8

LEMMA Untouched ==
    ASSUME NamesAgree, NEW i \in Id, MirrorOK(i), SameMirror(i),
           \A d \in Client : (cmd[d].id = i \/ cmd'[d].id = i) => SameWork(d)
    PROVE  MirrorOK(i)'
<1>1. \A d \in Client : cmd'[d].id = i <=> cmd[d].id = i
    BY DEF SameWork
<1>2. (\A c \in Client : cmd'[c].id # i) => Settled(i)'
    BY <1>1, SameFacts DEF MirrorOK
<1>3. ASSUME NEW c \in Client, cmd'[c].id = i PROVE Working(cmd[c])'
    <2>1. SameWork(c) /\ cmd[c].id = i /\ Working(cmd[c])
        BY <1>1, <1>3 DEF MirrorOK
    <2>2. LeavesLog(cmd[c])' <=> LeavesLog(cmd[c])
        BY <2>1 DEF LeavesLog, SameWork
    <2>3. /\ Fresh(i)' <=> Fresh(i)
          /\ Started(i)' <=> Started(i)
          /\ Truthful(i)' <=> Truthful(i)
          /\ Only(i, Monitored)' <=> Only(i, Monitored)
        BY SameFacts DEF Monitored
    <2>4. i \in Listed => record'[i] = record[i]
        BY DEF NamesAgree, SameMirror
    <2> QED BY <1>3, <2>1, <2>2, <2>3, <2>4 DEF Working, Started, SameWork, SameMirror
<1> QED BY <1>2, <1>3 DEF MirrorOK

\* A log that tells the truth is settled once no task is about to write to it.
LEMMA TruthSettles ==
    ASSUME NEW i, Truthful(i)', ~Disabling(i)' PROVE Settled(i)'
BY DEF Settled, Truthful

\* The mirror of the only command that works on it is as it should be if that
\* command is as it should be, or has ended and left it settled.
LEMMA OnlyOne ==
    ASSUME NEW c \in Client, NEW i \in Id,
           \A d \in Client \ {c} : cmd'[d].id # i,
           cmd'[c].id = i => Working(cmd[c])',
           cmd'[c].id # i => Settled(i)'
    PROVE  MirrorOK(i)'
BY DEF MirrorOK

\* A command on an undisturbed mirror is the only one.
LEMMA Sole ==
    ASSUME Overlaps, NEW c \in Client, cmd[c].id # NoId, cmd[c].id \notin disturbed
    PROVE  ~Disabling(cmd[c].id) /\ \A d \in Client \ {c} : cmd[d].id # cmd[c].id
BY DEF Overlaps

LEMMA StepUndisturbed ==
    ASSUME TypeOK, Stages, IdsUsed, TasksKnown, NamesAgree, Overlaps, Undisturbed, Next
    PROVE  Undisturbed'
<1> SUFFICES ASSUME NEW i \in Id, i \notin disturbed' PROVE MirrorOK(i)'
    BY DEF Undisturbed
<1>0. i # NoId /\ Idle.id = NoId /\ Idle.at = "idle"
    BY DEF Idle, Id, NoId
<1>s. task' = task => (Disabling(i)' <=> Disabling(i))
    BY DEF Disabling
<1>1. ASSUME NEW c \in Client, task' = task, Starts(c) PROVE MirrorOK(i)'
    <2>1. /\ cmd[c].at = "idle" /\ UNCHANGED <<dbVars, late>> /\ i \notin disturbed
          /\ \A d \in Client \ {c} : cmd'[d] = cmd[d]
          /\ cmd'[c].at \notin {"idle", "incr", "save", "log", "delete"}
        BY <1>1, BeginMoves DEF dbVars
    <2>2. cmd[c].id = NoId
        BY <2>1 DEF Stages, StageOK
    <2>3. SameMirror(i) /\ MirrorOK(i)
        BY <1>s, <1>1, <2>1 DEF SameMirror, dbVars, Listed, Undisturbed
    <2>4. CASE cmd'[c].id # i
        BY <1>0, <2>1, <2>2, <2>3, <2>4, Untouched DEF SameWork
    <2>5. CASE cmd'[c].id = i
        <3>1. i \in Listed /\ ~Disabling(i) /\ \A d \in Client \ {c} : cmd[d].id # i
            BY <1>0, <1>1, <2>1, <2>5, BeginMoves
        <3>2. Truthful(i)
            BY <1>0, <2>2, <2>3, <3>1 DEF MirrorOK, Settled, Gone
        <3>3. Truthful(i)'
            BY <2>3, <3>2, SameFacts
        <3>4. Working(cmd[c])'
            BY <2>1, <2>5, <3>3 DEF Working
        <3> QED BY <2>1, <2>5, <3>1, <3>4, OnlyOne
    <2> QED BY <2>4, <2>5
<1>2. ASSUME NEW c \in Client, task' = task, Reads(c) PROVE MirrorOK(i)'
    <2>1. /\ UNCHANGED <<dbVars, late>> /\ disturbed' = disturbed
          /\ \A d \in Client \ {c} : cmd'[d] = cmd[d]
          /\ cmd[c].at \notin {"idle", "incr", "save", "log", "delete"}
          /\ cmd'[c].id = cmd[c].id \/ cmd'[c] = Idle
          /\ cmd'[c].at # "delete" /\ (cmd'[c].at = "log" => cmd'[c].entry = "error")
        BY <1>2, ReadMoves DEF dbVars, historyVars
    <2>2. SameMirror(i) /\ MirrorOK(i)
        BY <1>s, <1>2, <2>1 DEF SameMirror, dbVars, Listed, Undisturbed
    <2>3. CASE cmd[c].id # i
        BY <1>0, <2>1, <2>2, <2>3, Untouched DEF SameWork
    <2>4. CASE cmd[c].id = i
        <3>1. ~Disabling(i)' /\ \A d \in Client \ {c} : cmd'[d].id # i
            BY <1>0, <1>s, <1>2, <2>1, <2>4, Sole
        <3>2. Truthful(i)
            BY <2>1, <2>2, <2>4 DEF MirrorOK, Working, LeavesLog
        <3>3. Truthful(i)'
            BY <2>2, <3>2, SameFacts
        <3>4. cmd'[c].at = "save" => cmd'[c].entry = "edited"
            BY <1>2, <2>4, <3>2, ReadMoves DEF Truthful, Started
        <3>5. cmd'[c].id = i => Working(cmd[c])'
            BY <2>1, <3>3, <3>4 DEF Working
        <3> QED BY <3>1, <3>3, <3>5, OnlyOne, TruthSettles
    <2> QED BY <2>3, <2>4
<1>3. ASSUME NEW c \in Client, task' = task, Writes(c) PROVE MirrorOK(i)'
    <2> DEFINE j == cmd[c].id
    <2>1. /\ UNCHANGED <<index, logs, late>> /\ disturbed' = disturbed
          /\ \A d \in Client \ {c} : cmd'[d] = cmd[d]
          /\ cmd[c].at \notin {"idle", "check", "incr", "save", "log", "delete"}
          /\ cmd'[c].at \notin {"incr", "save", "delete"}
          /\ cmd'[c].id = j \/ cmd'[c] = Idle
          /\ \/ /\ record' = Put(record, j, Stored(j))
                /\ cmd'[c].at = "log" => cmd'[c].entry = "error"
             \/ \E e \in BOOLEAN :
                   /\ record' = Put(record, j, [Stored(j) EXCEPT !.enabled = e])
                   /\ cmd'[c].at = "log" /\ cmd'[c].id = j
                   /\ cmd'[c].entry = IF e THEN "enabled" ELSE "disabled"
        BY <1>3, WriteMoves DEF historyVars
    <2>2. MirrorOK(i)
        BY <2>1 DEF Undisturbed
    <2>3. i # j => SameMirror(i)
        BY <1>s, <1>3, <2>1 DEF Put, SameMirror, Listed
    <2>4. CASE j # i
        BY <1>0, <2>1, <2>2, <2>3, <2>4, Untouched DEF SameWork
    <2>5. CASE j = i
        <3>1. ~Disabling(i)' /\ \A d \in Client \ {c} : cmd'[d].id # i
            BY <1>0, <1>s, <1>3, <2>1, <2>5, Sole
        <3>2. Truthful(i)
            BY <2>1, <2>2, <2>5 DEF MirrorOK, Working, LeavesLog
        <3>3. i \in Listed /\ i \in DOMAIN record /\ Stored(i) = record[i] /\ record[i] \in Record
            BY <3>2 DEF Truthful, Started, NamesAgree, Stored, TypeOK
        <3>4. CASE /\ record' = Put(record, i, record[i])
                   /\ cmd'[c].at = "log" => cmd'[c].entry = "error"
            <4>1. SameMirror(i)
                BY <1>s, <1>3, <2>1, <3>3, <3>4 DEF Put, SameMirror, Listed
            <4>2. Truthful(i)'
                BY <3>2, <4>1, SameFacts
            <4>3. Working(cmd[c])' \/ cmd'[c] = Idle
                BY <2>1, <2>5, <3>4, <4>2 DEF Working
            <4> QED BY <1>0, <3>1, <4>2, <4>3, OnlyOne, TruthSettles
        <3>5. ASSUME NEW e \in BOOLEAN,
                     record' = Put(record, i, [record[i] EXCEPT !.enabled = e]),
                     cmd'[c].at = "log", cmd'[c].id = i,
                     cmd'[c].entry = IF e THEN "enabled" ELSE "disabled"
              PROVE  MirrorOK(i)'
            <4>1. record'[i] = [record[i] EXCEPT !.enabled = e]
                BY <3>5 DEF Put
            <4>2. record'[i].enabled = e
                BY <3>3, <4>1 DEF Record
            <4>3. Started(i)'
                BY <2>1, <3>2 DEF Truthful, Started, Began, Listed
            <4>4. Working(cmd[c])'
                BY <3>5, <4>2, <4>3 DEF Working, LeavesLog
            <4> QED BY <3>1, <3>5, <4>4, OnlyOne
        <3> QED BY <2>1, <2>5, <3>3, <3>4, <3>5
    <2> QED BY <2>4, <2>5
<1>4. ASSUME NEW c \in Client, task' = task, NewId(c) PROVE MirrorOK(i)'
    <2>1. /\ UNCHANGED <<index, record, logs, late>> /\ disturbed' = disturbed
          /\ \A d \in Client \ {c} : cmd'[d] = cmd[d]
          /\ cmd[c].id = NoId /\ cmd'[c].id = lastMid + 1
          /\ cmd'[c].at = "save" /\ cmd'[c].entry = "added" /\ ~cmd'[c].mirror.enabled
        BY <1>4, IncrMoves DEF historyVars
    <2>2. MirrorOK(i) /\ SameMirror(i)
        BY <1>s, <1>4, <2>1 DEF Undisturbed, SameMirror, Listed
    <2>3. CASE i # lastMid + 1
        BY <1>0, <2>1, <2>2, <2>3, Untouched DEF SameWork
    <2>4. CASE i = lastMid + 1
        <3>0. lastMid \in Nat
            BY AdminAssumption DEF TypeOK
        <3>1. Fresh(i)
            BY <2>4, <3>0 DEF IdsUsed, Fresh
        <3>2. ASSUME NEW d \in Client, cmd[d].id = i PROVE FALSE
            <4>1. cmd[d].id <= lastMid
                BY DEF IdsUsed
            <4> QED BY <2>4, <3>0, <3>2, <4>1
        <3>3. Fresh(i)'
            BY <2>2, <3>1, SameFacts
        <3>4. Working(cmd[c])'
            BY <2>1, <2>4, <3>3 DEF Working, LeavesLog
        <3> QED BY <2>1, <2>4, <3>2, <3>4, OnlyOne
    <2> QED BY <2>3, <2>4
<1>5. ASSUME NEW c \in Client, task' = task, Save(c) PROVE MirrorOK(i)'
    <2> DEFINE j == cmd[c].id
    <2>1. /\ cmd[c].at = "save" /\ cmd[c].entry \in {"added", "edited"} /\ j \in Id
          /\ cmd'[c].at = "log" /\ cmd'[c].id = j /\ cmd'[c].entry = cmd[c].entry
          /\ \A d \in Client \ {c} : SameWork(d)
          /\ record' = Put(record, j, cmd[c].mirror)
          /\ index' = Put(index, j, cmd[c].mirror.name)
          /\ logs' = logs /\ disturbed' = disturbed /\ late' = late
        BY <1>5, SaveMoves DEF SameWork
    <2>2. MirrorOK(i)
        BY <2>1 DEF Undisturbed
    <2>3. CASE j # i
        <3>1. SameMirror(i)
            BY <1>s, <1>5, <2>1, <2>3 DEF Put, SameMirror, Listed
        <3> QED BY <2>1, <2>2, <2>3, <3>1, Untouched
    <2>4. CASE j = i
        <3>1. \A d \in Client \ {c} : cmd'[d].id # i
            BY <1>0, <2>1, <2>4, Sole DEF SameWork
        <3>2. i \in Listed' /\ record'[i] = cmd[c].mirror
            BY <2>1, <2>4 DEF Put, Listed
        <3>3. Working(cmd[c])
            BY <2>2, <2>4 DEF MirrorOK
        <3>4. CASE cmd[c].entry = "added"
            <4>1. Fresh(i) /\ ~cmd[c].mirror.enabled
                BY <2>1, <2>4, <3>3, <3>4 DEF Working
            <4>2. Only(i, Monitored)'
                BY <2>1, <4>1 DEF Only, Fresh
            <4>3. Working(cmd[c])'
                BY <2>1, <2>4, <3>2, <3>4, <4>1, <4>2 DEF Working, LeavesLog
            <4> QED BY <2>1, <2>4, <3>1, <4>3, OnlyOne
        <3>5. CASE cmd[c].entry = "edited"
            <4>1. Truthful(i)
                BY <2>1, <2>4, <3>3, <3>5 DEF Working, LeavesLog
            <4>2. Started(i)'
                BY <2>1, <3>2, <4>1 DEF Truthful, Started, Began
            <4>3. Working(cmd[c])'
                BY <2>1, <2>4, <3>5, <4>2 DEF Working, LeavesLog
            <4> QED BY <2>1, <2>4, <3>1, <4>3, OnlyOne
        <3> QED BY <2>1, <3>4, <3>5
    <2> QED BY <2>3, <2>4
<1>6. ASSUME NEW c \in Client, task' = task, PushLog(c) PROVE MirrorOK(i)'
    <2> DEFINE j == cmd[c].id
    <2>1. /\ cmd[c].at = "log" /\ j \in Id /\ cmd[c].entry \in Entry \ {"state"}
          /\ cmd'[c] = Idle \/ (cmd'[c].at \in {"delete", "status"} /\ cmd'[c].id = j)
          /\ \A d \in Client \ {c} : cmd'[d] = cmd[d]
        BY <1>6, LogMoves
    <2>2. /\ logs' = [logs EXCEPT ![j] = Append(@, cmd[c].entry)]
          /\ UNCHANGED <<index, record, late>> /\ disturbed' = disturbed
        BY <1>6 DEF PushLog, historyVars
    <2>3. MirrorOK(i) /\ logs[i] \in Seq(Entry)
        BY <2>2 DEF Undisturbed, TypeOK
    <2>4. CASE j # i
        <3>1. SameMirror(i)
            BY <1>s, <1>6, <2>2, <2>4 DEF SameMirror, Listed, TypeOK
        <3> QED BY <1>0, <2>1, <2>3, <2>4, <3>1, Untouched DEF SameWork
    <2>5. CASE j = i
        <3>1. ~Disabling(i)' /\ \A d \in Client \ {c} : cmd'[d].id # i
            BY <1>0, <1>s, <1>6, <2>1, <2>2, <2>5, Sole
        <3>2. Working(cmd[c])
            BY <2>3, <2>5 DEF MirrorOK
        <3>3. logs'[i] = Append(logs[i], cmd[c].entry)
            BY <2>2, <2>5 DEF TypeOK
        <3>5. Started(i)'
            <4>1. /\ i \in Listed
                  /\ \/ Only(i, Monitored) /\ cmd[c].entry = "added"
                     \/ Began(i)
                <5>1. CASE cmd[c].entry = "added"
                    BY <2>1, <2>5, <3>2, <5>1 DEF Working
                <5>2. CASE cmd[c].entry \in {"edited", "enabled", "disabled"}
                    BY <2>1, <2>5, <3>2, <5>2 DEF Working, Started
                <5>3. CASE cmd[c].entry = "error"
                    BY <2>1, <2>5, <3>2, <5>3 DEF Working, LeavesLog, Truthful, Started
                <5> QED BY <2>1, <5>1, <5>2, <5>3 DEF Entry
            <4>2. Began(i)'
                BY <2>1, <2>3, <3>3, <4>1, BeganAppend
            <4> QED BY <2>2, <4>1, <4>2 DEF Started, Listed
        <3>6. ASSUME NEW x \in {"added", "enabled", "disabled"}, Tells(i, x)'
              PROVE  IF x = "enabled" THEN record'[i].enabled ELSE ~record'[i].enabled
            <4>0. x \in Entry \ Monitored /\ (cmd[c].entry \in Monitored => cmd[c].entry = "error")
                BY <2>1 DEF Entry, Monitored
            <4>1. IF cmd[c].entry \in Monitored THEN Tells(i, x) ELSE x = cmd[c].entry
                BY <2>1, <2>3, <3>3, <3>6, <4>0, TellsAppend
            <4>2. CASE cmd[c].entry = "error"
                <5>1. Truthful(i)
                    BY <2>1, <2>5, <3>2, <4>2 DEF Working, LeavesLog
                <5> QED BY <2>2, <4>1, <4>2, <5>1 DEF Truthful, Monitored
            <4>3. CASE cmd[c].entry # "error"
                <5>1. x = cmd[c].entry
                    BY <4>0, <4>1, <4>3
                <5> QED BY <2>1, <2>2, <2>5, <3>2, <5>1 DEF Working
            <4> QED BY <4>2, <4>3
        <3>7. Truthful(i)'
            BY <3>5, <3>6 DEF Truthful
        <3>8. cmd'[c].id = i => Working(cmd[c])'
            BY <1>0, <2>1, <3>7 DEF Working, LeavesLog
        <3> QED BY <3>1, <3>7, <3>8, OnlyOne, TruthSettles
    <2> QED BY <2>4, <2>5
<1>7. ASSUME NEW c \in Client, task' = task, RemoveMirror(c) PROVE MirrorOK(i)'
    <2> DEFINE j == cmd[c].id
    <2>1. /\ record' = Restrict(record, DOMAIN record \ {j})
          /\ index' = Restrict(index, Listed \ {j})
          /\ logs' = [logs EXCEPT ![j] = <<>>]
          /\ disturbed' = disturbed /\ cmd[c].at = "delete"
          /\ late' = IF \E g \in Goroutine : task[g].id = j THEN late \cup {j} ELSE late
        BY <1>7 DEF RemoveMirror
    <2>2. cmd'[c] = Idle /\ \A d \in Client \ {c} : cmd'[d] = cmd[d]
        BY <1>7, Moves DEF RemoveMirror
    <2>3. MirrorOK(i)
        BY <2>1 DEF Undisturbed
    <2>4. CASE j # i
        <3>1. SameMirror(i)
            BY <1>s, <1>7, <2>1, <2>4 DEF Restrict, SameMirror, Listed, TypeOK
        <3> QED BY <1>0, <2>2, <2>3, <2>4, <3>1, Untouched DEF SameWork
    <2>5. CASE j = i
        <3>1. \A d \in Client \ {c} : cmd'[d].id # i
            BY <1>0, <2>1, <2>2, <2>5, Sole
        <3>2. i \notin Listed' /\ i \notin DOMAIN record' /\ logs'[i] = <<>>
            BY <2>1, <2>5 DEF Restrict, Listed, TypeOK
        <3>3. Gone(i)'
            BY <3>2 DEF Gone, Only
        <3> QED BY <1>0, <2>2, <3>1, <3>3, OnlyOne DEF Settled
    <2> QED BY <2>4, <2>5
<1>8. ASSUME NEW c \in Client, task' = task, LogLost(c) \/ Fails(c) PROVE MirrorOK(i)'
    <2>1. /\ UNCHANGED <<dbVars, late>> /\ disturbed \subseteq disturbed'
          /\ cmd[c].id # i
        BY <1>0, <1>8 DEF LogLost, Fails
    <2>2. /\ \A d \in Client \ {c} : cmd'[d] = cmd[d]
          /\ cmd'[c] = Idle \/ cmd'[c].id = cmd[c].id
        BY <1>8, LogMoves, Moves DEF Fails
    <2>3. MirrorOK(i) /\ SameMirror(i)
        BY <1>s, <1>8, <2>1 DEF Undisturbed, SameMirror, Listed, dbVars
    <2> QED BY <1>0, <2>1, <2>2, <2>3, Untouched DEF SameWork
<1>9. ASSUME NEW g \in Goroutine, cmd' = cmd, TaskNext(g) PROVE MirrorOK(i)'
    <2> DEFINE j == task[g].id
    <2>1. /\ UNCHANGED <<index, late>> /\ disturbed \subseteq disturbed'
          /\ \A h \in Goroutine \ {g} : task'[h] = task[h]
        BY <1>9, TaskMoves
    <2>2. MirrorOK(i) /\ logs[i] \in Seq(Entry) /\ NamesAgree
        BY <2>1 DEF Undisturbed, TypeOK
    <2>3. \A d \in Client : SameWork(d)
        BY <1>9 DEF SameWork
    <2>4. ASSUME SameMirror(i) PROVE MirrorOK(i)'
        BY <2>2, <2>3, <2>4, Untouched
    <2>5. ASSUME j = i
          PROVE  /\ i \in Listed \/ (i \in late /\ ~Fresh(i))
                 /\ i \notin Listed =>
                       /\ i \notin Listed' /\ i \in late'
                       /\ \A c \in Client : cmd[c].id = i => cmd[c].at = "delete"
                       /\ (\A c \in Client : cmd[c].id # i) => Gone(i)
        <3>1. i \in Listed \/ (i \in late /\ ~Fresh(i))
            BY <1>0, <2>5 DEF TasksKnown, Fresh
        <3>2. ASSUME i \notin Listed, NEW c \in Client, cmd[c].id = i
              PROVE  cmd[c].at = "delete"
            <4>1. Working(cmd[c]) /\ StageOK(cmd[c]) /\ cmd[c].id # NoId
                BY <1>0, <2>2, <3>2 DEF MirrorOK, Stages
            <4>2. ~LeavesLog(cmd[c])
                BY <3>2, <4>1 DEF Working, Truthful, Started
            <4>3. cmd[c].at # "save"
                BY <3>1, <3>2, <4>1, <4>2 DEF Working, LeavesLog, StageOK
            <4>4. cmd[c].at # "log"
                BY <3>2, <4>1, <4>2 DEF Working, LeavesLog, StageOK, Started, Entry
            <4> QED BY <4>2, <4>3, <4>4 DEF LeavesLog
        <3>3. i \notin Listed => ((\A c \in Client : cmd[c].id # i) => Gone(i))
            BY <2>2 DEF MirrorOK, Settled, Started
        <3> QED BY <2>1, <3>1, <3>2, <3>3 DEF Listed
    \* A mirror that was removed: its log gets entries of the monitor only.
    <2>6. ASSUME j = i, i \notin Listed, Only(i, Monitored \cup {"disabled"})' \/ logs'[i] = logs[i]
          PROVE  MirrorOK(i)'
        <3>1. Gone(i) => Gone(i)'
            BY <2>5, <2>6 DEF Gone, Only
        <3>2. \A c \in Client : cmd'[c].id = i => Working(cmd[c])'
            BY <1>9, <2>5, <2>6 DEF Working, LeavesLog
        <3> QED BY <1>9, <2>5, <2>6, <3>1, <3>2 DEF MirrorOK, Settled
    <2>7. ASSUME task'[g].entry # "disabled", j # i \/ task[g].entry # "disabled"
          PROVE  Disabling(i)' <=> Disabling(i)
        BY <2>1, <2>7 DEF Disabling
    <2>8. CASE /\ UNCHANGED <<record, logs>> /\ task'[g].entry # "disabled"
               /\ disturbed' = IF task[g].entry = "disabled"
                               THEN disturbed \cup {j} ELSE disturbed
        <3>1. Disabling(i)' <=> Disabling(i)
            BY <2>7, <2>8
        <3> QED BY <2>1, <2>4, <2>8, <3>1 DEF SameMirror, Listed
    <2>9. CASE /\ Touch(j) /\ UNCHANGED <<logs, disturbed>> /\ j \in Id
               /\ task[g].entry # "disabled" /\ task'[g].entry # "disabled"
        <3>1. Disabling(i)' <=> Disabling(i)
            BY <2>7, <2>9
        <3>2. CASE j # i
            BY <2>1, <2>4, <2>9, <3>1, <3>2 DEF Touch, Put, SameMirror, Listed
        <3>3. CASE j = i /\ i \in Listed
            <4>1. i \in DOMAIN record /\ Stored(i) = record[i]
                BY <3>3 DEF NamesAgree, Stored
            <4> QED BY <2>1, <2>4, <2>9, <3>1, <3>3, <4>1 DEF Touch, Put, SameMirror, Listed
        <3>4. CASE j = i /\ i \notin Listed
            BY <2>6, <2>9, <3>4
        <3> QED BY <3>2, <3>3, <3>4
    <2>10. CASE /\ record' = Put(record, j, [Stored(j) EXCEPT !.enabled = FALSE])
                /\ logs' = logs /\ j \in Id /\ task'[g].id = j
                /\ task'[g].entry = "disabled"
                /\ disturbed' = IF \E c \in Client : cmd[c].id = j
                                THEN disturbed \cup {j} ELSE disturbed
        <3>1. CASE j # i
            <4>1. Disabling(i)' <=> Disabling(i)
                BY <2>1, <2>10, <3>1 DEF Disabling
            <4> QED BY <2>1, <2>4, <2>10, <3>1, <4>1 DEF Put, SameMirror, Listed
        <3>2. CASE j = i /\ i \in Listed
            <4>1. \A c \in Client : cmd[c].id # i
                BY <2>10, <3>2
            <4>2. Started(i)
                BY <2>2, <3>2, <4>1 DEF MirrorOK, Settled, Gone
            <4>3. Started(i)'
                BY <2>1, <2>10, <4>2 DEF Started, Began, Listed
            <4>4. i \in DOMAIN record /\ Stored(i) \in Record
                BY <3>2, StoredType DEF NamesAgree
            <4>5. ~record'[i].enabled
                BY <2>10, <3>2, <4>4 DEF Put, Record
            <4>6. Disabling(i)'
                BY <2>10, <3>2 DEF Disabling
            <4> QED BY <1>9, <4>1, <4>3, <4>5, <4>6 DEF MirrorOK, Settled
        <3>3. CASE j = i /\ i \notin Listed
            BY <2>6, <2>10, <3>3
        <3> QED BY <3>1, <3>2, <3>3
    <2>11. CASE /\ logs' = [logs EXCEPT ![j] = Append(@, task[g].entry)]
                /\ UNCHANGED <<record, disturbed>> /\ j \in Id
                /\ task[g].entry \in {"state", "error", "disabled"}
                /\ task'[g].entry # "disabled"
        <3> DEFINE e == task[g].entry
        <3>1. CASE j # i
            <4>1. Disabling(i)' <=> Disabling(i)
                BY <2>7, <2>11, <3>1
            <4> QED BY <2>1, <2>4, <2>11, <3>1, <4>1 DEF SameMirror, Listed, TypeOK
        <3>2. j = i => logs'[i] = Append(logs[i], e) /\ e \in Entry
            BY <2>11 DEF TypeOK, Entry
        <3>3. CASE j = i /\ i \notin Listed
            <4>1. Only(i, Monitored \cup {"disabled"}) => Only(i, Monitored \cup {"disabled"})'
                <5>1. e \in Monitored \cup {"disabled"}
                    BY <2>11 DEF Monitored
                <5> QED BY <2>2, <3>2, <3>3, <5>1, BeganAppend DEF Monitored
            <4>2. Gone(i) => Gone(i)'
                BY <2>5, <3>3, <4>1 DEF Gone
            <4>3. \A c \in Client : cmd'[c].id = i => Working(cmd[c])'
                BY <1>9, <2>5, <3>3 DEF Working, LeavesLog
            <4> QED BY <1>9, <2>5, <3>3, <4>2, <4>3 DEF MirrorOK, Settled
        <3>4. CASE j = i /\ i \in Listed /\ e \in Monitored
            <4>1. Disabling(i)' <=> Disabling(i)
                BY <2>7, <2>11, <3>4 DEF Monitored
            <4>2. /\ Started(i) => Started(i)'
                  /\ Only(i, Monitored) => Only(i, Monitored)'
                BY <2>1, <2>2, <3>2, <3>4, BeganAppend DEF Started, Listed, Monitored
            <4>3. \A x \in {"added", "enabled", "disabled"} : Tells(i, x)' => Tells(i, x)
                <5>1. {"added", "enabled", "disabled"} \subseteq Entry \ Monitored
                    BY DEF Entry, Monitored
                <5> QED BY <2>2, <3>2, <3>4, <5>1, TellsAppend
            <4>4. Truthful(i) => Truthful(i)'
                BY <2>11, <4>2, <4>3 DEF Truthful
            <4>5. Settled(i) => Settled(i)'
                BY <2>11, <3>4, <4>1, <4>2, <4>4 DEF Settled, Gone
            <4>6. ASSUME NEW c \in Client, cmd[c].id = i PROVE Working(cmd[c])'
                <5>1. Working(cmd[c]) /\ cmd'[c] = cmd[c]
                    BY <1>9, <2>2, <4>6 DEF MirrorOK
                <5>2. ~Fresh(i) /\ i \in Listed'
                    BY <2>1, <3>4 DEF Fresh, Listed
                <5> QED BY <2>11, <4>2, <4>4, <4>6, <5>1, <5>2 DEF Working, LeavesLog
            <4> QED BY <1>9, <2>2, <4>5, <4>6 DEF MirrorOK
        <3>5. CASE j = i /\ i \in Listed /\ e = "disabled"
            <4>1. Disabling(i)
                BY <3>5 DEF Disabling
            <4>2. \A c \in Client : cmd[c].id # i
                BY <1>0, <2>11, <4>1 DEF Overlaps
            <4>3. Started(i) /\ ~record[i].enabled
                BY <2>2, <3>5, <4>1, <4>2 DEF MirrorOK, Settled, Gone
            <4>4. Started(i)' /\ ~record'[i].enabled
                BY <2>1, <2>2, <2>11, <3>2, <3>5, <4>3, BeganAppend DEF Started, Listed
            <4>5. \A x \in {"added", "enabled"} : ~Tells(i, x)'
                <5>1. {"added", "enabled"} \subseteq Entry \ Monitored /\ e \notin Monitored
                    BY <3>5 DEF Entry, Monitored
                <5>2. ASSUME NEW x \in {"added", "enabled"}, Tells(i, x)' PROVE FALSE
                    <6>1. x = e
                        BY <2>2, <3>2, <3>5, <5>1, <5>2, TellsAppend
                    <6> QED BY <3>5, <5>2, <6>1
                <5> QED BY <5>2
            <4>6. Truthful(i)'
                BY <4>4, <4>5 DEF Truthful
            <4> QED BY <1>9, <4>2, <4>4, <4>6 DEF MirrorOK, Settled
        <3> QED BY <2>11, <3>1, <3>3, <3>4, <3>5 DEF Monitored
    <2> QED BY <1>9, <2>8, <2>9, <2>10, <2>11, TaskMoves
<1> QED BY <1>1, <1>2, <1>3, <1>4, <1>5, <1>6, <1>7, <1>8, <1>9, NextCases

-----------------------------------------------------------------------------
(* The theorems.                                                           *)

LEMMA InitIInv == Init => IInv
<1> SUFFICES ASSUME Init PROVE IInv
    OBVIOUS
<1>1. TypeOK
    <2>1. logs \in [Id -> Seq(Entry)]
        BY DEF Init
    <2>2. cmd \in [Client -> Command]
        BY IdleOK DEF Init
    <2>3. DOMAIN index = {} /\ DOMAIN record = {}
        BY DEF Init
    <2>4. index \in [{} -> Name] /\ record \in [{} -> Record]
        BY DEF Init
    <2>5. /\ Listed \subseteq Id /\ index \in [Listed -> Name]
          /\ DOMAIN record \subseteq Id /\ record \in [DOMAIN record -> Record]
        BY <2>3, <2>4 DEF Listed
    <2>t. task \in [Goroutine -> Task]
        BY DEF Init, Rest, Task
    <2>6. lastMid \in 0..MaxId /\ commands \in 0..MaxCommand
        BY AdminAssumption DEF Init
    <2> QED BY <2>1, <2>2, <2>5, <2>t, <2>6 DEF Init, TypeOK
<1>2. \A c \in Client : cmd[c] = Idle /\ Idle.id = NoId /\ Idle.at = "idle"
    BY DEF Init, Idle
<1>g. \A g \in Goroutine : task[g].id = NoId /\ TaskOK(task[g])
    BY DEF Init, Rest, TaskOK
<1>3. Stages /\ Overlaps /\ TasksKnown
    BY <1>2, <1>g, IdleOK DEF Stages, Overlaps, TasksKnown
<1>4. IdsUsed /\ NamesAgree
    BY <1>2 DEF Init, IdsUsed, NamesAgree, Listed, NoId
<1>5. UniqueNames /\ NamesFree
    BY <1>2 DEF Init, UniqueNames, NamesFree, Listed
<1>6. Undisturbed
    BY <1>2 DEF Init, Undisturbed, MirrorOK, Settled, Gone, Only, Listed, Id, NoId
<1> QED BY <1>1, <1>3, <1>4, <1>5, <1>6 DEF IInv

LEMMA StepIInv == IInv /\ [Next]_vars => IInv'
<1> SUFFICES ASSUME IInv, [Next]_vars PROVE IInv'
    OBVIOUS
<1>1. Undisturbed'
    <2>1. CASE UNCHANGED vars
        BY <2>1 DEF vars, dbVars, historyVars, IInv, Undisturbed, MirrorOK, Settled, Gone,
                    Only, Fresh, Truthful, Started, Began, Tells, Working, LeavesLog,
                    Disabling, Listed
    <2> QED BY <2>1, StepUndisturbed DEF IInv
<1> QED BY <1>1, StepType, StepIds, StepKnown, StepNames, StepRecords, StepOverlaps DEF IInv

\* The inductive invariant holds in every reachable state.
THEOREM AdminInvariant == Spec => []IInv
BY InitIInv, StepIInv, PTL DEF Spec

\* The keys of the mirrors and the commands keep their types.
THEOREM AdminTypeCorrect == Spec => []TypeOK
<1>1. IInv => TypeOK
    BY DEF IInv
<1> QED BY <1>1, AdminInvariant, PTL

\* No two mirrors have the same name unless two setMirror overlapped between the
\* check of the name and the transaction (rpc.go setMirror), for any number of
\* terminals, mirrors, renames and removals.
THEOREM AdminUniqueNames == Spec => []UniqueNames
<1>1. IInv => UniqueNames
    BY DEF IInv
<1> QED BY <1>1, AdminInvariant, PTL

\* Whatever overlaps or fails, MIRRORS and the MIRROR_<id> hashes name the same
\* mirrors, and a new mirror finds neither a hash nor a log of an earlier one
\* (INCR LAST_MID never gives an id twice).
THEOREM AdminRecordsAgree == Spec => []RecordsAgree
<1>1. IInv => RecordsAgree
    <2> SUFFICES ASSUME IInv, NEW c \in Client, cmd[c].at = "save",
                        cmd[c].entry = "added", cmd[c].id \notin disturbed
                 PROVE  cmd[c].id \notin DOMAIN record /\ logs[cmd[c].id] = <<>>
        BY DEF IInv, NamesAgree, RecordsAgree
    <2>1. cmd[c] \in Command /\ cmd[c].id # NoId
        BY DEF IInv, TypeOK, Stages, StageOK
    <2>2. cmd[c].id \in Id
        BY <2>1 DEF Command
    <2>3. Working(cmd[c])
        BY <2>2 DEF IInv, Undisturbed, MirrorOK
    <2> QED BY <2>3 DEF Working, Fresh
<1> QED BY <1>1, AdminInvariant, PTL

\* The log of a mirror that no two commands worked on at once, and on which none
\* failed, begins with its addition and agrees with its hash on whether the mirror
\* is enabled, whatever checks and scans of the monitor write to them meanwhile
\* (mirrors.go SetMirrorState and DisableMirror, scan.go Scan, trace.go
\* GetLastUpdate).  Once removed nothing of the mirror is left, or entries of
\* goroutines that were at work on it when it was removed.
THEOREM AdminLogsTell == Spec => []LogsTell
<1>1. IInv => LogsTell
    <2> SUFFICES ASSUME IInv, NEW i \in Id \ disturbed, \A c \in Client : cmd[c].id # i,
                        ~Disabling(i)
                 PROVE  IF i \notin Listed
                        THEN /\ i \notin late => i \notin DOMAIN record /\ logs[i] = <<>>
                             /\ Only(i, Monitored \cup {"disabled"})
                        ELSE Truthful(i)
        BY DEF LogsTell, Only, Truthful, Started
    <2>1. Settled(i)
        BY DEF IInv, Undisturbed, MirrorOK
    <2> QED BY <2>1 DEF Settled, Gone, Started, Truthful
<1> QED BY <1>1, AdminInvariant, PTL

=============================================================================
