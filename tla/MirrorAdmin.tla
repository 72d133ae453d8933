---------------------------- MODULE MirrorAdmin ----------------------------
(***************************************************************************)
(* The commands of an administrator: the subcommands of cli/commands.go    *)
(* and the RPC handlers of rpc/rpc.go they call, on the mirrors of the     *)
(* database: MIRRORS (names by id), MIRROR_<id>, MIRRORLOGS_<id> and the   *)
(* counter LAST_MID.  Several commands may run at once, from several       *)
(* terminals or on several nodes; nothing locks the mirrors.  A Redis      *)
(* command, or a MULTI/EXEC block, is one step.  The goroutines of the     *)
(* monitors that check and scan the mirrors write the same keys: they hold *)
(* a copy of the mirror from before, and do not look whether it was        *)
(* removed since.                                                          *)
(*                                                                         *)
(* A mirror is its name and its "enabled" flag: a write of other fields    *)
(* only creates the hash if it is gone.  The notifications change nothing  *)
(* here (Cache has them), the file index of a mirror is in MirrorScan, and *)
(* when the monitor checks or scans one is in Monitor.                     *)
(***************************************************************************)
EXTENDS Naturals, Sequences, Functions

CONSTANTS
    Client,     \* terminals
    Goroutine,  \* goroutines of the monitors, and of the traces of scans
    Name,       \* names of mirrors
    NoName,     \* no ID and no name field
    MaxId,      \* bound on LAST_MID
    MaxCommand  \* bound on the commands and the tasks of goroutines

ASSUME AdminAssumption ==
    /\ NoName \notin Name
    /\ MaxId \in Nat /\ MaxCommand \in Nat

Id == 1..MaxId
NoId == 0

VARIABLES
    lastMid,   \* LAST_MID
    index,     \* MIRRORS, a function from the ids to the names
    record,    \* MIRROR_<id>, for the ids that have one
    logs,      \* MIRRORLOGS_<id>, for every id
    cmd,       \* the command each client is running
    task,      \* what each goroutine does
    commands,  \* how many commands and tasks were started
    raced,     \* history: a name was saved although MIRRORS had changed since
               \* it was checked
    disturbed, \* history: ids on which commands overlapped or one has failed
    late       \* history: ids removed while a goroutine had a task on them

dbVars == <<lastMid, index, record, logs>>
historyVars == <<raced, disturbed, late>>
vars == <<dbVars, cmd, task, commands, historyVars>>

Record == [name : Name \cup {NoName}, enabled : BOOLEAN]
Entry == {"added", "edited", "enabled", "disabled", "error", "state"}

\* Where a command is: the id it works on, the mirror it has fetched or will
\* write, the log entry it will push, whether it ends there, and whether
\* MIRRORS has changed since it checked the name.
Command == [at : {"idle", "fetch", "edit", "check", "incr", "save", "status",
                  "disable", "delete", "log", "scanFetch", "scanName",
                  "scanSync", "scanning"},
            id : Id \cup {NoId}, mirror : Record, enable : BOOLEAN,
            entry : Entry \cup {""}, then : {"idle", "delete", "status"},
            stale : BOOLEAN]

Blank == [name |-> NoName, enabled |-> FALSE]
Idle == [at |-> "idle", id |-> NoId, mirror |-> Blank, enable |-> FALSE,
         entry |-> "", then |-> "idle", stale |-> FALSE]

\* Where a task is: the id of its mirror, the log entry it will push, and
\* whether the mirror is to be disabled because a file was missing on it.
Task == [at : {"idle", "request", "missing", "log", "scanName", "scanSync",
               "scanning", "trace"},
         id : Id \cup {NoId}, entry : {"state", "error", "disabled", ""},
         missing : BOOLEAN]

Rest == [at |-> "idle", id |-> NoId, entry |-> "", missing |-> FALSE]

Listed == DOMAIN index

TypeOK ==
    /\ lastMid \in 0..MaxId
    /\ Listed \subseteq Id /\ index \in [Listed -> Name]
    /\ DOMAIN record \subseteq Id /\ record \in [DOMAIN record -> Record]
    /\ logs \in [Id -> Seq(Entry)]
    /\ cmd \in [Client -> Command]
    /\ task \in [Goroutine -> Task]
    /\ commands \in 0..MaxCommand
    /\ raced \in BOOLEAN /\ disturbed \subseteq Id /\ late \subseteq Id

Init ==
    /\ lastMid = 0
    /\ index = [i \in {} |-> NoName]
    /\ record = [i \in {} |-> Blank]
    /\ logs = [i \in Id |-> <<>>]
    /\ cmd = [c \in Client |-> Idle]
    /\ task = [g \in Goroutine |-> Rest]
    /\ commands = 0
    /\ raced = FALSE
    /\ disturbed = {}
    /\ late = {}

\* HMSET creates the key with the given fields when it does not exist.
Stored(i) == IF i \in DOMAIN record THEN record[i] ELSE Blank
Put(f, i, v) == [j \in DOMAIN f \cup {i} |-> IF j = i THEN v ELSE f[j]]

Begin(c, new) ==
    /\ cmd[c].at = "idle"
    /\ commands < MaxCommand
    /\ commands' = commands + 1
    /\ cmd' = [cmd EXCEPT ![c] = new]

Goto(c, at) == cmd' = [cmd EXCEPT ![c].at = at]
End(c) == cmd' = [cmd EXCEPT ![c] = Idle]

\* A goroutine of the monitor has disabled the mirror and not yet said so in its log.
Disabling(i) == \E g \in Goroutine : task[g].id = i /\ task[g].entry = "disabled"

\* matchMirror: the pattern must match one mirror only.
Match(c, i, new) ==
    /\ i \in Listed
    /\ Begin(c, [new EXCEPT !.id = i])
    /\ disturbed' = IF Disabling(i) \/ \E d \in Client \ {c} : cmd[d].id = i
                    THEN disturbed \cup {i} ELSE disturbed
    /\ UNCHANGED <<dbVars, raced, late>>

-----------------------------------------------------------------------------
(* add and edit                                                            *)

\* AddMirror looks up the address of the host and its location before setMirror.
\* The mirror starts disabled: there is no option to enable it.
CmdAdd(c, n) ==
    /\ Begin(c, [Idle EXCEPT !.at = "check", !.mirror = [Blank EXCEPT !.name = n]])
    /\ UNCHANGED <<dbVars, historyVars>>

CmdEdit(c, i) == Match(c, i, [Idle EXCEPT !.at = "fetch"])

\* The reply has no ID when there is no such mirror or nothing but a few fields:
\* UpdateMirror would refuse it.
MirrorInfo(c) ==
    /\ cmd[c].at = "fetch"
    /\ LET m == Stored(cmd[c].id)
       IN IF m.name = NoName THEN End(c)
          ELSE cmd' = [cmd EXCEPT ![c].at = "edit", ![c].mirror = m]
    /\ UNCHANGED <<dbVars, commands, historyVars>>

\* The administrator edits the mirror fetched, in an editor or by a file that
\* keeps its name (CompareAndUpdate), or leaves it unmodified.
Edit(c, n, e) ==
    /\ cmd[c].at = "edit"
    /\ cmd' = [cmd EXCEPT ![c].at = "check", ![c].mirror = [name |-> n, enabled |-> e]]
    /\ UNCHANGED <<dbVars, commands, historyVars>>

Unmodified(c) ==
    /\ cmd[c].at = "edit"
    /\ End(c)
    /\ UNCHANGED <<dbVars, commands, historyVars>>

Taken(c) == \E i \in Listed \ {cmd[c].id} : index[i] = cmd[c].mirror.name

\* Mutant: only a new mirror is refused a name that is taken.
CheckNameOfNew(c) ==
    /\ cmd[c].at = "check"
    /\ ~(Taken(c) /\ cmd[c].id = NoId)
    /\ cmd' = [cmd EXCEPT ![c].at = IF cmd[c].id = NoId THEN "incr" ELSE "save",
                          ![c].entry = IF cmd[c].id \in Listed THEN "edited" ELSE "added",
                          ![c].stale = FALSE]
    /\ UNCHANGED <<dbVars, commands, historyVars>>

\* GetListOfMirrors in setMirror.
CheckName(c) ==
    /\ cmd[c].at = "check"
    /\ ~Taken(c)
    /\ cmd' = [cmd EXCEPT ![c].at = IF cmd[c].id = NoId THEN "incr" ELSE "save",
                          ![c].entry = IF cmd[c].id \in Listed THEN "edited" ELSE "added",
                          ![c].stale = FALSE]
    /\ UNCHANGED <<dbVars, commands, historyVars>>

\* ErrNameAlreadyTaken: add fails, the editor may be opened again.
NameTaken(c) ==
    /\ cmd[c].at = "check"
    /\ Taken(c)
    /\ \/ End(c)
       \/ cmd[c].id # NoId /\ Goto(c, "edit")
    /\ UNCHANGED <<dbVars, commands, historyVars>>

\* INCR LAST_MID
NewId(c) ==
    /\ cmd[c].at = "incr"
    /\ lastMid < MaxId
    /\ lastMid' = lastMid + 1
    /\ cmd' = [cmd EXCEPT ![c].at = "save", ![c].id = lastMid + 1]
    /\ UNCHANGED <<index, record, logs, commands, historyVars>>

\* Mutant: the name in MIRRORS is written for a new mirror only.
SaveKeepsName(c) ==
    LET i == cmd[c].id
        m == cmd[c].mirror
    IN /\ cmd[c].at = "save"
       /\ record' = Put(record, i, m)
       /\ index' = IF i \in Listed THEN index ELSE Put(index, i, m.name)
       /\ raced' = (raced \/ cmd[c].stale)
       /\ cmd' = [d \in Client |->
                     IF d = c THEN [cmd[c] EXCEPT !.at = "log", !.stale = FALSE]
                     ELSE [cmd[d] EXCEPT !.stale = @ \/ cmd[d].at \in {"incr", "save"}]]
       /\ UNCHANGED <<lastMid, logs, commands, disturbed, late>>

\* The transaction of setMirror: HMSET MIRROR_<id> and HSET MIRRORS.
Save(c) ==
    LET i == cmd[c].id
        m == cmd[c].mirror
    IN /\ cmd[c].at = "save"
       /\ record' = Put(record, i, m)
       /\ index' = Put(index, i, m.name)
       /\ raced' = (raced \/ cmd[c].stale)
       /\ cmd' = [d \in Client |->
                     IF d = c THEN [cmd[c] EXCEPT !.at = "log", !.stale = FALSE]
                     ELSE [cmd[d] EXCEPT !.stale = @ \/ cmd[d].at \in {"incr", "save"}]]
       /\ UNCHANGED <<lastMid, logs, commands, disturbed, late>>

\* PushLog, after the notification.
PushLog(c) ==
    /\ cmd[c].at = "log"
    /\ logs' = [logs EXCEPT ![cmd[c].id] = Append(@, cmd[c].entry)]
    /\ IF cmd[c].then = "idle" THEN End(c) ELSE Goto(c, cmd[c].then)
    /\ UNCHANGED <<lastMid, index, record, commands, historyVars>>

\* The error of PushLog is ignored: the handler goes on without the entry.
LogLost(c) ==
    /\ cmd[c].at = "log"
    /\ disturbed' = disturbed \cup {cmd[c].id}
    /\ IF cmd[c].then = "idle" THEN End(c) ELSE Goto(c, cmd[c].then)
    /\ UNCHANGED <<dbVars, commands, raced, late>>

-----------------------------------------------------------------------------
(* enable, disable, remove, scan                                           *)

CmdEnableDisable(c, i, e) == Match(c, i, [Idle EXCEPT !.at = "status", !.enable = e])

\* SetMirrorEnabled; its notification and its log entry follow.
SetMirrorEnabled(c, e, then) ==
    /\ record' = Put(record, cmd[c].id, [Stored(cmd[c].id) EXCEPT !.enabled = e])
    /\ cmd' = [cmd EXCEPT ![c].at = "log", ![c].then = then,
                          ![c].entry = IF e THEN "enabled" ELSE "disabled"]
    /\ UNCHANGED <<lastMid, index, logs, commands, historyVars>>

ChangeStatus(c) == cmd[c].at = "status" /\ SetMirrorEnabled(c, cmd[c].enable, "idle")

CmdRemove(c, i) == Match(c, i, [Idle EXCEPT !.at = "disable"])

\* Mutant: the log entry of the removal is pushed once the keys are deleted.
RemoveDisableLogsLast(c) ==
    /\ cmd[c].at = "disable"
    /\ record' = [i \in DOMAIN record \ {cmd[c].id} |-> record[i]]
    /\ logs' = [logs EXCEPT ![cmd[c].id] = <<>>]
    /\ index' = [i \in Listed \ {cmd[c].id} |-> index[i]]
    /\ cmd' = [cmd EXCEPT ![c].at = "log", ![c].entry = "disabled"]
    /\ UNCHANGED <<lastMid, commands, historyVars>>

\* RemoveMirror disables the mirror first, ...
RemoveDisable(c) == cmd[c].at = "disable" /\ SetMirrorEnabled(c, FALSE, "delete")

\* ... reads its files, and deletes its keys in a transaction.
RemoveMirror(c) ==
    LET i == cmd[c].id
    IN /\ cmd[c].at = "delete"
       /\ record' = Restrict(record, DOMAIN record \ {i})
       /\ index' = Restrict(index, Listed \ {i})
       /\ logs' = [logs EXCEPT ![i] = <<>>]
       /\ End(c)
       /\ late' = IF \E g \in Goroutine : task[g].id = i THEN late \cup {i} ELSE late
       /\ UNCHANGED <<lastMid, commands, raced, disturbed>>

\* With -all, every mirror of the list gets such a scan, one after the other.
CmdScan(c, i, enable) == Match(c, i, [Idle EXCEPT !.at = "scanFetch", !.enable = enable])

\* HGETALL in ScanMirror; without an ID the scan fails at once.
ScanMirror(c) ==
    /\ cmd[c].at = "scanFetch"
    /\ IF Stored(cmd[c].id).name = NoName THEN End(c) ELSE Goto(c, "scanName")
    /\ UNCHANGED <<dbVars, commands, historyVars>>

\* HGET MIRRORS in scan.Scan, and the lock.
ScanName(c) ==
    /\ cmd[c].at = "scanName"
    /\ IF cmd[c].id \in Listed THEN Goto(c, "scanSync") ELSE End(c)
    /\ UNCHANGED <<dbVars, commands, historyVars>>

\* HSET or HMSET of fields that are neither the name nor "enabled".
Touch(i) == record' = Put(record, i, Stored(i))

\* setLastSync, before and after the scan, and the offset of adjustTZOffset.
SetLastSync(c) == Touch(cmd[c].id)

ScanBegin(c) ==
    /\ cmd[c].at = "scanSync"
    /\ SetLastSync(c)
    /\ Goto(c, "scanning")
    /\ UNCHANGED <<lastMid, index, logs, commands, historyVars>>

ScanFails(c) ==
    /\ cmd[c].at = "scanning"
    /\ cmd' = [cmd EXCEPT ![c].at = "log", ![c].entry = "error"]
    /\ UNCHANGED <<dbVars, commands, historyVars>>

\* An error of adjustTZOffset is pushed to the log although the scan has succeeded.
\* Then the mirror is enabled if AutoEnable was asked for.
ScanEnds(c) ==
    /\ cmd[c].at = "scanning"
    /\ SetLastSync(c)
    /\ \/ IF cmd[c].enable THEN Goto(c, "status") ELSE End(c)
       \/ cmd' = [cmd EXCEPT ![c].at = "log", ![c].entry = "error",
                             ![c].then = IF cmd[c].enable THEN "status" ELSE "idle"]
    /\ UNCHANGED <<lastMid, index, logs, commands, historyVars>>

\* A Redis command of the handler returns an error, or the server stops: the rest
\* is not done.
Fails(c) ==
    /\ cmd[c].at \notin {"idle", "edit"}
    /\ End(c)
    /\ disturbed' = disturbed \cup ({cmd[c].id} \ {NoId})
    /\ UNCHANGED <<dbVars, commands, raced, late>>

-----------------------------------------------------------------------------
(* The goroutines of the monitor                                           *)

\* The goroutine has its copy of the mirror: removed or not by then, it goes on.
Take(g, i, at) ==
    /\ task[g].at = "idle"
    /\ i \in Listed
    /\ commands < MaxCommand
    /\ commands' = commands + 1
    /\ task' = [task EXCEPT ![g] = [Rest EXCEPT !.at = at, !.id = i]]
    /\ UNCHANGED <<dbVars, historyVars>>

\* healthCheckLoop, syncLoop, and the trace of a scan of syncLoop or ScanMirror.
HealthCheck(g, i) == Take(g, i, "request")
SyncMirror(g, i) == Take(g, i, "scanName")
FetchTrace(g, i) == Take(g, i, "trace")

Step(g, at) == task' = [task EXCEPT ![g].at = at]
Done(g) == task' = [task EXCEPT ![g] = Rest]
Log(g, entry, missing) ==
    task' = [task EXCEPT ![g].at = "log", ![g].entry = entry, ![g].missing = missing]

\* What follows SetMirrorState: DisableMirror if a file was missing.
Continue(g, missing) ==
    IF missing THEN task' = [task EXCEPT ![g].at = "missing", ![g].entry = "",
                                         ![g].missing = FALSE]
    ELSE Done(g)

\* The answer of the mirror: HMSET of its state, and a log entry if it has changed.
\* The mirror is to be disabled on a 404 if DisableOnMissingFile says so.
SetMirrorState(g, missing) ==
    /\ task[g].at = "request"
    /\ Touch(task[g].id)
    /\ Log(g, "state", missing) \/ Continue(g, missing)
    /\ UNCHANGED <<lastMid, index, logs, commands, historyVars>>

DisableMirror(g) ==
    LET i == task[g].id
    IN /\ task[g].at = "missing"
       /\ record' = Put(record, i, [Stored(i) EXCEPT !.enabled = FALSE])
       /\ Log(g, "disabled", FALSE)
       /\ disturbed' = IF \E c \in Client : cmd[c].id = i
                       THEN disturbed \cup {i} ELSE disturbed
       /\ UNCHANGED <<lastMid, index, logs, commands, raced, late>>

TaskLog(g) ==
    /\ task[g].at = "log"
    /\ logs' = [logs EXCEPT ![task[g].id] = Append(@, task[g].entry)]
    /\ Continue(g, task[g].missing)
    /\ UNCHANGED <<lastMid, index, record, commands, historyVars>>

\* scan.Scan, as above.
SyncName(g) ==
    /\ task[g].at = "scanName"
    /\ IF task[g].id \in Listed THEN Step(g, "scanSync") ELSE Done(g)
    /\ UNCHANGED <<dbVars, commands, historyVars>>

SyncBegin(g) ==
    /\ task[g].at = "scanSync"
    /\ Touch(task[g].id)
    /\ Step(g, "scanning")
    /\ UNCHANGED <<lastMid, index, logs, commands, historyVars>>

SyncFails(g) ==
    /\ task[g].at = "scanning"
    /\ Log(g, "error", FALSE)
    /\ UNCHANGED <<dbVars, commands, historyVars>>

SyncEnds(g) ==
    /\ task[g].at = "scanning"
    /\ Touch(task[g].id)
    /\ Done(g) \/ Log(g, "error", FALSE)
    /\ UNCHANGED <<lastMid, index, logs, commands, historyVars>>

\* HSET of lastModTime, once the trace was fetched.
GetLastUpdate(g) ==
    /\ task[g].at = "trace"
    /\ Touch(task[g].id)
    /\ Done(g)
    /\ UNCHANGED <<lastMid, index, logs, commands, historyVars>>

\* A command fails, or the node stops.  After SetMirrorState, and after a log entry
\* that is lost, the health check goes on to disable the mirror.
TaskFails(g) ==
    /\ task[g].at # "idle"
    /\ Done(g) \/ (task[g].at \in {"request", "log"} /\ task[g].entry # "disabled"
                     /\ Continue(g, task[g].at = "request" \/ task[g].missing))
    /\ disturbed' = IF task[g].entry = "disabled"
                    THEN disturbed \cup {task[g].id} ELSE disturbed
    /\ UNCHANGED <<dbVars, commands, raced, late>>

CommandNext(c) ==
    \/ \E n \in Name : CmdAdd(c, n)
    \/ \E i \in Id : CmdEdit(c, i) \/ CmdRemove(c, i)
    \/ \E i \in Id, e \in BOOLEAN : CmdEnableDisable(c, i, e) \/ CmdScan(c, i, e)
    \/ MirrorInfo(c) \/ Unmodified(c)
    \/ \E n \in Name, e \in BOOLEAN : Edit(c, n, e)
    \/ CheckName(c) \/ NameTaken(c) \/ NewId(c) \/ Save(c)
    \/ PushLog(c) \/ LogLost(c)
    \/ ChangeStatus(c) \/ RemoveDisable(c) \/ RemoveMirror(c)
    \/ ScanMirror(c) \/ ScanName(c) \/ ScanBegin(c) \/ ScanFails(c) \/ ScanEnds(c)
    \/ Fails(c)

TaskNext(g) ==
    \/ \E i \in Id : HealthCheck(g, i) \/ SyncMirror(g, i) \/ FetchTrace(g, i)
    \/ \E missing \in BOOLEAN : SetMirrorState(g, missing)
    \/ DisableMirror(g) \/ TaskLog(g)
    \/ SyncName(g) \/ SyncBegin(g) \/ SyncFails(g) \/ SyncEnds(g)
    \/ GetLastUpdate(g) \/ TaskFails(g)

Next ==
    \/ \E c \in Client : CommandNext(c) /\ UNCHANGED task
    \/ \E g \in Goroutine : TaskNext(g) /\ UNCHANGED cmd

Spec == Init /\ [][Next]_vars

-----------------------------------------------------------------------------
(* Properties                                                              *)

\* Two mirrors never have the same name, whatever is added, renamed, removed or
\* written again after its removal, unless two setMirror overlapped: the check of
\* the name and the transaction that saves it are not one step.
UniqueNames == raced \/ \A i, j \in Listed : index[i] = index[j] => i = j

\* MIRRORS lists exactly the mirrors whose hash has an ID, under the same name,
\* and an id given to a new mirror has never been used: the new mirror finds no
\* hash and no log entry of another one.  Holds whatever overlaps or fails.
RecordsAgree ==
    /\ Listed = {i \in DOMAIN record : record[i].name # NoName}
    /\ \A i \in Listed : record[i].name = index[i]
    /\ \A c \in Client : cmd[c].at = "save" /\ cmd[c].entry = "added" /\ cmd[c].id \notin disturbed
                         => cmd[c].id \notin DOMAIN record /\ logs[cmd[c].id] = <<>>

\* The entries of the monitor and of scans that say nothing of what was asked for.
Monitored == {"state", "error"}

\* The first entry of the log that is not one of those is the addition.
Began(i) ==
    \E k \in 1..Len(logs[i]) :
        logs[i][k] = "added" /\ \A l \in 1..(k - 1) : logs[i][l] \in Monitored

\* The last entry of the log that is not one of those is e.
Tells(i, e) ==
    \E k \in 1..Len(logs[i]) :
        logs[i][k] = e /\ \A l \in (k + 1)..Len(logs[i]) : logs[i][l] \in Monitored

\* What the log says of a mirror on which no two commands overlapped and none has
\* failed, when neither a command works on it nor the monitor is disabling it,
\* whatever checks and scans of the monitor run at the same time and however late
\* they write.  The log of a listed mirror begins with its addition and agrees with
\* its hash on whether it is enabled.  Of a removed mirror nothing is left unless a
\* goroutine of the monitor had a task on it when it was removed; then the log has
\* entries of the monitor only, and (RecordsAgree) the hash no name.  Overlapping
\* commands are excepted: an edit saved after a removal brings the mirror back.
LogsTell ==
    \A i \in Id \ disturbed :
        (\A c \in Client : cmd[c].id # i) /\ ~Disabling(i) =>
        IF i \notin Listed
        THEN /\ i \notin late => i \notin DOMAIN record /\ logs[i] = <<>>
             /\ \A k \in 1..Len(logs[i]) : logs[i][k] \in Monitored \cup {"disabled"}
        ELSE /\ Began(i)
             /\ Tells(i, "enabled") => record[i].enabled
             /\ Tells(i, "added") \/ Tells(i, "disabled") => ~record[i].enabled

=============================================================================
