----------------------------- MODULE Lifecycle -----------------------------
(***************************************************************************)
(* The life of the server processes (main.go, process/process.go, and the  *)
(* start and stop of http/http.go, rpc/rpc.go and config/config.go): the   *)
(* main goroutine and the signal handler of each process, the socket the   *)
(* HTTP servers share during a seamless upgrade, the port of the RPC       *)
(* server, and the pid file.                                               *)
(*                                                                         *)
(* The monitor is reduced to whether it was told to stop (Monitor has its  *)
(* end); the graceful server stops accepting when it is told to, and its   *)
(* Serve returns once its connections are closed or their time is up.      *)
(***************************************************************************)
EXTENDS Naturals

CONSTANTS
    Pid, NoPid,
    First,     \* the process the operator starts
    MaxSignal  \* bound on the signals of the operator

ASSUME LifecycleAssumption == First \in Pid /\ NoPid \notin Pid /\ MaxSignal \in Nat

VARIABLES
    proc,     \* the processes
    rpc,      \* owner of the RPC port
    pidFile,
    signals,  \* signals sent by the operator
    asked,    \* history: the operator has asked to stop or to move the server
    crashed,  \* history: a process ended without RemovePidFile, or the pid file could
              \* not be written or removed
    fatal     \* history: a fatal error ended a process that accepted connections

lifecycleVars == <<proc, rpc, pidFile, signals, asked, crashed, fatal>>

\* NewAddress is a SIGHUP after which the configuration has another ListenAddress,
\* NoConfig one that finds no configuration file; HUP stands for SIGUSR1 too.
Signal == {"TERM", "QUIT", "HUP", "NewAddress", "NoConfig", "USR2"}
Empty == ""

Process ==
    [at : {"unborn", "boot", "pid", "ready", "listen", "bound", "serving", "stopping",
           "waiting", "ending", "gone"},          \* the main goroutine
     parent : Pid \cup {NoPid},                   \* OLD_PPID
     k : Signal \cup {Empty},                     \* the channel of signals, capacity 1
     listener : {"nil", "inherited", "open", "closed"},  \* OLD_FD, then h.Listener
     server : BOOLEAN,                            \* h.server is set
     stopped : BOOLEAN, restarting : BOOLEAN,     \* h.stopped, h.Restarting
     monitorStop : BOOLEAN,                       \* m.Stop has been called
     killing : BOOLEAN,                           \* KillParent is about to be called
     exit : {"no", "read", "remove"},             \* where RemovePidFile is
     lost : BOOLEAN]                              \* history: a signal was dropped

Unborn ==
    [at |-> "unborn", parent |-> NoPid, k |-> Empty, listener |-> "nil",
     server |-> FALSE, stopped |-> FALSE, restarting |-> FALSE, monitorStop |-> FALSE,
     killing |-> FALSE, exit |-> "no", lost |-> FALSE]

LifecycleTypeOK ==
    /\ proc \in [Pid -> Process]
    /\ rpc \in Pid \cup {NoPid} /\ pidFile \in Pid \cup {NoPid}
    /\ signals \in 0..MaxSignal
    /\ asked \in BOOLEAN /\ crashed \in BOOLEAN /\ fatal \in BOOLEAN

LifecycleInit ==
    /\ proc = [p \in Pid |-> IF p = First THEN [Unborn EXCEPT !.at = "boot"] ELSE Unborn]
    /\ rpc = NoPid /\ pidFile = NoPid
    /\ signals = 0
    /\ asked = FALSE /\ crashed = FALSE /\ fatal = FALSE

Alive(p) == proc[p].at \notin {"unborn", "gone"}
Holds(p) == proc[p].listener \in {"inherited", "open"}
Held == \E p \in Pid : Holds(p)

\* The operating system closes the descriptors of a process that ends.
Gone(p) ==
    /\ proc' = [proc EXCEPT ![p] = [Unborn EXCEPT !.at = "gone"]]
    /\ rpc' = IF rpc = p THEN NoPid ELSE rpc

\* log.Fatal, a panic, os.Exit(1) or the default action of a signal.
Dies(p) == Gone(p) /\ crashed' = TRUE /\ UNCHANGED pidFile

-----------------------------------------------------------------------------
(* The main goroutine                                                      *)

\* LoadConfig and WritePidFile, where a write that fails is logged and ignored: the
\* file is as it was, or empty.
WritePidFile(p) ==
    /\ proc[p].at = "boot"
    /\ proc' = [proc EXCEPT ![p].at = "pid"]
    /\ \/ pidFile' = p /\ UNCHANGED crashed
       \/ pidFile' \in {pidFile, NoPid} /\ crashed' = TRUE
    /\ UNCHANGED <<rpc, signals, asked>>

\* rpcs.Start, then the database, the cache, the HTTP server, the monitor and
\* signal.Notify.  log.Fatal if the port is taken, and whenever Redis is too old, a
\* template is bad or the GeoIP databases are missing.
Start(p) ==
    /\ proc[p].at = "pid"
    /\ \/ /\ rpc = NoPid
          /\ rpc' = p
          /\ proc' = [proc EXCEPT ![p].at = "ready"]
          /\ UNCHANGED <<pidFile, crashed>>
       \/ Dies(p)
    /\ UNCHANGED <<signals, asked>>

\* Mutant: the parent is told to quit by a child that could not use its socket,
\* and has closed it.
RecoverKillsAnyway(p) ==
    /\ proc[p].at = "ready"
    /\ \/ /\ proc[p].listener = "inherited"
          /\ proc' = [proc EXCEPT ![p].at = "bound", ![p].listener = "open",
                                  ![p].killing = TRUE]
       \/ /\ proc' = [proc EXCEPT ![p].at = "listen", ![p].listener = "nil",
                                  ![p].killing = proc[p].parent # NoPid]
    /\ UNCHANGED <<rpc, pidFile, signals, asked, crashed>>

\* A child takes over the socket and will ask its parent to quit.  Otherwise there
\* is no OLD_FD, or it cannot be used.
Recover(p) ==
    /\ proc[p].at = "ready"
    /\ \/ /\ proc[p].listener = "inherited"
          /\ proc' = [proc EXCEPT ![p].at = "bound", ![p].listener = "open",
                                  ![p].killing = TRUE]
       \/ proc' = [proc EXCEPT ![p].at = "listen"]
    /\ UNCHANGED <<rpc, pidFile, signals, asked, crashed>>

\* RunServer: net.Listen, ...
Listen(p) ==
    /\ proc[p].at = "listen"
    /\ IF Held
       THEN Dies(p)
       ELSE /\ proc' = [proc EXCEPT ![p].at = "bound", ![p].listener = "open"]
            /\ UNCHANGED <<rpc, pidFile, crashed>>
    /\ UNCHANGED <<signals, asked>>

\* ... then h.server, and Serve.
Serve(p) ==
    /\ proc[p].at = "bound"
    /\ proc' = [proc EXCEPT ![p].at = "serving", ![p].server = TRUE]
    /\ UNCHANGED <<rpc, pidFile, signals, asked, crashed>>

\* RunServer returns.  To restart, the loop of main calls it again: h.Listener is
\* not nil, it is the socket that was closed, and Serve returns at once.
ServeReturns(p) ==
    /\ proc[p].at = "stopping"
    /\ proc' = [proc EXCEPT ![p].at = IF @ = "stopping" /\ proc[p].restarting
                                      THEN "stopping" ELSE "waiting",
                            ![p].restarting = FALSE]
    /\ UNCHANGED <<rpc, pidFile, signals, asked, crashed>>

\* m.Wait() returns if the monitor, once it has been stopped, ends; h.Terminate(),
\* r.Close().
MonitorEnds(p) ==
    /\ proc[p].at = "waiting"
    /\ proc[p].monitorStop
    /\ proc' = [proc EXCEPT ![p].at = "ending", ![p].exit = "read"]
    /\ UNCHANGED <<rpc, pidFile, signals, asked, crashed>>

\* Mutant: the pid is not compared with ours.
ReadPidFileAnyPid(p) ==
    /\ proc[p].exit = "read"
    /\ proc' = [proc EXCEPT ![p].exit = "remove"]
    /\ UNCHANGED <<rpc, pidFile, crashed, signals, asked>>

\* RemovePidFile: the file is read, ...
ReadPidFile(p) ==
    /\ proc[p].exit = "read"
    /\ IF pidFile = p
       THEN proc' = [proc EXCEPT ![p].exit = "remove"] /\ UNCHANGED rpc
       ELSE Gone(p)
    /\ UNCHANGED <<pidFile, crashed, signals, asked>>

\* ... removed if it has our pid, and the process ends, also if that failed.
RemovePidFile(p) ==
    /\ proc[p].exit = "remove"
    /\ \/ pidFile' = NoPid /\ UNCHANGED crashed
       \/ crashed' = TRUE /\ UNCHANGED pidFile
    /\ Gone(p)
    /\ UNCHANGED <<signals, asked>>

-----------------------------------------------------------------------------
(* Signals                                                                 *)

\* The default action before signal.Notify; then k, where a signal that finds
\* another one is dropped.
Deliver(p, s) ==
    IF proc[p].at \in {"boot", "pid"} THEN Dies(p)
    ELSE /\ proc' = IF proc[p].k = Empty THEN [proc EXCEPT ![p].k = s]
                    ELSE [proc EXCEPT ![p].lost = TRUE]
         /\ UNCHANGED <<rpc, pidFile, crashed>>

\* A signal sent by the operator; SIGUSR2 and SIGHUP also by the Upgrade and
\* Reload RPC, which report an error when k is full.
Operator(p, s) ==
    /\ Alive(p)
    /\ signals < MaxSignal
    /\ Deliver(p, s)
    /\ signals' = signals + 1
    /\ asked' = (asked \/ s \in {"TERM", "QUIT", "NewAddress", "NoConfig"})

KillParent(p) ==
    LET q == proc[p].parent
        Parent == proc[q]
    IN /\ proc[p].killing
       /\ proc' = [proc EXCEPT ![p].killing = FALSE,
                     ![q] = IF ~Alive(q) THEN Parent
                            ELSE IF Parent.k = Empty THEN [Parent EXCEPT !.k = "QUIT"]
                            ELSE [Parent EXCEPT !.lost = TRUE]]
       /\ UNCHANGED <<rpc, pidFile, signals, asked, crashed>>

CloseRpc(p) == rpc' = IF rpc = p THEN NoPid ELSE rpc

\* h.Stop of process P, once it has a server.
Stopped(P) ==
    IF P.stopped THEN P
    ELSE [P EXCEPT !.stopped = TRUE, !.listener = "closed", !.at = "stopping"]

\* h.Stop would use h.server.
Panics(P) == ~P.stopped /\ ~P.server

\* The signal handler takes a signal from k.
Handle(p, s) == proc[p].k = s /\ proc[p].exit = "no"
Taken(p) == [proc[p] EXCEPT !.k = Empty]

HandleTerm(p) ==
    /\ Handle(p, "TERM")
    /\ proc' = [proc EXCEPT ![p] = [Taken(p) EXCEPT !.exit = "read"]]
    /\ UNCHANGED <<rpc, pidFile, signals, asked, crashed>>

\* Mutant: the monitor is not stopped.
HandleQuitKeepsMonitor(p) ==
    /\ Handle(p, "QUIT")
    /\ IF proc[p].listener \in {"open", "closed"}
       THEN IF Panics(proc[p]) THEN Dies(p)
            ELSE /\ proc' = [proc EXCEPT ![p] = Stopped(Taken(p))]
                 /\ CloseRpc(p)
                 /\ UNCHANGED <<pidFile, crashed>>
       ELSE /\ proc' = [proc EXCEPT ![p] = [Taken(p) EXCEPT !.exit = "read"]]
            /\ CloseRpc(p)
            /\ UNCHANGED <<pidFile, crashed>>
    /\ UNCHANGED <<signals, asked>>

\* SIGQUIT: m.Stop(), rpcs.Close(), and h.Stop() if there is a listener.
HandleQuit(p) ==
    LET P == [Taken(p) EXCEPT !.monitorStop = TRUE]
        hasListener == P.listener \in {"open", "closed"}
    IN /\ Handle(p, "QUIT")
       /\ IF hasListener /\ Panics(P) THEN Dies(p)
          ELSE /\ proc' = [proc EXCEPT ![p] = IF hasListener THEN Stopped(P)
                                              ELSE [P EXCEPT !.exit = "read"]]
               /\ CloseRpc(p)
               /\ UNCHANGED <<pidFile, crashed>>
       /\ UNCHANGED <<signals, asked>>

\* SIGHUP: ReloadConfig and h.Reload(), when the templates are good (ReloadFatal).
HandleHup(p) ==
    /\ Handle(p, "HUP")
    /\ proc' = [proc EXCEPT ![p] = Taken(p)]
    /\ UNCHANGED <<rpc, pidFile, signals, asked, crashed>>

\* SIGHUP, and ReloadConfig exits.
HandleNoConfig(p) ==
    /\ Handle(p, "NoConfig")
    /\ Dies(p)
    /\ UNCHANGED <<signals, asked>>

\* SIGHUP, and ListenAddress has changed.
HandleNewAddress(p) ==
    LET P == [Taken(p) EXCEPT !.restarting = TRUE]
    IN /\ Handle(p, "NewAddress")
       /\ IF Panics(P) THEN Dies(p)
          ELSE /\ proc' = [proc EXCEPT ![p] = Stopped(P)]
               /\ UNCHANGED <<rpc, pidFile, crashed>>
       /\ UNCHANGED <<signals, asked>>

\* SIGUSR2: rpcs.Close() and Relaunch, which fails on a closed listener, or for
\* want of resources.  Without a listener the handler panics.
HandleUsr2(p) ==
    /\ Handle(p, "USR2")
    /\ \/ /\ proc[p].listener \in {"nil", "inherited"}
          /\ Dies(p)
       \/ /\ proc[p].listener \in {"open", "closed"}
          /\ CloseRpc(p)
          /\ proc' = [proc EXCEPT ![p] = Taken(p)]
          /\ UNCHANGED <<pidFile, crashed>>
       \/ /\ proc[p].listener = "open"
          /\ CloseRpc(p)
          /\ \E c \in Pid :
                /\ proc[c].at = "unborn"
                /\ proc' = [proc EXCEPT ![p] = Taken(p),
                              ![c] = [Unborn EXCEPT !.at = "boot", !.parent = p,
                                                    !.listener = "inherited"]]
          /\ UNCHANGED <<pidFile, crashed>>
    /\ UNCHANGED <<signals, asked>>

-----------------------------------------------------------------------------
(* Fatal errors of a process that has started                              *)

Fatal(p) ==
    /\ Dies(p)
    /\ fatal' = (fatal \/ proc[p].listener = "open")
    /\ UNCHANGED <<signals, asked>>

\* SIGHUP, and LoadTemplates finds a template missing or bad.
ReloadFatal(p) == (Handle(p, "HUP") \/ Handle(p, "NewAddress")) /\ Fatal(p)

\* dbUpdateHandler, a goroutine that tries until Redis answers, fails to upgrade the
\* database; or the pool connects to a Redis that is too old.
DatabaseFatal(p) == proc[p].at \notin {"unborn", "boot", "pid", "gone"} /\ Fatal(p)

-----------------------------------------------------------------------------

Main(p) ==
    /\ \/ WritePidFile(p) \/ Start(p) \/ Recover(p) \/ Listen(p) \/ Serve(p)
       \/ ServeReturns(p)
    /\ UNCHANGED fatal

Handler(p) ==
    /\ \/ HandleTerm(p) \/ HandleQuit(p) \/ HandleHup(p) \/ HandleNoConfig(p)
       \/ HandleNewAddress(p) \/ HandleUsr2(p)
    /\ UNCHANGED fatal

Exit(p) == (ReadPidFile(p) \/ RemovePidFile(p)) /\ UNCHANGED fatal
Kill(p) == KillParent(p) /\ UNCHANGED fatal

\* What nothing obliges to happen.
Outside(p) ==
    /\ MonitorEnds(p) \/ \E s \in Signal : Operator(p, s)
    /\ UNCHANGED fatal

LifecycleNext ==
    \E p \in Pid :
        \/ Main(p) \/ Handler(p) \/ Exit(p) \/ Kill(p) \/ Outside(p)
        \/ ReloadFatal(p) \/ DatabaseFatal(p)

LifecycleSpec == LifecycleInit /\ [][LifecycleNext]_lifecycleVars

\* Goroutines run, and the graceful server ends within its timeout.  The monitor,
\* the operator and the errors are not fair.
LifecycleFairness ==
    \A p \in Pid :
        /\ WF_lifecycleVars(Main(p)) /\ WF_lifecycleVars(Handler(p))
        /\ WF_lifecycleVars(Exit(p)) /\ WF_lifecycleVars(Kill(p))

FairLifecycle == LifecycleSpec /\ LifecycleFairness

-----------------------------------------------------------------------------
(* Properties                                                              *)

\* A seamless upgrade has no gap: unless the operator asks to stop or to move the
\* server, the socket that accepts the connections is never closed by the last
\* process that has it, however many upgrades overlap or fail, and however many
\* children die while they start.  Fatal errors of a process that accepts
\* connections are excepted, and they do close it: a bad template at a SIGHUP, and a
\* database that a child cannot upgrade, if it learns so after it has told its
\* parent to quit.
NeverRefused == [][Held /\ ~asked' /\ ~fatal' => Held']_lifecycleVars

\* The pid file never names a process that has ended, and during upgrades there
\* always is one, unless a process ended abnormally or the file could not be written
\* or removed.
PidFileAlive ==
    \/ crashed
    \/ /\ pidFile # NoPid => Alive(pidFile)
       /\ pidFile = NoPid => asked \/ \A p \in Pid : proc[p].at \in {"unborn", "boot", "gone"}

\* Once a child serves, its parent stops: it ends, or it has closed its socket and
\* waits for the monitor it has stopped, which may never end (StopEnds of Monitor).
\* Unless the parent dropped a signal, as k has room for one, or the child has ended.
HandsOver ==
    \A p, c \in Pid :
        (proc[c].at = "serving" /\ proc[c].parent = p)
            ~> \/ proc[p].at = "gone"
               \/ proc[p].at = "waiting" /\ proc[p].monitorStop
               \/ proc[p].lost \/ proc[c].at = "gone"

=============================================================================
