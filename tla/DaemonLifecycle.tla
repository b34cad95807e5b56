---------------------------- MODULE DaemonLifecycle ----------------------------
(***************************************************************************)
(* How the watch daemon comes and goes (internal/watchd: daemon.go,        *)
(* client.go, pid*.go, build.go).                                          *)
(*                                                                         *)
(* A daemon is found through two files: one with its PID and its socket.   *)
(* Commands that need it read the one, ping through the other, and launch, *)
(* replace or stop a daemon on what they see.  Nothing is locked, and a    *)
(* daemon that was told to exit takes minutes to wind down, while its      *)
(* successor writes the same files.                                        *)
(*                                                                         *)
(* A daemon is its PID, which is given again to a later one once nothing   *)
(* remembers it; the socket file is the daemon bound to it.  One action is *)
(* one file operation, one ping or one signal.  A remote daemon is not     *)
(* managed here at all.                                                    *)
(***************************************************************************)
EXTENDS Integers

CONSTANTS
    Launcher,    \* commands that need the daemon (chunk watch, chunk validate)
    Stopper,     \* commands that stored new credentials (chunk auth login)
    MaxDaemons,  \* bound: daemons there are at a time, orphans included
    MaxCalls,    \* bound: calls made in all, retries not counted
    MaxCrashes   \* bound: daemons killed

Daemon == 1..MaxDaemons
Client == Launcher \cup Stopper
None == 0

LifecycleAssumption ==
    /\ MaxDaemons \in Nat \ {0}
    /\ MaxCalls \in Nat /\ MaxCrashes \in Nat
    /\ Launcher \cap Stopper = {}

VARIABLES
    pidFile,   \* the PID file: a daemon or None
    sockFile,  \* the socket file: the daemon bound to it, or None
    daemon,    \* per daemon: its place, its build and what it knows of its files
    client,    \* per command: its place and the PID it read
    calls, crashes

daemonFiles == <<pidFile, sockFile>>
counts == <<calls, crashes>>
daemonVars == <<daemonFiles, daemon, client, counts>>

Starting == {"spawned", "named", "bare", "bound", "ready"}
Winding == {"drain", "unsock", "readpid", "rmpid"}

\* current: the build of the commands; seen: whose socket it found after listening;
\* told: it has been sent SIGTERM.
DaemonRec == [at : {"serving", "gone"} \cup Starting \cup Winding,
              current : BOOLEAN, seen : Daemon \cup {None}, told : BOOLEAN]
ClientRec == [at : {"idle", "check", "ping", "stop", "stopping", "launch", "await", "ok"},
              replaces : BOOLEAN, pid : Daemon \cup {None}]

Spawned == [at |-> "spawned", current |-> TRUE, seen |-> None, told |-> FALSE]
NoDaemon == [at |-> "gone", current |-> TRUE, seen |-> None, told |-> FALSE]

Alive(d) == d \in Daemon /\ daemon[d].at # "gone"

\* IsRunning and ping, as they are answered now.
Running == Alive(pidFile)
Reachable == sockFile \in Daemon /\ daemon[sockFile].at = "serving"

Becomes(d, at) ==
    daemon' = [daemon EXCEPT ![d] = IF at = "gone" THEN NoDaemon ELSE [@ EXCEPT !.at = at]]
ClientGoes(c, at) == client' = [client EXCEPT
    ![c].at = at, ![c].pid = IF at \in {"stop", "stopping"} THEN @ ELSE None,
    ![c].replaces = @ /\ at # "ok"]

\* Nothing, a daemon of either build, or what one that was killed left behind.
InitDaemon ==
    /\ \E at \in {"serving", "gone"}, current \in BOOLEAN :
        daemon = [d \in Daemon |->
             IF d = 1 /\ at = "serving"
             THEN [NoDaemon EXCEPT !.at = at, !.current = current, !.seen = 1] ELSE NoDaemon]
    /\ pidFile \in {None, 1} /\ sockFile = pidFile
    /\ daemon[1].at = "serving" => pidFile = 1
    /\ client = [c \in Client |-> [at |-> "idle", replaces |-> FALSE, pid |-> None]]
    /\ calls = 0 /\ crashes = 0

-----------------------------------------------------------------------------
(* A daemon (runDaemon). *)

WritePID(d) ==
    /\ daemon[d].at = "spawned"
    /\ pidFile' = d /\ Becomes(d, "named")
    /\ UNCHANGED <<sockFile, client, counts>>

RemoveSocket(d) ==
    /\ daemon[d].at = "named"
    /\ sockFile' = None /\ Becomes(d, "bare")
    /\ UNCHANGED <<pidFile, client, counts>>

\* Another may have listened there meanwhile: then this one exits.
Listen(d) ==
    /\ daemon[d].at = "bare"
    /\ IF sockFile = None THEN sockFile' = d /\ Becomes(d, "bound")
                          ELSE UNCHANGED sockFile /\ Becomes(d, "readpid")
    /\ UNCHANGED <<pidFile, client, counts>>

\* It remembers the file at its path, and catches signals from now on.
StatSocket(d) ==
    /\ daemon[d].at = "bound"
    /\ daemon' = [daemon EXCEPT ![d].at = "ready", ![d].seen = sockFile]
    /\ UNCHANGED <<daemonFiles, client, counts>>

\* It has polled once, and serves.
Serve(d) ==
    /\ daemon[d].at = "ready" /\ ~daemon[d].told
    /\ Becomes(d, "serving")
    /\ UNCHANGED <<daemonFiles, client, counts>>

\* Told to exit: closing the server closes the listener, which unlinks its path, and
\* a server that is closed before it serves closes the listener it is given.
CloseServer(d) ==
    /\ daemon[d].at \in {"ready", "serving"} /\ daemon[d].told
    /\ sockFile' = None /\ Becomes(d, "drain")
    /\ UNCHANGED <<pidFile, client, counts>>

\* Its sessions, tasks, streams and sidecars are over.
Drained(d) ==
    /\ daemon[d].at = "drain"
    /\ Becomes(d, "unsock")
    /\ UNCHANGED <<daemonFiles, client, counts>>

\* Mutant: whoever's it is.
AnySocket(d) == sockFile # None

\* os.SameFile, where the file system does not reuse the inode of the old socket.
SameSocket(d) ==
    sockFile # None /\ daemon[d].seen = sockFile

\* The listener, closed once more after that, unlinks nothing a second time.
RemoveOwnSocket(d) ==
    /\ daemon[d].at = "unsock"
    /\ sockFile' = IF SameSocket(d) THEN None ELSE sockFile
    /\ Becomes(d, "readpid")
    /\ UNCHANGED <<pidFile, client, counts>>

\* Its PID file is removed if it is its own; a successor may write it in between.
ReadOwnPID(d) ==
    /\ daemon[d].at = "readpid"
    /\ Becomes(d, IF pidFile = d THEN "rmpid" ELSE "gone")
    /\ UNCHANGED <<daemonFiles, client, counts>>

RemovePID(d) ==
    /\ daemon[d].at = "rmpid"
    /\ pidFile' = None /\ Becomes(d, "gone")
    /\ UNCHANGED <<sockFile, client, counts>>

\* A signal kills a daemon that does not catch it yet.
Signal(d) ==
    IF daemon[d].at \in {"ready", "serving"} \cup Winding
    THEN daemon' = [daemon EXCEPT ![d].told = TRUE]
    ELSE Becomes(d, "gone")

Crash(d) ==
    /\ Alive(d) /\ crashes < MaxCrashes
    /\ crashes' = crashes + 1
    /\ Becomes(d, "gone")
    /\ UNCHANGED <<daemonFiles, client, calls>>

Runs(d) ==
    \/ WritePID(d) \/ RemoveSocket(d) \/ Listen(d) \/ StatSocket(d)
    \/ Serve(d) \/ CloseServer(d) \/ Drained(d) \/ RemoveOwnSocket(d)
    \/ ReadOwnPID(d) \/ RemovePID(d)

-----------------------------------------------------------------------------
(* A command. *)

\* EnsureRunning replaces a daemon of another build, EnsureLaunched does not.
Call(c) ==
    /\ client[c].at \in {"idle", "ok"} /\ calls < MaxCalls
    /\ calls' = calls + 1
    /\ \E replaces \in BOOLEAN :
        client' = [client EXCEPT ![c].at = "check", ![c].replaces = replaces]
    /\ UNCHANGED <<daemonFiles, daemon, crashes>>

\* The PID file is there and its process is.
Check(c) ==
    /\ client[c].at = "check"
    /\ client' = [client EXCEPT
         ![c].at = IF Running THEN "ping" ELSE IF c \in Launcher THEN "launch" ELSE "ok",
         ![c].pid = IF Running THEN pidFile ELSE None]
    /\ UNCHANGED <<daemonFiles, daemon, counts>>

\* Mutant: a process that is there is a daemon that serves.
PingUnneeded(c) == IF Reachable /\ client[c].replaces /\ ~daemon[sockFile].current
                   THEN "stop" ELSE "ok"

\* What a launcher does after a ping: a daemon that answers is good, unless it is
\* to be replaced; one that does not is launched anew.
AfterPing(c) ==
    IF ~Reachable THEN "launch"
    ELSE IF client[c].replaces /\ ~daemon[sockFile].current THEN "stop" ELSE "ok"

Ping(c) ==
    /\ client[c].at = "ping"
    /\ ClientGoes(c, IF c \in Launcher THEN AfterPing(c) ELSE IF Reachable THEN "stop" ELSE "ok")
    /\ UNCHANGED <<daemonFiles, daemon, counts>>

\* stopDaemon: SIGTERM to the PID that was read; a launcher's call fails if there is
\* no such process any more.
Stop(c) ==
    /\ client[c].at = "stop"
    /\ IF Alive(client[c].pid)
       THEN Signal(client[c].pid) /\ ClientGoes(c, "stopping")
       ELSE UNCHANGED daemon /\ ClientGoes(c, IF c \in Launcher THEN "check" ELSE "ok")
    /\ UNCHANGED <<daemonFiles, counts>>

Stopped(c) ==
    /\ client[c].at = "stopping" /\ ~Reachable
    /\ ClientGoes(c, IF c \in Launcher THEN "launch" ELSE "ok")
    /\ UNCHANGED <<daemonFiles, daemon, counts>>

\* PIDs that no process has and no file or command remembers.
Unused ==
    {d \in Daemon : ~Alive(d)} \ ({pidFile, sockFile} \cup {daemon[e].seen : e \in Daemon}
                                  \cup {client[c].pid : c \in Client})

Launch(c) ==
    /\ client[c].at = "launch"
    /\ Unused # {}
    /\ LET d == CHOOSE d \in Unused : TRUE IN daemon' = [daemon EXCEPT ![d] = Spawned]
    /\ ClientGoes(c, "await")
    /\ UNCHANGED <<daemonFiles, counts>>

Launched(c) ==
    /\ client[c].at = "await" /\ Running /\ Reachable
    /\ ClientGoes(c, "ok")
    /\ UNCHANGED <<daemonFiles, daemon, counts>>

\* The deadline.  What is under way makes it in time: only what nothing will change
\* any more runs out of it, and a command that is left without the daemon polls again.
UnderWay == \E d \in Daemon :
    \/ daemon[d].at \in Starting
    \/ daemon[d].at = "serving" /\ daemon[d].told

LaunchDeadline(c) ==
    /\ \/ client[c].at = "stopping" /\ Reachable
       \/ client[c].at = "await" /\ ~(Running /\ Reachable)
    /\ ~UnderWay
    /\ ClientGoes(c, IF c \in Launcher THEN "check" ELSE "ok")
    /\ UNCHANGED <<daemonFiles, daemon, counts>>

Acts(c) ==
    \/ Check(c) \/ Ping(c) \/ Stop(c) \/ Stopped(c)
    \/ Launch(c) \/ Launched(c) \/ LaunchDeadline(c)

NextDaemon ==
    \/ \E d \in Daemon : Runs(d) \/ Crash(d)
    \/ \E c \in Client : Call(c) \/ Acts(c)

\* A daemon runs on, whatever it winds down with has a timeout, and a command that
\* went on without the daemon polls again.
FairDaemon ==
    /\ \A d \in Daemon : WF_daemonVars(Runs(d))
    /\ \A c \in Client : WF_daemonVars(Acts(c))

SpecDaemon == InitDaemon /\ [][NextDaemon]_daemonVars /\ FairDaemon

-----------------------------------------------------------------------------
(* Properties. *)

DaemonTypeOK ==
    /\ pidFile \in Daemon \cup {None}
    /\ sockFile \in Daemon \cup {None}
    /\ daemon \in [Daemon -> DaemonRec]
    /\ client \in [Client -> ClientRec]
    /\ calls \in 0..MaxCalls
    /\ crashes \in 0..MaxCrashes

\* "A replacement daemon may have started meanwhile; its pid file and socket are not
\* this one's to remove": a daemon that winds down, once its server is closed and for
\* as long as it takes, leaves the socket of its successor alone.
SuccessorKept ==
    [][\A d \in Daemon :
        daemon[d].at \in Winding /\ daemon'[d] # daemon[d]
            /\ sockFile \notin {None, d} => sockFile' = sockFile]_daemonVars

\* A command that needs the daemon gets one that serves, whatever was killed, left
\* behind, replaced or stopped under it.
Asking(c) == client[c].at = "check"
Served(c) == client[c].at = "ok" /\ Reachable
LauncherServed == \A c \in Launcher : Asking(c) ~> Served(c)
==============================================================================
