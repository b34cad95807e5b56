----------------------------- MODULE HostProofs -----------------------------
(***************************************************************************)
(* Proofs about the parts of a host: its daemon, the output the daemon     *)
(* buffers, the sidecars it watches, and the key its processes share.      *)
(***************************************************************************)
EXTENDS DaemonLifecycle, CommandOutput, WatchState, KeyPair, SequenceTheorems, TLAPS

-----------------------------------------------------------------------------
(***************************************************************************)
(* DaemonLifecycle: a daemon that winds down leaves its successor's socket *)
(* alone, for every number of daemons, commands, calls and kills.          *)
(***************************************************************************)

LEMMA NobodyApart == LifecycleAssumption => None \notin Daemon
  BY DEF LifecycleAssumption, Daemon, None

Place == {"serving", "gone"} \cup Starting \cup Winding
Stage == {"idle", "check", "ping", "stop", "stopping", "launch", "await", "ok"}

LEMMA GoneTyped == NoDaemon \in DaemonRec /\ Spawned \in DaemonRec
  BY DEF NoDaemon, Spawned, DaemonRec, Starting

LEMMA BecomesTyped ==
    ASSUME DaemonTypeOK, NEW d \in Daemon, NEW at \in Place, Becomes(d, at)
    PROVE  daemon' \in [Daemon -> DaemonRec]
<1>1. daemon[d] \in DaemonRec /\ [daemon[d] EXCEPT !.at = at] \in DaemonRec
  BY DEF DaemonTypeOK, DaemonRec, Place
<1> QED
  BY <1>1, GoneTyped DEF Becomes, DaemonTypeOK

LEMMA GoesTyped ==
    ASSUME DaemonTypeOK, NEW c \in Client, NEW at \in Stage, ClientGoes(c, at)
    PROVE  client' \in [Client -> ClientRec]
<1>1. PICK r \in ClientRec : client[c] = r
  BY DEF DaemonTypeOK
<1> DEFINE new == [r EXCEPT !.at = at, !.pid = IF at \in {"stop", "stopping"} THEN @ ELSE None,
                           !.replaces = @ /\ at # "ok"]
<1>2. new \in ClientRec
  BY <1>1 DEF ClientRec, Stage
<1>3. client' = [client EXCEPT ![c] = new]
  BY <1>1 DEF ClientGoes, DaemonTypeOK
<1> QED
  BY <1>2, <1>3 DEF DaemonTypeOK

LEMMA SignalTyped ==
    ASSUME DaemonTypeOK, NEW d \in Daemon, Signal(d)
    PROVE  daemon' \in [Daemon -> DaemonRec]
<1>1. CASE daemon[d].at \in {"ready", "serving"} \cup Winding
  <2>1. daemon[d] \in DaemonRec /\ [daemon[d] EXCEPT !.told = TRUE] \in DaemonRec
    BY DEF DaemonTypeOK, DaemonRec
  <2> QED
    BY <1>1, <2>1 DEF Signal, DaemonTypeOK
<1>2. CASE daemon[d].at \notin {"ready", "serving"} \cup Winding
  BY <1>2, BecomesTyped DEF Signal, Place
<1> QED
  BY <1>1, <1>2

LEMMA TypesInit == LifecycleAssumption /\ InitDaemon => DaemonTypeOK
<1> SUFFICES ASSUME LifecycleAssumption, InitDaemon PROVE DaemonTypeOK
  OBVIOUS
<1>1. PICK at \in {"serving", "gone"}, current \in BOOLEAN :
        daemon = [d \in Daemon |->
             IF d = 1 /\ at = "serving"
             THEN [NoDaemon EXCEPT !.at = at, !.current = current, !.seen = 1] ELSE NoDaemon]
  BY DEF InitDaemon
<1>2. 1 \in Daemon
  BY DEF LifecycleAssumption, Daemon
<1>3. [NoDaemon EXCEPT !.at = at, !.current = current, !.seen = 1] \in DaemonRec
  BY <1>1, <1>2 DEF NoDaemon, DaemonRec
<1>4. daemon \in [Daemon -> DaemonRec]
  BY <1>1, <1>3, GoneTyped
<1>5. client \in [Client -> ClientRec]
  BY DEF InitDaemon, ClientRec
<1>6. pidFile \in Daemon \cup {None} /\ sockFile \in Daemon \cup {None}
  BY <1>2 DEF InitDaemon
<1>7. calls \in 0..MaxCalls /\ crashes \in 0..MaxCrashes
  BY DEF InitDaemon, LifecycleAssumption
<1> QED
  BY <1>4, <1>5, <1>6, <1>7 DEF DaemonTypeOK

LEMMA TypesDaemon ==
    ASSUME LifecycleAssumption, DaemonTypeOK, NEW d \in Daemon, Runs(d) \/ Crash(d)
    PROVE  DaemonTypeOK'
<1>1. CASE WritePID(d) \/ RemoveSocket(d) \/ Serve(d) \/ Drained(d)
  BY <1>1, BecomesTyped
     DEF WritePID, RemoveSocket, Serve, Drained, DaemonTypeOK, Place, Starting, Winding,
         counts, daemonFiles
<1>2. CASE Listen(d)
  BY <1>2, BecomesTyped DEF Listen, DaemonTypeOK, Place, Starting, Winding, counts
<1>3. CASE StatSocket(d)
  <2>1. [daemon[d] EXCEPT !.at = "ready", !.seen = sockFile] \in DaemonRec
    BY DEF DaemonTypeOK, DaemonRec, Starting
  <2>2. daemon' = [daemon EXCEPT ![d] = [daemon[d] EXCEPT !.at = "ready", !.seen = sockFile]]
    BY <1>3 DEF StatSocket, DaemonTypeOK
  <2> QED
    BY <1>3, <2>1, <2>2 DEF StatSocket, DaemonTypeOK, daemonFiles, counts
<1>4. CASE CloseServer(d) \/ RemoveOwnSocket(d)
  BY <1>4, BecomesTyped
     DEF CloseServer, RemoveOwnSocket, DaemonTypeOK, Place, Winding, counts
<1>5. CASE ReadOwnPID(d) \/ RemovePID(d)
  BY <1>5, BecomesTyped
     DEF ReadOwnPID, RemovePID, DaemonTypeOK, Place, Winding, counts, daemonFiles
<1>6. CASE Crash(d)
  <2>1. crashes' \in 0..MaxCrashes
    BY <1>6 DEF Crash, DaemonTypeOK, LifecycleAssumption
  <2> QED
    BY <1>6, <2>1, BecomesTyped DEF Place, Crash, DaemonTypeOK, daemonFiles
<1> QED
  BY <1>1, <1>2, <1>3, <1>4, <1>5, <1>6 DEF Runs

LEMMA TypesClient ==
    ASSUME LifecycleAssumption, DaemonTypeOK, NEW c \in Client, Call(c) \/ Acts(c)
    PROVE  DaemonTypeOK'
<1>1. CASE Call(c)
  <2>0. calls < MaxCalls /\ calls' = calls + 1
    BY <1>1 DEF Call
  <2>1. calls' \in 0..MaxCalls
    BY <2>0 DEF DaemonTypeOK, LifecycleAssumption
  <2>2. PICK replaces \in BOOLEAN :
          client' = [client EXCEPT ![c].at = "check", ![c].replaces = replaces]
    BY <1>1 DEF Call
  <2>3. [client[c] EXCEPT !.at = "check", !.replaces = replaces] \in ClientRec
    BY DEF DaemonTypeOK, ClientRec
  <2>4. client' \in [Client -> ClientRec]
    BY <2>2, <2>3 DEF DaemonTypeOK
  <2> QED
    BY <1>1, <2>1, <2>4 DEF Call, DaemonTypeOK, daemonFiles
<1>2. CASE Check(c)
  <2> DEFINE at == IF Running THEN "ping" ELSE IF c \in Launcher THEN "launch" ELSE "ok"
             pid == IF Running THEN pidFile ELSE None
  <2>0. at \in {"ping", "launch", "ok"} /\ pid \in Daemon \cup {None}
    BY DEF Running, Alive, DaemonTypeOK
  <2> HIDE DEF at, pid
  <2>1. [client[c] EXCEPT !.at = at, !.pid = pid] \in ClientRec
    BY <2>0 DEF DaemonTypeOK, ClientRec
  <2>2. client' = [client EXCEPT ![c] = [client[c] EXCEPT !.at = at, !.pid = pid]]
    BY <1>2 DEF Check, DaemonTypeOK, at, pid
  <2>3. client' \in [Client -> ClientRec]
    BY <2>1, <2>2 DEF DaemonTypeOK
  <2> QED
    BY <1>2, <2>3 DEF Check, DaemonTypeOK, daemonFiles, counts
<1>3. CASE Ping(c)
  BY <1>3, GoesTyped DEF Stage, Ping, AfterPing, DaemonTypeOK, daemonFiles, counts
<1>4. CASE Stop(c)
  BY <1>4, GoesTyped, SignalTyped DEF Stage, Stop, Alive, DaemonTypeOK, daemonFiles, counts
<1>5. CASE Stopped(c) \/ Launched(c) \/ LaunchDeadline(c)
  BY <1>5, GoesTyped
     DEF Stage, Stopped, Launched, LaunchDeadline, DaemonTypeOK, daemonFiles, counts
<1>6. CASE Launch(c)
  BY <1>6, GoesTyped
     DEF Stage, Launch, Unused, Spawned, DaemonRec, Starting, DaemonTypeOK, daemonFiles, counts
<1> QED
  BY <1>1, <1>2, <1>3, <1>4, <1>5, <1>6 DEF Acts

LEMMA TypesNext == LifecycleAssumption /\ DaemonTypeOK /\ [NextDaemon]_daemonVars => DaemonTypeOK'
<1>1. DaemonTypeOK /\ UNCHANGED daemonVars => DaemonTypeOK'
  BY DEF DaemonTypeOK, daemonVars, daemonFiles, counts
<1> QED
  BY <1>1, TypesDaemon, TypesClient DEF NextDaemon

\* The files name a daemon or nobody, and every daemon and command is somewhere in its
\* own code.
THEOREM DaemonTypes ==
    ASSUME LifecycleAssumption
    PROVE  SpecDaemon => []DaemonTypeOK
<1>1. InitDaemon => DaemonTypeOK
  BY TypesInit
<1>2. DaemonTypeOK /\ [NextDaemon]_daemonVars => DaemonTypeOK'
  BY TypesNext
<1> QED
  BY <1>1, <1>2, PTL DEF SpecDaemon

-----------------------------------------------------------------------------
(* Whose socket it is.  A PID names one daemon for as long as a file or a daemon     *)
(* remembers it, and a daemon listens once: so a socket that was unlinked never      *)
(* comes back under the name somebody remembers.                                     *)

Unbound == {"spawned", "named", "bare"}

\* A socket, or one that is remembered, was listened on.
Bound ==
    /\ sockFile \in Daemon => daemon[sockFile].at \notin Unbound
    /\ \A d \in Daemon : daemon[d].seen \in Daemon => daemon[daemon[d].seen].at \notin Unbound

\* A daemon that has not listened remembers no socket, and the one that a daemon
\* remembers that winds down is gone for good.
Forgotten ==
    \A d \in Daemon :
        /\ daemon[d].at \in Unbound => daemon[d].seen = None
        /\ daemon[d].at \in Winding => sockFile # daemon[d].seen \/ sockFile = None

SocketInv == DaemonTypeOK /\ Bound /\ Forgotten

LEMMA SocketInit == LifecycleAssumption /\ InitDaemon => SocketInv
<1> SUFFICES ASSUME LifecycleAssumption, InitDaemon PROVE SocketInv
  OBVIOUS
<1>1. DaemonTypeOK
  BY TypesInit
<1>2. \A d \in Daemon : daemon[d].at \in {"serving", "gone"}
  BY DEF InitDaemon, NoDaemon
<1> QED
  BY <1>1, <1>2 DEF SocketInv, DaemonTypeOK, DaemonRec, Bound, Forgotten, Unbound, Winding

\* A step that binds nobody, lets nobody remember anything new and unlinks at most.
LEMMA Unlinks ==
    ASSUME LifecycleAssumption, SocketInv, DaemonTypeOK', sockFile' \in {sockFile, None},
           \A d \in Daemon :
             /\ daemon'[d].at \in Unbound => daemon[d].at \in Unbound
             /\ daemon'[d].seen \in {None, daemon[d].seen}
             /\ daemon'[d].at \in Winding => daemon[d].at \in Winding \/ sockFile' = None
                                               \/ daemon[d].at \in Unbound
    PROVE  SocketInv'
<1>1. sockFile' \in Daemon => daemon'[sockFile'].at \notin Unbound
  BY NobodyApart DEF SocketInv, Bound
<1>2. ASSUME NEW d \in Daemon, daemon'[d].seen \in Daemon
      PROVE  daemon'[daemon'[d].seen].at \notin Unbound
  BY <1>2, NobodyApart DEF SocketInv, Bound
<1>3. Forgotten'
  BY DEF SocketInv, Forgotten, DaemonTypeOK
<1> QED
  BY <1>1, <1>2, <1>3 DEF SocketInv, Bound, Unbound

\* What moving a daemon on leaves of it.
LEMMA DaemonMoves ==
    ASSUME LifecycleAssumption, DaemonTypeOK, NEW d \in Daemon, NEW at, Becomes(d, at)
    PROVE  /\ \A e \in Daemon : e # d => daemon'[e] = daemon[e]
           /\ daemon'[d].at = at
           /\ daemon'[d].seen \in {None, daemon[d].seen}
  BY DEF Becomes, DaemonTypeOK, DaemonRec, NoDaemon

LEMMA SocketDaemon ==
    ASSUME LifecycleAssumption, SocketInv, NEW d \in Daemon, Runs(d) \/ Crash(d)
    PROVE  SocketInv'
<1> USE DEF Unbound
<1>0. DaemonTypeOK /\ DaemonTypeOK'
  BY TypesDaemon DEF SocketInv
<1>1. CASE WritePID(d) \/ RemoveSocket(d) \/ Serve(d) \/ Drained(d)
  BY <1>0, <1>1, DaemonMoves, Unlinks
     DEF WritePID, RemoveSocket, Serve, Drained, daemonFiles, Winding, SocketInv, Forgotten
<1>2. CASE Listen(d)
  <2>1. CASE sockFile = None
    <3>1. sockFile' = d /\ daemon'[d].at = "bound" /\ \A e \in Daemon : e # d => daemon'[e] = daemon[e]
      BY <1>0, <1>2, <2>1, DaemonMoves DEF Listen
    <3>2. \A e \in Daemon : daemon[e].seen # d
      BY <1>2 DEF Listen, SocketInv, Bound
    <3>3. daemon'[d].seen \in {None, daemon[d].seen}
      BY <1>0, <1>2, <2>1, DaemonMoves DEF Listen
    <3>6. \A e \in Daemon : /\ daemon'[e].seen \in Daemon => daemon'[e].seen = daemon[e].seen
                            /\ daemon'[e].at \in Unbound => daemon[e].at \in Unbound
      BY <1>2, <3>1, <3>3, NobodyApart DEF Listen
    <3>4. Bound'
      BY <3>1, <3>6 DEF SocketInv, Bound
    <3>5. Forgotten'
      BY <3>1, <3>2 DEF SocketInv, Forgotten, Winding
    <3> QED
      BY <1>0, <3>4, <3>5 DEF SocketInv
  <2>2. CASE sockFile # None
    BY <1>0, <1>2, <2>2, DaemonMoves, Unlinks DEF Listen, Winding, SocketInv, Forgotten
  <2> QED
    BY <2>1, <2>2
<1>3. CASE StatSocket(d)
  <2>1. /\ daemon'[d].at = "ready" /\ daemon'[d].seen = sockFile
        /\ \A e \in Daemon : e # d => daemon'[e] = daemon[e]
        /\ sockFile' = sockFile
    BY <1>0, <1>3 DEF StatSocket, DaemonTypeOK, DaemonRec, daemonFiles
  <2>2. Bound'
    BY <1>3, <2>1 DEF StatSocket, SocketInv, Bound
  <2> QED
    BY <1>0, <2>1, <2>2 DEF SocketInv, Forgotten, Winding
<1>4. CASE CloseServer(d)
  BY <1>0, <1>4, DaemonMoves, Unlinks DEF CloseServer, Winding, SocketInv, Forgotten
<1>5. CASE RemoveOwnSocket(d) \/ ReadOwnPID(d) \/ RemovePID(d) \/ Crash(d)
  BY <1>0, <1>5, DaemonMoves, Unlinks
     DEF RemoveOwnSocket, ReadOwnPID, RemovePID, Crash, daemonFiles, Winding,
         SocketInv, Forgotten
<1> QED
  BY <1>1, <1>2, <1>3, <1>4, <1>5 DEF Runs

\* A PID a command kept from its look at the file is as good as any: a signal binds
\* nobody.
LEMMA SocketClient ==
    ASSUME LifecycleAssumption, SocketInv, NEW c \in Client, Call(c) \/ Acts(c)
    PROVE  SocketInv'
<1>0. DaemonTypeOK /\ DaemonTypeOK'
  BY TypesClient DEF SocketInv
<1>1. CASE UNCHANGED <<daemonFiles, daemon>>
  BY <1>0, <1>1, Unlinks DEF daemonFiles, SocketInv, Forgotten
<1>2. CASE Stop(c) /\ Alive(client[c].pid)
  <2> DEFINE d == client[c].pid
  <2>1. d \in Daemon /\ Signal(d) /\ sockFile' = sockFile
    BY <1>2 DEF Stop, Alive, daemonFiles
  <2>2. CASE daemon[d].at \in {"ready", "serving"} \cup Winding
    <3>1. daemon' = [daemon EXCEPT ![d].told = TRUE]
      BY <2>1, <2>2 DEF Signal
    <3>2. \A e \in Daemon : /\ daemon'[e].at = daemon[e].at
                            /\ daemon'[e].seen = daemon[e].seen
      BY <1>0, <2>1, <3>1 DEF DaemonTypeOK, DaemonRec
    <3> QED
      BY <1>0, <2>1, <3>2, Unlinks DEF SocketInv, Forgotten
  <2>3. CASE daemon[d].at \notin {"ready", "serving"} \cup Winding
    <3>1. Becomes(d, "gone")
      BY <2>1, <2>3 DEF Signal
    <3> QED
      BY <1>0, <2>1, <3>1, DaemonMoves, Unlinks DEF Unbound, Winding, SocketInv, Forgotten
  <2> QED
    BY <2>2, <2>3
<1>3. CASE Launch(c)
  <2>1. PICK d \in Unused : daemon' = [daemon EXCEPT ![d] = Spawned]
    BY <1>3 DEF Launch
  <2>2. /\ d \in Daemon /\ d # sockFile /\ sockFile' = sockFile
        /\ \A e \in Daemon : daemon[e].seen # d
    BY <1>3, <2>1 DEF Launch, Unused, daemonFiles
  <2>3. /\ daemon'[d] = Spawned
        /\ \A e \in Daemon : e # d => daemon'[e] = daemon[e]
    BY <1>0, <2>1, <2>2 DEF DaemonTypeOK
  <2>4. Bound'
    BY <2>2, <2>3, NobodyApart DEF SocketInv, Bound, Spawned
  <2>5. Forgotten'
    BY <2>2, <2>3 DEF SocketInv, Forgotten, Spawned
  <2> QED
    BY <1>0, <2>4, <2>5 DEF SocketInv
<1> QED
  BY <1>1, <1>2, <1>3
     DEF Acts, Call, Check, Ping, Stop, Stopped, Launched, LaunchDeadline

LEMMA SocketNext == LifecycleAssumption /\ SocketInv /\ [NextDaemon]_daemonVars => SocketInv'
<1>1. SocketInv /\ UNCHANGED daemonVars => SocketInv'
  BY TypesNext DEF SocketInv, DaemonTypeOK, Bound, Forgotten, daemonVars, daemonFiles, counts
<1> QED
  BY <1>1, SocketDaemon, SocketClient DEF NextDaemon

\* A step of a daemon that winds down leaves the socket of another alone.
LEMMA SuccessorStep ==
    ASSUME SocketInv, NextDaemon, NEW d \in Daemon, daemon[d].at \in Winding,
           daemon'[d] # daemon[d], sockFile \notin {None, d}
    PROVE  sockFile' = sockFile
<1>1. CASE \E c \in Client : Call(c) \/ Acts(c)
  BY <1>1
     DEF Acts, Call, Check, Ping, Stop, Stopped, Launch, Launched, LaunchDeadline, daemonFiles
<1>2. CASE \E e \in Daemon : Runs(e) \/ Crash(e)
  <2>1. PICK e \in Daemon : Runs(e) \/ Crash(e)
    BY <1>2
  <2>2. e = d
    BY <2>1 DEF Runs, Crash, WritePID, RemoveSocket, Listen, StatSocket, Serve,
          CloseServer, Drained, RemoveOwnSocket, ReadOwnPID, RemovePID,
          Becomes, SocketInv, DaemonTypeOK
  <2>3. Drained(d) \/ RemoveOwnSocket(d) \/ ReadOwnPID(d)
          \/ RemovePID(d) \/ Crash(d)
    BY <2>1, <2>2 DEF Runs, WritePID, RemoveSocket, Listen, StatSocket, Serve,
          CloseServer, Winding
  <2> QED
    BY <2>3 DEF Drained, RemoveOwnSocket, SameSocket, ReadOwnPID,
          RemovePID, Crash, daemonFiles, SocketInv, Forgotten
<1> QED
  BY <1>1, <1>2 DEF NextDaemon

\* A daemon that winds down leaves the socket of its successor alone,
\* whichever daemons were launched, replaced, told to exit or killed meanwhile, and
\* however their PIDs are given again (RemoveOwnSocket; daemon.go's os.SameFile).
THEOREM SuccessorSafe ==
    ASSUME LifecycleAssumption
    PROVE  SpecDaemon => SuccessorKept
<1>1. InitDaemon => SocketInv
  BY SocketInit
<1>2. SocketInv /\ [NextDaemon]_daemonVars => SocketInv'
  BY SocketNext
<1>3. SocketInv /\ [NextDaemon]_daemonVars =>
        [\A d \in Daemon :
          daemon[d].at \in Winding /\ daemon'[d] # daemon[d]
            /\ sockFile \notin {None, d} => sockFile' = sockFile]_daemonVars
  BY SuccessorStep
<1> QED
  BY <1>1, <1>2, <1>3, PTL DEF SpecDaemon, SuccessorKept

-----------------------------------------------------------------------------
(***************************************************************************)
(* CommandOutput: a buffer is the tail of what its command wrote, however  *)
(* often the stream was cut, and a pane shows a part of it, for every size *)
(* of buffer, pane and output.                                             *)
(***************************************************************************)

(* The numbers a command writes. *)

LEMMA RunElements ==
    ASSUME NEW a \in Nat, NEW b \in Nat, a <= b
    PROVE  /\ Run(a, b) \in Seq(Nat)
           /\ Len(Run(a, b)) = b - a
           /\ \A i \in 1..(b - a) : Run(a, b)[i] = a + i
<1>1. Run(a, b) \in [1..(b - a) -> Nat]
  BY DEF Run
<1>2. b - a \in Nat
  OBVIOUS
<1>3. Run(a, b) \in Seq(Nat)
  BY <1>1, <1>2, SeqDef, Zenon
<1>4. DOMAIN Run(a, b) = 1..(b - a)
  BY DEF Run
<1>5. Len(Run(a, b)) = b - a
  BY <1>2, <1>3, <1>4, LenProperties
<1> QED
  BY <1>3, <1>5 DEF Run

\* Two runs of which the one ends where the other begins are one.
LEMMA RunJoin ==
    ASSUME NEW a \in Nat, NEW b \in Nat, NEW c \in Nat, a <= b, b <= c
    PROVE  Run(a, b) \o Run(b, c) = Run(a, c)
<1>1. /\ Run(a, b) \in Seq(Nat) /\ Len(Run(a, b)) = b - a
      /\ \A i \in 1..(b - a) : Run(a, b)[i] = a + i
  BY RunElements
<1>2. /\ Run(b, c) \in Seq(Nat) /\ Len(Run(b, c)) = c - b
      /\ \A i \in 1..(c - b) : Run(b, c)[i] = b + i
  BY RunElements
<1>3. /\ Run(a, c) \in Seq(Nat) /\ Len(Run(a, c)) = c - a
      /\ \A i \in 1..(c - a) : Run(a, c)[i] = a + i
  BY RunElements
<1> DEFINE all == Run(a, b) \o Run(b, c)
<1>a. /\ all \in Seq(Nat) /\ Len(all) = Len(Run(a, b)) + Len(Run(b, c))
      /\ \A i \in 1..Len(Run(a, b)) + Len(Run(b, c)) :
           all[i] = IF i <= Len(Run(a, b)) THEN Run(a, b)[i]
                    ELSE Run(b, c)[i - Len(Run(a, b))]
  BY <1>1, <1>2, ConcatProperties
<1> HIDE DEF all
<1>4. /\ all \in Seq(Nat) /\ Len(all) = (b - a) + (c - b)
      /\ \A i \in 1..((b - a) + (c - b)) :
           all[i] = IF i <= b - a THEN Run(a, b)[i] ELSE Run(b, c)[i - (b - a)]
  BY <1>a, <1>1, <1>2
<1>5. Len(all) = Len(Run(a, c))
  BY <1>3, <1>4
<1>6. ASSUME NEW i \in 1..Len(all) PROVE all[i] = Run(a, c)[i]
  <2>1. i \in 1..(c - a) /\ Run(a, c)[i] = a + i
    BY <1>3, <1>5
  <2>2. CASE i <= b - a
    <3>1. i \in 1..(b - a)
      BY <2>1, <2>2
    <3> QED
      BY <1>1, <1>4, <2>1, <2>2, <3>1
  <2>3. CASE i > b - a
    <3>1. i - (b - a) \in 1..(c - b)
      BY <2>1, <2>3
    <3>2. all[i] = Run(b, c)[i - (b - a)]
      BY <1>4, <2>1, <2>3
    <3>3. all[i] = b + (i - (b - a))
      BY <1>2, <3>1, <3>2
    <3> QED
      BY <2>1, <3>3
  <2> QED
    BY <2>1, <2>2, <2>3
<1> QED
  BY <1>3, <1>4, <1>5, <1>6, SeqEqual DEF all

\* The end of a run is a run.
LEMMA RunEnd ==
    ASSUME NEW a \in Nat, NEW b \in Nat, a <= b, NEW k \in 0..(b - a)
    PROVE  SubSeq(Run(a, b), k + 1, Len(Run(a, b))) = Run(a + k, b)
<1>1. /\ Run(a, b) \in Seq(Nat) /\ Len(Run(a, b)) = b - a
      /\ \A i \in 1..(b - a) : Run(a, b)[i] = a + i
  BY RunElements
<1>2. /\ Run(a + k, b) \in Seq(Nat) /\ Len(Run(a + k, b)) = b - (a + k)
      /\ \A i \in 1..(b - (a + k)) : Run(a + k, b)[i] = (a + k) + i
  BY RunElements, a + k \in Nat, a + k <= b
<1> DEFINE rest == SubSeq(Run(a, b), k + 1, b - a)
<1>3. \A i \in (k + 1)..(b - a) : Run(a, b)[i] \in Nat
  BY <1>1
<1>4. /\ rest \in Seq(Nat)
      /\ Len(rest) = IF k + 1 <= b - a THEN (b - a) - (k + 1) + 1 ELSE 0
      /\ \A i \in 1..((b - a) - (k + 1) + 1) : rest[i] = Run(a, b)[(k + 1) + i - 1]
  BY <1>3, k + 1 \in Int, b - a \in Int, SubSeqProperties
<1> HIDE DEF rest
<1>5. Len(rest) = b - (a + k)
  BY <1>4
<1>6. ASSUME NEW i \in 1..Len(rest) PROVE rest[i] = Run(a + k, b)[i]
  <2>1. /\ i \in 1..(b - (a + k)) /\ (k + 1) + i - 1 \in 1..(b - a)
        /\ i \in 1..((b - a) - (k + 1) + 1)
    BY <1>5
  <2>2. rest[i] = a + ((k + 1) + i - 1)
    BY <1>1, <1>4, <2>1
  <2> QED
    BY <1>2, <2>1, <2>2
<1>7. rest = Run(a + k, b)
  BY <1>2, <1>4, <1>5, <1>6, SeqEqual
<1> QED
  BY <1>1, <1>7 DEF rest

\* Appending keeps the tail.
LEMMA AppendedTail ==
    ASSUME OutputAssumption, NEW b, NEW from \in Nat, NEW to \in Nat,
           b \in [data : Seq(Nat), dropped : Nat, running : BOOLEAN, failed : BOOLEAN],
           b.dropped <= from, from <= to, b.data = Run(b.dropped, from)
    PROVE  LET e == Appended(b, Run(from, to))
           IN  /\ e \in [data : Seq(Nat), dropped : Nat, running : BOOLEAN, failed : BOOLEAN]
               /\ e.dropped <= to /\ e.data = Run(e.dropped, to) /\ Len(e.data) <= BufferCap
<1> DEFINE all == b.data \o Run(from, to)
           excess == IF Len(all) > BufferCap THEN Len(all) - BufferCap ELSE 0
           e == Appended(b, Run(from, to))
<1>1. b.dropped \in Nat /\ BufferCap \in Nat \ {0}
  BY DEF OutputAssumption
<1>2. all = Run(b.dropped, to)
  <2>1. Run(b.dropped, from) \o Run(from, to) = Run(b.dropped, to)
    BY <1>1, RunJoin
  <2> QED
    BY <2>1
<1>3. e = [b EXCEPT !.data = SubSeq(all, excess + 1, Len(all)), !.dropped = @ + excess]
  BY DEF Appended
<1>4. all \in Seq(Nat) /\ Len(all) = to - b.dropped
  <2>1. b.dropped <= to
    BY <1>1
  <2> HIDE DEF all
  <2> QED
    BY <1>1, <1>2, <2>1, RunElements
<1> HIDE DEF all
<1>5. excess \in 0..(to - b.dropped) /\ (to - b.dropped) - excess <= BufferCap
  BY <1>1, <1>4
<1> HIDE DEF excess, e
<1> DEFINE start == b.dropped + excess
<1>6. start \in Nat /\ start <= to /\ to - start <= BufferCap
  BY <1>1, <1>5
<1>7. SubSeq(all, excess + 1, Len(all)) = Run(start, to)
  <2>1. b.dropped <= to
    BY <1>1
  <2>2. SubSeq(Run(b.dropped, to), excess + 1, Len(Run(b.dropped, to))) = Run(start, to)
    BY <1>1, <1>5, <2>1, RunEnd
  <2> QED
    BY <1>2, <2>2
<1>8. e = [b EXCEPT !.data = Run(start, to), !.dropped = start]
  BY <1>3, <1>7
<1> HIDE DEF start
<1>9. Run(start, to) \in Seq(Nat) /\ Len(Run(start, to)) = to - start
  BY <1>6, RunElements
<1>10. /\ e \in [data : Seq(Nat), dropped : Nat, running : BOOLEAN, failed : BOOLEAN]
       /\ e.data = Run(start, to) /\ e.dropped = start
  BY <1>6, <1>8, <1>9
<1>11. e.dropped <= to /\ e.data = Run(e.dropped, to) /\ Len(e.data) <= BufferCap
  BY <1>6, <1>9, <1>10
<1> QED
  BY <1>10, <1>11 DEF e

-----------------------------------------------------------------------------
(* The buffers. *)

OutBuffer == [data : Seq(Nat), dropped : Nat, running : BOOLEAN, failed : BOOLEAN]

OutBuffers ==
    /\ stream \in [Command -> Stream]
    /\ buffer \in [Command -> OutBuffer]
    /\ \A c \in Command : /\ buffer[c].dropped <= stream[c].cursor
                          /\ Len(buffer[c].data) <= BufferCap
    /\ BufferIsTail

LEMMA OutBuffersInit == OutputAssumption /\ InitOutput => OutBuffers
<1> SUFFICES ASSUME OutputAssumption, InitOutput PROVE OutBuffers
  OBVIOUS
<1>1. NoStream \in Stream /\ NoStream.cursor = 0
  BY DEF NoStream, Stream, OutputAssumption
<1>2. /\ EmptyBuffer \in OutBuffer /\ EmptyBuffer.dropped = 0 /\ EmptyBuffer.data = << >>
      /\ Len(EmptyBuffer.data) = 0
  BY DEF EmptyBuffer, OutBuffer
<1>3. << >> = Run(0, 0)
  <2>1. Run(0, 0) \in Seq(Nat) /\ Len(Run(0, 0)) = 0
    BY RunElements
  <2> QED
    BY <2>1, EmptySeq
<1> QED
  BY <1>1, <1>2, <1>3 DEF InitOutput, OutBuffers, BufferIsTail, OutputAssumption

\* A step that changes one command's buffer and reader.
LEMMA OutBuffersChange ==
    ASSUME OutBuffers, NEW c \in Command, NEW s \in Stream, NEW b \in OutBuffer,
           stream' = [stream EXCEPT ![c] = s], buffer' = [buffer EXCEPT ![c] = b],
           b.dropped <= s.cursor, Len(b.data) <= BufferCap, b.data = Run(b.dropped, s.cursor)
    PROVE  OutBuffers'
<1>1. stream' \in [Command -> Stream] /\ buffer' \in [Command -> OutBuffer]
  BY DEF OutBuffers
<1>2. \A d \in Command : /\ stream'[d] = IF d = c THEN s ELSE stream[d]
                         /\ buffer'[d] = IF d = c THEN b ELSE buffer[d]
  BY DEF OutBuffers
<1>3. ASSUME NEW d \in Command
      PROVE  /\ buffer'[d].dropped <= stream'[d].cursor /\ Len(buffer'[d].data) <= BufferCap
             /\ buffer'[d].data = Run(buffer'[d].dropped, stream'[d].cursor)
  BY <1>2 DEF OutBuffers, BufferIsTail
<1> QED
  BY <1>1, <1>3 DEF OutBuffers, BufferIsTail

LEMMA OutBuffersNext ==
    ASSUME OutputAssumption, OutBuffers, [NextOutput]_outputVars
    PROVE  OutBuffers'
<1>1. CASE UNCHANGED streamVars
  BY <1>1 DEF streamVars, OutBuffers, BufferIsTail
<1>2. ASSUME NEW c \in Command
      PROVE  /\ stream[c] \in Stream /\ buffer[c] \in OutBuffer
             /\ buffer[c].dropped <= stream[c].cursor /\ Len(buffer[c].data) <= BufferCap
             /\ buffer[c].data = Run(buffer[c].dropped, stream[c].cursor)
  BY DEF OutBuffers, BufferIsTail
\* What leaves the cursor and the data alone.
<1>3. ASSUME NEW c \in Command, NEW s \in Stream, s.cursor = stream[c].cursor,
             stream' = [stream EXCEPT ![c] = s], NEW r \in BOOLEAN, NEW f \in BOOLEAN,
             buffer' = [buffer EXCEPT ![c] = [@ EXCEPT !.running = r, !.failed = f]]
      PROVE  OutBuffers'
  <2> DEFINE b == [buffer[c] EXCEPT !.running = r, !.failed = f]
  <2>1. b \in OutBuffer /\ b.dropped = buffer[c].dropped /\ b.data = buffer[c].data
    BY <1>2 DEF OutBuffer
  <2>2. buffer' = [buffer EXCEPT ![c] = b]
    BY <1>3
  <2> HIDE DEF b
  <2> QED
    BY <1>2, <1>3, <2>1, <2>2, OutBuffersChange
<1>4. ASSUME NEW c \in Command, NEW s \in Stream, s.cursor = stream[c].cursor,
             stream' = [stream EXCEPT ![c] = s], UNCHANGED buffer
      PROVE  OutBuffers'
  <2>1. buffer' = [buffer EXCEPT ![c] = buffer[c]]
    BY <1>4 DEF OutBuffers
  <2> QED
    BY <1>2, <1>4, <2>1, OutBuffersChange
<1>5. ASSUME NEW c \in Command, NEW failed \in BOOLEAN, NEW s \in Stream,
             s.cursor = stream[c].cursor, stream' = [stream EXCEPT ![c] = s],
             buffer' = [buffer EXCEPT ![c] = Finished(@, failed)]
      PROVE  OutBuffers'
  <2>1. buffer' = [buffer EXCEPT ![c] = [@ EXCEPT !.running = FALSE, !.failed = failed]]
    BY <1>5 DEF Finished
  <2> QED
    BY <1>3, <1>5, <2>1
<1>6. ASSUME NEW c \in Command, RegisterCommand(c) PROVE OutBuffers'
  <2>1. PICK served \in BOOLEAN :
          /\ stream' = [stream EXCEPT ![c].at = IF served THEN "away" ELSE "over"]
          /\ buffer' = [buffer EXCEPT ![c].running = served, ![c].failed = ~served]
    BY <1>6 DEF RegisterCommand
  <2> DEFINE s == [stream[c] EXCEPT !.at = IF served THEN "away" ELSE "over"]
  <2>2. s \in Stream /\ s.cursor = stream[c].cursor
    BY <1>2 DEF Stream
  <2>3. stream' = [stream EXCEPT ![c] = s]
    BY <2>1
  <2>4. buffer' = [buffer EXCEPT ![c] = [@ EXCEPT !.running = served, !.failed = ~served]]
    BY <1>2, <2>1 DEF OutBuffers, OutBuffer
  <2> HIDE DEF s
  <2> QED
    BY <1>3, <2>2, <2>3, <2>4
<1>7. ASSUME NEW c \in Command, Connect(c) PROVE OutBuffers'
  <2> DEFINE s == [stream[c] EXCEPT !.at = "open", !.seen = FALSE]
  <2>1. s \in Stream /\ s.cursor = stream[c].cursor
    BY <1>2 DEF Stream
  <2>2. stream' = [stream EXCEPT ![c] = s]
    BY <1>2, <1>7 DEF Connect, OutBuffers
  <2> HIDE DEF s
  <2> QED
    BY <1>4, <1>7, <2>1, <2>2 DEF Connect
<1>8. ASSUME NEW c \in Command, Frame(c) PROVE OutBuffers'
  <2>1. PICK to \in (stream[c].cursor + 1)..Size :
          /\ buffer' = [buffer EXCEPT ![c] = Appended(@, Run(stream[c].cursor, to))]
          /\ stream' = [stream EXCEPT ![c].seen = TRUE, ![c].cursor = to]
    BY <1>8 DEF Frame
  <2> DEFINE s == [stream[c] EXCEPT !.seen = TRUE, !.cursor = to]
             b == Appended(buffer[c], Run(stream[c].cursor, to))
  <2>2. stream[c].cursor \in Nat /\ to \in 0..Size /\ stream[c].cursor <= to
    BY <1>2, <2>1 DEF Stream, OutputAssumption
  <2>3. s \in Stream /\ s.cursor = to
    BY <1>2, <2>2 DEF Stream
  <2>4. stream' = [stream EXCEPT ![c] = s]
    BY <1>2, <2>1 DEF OutBuffers
  <2>5. buffer' = [buffer EXCEPT ![c] = b]
    BY <2>1
  <2>6. /\ b \in OutBuffer /\ b.dropped <= to /\ Len(b.data) <= BufferCap
        /\ b.data = Run(b.dropped, to)
    <3>1. to \in Nat
      BY <2>2
    <3> HIDE DEF s
    <3> QED
      BY <1>2, <2>2, <3>1, AppendedTail DEF OutBuffer
  <2> HIDE DEF s, b
  <2> QED
    BY <2>3, <2>4, <2>5, <2>6, OutBuffersChange
<1>9. ASSUME NEW c \in Command, NEW at \in {"away", "over"}, NEW stalls \in 0..MaxStalls,
             NEW tries \in 0..MaxStreamAttempts,
             stream' = [stream EXCEPT ![c].at = at, ![c].stalls = stalls,
                                      ![c].attempts = tries],
             UNCHANGED buffer \/ \E failed \in BOOLEAN :
                                    buffer' = [buffer EXCEPT ![c] = Finished(@, failed)]
      PROVE  OutBuffers'
  <2> DEFINE s == [stream[c] EXCEPT !.at = at, !.stalls = stalls, !.attempts = tries]
  <2>1. s \in Stream /\ s.cursor = stream[c].cursor
    BY <1>2, <1>9 DEF Stream
  <2>2. stream' = [stream EXCEPT ![c] = s]
    BY <1>2, <1>9 DEF OutBuffers
  <2> HIDE DEF s
  <2> QED
    BY <1>4, <1>5, <1>9, <2>1, <2>2
<1>10. ASSUME NEW c \in Command, NEW failed \in BOOLEAN,
              stream' = [stream EXCEPT ![c].at = "over"],
              buffer' = [buffer EXCEPT ![c] = Finished(@, failed)]
       PROVE  OutBuffers'
  <2> DEFINE s == [stream[c] EXCEPT !.at = "over"]
  <2>1. s \in Stream /\ s.cursor = stream[c].cursor
    BY <1>2 DEF Stream
  <2>2. stream' = [stream EXCEPT ![c] = s]
    BY <1>2, <1>10 DEF OutBuffers
  <2> HIDE DEF s
  <2> QED
    BY <1>5, <1>10, <2>1, <2>2
<1>11. ASSUME NEW c \in Command, Exit(c) PROVE OutBuffers'
  BY <1>10, <1>11 DEF Exit
<1>12. ASSUME NEW c \in Command, NEW err \in BOOLEAN, NEW rejected \in BOOLEAN,
              Ends(c, err, rejected)
       PROVE  OutBuffers'
  <2> DEFINE stalls == IF stream[c].seen THEN 0
                       ELSE IF err THEN stream[c].stalls + 1 ELSE stream[c].stalls
  <2>1. stalls \in Nat /\ stream[c].attempts \in 0..MaxStreamAttempts
    BY <1>2 DEF Stream, OutputAssumption
  <2>2. CASE rejected \/ stalls > MaxStalls \/ stream[c].attempts + 1 >= MaxStreamAttempts
    <3>1. /\ stream' = [stream EXCEPT ![c].at = "over"]
          /\ buffer' = [buffer EXCEPT ![c] = Finished(@, TRUE)]
      BY <1>12, <2>2 DEF Ends
    <3> QED
      BY <1>10, <3>1
  <2>3. CASE ~(rejected \/ stalls > MaxStalls \/ stream[c].attempts + 1 >= MaxStreamAttempts)
    <3>1. /\ stream' = [stream EXCEPT ![c].at = "away", ![c].stalls = stalls,
                                      ![c].attempts = @ + 1]
          /\ UNCHANGED buffer
      BY <1>12, <2>3 DEF Ends
    <3>2. stalls \in 0..MaxStalls /\ stream[c].attempts + 1 \in 0..MaxStreamAttempts
      BY <2>1, <2>3 DEF OutputAssumption
    <3> HIDE DEF stalls
    <3>3. stream' = [stream EXCEPT ![c].at = "away", ![c].stalls = stalls,
                                   ![c].attempts = stream[c].attempts + 1]
      BY <1>2, <3>1 DEF OutBuffers, Stream
    <3> QED
      BY <1>9, <3>1, <3>2, <3>3
  <2> QED
    BY <2>2, <2>3
<1>13. ASSUME NEW c \in Command, Cut(c) PROVE OutBuffers'
  BY <1>12, <1>13 DEF Cut
<1> QED
  BY <1>1, <1>6, <1>7, <1>8, <1>11, <1>13 DEF NextOutput, outputVars, OpenPane, ClosePane, Tick,
     Answer, AnswerFails

-----------------------------------------------------------------------------
(* The pane. *)

OutPane == [open : BOOLEAN, seq : Nat, cmd : Command \cup {CHOOSE c \in Command : TRUE},
            text : Seq(Nat), offset : 0..Size, running : BOOLEAN, truncated : BOOLEAN,
            err : BOOLEAN]
OutAsk == [cmd : Command, seq : Nat, offset : 0..Size]

OutPanes ==
    /\ pane \in OutPane /\ Len(pane.text) <= PaneCap
    /\ asked \subseteq OutAsk /\ panes \in 0..MaxPanes
    /\ pane.open => pane.cmd \in Command

OutInv == OutBuffers /\ OutPanes

LEMMA OutInvType == OutputAssumption /\ OutInv => OutputTypeOK
<1> SUFFICES ASSUME OutputAssumption, OutInv PROVE OutputTypeOK
  OBVIOUS
<1>1. ASSUME NEW c \in Command
      PROVE  Len(buffer[c].data) <= BufferCap /\ buffer[c].dropped \in 0..Size
  BY DEF OutInv, OutBuffers, OutBuffer, Stream, OutputAssumption
<1> QED
  BY <1>1 DEF OutputTypeOK, OutInv, OutBuffers, OutPanes, OutPane

LEMMA OutClosed == OutputAssumption => Closed \in OutPane /\ Closed.text = << >>
                                       /\ Len(Closed.text) = 0 /\ ~Closed.open
<1>1. << >> \in Seq(Nat) /\ Len(<< >>) = 0
  BY EmptySeq, Zenon
<1> QED
  BY <1>1 DEF Closed, OutPane, OutputAssumption

LEMMA OutPanesInit == OutputAssumption /\ InitOutput => OutPanes
  BY OutClosed DEF InitOutput, OutPanes, OutputAssumption

\* What the pane keeps of its text and of what is added to it.
LEMMA FedTail ==
    ASSUME OutputAssumption, NEW text \in Seq(Nat), NEW data \in Seq(Nat)
    PROVE  /\ Fed(text, data) \in Seq(Nat) /\ Len(Fed(text, data)) <= PaneCap
           /\ Len(text \o data) \in Nat
           /\ \E k \in Nat : /\ k + Len(Fed(text, data)) = Len(text \o data)
                             /\ \A i \in 1..Len(Fed(text, data)) :
                                  Fed(text, data)[i] = (text \o data)[k + i]
           /\ Len(text \o data) <= PaneCap => Fed(text, data) = text \o data
<1> DEFINE all == text \o data
           first == IF Len(all) > PaneCap THEN Len(all) - PaneCap + 1 ELSE 1
           fed == SubSeq(all, first, Len(all))
<1>1. Fed(text, data) = fed
  BY DEF Fed
<1>2. all \in Seq(Nat)
  BY ConcatProperties
<1> HIDE DEF all
<1>3. Len(all) \in Nat /\ \A i \in 1..Len(all) : all[i] \in Nat
  BY <1>2, LenProperties, ElementOfSeq
<1>4. PaneCap \in Nat \ {0}
  BY DEF OutputAssumption
<1>5. first \in Nat \ {0} /\ first <= Len(all) + 1 /\ Len(all) - first + 1 <= PaneCap
  BY <1>3, <1>4
<1>6. Len(all) <= PaneCap => first = 1
  BY <1>3, <1>4
<1> HIDE DEF first
<1>7. \A i \in first..Len(all) : all[i] \in Nat
  BY <1>3, <1>5
<1>8. /\ fed \in Seq(Nat) /\ Len(fed) = IF first <= Len(all) THEN Len(all) - first + 1 ELSE 0
      /\ \A i \in 1..(Len(all) - first + 1) : fed[i] = all[first + i - 1]
  BY <1>3, <1>5, <1>7, SubSeqProperties
<1>9. Len(all) <= PaneCap => fed = all
  BY <1>2, <1>6, SubSeqFull
<1> HIDE DEF fed
<1>10. Len(fed) = Len(all) - first + 1
  BY <1>3, <1>5, <1>8
<1>11. ASSUME NEW i \in 1..Len(fed) PROVE fed[i] = all[(first - 1) + i]
  BY <1>5, <1>8, <1>10
<1>12. first - 1 \in Nat /\ (first - 1) + Len(fed) = Len(all)
  BY <1>3, <1>5, <1>10
<1>13. \E k \in Nat : k + Len(fed) = Len(all) /\ \A i \in 1..Len(fed) : fed[i] = all[k + i]
  BY <1>11, <1>12
<1>14. fed \in Seq(Nat) /\ Len(fed) <= PaneCap
  BY <1>5, <1>8, <1>10
<1> QED
  BY <1>1, <1>3, <1>9, <1>13, <1>14 DEF all

\* What a buffer answers to a request.
LEMMA ReadIsRun ==
    ASSUME OutputAssumption, OutBuffers, NEW c \in Command, NEW offset \in 0..Size
    PROVE  LET chunk == ReadBuffer(buffer[c], offset)
           IN  /\ chunk.next = stream[c].cursor /\ chunk.next \in 0..Size
               /\ chunk.found = TRUE /\ chunk.running \in BOOLEAN /\ chunk.failed \in BOOLEAN
               /\ chunk.truncated \in BOOLEAN /\ chunk.data \in Seq(Nat)
               /\ offset <= stream[c].cursor =>
                    \E from \in offset..stream[c].cursor :
                       /\ chunk.data = Run(from, stream[c].cursor)
                       /\ ~chunk.truncated => from = offset
<1> DEFINE b == buffer[c]
           cursor == stream[c].cursor
           chunk == ReadBuffer(b, offset)
<1>1. /\ b \in OutBuffer /\ b.dropped <= cursor /\ b.data = Run(b.dropped, cursor)
      /\ cursor \in 0..Size
  BY DEF OutBuffers, BufferIsTail, Stream
<1> HIDE DEF b, cursor
<1>2. b.dropped \in Nat /\ cursor \in Nat /\ b.data \in Seq(Nat)
  BY <1>1 DEF OutBuffer, OutputAssumption
<1>3. Len(b.data) = cursor - b.dropped
  BY <1>1, <1>2, RunElements
<1>4. b.dropped + Len(b.data) = cursor
  BY <1>2, <1>3
<1> DEFINE data == IF offset < b.dropped THEN b.data
                   ELSE IF offset >= cursor THEN << >>
                   ELSE SubSeq(b.data, offset - b.dropped + 1, Len(b.data))
<1>5. chunk = [found |-> TRUE, next |-> cursor, running |-> b.running, failed |-> b.failed,
               truncated |-> offset < b.dropped, data |-> data]
  BY <1>4 DEF ReadBuffer
<1> DEFINE from == IF offset < b.dropped THEN b.dropped
                   ELSE IF offset >= cursor THEN cursor
                   ELSE offset
<1>6. from \in 0..cursor
  BY <1>1, <1>2
<1>7. data = Run(from, cursor)
  <2>1. CASE offset < b.dropped
    BY <1>1, <2>1
  <2>2. CASE ~(offset < b.dropped) /\ offset >= cursor
    <3>1. Run(cursor, cursor) \in Seq(Nat) /\ Len(Run(cursor, cursor)) = 0
      <4>1. cursor \in Nat /\ cursor <= cursor /\ cursor - cursor = 0
        BY <1>2
      <4> QED
        BY <4>1, RunElements
    <3>2. Run(cursor, cursor) = << >>
      <4>1. \A seq \in Seq(Nat) : seq # << >> => Len(seq) \in Nat \ {0}
        BY EmptySeq, Zenon
      <4> QED
        BY <3>1, <4>1
    <3> QED
      BY <2>2, <3>2
  <2>3. CASE ~(offset < b.dropped) /\ ~(offset >= cursor)
    <3> DEFINE k == offset - b.dropped
    <3>1. k \in 0..(cursor - b.dropped) /\ b.dropped + k = offset
      BY <1>2, <2>3
    <3>2. data = SubSeq(Run(b.dropped, cursor), k + 1, Len(Run(b.dropped, cursor)))
      BY <1>1, <2>3
    <3> HIDE DEF k, data
    <3>3. data = Run(b.dropped + k, cursor)
      BY <1>1, <1>2, <3>1, <3>2, RunEnd
    <3> QED
      BY <2>3, <3>1, <3>3
  <2> QED
    BY <2>1, <2>2, <2>3
<1> HIDE DEF data
<1>8. data \in Seq(Nat)
  <2> HIDE DEF from
  <2> QED
    BY <1>2, <1>6, <1>7, RunElements
<1>9. offset <= cursor => from \in offset..cursor /\ (~(offset < b.dropped) => from = offset)
  BY <1>1, <1>2
<1> HIDE DEF from, chunk
<1>10. /\ chunk.next = cursor /\ chunk.found = TRUE /\ chunk.running \in BOOLEAN
       /\ chunk.failed \in BOOLEAN /\ chunk.truncated = (offset < b.dropped)
       /\ chunk.data = data
  BY <1>1, <1>5 DEF OutBuffer
<1>11. offset <= cursor =>
         \E f \in offset..cursor : chunk.data = Run(f, cursor) /\ (~chunk.truncated => f = offset)
  BY <1>7, <1>9, <1>10
<1> QED
  BY <1>1, <1>8, <1>10, <1>11 DEF chunk, b, cursor

\* An answer that is folded in keeps the pane's type.
LEMMA OutShownType ==
    ASSUME OutputAssumption, OutInv, NEW chunk,
           chunk.next \in 0..Size, chunk.running \in BOOLEAN, chunk.failed \in BOOLEAN,
           chunk.truncated \in BOOLEAN, chunk.data \in Seq(Nat)
    PROVE  LET p == Shown(chunk)
           IN  /\ p \in OutPane /\ Len(p.text) <= PaneCap /\ p.open = pane.open /\ p.cmd = pane.cmd
               /\ p.text = Fed(pane.text, chunk.data) /\ p.offset = chunk.next
               /\ p.truncated = (pane.truncated \/ chunk.truncated
                                    \/ Len(pane.text \o chunk.data) > PaneCap)
<1> DEFINE p == Shown(chunk)
           fed == Fed(pane.text, chunk.data)
           lost == Len(pane.text \o chunk.data) > PaneCap
<1>1. pane \in OutPane /\ pane.text \in Seq(Nat)
  BY DEF OutInv, OutPanes, OutPane
<1>2. fed \in Seq(Nat) /\ Len(fed) <= PaneCap
  BY <1>1, FedTail
<1>3. p = [pane EXCEPT !.text = fed, !.offset = chunk.next, !.running = chunk.running,
                       !.truncated = @ \/ chunk.truncated \/ lost, !.err = chunk.failed]
  BY DEF Shown
<1> HIDE DEF fed, lost, p
<1>4. (pane.truncated \/ chunk.truncated \/ lost) \in BOOLEAN
  BY <1>1 DEF OutPane
<1>5. /\ p \in OutPane /\ p.open = pane.open /\ p.cmd = pane.cmd /\ p.text = fed
      /\ p.offset = chunk.next /\ p.truncated = (pane.truncated \/ chunk.truncated \/ lost)
  BY <1>1, <1>2, <1>3, <1>4 DEF OutPane
<1> QED
  BY <1>2, <1>5 DEF p, fed, lost

LEMMA OutPanesNext ==
    ASSUME OutputAssumption, OutInv, [NextOutput]_outputVars
    PROVE  OutPanes'
<1>1. CASE UNCHANGED paneVars
  BY <1>1 DEF paneVars, OutInv, OutPanes
<1>2. /\ pane \in OutPane /\ Len(pane.text) <= PaneCap /\ asked \subseteq OutAsk
      /\ panes \in 0..MaxPanes /\ (pane.open => pane.cmd \in Command)
  BY DEF OutInv, OutPanes
<1>3. ASSUME NEW c \in Command, OpenPane(c) PROVE OutPanes'
  <2>1. /\ panes < MaxPanes /\ panes' = panes + 1 /\ asked' = asked \cup {Ask(c, panes + 1, 0)}
        /\ pane' = [Closed EXCEPT !.open = TRUE, !.seq = panes + 1, !.cmd = c,
                                  !.running = buffer[c].running]
    BY <1>3 DEF OpenPane
  <2>2. panes + 1 \in 0..MaxPanes /\ panes + 1 \in Nat
    BY <1>2, <2>1 DEF OutputAssumption
  <2>3. buffer[c].running \in BOOLEAN
    BY DEF OutInv, OutBuffers, OutBuffer
  <2>4. /\ pane' \in OutPane /\ pane'.cmd = c /\ pane'.text = << >> /\ Len(pane'.text) = 0
    BY <2>1, <2>2, <2>3, OutClosed DEF OutPane
  <2>5. Ask(c, panes + 1, 0) \in OutAsk
    BY <2>2 DEF Ask, OutAsk, OutputAssumption
  <2> QED
    BY <1>2, <2>1, <2>2, <2>4, <2>5 DEF OutPanes, OutputAssumption
<1>4. CASE ClosePane
  BY <1>2, <1>4, OutClosed DEF ClosePane, OutPanes, OutputAssumption
<1>5. CASE Tick
  <2>1. Ask(pane.cmd, pane.seq, pane.offset) \in OutAsk
    BY <1>2, <1>5 DEF Tick, Ask, OutAsk, OutPane
  <2> QED
    BY <1>2, <1>5, <2>1 DEF Tick, OutPanes
<1>6. ASSUME NEW a \in asked, Answer(a) PROVE OutPanes'
  <2> DEFINE chunk == ReadStore(a.cmd, a.offset)
  <2>1. /\ asked' = asked \ {a} /\ UNCHANGED panes
        /\ pane' = IF ~pane.open \/ pane.cmd # a.cmd THEN pane
                   ELSE IF chunk.found THEN Shown(chunk)
                   ELSE [pane EXCEPT !.err = TRUE, !.running = FALSE]
    BY <1>6 DEF Answer
  <2>2. a.cmd \in Command /\ a.offset \in 0..Size
    BY <1>2 DEF OutAsk
  <2>3. CASE ~pane.open \/ pane.cmd # a.cmd
    BY <1>2, <2>1, <2>3 DEF OutPanes
  <2>4. CASE pane.open /\ pane.cmd = a.cmd /\ chunk.found
    <3>1. chunk = ReadBuffer(buffer[a.cmd], a.offset)
      BY <2>4 DEF ReadStore, NoOutput
    <3>2. /\ chunk.next \in 0..Size /\ chunk.running \in BOOLEAN /\ chunk.failed \in BOOLEAN
          /\ chunk.truncated \in BOOLEAN /\ chunk.data \in Seq(Nat)
      BY <2>2, <3>1, ReadIsRun DEF OutInv
    <3>3. pane' = Shown(chunk)
      BY <2>1, <2>4
    <3> HIDE DEF chunk
    <3>4. pane' \in OutPane /\ Len(pane'.text) <= PaneCap /\ pane'.cmd = pane.cmd
      BY <3>2, <3>3, OutShownType
    <3> QED
      BY <1>2, <2>1, <2>2, <2>4, <3>4 DEF OutPanes
  <2>5. CASE pane.open /\ pane.cmd = a.cmd /\ ~chunk.found
    <3>1. pane' = [pane EXCEPT !.err = TRUE, !.running = FALSE]
      BY <2>1, <2>5
    <3>2. pane' \in OutPane /\ pane'.text = pane.text /\ pane'.cmd = pane.cmd
      BY <1>2, <3>1 DEF OutPane
    <3> QED
      BY <1>2, <2>1, <2>2, <2>5, <3>2 DEF OutPanes
  <2> QED
    BY <2>3, <2>4, <2>5
<1>7. ASSUME NEW a \in asked, AnswerFails(a) PROVE OutPanes'
  <2>1. /\ asked' = asked \ {a} /\ UNCHANGED panes
        /\ pane' = IF pane.open /\ pane.cmd = a.cmd THEN [pane EXCEPT !.err = TRUE] ELSE pane
    BY <1>7 DEF AnswerFails
  <2>2. /\ pane' \in OutPane /\ pane'.text = pane.text /\ pane'.cmd = pane.cmd
        /\ pane'.open = pane.open
    BY <1>2, <2>1 DEF OutPane
  <2> QED
    BY <1>2, <2>1, <2>2 DEF OutPanes
<1> QED
  BY <1>1, <1>3, <1>4, <1>5, <1>6, <1>7
     DEF NextOutput, outputVars, RegisterCommand, Connect, Frame,
     Exit, Cut

LEMMA OutInvInit == OutputAssumption /\ InitOutput => OutInv
  BY OutBuffersInit, OutPanesInit DEF OutInv

LEMMA OutInvNext == OutputAssumption /\ OutInv /\ [NextOutput]_outputVars => OutInv'
  BY OutBuffersNext, OutPanesNext DEF OutInv

-----------------------------------------------------------------------------
(* What the pane shows, when a request is answered before the next one is made. *)

OutHonest ==
    /\ \A a, b \in asked : a = b
    /\ \A a \in asked : pane.open /\ pane.cmd = a.cmd => a.offset = pane.offset
    /\ pane.open => pane.offset <= stream[pane.cmd].cursor
    /\ \A i \in 1..Len(pane.text) : pane.text[i] <= pane.offset
    /\ \A i \in 1..(Len(pane.text) - 1) : pane.text[i] < pane.text[i + 1]
    /\ ~pane.truncated => pane.text = Run(0, pane.offset)

LEMMA OutHonestInit == OutputAssumption /\ InitOutput => OutHonest
<1> SUFFICES ASSUME OutputAssumption, InitOutput PROVE OutHonest
  OBVIOUS
<1>1. Run(0, 0) = << >>
  <2>1. Run(0, 0) \in Seq(Nat) /\ Len(Run(0, 0)) = 0
    BY RunElements
  <2> QED
    BY <2>1, EmptySeq
<1>2. Closed.offset = 0 /\ Closed.text = << >> /\ Len(Closed.text) = 0 /\ ~Closed.open
  BY OutClosed DEF Closed
<1> QED
  BY <1>1, <1>2 DEF InitOutput, OutHonest

LEMMA OutHonestShown == OutHonest => PaneHonest
  BY DEF OutHonest, PaneHonest

\* A command's cursor only moves on.
LEMMA CursorMovesOn ==
    ASSUME OutputAssumption, OutInv, [NextOutput]_outputVars, NEW c \in Command
    PROVE  stream[c].cursor \in Nat /\ stream[c].cursor <= stream'[c].cursor
<1>1. \A d \in Command : stream[d] \in Stream
  BY DEF OutInv, OutBuffers
<1>2. \A d \in Command : stream[d].cursor \in Nat
  BY <1>1 DEF Stream, OutputAssumption
<1>3. stream \in [Command -> Stream]
  BY DEF OutInv, OutBuffers
<1>4. CASE UNCHANGED streamVars
  BY <1>2, <1>4 DEF streamVars
<1>5. ASSUME NEW d \in Command, RegisterCommand(d) \/ Connect(d) \/ Frame(d) \/ Exit(d) \/ Cut(d)
      PROVE  stream[c].cursor <= stream'[c].cursor
  <2>1. CASE RegisterCommand(d)
    BY <1>2, <1>3, <2>1 DEF RegisterCommand, Stream
  <2>2. CASE Connect(d)
    BY <1>2, <1>3, <2>2 DEF Connect, Stream
  <2>3. CASE Frame(d)
    BY <1>2, <1>3, <2>3 DEF Frame, Stream, OutputAssumption
  <2>4. CASE Exit(d)
    BY <1>2, <1>3, <2>4 DEF Exit, Stream
  <2>5. CASE Cut(d)
    <3>1. ASSUME NEW err \in BOOLEAN, NEW rejected \in BOOLEAN, Ends(d, err, rejected)
          PROVE  stream'[c].cursor = stream[c].cursor
      <4>1. \/ stream' = [stream EXCEPT ![d].at = "over"]
            \/ \E n : stream' = [stream EXCEPT ![d].at = "away", ![d].stalls = n,
                                                ![d].attempts = @ + 1]
        BY <3>1 DEF Ends
      <4>2. CASE stream' = [stream EXCEPT ![d].at = "over"]
        BY <1>1, <1>3, <4>2 DEF Stream
      <4>3. ASSUME NEW n, stream' = [stream EXCEPT ![d].at = "away", ![d].stalls = n,
                                                   ![d].attempts = @ + 1]
            PROVE  stream'[c].cursor = stream[c].cursor
        BY <1>1, <1>3, <4>3 DEF Stream
      <4> QED
        BY <4>1, <4>2, <4>3
    <3>2. stream'[c].cursor = stream[c].cursor
      BY <2>5, <3>1 DEF Cut
    <3> QED
      BY <1>2, <3>2
  <2> QED
    BY <1>5, <2>1, <2>2, <2>3, <2>4, <2>5
<1> QED
  BY <1>2, <1>4, <1>5 DEF NextOutput, outputVars, OpenPane, ClosePane, Tick, Answer, AnswerFails

LEMMA FedOrdered ==
    ASSUME OutputAssumption, NEW text \in Seq(Nat), NEW o \in Nat, NEW from \in Nat,
           NEW to \in Nat, o <= from, from <= to, \A i \in 1..Len(text) : text[i] <= o,
           \A i \in 1..(Len(text) - 1) : text[i] < text[i + 1]
    PROVE  LET fed == Fed(text, Run(from, to))
           IN  /\ \A i \in 1..Len(fed) : fed[i] <= to
               /\ \A i \in 1..(Len(fed) - 1) : fed[i] < fed[i + 1]
<1> DEFINE data == Run(from, to)
           all == text \o data
           fed == Fed(text, data)
<1>1. /\ data \in Seq(Nat) /\ Len(data) = to - from
      /\ \A i \in 1..(to - from) : data[i] = from + i
  BY RunElements
<1>2. Len(text) \in Nat /\ \A i \in 1..Len(text) : text[i] \in Nat
  BY LenProperties, ElementOfSeq
<1> HIDE DEF data
<1>3. /\ Len(all) = Len(text) + Len(data)
      /\ \A i \in 1..(Len(text) + Len(data)) :
           all[i] = IF i <= Len(text) THEN text[i] ELSE data[i - Len(text)]
  BY <1>1, ConcatProperties
<1> HIDE DEF all
<1>4. ASSUME NEW i \in 1..Len(all)
      PROVE  all[i] \in Nat /\ all[i] <= to /\ (i < Len(all) => all[i] < all[i + 1])
  <2>1. i \in 1..(Len(text) + Len(data)) /\ i \in Nat
    BY <1>1, <1>2, <1>3
  <2>2. CASE i < Len(text)
    <3>1. /\ i \in 1..Len(text) /\ i + 1 \in 1..Len(text) /\ i \in 1..(Len(text) - 1)
          /\ i + 1 \in 1..(Len(text) + Len(data))
      BY <1>1, <1>2, <2>1, <2>2
    <3>2. all[i] = text[i] /\ all[i + 1] = text[i + 1]
      BY <1>3, <2>1, <3>1
    <3> QED
      BY <1>2, <3>1, <3>2
  <2>3. CASE i = Len(text)
    <3>1. all[i] = text[i] /\ i \in 1..Len(text)
      BY <1>2, <1>3, <2>1, <2>3
    <3>2. ASSUME i < Len(all) PROVE all[i + 1] = from + 1
      <4>1. i + 1 \in 1..(Len(text) + Len(data)) /\ 1 \in 1..(to - from) /\ (i + 1) - Len(text) = 1
        BY <1>1, <1>2, <1>3, <2>1, <2>3, <3>2
      <4> QED
        BY <1>1, <1>3, <2>3, <4>1
    <3> QED
      BY <1>2, <3>1, <3>2
  <2>4. CASE i > Len(text)
    <3>1. i - Len(text) \in 1..(to - from)
      BY <1>1, <1>2, <2>1, <2>4
    <3>2. all[i] = from + (i - Len(text))
      BY <1>1, <1>3, <2>1, <2>4, <3>1
    <3>3. ASSUME i < Len(all) PROVE all[i + 1] = from + (i + 1 - Len(text))
      <4>1. (i + 1) - Len(text) \in 1..(to - from) /\ i + 1 \in 1..(Len(text) + Len(data))
        BY <1>1, <1>2, <1>3, <2>1, <2>4, <3>3
      <4>2. all[i + 1] = data[(i + 1) - Len(text)]
        BY <1>2, <1>3, <2>4, <4>1
      <4> QED
        BY <1>1, <4>1, <4>2
    <3> QED
      BY <1>2, <2>1, <3>1, <3>2, <3>3
  <2> QED
    BY <1>2, <2>1, <2>2, <2>3, <2>4
<1>5. PICK k \in Nat : k + Len(fed) = Len(all) /\ \A i \in 1..Len(fed) : fed[i] = all[k + i]
  BY <1>1, FedTail DEF all
<1>6. Len(fed) \in Nat /\ Len(all) \in Nat
  <2>1. fed \in Seq(Nat)
    BY <1>1, FedTail
  <2> QED
    BY <1>1, <1>2, <1>3, <2>1, LenProperties
<1> HIDE DEF fed
<1>7. ASSUME NEW i \in 1..Len(fed) PROVE fed[i] <= to
  BY <1>4, <1>5, <1>6, <1>7, k + i \in 1..Len(all)
<1>8. ASSUME NEW i \in 1..(Len(fed) - 1) PROVE fed[i] < fed[i + 1]
  <2>1. k + i \in 1..Len(all) /\ k + i < Len(all) /\ i \in 1..Len(fed) /\ i + 1 \in 1..Len(fed)
    BY <1>5, <1>6
  <2>2. k + (i + 1) = (k + i) + 1
    OBVIOUS
  <2>3. fed[i] = all[k + i] /\ fed[i + 1] = all[(k + i) + 1]
    BY <1>5, <2>1, <2>2
  <2> QED
    BY <1>4, <2>1, <2>3
<1> QED
  BY <1>7, <1>8 DEF fed, data

LEMMA OutHonestNext ==
    ASSUME OutputAssumption, Prompt, OutInv, OutHonest, [NextOutput]_outputVars
    PROVE  OutHonest'
<1>1. ASSUME NEW c \in Command
      PROVE  stream[c].cursor \in Nat /\ stream[c].cursor <= stream'[c].cursor
  BY CursorMovesOn
<1>2. /\ pane \in OutPane /\ pane.offset \in Nat /\ pane.text \in Seq(Nat)
      /\ asked \subseteq OutAsk /\ (pane.open => pane.cmd \in Command)
  BY DEF OutInv, OutPanes, OutPane, OutputAssumption
<1>3. CASE UNCHANGED paneVars
  <2>1. pane.open => pane.offset <= stream'[pane.cmd].cursor
    <3> SUFFICES ASSUME pane.open PROVE pane.offset <= stream'[pane.cmd].cursor
      OBVIOUS
    <3>1. /\ stream[pane.cmd].cursor \in Nat /\ stream[pane.cmd].cursor <= stream'[pane.cmd].cursor
          /\ pane.offset <= stream[pane.cmd].cursor /\ pane.cmd \in Command
      BY <1>1, <1>2 DEF OutHonest
    <3>2. stream'[pane.cmd] \in Stream
      BY <3>1, OutInvNext DEF OutInv, OutBuffers
    <3>3. stream'[pane.cmd].cursor \in Nat
      BY <3>2 DEF Stream, OutputAssumption
    <3> QED
      BY <1>2, <3>1, <3>3
  <2> QED
    BY <1>3, <2>1 DEF paneVars, OutHonest
<1>4. ASSUME NEW c \in Command, OpenPane(c) PROVE OutHonest'
  <2>1. /\ asked = {} /\ asked' = {Ask(c, panes + 1, 0)} /\ UNCHANGED stream
        /\ pane' = [Closed EXCEPT !.open = TRUE, !.seq = panes + 1, !.cmd = c,
                                  !.running = buffer[c].running]
    BY <1>4 DEF OpenPane, streamVars
  <2>2. pane'.offset = 0 /\ pane'.text = << >> /\ Len(pane'.text) = 0 /\ pane'.cmd = c
    BY <2>1, OutClosed DEF Closed
  <2>3. Run(0, 0) = << >>
    <3>1. Run(0, 0) \in Seq(Nat) /\ Len(Run(0, 0)) = 0
      BY RunElements
    <3> QED
      BY <3>1, EmptySeq
  <2> QED
    BY <1>1, <2>1, <2>2, <2>3 DEF OutHonest, Ask
<1>5. CASE ClosePane
  <2>1. Run(0, 0) = << >>
    <3>1. Run(0, 0) \in Seq(Nat) /\ Len(Run(0, 0)) = 0
      BY RunElements
    <3> QED
      BY <3>1, EmptySeq
  <2>2. pane' = Closed /\ UNCHANGED <<stream, asked>>
    BY <1>5 DEF ClosePane, streamVars
  <2>3. Closed.offset = 0 /\ Closed.text = << >> /\ Len(Closed.text) = 0 /\ ~Closed.open
    BY OutClosed DEF Closed
  <2> QED
    BY <2>1, <2>2, <2>3 DEF OutHonest
<1>6. CASE Tick
  <2>1. /\ asked = {} /\ asked' = {Ask(pane.cmd, pane.seq, pane.offset)}
        /\ UNCHANGED <<stream, pane>>
    BY <1>6 DEF Tick, streamVars
  <2> QED
    BY <2>1 DEF OutHonest, Ask
<1>7. ASSUME NEW a \in asked, asked' = asked \ {a}, UNCHANGED stream,
             pane'.open = pane.open, pane'.cmd = pane.cmd,
             /\ pane'.text = pane.text /\ pane'.offset = pane.offset
             /\ pane'.truncated = pane.truncated
      PROVE  OutHonest'
  BY <1>7 DEF OutHonest
<1>8. ASSUME NEW a \in asked, Answer(a) PROVE OutHonest'
  <2> DEFINE chunk == ReadStore(a.cmd, a.offset)
  <2>1. /\ asked' = asked \ {a} /\ UNCHANGED <<stream, panes>>
        /\ pane' = IF ~pane.open \/ pane.cmd # a.cmd THEN pane
                   ELSE IF chunk.found THEN Shown(chunk)
                   ELSE [pane EXCEPT !.err = TRUE, !.running = FALSE]
    BY <1>8 DEF Answer, streamVars
  <2>2. CASE ~pane.open \/ pane.cmd # a.cmd
    BY <1>7, <2>1, <2>2
  <2>3. CASE pane.open /\ pane.cmd = a.cmd /\ chunk.found
    <3> DEFINE o == pane.offset
               cursor == stream[a.cmd].cursor
    <3>1. a.cmd \in Command /\ a.offset \in 0..Size /\ a.offset = o /\ o <= cursor
      BY <1>2, <2>3 DEF OutAsk, OutHonest
    <3>2. chunk = ReadBuffer(buffer[a.cmd], a.offset)
      BY <2>3 DEF ReadStore, NoOutput
    <3>3. /\ chunk.next = cursor /\ chunk.next \in 0..Size
          /\ chunk.running \in BOOLEAN /\ chunk.failed \in BOOLEAN
          /\ chunk.truncated \in BOOLEAN /\ chunk.data \in Seq(Nat)
          /\ \E from \in o..cursor :
               chunk.data = Run(from, cursor) /\ (~chunk.truncated => from = o)
      <4> HIDE DEF chunk, o
      <4>1. OutBuffers
        BY DEF OutInv
      <4> QED
        BY <3>1, <3>2, <4>1, ReadIsRun
    <3>4. pane' = Shown(chunk)
      BY <2>1, <2>3
    <3>5. \A x \in asked' : FALSE
      BY <2>1 DEF OutHonest
    <3> HIDE DEF chunk, cursor
    <3>6. /\ pane'.open = pane.open /\ pane'.cmd = pane.cmd
          /\ pane'.text = Fed(pane.text, chunk.data) /\ pane'.offset = cursor
          /\ pane'.truncated = (pane.truncated \/ chunk.truncated
                                   \/ Len(pane.text \o chunk.data) > PaneCap)
      BY <3>3, <3>4, OutShownType
    <3>7. PICK from \in o..cursor :
             chunk.data = Run(from, cursor) /\ (~chunk.truncated => from = o)
      BY <3>3
    <3>8. /\ o \in Nat /\ cursor \in Nat /\ from \in Nat /\ o <= from /\ from <= cursor
          /\ pane.text \in Seq(Nat)
      BY <1>1, <1>2, <3>1 DEF cursor
    <3>9. /\ \A i \in 1..Len(pane.text) : pane.text[i] <= o
          /\ \A i \in 1..(Len(pane.text) - 1) : pane.text[i] < pane.text[i + 1]
          /\ ~pane.truncated => pane.text = Run(0, o)
      BY DEF OutHonest
    <3> HIDE DEF o
    <3>10. /\ \A i \in 1..Len(pane'.text) : pane'.text[i] <= cursor
           /\ \A i \in 1..(Len(pane'.text) - 1) : pane'.text[i] < pane'.text[i + 1]
      <4>1. pane'.text = Fed(pane.text, Run(from, cursor))
        BY <3>6, <3>7
      <4> QED
        BY <3>8, <3>9, <4>1, FedOrdered
    <3>11. ASSUME ~pane'.truncated PROVE pane'.text = Run(0, cursor)
      <4>1. /\ ~pane.truncated /\ ~chunk.truncated
            /\ ~(Len(pane.text \o chunk.data) > PaneCap)
        BY <3>6, <3>11
      <4>2. Len(pane.text \o chunk.data) \in Nat
        BY <3>3, <3>8, FedTail
      <4>3. Len(pane.text \o chunk.data) <= PaneCap
        <5> DEFINE n == Len(pane.text \o chunk.data)
        <5>1. n \in Nat /\ ~(n > PaneCap) /\ PaneCap \in Nat
          BY <4>1, <4>2 DEF OutputAssumption
        <5> HIDE DEF n
        <5>2. n <= PaneCap
          BY <5>1
        <5> QED
          BY <5>2 DEF n
      <4>4. pane'.text = pane.text \o chunk.data
        BY <3>3, <3>6, <3>8, <4>3, FedTail
      <4>5. pane.text \o chunk.data = Run(0, o) \o Run(o, cursor)
        BY <3>7, <3>9, <4>1
      <4>6. Run(0, o) \o Run(o, cursor) = Run(0, cursor)
        <5>1. o <= cursor /\ 0 <= o /\ 0 \in Nat
          BY <3>8
        <5> QED
          BY <3>8, <5>1, RunJoin
      <4> QED
        BY <4>4, <4>5, <4>6
    <3>12. pane'.open => pane'.offset <= stream'[pane'.cmd].cursor
      BY <2>1, <2>3, <3>6, <3>8 DEF cursor
    <3> QED
      BY <3>5, <3>6, <3>10, <3>11, <3>12 DEF OutHonest
  <2>4. CASE pane.open /\ pane.cmd = a.cmd /\ ~chunk.found
    <3>1. pane' = [pane EXCEPT !.err = TRUE, !.running = FALSE]
      BY <2>1, <2>4
    <3> HIDE DEF chunk
    <3>2. /\ pane'.open = pane.open /\ pane'.cmd = pane.cmd /\ pane'.text = pane.text
          /\ pane'.offset = pane.offset /\ pane'.truncated = pane.truncated
      BY <1>2, <3>1 DEF OutPane
    <3> QED
      BY <1>7, <2>1, <3>2
  <2> QED
    BY <2>2, <2>3, <2>4
<1>9. ASSUME NEW a \in asked, AnswerFails(a) PROVE OutHonest'
  <2>1. /\ asked' = asked \ {a} /\ UNCHANGED stream
        /\ pane' = IF pane.open /\ pane.cmd = a.cmd THEN [pane EXCEPT !.err = TRUE] ELSE pane
    BY <1>9 DEF AnswerFails, streamVars
  <2>2. /\ pane'.open = pane.open /\ pane'.cmd = pane.cmd /\ pane'.text = pane.text
        /\ pane'.offset = pane.offset /\ pane'.truncated = pane.truncated
    BY <1>2, <2>1 DEF OutPane
  <2> QED
    BY <1>7, <2>1, <2>2
<1> QED
  BY <1>3, <1>4, <1>5, <1>6, <1>8, <1>9
     DEF NextOutput, outputVars, RegisterCommand, Connect, Frame,
     Exit, Cut

-----------------------------------------------------------------------------
\* A buffer and a pane keep their types, for any commands and any caps.
THEOREM OutputTypes ==
    ASSUME OutputAssumption
    PROVE  SpecOutput => []OutputTypeOK
<1>1. InitOutput => OutInv
  BY OutInvInit
<1>2. OutInv /\ [NextOutput]_outputVars => OutInv'
  BY OutInvNext
<1>3. OutInv => OutputTypeOK
  BY OutInvType
<1> QED
  BY <1>1, <1>2, <1>3, PTL DEF SpecOutput

\* A buffer holds the end of what its command wrote up to the cursor, each byte once and
\* in its place.
THEOREM BuffersAreTails ==
    ASSUME OutputAssumption
    PROVE  SpecOutput => []BufferIsTail
<1>1. InitOutput => OutInv
  BY OutInvInit
<1>2. OutInv /\ [NextOutput]_outputVars => OutInv'
  BY OutInvNext
<1>3. OutInv => BufferIsTail
  BY DEF OutInv, OutBuffers
<1> QED
  BY <1>1, <1>2, <1>3, PTL DEF SpecOutput

\* A pane whose requests are answered in time shows output in order and without a
\* repetition, and all of it unless it says that some was dropped.
THEOREM PanesHonest ==
    ASSUME OutputAssumption, Prompt
    PROVE  SpecOutput => []PaneHonest
<1>1. InitOutput => OutInv /\ OutHonest
  BY OutInvInit, OutHonestInit
<1>2. OutInv /\ OutHonest /\ [NextOutput]_outputVars => (OutInv /\ OutHonest)'
  BY OutInvNext, OutHonestNext
<1>3. OutHonest => PaneHonest
  BY OutHonestShown
<1> QED
  BY <1>1, <1>2, <1>3, PTL DEF SpecOutput

-----------------------------------------------------------------------------
(***************************************************************************)
(* WatchState: a poll never drops a sidecar that exists, for any number of *)
(* sidecars and any time.                                                  *)
(***************************************************************************)

(* Why a poll never drops a sidecar that exists: what a list does not name was *)
(* created after the list was asked for, and so was its state file.            *)

WatchFile == [mtime : Time \cup {NoTime}, inferred : BOOLEAN]
WatchLoaded == [sc : Sidecar, mtime : Time, inferred : BOOLEAN]

WatchTyped ==
    /\ now \in Time /\ lastSeen \in Time \cup {NoTime} /\ lastFetch \in Time \cup {NoTime}
    /\ file \in [Sidecar -> WatchFile]
    /\ remote \in [Sidecar -> {"new", "exists", "gone"}]
    /\ list \in [ids : SUBSET Sidecar, at : Time \cup {NoTime}]
    /\ fetch \in [on : BOOLEAN, started : Time \cup {NoTime}, answered : BOOLEAN,
                  ids : SUBSET Sidecar]
    /\ loaded \subseteq WatchLoaded
    /\ shown \subseteq [sc : Sidecar, verified : BOOLEAN]
    /\ sampler \in [Sidecar -> [at : {"none", "running", "cooling", "due"},
                                failures : 0..MaxFailures]]

\* A state file is there or not at all, is of the past, and of a sidecar that was created.
FilesPast ==
    /\ \A s \in Sidecar : /\ file[s].mtime = NoTime => file[s] = NoFile
                          /\ file[s].mtime # NoTime => remote[s] # "new"
                          /\ file[s].mtime <= now
    /\ \A f \in loaded : remote[f.sc] # "new"
    /\ list.at <= now /\ fetch.started <= now

\* A list with the time t does not know a sidecar that exists only if all its files,
\* the one that a poll has read included, are not older.
Unlisted(ids, t) ==
    \A s \in Sidecar : remote[s] = "exists" /\ s \notin ids =>
        /\ file[s].mtime # NoTime => file[s].mtime >= t
        /\ \A f \in loaded : f.sc = s => f.mtime >= t

WatchInv ==
    /\ WatchTyped /\ FilesPast
    /\ Unlisted(list.ids, list.at)
    /\ fetch.on /\ fetch.answered => Unlisted(fetch.ids, fetch.started)

LEMMA WatchInvType == WatchInv => WatchTypeOK
  BY DEF WatchInv, WatchTyped, WatchTypeOK, WatchFile

LEMMA WatchInvInit == WatchAssumption /\ InitWatch => WatchInv
<1> SUFFICES ASSUME WatchAssumption, InitWatch PROVE WatchInv
  OBVIOUS
<1>1. NoTime = -1 /\ 0 \in Time
  BY DEF NoTime, Time, WatchAssumption
<1>2. WatchTyped
  BY <1>1 DEF InitWatch, WatchTyped, WatchFile, NoFile, NoList, Idle, NoSampler, WatchAssumption
<1> QED
  BY <1>1, <1>2 DEF InitWatch, WatchInv, FilesPast, Unlisted, NoFile, NoList, Idle

\* A step that leaves the clock, the files, the list and the API's sidecars alone.
LEMMA WatchInvRest ==
    ASSUME WatchInv, WatchTyped', UNCHANGED <<now, file, remote, list, fetch>>,
           loaded' \subseteq loaded
    PROVE  WatchInv'
  BY DEF WatchInv, FilesPast, Unlisted

LEMMA FilesTyped ==
    ASSUME WatchAssumption, WatchInv
    PROVE  /\ Files \subseteq WatchLoaded
           /\ \A f \in Files : f.mtime = file[f.sc].mtime /\ f.mtime # NoTime
<1>1. ASSUME NEW f \in Files
      PROVE  f \in WatchLoaded /\ f.mtime = file[f.sc].mtime /\ f.mtime # NoTime
  <2>1. PICK s \in Sidecar : /\ file[s] # NoFile
                             /\ f = [sc |-> s, mtime |-> file[s].mtime, inferred |-> file[s].inferred]
    BY DEF Files
  <2>2. file[s] \in WatchFile /\ file[s].mtime # NoTime
    BY <2>1 DEF WatchInv, WatchTyped, FilesPast
  <2> QED
    BY <2>1, <2>2 DEF WatchFile, WatchLoaded
<1> QED
  BY <1>1

LEMMA WatchInvNext ==
    ASSUME WatchAssumption, WatchInv, [NextWatch]_watchVars
    PROVE  WatchInv'
<1>1. /\ now \in 0..MaxTime /\ MaxTime \in Nat /\ NoTime = -1 /\ Time = 0..MaxTime
      /\ MaxFailures \in Nat \ {0}
  BY DEF WatchInv, WatchTyped, WatchAssumption, Time, NoTime
<1>2. CASE UNCHANGED watchVars
  BY <1>2 DEF watchVars, liveVars, pollVars, WatchInv, WatchTyped, FilesPast, Unlisted
<1>3. CASE Pass
  <2>1. /\ now' = now + 1 /\ now' \in Time
        /\ UNCHANGED <<file, remote, list, fetch, lastFetch, loaded, shown, lastSeen, sampler>>
    BY <1>1, <1>3 DEF Pass, liveVars, pollVars
  <2>2. WatchTyped'
    BY <2>1 DEF WatchInv, WatchTyped
  <2>3. \A m \in Time \cup {NoTime} : m <= now => m <= now'
    BY <1>1, <2>1
  <2>4. /\ \A s \in Sidecar : file[s].mtime \in Time \cup {NoTime}
        /\ list.at \in Time \cup {NoTime} /\ fetch.started \in Time \cup {NoTime}
    BY DEF WatchInv, WatchTyped, WatchFile
  <2>5. FilesPast'
    BY <2>1, <2>3, <2>4 DEF WatchInv, FilesPast
  <2> QED
    BY <2>1, <2>2, <2>5 DEF WatchInv, Unlisted
<1>4. CASE API
  <2>1. WatchTyped'
    <3>1. {s \in Sidecar : remote[s] = "exists"} \in SUBSET Sidecar
      OBVIOUS
    <3>2. fetch' \in [on : BOOLEAN, started : Time \cup {NoTime}, answered : BOOLEAN,
                      ids : SUBSET Sidecar]
      BY <1>4, <3>1 DEF API, WatchInv, WatchTyped
    <3> QED
      BY <1>4, <3>2 DEF API, pollVars, WatchInv, WatchTyped
  <2>2. /\ fetch'.ids = {s \in Sidecar : remote[s] = "exists"} /\ fetch'.started = fetch.started
        /\ UNCHANGED <<now, file, remote, list, loaded>>
    BY <1>4 DEF API, pollVars, WatchInv, WatchTyped
  <2>3. Unlisted(fetch.ids, fetch.started)'
    BY <2>2 DEF Unlisted
  <2> QED
    BY <2>1, <2>2, <2>3 DEF WatchInv, FilesPast, Unlisted
<1>5. CASE Fetched
  <2>1. fetch' = Idle /\ UNCHANGED <<now, file, remote, loaded, shown, lastSeen, sampler>>
    BY <1>5 DEF Fetched, pollVars
  <2>2. lastFetch' = fetch.started /\ fetch.on
        /\ ((fetch.answered /\ list' = Listed) \/ list' = list)
    BY <1>5, Zenon DEF Fetched
  <2>3. WatchTyped'
    BY <1>1, <2>1, <2>2 DEF Listed, Idle, WatchInv, WatchTyped
  <2>4. list'.at <= now /\ Unlisted(list'.ids, list'.at)
    BY <1>5, <2>2 DEF Fetched, Listed, WatchInv, FilesPast
  <2>5. FilesPast'
    BY <1>1, <2>1, <2>4 DEF WatchInv, FilesPast, Idle
  <2> QED
    BY <2>1, <2>3, <2>4, <2>5 DEF WatchInv, Unlisted, Idle
<1>6. CASE LoadSidecars
  <2>1. /\ loaded' = Files /\ fetch' = IF Due(Files) THEN StartFetch ELSE fetch
        /\ UNCHANGED <<now, file, remote, list, lastFetch, shown, lastSeen, sampler>>
    BY <1>6 DEF LoadSidecars
  <2>2. /\ Files \subseteq WatchLoaded
        /\ \A f \in Files : f.mtime = file[f.sc].mtime /\ f.mtime # NoTime
    BY FilesTyped
  <2>3. WatchTyped'
    BY <1>1, <2>1, <2>2 DEF StartFetch, WatchInv, WatchTyped
  <2>4. FilesPast'
    BY <1>1, <2>1, <2>2 DEF StartFetch, WatchInv, FilesPast, WatchLoaded
  <2>5. ASSUME NEW ids, NEW t, Unlisted(ids, t) PROVE Unlisted(ids, t)'
    BY <2>1, <2>2, <2>5 DEF Unlisted
  <2>6. ~StartFetch.answered
    BY DEF StartFetch
  <2> QED
    BY <2>1, <2>3, <2>4, <2>5, <2>6 DEF WatchInv, Unlisted
<1>7. CASE Publish
  <2>1. /\ loaded' = {} /\ UNCHANGED <<now, file, remote, list, fetch, lastFetch, lastSeen>>
        /\ shown' = {[sc |-> f.sc, verified |-> Confirmed(f)] : f \in {g \in loaded : ~Gone(g)}}
        /\ sampler' = Reconciled({f.sc : f \in {g \in loaded : ~Gone(g)}})
    BY <1>7 DEF Publish, liveVars
  <2>2. shown' \subseteq [sc : Sidecar, verified : BOOLEAN]
    <3>1. ASSUME NEW f \in loaded
          PROVE  [sc |-> f.sc, verified |-> Confirmed(f)] \in [sc : Sidecar, verified : BOOLEAN]
      <4>1. f.sc \in Sidecar /\ Confirmed(f) \in BOOLEAN
        BY DEF WatchInv, WatchTyped, WatchLoaded, Confirmed
      <4> QED
        BY <4>1
    <3> QED
      BY <2>1, <3>1
  <2>3. sampler' \in [Sidecar -> [at : {"none", "running", "cooling", "due"},
                                  failures : 0..MaxFailures]]
    BY <1>1, <2>1 DEF Reconciled, NoSampler, WatchInv, WatchTyped
  <2>4. WatchTyped'
    BY <2>1, <2>2, <2>3 DEF WatchInv, WatchTyped
  <2> QED
    BY <2>1, <2>4, WatchInvRest
<1>8. CASE Snapshot
  <2>1. WatchTyped'
    BY <1>8 DEF Snapshot, liveVars, pollVars, WatchInv, WatchTyped
  <2> QED
    BY <1>8, <2>1, WatchInvRest DEF Snapshot, liveVars, pollVars
<1>9. ASSUME NEW s \in Sidecar, Create(s) PROVE WatchInv'
  <2>1. /\ remote[s] = "new" /\ remote' = [remote EXCEPT ![s] = "exists"]
        /\ UNCHANGED <<now, file, list, fetch, lastFetch, loaded, shown, lastSeen, sampler>>
    BY <1>9 DEF Create, liveVars, pollVars
  <2>2. WatchTyped' /\ \A t \in Sidecar : remote'[t] = IF t = s THEN "exists" ELSE remote[t]
    BY <2>1 DEF WatchInv, WatchTyped
  <2>3. file[s].mtime = NoTime /\ \A f \in loaded : f.sc # s
    BY <2>1 DEF WatchInv, FilesPast
  <2>4. FilesPast'
    BY <2>1, <2>2, <2>3 DEF WatchInv, WatchTyped, FilesPast, WatchLoaded
  <2>5. ASSUME NEW ids, NEW t, Unlisted(ids, t) PROVE Unlisted(ids, t)'
    BY <2>1, <2>2, <2>3, <2>5 DEF Unlisted
  <2> QED
    BY <2>1, <2>2, <2>4, <2>5, SMTT(30) DEF WatchInv, Unlisted
<1>10. ASSUME NEW s \in Sidecar, Save(s) PROVE WatchInv'
  <2>1. PICK inferred \in BOOLEAN :
          file' = [file EXCEPT ![s] = [mtime |-> now, inferred |-> inferred]]
    BY <1>10 DEF Save
  <2>2. /\ remote[s] # "new"
        /\ UNCHANGED <<now, remote, list, fetch, lastFetch, loaded, shown, lastSeen, sampler>>
    BY <1>10 DEF Save, liveVars, pollVars
  <2>3. file' \in [Sidecar -> WatchFile] /\ file'[s].mtime = now
        /\ \A t \in Sidecar : t # s => file'[t] = file[t]
    BY <1>1, <2>1 DEF WatchInv, WatchTyped, WatchFile
  <2>4. WatchTyped'
    BY <2>2, <2>3 DEF WatchInv, WatchTyped
  <2>5. FilesPast'
    <3>1. FilesPast /\ UNCHANGED <<now, remote, list, fetch, lastFetch, loaded, lastSeen>>
      BY <2>2 DEF WatchInv
    <3>2. now <= now /\ now # NoTime
      BY <1>1 DEF WatchInv, WatchTyped, Time, NoTime
    <3>3. \A t \in Sidecar : /\ file'[t].mtime = NoTime => file'[t] = NoFile
                             /\ file'[t].mtime # NoTime => remote[t] # "new"
                             /\ file'[t].mtime <= now
      BY <2>2, <2>3, <3>1, <3>2 DEF FilesPast
    <3> QED
      BY <3>1, <3>3 DEF FilesPast
  <2>6. ASSUME NEW ids, NEW t, t <= now, Unlisted(ids, t) PROVE Unlisted(ids, t)'
    BY <1>1, <2>2, <2>3, <2>6 DEF Unlisted
  <2>7. list.at <= now /\ fetch.started <= now
    BY DEF WatchInv, FilesPast
  <2> QED
    BY <2>2, <2>4, <2>5, <2>6, <2>7 DEF WatchInv, Unlisted
<1>11. ASSUME NEW s \in Sidecar, Delete(s) PROVE WatchInv'
  <2>1. /\ remote[s] = "exists" /\ remote' = [remote EXCEPT ![s] = "gone"]
        /\ UNCHANGED <<now, file, list, fetch, lastFetch, loaded, shown, lastSeen, sampler>>
    BY <1>11 DEF Delete, liveVars, pollVars
  <2>2. WatchTyped' /\ \A t \in Sidecar : remote'[t] = IF t = s THEN "gone" ELSE remote[t]
    BY <2>1 DEF WatchInv, WatchTyped
  <2>3. FilesPast'
    BY <2>1, <2>2 DEF WatchInv, WatchTyped, FilesPast, WatchLoaded
  <2> QED
    BY <2>1, <2>2, <2>3 DEF WatchInv, Unlisted
<1>12. ASSUME NEW s \in Sidecar, SampleFails(s) \/ SampleWorks(s) \/ CooledOff(s)
       PROVE  WatchInv'
  <2>1. UNCHANGED <<now, file, remote, list, fetch, lastFetch, loaded, shown, lastSeen>>
    BY <1>12 DEF SampleFails, SampleWorks, CooledOff, liveVars, pollVars
  <2>2. sampler[s] \in [at : {"none", "running", "cooling", "due"}, failures : 0..MaxFailures]
    BY DEF WatchInv, WatchTyped
  <2>3. sampler' \in [Sidecar -> [at : {"none", "running", "cooling", "due"},
                                  failures : 0..MaxFailures]]
    <3> DEFINE S == [at : {"none", "running", "cooling", "due"}, failures : 0..MaxFailures]
    <3> SUFFICES sampler' \in [Sidecar -> S]
      OBVIOUS
    <3>1. sampler \in [Sidecar -> S]
      BY DEF WatchInv, WatchTyped
    <3>2. CASE SampleFails(s)
      <4> DEFINE x == IF sampler[s].failures + 1 >= MaxFailures
                      THEN [at |-> "cooling", failures |-> 0]
                      ELSE [at |-> "running", failures |-> sampler[s].failures + 1]
      <4>1. x \in S
        BY <1>1, <2>2
      <4>2. sampler'[s] = x /\ \A t \in Sidecar : t # s => sampler'[t] = sampler[t]
        BY <3>1, <3>2 DEF SampleFails
      <4>3. DOMAIN sampler' = Sidecar /\ sampler' = [t \in Sidecar |-> sampler'[t]]
        BY <3>1, <3>2 DEF SampleFails
      <4> HIDE DEF S, x
      <4>4. \A t \in Sidecar : sampler'[t] \in S
        BY <3>1, <4>1, <4>2
      <4> QED
        BY <4>3, <4>4
    <3>3. CASE SampleWorks(s)
      <4> DEFINE x == [sampler[s] EXCEPT !.failures = 0]
      <4>1. sampler' = [sampler EXCEPT ![s] = x]
        BY <3>1, <3>3 DEF SampleWorks
      <4>2. x \in S
        BY <1>1, <2>2
      <4> HIDE DEF S, x
      <4> QED
        BY <3>1, <4>1, <4>2
    <3>4. CASE CooledOff(s)
      <4> DEFINE x == [sampler[s] EXCEPT !.at = "due"]
      <4>1. sampler' = [sampler EXCEPT ![s] = x]
        BY <3>1, <3>4 DEF CooledOff
      <4>2. x \in S
        BY <1>1, <2>2
      <4> HIDE DEF S, x
      <4> QED
        BY <3>1, <4>1, <4>2
    <3> QED
      BY <1>12, <3>2, <3>3, <3>4
  <2>4. WatchTyped'
    BY <2>1, <2>3 DEF WatchInv, WatchTyped
  <2> QED
    BY <2>1, <2>4, WatchInvRest
<1> QED
  BY <1>2, <1>3, <1>4, <1>5, <1>6, <1>7, <1>8, <1>9, <1>10, <1>11, <1>12 DEF NextWatch

\* What is dropped does not exist.
LEMMA GoneIsGone ==
    ASSUME WatchAssumption, WatchInv, NEW f \in loaded, Gone(f)
    PROVE  remote[f.sc] # "exists"
<1>1. f.sc \in Sidecar /\ f.mtime \in Int /\ list.at \in Int
  BY DEF WatchInv, WatchTyped, WatchLoaded, Time, NoTime, WatchAssumption
<1> QED
  BY <1>1 DEF Gone, WatchInv, Unlisted

LEMMA ExistingShown ==
    ASSUME WatchAssumption, WatchInv, Publish
    PROVE  \A f \in loaded : remote[f.sc] = "exists" => \E x \in shown' : x.sc = f.sc
<1> SUFFICES ASSUME NEW f \in loaded, remote[f.sc] = "exists"
             PROVE  \E x \in shown' : x.sc = f.sc
  OBVIOUS
<1>1. ~Gone(f)
  BY GoneIsGone
<1> QED
  <2>1. shown' = {[sc |-> g.sc, verified |-> Confirmed(g)] : g \in {h \in loaded : ~Gone(h)}}
    BY DEF Publish
  <2>2. [sc |-> f.sc, verified |-> Confirmed(f)] \in shown'
    BY <1>1, <2>1
  <2> QED
    BY <2>2

\* What is published keeps its type, and is of the project's sidecars.
THEOREM WatchTypes ==
    ASSUME WatchAssumption
    PROVE  SpecWatch => []WatchTypeOK
<1>1. InitWatch => WatchInv
  BY WatchInvInit
<1>2. WatchInv /\ [NextWatch]_watchVars => WatchInv'
  BY WatchInvNext
<1>3. WatchInv => WatchTypeOK
  BY WatchInvType
<1> QED
  BY <1>1, <1>2, <1>3, PTL DEF SpecWatch

\* No poll drops a sidecar that exists, however old its list and whenever it was answered.
THEOREM NoneDropped ==
    ASSUME WatchAssumption
    PROVE  SpecWatch => ExistingKept
<1>1. InitWatch => WatchInv
  BY WatchInvInit
<1>2. WatchInv /\ [NextWatch]_watchVars => WatchInv'
  BY WatchInvNext
<1>3. WatchInv /\ [NextWatch]_watchVars =>
        [Publish => \A f \in loaded :
           remote[f.sc] = "exists" => \E x \in shown' : x.sc = f.sc]_watchVars
  BY ExistingShown
<1> QED
  BY <1>1, <1>2, <1>3, PTL DEF SpecWatch, ExistingKept

-----------------------------------------------------------------------------
(***************************************************************************)
(* KeyPair: the key each process registers is the one ssh offers, for two  *)
(* processes of which any may be killed, and any number of which none is.  *)
(***************************************************************************)

(* What the lock file does and does not do: it keeps processes apart until one *)
(* of them breaks it, and with a third one that breaks it too late.            *)

TwoOrUnharmed ==
    \/ Mortal = {}
    \/ \A p, q, r \in Openers : p = q \/ q = r \/ p = r

\* Whoever is past the lock holds it.
Holds(p) == opener[p] \in {"recheck", "public", "private", "release"}
Exclusive == \A p \in Openers : Holds(p) => lockedBy = p

\* Whoever breaks the lock has nobody left to disturb.
LastOne == \A p, q \in Openers : opener[p] = "break" /\ q # p => opener[q] = "killed"

OnlyMortals == \A p \in Openers : opener[p] = "killed" => p \in Mortal

\* A key is written while there is none, the public half first.
Generating ==
    \A p \in Openers : /\ opener[p] \in {"public", "private"} => private = NoKey
                       /\ opener[p] = "private" => public = p

\* Past EnsureKeyPair there is a key.
KeyThere ==
    \A p \in Openers : opener[p] \in {"release", "migrate", "register", "open"} => private # NoKey

\* Who has failed often enough is not asked to try again.
TriesLeft == \A p \in Openers : opener[p] # "failed" => attempts[p] < MaxAttempts

KeyInv == /\ KeyTypeOK /\ Exclusive /\ LastOne /\ OnlyMortals /\ Generating /\ KeyThere
          /\ TriesLeft /\ PairMatches

LEMMA KeyInit == KeyAssumption /\ InitKey => KeyInv
<1> SUFFICES ASSUME KeyAssumption, InitKey PROVE KeyInv
  OBVIOUS
<1>1. \A p \in Openers : opener[p] = "stat" /\ attempts[p] = 0
  BY DEF InitKey
<1>2. KeyTypeOK
  <2>1. /\ private \in Keys \cup {NoKey} /\ public \in Keys \cup {NoKey}
        /\ format \in {"none", "pkcs8", "openssh"} /\ (format = "none" <=> private = NoKey)
    BY DEF InitKey, Keys, KeyAssumption
  <2>2. notFound \in 0..MaxNotFound /\ attempts \in [Openers -> 0..MaxAttempts]
    BY DEF InitKey, MaxAttempts, KeyAssumption
  <2> QED
    BY <2>1, <2>2 DEF InitKey, KeyTypeOK
<1>3. PairMatches
  BY <1>1 DEF InitKey, PairMatches
<1> QED
  BY <1>1, <1>2, <1>3 DEF KeyInv, Exclusive, Holds, LastOne, OnlyMortals, Generating,
     KeyThere, TriesLeft, MaxAttempts

Places == {"stat", "lock", "wait", "break", "recheck", "public", "private", "release",
           "migrate", "register", "open", "failed", "killed"}

\* What a process that goes on leaves of the others.
LEMMA OpenerMoves ==
    ASSUME KeyTypeOK, NEW p \in Openers, NEW from, NEW to, Goes(p, from, to)
    PROVE  /\ opener[p] = from
           /\ \A q \in Openers : opener'[q] = IF q = p THEN to ELSE opener[q]
           /\ to \in Places => opener' \in [Openers -> Places]
  BY DEF Goes, KeyTypeOK, Places

\* Steps that leave the files alone and take the process nowhere it needs the lock for.
Free == {"stat", "lock", "wait", "migrate", "register", "open", "failed", "killed"}

LEMMA Walks ==
    ASSUME KeyAssumption, KeyInv, NEW p \in Openers, NEW to \in Free,
           \A q \in Openers : opener'[q] = IF q = p THEN to ELSE opener[q],
           opener' \in [Openers -> Places], opener[p] \notin {"killed", "failed"},
           private' = private, public' = public, lockedBy' = lockedBy,
           format' = format \/ (private # NoKey /\ format' = "openssh"),
           to \in {"migrate", "register", "open"} => private # NoKey,
           to = "killed" => p \in Mortal,
           to = "open" => registered'[p] = private,
           \A q \in Openers : q # p => registered'[q] = registered[q] /\ attempts'[q] = attempts[q],
           to # "failed" => attempts'[p] = attempts[p],
           registered' \in [Openers -> Keys \cup {NoKey}],
           attempts' \in [Openers -> 0..MaxAttempts], notFound' \in 0..MaxNotFound
    PROVE  KeyInv'
<1>1. KeyTypeOK'
  BY DEF KeyInv, KeyTypeOK, Places
<1>2. Exclusive' /\ LastOne' /\ OnlyMortals'
  BY DEF KeyInv, Exclusive, Holds, LastOne, OnlyMortals, Free
<1>3. Generating' /\ KeyThere' /\ TriesLeft'
  BY DEF KeyInv, Generating, KeyThere, TriesLeft, Free
<1>4. PairMatches'
  BY DEF KeyInv, PairMatches
<1> QED
  BY <1>1, <1>2, <1>3, <1>4 DEF KeyInv

LEMMA KeyStep ==
    ASSUME KeyAssumption, TwoOrUnharmed, KeyInv, NEW p \in Openers, Step(p)
    PROVE  KeyInv'
<1>0. KeyTypeOK
  BY DEF KeyInv
<1>1. CASE Stat(p) \/ LockTaken(p) \/ Published(p) \/ Poll(p)
  <2>1. PICK from, to : /\ Goes(p, from, to)
                        /\ from \in {"stat", "lock", "wait"} /\ to \in Free \ {"open", "killed"}
                        /\ to \in {"migrate", "register"} => private # NoKey
    <3>1. CASE Stat(p)
      BY <3>1 DEF Stat, Free
    <3>2. CASE LockTaken(p)
      BY <3>2 DEF LockTaken, Free
    <3>3. CASE Published(p)
      BY <3>3 DEF Published, Free
    <3>4. CASE Poll(p)
      BY <3>4 DEF Poll, Free
    <3> QED
      BY <1>1, <3>1, <3>2, <3>3, <3>4
  <2>2. /\ private' = private /\ public' = public /\ format' = format /\ lockedBy' = lockedBy
        /\ registered' = registered /\ attempts' = attempts /\ notFound' = notFound
    BY <1>1 DEF Stat, LockTaken, Published, Poll, files, session
  <2>3. /\ opener[p] = from /\ opener' \in [Openers -> Places]
        /\ \A q \in Openers : opener'[q] = IF q = p THEN to ELSE opener[q]
    BY <1>0, <2>1, OpenerMoves DEF Free, Places
  <2>4. /\ registered' \in [Openers -> Keys \cup {NoKey}]
        /\ attempts' \in [Openers -> 0..MaxAttempts] /\ notFound' \in 0..MaxNotFound
    BY <1>0, <2>2 DEF KeyTypeOK
  <2> QED
    BY <2>1, <2>2, <2>3, <2>4, Walks
<1>2. CASE Migrate(p)
  <2>1. /\ opener[p] = "migrate" /\ opener' \in [Openers -> Places]
        /\ \A q \in Openers : opener'[q] = IF q = p THEN "register" ELSE opener[q]
    BY <1>0, <1>2, OpenerMoves DEF Migrate, Places
  <2>2. private # NoKey
    BY <2>1 DEF KeyInv, KeyThere
  <2> QED
    BY <1>0, <1>2, <2>1, <2>2, Walks DEF Migrate, session, Free, KeyTypeOK
<1>3. CASE Register(p)
  <2>0. opener[p] = "register"
    BY <1>3 DEF Register, Goes
  <2>1. opener[p] = "register" /\ private # NoKey /\ public = private /\ public \in Keys
    BY <1>0, <2>0 DEF KeyInv, KeyThere, PairMatches, KeyTypeOK
  <2>2. /\ opener' \in [Openers -> Places]
        /\ \A q \in Openers : opener'[q] = IF q = p THEN "open" ELSE opener[q]
    BY <1>0, <1>3, <2>1, OpenerMoves DEF Register, Places
  <2>3. /\ registered' \in [Openers -> Keys \cup {NoKey}] /\ registered'[p] = private
        /\ \A q \in Openers : q # p => registered'[q] = registered[q]
    BY <1>0, <1>3, <2>1 DEF Register, KeyTypeOK
  <2>4. /\ private' = private /\ public' = public /\ format' = format /\ lockedBy' = lockedBy
        /\ attempts' = attempts /\ notFound' = notFound
        /\ attempts' \in [Openers -> 0..MaxAttempts] /\ notFound' \in 0..MaxNotFound
    BY <1>0, <1>3 DEF Register, files, KeyTypeOK
  <2>5. "open" \in Free
    BY DEF Free
  <2> QED
    BY <2>0, <2>1, <2>2, <2>3, <2>4, <2>5, Walks
<1>4. CASE Deadline(p)
  <2>1. /\ opener[p] = "wait" /\ opener' \in [Openers -> Places]
        /\ \A q \in Openers : opener'[q] = IF q = p THEN "break" ELSE opener[q]
    BY <1>0, <1>4, OpenerMoves DEF Deadline, Places
  <2>2. /\ private' = private /\ public' = public /\ format' = format /\ lockedBy' = lockedBy
        /\ registered' = registered /\ attempts' = attempts /\ notFound' = notFound
    BY <1>4 DEF Deadline, files, session
  <2>3. lockedBy \in Openers /\ opener[lockedBy] = "killed"
    BY <1>0, <1>4 DEF Deadline, Abandoned, KeyTypeOK
  <2>4. \A q \in Openers : q # p => opener[q] = "killed"
    BY <2>1, <2>3 DEF TwoOrUnharmed, KeyInv, OnlyMortals
  <2>5. KeyTypeOK'
    BY <1>0, <2>1, <2>2 DEF KeyTypeOK, Places
  <2>6. Exclusive' /\ LastOne' /\ OnlyMortals'
    BY <2>1, <2>2, <2>4 DEF KeyInv, Exclusive, Holds, LastOne, OnlyMortals
  <2>7. Generating' /\ KeyThere' /\ TriesLeft' /\ PairMatches'
    BY <2>1, <2>2 DEF KeyInv, Generating, KeyThere, TriesLeft, PairMatches
  <2> QED
    BY <2>5, <2>6, <2>7 DEF KeyInv
<1>5. CASE Lock(p)
  <2>1. /\ opener[p] = "lock" /\ opener' \in [Openers -> Places]
        /\ \A q \in Openers : opener'[q] = IF q = p THEN "recheck" ELSE opener[q]
    BY <1>0, <1>5, OpenerMoves DEF Lock, Places
  <2>2. /\ private' = private /\ public' = public /\ format' = format /\ registered' = registered
        /\ attempts' = attempts /\ notFound' = notFound
        /\ lockedBy = NoKey /\ lockedBy' = p
    BY <1>5 DEF Lock, session
  <2>3. KeyTypeOK'
    BY <1>0, <2>1, <2>2 DEF KeyTypeOK, Places
  <2>4. \A q \in Openers : ~Holds(q)
    BY <2>2 DEF KeyInv, Exclusive, KeyAssumption
  <2>5. Exclusive' /\ LastOne' /\ OnlyMortals'
    BY <2>1, <2>2, <2>4 DEF KeyInv, Exclusive, Holds, LastOne, OnlyMortals
  <2>6. Generating' /\ KeyThere' /\ TriesLeft' /\ PairMatches'
    BY <2>1, <2>2 DEF KeyInv, Generating, KeyThere, TriesLeft, PairMatches
  <2> QED
    BY <2>3, <2>5, <2>6 DEF KeyInv
<1>6. CASE BreakLock(p)
  <2>1. /\ opener[p] = "break" /\ opener' \in [Openers -> Places]
        /\ \A q \in Openers : opener'[q] = IF q = p THEN "lock" ELSE opener[q]
    BY <1>0, <1>6, OpenerMoves DEF BreakLock, Places
  <2>2. /\ private' = private /\ public' = public /\ format' = format /\ registered' = registered
        /\ attempts' = attempts /\ notFound' = notFound
        /\ lockedBy' = NoKey
    BY <1>6 DEF BreakLock, session
  <2>3. KeyTypeOK'
    BY <1>0, <2>1, <2>2 DEF KeyTypeOK, Places
  <2>4. \A q \in Openers : q # p => opener[q] = "killed"
    BY <2>1 DEF KeyInv, LastOne
  <2>5. Exclusive' /\ LastOne' /\ OnlyMortals'
    BY <2>1, <2>4 DEF KeyInv, Exclusive, Holds, LastOne, OnlyMortals
  <2>6. Generating' /\ KeyThere' /\ TriesLeft' /\ PairMatches'
    BY <2>1, <2>2 DEF KeyInv, Generating, KeyThere, TriesLeft, PairMatches
  <2> QED
    BY <2>3, <2>5, <2>6 DEF KeyInv
<1>7. CASE Recheck(p)
  <2> DEFINE to == AfterLock(p)
  <2>1. /\ opener[p] = "recheck" /\ opener' \in [Openers -> Places]
        /\ \A q \in Openers : opener'[q] = IF q = p THEN to ELSE opener[q]
    BY <1>0, <1>7, OpenerMoves DEF Recheck, AfterLock, Places
  <2>2. /\ private' = private /\ public' = public /\ format' = format /\ lockedBy' = lockedBy
        /\ registered' = registered /\ attempts' = attempts /\ notFound' = notFound
    BY <1>7 DEF Recheck, files, session
  <2>3. \/ to = "public" /\ private = NoKey
        \/ to = "release" /\ private # NoKey
    BY DEF AfterLock
  <2> HIDE DEF to
  <2>4. KeyTypeOK'
    BY <1>0, <2>1, <2>2 DEF KeyTypeOK, Places
  <2>5. Exclusive' /\ LastOne' /\ OnlyMortals'
    BY <2>1, <2>2, <2>3 DEF KeyInv, Exclusive, Holds, LastOne, OnlyMortals
  <2>6. Generating' /\ KeyThere' /\ TriesLeft' /\ PairMatches'
    BY <2>1, <2>2, <2>3 DEF KeyInv, Generating, KeyThere, TriesLeft, PairMatches
  <2> QED
    BY <2>4, <2>5, <2>6 DEF KeyInv
<1>8. CASE WritePublic(p)
  <2>1. /\ opener[p] = "public" /\ opener' \in [Openers -> Places]
        /\ \A q \in Openers : opener'[q] = IF q = p THEN "private" ELSE opener[q]
    BY <1>0, <1>8, OpenerMoves DEF WritePublic, Places
  <2>2. /\ private' = private /\ format' = format /\ lockedBy' = lockedBy /\ registered' = registered
        /\ attempts' = attempts /\ notFound' = notFound
        /\ public' = p
    BY <1>8 DEF WritePublic, session
  <2>3. private = NoKey /\ \A q \in Openers : q # p => ~Holds(q)
    BY <2>1 DEF KeyInv, Generating, Exclusive, Holds
  <2>4. KeyTypeOK'
    BY <1>0, <2>1, <2>2 DEF KeyTypeOK, Places, Keys
  <2>5. Exclusive' /\ LastOne' /\ OnlyMortals'
    BY <2>1, <2>2 DEF KeyInv, Exclusive, Holds, LastOne, OnlyMortals
  <2>6. Generating' /\ KeyThere' /\ TriesLeft'
    BY <2>1, <2>2, <2>3 DEF KeyInv, Generating, KeyThere, TriesLeft, Holds
  <2>7. PairMatches'
    BY <2>1, <2>2, <2>3 DEF KeyInv, KeyThere, PairMatches
  <2> QED
    BY <2>4, <2>5, <2>6, <2>7 DEF KeyInv
<1>9. CASE WritePrivate(p)
  <2>1. /\ opener[p] = "private" /\ opener' \in [Openers -> Places]
        /\ \A q \in Openers : opener'[q] = IF q = p THEN "release" ELSE opener[q]
    BY <1>0, <1>9, OpenerMoves DEF WritePrivate, Places
  <2>2. /\ public' = public /\ lockedBy' = lockedBy /\ registered' = registered /\ attempts' = attempts
        /\ notFound' = notFound
        /\ private' = p /\ format' = "openssh" /\ p # NoKey
    BY <1>9 DEF WritePrivate, session, KeyAssumption
  <2>3. /\ private = NoKey /\ public = p
        /\ \A q \in Openers : q # p => ~Holds(q)
    BY <2>1 DEF KeyInv, Generating, Exclusive, Holds
  <2>4. KeyTypeOK'
    BY <1>0, <2>1, <2>2 DEF KeyTypeOK, Places, Keys
  <2>5. Exclusive' /\ LastOne' /\ OnlyMortals'
    BY <2>1, <2>2 DEF KeyInv, Exclusive, Holds, LastOne, OnlyMortals
  <2>6. Generating' /\ KeyThere' /\ TriesLeft'
    BY <2>1, <2>2, <2>3 DEF KeyInv, Generating, KeyThere, TriesLeft, Holds
  <2>7. PairMatches'
    BY <2>1, <2>2, <2>3 DEF KeyInv, KeyThere, PairMatches
  <2> QED
    BY <2>4, <2>5, <2>6, <2>7 DEF KeyInv
<1>10. CASE Release(p)
  <2>1. /\ opener[p] = "release" /\ opener' \in [Openers -> Places]
        /\ \A q \in Openers : opener'[q] = IF q = p THEN "register" ELSE opener[q]
    BY <1>0, <1>10, OpenerMoves DEF Release, Places
  <2>2. /\ private' = private /\ public' = public /\ format' = format /\ registered' = registered
        /\ attempts' = attempts /\ notFound' = notFound
        /\ lockedBy' = NoKey
    BY <1>10 DEF Release, session
  <2>3. \A q \in Openers : q # p => ~Holds(q)
    BY <2>1 DEF KeyInv, Exclusive, Holds
  <2>4. KeyTypeOK'
    BY <1>0, <2>1, <2>2 DEF KeyTypeOK, Places
  <2>5. Exclusive' /\ LastOne' /\ OnlyMortals'
    BY <2>1, <2>2, <2>3 DEF KeyInv, Exclusive, Holds, LastOne, OnlyMortals
  <2>6. Generating' /\ KeyThere' /\ TriesLeft' /\ PairMatches'
    BY <2>1, <2>2 DEF KeyInv, Generating, KeyThere, TriesLeft, PairMatches
  <2> QED
    BY <2>4, <2>5, <2>6 DEF KeyInv
<1> QED
  BY <1>1, <1>2, <1>3, <1>4, <1>5, <1>6, <1>7, <1>8, <1>9, <1>10 DEF Step

LEMMA KeyNext ==
    ASSUME KeyAssumption, TwoOrUnharmed, KeyInv, [NextKey]_keyVars
    PROVE  KeyInv'
<1>0. KeyTypeOK
  BY DEF KeyInv
<1>1. ASSUME NEW p \in Openers, NotFound(p) PROVE KeyInv'
  <2> DEFINE to == IF attempts[p] + 1 = MaxAttempts THEN "failed" ELSE "register"
  <2>1. /\ opener[p] = "register" /\ opener' \in [Openers -> Places]
        /\ \A q \in Openers : opener'[q] = IF q = p THEN to ELSE opener[q]
    BY <1>0, <1>1 DEF NotFound, KeyTypeOK, Places
  <2>2. /\ private' = private /\ public' = public /\ format' = format /\ lockedBy' = lockedBy
        /\ registered' = registered
        /\ notFound' \in 0..MaxNotFound
    BY <1>0, <1>1 DEF NotFound, files, KeyTypeOK, KeyAssumption
  <2>a. attempts \in [Openers -> 0..MaxAttempts] /\ attempts[p] < MaxAttempts
    BY <1>0, <2>1 DEF KeyInv, TriesLeft, KeyTypeOK
  <2>0. /\ attempts[p] + 1 \in 0..MaxAttempts
        /\ attempts' = [attempts EXCEPT ![p] = attempts[p] + 1]
    BY <1>1, <2>a DEF NotFound, MaxAttempts
  <2>3. /\ attempts' \in [Openers -> 0..MaxAttempts]
        /\ \A q \in Openers : attempts'[q] = IF q = p THEN attempts[p] + 1 ELSE attempts[q]
    BY <2>0, <2>a
  <2>4. to \in {"failed", "register"} /\ (to = "register" => attempts[p] + 1 < MaxAttempts)
    BY <1>0, <2>1 DEF KeyInv, TriesLeft, KeyTypeOK, MaxAttempts
  <2> HIDE DEF to
  <2>5. KeyTypeOK'
    BY <1>0, <2>1, <2>2, <2>3 DEF KeyTypeOK, Places
  <2>6. Exclusive' /\ LastOne' /\ OnlyMortals'
    BY <2>1, <2>2, <2>4 DEF KeyInv, Exclusive, Holds, LastOne, OnlyMortals
  <2>7. Generating' /\ KeyThere' /\ TriesLeft' /\ PairMatches'
    BY <2>1, <2>2, <2>3, <2>4 DEF KeyInv, Generating, KeyThere, TriesLeft, PairMatches
  <2> QED
    BY <2>5, <2>6, <2>7 DEF KeyInv
<1>2. ASSUME NEW p \in Openers, Refused(p) PROVE KeyInv'
  <2>1. /\ opener[p] = "register" /\ opener' \in [Openers -> Places]
        /\ \A q \in Openers : opener'[q] = IF q = p THEN "failed" ELSE opener[q]
    BY <1>0, <1>2, OpenerMoves DEF Refused, Places
  <2>2. /\ private' = private /\ public' = public /\ format' = format /\ lockedBy' = lockedBy
        /\ registered' = registered /\ attempts' = attempts /\ notFound' = notFound
    BY <1>2 DEF Refused, files, session
  <2>3. /\ registered' \in [Openers -> Keys \cup {NoKey}]
        /\ attempts' \in [Openers -> 0..MaxAttempts] /\ notFound' \in 0..MaxNotFound
    BY <1>0, <2>2 DEF KeyTypeOK
  <2>4. "failed" \in Free
    BY DEF Free
  <2> QED
    BY <2>1, <2>2, <2>3, <2>4, Walks
<1>3. ASSUME NEW p \in Openers, Kill(p) PROVE KeyInv'
  <2>1. /\ opener[p] \notin {"killed", "failed"} /\ opener' \in [Openers -> Places]
        /\ \A q \in Openers : opener'[q] = IF q = p THEN "killed" ELSE opener[q]
    BY <1>0, <1>3 DEF Kill, KeyTypeOK, Places
  <2>2. /\ private' = private /\ public' = public /\ format' = format /\ lockedBy' = lockedBy
        /\ registered' = registered /\ attempts' = attempts /\ notFound' = notFound
    BY <1>3 DEF Kill, files, session
  <2>3. /\ registered' \in [Openers -> Keys \cup {NoKey}]
        /\ attempts' \in [Openers -> 0..MaxAttempts] /\ notFound' \in 0..MaxNotFound
    BY <1>0, <2>2 DEF KeyTypeOK
  <2>4. "killed" \in Free /\ p \in Mortal
    BY <1>3 DEF Free, Kill
  <2> QED
    BY <2>1, <2>2, <2>3, <2>4, Walks
<1>4. ASSUME UNCHANGED keyVars PROVE KeyInv'
  BY <1>4 DEF keyVars, KeyInv, KeyTypeOK, Exclusive, Holds, LastOne, OnlyMortals, Generating,
     KeyThere, TriesLeft, PairMatches
<1> QED
  BY <1>1, <1>2, <1>3, <1>4, KeyStep DEF NextKey

\* A private key that can be seen has its own public half beside it, and what a process
\* has registered is the half of the key ssh offers, for any number of processes of
\* which none is killed, and for two of which both may be (session.go's EnsureKeyPair).
THEOREM RegisteredIsOffered ==
    ASSUME KeyAssumption, TwoOrUnharmed
    PROVE  SpecKey => []PairMatches
<1>1. InitKey => KeyInv
  BY KeyInit
<1>2. KeyInv /\ [NextKey]_keyVars => KeyInv'
  BY KeyNext
<1>3. KeyInv => PairMatches
  BY DEF KeyInv
<1> QED
  BY <1>1, <1>2, <1>3, PTL DEF SpecKey
=============================================================================
