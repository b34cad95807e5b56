------------------------------ MODULE WatchState ------------------------------
(***************************************************************************)
(* What the watch daemon publishes of a project's sidecars                 *)
(* (watchd/daemon.go, load.go, liveness.go, resources.go).                 *)
(*                                                                         *)
(* Every poll loads the state files, drops the sidecars that the API's     *)
(* list shows to be gone, publishes the rest and reconciles the resource   *)
(* samplers with them.  The list is fetched in the background; state files *)
(* are written and sidecars deleted by commands of which the daemon hears  *)
(* nothing.  Time is counted in livenessIntervals.                         *)
(***************************************************************************)
EXTENDS Integers, FiniteSets

CONSTANTS
    Sidecar,      \* sidecars of the project
    MaxTime,      \* bound: the clock
    ListMaxAge,   \* listMaxAge: how long a list is believed
    IdleShutdown, \* idleShutdown: how long samplers outlive the last snapshot request
    MaxFailures,  \* maxSamplerFailures
    Neighbour     \* has the project one more sidecar, whose file stays as it is?

WatchAssumption ==
    /\ MaxTime \in Nat /\ ListMaxAge \in Nat /\ IdleShutdown \in Nat /\ MaxFailures \in Nat \ {0}
    /\ Neighbour \in BOOLEAN

VARIABLES
    now,       \* the clock
    file,      \* per sidecar: its state file, or NoFile
    remote,    \* per sidecar: whether it is new, exists, or is gone (external)
    list,      \* the last list that was fetched, or NoList
    fetch,     \* the fetch in flight
    lastFetch, \* when the last fetch began, NoTime before the first
    loaded,    \* the state files this poll has read, or {}
    polling,   \* is a poll between reading and publishing?
    shown,     \* the published sidecars
    lastSeen,  \* the last snapshot request
    sampler    \* per sidecar: its resource sampler

liveVars == <<list, fetch, lastFetch>>
pollVars == <<loaded, polling, shown>>
watchVars == <<now, file, remote, liveVars, pollVars, lastSeen, sampler>>

NoTime == -1
Time == 0..MaxTime
NoFile == [mtime |-> NoTime, inferred |-> FALSE]
NoList == [ids |-> {}, at |-> NoTime]
Idle == [on |-> FALSE, started |-> NoTime, answered |-> FALSE, ids |-> {}]
NoSampler == [at |-> "none", failures |-> 0]

InitWatch ==
    /\ now = 0
    /\ file = [s \in Sidecar |-> NoFile]
    /\ remote = [s \in Sidecar |-> "new"]
    /\ list = NoList /\ fetch = Idle /\ lastFetch = NoTime
    /\ loaded = {} /\ polling = FALSE /\ shown = {}
    /\ lastSeen = NoTime
    /\ sampler = [s \in Sidecar |-> NoSampler]

-----------------------------------------------------------------------------
(* Commands and the API, of which the daemon hears nothing. *)

Pass ==
    /\ now < MaxTime /\ now' = now + 1
    /\ UNCHANGED <<file, remote, liveVars, pollVars, lastSeen, sampler>>

Create(s) ==
    /\ remote[s] = "new" /\ remote' = [remote EXCEPT ![s] = "exists"]
    /\ UNCHANGED <<now, file, liveVars, pollVars, lastSeen, sampler>>

\* Its state file is written once it exists, later again; an org that the file does
\* not name is inferred from the project.
Save(s) ==
    /\ remote[s] # "new" /\ file[s].mtime < now
    /\ \E inferred \in BOOLEAN :
        file' = [file EXCEPT ![s] = [mtime |-> now, inferred |-> inferred]]
    /\ UNCHANGED <<now, remote, liveVars, pollVars, lastSeen, sampler>>

Delete(s) ==
    /\ remote[s] = "exists" /\ remote' = [remote EXCEPT ![s] = "gone"]
    /\ UNCHANGED <<now, file, liveVars, pollVars, lastSeen, sampler>>

-----------------------------------------------------------------------------
(* The list of sidecars that exist (livenessChecker). *)

\* Due after an interval, and at once for a file that the last fetch did not know.
Due(files) ==
    /\ ~fetch.on
    /\ \/ \E f \in files : f.mtime > lastFetch
       \/ /\ Neighbour \/ files # {}
          /\ lastFetch = NoTime \/ now - lastFetch >= 1

\* The time is taken before the request.
StartFetch == [on |-> TRUE, started |-> now, answered |-> FALSE, ids |-> {}]

API ==
    /\ fetch.on /\ ~fetch.answered
    /\ fetch' = [fetch EXCEPT !.answered = TRUE, !.ids = {s \in Sidecar : remote[s] = "exists"}]
    /\ UNCHANGED <<now, file, remote, list, lastFetch, pollVars, lastSeen, sampler>>

\* Mutant: the time is taken when the answer is there.
ListedLate == [ids |-> fetch.ids, at |-> now]

Listed == [ids |-> fetch.ids, at |-> fetch.started]

\* A failure keeps the list and is not retried before the interval is over.
Fetched ==
    /\ fetch.on
    /\ fetch' = Idle /\ lastFetch' = fetch.started
    /\ \/ fetch.answered /\ list' = Listed
       \/ UNCHANGED list
    /\ UNCHANGED <<now, file, remote, pollVars, lastSeen, sampler>>

\* Fails open: only a list that is recent, and newer than the file, shows that the
\* sidecar is gone; a list that may be another org's shows nothing.
Confirmed(f) == list.at # NoTime /\ now - list.at <= ListMaxAge /\ f.sc \in list.ids
Gone(f) ==
    /\ list.at # NoTime /\ now - list.at <= ListMaxAge
    /\ f.sc \notin list.ids /\ ~f.inferred /\ list.at > f.mtime

-----------------------------------------------------------------------------
(* A poll. *)

Files == {[sc |-> s, mtime |-> file[s].mtime, inferred |-> file[s].inferred] :
             s \in {t \in Sidecar : file[t] # NoFile}}

LoadSidecars ==
    /\ ~polling /\ polling' = TRUE /\ loaded' = Files
    /\ fetch' = IF Due(Files) THEN StartFetch ELSE fetch
    /\ UNCHANGED <<now, file, remote, list, lastFetch, shown, lastSeen, sampler>>

Attached == lastSeen # NoTime /\ now - lastSeen < IdleShutdown

\* Mutant: nobody watching is not noticed.
ReconciledUnwatched(want) ==
    [s \in Sidecar |->
        IF s \notin want THEN NoSampler
        ELSE IF sampler[s].at \in {"none", "due"} THEN [at |-> "running", failures |-> 0]
        ELSE sampler[s]]

\* Samplers of what is not shown any more are stopped, all of them while nobody
\* watches; one that gave up starts again when its cool-off is over.
Reconciled(want) ==
    [s \in Sidecar |->
        IF ~Attached \/ s \notin want THEN NoSampler
        ELSE IF sampler[s].at \in {"none", "due"} THEN [at |-> "running", failures |-> 0]
        ELSE sampler[s]]

Publish ==
    /\ polling /\ polling' = FALSE /\ loaded' = {}
    /\ LET kept == {f \in loaded : ~Gone(f)}
       IN  /\ shown' = {[sc |-> f.sc, verified |-> Confirmed(f)] : f \in kept}
           /\ sampler' = Reconciled({f.sc : f \in kept})
    /\ UNCHANGED <<now, file, remote, liveVars, lastSeen>>

\* A dashboard asks for the snapshot.
Snapshot ==
    /\ lastSeen' = now
    /\ UNCHANGED <<now, file, remote, liveVars, pollVars, sampler>>

SampleFails(s) ==
    /\ sampler[s].at = "running"
    /\ sampler' = [sampler EXCEPT ![s] =
         IF @.failures + 1 >= MaxFailures THEN [at |-> "cooling", failures |-> 0]
                                          ELSE [at |-> "running", failures |-> @.failures + 1]]
    /\ UNCHANGED <<now, file, remote, liveVars, pollVars, lastSeen>>

SampleWorks(s) ==
    /\ sampler[s].at = "running" /\ sampler' = [sampler EXCEPT ![s].failures = 0]
    /\ UNCHANGED <<now, file, remote, liveVars, pollVars, lastSeen>>

CooledOff(s) ==
    /\ sampler[s].at = "cooling" /\ sampler' = [sampler EXCEPT ![s].at = "due"]
    /\ UNCHANGED <<now, file, remote, liveVars, pollVars, lastSeen>>

NextWatch ==
    \/ Pass \/ API \/ Fetched \/ LoadSidecars \/ Publish \/ Snapshot
    \/ \E s \in Sidecar : \/ Create(s) \/ Save(s) \/ Delete(s)
                          \/ SampleFails(s) \/ SampleWorks(s) \/ CooledOff(s)

\* The poll loop's ticker, the request's timeout, and time.
FairWatch ==
    /\ WF_watchVars(LoadSidecars) /\ WF_watchVars(Publish)
    /\ WF_watchVars(API) /\ WF_watchVars(Fetched) /\ WF_watchVars(Pass)
    /\ \A s \in Sidecar : WF_watchVars(CooledOff(s))

SpecWatch == InitWatch /\ [][NextWatch]_watchVars /\ FairWatch

-----------------------------------------------------------------------------
(* Properties. *)

WatchTypeOK ==
    /\ now \in Time /\ lastSeen \in Time \cup {NoTime} /\ lastFetch \in Time \cup {NoTime}
    /\ file \in [Sidecar -> [mtime : Time \cup {NoTime}, inferred : BOOLEAN]]
    /\ remote \in [Sidecar -> {"new", "exists", "gone"}]
    /\ shown \subseteq [sc : Sidecar, verified : BOOLEAN]
    /\ \A s \in Sidecar : sampler[s].at \in {"none", "running", "cooling", "due"}

\* The check fails open: a poll never drops a sidecar that exists, however late the
\* list it is judged by was answered and whenever its file was written.
ExistingKept ==
    [][Publish => \A f \in loaded :
          remote[f.sc] = "exists" => \E x \in shown' : x.sc = f.sc]_watchVars

\* Once no dashboard has asked for a snapshot for a while, every sampler, and with it
\* a connection to the sidecar, comes to an end, until one asks again.
Unwatched == now = MaxTime /\ ~Attached
Unsampled == Attached \/ \A s \in Sidecar : sampler[s].at = "none"
UnwatchedUnsampled == Unwatched ~> Unsampled
==============================================================================
