----------------------------- MODULE MCProcesses -----------------------------
(***************************************************************************)
(* The parts whose processes and goroutines have to come to an end, side   *)
(* by side: a behaviour is one of the part that `part' names, and the      *)
(* others rest.  Each part is checked on a small instance.                 *)
(***************************************************************************)
EXTENDS Naturals, Sequences, FiniteSets

CONSTANT Parts  \* the parts a run looks at

AllParts == {"daemon", "output", "watch", "pass", "detach", "factory", "key"}

ASSUME PartsAssumption == Parts \subseteq AllParts

VARIABLES
    part,  \* the part that moves
    pidFile, sockFile, daemon, client, calls, crashes,
    stream, buffer, byProject, pane, asked, panes,
    now, file, remote, list, fetch, lastFetch, loaded, polling, shown, lastSeen, sampler,
    main, nextUp, acquireErr, work, freeMembers, passCtx, fatalErr, runLog, inFlight, lines,
    passOutcome,
    detachRecord, dir, starter, reader, restarts,
    phase, impl, reviewerTree, worktree, round, feedback, change, todo, verdict, about,
    validation, factoryOutcome, factoryRecord, members,
    private, public, format, lockedBy, opener, registered, attempts, notFound

\* What a review of the pass may answer.
Finding(place, severity) == [place |-> place, body |-> "b", severity |-> severity]
ReviewAnswers ==
    {<<Finding("a:1", "low"), Finding("outside", "high"), Finding("b:0", "odd")>>,
     <<Finding("a:1", "high"), Finding("a:1", "medium")>>}

\* Four daemons at a time, a command that needs one and a login that stops it; one is killed.
Daemon == INSTANCE DaemonLifecycle WITH
    Launcher <- {"w"}, Stopper <- {"l"}, MaxDaemons <- 4, MaxCalls <- 2, MaxCrashes <- 1

\* Two commands of two bytes, of which a buffer and a pane keep one.
Output == INSTANCE CommandOutput WITH
    Command <- {"c1", "c2"}, Size <- 2, BufferCap <- 1, MaxCommands <- 1, PaneCap <- 1,
    MaxStalls <- 0, MaxStreamAttempts <- 2, MaxPanes <- 1, Prompt <- TRUE

\* A sidecar that comes and goes beside one that stays.
Watch == INSTANCE WatchState WITH
    Sidecar <- {"s1"}, MaxTime <- 2, ListMaxAge <- 1, IdleShutdown <- 1, MaxFailures <- 2,
    Neighbour <- TRUE

\* Three prompts over two sidecars; of three findings a review keeps two.
Review == INSTANCE ReviewPass WITH
    Prompts <- 3, Member <- {"m1", "m2"}, Answers <- ReviewAnswers, MaxFindings <- 2

\* Two runs one after another, on a primary that is restarted twice.
Detached == INSTANCE DetachedReview WITH
    Caller <- {"t1"}, MaxRuns <- 2, Lossy <- FALSE, Restarts <- 2

\* Two reviewers, three rounds.
Loop == INSTANCE Factory WITH
    Reviewers <- {"r1", "r2"}, Attempts <- 3, MaxTree <- 2, Rewrites <- FALSE,
    KeepSidecars <- FALSE

\* Two processes open sessions at once, and either may be killed.
Key == INSTANCE KeyPair WITH
    Openers <- {"p1", "p2"}, Mortal <- {"p1", "p2"}, NoKey <- "no key", Legacy <- "legacy",
    MaxNotFound <- 4

daemonPart ==
    <<pidFile, sockFile, daemon, client, calls, crashes>>
outputPart ==
    <<stream, buffer, byProject, pane, asked, panes>>
watchPart ==
    <<now, file, remote, list, fetch, lastFetch, loaded, polling, shown, lastSeen, sampler>>
passPart ==
    <<main, nextUp, acquireErr, work, freeMembers, passCtx, fatalErr, runLog, inFlight, lines,
    passOutcome>>
detachPart ==
    <<detachRecord, dir, starter, reader, restarts>>
factoryPart ==
    <<phase, impl, reviewerTree, worktree, round, feedback, change, todo, verdict, about,
    validation, factoryOutcome, factoryRecord, members>>
keyPart ==
    <<private, public, format, lockedBy, opener, registered, attempts, notFound>>

ASSUME InstancesAssumption ==
    /\ Daemon!LifecycleAssumption /\ Output!OutputAssumption /\ Watch!WatchAssumption
    /\ Review!PassAssumption /\ Detached!DetachAssumption /\ Loop!FactoryAssumption
    /\ Key!KeyAssumption

-----------------------------------------------------------------------------
Init ==
    /\ part \in Parts
    /\ IF part = "daemon" THEN TRUE ELSE pidFile = Daemon!None
    /\ Daemon!InitDaemon
    /\ Output!InitOutput
    /\ Watch!InitWatch
    /\ Review!InitPass
    /\ Detached!InitDetach
    /\ Loop!InitFactory
    /\ IF part = "key" THEN TRUE ELSE private = "no key"
    /\ Key!InitKey

OthersRest ==
    /\ UNCHANGED part
    /\ IF part = "daemon" THEN TRUE ELSE UNCHANGED daemonPart
    /\ IF part = "output" THEN TRUE ELSE UNCHANGED outputPart
    /\ IF part = "watch" THEN TRUE ELSE UNCHANGED watchPart
    /\ IF part = "pass" THEN TRUE ELSE UNCHANGED passPart
    /\ IF part = "detach" THEN TRUE ELSE UNCHANGED detachPart
    /\ IF part = "factory" THEN TRUE ELSE UNCHANGED factoryPart
    /\ IF part = "key" THEN TRUE ELSE UNCHANGED keyPart

Next ==
    \/ part = "daemon" /\ OthersRest /\ Daemon!NextDaemon
    \/ part = "output" /\ OthersRest /\ Output!NextOutput
    \/ part = "watch" /\ OthersRest /\ Watch!NextWatch
    \/ part = "pass" /\ OthersRest /\ Review!NextPass
    \/ part = "detach" /\ OthersRest /\ Detached!NextDetach
    \/ part = "factory" /\ OthersRest /\ Loop!NextFactory
    \/ part = "key" /\ OthersRest /\ Key!NextKey

allVars ==
    <<part, daemonPart, outputPart, watchPart, passPart, detachPart, factoryPart, keyPart>>

\* Goroutines run on, and a process that is not killed goes on with what it does: every
\* call they wait for has a timeout.  See each module for what is left out.
Fairness ==
    /\ \A d \in Daemon!Daemon :
         WF_daemonPart(part = "daemon" /\ Daemon!Runs(d))
    /\ \A c \in Daemon!Client :
         WF_daemonPart(part = "daemon" /\ Daemon!Acts(c))
    /\ \A c \in {"c1", "c2"} :
         /\ WF_outputPart(part = "output" /\ Output!Connect(c))
         /\ WF_outputPart(part = "output"
                /\ (Output!Frame(c) \/ Output!Exit(c) \/ Output!Cut(c)))
    /\ WF_outputPart(part = "output" /\ Output!Tick)
    /\ SF_outputPart(part = "output" /\ \E a \in asked : Output!Answer(a))
    /\ WF_watchPart(part = "watch" /\ Watch!LoadSidecars)
    /\ WF_watchPart(part = "watch" /\ Watch!Publish)
    /\ WF_watchPart(part = "watch" /\ Watch!API)
    /\ WF_watchPart(part = "watch" /\ Watch!Fetched)
    /\ WF_watchPart(part = "watch" /\ Watch!Pass)
    /\ WF_watchPart(part = "watch" /\ Watch!CooledOff("s1"))
    /\ WF_passPart(part = "pass" /\ Review!HandsOut)
    /\ \A p \in 1..3 : WF_passPart(part = "pass" /\ Review!Works(p))
    /\ \A r \in 1..2 : WF_detachPart(part = "detach"
          /\ (Detached!WritesPID(r) \/ Detached!ReviewEnds(r) \/ Detached!WritesCode(r)))
    /\ WF_detachPart(part = "detach"
          /\ (Detached!LookForExit \/ Detached!LookForProcess))
    /\ WF_factoryPart(part = "factory" /\ Loop!NextFactory)
    /\ \A p \in {"p1", "p2"} : WF_keyPart(part = "key" /\ Key!Step(p))

Spec == Init /\ [][Next]_allVars /\ Fairness

-----------------------------------------------------------------------------
(* What the parts promise; each is stated and explained in its module, and asked of the part
   that moves. *)

\* Every part's state keeps its type.
ProcessesTypeOK ==
    /\ part = "daemon" => Daemon!DaemonTypeOK
    /\ part = "output" => Output!OutputTypeOK
    /\ part = "watch" => Watch!WatchTypeOK
    /\ part = "pass" => Review!PassTypeOK
    /\ part = "detach" => Detached!DetachTypeOK
    /\ part = "factory" => Loop!FactoryTypeOK
    /\ part = "key" => Key!KeyTypeOK

\* What is shown is what happened: the output of a command, cut and resumed as it may be,
\* the rows and the log of a pass that is over, the rounds of a factory run, and what
\* `chunk review results' says of a detached run.
ShownTruly ==
    /\ part = "output" => Output!BufferIsTail /\ Output!PaneHonest
    /\ part = "pass" => Review!RowsSettled
    /\ part = "factory" => Loop!RoundsClosed
    /\ part = "detach" => Detached!ToldTruly

\* A pass or a factory run that reports a result has it from every prompt or check it
\* stands for, of the change it is about, and blames nobody for another's failure.
ResultsHonest ==
    /\ part = "pass" => Review!NoSpuriousCancel /\ Review!PassComplete /\ Review!FindingsMerged
    /\ part = "factory" => Loop!ChecksDescribeChange /\ Loop!WorkKept

\* Two of a kind never get in each other's way: detached runs of a project over its
\* checkout, and processes over the key they share.
OneAtATime ==
    /\ part = "detach" => Detached!OneRunAtATime
    /\ part = "key" => Key!PairMatches

\* Nobody takes away what is another's: a daemon on its way out its successor's socket,
\* nor a poll a sidecar that exists.
OthersKept == Daemon!SuccessorKept /\ Watch!ExistingKept

\* LauncherServed, StreamEnds, UnwatchedUnsampled, PassOver, RunReported, RunEnds and
\* OpensOrFails, as one: what the i-th of a part waits for, and what it is given.
Owed(i) ==
    \/ part = "daemon" /\ i = 1 /\ Daemon!Asking("w")
    \/ part = "output" /\ Output!Streaming(<<"c1", "c2">>[i])
    \/ part = "watch" /\ i = 1 /\ Watch!Unwatched
    \/ part = "detach" /\ Detached!Recorded(i)
    \/ part \in {"pass", "factory", "key"}
Paid(i) ==
    CASE part = "daemon" -> Daemon!Served("w")
      [] part = "output" -> ~buffer[<<"c1", "c2">>[i]].running
      [] part = "watch" -> Watch!Unsampled
      [] part = "detach" -> Detached!Reported(i)
      [] part = "pass" -> main = "over"
      [] part = "factory" -> phase = "done"
      [] part = "key" -> Key!Settled(<<"p1", "p2">>[i])

\* Whoever waits is served: a command by a daemon, a stream by its end, a sampler nobody
\* looks at by its own; and a pass, a recorded run, a factory run and a process that
\* needs the key come to an end.
EveryoneServed == \A i \in 1..2 : Owed(i) ~> Paid(i)
=============================================================================
