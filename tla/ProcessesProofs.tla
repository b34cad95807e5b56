-------------------------- MODULE ProcessesProofs --------------------------
(***************************************************************************)
(* What MCProcesses checks of its parts, on its small instance, from the   *)
(* proofs about each part for every instance.  H and R are those proofs'   *)
(* modules at the constants of that instance.                              *)
(***************************************************************************)
EXTENDS MCProcesses, TLAPS

H == INSTANCE HostProofs WITH
    Launcher <- {"w"}, Stopper <- {"l"}, MaxDaemons <- 4, MaxCalls <- 2, MaxCrashes <- 1, Command
    <- {"c1", "c2"}, Size <- 2, BufferCap <- 1, MaxCommands <- 1, PaneCap <- 1, MaxStalls <- 0,
    MaxStreamAttempts <- 2, MaxPanes <- 1, Prompt <- TRUE, Sidecar <- {"s1"}, MaxTime <- 2,
    ListMaxAge <- 1, IdleShutdown <- 1, MaxFailures <- 2, Neighbour <- TRUE, Openers <- {"p1",
    "p2"}, Mortal <- {"p1", "p2"}, NoKey <- "no key", Legacy <- "legacy", MaxNotFound <- 4

R == INSTANCE ReviewProofs WITH
    Prompts <- 3, Member <- {"m1", "m2"}, Answers <- ReviewAnswers, MaxFindings <- 2, Caller <-
    {"t1"}, MaxRuns <- 2, Lossy <- FALSE, Restarts <- 2, Reviewers <- {"r1", "r2"}, Attempts <- 3,
    MaxTree <- 2, Rewrites <- FALSE, KeepSidecars <- FALSE

-----------------------------------------------------------------------------
(* The daemon. *)

LEMMA DaemonAssumed == H!LifecycleAssumption
  BY DEF H!LifecycleAssumption, H!Daemon

LEMMA DaemonStepSame == Daemon!NextDaemon => H!NextDaemon
  BY DEF Daemon!NextDaemon, Daemon!Daemon, Daemon!Runs, Daemon!Crash, Daemon!Client, Daemon!Call,
         Daemon!Acts, Daemon!WritePID, Daemon!RemoveSocket, Daemon!Listen, Daemon!StatSocket,
         Daemon!Serve, Daemon!CloseServer, Daemon!Drained, Daemon!RemoveOwnSocket,
         Daemon!ReadOwnPID, Daemon!RemovePID, Daemon!Alive, Daemon!Becomes, Daemon!daemonFiles,
         Daemon!Check, Daemon!Ping, Daemon!Stop, Daemon!Stopped, Daemon!Launch, Daemon!Launched,
         Daemon!LaunchDeadline, Daemon!counts, Daemon!None, Daemon!SameSocket, Daemon!NoDaemon,
         Daemon!Running, Daemon!ClientGoes, Daemon!AfterPing, Daemon!Reachable, Daemon!Signal,
         Daemon!Unused, Daemon!Spawned, Daemon!UnderWay, Daemon!Winding, Daemon!Starting,
         H!NextDaemon, H!Daemon, H!Runs, H!Crash, H!Client, H!Call, H!Acts, H!WritePID,
         H!RemoveSocket, H!Listen, H!StatSocket, H!Serve, H!CloseServer, H!Drained,
         H!RemoveOwnSocket, H!ReadOwnPID, H!RemovePID, H!Alive, H!Becomes, H!daemonFiles, H!Check,
         H!Ping, H!Stop, H!Stopped, H!Launch, H!Launched, H!LaunchDeadline, H!counts, H!None,
         H!SameSocket, H!NoDaemon, H!Running, H!ClientGoes, H!AfterPing, H!Reachable, H!Signal,
         H!Unused, H!Spawned, H!UnderWay, H!Winding, H!Starting

LEMMA DaemonInitSame == Daemon!InitDaemon => H!InitDaemon
  BY DEF Daemon!InitDaemon, Daemon!Daemon, Daemon!NoDaemon, Daemon!None, Daemon!Client,
         H!InitDaemon, H!Daemon, H!NoDaemon, H!None, H!Client

LEMMA DaemonStarts == Init => H!SocketInv
  BY DaemonAssumed, DaemonInitSame, H!SocketInit DEF Init

LEMMA DaemonGoes ==
    ASSUME [Next]_allVars PROVE [H!NextDaemon]_(H!daemonVars)
<1>1. Daemon!NextDaemon \/ UNCHANGED daemonPart
  BY DEF Next, OthersRest, allVars
<1> QED
  BY <1>1, DaemonStepSame
     DEF daemonPart, H!daemonVars, H!daemonFiles, H!counts

LEMMA DaemonStays ==
    ASSUME [Next]_allVars, H!SocketInv
    PROVE  H!SocketInv'
  BY DaemonAssumed, DaemonGoes, H!SocketNext

LEMMA DaemonSame == H!DaemonTypeOK => Daemon!DaemonTypeOK
  BY DEF Daemon!DaemonTypeOK, Daemon!Daemon, Daemon!None, Daemon!DaemonRec, Daemon!Client,
         Daemon!ClientRec, Daemon!Starting, Daemon!Winding, H!DaemonTypeOK, H!Daemon, H!None,
         H!DaemonRec, H!Client, H!ClientRec, H!Starting, H!Winding

-----------------------------------------------------------------------------
(* The output of its commands. *)

LEMMA OutputAssumed == H!OutputAssumption
  BY DEF H!OutputAssumption

LEMMA OutputStepSame == Output!NextOutput => H!NextOutput
  BY DEF Output!NextOutput, Output!RegisterCommand, Output!Connect, Output!Frame, Output!Exit,
         Output!Cut, Output!OpenPane, Output!ClosePane, Output!Tick, Output!Answer,
         Output!AnswerFails, Output!EvictOldest, Output!paneVars, Output!Appended, Output!Run,
         Output!Finished, Output!Ends, Output!Kept, Output!Closed, Output!Ask, Output!streamVars,
         Output!ReadStore, Output!Shown, Output!ReadBuffer, Output!NoOutput, Output!Fed,
         Output!Cardinality, H!NextOutput, H!RegisterCommand, H!Connect, H!Frame, H!Exit, H!Cut,
         H!OpenPane, H!ClosePane, H!Tick, H!Answer, H!AnswerFails, H!EvictOldest, H!paneVars,
         H!Appended, H!Run, H!Finished, H!Ends, H!Kept, H!Closed, H!Ask, H!streamVars,
         H!ReadStore, H!Shown, H!ReadBuffer, H!NoOutput, H!Fed, H!Cardinality

LEMMA OutputInitSame == Output!InitOutput => H!InitOutput
  BY DEF Output!InitOutput, Output!NoStream, Output!EmptyBuffer, Output!Closed, H!InitOutput,
         H!NoStream, H!EmptyBuffer, H!Closed

LEMMA OutputStarts == Init => H!OutInv /\ H!OutHonest
  BY OutputAssumed, OutputInitSame, H!OutInvInit, H!OutHonestInit DEF Init

LEMMA OutputGoes ==
    ASSUME [Next]_allVars PROVE [H!NextOutput]_(H!outputVars)
<1>1. Output!NextOutput \/ UNCHANGED outputPart
  BY DEF Next, OthersRest, allVars
<1> QED
  BY <1>1, OutputStepSame
     DEF outputPart, H!outputVars, H!streamVars, H!paneVars

LEMMA OutputStays ==
    ASSUME [Next]_allVars, H!OutInv /\ H!OutHonest
    PROVE  H!OutInv' /\ H!OutHonest'
  BY OutputAssumed, OutputGoes, H!OutInvNext, H!OutHonestNext

LEMMA OutputSame ==
    /\ H!OutputTypeOK => Output!OutputTypeOK
    /\ H!BufferIsTail => Output!BufferIsTail
    /\ H!PaneHonest => Output!PaneHonest
  BY DEF Output!OutputTypeOK, Output!BufferIsTail, Output!PaneHonest, Output!Stream, Output!Run,
         H!OutputTypeOK, H!BufferIsTail, H!PaneHonest, H!Stream, H!Run

-----------------------------------------------------------------------------
(* The sidecars it watches. *)

LEMMA WatchAssumed == H!WatchAssumption
  BY DEF H!WatchAssumption

LEMMA WatchStepSame == Watch!NextWatch => H!NextWatch
  BY DEF Watch!NextWatch, Watch!Pass, Watch!API, Watch!Fetched, Watch!LoadSidecars, Watch!Publish,
         Watch!Snapshot, Watch!Create, Watch!Save, Watch!Delete, Watch!SampleFails,
         Watch!SampleWorks, Watch!CooledOff, Watch!liveVars, Watch!pollVars, Watch!Idle,
         Watch!Listed, Watch!Files, Watch!Due, Watch!StartFetch, Watch!Gone, Watch!Confirmed,
         Watch!Reconciled, Watch!NoTime, Watch!NoFile, Watch!Attached, Watch!NoSampler,
         H!NextWatch, H!Pass, H!API, H!Fetched, H!LoadSidecars, H!Publish, H!Snapshot, H!Create,
         H!Save, H!Delete, H!SampleFails, H!SampleWorks, H!CooledOff, H!liveVars, H!pollVars,
         H!Idle, H!Listed, H!Files, H!Due, H!StartFetch, H!Gone, H!Confirmed, H!Reconciled,
         H!NoTime, H!NoFile, H!Attached, H!NoSampler

LEMMA WatchInitSame == Watch!InitWatch => H!InitWatch
  BY DEF Watch!InitWatch, Watch!NoFile, Watch!NoList, Watch!Idle, Watch!NoTime, Watch!NoSampler,
         H!InitWatch, H!NoFile, H!NoList, H!Idle, H!NoTime, H!NoSampler

LEMMA WatchStarts == Init => H!WatchInv
  BY WatchAssumed, WatchInitSame, H!WatchInvInit DEF Init

LEMMA WatchGoes ==
    ASSUME [Next]_allVars PROVE [H!NextWatch]_(H!watchVars)
<1>1. Watch!NextWatch \/ UNCHANGED watchPart
  BY DEF Next, OthersRest, allVars
<1> QED
  BY <1>1, WatchStepSame
     DEF watchPart, H!watchVars, H!liveVars, H!pollVars

LEMMA WatchStays ==
    ASSUME [Next]_allVars, H!WatchInv
    PROVE  H!WatchInv'
  BY WatchAssumed, WatchGoes, H!WatchInvNext

LEMMA WatchSame == H!WatchTypeOK => Watch!WatchTypeOK
  BY DEF Watch!WatchTypeOK, Watch!Time, Watch!NoTime, H!WatchTypeOK, H!Time, H!NoTime

-----------------------------------------------------------------------------
(* A review pass. *)

LEMMA PassAssumed == R!PassAssumption
<1>1. ASSUME NEW raw \in ReviewAnswers PROVE raw \in Seq(R!RawFindings)
  <2>1. \A i \in DOMAIN raw : raw[i] \in R!RawFindings
    BY DEF R!RawFindings, R!Range
  <2>2. CASE raw = <<Finding("a:1", "low"), Finding("outside", "high"), Finding("b:0", "odd")>>
    <3>1. raw[1] \in R!RawFindings /\ raw[2] \in R!RawFindings /\ raw[3] \in R!RawFindings
      BY <2>1, <2>2
    <3> QED
      BY <2>2, <3>1
  <2>3. CASE raw = <<Finding("a:1", "high"), Finding("a:1", "medium")>>
    <3>1. raw[1] \in R!RawFindings /\ raw[2] \in R!RawFindings
      BY <2>1, <2>3
    <3> QED
      BY <2>3, <3>1
  <2> QED
    BY <2>2, <2>3 DEF ReviewAnswers
<1> QED
  BY <1>1 DEF R!PassAssumption, ReviewAnswers

LEMMA PassStepSame == Review!NextPass => R!NextPass
  BY DEF Review!NextPass, Review!HandsOut, Review!Quit, Review!Prompt, Review!Works,
         Review!Acquire, Review!AcquireFails, Review!AllStarted, Review!PassEnds, Review!Begin,
         Review!RunOne, Review!Settle, Review!Release, Review!AllReturned, Review!Fatal,
         Review!FailedReviews, Review!Settled, Review!Cancelled, Review!CleanFindings,
         Review!Attributed, Review!Usable, Review!Cleaned, Review!Severity, Review!Rank,
         R!NextPass, R!HandsOut, R!Quit, R!Prompt, R!Works, R!Acquire, R!AcquireFails,
         R!AllStarted, R!PassEnds, R!Begin, R!RunOne, R!Settle, R!Release, R!AllReturned, R!Fatal,
         R!FailedReviews, R!Settled, R!Cancelled, R!CleanFindings, R!Attributed, R!Usable,
         R!Cleaned, R!Severity, R!Rank

LEMMA PassInitSame == Review!InitPass => R!InitPass
  BY DEF Review!InitPass, Review!Prompt, Review!Job, Review!Nobody, R!InitPass, R!Prompt, R!Job,
         R!Nobody

LEMMA PassStarts == Init => R!PassInv
  BY PassAssumed, PassInitSame, R!PassInvInit DEF Init

LEMMA PassGoes ==
    ASSUME [Next]_allVars PROVE [R!NextPass]_(R!passVars)
<1>1. Review!NextPass \/ UNCHANGED passPart
  BY DEF Next, OthersRest, allVars
<1> QED
  BY <1>1, PassStepSame
     DEF passPart, R!passVars

LEMMA PassStays ==
    ASSUME [Next]_allVars, R!PassInv
    PROVE  R!PassInv'
  BY PassAssumed, PassGoes, R!PassInvNext

LEMMA PassSame ==
    /\ R!PassTypeOK => Review!PassTypeOK
    /\ R!RowsSettled => Review!RowsSettled
    /\ R!NoSpuriousCancel => Review!NoSpuriousCancel
    /\ R!PassComplete => Review!PassComplete
    /\ R!FindingsMerged => Review!FindingsMerged
  BY DEF Review!PassTypeOK, Review!RowsSettled, Review!NoSpuriousCancel, Review!PassComplete,
         Review!FindingsMerged, Review!Prompt, Review!Nobody, Review!DedupeFindings,
         Review!AllFindings, Review!SameFinding, Review!Rank, Review!Merged, Review!Worse,
         Review!Range, R!PassTypeOK, R!RowsSettled, R!NoSpuriousCancel, R!PassComplete,
         R!FindingsMerged, R!Prompt, R!Nobody, R!DedupeFindings, R!AllFindings, R!SameFinding,
         R!Rank, R!Merged, R!Worse, R!Range

-----------------------------------------------------------------------------
(* A detached review. *)

LEMMA DetachAssumed == R!DetachAssumption /\ R!OneCaller
  BY DEF R!DetachAssumption, R!OneCaller

LEMMA DetachStepSame == Detached!NextDetach => R!NextDetach
  BY DEF Detached!NextDetach, Detached!Runs, Detached!WritesPID, Detached!ReviewEnds,
         Detached!WritesCode, Detached!Restart, Detached!CheckNoActiveRun, Detached!Launch,
         Detached!LaunchFails, Detached!Save, Detached!LoadRecord, Detached!LookForExit,
         Detached!LookForProcess, Detached!Told, Detached!Alive, Detached!NoActiveRun,
         Detached!Goes, Detached!NoRun, Detached!Gone, Detached!NotReading, Detached!Status,
         R!NextDetach, R!Runs, R!WritesPID, R!ReviewEnds, R!WritesCode, R!Restart,
         R!CheckNoActiveRun, R!Launch, R!LaunchFails, R!Save, R!LoadRecord, R!LookForExit,
         R!LookForProcess, R!Told, R!Alive, R!NoActiveRun, R!Goes, R!NoRun, R!Gone, R!NotReading,
         R!Status

LEMMA DetachInitSame == Detached!InitDetach => R!InitDetach
  BY DEF Detached!InitDetach, Detached!NoRun, Detached!Runs, Detached!NoDir, Detached!Idle,
         Detached!NotReading, R!InitDetach, R!NoRun, R!Runs, R!NoDir, R!Idle, R!NotReading

LEMMA DetachStarts == Init => R!DetachInv /\ R!OneDetached
  BY DetachAssumed, DetachInitSame, R!DetachInvInit, R!OneDetachedInit DEF Init

LEMMA DetachGoes ==
    ASSUME [Next]_allVars PROVE [R!NextDetach]_(R!detachVars)
<1>1. Detached!NextDetach \/ UNCHANGED detachPart
  BY DEF Next, OthersRest, allVars
<1> QED
  BY <1>1, DetachStepSame
     DEF detachPart, R!detachVars

LEMMA DetachStays ==
    ASSUME [Next]_allVars, R!DetachInv /\ R!OneDetached
    PROVE  R!DetachInv' /\ R!OneDetached'
  BY DetachAssumed, DetachGoes, R!DetachInvNext, R!OneDetachedNext

LEMMA DetachSame ==
    /\ R!DetachTypeOK => Detached!DetachTypeOK
    /\ R!ToldTruly => Detached!ToldTruly
    /\ R!OneRunAtATime => Detached!OneRunAtATime
  BY DEF Detached!DetachTypeOK, Detached!ToldTruly, Detached!OneRunAtATime, Detached!Runs,
         Detached!NoRun, Detached!Dir, Detached!Alive, R!DetachTypeOK, R!ToldTruly,
         R!OneRunAtATime, R!Runs, R!NoRun, R!Dir, R!Alive

-----------------------------------------------------------------------------
(* The factory. *)

LEMMA FactoryAssumed == R!FactoryAssumption
  BY DEF R!FactoryAssumption

LEMMA FactoryStepSame == Loop!NextFactory => R!NextFactory
  BY DEF Loop!NextFactory, Loop!StartFactory, Loop!CreateWorktree, Loop!NewPool, Loop!Prepare,
         Loop!Implement, Loop!Collect, Loop!CollectFails, Loop!Pull, Loop!PullFails,
         Loop!KillStrays, Loop!PushFails, Loop!MarkNew, Loop!RunValidation, Loop!Checked,
         Loop!ReviewsFail, Loop!Judge, Loop!LastPull, Loop!Commit, Loop!ClosePool,
         Loop!RemoveWorktree, Loop!Push, Loop!Review, Loop!trees, Loop!checks, Loop!Fails,
         Loop!Trees, Loop!loop, Loop!Ends, Loop!Stuck, Loop!Pulled, Loop!Unchecked, Loop!Unseen,
         Loop!NotRun, Loop!Passed, Loop!NextRound, Loop!Feedback, Loop!FromReview, Loop!Started,
         Loop!Noted, Loop!Nothing, Loop!All, R!NextFactory, R!StartFactory, R!CreateWorktree,
         R!NewPool, R!Prepare, R!Implement, R!Collect, R!CollectFails, R!Pull, R!PullFails,
         R!KillStrays, R!PushFails, R!MarkNew, R!RunValidation, R!Checked, R!ReviewsFail, R!Judge,
         R!LastPull, R!Commit, R!ClosePool, R!RemoveWorktree, R!Push, R!Review, R!trees, R!checks,
         R!Fails, R!Trees, R!loop, R!Ends, R!Stuck, R!Pulled, R!Unchecked, R!Unseen, R!NotRun,
         R!Passed, R!NextRound, R!Feedback, R!FromReview, R!Started, R!Noted, R!Nothing, R!All

LEMMA FactoryInitSame == Loop!InitFactory => R!InitFactory
  BY DEF Loop!InitFactory, Loop!Nothing, Loop!Unchecked, Loop!Unseen, Loop!NotRun, R!InitFactory,
         R!Nothing, R!Unchecked, R!Unseen, R!NotRun

LEMMA FactoryStarts == Init => R!FactoryHonest
  BY FactoryAssumed, FactoryInitSame, R!FactoryHonestInit DEF Init

LEMMA FactoryGoes ==
    ASSUME [Next]_allVars PROVE [R!NextFactory]_(R!factoryVars)
<1>1. Loop!NextFactory \/ UNCHANGED factoryPart
  BY DEF Next, OthersRest, allVars
<1> QED
  BY <1>1, FactoryStepSame
     DEF factoryPart, R!factoryVars

LEMMA FactoryStays ==
    ASSUME [Next]_allVars, R!FactoryHonest
    PROVE  R!FactoryHonest'
  BY FactoryAssumed, FactoryGoes, R!FactoryHonestNext

LEMMA FactorySame ==
    /\ R!FactoryTypeOK => Loop!FactoryTypeOK
    /\ R!RoundsClosed => Loop!RoundsClosed
    /\ R!ChecksDescribeChange => Loop!ChecksDescribeChange
    /\ R!WorkKept => Loop!WorkKept
  BY DEF Loop!FactoryTypeOK, Loop!RoundsClosed, Loop!ChecksDescribeChange, Loop!WorkKept,
         Loop!Phases, Loop!Trees, Loop!Nothing, Loop!Verdicts, Loop!Succeeds, R!FactoryTypeOK,
         R!RoundsClosed, R!ChecksDescribeChange, R!WorkKept, R!Phases, R!Trees, R!Nothing,
         R!Verdicts, R!Succeeds

-----------------------------------------------------------------------------
(* The key. *)

LEMMA KeyAssumed == H!KeyAssumption /\ H!TwoOrUnharmed
  BY DEF H!KeyAssumption, H!TwoOrUnharmed

LEMMA KeyStepSame == Key!NextKey => H!NextKey
  BY DEF Key!NextKey, Key!Step, Key!NotFound, Key!Refused, Key!Kill, Key!Stat, Key!Migrate,
         Key!Lock, Key!LockTaken, Key!Published, Key!Poll, Key!Deadline, Key!BreakLock,
         Key!Recheck, Key!WritePublic, Key!WritePrivate, Key!Release, Key!Register,
         Key!MaxAttempts, Key!files, Key!Goes, Key!session, Key!Abandoned, Key!AfterLock,
         H!NextKey, H!Step, H!NotFound, H!Refused, H!Kill, H!Stat, H!Migrate, H!Lock, H!LockTaken,
         H!Published, H!Poll, H!Deadline, H!BreakLock, H!Recheck, H!WritePublic, H!WritePrivate,
         H!Release, H!Register, H!MaxAttempts, H!files, H!Goes, H!session, H!Abandoned,
         H!AfterLock

LEMMA KeyInitSame == Key!InitKey => H!InitKey
  BY DEF Key!InitKey, H!InitKey

LEMMA KeyStarts == Init => H!KeyInv
  BY KeyAssumed, KeyInitSame, H!KeyInit DEF Init

LEMMA KeyGoes ==
    ASSUME [Next]_allVars PROVE [H!NextKey]_(H!keyVars)
<1>1. Key!NextKey \/ UNCHANGED keyPart
  BY DEF Next, OthersRest, allVars
<1> QED
  BY <1>1, KeyStepSame
     DEF keyPart, H!keyVars

LEMMA KeyStays ==
    ASSUME [Next]_allVars, H!KeyInv
    PROVE  H!KeyInv'
  BY KeyAssumed, KeyGoes, H!KeyNext

LEMMA KeySame ==
    /\ H!KeyTypeOK => Key!KeyTypeOK
    /\ H!PairMatches => Key!PairMatches
  BY DEF Key!KeyTypeOK, Key!PairMatches, Key!Keys, Key!MaxAttempts, H!KeyTypeOK, H!PairMatches,
         H!Keys, H!MaxAttempts

-----------------------------------------------------------------------------
(* The parts side by side. *)

ProcessesInv ==
    /\ H!SocketInv /\ H!OutInv /\ H!OutHonest /\ H!WatchInv /\ H!KeyInv
    /\ R!PassInv /\ R!DetachInv /\ R!OneDetached /\ R!FactoryHonest

\* All parts start as they promise.
LEMMA ProcessesStart == Init => ProcessesInv
  BY DaemonStarts, OutputStarts, WatchStarts, PassStarts, DetachStarts, FactoryStarts, KeyStarts
     DEF ProcessesInv

\* A step is one of one part, which goes on as it promises, and leaves the others alone.
LEMMA ProcessesStay == ProcessesInv /\ [Next]_allVars => ProcessesInv'
<1> SUFFICES ASSUME ProcessesInv, [Next]_allVars PROVE ProcessesInv'
  OBVIOUS
<1>1. H!SocketInv' /\ H!OutInv' /\ H!OutHonest' /\ H!WatchInv' /\ H!KeyInv'
  BY DaemonStays, OutputStays, WatchStays, KeyStays DEF ProcessesInv
<1>2. R!PassInv' /\ R!DetachInv' /\ R!OneDetached' /\ R!FactoryHonest'
  BY PassStays, DetachStays, FactoryStays DEF ProcessesInv
<1> QED
  BY <1>1, <1>2 DEF ProcessesInv

THEOREM ProcessesHold == Spec => []ProcessesInv
  BY ProcessesStart, ProcessesStay, PTL DEF Spec

\* Whichever part moves and however it does, the state of each keeps its type.
THEOREM ProcessesTyped == Spec => []ProcessesTypeOK
<1>1. ProcessesInv => ProcessesTypeOK
  <2> SUFFICES ASSUME ProcessesInv PROVE ProcessesTypeOK
    OBVIOUS
  <2>1. H!DaemonTypeOK /\ H!OutputTypeOK /\ H!WatchTypeOK /\ H!KeyTypeOK
    BY OutputAssumed, H!OutInvType, H!WatchInvType
       DEF ProcessesInv, H!SocketInv, H!KeyInv
  <2>2. R!PassTypeOK /\ R!DetachTypeOK /\ R!FactoryTypeOK
    BY PassAssumed, R!PassHonest, R!DetachInvTold
       DEF ProcessesInv, R!FactoryHonest, R!FactoryInv
  <2> QED
    BY <2>1, <2>2, DaemonSame, OutputSame, WatchSame, PassSame, DetachSame, FactorySame, KeySame
       DEF ProcessesTypeOK
<1> QED
  BY <1>1, ProcessesHold, PTL

\* What is shown is what happened: buffers and panes (Appended, Fed; outputmodel.go,
\* output.go), the rows and the log of a pass that is over (RunPass), the rounds of a
\* factory run (factory.go) and what is told of a detached run (detach.go).
THEOREM ShownAsItWas == Spec => []ShownTruly
<1>1. ProcessesInv => ShownTruly
  <2> SUFFICES ASSUME ProcessesInv PROVE ShownTruly
    OBVIOUS
  <2>1. H!BufferIsTail /\ H!PaneHonest
    BY H!OutHonestShown DEF ProcessesInv, H!OutInv, H!OutBuffers, H!BufferIsTail
  <2>2. R!RowsSettled /\ R!RoundsClosed /\ R!ToldTruly
    BY PassAssumed, FactoryAssumed, R!PassHonest, R!DetachInvTold, R!FactoryRecords
       DEF ProcessesInv, R!FactoryHonest
  <2> QED
    BY <2>1, <2>2, OutputSame, PassSame, DetachSame, FactorySame DEF ShownTruly
<1> QED
  BY <1>1, ProcessesHold, PTL

\* A pass or a factory run that reports a result has it from every prompt or check it
\* stands for, and of the change it is about (RunPass, DedupeFindings; factory.go).
THEOREM ResultsStand == Spec => []ResultsHonest
<1>1. ProcessesInv => ResultsHonest
  <2> SUFFICES ASSUME ProcessesInv PROVE ResultsHonest
    OBVIOUS
  <2>1. R!NoSpuriousCancel /\ R!PassComplete /\ R!FindingsMerged
    BY PassAssumed, R!PassHonest, R!PassMerged DEF ProcessesInv
  <2>2. R!ChecksDescribeChange /\ R!WorkKept
    BY R!FactoryChecks, R!FactoryWork DEF ProcessesInv
  <2> QED
    BY <2>1, <2>2, PassSame, FactorySame DEF ResultsHonest
<1> QED
  BY <1>1, ProcessesHold, PTL

\* Neither do detached runs of a project share its checkout, nor does a process leave
\* with another key than the one it registered (detach.go, session.go).
THEOREM OneAtATimeHere == Spec => []OneAtATime
<1>1. ProcessesInv => OneAtATime
  <2> SUFFICES ASSUME ProcessesInv PROVE OneAtATime
    OBVIOUS
  <2>1. R!OneRunAtATime /\ H!PairMatches
    BY R!OneDetachedOne DEF ProcessesInv, H!KeyInv
  <2> QED
    BY <2>1, DetachSame, KeySame DEF OneAtATime
<1> QED
  BY <1>1, ProcessesHold, PTL

\* No step takes away what is another's: a daemon's last ones its successor's socket,
\* a poll's a sidecar that exists (daemon.go; PublishSnapshot).
THEOREM OthersStay == Spec => OthersKept
<1>1. ASSUME ProcessesInv, [Next]_allVars
      PROVE  [\A d \in Daemon!Daemon :
                daemon[d].at \in Daemon!Winding /\ daemon'[d] # daemon[d]
                  /\ sockFile \notin {Daemon!None, d} => sockFile' = sockFile]_(Daemon!daemonVars)
  <2>1. /\ [H!NextDaemon]_(H!daemonVars) /\ H!daemonVars = Daemon!daemonVars
        /\ (H!daemonVars)' = (Daemon!daemonVars)'
    BY <1>1, DaemonGoes DEF H!daemonVars, H!daemonFiles, H!counts, Daemon!daemonVars,
       Daemon!daemonFiles, Daemon!counts
  <2>2. Daemon!Daemon = H!Daemon /\ Daemon!Winding = H!Winding /\ Daemon!None = H!None
    BY DEF Daemon!Daemon, H!Daemon, Daemon!Winding, H!Winding, Daemon!None, H!None
  <2>3. ASSUME H!NextDaemon, NEW d \in H!Daemon, daemon[d].at \in H!Winding,
               daemon'[d] # daemon[d], sockFile \notin {H!None, d}
        PROVE  sockFile' = sockFile
    BY <1>1, <2>3, H!SuccessorStep DEF ProcessesInv
  <2>4. CASE H!NextDaemon
    BY <2>2, <2>3, <2>4
  <2>5. CASE UNCHANGED H!daemonVars
    BY <2>1, <2>5
  <2> QED
    BY <2>1, <2>4, <2>5
<1>2. ASSUME ProcessesInv, [Next]_allVars
      PROVE  [Watch!Publish => \A f \in loaded :
                remote[f.sc] = "exists" => \E x \in shown' : x.sc = f.sc]_(Watch!watchVars)
  <2>1. Watch!Publish => H!Publish
    BY DEF Watch!Publish, Watch!Gone, Watch!Confirmed, Watch!Reconciled, Watch!liveVars,
           Watch!NoTime, Watch!Attached, Watch!NoSampler, H!Publish, H!Gone, H!Confirmed,
           H!Reconciled, H!liveVars, H!NoTime, H!Attached, H!NoSampler
  <2> QED
    BY <1>2, <2>1, WatchAssumed, H!ExistingShown DEF ProcessesInv
<1> QED
  BY <1>1, <1>2, ProcessesHold, PTL DEF Spec, OthersKept, Daemon!SuccessorKept, Watch!ExistingKept

=============================================================================
