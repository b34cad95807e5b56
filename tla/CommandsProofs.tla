--------------------------- MODULE CommandsProofs --------------------------
(***************************************************************************)
(* What MCCommands checks of its parts on small instances, from the proofs *)
(* about each of them for every instance.  R is those proofs' module at    *)
(* the constants of the small instances.                                   *)
(***************************************************************************)
EXTENDS MCCommands, TLAPS

R == INSTANCE CommandPartsProofs WITH
    Command <- ThreeCommands, Parallel <- 2, MaxAttempts <- 2, MaxTree <- 1, MaxLater <- 1,
    Meddled <- FALSE, disk <- runDisk, synced <- runSynced, Mutations <- 2, Sidecar <- {"w1",
    "w2"}, Variant <- {"v1", "v2"}, Slots <- 1, Commands <- 2, Timeout <- 1, SetupTime <- 1,
    OrphanAfter <- 6, Actors <- {"a1", "a2"}, Keys <- {"k1", "k2"}, Sidecars <- {"s1", "s2"}, Orgs
    <- {"o1", "o2"}, NoOrg <- "none", MaxOps <- 3, Paths <- {"plain", "built", "lock"}, Ignored <-
    {"built", "lock"}, Tracked <- {"plain", "lock"}, InWorktree <- TRUE, Contents <- 1, MaxEdits
    <- 2, MaxTransfers <- 2, Procs <- {"p1"}, Named <- {"test", "fmt"}, Gates <- {"test"}, Here <-
    {}, Found <- {"test"}, Sandboxes <- {"s1", "s2"}, Breaks <- FALSE, Explicit <- FALSE, Alone <-
    TRUE, MaxTurns <- 4, None <- "none", Call <- {"c1", "c2"}, Asked <- [c \in {"c1", "c2"} |->
    0], ClientTimeout <- 1, Budget <- 1, RetryMax <- 1, RetryAfter <- {1}, Credential <- {"t1",
    "t2", "t3"}, MaxLogins <- 2, Proc <- {"p1"}, Tokens <- AccountTokens, InEnv <- NoTokenInEnv,
    NoToken <- "no token", Writer <- {"p1", "p2"}, MaxEvents <- 4, MaxLogLines <- 2, TrimToLines
    <- 1, RecentEvents <- 3, Branch <- {"b1"}, MaxCommits <- 2, Row <- {"s1", "s2", "s3"}, Repo <-
    RepoOfRow, Group <- [s \in {"s1", "s2", "s3"} |-> 1], RowLines <- LinesOfRow, Own <- {"s2"},
    Heights <- {7, 12}, MaxShownEvents <- 2, Review <- {1, 2}, Project <- [r \in {1, 2} |-> r],
    MaxRequests <- 1

-----------------------------------------------------------------------------
(* A validation run. *)

LEMMA RunAssumed == R!RunAssumption
  BY DEF R!RunAssumption, R!Job, ThreeCommands

LEMMA RunStepSame == Run!NextRun => R!NextRun
  BY DEF Run!NextRun, Run!Begins, Run!Hook, Run!Delegated, Run!DelegateToDaemon, Run!InitHook,
         Run!Cached, Run!Prepare, Run!RunAutofix, Run!StartRemote, Run!Interrupted, Run!EndRemote,
         Run!RunRest, Run!Finish, Run!Dismiss, Run!Edit, Run!Later, Run!BackgroundRun, Run!Worker,
         Run!SyncMember, Run!AcquireWorker, Run!TakeJob, Run!WorkerLeaves, Run!RunOnSidecar,
         Run!NoRun, Run!MayRunInBackground, Run!Kind, Run!Exit, Run!StartsOver, Run!IsHook,
         Run!NoTree, Run!GoesOn, Run!HookResultCache, Run!Answer, Run!PoolSize, Run!Left,
         Run!AutofixFirst, Run!RunLocally, Run!Asking, Run!Out, Run!Collect, Run!LocalLast,
         Run!Failed, Run!Put, Run!Job, Run!Tree, Run!Free, Run!Queue, Run!First, Run!RunCommand,
         Run!Hears, Run!WrapHookResult, Run!RemoteJobs, Run!Local, Run!Cardinality, R!NextRun,
         R!Begins, R!Hook, R!Delegated, R!DelegateToDaemon, R!InitHook, R!Cached, R!Prepare,
         R!RunAutofix, R!StartRemote, R!Interrupted, R!EndRemote, R!RunRest, R!Finish, R!Dismiss,
         R!Edit, R!Later, R!BackgroundRun, R!Worker, R!SyncMember, R!AcquireWorker, R!TakeJob,
         R!WorkerLeaves, R!RunOnSidecar, R!NoRun, R!MayRunInBackground, R!Kind, R!Exit,
         R!StartsOver, R!IsHook, R!NoTree, R!GoesOn, R!HookResultCache, R!Answer, R!PoolSize,
         R!Left, R!AutofixFirst, R!RunLocally, R!Asking, R!Out, R!Collect, R!LocalLast, R!Failed,
         R!Put, R!Job, R!Tree, R!Free, R!Queue, R!First, R!RunCommand, R!Hears, R!WrapHookResult,
         R!RemoteJobs, R!Local, R!Cardinality

LEMMA RunInitSame == Run!InitRun => R!InitRun
  BY DEF Run!InitRun, Run!Tree, Run!Later, Run!NoRun, Run!Worker, Run!NoTree, Run!Out, Run!Job,
         R!InitRun, R!Tree, R!Later, R!NoRun, R!Worker, R!NoTree, R!Out, R!Job

LEMMA RunStarts == Init => R!RunInv
  BY RunAssumed, RunInitSame, R!RunInvInit DEF Init

LEMMA RunGoes ==
    ASSUME [Next]_commandVars PROVE [R!NextRun]_(R!runVars)
<1>1. Run!NextRun \/ UNCHANGED runPart
  BY DEF Next, OthersRest, commandVars
<1> QED
  BY <1>1, RunStepSame
     DEF runPart, R!runVars

LEMMA RunStays ==
    ASSUME [Next]_commandVars, R!RunInv
    PROVE  R!RunInv'
  BY RunAssumed, RunGoes, R!RunInvNext

LEMMA RunSame ==
    /\ R!PassedRanAll => Run!PassedRanAll
    /\ R!GateHolds => Run!GateHolds
    /\ R!SignalsCapped => Run!SignalsCapped
  BY DEF Run!PassedRanAll, Run!GateHolds, Run!SignalsCapped, Run!Job, R!PassedRanAll, R!GateHolds,
         R!SignalsCapped, R!Job

-----------------------------------------------------------------------------
(* A mutation run. *)

LEMMA MutationAssumed == R!MutationAssumption
  BY DEF R!MutationAssumption

LEMMA MutationStepSame == Mutate!NextMutation => R!NextMutation
  BY DEF Mutate!NextMutation, Mutate!Baseline, Mutate!Cancel, Mutate!Schedule, Mutate!GiveUp,
         Mutate!AllScheduled, Mutate!Over, Mutate!Mutation, Mutate!Apply, Mutate!Test,
         Mutate!ReversePatch, Mutate!Return, Mutate!OnWorker, Mutate!Reusable, R!NextMutation,
         R!Baseline, R!Cancel, R!Schedule, R!GiveUp, R!AllScheduled, R!Over, R!Mutation, R!Apply,
         R!Test, R!ReversePatch, R!Return, R!OnWorker, R!Reusable

LEMMA MutationInitSame == Mutate!InitMutation => R!InitMutation
  BY DEF Mutate!InitMutation, Mutate!Mutation, Mutate!Fresh, Mutate!NoSidecar, R!InitMutation,
         R!Mutation, R!Fresh, R!NoSidecar

LEMMA MutationStarts == Init => R!MutationInv
  BY MutationAssumed, MutationInitSame, R!MutationInit DEF Init

LEMMA MutationGoes ==
    ASSUME [Next]_commandVars PROVE [R!NextMutation]_(R!mutationVars)
<1>1. Mutate!NextMutation \/ UNCHANGED mutationPart
  BY DEF Next, OthersRest, commandVars
<1> QED
  BY <1>1, MutationStepSame
     DEF mutationPart, R!mutationVars

LEMMA MutationStays ==
    ASSUME [Next]_commandVars, R!MutationInv
    PROVE  R!MutationInv'
  BY MutationAssumed, MutationGoes, R!MutationNext

LEMMA MutationSame ==
    /\ R!VerdictHonest => Mutate!VerdictHonest
    /\ R!MutationsTold => Mutate!MutationsTold
  BY DEF Mutate!VerdictHonest, Mutate!MutationsTold, Mutate!Mutation, R!VerdictHonest,
         R!MutationsTold, R!Mutation

-----------------------------------------------------------------------------
(* A run of variants. *)

LEMMA VariantAssumed == R!VariantAssumption /\ R!RunsEndInTime
  BY DEF R!VariantAssumption, R!RunsEndInTime

LEMMA VariantStepSame == Variants!NextVariants => R!NextVariants
  BY DEF Variants!NextVariants, Variants!TakeSlot, Variants!CancelQueued, Variants!Create,
         Variants!SyncVariant, Variants!ApplyPatch, Variants!RunVariantCommand, Variants!Delete,
         Variants!InterruptVariants, Variants!CrashVariants, Variants!Sweep, Variants!TimePasses,
         Variants!At, Variants!Busy, Variants!Set, Variants!Goes, Variants!Stamp, Variants!Same,
         Variants!VariantEnds, Variants!Alive, Variants!ShellFailure, Variants!AskDelete,
         Variants!Orphans, Variants!UpTo, Variants!Longest, Variants!Cardinality, R!NextVariants,
         R!TakeSlot, R!CancelQueued, R!Create, R!SyncVariant, R!ApplyPatch, R!RunVariantCommand,
         R!Delete, R!InterruptVariants, R!CrashVariants, R!Sweep, R!TimePasses, R!At, R!Busy,
         R!Set, R!Goes, R!Stamp, R!Same, R!VariantEnds, R!Alive, R!ShellFailure, R!AskDelete,
         R!Orphans, R!UpTo, R!Longest, R!Cardinality

LEMMA VariantInitSame == Variants!InitVariants => R!InitVariants
  BY DEF Variants!InitVariants, R!InitVariants

LEMMA VariantStarts == Init => R!VariantInv /\ R!VariantAges
  BY VariantAssumed, VariantInitSame, R!VariantInvInit, R!VariantAgesInit DEF Init

LEMMA VariantGoes ==
    ASSUME [Next]_commandVars PROVE [R!NextVariants]_(R!variantVars)
<1>1. Variants!NextVariants \/ UNCHANGED variantPart
  BY DEF Next, OthersRest, commandVars
<1> QED
  BY <1>1, VariantStepSame
     DEF variantPart, R!variantVars

LEMMA VariantStays ==
    ASSUME [Next]_commandVars, R!VariantInv /\ R!VariantAges
    PROVE  R!VariantInv' /\ R!VariantAges'
  BY VariantAssumed, VariantGoes, R!VariantInvNext, R!VariantAgesNext

LEMMA VariantSame ==
    /\ R!AssessedHonest => Variants!AssessedHonest
    /\ R!NothingStranded => Variants!NothingStranded
    /\ R!SweepSpares => Variants!SweepSpares
  BY DEF Variants!AssessedHonest, Variants!NothingStranded, Variants!SweepSpares,
         R!AssessedHonest, R!NothingStranded, R!SweepSpares

-----------------------------------------------------------------------------
(* The records of sidecars. *)

LEMMA RecordsAssumed == R!RecordsAssumption
  BY DEF R!RecordsAssumption

LEMMA RecordsStepSame == Records!NextRecords => R!NextRecords
  BY DEF Records!NextRecords, Records!Write, Records!Prune, Records!RemoveActiveSidecar,
         Records!ListSidecars, Records!SaveActivePoolState, Records!ForgetSidecars,
         Records!CreateSidecar, Records!Use, Records!DeleteSidecar, Records!CheckoutKey,
         Records!ReapFile, Records!LoadEntries, Records!ClearActiveByOrg, Records!Cool,
         Records!Expire, Records!Then, Records!Rekeyed, Records!NoState, Records!NoStep,
         Records!Names, Records!Saving, Records!Begin, Records!Condemned, Records!OtherOrg,
         Records!Kept, Records!Spared, Records!Cardinality, R!NextRecords, R!Write, R!Prune,
         R!RemoveActiveSidecar, R!ListSidecars, R!SaveActivePoolState, R!ForgetSidecars,
         R!CreateSidecar, R!Use, R!DeleteSidecar, R!CheckoutKey, R!ReapFile, R!LoadEntries,
         R!ClearActiveByOrg, R!Cool, R!Expire, R!Then, R!Rekeyed, R!NoState, R!NoStep, R!Names,
         R!Saving, R!Begin, R!Condemned, R!OtherOrg, R!Kept, R!Spared, R!Cardinality

LEMMA RecordsInitSame == Records!InitRecords => R!InitRecords
  BY DEF Records!InitRecords, Records!NoState, Records!NoStep, R!InitRecords, R!NoState, R!NoStep

LEMMA RecordsStarts == Init => R!RecordsInv
  BY RecordsAssumed, RecordsInitSame, R!RecordsInvInit DEF Init

LEMMA RecordsGoes ==
    ASSUME [Next]_commandVars PROVE [R!NextRecords]_(R!recordVars)
<1>1. Records!NextRecords \/ UNCHANGED recordsPart
  BY DEF Next, OthersRest, commandVars
<1> QED
  BY <1>1, RecordsStepSame
     DEF recordsPart, R!recordVars

LEMMA RecordsStays ==
    ASSUME [Next]_commandVars, R!RecordsInv
    PROVE  R!RecordsInv'
  BY RecordsAssumed, RecordsGoes, R!RecordsInvNext

LEMMA RecordsSame == R!OneFilePerSidecar => Records!OneFilePerSidecar
  BY DEF Records!OneFilePerSidecar, Records!Saved, Records!Names, R!OneFilePerSidecar, R!Saved,
         R!Names

-----------------------------------------------------------------------------
(* The mirror of the tree. *)

LEMMA MirrorAssumed == R!MirrorAssumption
  BY DEF R!MirrorAssumption

LEMMA MirrorStepSame == Mirror!NextMirror => R!NextMirror
  BY DEF Mirror!NextMirror, Mirror!PushFile, Mirror!PullFile, Mirror!EditTree, Mirror!EditCopy,
         Mirror!BeginPush, Mirror!EnsureRemoteRsync, Mirror!Mkdir, Mirror!InitWorktreeGitRepo,
         Mirror!BeginPull, Mirror!ListExcluded, Mirror!BreakOff, Mirror!Moves, Mirror!Rest,
         Mirror!TransferOver, Mirror!Workspace, Mirror!Proceeds, Mirror!IgnoredPaths,
         Mirror!TrackedIgnoredPaths, Mirror!AfterFiles, R!NextMirror, R!PushFile, R!PullFile,
         R!EditTree, R!EditCopy, R!BeginPush, R!EnsureRemoteRsync, R!Mkdir, R!InitWorktreeGitRepo,
         R!BeginPull, R!ListExcluded, R!BreakOff, R!Moves, R!Rest, R!TransferOver, R!Workspace,
         R!Proceeds, R!IgnoredPaths, R!TrackedIgnoredPaths, R!AfterFiles

LEMMA MirrorInitSame == Mirror!InitMirror => R!InitMirror
  BY DEF Mirror!InitMirror, Mirror!NoTransfer, R!InitMirror, R!NoTransfer

LEMMA MirrorStarts == Init => R!MirrorInv
  BY MirrorAssumed, MirrorInitSame, R!MirrorInvInit DEF Init

LEMMA MirrorGoes ==
    ASSUME [Next]_commandVars PROVE [R!NextMirror]_(R!mirrorVars)
<1>1. Mirror!NextMirror \/ UNCHANGED mirrorPart
  BY DEF Next, OthersRest, commandVars
<1> QED
  BY <1>1, MirrorStepSame
     DEF mirrorPart, R!mirrorVars

LEMMA MirrorStays ==
    ASSUME [Next]_commandVars, R!MirrorInv
    PROVE  R!MirrorInv'
  BY MirrorAssumed, MirrorGoes, R!MirrorInvNext

LEMMA MirrorSame ==
    /\ R!SyncedIsExact => Mirror!SyncedIsExact
    /\ R!TrackedKept => Mirror!TrackedKept
  BY DEF Mirror!SyncedIsExact, Mirror!TrackedKept, R!SyncedIsExact, R!TrackedKept

-----------------------------------------------------------------------------
(* The project's configuration. *)

LEMMA ConfigAssumed == R!NamesAssumption
  BY DEF R!NamesAssumption

LEMMA ConfigStepSame == ConfigFile!NextProject => R!NextProject
  BY DEF ConfigFile!NextProject, ConfigFile!EditConfig, ConfigFile!ForgetActive,
         ConfigFile!Truncate, ConfigFile!WriteBody, ConfigFile!ConfigSet, ConfigFile!SaveCommand,
         ConfigFile!PersistOrg, ConfigFile!SidecarEnv, ConfigFile!MarkRemote,
         ConfigFile!InitProject, ConfigFile!StartSetup, ConfigFile!ResolveSandbox,
         ConfigFile!SyncSandbox, ConfigFile!FailSetup, ConfigFile!RunSteps, ConfigFile!Turn,
         ConfigFile!Detected, ConfigFile!NoRecord, ConfigFile!FreshConfig, ConfigFile!CommandGoes,
         ConfigFile!CommandEnds, ConfigFile!CommandStarts, ConfigFile!OrFresh,
         ConfigFile!ForConfig, ConfigFile!Loads, ConfigFile!LoadedConfig, ConfigFile!HasData,
         ConfigFile!Seed, ConfigFile!PersistWorkspace, ConfigFile!Steps, ConfigFile!Quiet,
         ConfigFile!NoCommand, R!NextProject, R!EditConfig, R!ForgetActive, R!Truncate,
         R!WriteBody, R!ConfigSet, R!SaveCommand, R!PersistOrg, R!SidecarEnv, R!MarkRemote,
         R!InitProject, R!StartSetup, R!ResolveSandbox, R!SyncSandbox, R!FailSetup, R!RunSteps,
         R!Turn, R!Detected, R!NoRecord, R!FreshConfig, R!CommandGoes, R!CommandEnds,
         R!CommandStarts, R!OrFresh, R!ForConfig, R!Loads, R!LoadedConfig, R!HasData, R!Seed,
         R!PersistWorkspace, R!Steps, R!Quiet, R!NoCommand

LEMMA ConfigInitSame == ConfigFile!InitProjectSetup => R!InitProjectSetup
  BY DEF ConfigFile!InitProjectSetup, ConfigFile!FreshConfig, ConfigFile!NoCommand,
         ConfigFile!NoRecord, R!InitProjectSetup, R!FreshConfig, R!NoCommand, R!NoRecord

LEMMA ConfigStarts == Init => R!ProjectInv
  BY ConfigAssumed, ConfigInitSame, R!ProjectInvInit DEF Init

LEMMA ConfigGoes ==
    ASSUME [Next]_commandVars PROVE [R!NextProject]_(R!projectVars)
<1>1. ConfigFile!NextProject \/ UNCHANGED configPart
  BY DEF Next, OthersRest, commandVars
<1> QED
  BY <1>1, ConfigStepSame
     DEF configPart, R!projectVars

LEMMA ConfigStays ==
    ASSUME [Next]_commandVars, R!ProjectInv
    PROVE  R!ProjectInv'
  BY ConfigAssumed, ConfigGoes, R!ProjectInvNext

LEMMA ConfigSame == R!CommandsKept => ConfigFile!CommandsKept
  BY DEF ConfigFile!CommandsKept, ConfigFile!Quiet, R!CommandsKept, R!Quiet

-----------------------------------------------------------------------------
(* The client of the services. *)

LEMMA HttpAssumed == R!HttpAssumption
  BY DEF R!HttpAssumption, R!NoCall

LEMMA HttpStepSame == Http!NextHttp => R!NextHttp
  BY DEF Http!NextHttp, Http!BeginCall, Http!Answered, Http!RateLimited, Http!TimedOut,
         Http!Waits, Http!Unauthorized, Http!Rejected, Http!LockReload, Http!ReadStore,
         Http!SwapToken, Http!SendSecond, Http!Login, Http!CallAt, Http!Update, Http!NoCall,
         Http!Client, Http!Ended, Http!Again, Http!Deadline, Http!MovedOn, Http!Resend,
         R!NextHttp, R!BeginCall, R!Answered, R!RateLimited, R!TimedOut, R!Waits, R!Unauthorized,
         R!Rejected, R!LockReload, R!ReadStore, R!SwapToken, R!SendSecond, R!Login, R!CallAt,
         R!Update, R!NoCall, R!Client, R!Ended, R!Again, R!Deadline, R!MovedOn, R!Resend

LEMMA HttpInitSame == Http!InitHttp => R!InitHttp
  BY DEF Http!InitHttp, Http!NoCall, R!InitHttp, R!NoCall

LEMMA HttpStarts == Init => R!HttpInv
  BY HttpAssumed, HttpInitSame, R!HttpInitHolds DEF Init

LEMMA HttpGoes ==
    ASSUME [Next]_commandVars PROVE [R!NextHttp]_(R!httpVars)
<1>1. Http!NextHttp \/ UNCHANGED httpPart
  BY DEF Next, OthersRest, commandVars
<1> QED
  BY <1>1, HttpStepSame
     DEF httpPart, R!httpVars

LEMMA HttpStays ==
    ASSUME [Next]_commandVars, R!HttpInv
    PROVE  R!HttpInv'
  BY HttpAssumed, HttpGoes, R!HttpNextHolds

LEMMA HttpSame == R!LoginReaches => Http!LoginReaches
  BY DEF Http!LoginReaches, R!LoginReaches

-----------------------------------------------------------------------------
(* The credentials. *)

LEMMA CredsAssumed == R!CredentialsAssumption /\ R!OneProcess
  BY DEF R!CredentialsAssumption, R!OneProcess, R!Provider, AccountTokens, NoTokenInEnv

LEMMA CredsStepSame == Creds!NextCredentials => R!NextCredentials
  BY DEF Creds!NextCredentials, Creds!SetCircleCI, Creds!SetAnthropic, Creds!SetGitHub,
         Creds!SetAnthropicOAuth, Creds!AuthLogin, Creds!EnsureCircleCI, Creds!EnsureAnthropic,
         Creds!EnsureGitHub, Creds!BackfillUserID, Creds!Validate, Creds!Save, Creds!SaveUserID,
         Creds!WriteConfig, Creds!RemoveCircleCI, Creds!RemoveAnthropic, Creds!RemoveGitHub,
         Creds!RemoveAnthropicOAuth, Creds!ClearUserID, Creds!Leave, Creds!In, Creds!Stores,
         Creds!InFile, Creds!Takes, Creds!ResolveCircleCI, Creds!Resolve, Creds!NoAccount,
         Creds!Becomes, Creds!Idle, Creds!AfterWrite, Creds!RemoveStored, Creds!Forgets,
         Creds!FileBacked, Creds!HasStored, Creds!Provider, R!NextCredentials, R!SetCircleCI,
         R!SetAnthropic, R!SetGitHub, R!SetAnthropicOAuth, R!AuthLogin, R!EnsureCircleCI,
         R!EnsureAnthropic, R!EnsureGitHub, R!BackfillUserID, R!Validate, R!Save, R!SaveUserID,
         R!WriteConfig, R!RemoveCircleCI, R!RemoveAnthropic, R!RemoveGitHub,
         R!RemoveAnthropicOAuth, R!ClearUserID, R!Leave, R!In, R!Stores, R!InFile, R!Takes,
         R!ResolveCircleCI, R!Resolve, R!NoAccount, R!Becomes, R!Idle, R!AfterWrite,
         R!RemoveStored, R!Forgets, R!FileBacked, R!HasStored, R!Provider

LEMMA CredsInitSame == Creds!InitCredentials => R!InitCredentials
  BY DEF Creds!InitCredentials, Creds!FileBacked, Creds!NoAccount, Creds!Provider, Creds!Idle,
         R!InitCredentials, R!FileBacked, R!NoAccount, R!Provider, R!Idle

LEMMA CredsStarts == Init => R!CredentialsInv
  BY CredsAssumed, CredsInitSame, R!CredentialsInitHolds DEF Init

LEMMA CredsGoes ==
    ASSUME [Next]_commandVars PROVE [R!NextCredentials]_(R!credentialVars)
<1>1. Creds!NextCredentials \/ UNCHANGED credsPart
  BY DEF Next, OthersRest, commandVars
<1> QED
  BY <1>1, CredsStepSame
     DEF credsPart, R!credentialVars

LEMMA CredsStays ==
    ASSUME [Next]_commandVars, R!CredentialsInv
    PROVE  R!CredentialsInv'
  BY CredsAssumed, CredsGoes, R!CredentialsNextHolds

LEMMA CredsSame == R!LoggedOutIsAnonymous => Creds!LoggedOutIsAnonymous
  BY DEF Creds!LoggedOutIsAnonymous, Creds!AtRest, Creds!NoAccount, Creds!ResolveCircleCI,
         Creds!In, Creds!InFile, Creds!FileBacked, Creds!Provider, R!LoggedOutIsAnonymous,
         R!AtRest, R!NoAccount, R!ResolveCircleCI, R!In, R!InFile, R!FileBacked, R!Provider

-----------------------------------------------------------------------------
(* The event log. *)

LEMMA LogAssumed == R!LogAssumption
  BY DEF R!LogAssumption

LEMMA LogStepSame == Log!NextLog => R!NextLog
  BY DEF Log!NextLog, Log!OpenLog, Log!Trim, Log!SetCommandID, Log!CloseLog, Log!Record,
         Log!TailFrom, Log!Opened, Log!LastOf, Log!NewLines, R!NextLog, R!OpenLog, R!Trim,
         R!SetCommandID, R!CloseLog, R!Record, R!TailFrom, R!Opened, R!LastOf, R!NewLines

LEMMA LogInitSame == Log!InitLog => R!InitLog
  BY DEF Log!InitLog, Log!Opened, R!InitLog, R!Opened

LEMMA LogStarts == Init => R!LogInv
  BY LogAssumed, LogInitSame, R!LogInit DEF Init

LEMMA LogGoes ==
    ASSUME [Next]_commandVars PROVE [R!NextLog]_(R!logVars)
<1>1. Log!NextLog \/ UNCHANGED logPart
  BY DEF Next, OthersRest, commandVars
<1> QED
  BY <1>1, LogStepSame
     DEF logPart, R!logVars

LEMMA LogStays ==
    ASSUME [Next]_commandVars, R!LogInv
    PROVE  R!LogInv'
  BY LogAssumed, LogGoes, R!LogNext

LEMMA LogSame == R!TailInOrder => Log!TailInOrder
  BY DEF Log!TailInOrder, R!TailInOrder

-----------------------------------------------------------------------------
(* The branch that is checked out. *)

LEMMA BranchStepSame == Checkout!NextBranch => R!NextBranch
  BY DEF Checkout!NextBranch, Checkout!Checkout, Checkout!Commit, Checkout!Push,
         Checkout!IntervalOver, Checkout!ReadBranch, Checkout!FetchTarget, Checkout!ReadTarget,
         Checkout!ReadHead, Checkout!Preview, Checkout!RefreshPR, Checkout!FetchedPR,
         Checkout!Detached, Checkout!Target, Checkout!checkVars, Checkout!prVars,
         Checkout!repoVars, Checkout!NoCheck, Checkout!Publishes, Checkout!Unavailable,
         Checkout!HeadNow, Checkout!SamePair, Checkout!Clash, Checkout!NoPR, R!NextBranch,
         R!Checkout, R!Commit, R!Push, R!IntervalOver, R!ReadBranch, R!FetchTarget, R!ReadTarget,
         R!ReadHead, R!Preview, R!RefreshPR, R!FetchedPR, R!Detached, R!Target, R!checkVars,
         R!prVars, R!repoVars, R!NoCheck, R!Publishes, R!Unavailable, R!HeadNow, R!SamePair,
         R!Clash, R!NoPR

LEMMA BranchInitSame == Checkout!InitBranch => R!InitBranch
  BY DEF Checkout!InitBranch, Checkout!NoCheck, Checkout!Unavailable, Checkout!Detached,
         Checkout!NoPR, R!InitBranch, R!NoCheck, R!Unavailable, R!Detached, R!NoPR

LEMMA BranchStarts == Init => R!ReportTrue
  BY BranchInitSame, R!ReportInit DEF Init

LEMMA BranchGoes ==
    ASSUME [Next]_commandVars PROVE [R!NextBranch]_(R!branchVars)
<1>1. Checkout!NextBranch \/ UNCHANGED branchPart
  BY DEF Next, OthersRest, commandVars
<1> QED
  BY <1>1, BranchStepSame
     DEF branchPart, R!branchVars, R!repoVars, R!checkVars, R!prVars

LEMMA BranchStays ==
    ASSUME [Next]_commandVars, R!ReportTrue
    PROVE  R!ReportTrue'
  BY BranchGoes, R!ReportNext

LEMMA BranchSame == R!ReportTrue => Checkout!ReportTrue
  BY DEF Checkout!ReportTrue, Checkout!Clash, R!ReportTrue, R!Clash

-----------------------------------------------------------------------------
(* The rows of the dashboard. *)

LEMMA RowsAssumed == R!RowsAssumption
<1>1. R!IsFiniteSet({}) /\ {"s1", "s2", "s3"} = (({} \cup {"s1"}) \cup {"s2"}) \cup {"s3"}
  BY R!FS_EmptySet
<1>2. R!IsFiniteSet({} \cup {"s1"})
  BY <1>1, R!FS_AddElement
<1>3. R!IsFiniteSet(({} \cup {"s1"}) \cup {"s2"})
  BY <1>2, R!FS_AddElement
<1>4. R!IsFiniteSet((({} \cup {"s1"}) \cup {"s2"}) \cup {"s3"})
  BY <1>3, R!FS_AddElement
<1>5. R!IsFiniteSet({"s1", "s2", "s3"})
  BY <1>1, <1>4
<1> QED
  BY <1>5 DEF R!RowsAssumption, RepoOfRow, LinesOfRow

LEMMA RowsPane ==
    ASSUME NEW list, NEW first, NEW lines
    PROVE  Rows!PaneEnd(list, first, lines) = R!PaneEnd(list, first, lines)
  BY DEF Rows!PaneEnd, R!PaneEnd, Rows!Lines, R!Lines, Rows!Cardinality, R!Cardinality,
         Rows!Range, R!Range

LEMMA RowsScrolled ==
    ASSUME NEW list, NEW sel, NEW lines, NEW offset
    PROVE  Rows!Scrolled(list, sel, lines, offset) = R!Scrolled(list, sel, lines, offset)
<1>1. ASSUME NEW from
      PROVE  Rows!Down(list, sel, lines, from) = R!Down(list, sel, lines, from)
  <2>1. {o \in from .. sel : o = sel \/ sel < Rows!PaneEnd(list, o, lines)}
          = {o \in from .. sel : o = sel \/ sel < R!PaneEnd(list, o, lines)}
    BY RowsPane
  <2> QED
    BY <2>1 DEF Rows!Down, R!Down
<1>2. ASSUME NEW from
      PROVE  Rows!Up(list, lines, from) = R!Up(list, lines, from)
  <2>1. {o \in 0 .. from : \A p \in o .. from - 1 : Rows!PaneEnd(list, p, lines) = Len(list)}
          = {o \in 0 .. from : \A p \in o .. from - 1 : R!PaneEnd(list, p, lines) = Len(list)}
    BY RowsPane
  <2> QED
    BY <2>1 DEF Rows!Up, R!Up
<1> QED
  BY <1>1, <1>2 DEF Rows!Scrolled, R!Scrolled

LEMMA RowsSorted ==
    ASSUME NEW lines, NEW listed
    PROVE  Rows!Sorted(lines, listed) = R!Sorted(lines, listed)
  BY DEF Rows!Sorted, Rows!Before, Rows!Latest, Rows!Activity, R!Sorted, R!Before, R!Latest,
         R!Activity, Rows!Cardinality, Rows!Injection, Rows!IsInjective, R!Cardinality,
         R!Injection, R!IsInjective

LEMMA RowsPolledSame ==
    ASSUME NEW lines, NEW listed, Rows!Polled(lines, listed)
    PROVE  R!Polled(lines, listed)
  BY RowsScrolled, RowsSorted
     DEF Rows!Polled, Rows!ContentHeight, Rows!IDAt, Rows!IndexOf, Rows!NoRow, R!Polled,
         R!ContentHeight, R!IDAt, R!IndexOf, R!NoRow

LEMMA RowsStepSame == Rows!NextRows => R!RowsMoves
<1>1. Rows!Data => R!Data
  BY RowsPolledSame DEF Rows!Data, R!Data
<1>2. (Rows!PollFailed => R!PollFailed) /\ (Rows!Resize => R!Resize)
  BY RowsScrolled
     DEF Rows!PollFailed, Rows!Resize, Rows!ContentHeight, R!PollFailed, R!Resize,
         R!ContentHeight
<1>3. ASSUME NEW to, Rows!Select(to) PROVE R!Select(to)
  BY <1>3, RowsScrolled
     DEF Rows!Select, Rows!ContentHeight, Rows!IDAt, Rows!NoRow, R!Select, R!ContentHeight,
         R!IDAt, R!NoRow
<1> QED
  BY <1>1, <1>2, <1>3
     DEF Rows!NextRows, Rows!Focus, Rows!Toggle, Rows!MoveRight, Rows!Click, R!RowsMoves


LEMMA RowsInitSame == Rows!InitRows => R!InitRows
  BY DEF Rows!InitRows, Rows!NoRow, R!InitRows, R!NoRow

LEMMA RowsStarts == Init => R!RowsInv
  BY RowsAssumed, RowsInitSame, R!RowsInit DEF Init

LEMMA RowsGoes ==
    ASSUME [Next]_commandVars PROVE R!RowsMoves
<1>1. Rows!NextRows \/ UNCHANGED rowsPart
  BY DEF Next, OthersRest, commandVars
<1> QED
  BY <1>1, RowsStepSame
     DEF rowsPart, R!RowsMoves

LEMMA RowsStays ==
    ASSUME [Next]_commandVars, R!RowsInv
    PROVE  R!RowsInv'
  BY RowsAssumed, RowsGoes, R!RowsMove

LEMMA RowsSame ==
    /\ R!SelectedDrawn => Rows!SelectedDrawn
    /\ R!NoRoomWasted => Rows!NoRoomWasted
  BY RowsPane
     DEF Rows!SelectedDrawn, Rows!NoRoomWasted, Rows!ContentHeight, R!SelectedDrawn,
         R!NoRoomWasted, R!ContentHeight


-----------------------------------------------------------------------------
(* The dashboard's view of the sessions. *)

LEMMA ViewAssumed == R!ViewAssumption
  BY DEF R!ViewAssumption

LEMMA ViewStepSame == View!NextView => R!NextView
  BY DEF View!NextView, View!Daemon, View!Served, View!Loaded, View!LoadFails, View!TickFires,
         View!Spin, View!OpenView, View!CloseView, View!Move, View!Resume, View!CancelReview,
         View!Starts, View!Pauses, View!Resumes, View!Ends, View!Dies, View!Stops,
         View!LiveReviews, View!timerVars, View!Live, View!Asks, View!reviewVars, View!Collected,
         View!Clamped, View!StartsChain, View!NoView, View!NoKey, View!Selected, View!NoSession,
         View!Request, View!Confirmed, View!Cardinality, R!NextView, R!Daemon, R!Served, R!Loaded,
         R!LoadFails, R!TickFires, R!Spin, R!OpenView, R!CloseView, R!Move, R!Resume,
         R!CancelReview, R!Starts, R!Pauses, R!Resumes, R!Ends, R!Dies, R!Stops, R!LiveReviews,
         R!timerVars, R!Live, R!Asks, R!reviewVars, R!Collected, R!Clamped, R!StartsChain,
         R!NoView, R!NoKey, R!Selected, R!NoSession, R!Request, R!Confirmed, R!Cardinality

LEMMA ViewInitSame == View!InitView => R!InitView
  BY DEF View!InitView, View!InitReviews, View!NoView, View!NoKey, View!NoSession, R!InitView,
         R!InitReviews, R!NoView, R!NoKey, R!NoSession

LEMMA ViewStarts == Init => R!ViewInv
  BY ViewAssumed, ViewInitSame, R!ViewInvInit DEF Init

LEMMA ViewGoes ==
    ASSUME [Next]_commandVars PROVE [R!NextView]_(R!viewVars)
<1>1. View!NextView \/ UNCHANGED viewPart
  BY DEF Next, OthersRest, commandVars
<1> QED
  BY <1>1, ViewStepSame
     DEF viewPart, R!viewVars, R!reviewVars, R!timerVars

LEMMA ViewStays ==
    ASSUME [Next]_commandVars, R!ViewInv
    PROVE  R!ViewInv'
  BY ViewAssumed, ViewGoes, R!ViewInvNext

LEMMA ViewSame == R!OneSpinner => View!OneSpinner
  BY DEF View!OneSpinner, R!OneSpinner

-----------------------------------------------------------------------------
(* The parts side by side. *)

CommandsInv ==
    /\ R!RunInv /\ R!MutationInv /\ R!VariantInv /\ R!VariantAges
    /\ R!RecordsInv /\ R!MirrorInv /\ R!ProjectInv /\ R!HttpInv /\ R!CredentialsInv
    /\ R!LogInv /\ R!ReportTrue /\ R!RowsInv /\ R!ViewInv

\* A step is one of one part, which goes on as it promises, and leaves the others alone.
LEMMA CommandsStep ==
    ASSUME CommandsInv, [Next]_commandVars
    PROVE  CommandsInv'
<1>1. R!RunInv' /\ R!MutationInv' /\ R!VariantInv' /\ R!VariantAges'
  BY RunStays, MutationStays, VariantStays DEF CommandsInv
<1>2. R!RecordsInv' /\ R!MirrorInv' /\ R!ProjectInv' /\ R!HttpInv' /\ R!CredentialsInv'
  BY RecordsStays, MirrorStays, ConfigStays, HttpStays, CredsStays DEF CommandsInv
<1>3. R!LogInv' /\ R!ReportTrue' /\ R!RowsInv' /\ R!ViewInv'
  BY LogStays, BranchStays, RowsStays, ViewStays DEF CommandsInv
<1> QED
  BY <1>1, <1>2, <1>3 DEF CommandsInv

LEMMA CommandsHold == Spec => []CommandsInv
<1>1. Init => CommandsInv
  BY RunStarts, MutationStarts, VariantStarts, RecordsStarts, MirrorStarts, ConfigStarts,
     HttpStarts, CredsStarts, LogStarts, BranchStarts, RowsStarts, ViewStarts
     DEF CommandsInv
<1> QED
  BY <1>1, CommandsStep, PTL DEF Spec

\* A validation that passed ran every command and each passed, a commit gate lets go only
\* of what passed and a Stop hook counts its attempts (RunDistributed, WrapHookResult); a
\* mutation or a variant has the verdict of its own commands (runMutation, runVariant).
THEOREM RunsAreHonest == Spec => []RunsHonest
<1>1. CommandsInv => RunsHonest
  <2> SUFFICES ASSUME CommandsInv PROVE RunsHonest
    OBVIOUS
  <2>1. R!PassedRanAll /\ R!GateHolds /\ R!SignalsCapped
    BY RunAssumed, R!RunKeepsWord DEF CommandsInv
  <2>2. R!VerdictHonest /\ R!MutationsTold
    BY MutationAssumed, R!MutationsSettled DEF CommandsInv, R!MutationInv
  <2>3. R!AssessedHonest
    BY R!VariantsHonest DEF CommandsInv
  <2> QED
    BY <2>1, <2>2, <2>3, RunSame, MutationSame, VariantSame DEF RunsHonest
<1> QED
  BY <1>1, CommandsHold, PTL

\* A sidecar has one file (pruneRekeyedState), a synced workspace is the tree and a pull
\* leaves tracked files alone (RsyncSync, RsyncPull), a run leaves no sidecar behind and a
\* sweep spares what is at work (runVariant, SweepOrphans), a config keeps the user's
\* commands (SaveProjectConfig), a login elsewhere reaches the calls that begin after it
\* (Client.reload), and an account is on record only while a token resolves (ClearUserID).
THEOREM NothingIsLost == Spec => []NothingLost
<1>1. CommandsInv => NothingLost
  <2> SUFFICES ASSUME CommandsInv PROVE NothingLost
    OBVIOUS
  <2>1. R!OneFilePerSidecar
    BY R!RecordsInvHolds DEF CommandsInv
  <2>2. R!SyncedIsExact /\ R!TrackedKept
    BY R!MirrorInvHolds DEF CommandsInv
  <2>3. R!NothingStranded
    BY R!VariantsHonest DEF CommandsInv
  <2>4. R!SweepSpares
    BY DEF CommandsInv, R!VariantAges, R!AgeOk, R!SweepSpares
  <2>5. R!CommandsKept
    BY R!ProjectInvHolds DEF CommandsInv
  <2>6. R!LoginReaches
    BY R!HttpInvHolds DEF CommandsInv
  <2>7. R!LoggedOutIsAnonymous
    BY CredsAssumed, R!CredentialsInvHolds DEF CommandsInv
  <2> QED
    BY <2>1, <2>2, <2>3, <2>4, <2>5, <2>6, <2>7, RecordsSame, MirrorSame, VariantSame,
       ConfigSame, HttpSame, CredsSame
       DEF NothingLost
<1> QED
  BY <1>1, CommandsHold, PTL

\* The dashboard draws the log in its order (TailFrom), a report that is true of the commits
\* it names (evaluateConflict), the selected row and no wasted room (adjustLeftScroll), and
\* one spinner (Update).
THEOREM DrawnIsTrue == Spec => []DrawnTrue
<1>1. CommandsInv => DrawnTrue
  <2> SUFFICES ASSUME CommandsInv PROVE DrawnTrue
    OBVIOUS
  <2>1. R!TailInOrder /\ R!ReportTrue
    BY R!TailIsInOrder DEF CommandsInv
  <2>2. R!SelectedDrawn /\ R!NoRoomWasted
    BY DEF CommandsInv, R!RowsInv
  <2>3. R!OneSpinner
    BY R!SpinnerHolds DEF CommandsInv
  <2> QED
    BY <2>1, <2>2, <2>3, LogSame, BranchSame, RowsSame, ViewSame DEF DrawnTrue
<1> QED
  BY <1>1, CommandsHold, PTL

\* A poll leaves the selection on its sidecar (Update), a cancel is sent for the session
\* that was confirmed (requestSessionCancel), and a reaper whose picture is still true spares
\* what it must (Reap).
THEOREM AimsRight == Spec => AimedRight
<1>1. CommandsInv /\ [Next]_commandVars
        => (rows' # rows /\ selID \in Rows!Range(rows') => selID' = selID)
  BY RowsAssumed, RowsGoes, R!RowsMove DEF CommandsInv, R!SelectionStep, R!Range, Rows!Range
<1>2. CommandsInv /\ [Next]_commandVars
        => \A q \in requests' \ requests :
             q.act = "cancel" => pressed = [key |-> "x", id |-> q.id] /\ pressed' = pressed
  BY ViewAssumed, ViewGoes, R!CancelHolds DEF CommandsInv, R!CancelStep
<1>3. CommandsInv
        => \A a \in {"a1", "a2"}, k \in {"k1", "k2"} :
             (Records!ReapFile(a, k) /\ Records!Saved /\ file = step[a].seen)
               => \A s \in {"s1", "s2"}, j \in {"k1", "k2"} :
                    (/\ s \in Records!Names(j) /\ cloud[s] = "live"
                     /\ (~file[j].cold \/ j = step[a].current \/ Records!OtherOrg(step[a], j)))
                    => cloud'[s] = "live"
  BY R!SparesUsedHolds
     DEF CommandsInv, R!SparesUsed,
         Records!ReapFile, Records!Saved, Records!Names, Records!OtherOrg, Records!Condemned,
         Records!Kept, Records!NoState, Records!Then, Records!NoStep, Records!Spared, R!ReapFile,
         R!Saved, R!Names, R!OtherOrg, R!Condemned, R!Kept, R!NoState, R!Then, R!NoStep, R!Spared,
         Records!Cardinality, R!Cardinality
<1>4. Spec => [][Next]_commandVars
  BY DEF Spec
<1> QED
  BY <1>1, <1>2, <1>3, <1>4, CommandsHold, PTL
     DEF AimedRight, Rows!SelectionKept, View!CancelConfirmed, Records!ReapSparesUsed
=============================================================================
