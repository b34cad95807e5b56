----------------------------- MODULE MCCommands -----------------------------
(***************************************************************************)
(* The parts of which only safety is asked, side by side: the dashboard's  *)
(* screens, the files and trees the commands keep, the commands' runs, and *)
(* what sets a project up.  A behaviour is one of the part that `part'     *)
(* names, and the others rest.  Each part is checked on a small instance.  *)
(***************************************************************************)
EXTENDS MCRepositories, Sequences

CONSTANT Parts  \* the parts a run looks at

AllParts ==
    {"log", "branch", "rows", "view", "records", "mirror", "run", "setup", "mutation",
    "variant", "http", "creds", "env", "config"}

ASSUME PartsAssumption == Parts \subseteq AllParts

VARIABLES
    part,  \* the part that moves
    log, events, writer, tail, stamped,
    branch, heads, target, upstream, check, report, due, pr, prFetch,
    rows, runs, selIdx, selID, scroll, focus, rightIdx, toggled, height, failed,
    truth, owed, told, sessions, view, requests, pressed, poll, spins, spinning, hasSpinner,
    sidecarRuns,
    cloud, owner, file, at, step, ops,
    tree, copy, gitDir, saved, transfer, touched, mine, edits, transfers,
    runDisk, tries, continuing, signals, blocks, known, later, run, runSynced, hands, did,
    chosen, has, phase, agenda, candidates, missed, detection,
    sched, upNext, schedErr, cancelled, mut, patched, idle,
    variant, interrupted, crashed,
    authToken, stored, good, reloadMu, call, logins,
    config, ring, proc,
    repo, code, says, hub, tags, page, env, layers, stage,
    configDisk, wanted, chunk, active, holders, trail, turns

\* Two processes log four events in a log of two lines.
Log == INSTANCE EventLog WITH
    Writer <- {"p1", "p2"}, MaxEvents <- 4, MaxLogLines <- 2, TrimToLines <- 1,
    RecentEvents <- 3

\* A branch beside the target, two commits each.
Checkout == INSTANCE BranchWatch WITH
    Branch <- {"b1"}, MaxCommits <- 2

\* Three sidecars of two repositories, on a small screen and a large one.
Rows == INSTANCE DashboardRows WITH
    Row <- {"s1", "s2", "s3"}, Repo <- RepoOfRow, Group <- [s \in {"s1", "s2", "s3"} |-> 1],
    RowLines <- LinesOfRow, Own <- {"s2"}, Heights <- {7, 12}, MaxShownEvents <- 2

\* Two projects with a review each, one request at a time.
View == INSTANCE SessionView WITH
    Review <- {1, 2}, Project <- [r \in {1, 2} |-> r], MaxRequests <- 1

\* Two processes, two checkouts, two sidecars of two organizations, three commands.
Records == INSTANCE SidecarRecords WITH
    Actors <- {"a1", "a2"}, Keys <- {"k1", "k2"}, Sidecars <- {"s1", "s2"}, Orgs <- {"o1", "o2"},
    NoOrg <- "none", MaxOps <- 3

\* A tracked file, an ignored one, and one that is both.
Mirror == INSTANCE WorkspaceMirror WITH
    Paths <- {"plain", "built", "lock"}, Ignored <- {"built", "lock"},
    Tracked <- {"plain", "lock"}, InWorktree <- TRUE, Contents <- 1, MaxEdits <- 2,
    MaxTransfers <- 2

\* Two gates and a local autofix, two at a time, and one run of a kind in the background.
Run == INSTANCE ValidateRun WITH
    Command <- ThreeCommands, Parallel <- 2, MaxAttempts <- 2, MaxTree <- 1, MaxLater <- 1,
    Meddled <- FALSE, disk <- runDisk, synced <- runSynced

\* CI configs of two jobs, one that generates another, and none.
Setup == INSTANCE CommandSetup WITH
    Config <- CIConfigs, RootFiles <- RootFileSets, MaxDepth <- 2, MaxCandidates <- 3

\* Two mutations on two workers.
Mutate == INSTANCE MutationRun WITH
    Mutations <- 2, Sidecar <- {"w1", "w2"}

\* Two variants, one at a time, two commands each.
Variants == INSTANCE VariantRun WITH
    Variant <- {"v1", "v2"}, Slots <- 1, Commands <- 2, Timeout <- 1, SetupTime <- 1,
    OrphanAfter <- 6

\* Two calls at once while the user logs in twice elsewhere.
Http == INSTANCE HttpClient WITH
    Call <- {"c1", "c2"}, Asked <- [c \in {"c1", "c2"} |-> 0], ClientTimeout <- 1,
    Budget <- 1, RetryMax <- 1, RetryAfter <- {1}, Credential <- {"t1", "t2", "t3"}, MaxLogins <- 2

\* One process and two CircleCI accounts.
Creds == INSTANCE Credentials WITH
    Proc <- {"p1"}, Tokens <- AccountTokens, InEnv <- NoTokenInEnv, NoToken <- "no token"

\* Repositories of every stack, and Docker Hub's tags in pages.
Env == INSTANCE EnvBuilder WITH
    Repositories <- EnvRepositories, Hubs <- EnvHubs, Declared <- {0, 1, 2}, PageLimit <- 2

\* One process at a time, an editor and a user who rewrite the config between.
ConfigFile == INSTANCE ProjectSetup WITH
    Procs <- {"p1"}, Named <- {"test", "fmt"}, Gates <- {"test"}, Here <- {},
    Found <- {"test"}, Sandboxes <- {"s1", "s2"}, Breaks <- FALSE, Explicit <- FALSE,
    Alone <- TRUE, MaxTurns <- 4, None <- "none"

logPart ==
    <<log, events, writer, tail, stamped>>
branchPart ==
    <<branch, heads, target, upstream, check, report, due, pr, prFetch>>
rowsPart ==
    <<rows, runs, selIdx, selID, scroll, focus, rightIdx, toggled, height, failed>>
viewPart ==
    <<truth, owed, told, sessions, view, requests, pressed, poll, spins, spinning, hasSpinner,
    sidecarRuns>>
recordsPart ==
    <<cloud, owner, file, at, step, ops>>
mirrorPart ==
    <<tree, copy, gitDir, saved, transfer, touched, mine, edits, transfers>>
runPart ==
    <<runDisk, tries, continuing, signals, blocks, known, later, run, runSynced, hands, did>>
setupPart ==
    <<chosen, has, phase, agenda, candidates, missed, detection>>
mutationPart ==
    <<sched, upNext, schedErr, cancelled, mut, patched, idle>>
variantPart ==
    <<variant, interrupted, crashed>>
httpPart ==
    <<authToken, stored, good, reloadMu, call, logins>>
credsPart ==
    <<config, ring, proc>>
envPart ==
    <<repo, code, says, hub, tags, page, env, layers, stage>>
configPart ==
    <<configDisk, wanted, chunk, active, holders, trail, turns>>

ASSUME InstancesAssumption ==
    /\ Log!LogAssumption /\ Checkout!BranchAssumption /\ Rows!RowsAssumption
    /\ View!ViewAssumption /\ Records!RecordsAssumption /\ Mirror!MirrorAssumption
    /\ Run!RunAssumption /\ Setup!SetupAssumption /\ Mutate!MutationAssumption
    /\ Variants!VariantAssumption /\ Http!HttpAssumption /\ Creds!CredentialsAssumption
    /\ ConfigFile!NamesAssumption

-----------------------------------------------------------------------------
\* Checkouts are alike, and organizations too: the first process starts in the first
\* checkout, and the first sidecar is the first organization's.
FirstAtHome == {f \in [{"a1", "a2"} -> {"k1", "k2"}] : f["a1"] = "k1"}
FirstIsOurs == {f \in [{"s1", "s2"} -> {"o1", "o2"}] : f["s1"] = "o1"}

Init ==
    /\ part \in Parts
    /\ Log!InitLog
    /\ Checkout!InitBranch
    /\ IF part = "rows" THEN TRUE
       ELSE height = 7
    /\ Rows!InitRows
    /\ View!InitView
    /\ IF part = "records"
       THEN at \in FirstAtHome /\ owner \in FirstIsOurs
       ELSE at = [a \in {"a1", "a2"} |-> "k1"] /\ owner = [s \in {"s1", "s2"} |-> "o1"]
    /\ Records!InitRecords
    /\ IF part = "mirror" THEN TRUE
       ELSE gitDir = "none"
    /\ Mirror!InitMirror
    /\ IF part = "run" THEN TRUE
       ELSE runDisk = 1
    /\ Run!InitRun
    /\ IF part = "setup" THEN TRUE
       ELSE chosen = 1 /\ has = {}
    /\ Setup!InitSetup
    /\ Mutate!InitMutation
    /\ Variants!InitVariants
    /\ Http!InitHttp
    /\ Creds!InitCredentials
    /\ IF part = "env" THEN TRUE
       ELSE repo = {"composer.json"} /\ hub = <<{Tag("other", 0, 0)}>>
             /\ code = [in |-> "php", many |-> FALSE] /\ says = [v |-> 0, otp |-> 0]
    /\ Env!InitEnv
    /\ ConfigFile!InitProjectSetup

OthersRest ==
    /\ UNCHANGED part
    /\ IF part = "log" THEN TRUE ELSE UNCHANGED logPart
    /\ IF part = "branch" THEN TRUE ELSE UNCHANGED branchPart
    /\ IF part = "rows" THEN TRUE ELSE UNCHANGED rowsPart
    /\ IF part = "view" THEN TRUE ELSE UNCHANGED viewPart
    /\ IF part = "records" THEN TRUE ELSE UNCHANGED recordsPart
    /\ IF part = "mirror" THEN TRUE ELSE UNCHANGED mirrorPart
    /\ IF part = "run" THEN TRUE ELSE UNCHANGED runPart
    /\ IF part = "setup" THEN TRUE ELSE UNCHANGED setupPart
    /\ IF part = "mutation" THEN TRUE ELSE UNCHANGED mutationPart
    /\ IF part = "variant" THEN TRUE ELSE UNCHANGED variantPart
    /\ IF part = "http" THEN TRUE ELSE UNCHANGED httpPart
    /\ IF part = "creds" THEN TRUE ELSE UNCHANGED credsPart
    /\ IF part = "env" THEN TRUE ELSE UNCHANGED envPart
    /\ IF part = "config" THEN TRUE ELSE UNCHANGED configPart

Next ==
    \/ part = "log" /\ OthersRest /\ Log!NextLog
    \/ part = "branch" /\ OthersRest /\ Checkout!NextBranch
    \/ part = "rows" /\ OthersRest /\ Rows!NextRows
    \/ part = "view" /\ OthersRest /\ View!NextView
    \/ part = "records" /\ OthersRest /\ Records!NextRecords
    \/ part = "mirror" /\ OthersRest /\ Mirror!NextMirror
    \/ part = "run" /\ OthersRest /\ Run!NextRun
    \/ part = "setup" /\ OthersRest /\ Setup!NextSetup
    \/ part = "mutation" /\ OthersRest /\ Mutate!NextMutation
    \/ part = "variant" /\ OthersRest /\ Variants!NextVariants
    \/ part = "http" /\ OthersRest /\ Http!NextHttp
    \/ part = "creds" /\ OthersRest /\ Creds!NextCredentials
    \/ part = "env" /\ OthersRest /\ Env!NextEnv
    \/ part = "config" /\ OthersRest /\ ConfigFile!NextProject

commandVars ==
    <<part, logPart, branchPart, rowsPart, viewPart, recordsPart, mirrorPart, runPart,
    setupPart, mutationPart, variantPart, httpPart, credsPart, envPart, configPart>>

Spec == Init /\ [][Next]_commandVars

-----------------------------------------------------------------------------
(* What the parts promise; each is stated and explained in its module, and asked of the part
   that moves. *)

\* Every part's state keeps its type.
CommandsTypeOK ==
    /\ part = "log" => Log!LogTypeOK
    /\ part = "branch" => Checkout!BranchTypeOK
    /\ part = "rows" => Rows!RowsTypeOK
    /\ part = "view" => View!ViewTypeOK
    /\ part = "records" => Records!RecordsTypeOK
    /\ part = "mirror" => Mirror!MirrorTypeOK
    /\ part = "run" => Run!RunTypeOK
    /\ part = "setup" => Setup!SetupTypeOK
    /\ part = "mutation" => Mutate!MutationTypeOK
    /\ part = "variant" => Variants!VariantsTypeOK
    /\ part = "http" => Http!HttpTypeOK
    /\ part = "creds" => Creds!CredentialsTypeOK
    /\ part = "env" => Env!EnvTypeOK
    /\ part = "config" => ConfigFile!ProjectTypeOK

\* The dashboard is drawn from events taken in the log's order and none twice, from a
\* conflict report that is true of the two commits it names, whatever branch that was, with
\* the selected row on the screen and no room wasted, and with one spinner whatever polls
\* and presses overlap.
DrawnTrue ==
    /\ part = "log" => Log!TailInOrder
    /\ part = "branch" => Checkout!ReportTrue
    /\ part = "rows" => Rows!SelectedDrawn /\ Rows!NoRoomWasted
    /\ part = "view" => View!OneSpinner

\* No file, sidecar, command or login is lost to a command that meant another: a sidecar has
\* one file, a synced workspace is the tree and a pull leaves tracked files alone, the sweep
\* spares what is at work and leaves nothing behind, a config keeps the user's commands, a
\* login elsewhere reaches the calls that begin after it, and a logout takes the account.
NothingLost ==
    /\ part = "records" => Records!OneFilePerSidecar
    /\ part = "mirror" => Mirror!SyncedIsExact /\ Mirror!TrackedKept
    /\ part = "variant" => Variants!SweepSpares /\ Variants!NothingStranded
    /\ part = "config" => ConfigFile!CommandsKept
    /\ part = "http" => Http!LoginReaches
    /\ part = "creds" => Creds!LoggedOutIsAnonymous

\* A run says what it found: a validation that passed ran every command and each passed, a
\* commit gate lets go only of what passed, a Stop hook counts its attempts, and a mutation
\* or a variant has the verdict of its own commands.
RunsHonest ==
    /\ part = "run" => Run!PassedRanAll /\ Run!GateHolds /\ Run!SignalsCapped
    /\ part = "mutation" => Mutate!VerdictHonest /\ Mutate!MutationsTold
    /\ part = "variant" => Variants!AssessedHonest

\* A project is set up with what it needs: the commands of its CI or else of its files, an
\* image whose layers and steps can run with the versions it asks for, and steps that run
\* in the workspace.
SetUpRight ==
    /\ part = "setup" => Setup!CoverageTrue /\ Setup!NeverTestless
    /\ part = "env" => Env!LayersBuild /\ Env!StepsRun /\ Env!VersionFits
    /\ part = "config" => ConfigFile!StepsInWorkspace /\ ConfigFile!NeverTests

\* A step strikes what it aimed at: a poll leaves the selection on its sidecar, a cancel is
\* sent for the review that was under the cursor at both presses, and a reaper whose picture
\* of the files is still true, taken with no save half-done, deletes no sidecar that a file
\* it must spare names.  Of a file that was written since it looked nothing is said.
AimedRight == Rows!SelectionKept /\ View!CancelConfirmed /\ Records!ReapSparesUsed
=============================================================================
