---------------------------- MODULE ValidateTasks ----------------------------
(***************************************************************************)
(* Validation in the daemon (internal/watchd: validate.go, tasks.go,       *)
(* risk.go, claims.go), for one project.                                   *)
(*                                                                         *)
(* A session asks for its checks to be run.  It waits for the answer, or   *)
(* is released: the run goes on in the background and its result is filed  *)
(* until somebody collects it.  Meanwhile the user edits the tree, so a    *)
(* result says which tree it was started on, and is stripped of its        *)
(* verdict when the tree has moved.  Runs take validateMu one by one.      *)
(*                                                                         *)
(* A tree is its content, a number; later numbers are contents the user    *)
(* reaches later.  What a run concludes is the verdict of the contents it  *)
(* read.  How large a change is, which paths a claim names and how long it *)
(* lasts, and what a run prints, are left out.  One action is one critical *)
(* section, or one look at the tree.                                       *)
(***************************************************************************)
EXTENDS Integers, FiniteSets

CONSTANTS
    Session,      \* the sessions; each makes one request at a time
    Waiting,      \* bound: the sessions that ask for a run and wait for it
    Releasing,    \* bound: those that offer, or ask, to be released
    Collecting,   \* bound: those that collect results
    Nobody,       \* no holder of validateMu
    Cap,          \* MaxTasksPerProject
    MaxTasks,     \* bound: background runs ever started
    MaxEdits,     \* bound: the contents the tree can have, besides the first
    Bad,          \* the contents whose checks fail
    MayRevert,    \* may the tree return to a content it had?
    GitMayFail,   \* may a look at the tree fail?
    Worktree,     \* policy: background runs check a copy of the tree
    Always        \* policy: a project that owes a blocking run is released too

TaskId == 1..MaxTasks
Content == 0..MaxEdits
NoTree == -1
Tree == Content \cup {NoTree}

ASSUME BoundsAssumption ==
    /\ Cap \in Nat \ {0} /\ MaxTasks \in Nat /\ MaxEdits \in Nat
    /\ Bad \subseteq Content
    /\ IsFiniteSet(Session)
    /\ Waiting \cup Releasing \cup Collecting \subseteq Session

ASSUME FlagsAssumption ==
    /\ MayRevert \in BOOLEAN /\ GitMayFail \in BOOLEAN /\ Worktree \in BOOLEAN
    /\ Always \in BOOLEAN

ASSUME ProcessAssumption ==
    /\ Session \cap TaskId = {}
    /\ Nobody \notin Session \cup TaskId

VARIABLES
    tree,      \* the content of the working tree
    owes,      \* riskMemory.failed: the project owes a blocking run
    green,     \* riskMemory.green: the tree known to pass
    claims,    \* claimStore.claims: the sessions that have one
    validateMu,\* the run that holds daemon.validateMu
    saw,       \* the contents the run that holds it has read
    store,     \* taskStore.tasks; a lower ID is an older task
    task,      \* per task: what is filed of it (taskEntry)
    run,       \* per task: the goroutine that carries it out
    started,   \* tasks started so far; the n-th has ID n
    call,      \* per session: its request, in the handler
    written    \* history: the results that reached a caller

riskVars == <<owes, green>>
muVars == <<validateMu, saw>>
storeVars == <<store, task, started>>
vars == <<tree, riskVars, claims, muVars, storeVars, run, call, written>>

-----------------------------------------------------------------------------
(* Data. *)

Task == [running : BOOLEAN, snapshot : BOOLEAN, start : Tree, pass : BOOLEAN,
         stale : BOOLEAN, delivered : BOOLEAN]

Run == [at : {"none", "queued", "run", "finish", "record", "tell", "done"},
        by : Session \cup {Nobody}, before : Tree, copy : BOOLEAN,
        cancelled : BOOLEAN, pass : BOOLEAN, after : Tree]

Report == [id : TaskId, snapshot : BOOLEAN, pass : BOOLEAN, stale : BOOLEAN]

\* A handler: waits is false when the session asked for a background run and
\* nothing else (handleAsyncValidate).
Call == [at : {"idle", "snapshot", "supersede", "fingerprint", "add",
               "hold", "wait", "run", "read", "write", "ack"},
         waits : BOOLEAN, before : Tree, copy : BOOLEAN, start : Tree,
         got : SUBSET Report]

NoTask == [running |-> FALSE, snapshot |-> FALSE, start |-> NoTree, pass |-> FALSE,
           stale |-> FALSE, delivered |-> FALSE]
NoRun == [at |-> "none", by |-> Nobody, before |-> NoTree, copy |-> FALSE,
          cancelled |-> FALSE, pass |-> FALSE, after |-> NoTree]
NoCall == [at |-> "idle", waits |-> FALSE, before |-> NoTree, copy |-> FALSE,
           start |-> NoTree, got |-> {}]

\* A snapshot or a fingerprint of the tree: its content, or an error.
Look == {tree} \cup (IF GitMayFail THEN {NoTree} ELSE {})

\* What a run that read these contents can conclude; one that read more than one
\* mixed them up, and one that was cancelled ended early.
Verdicts(cancelled) ==
    {p \in BOOLEAN : \A c \in Content : saw = {c} /\ ~cancelled => p = (c \notin Bad)}

-----------------------------------------------------------------------------
(* The store. *)

Running(ids) == {i \in ids : task[i].running}

\* Mutant: off by one.
OverFull == Cardinality(Running(store)) > Cap

Full == Cardinality(Running(store)) >= Cap

\* Mutant: a tree without a fingerprint is taken.
UnlessFull(start) == Full

\* Why a background run is refused: its result could not be told from one that is
\* out of date, or every start past the cap would add a run nothing takes back.
Refusable(start) == start = NoTree \/ Full

\* Mutant: the oldest first, read or not.
Older(i, j) == i < j

\* Finished tasks, those to be dropped first first: delivered ones, then by age.
DroppedBefore(i, j) ==
    \/ task[i].delivered /\ ~task[j].delivered
    \/ task[i].delivered = task[j].delivered /\ i < j

\* What is dropped to make room for one more.
Evicted ==
    LET over == store \ Running(store)
        excess == Cardinality(store) + 1 - Cap
    IN  {i \in over : Cardinality({j \in over : DroppedBefore(j, i)}) < excess}

\* The live runs in flight, which check a tree that has moved.
Pointless == {i \in store : task[i].running /\ ~task[i].snapshot}

Without(ids) == [i \in TaskId |-> IF i \in ids THEN NoTask ELSE task[i]]

\* Whether a result that started on one tree says nothing of another.
Moved(start, now) == now = NoTree \/ now # start

-----------------------------------------------------------------------------
(* Steps of a goroutine. *)

Goes(s, at) == call' = [call EXCEPT ![s].at = at]
Returns(s) == call' = [call EXCEPT ![s] = NoCall]
RunGoes(i, at) == run' = [run EXCEPT ![i].at = at]
RunEnds(i) == run' = [run EXCEPT ![i] = [NoRun EXCEPT !.at = "done"]]
Lock(p, contents) == validateMu = Nobody /\ validateMu' = p /\ saw' = contents
Unlock == validateMu' = Nobody /\ saw' = {}

Init ==
    /\ tree = 0
    /\ owes = FALSE /\ green = NoTree
    /\ claims = {}
    /\ validateMu = Nobody /\ saw = {}
    /\ store = {} /\ started = 0
    /\ task = [i \in TaskId |-> NoTask]
    /\ run = [i \in TaskId |-> NoRun]
    /\ call = [s \in Session |-> NoCall]
    /\ written = {}

-----------------------------------------------------------------------------
(* The handlers that validate. *)

\* The bound on background runs: nobody asks for one who could not start it.
Launching == {s \in Session : call[s].at \in {"snapshot", "supersede", "fingerprint", "add"}}
Room == started + Cardinality(Launching) < MaxTasks

\* A session offers to be released, asks to be, or waits (handleValidate and
\* handleAsyncValidate).  assessRisk does not release one whose project owes a
\* blocking run; the change can be too large, too.
Request(s) ==
    /\ call[s].at = "idle"
    /\ claims' = claims \cup {s}
    /\ \/ /\ s \in Waiting
          /\ call' = [call EXCEPT ![s].at = "hold", ![s].waits = TRUE]
       \/ /\ s \in Releasing /\ Room
          /\ \E waits \in (IF Always \/ ~owes THEN BOOLEAN ELSE {FALSE}) :
                call' = [call EXCEPT ![s].at = "snapshot", ![s].waits = waits]
    /\ UNCHANGED <<tree, riskVars, muVars, storeVars, run, written>>

\* startValidateTask: a snapshot of the tree, and with the policy a copy of it.
Snapshot(s) ==
    /\ call[s].at = "snapshot"
    /\ \E before \in Look :
       \E copy \in (IF Worktree /\ before # NoTree THEN BOOLEAN ELSE {FALSE}) :
        call' = [call EXCEPT ![s].at = "supersede", ![s].before = before,
                             ![s].copy = copy]
    /\ UNCHANGED <<tree, riskVars, claims, muVars, storeVars, run, written>>

\* A superseded task is dropped, and its run told to end.
Supersede(s) ==
    /\ call[s].at = "supersede"
    /\ run' = [i \in TaskId |-> IF i \in Pointless THEN [run[i] EXCEPT !.cancelled = TRUE]
                                                  ELSE run[i]]
    /\ store' = store \ Pointless
    /\ task' = Without(Pointless)
    /\ Goes(s, "fingerprint")
    /\ UNCHANGED <<tree, riskVars, claims, muVars, started, written>>

\* taskStore.start: the fingerprint that results are compared with ...
Fingerprint(s) ==
    /\ call[s].at = "fingerprint"
    /\ \E start \in Look :
        call' = [call EXCEPT ![s].at = "add", ![s].start = start]
    /\ UNCHANGED <<tree, riskVars, claims, muVars, storeVars, run, written>>

\* ... then the task is filed and started, and the session released ...
Add(s) ==
    /\ call[s].at = "add" /\ ~Refusable(call[s].start)
    /\ started' = started + 1
    /\ task' = [Without(Evicted) EXCEPT ![started + 1] =
                  [NoTask EXCEPT !.running = TRUE, !.snapshot = call[s].copy,
                                 !.start = call[s].start]]
    /\ store' = (store \ Evicted) \cup {started + 1}
    /\ run' = [run EXCEPT ![started + 1] =
                 [NoRun EXCEPT !.at = "queued", !.by = s, !.before = call[s].before,
                               !.copy = call[s].copy]]
    /\ Returns(s)
    /\ UNCHANGED <<tree, riskVars, claims, muVars, written>>

\* Mutant: the claim is kept.
RefuseWithClaim(s) ==
    /\ call[s].at = "add" /\ Refusable(call[s].start)
    /\ IF call[s].waits THEN Goes(s, "hold") ELSE Returns(s)
    /\ UNCHANGED <<tree, riskVars, claims, muVars, storeVars, run, written>>

\* ... or refused, for want of a fingerprint or because the store is full of runs:
\* the copy is removed, and the session waits for a run instead, if it is one that can.
Refuse(s) ==
    /\ call[s].at = "add" /\ Refusable(call[s].start)
    /\ IF call[s].waits
       THEN /\ call' = [call EXCEPT ![s].at = "hold", ![s].copy = FALSE]
            /\ UNCHANGED claims
       ELSE Returns(s) /\ claims' = claims \ {s}
    /\ UNCHANGED <<tree, riskVars, muVars, storeVars, run, written>>

\* runValidateNow: the snapshot first, then the turn.
Hold(s) ==
    /\ call[s].at = "hold"
    /\ \E before \in Look :
        call' = [call EXCEPT ![s].at = "wait", ![s].before = before]
    /\ UNCHANGED <<tree, riskVars, claims, muVars, storeVars, run, written>>

BeginNow(s) ==
    /\ call[s].at = "wait"
    /\ Lock(s, {tree})
    /\ Goes(s, "run")
    /\ UNCHANGED <<tree, riskVars, claims, storeVars, run, written>>

\* The run is recorded, validateMu unlocked and the claim released.
EndNow(s) ==
    /\ call[s].at = "run"
    /\ \E pass \in Verdicts(FALSE) :
        /\ owes' = ~pass
        /\ green' = IF pass /\ call[s].before # NoTree THEN call[s].before ELSE green
    /\ Unlock
    /\ claims' = claims \ {s}
    /\ Returns(s)
    /\ UNCHANGED <<tree, storeVars, run, written>>

\* There is no sidecar to run on: nothing is recorded.
NoSidecar(s) ==
    /\ call[s].at = "run"
    /\ Unlock
    /\ claims' = claims \ {s}
    /\ Returns(s)
    /\ UNCHANGED <<tree, riskVars, storeVars, run, written>>

-----------------------------------------------------------------------------
(* A background run. *)

\* It takes its turn, also when it has been superseded while it waited.
Begin(i) ==
    /\ run[i].at = "queued"
    /\ Lock(i, {IF run[i].copy THEN run[i].before ELSE tree})
    /\ RunGoes(i, "run")
    /\ UNCHANGED <<tree, riskVars, claims, storeVars, call, written>>

\* The checks are over.  A run that was cancelled has concluded nothing; a passing
\* one makes the tree that was snapshotted before it the one known to be good.  Then
\* validateMu is unlocked and the session's claim released (onDone).
Conclude(i) ==
    /\ run[i].at = "run"
    /\ \E pass \in Verdicts(run[i].cancelled) :
        /\ run' = [run EXCEPT ![i].at = "finish", ![i].pass = pass]
        /\ green' = IF pass /\ ~run[i].cancelled /\ run[i].before # NoTree
                    THEN run[i].before ELSE green
    /\ Unlock
    /\ claims' = claims \ {run[i].by}
    /\ UNCHANGED <<tree, owes, storeVars, call, written>>

\* taskStore.finish looks at the tree without the lock ...
Finish(i) ==
    /\ run[i].at = "finish" /\ i \in store
    /\ \E after \in Look :
        run' = [run EXCEPT ![i].at = "record", ![i].after = after]
    /\ UNCHANGED <<tree, riskVars, claims, muVars, storeVars, call, written>>

\* ... and records what the run concluded, if its task is still there.
Record(i) ==
    /\ run[i].at = "record" /\ i \in store
    /\ task' = [task EXCEPT ![i].running = FALSE, ![i].pass = run[i].pass,
                            ![i].stale = Moved(task[i].start, run[i].after)]
    /\ RunGoes(i, "tell")
    /\ UNCHANGED <<tree, riskVars, claims, muVars, store, started, call, written>>

Forgotten(i) ==
    /\ run[i].at \in {"finish", "record"} /\ i \notin store
    /\ RunEnds(i)
    /\ UNCHANGED <<tree, riskVars, claims, muVars, storeVars, call, written>>

\* onFinish: riskMemory.record, with the store unlocked again.
Tell(i) ==
    /\ run[i].at = "tell"
    /\ owes' = ~run[i].pass
    /\ RunEnds(i)
    /\ UNCHANGED <<tree, green, claims, muVars, storeVars, call, written>>

-----------------------------------------------------------------------------
(* Collecting (handleCollect): look, read, write, acknowledge. *)

Collect(s) ==
    /\ s \in Collecting /\ call[s].at = "idle"
    /\ \E now \in Look :
        call' = [call EXCEPT ![s] = [NoCall EXCEPT !.at = "read", !.start = now]]
    /\ UNCHANGED <<tree, riskVars, claims, muVars, storeVars, run, written>>

Unread == {i \in store : ~task[i].running /\ ~task[i].delivered}

\* Mutant: staleness is decided when the run ends.
ReportedAsFiled(i, now) ==
    [id |-> i, snapshot |-> task[i].snapshot, stale |-> task[i].stale,
     pass |-> task[i].pass \/ (task[i].stale /\ ~task[i].snapshot)]

\* A stale result of a run in the tree itself is handed over without its verdict.
Reported(i, now) ==
    LET stale == task[i].stale \/ Moved(task[i].start, now)
    IN  [id |-> i, snapshot |-> task[i].snapshot, stale |-> stale,
         pass |-> task[i].pass \/ (stale /\ ~task[i].snapshot)]

Read(s) ==
    /\ call[s].at = "read"
    /\ call' = [call EXCEPT ![s].at = "write",
                            ![s].got = {Reported(i, call[s].start) : i \in Unread}]
    /\ UNCHANGED <<tree, riskVars, claims, muVars, storeVars, run, written>>

Write(s) ==
    /\ call[s].at = "write"
    /\ written' = written \cup {r.id : r \in call[s].got}
    /\ Goes(s, "ack")
    /\ UNCHANGED <<tree, riskVars, claims, muVars, storeVars, run>>

\* Mutant: delivered before the bytes leave.
WriteFailsUnseen(s) ==
    /\ call[s].at = "write"
    /\ Goes(s, "ack")
    /\ UNCHANGED <<tree, riskVars, claims, muVars, storeVars, run, written>>

\* The caller is gone.
WriteFails(s) ==
    /\ call[s].at = "write"
    /\ Returns(s)
    /\ UNCHANGED <<tree, riskVars, claims, muVars, storeVars, run, written>>

Acknowledge(s) ==
    /\ call[s].at = "ack"
    /\ LET ids == {r.id : r \in call[s].got}
       IN  task' = [i \in TaskId |-> IF i \in store \cap ids
                                     THEN [task[i] EXCEPT !.delivered = TRUE] ELSE task[i]]
    /\ Returns(s)
    /\ UNCHANGED <<tree, riskVars, claims, muVars, store, started, run, written>>

-----------------------------------------------------------------------------
(* The rest of the world. *)

\* The user edits; so does a run that writes its output into the tree.
Edit ==
    /\ \E c \in Content :
        /\ c # tree /\ (MayRevert \/ c > tree)
        /\ tree' = c
        /\ saw' = IF validateMu = Nobody \/ (validateMu \in TaskId /\ run[validateMu].copy)
                  THEN saw ELSE saw \cup {c}
    /\ UNCHANGED <<riskVars, claims, validateMu, storeVars, run, call, written>>

Handles(s) ==
    \/ Snapshot(s) \/ Supersede(s) \/ Fingerprint(s) \/ Add(s) \/ Refuse(s)
    \/ Hold(s) \/ BeginNow(s) \/ EndNow(s) \/ NoSidecar(s)
    \/ Read(s) \/ Write(s) \/ WriteFails(s) \/ Acknowledge(s)
Runs(i) == Begin(i) \/ Conclude(i) \/ Finish(i) \/ Record(i) \/ Forgotten(i) \/ Tell(i)

Next == \/ \E s \in Session : Request(s) \/ Collect(s) \/ Handles(s)
        \/ \E i \in TaskId : Runs(i)
        \/ Edit

Spec == Init /\ [][Next]_vars

-----------------------------------------------------------------------------
(* Properties. *)

\* Every variable has its type; what is filed has a tree to be compared with.
TypeOK ==
    /\ tree \in Content
    /\ owes \in BOOLEAN /\ green \in Tree
    /\ claims \subseteq Session
    /\ validateMu \in Session \cup TaskId \cup {Nobody}
    /\ saw \subseteq Content
    /\ store \subseteq TaskId
    /\ task \in [TaskId -> Task]
    /\ \A i \in store : task[i].start # NoTree
    /\ run \in [TaskId -> Run]
    /\ started \in 0..MaxTasks
    /\ call \in [Session -> Call]
    /\ written \subseteq TaskId

\* The store keeps its cap, although runs are never evicted: start refuses when
\* it is full of them, and evictLocked always finds room otherwise.
CapHolds == Cardinality(store) <= Cap

\* "Claiming it does is the one outcome worse than staying quiet": a result of a
\* run in the tree itself that is handed over as current is the verdict of the
\* tree the caller has, whatever was edited while it waited, ran, or was filed.
VerdictOfTheTree ==
    \A s \in Session : call[s].at \in {"write", "ack"} =>
        \A r \in call[s].got :
            ~r.stale /\ ~r.snapshot => (r.pass <=> call[s].start \notin Bad)

\* A result is stamped as delivered only if it has been written to a caller, so
\* one whose response was lost is reported again (handleCollect).
DeliveredMeansWritten == \A i \in TaskId : task[i].delivered => i \in written

\* A claim has somebody who will release it, without waiting for it to expire: the
\* handler that registered it or the run it was handed over to.
ClaimsFreed ==
    \A s \in claims :
        \/ call[s].at \notin {"idle", "read", "write", "ack"}
        \/ \E i \in TaskId : run[i].by = s /\ run[i].at \in {"queued", "run"}

\* The runs in flight of a copy, and results nobody has read, are not lost to a new
\* run, but for want of room among results of the same kind.
OnlyUselessDropped ==
    [][\A i \in store \ store' :
        \/ task[i].running /\ ~task[i].snapshot
        \/ ~task[i].running /\ Cardinality(store) = Cap
           /\ (task[i].delivered \/ store \ Running(store) = Unread)]_vars

\* "Exact about the state it ran against": a result of a copy that is handed over
\* as current, without the qualification, is the verdict of the tree the caller has.
SnapshotVerdictQualified ==
    \A s \in Session : call[s].at \in {"write", "ack"} =>
        \A r \in call[s].got :
            ~r.stale /\ r.snapshot => (r.pass <=> call[s].start \notin Bad)

\* "The state the run actually validated": a tree becomes the one known to be good
\* only when the run that passed read that tree.
GreenWasValidated == [][green' # green => green' \in saw]_vars
==============================================================================
