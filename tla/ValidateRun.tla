----------------------------- MODULE ValidateRun -----------------------------
(***************************************************************************)
(* One project's runs of `chunk validate` (internal/cmd/validate.go,       *)
(* internal/validate): an agent's Stop hook and commit gate, and a person  *)
(* at a terminal.  A run reads the tree, may skip, hand itself to the      *)
(* daemon or answer from the cache, prepares a pool, runs the local        *)
(* autofix commands, the remote ones on as many sidecars as the plan says, *)
(* the other local ones, and answers the hook with an exit code.           *)
(*                                                                         *)
(* The pool is what its Acquire and Release promise (see SidecarPool).  Of *)
(* a run taken into the background only the attempts, the cache and the    *)
(* tree are followed here: the rest is ValidateTasks'.                     *)
(***************************************************************************)
EXTENDS Integers, Sequences, FiniteSets

CONSTANTS
    Command,     \* the configured commands: a sequence of [role, local] records
    Parallel,    \* --parallel: the most sidecars a run may use
    MaxAttempts, \* stopHookMaxAttempts
    MaxTree,     \* MaxTree: trees are 0, which git calls clean, to MaxTree
    MaxLater,    \* MaxLater: the most of its runs that wait in the background
    Meddled      \* may somebody change the tree while a run is under way?

Tree == 0..MaxTree
NoTree == -1
Worker == 1..Parallel
Job == DOMAIN Command

RunAssumption ==
    /\ Parallel \in Nat \ {0} /\ MaxTree \in Nat /\ MaxAttempts \in Nat \ {0, 1}
    /\ Len(Command) \in Nat /\ Job = 1..Len(Command) /\ Meddled \in BOOLEAN
    /\ MaxLater \in Nat

VARIABLES
    disk,       \* the working tree
    tries,      \* the session's attempts file, 0 when there is none
    continuing, \* stop_hook_active: the agent goes on because a Stop hook told it to
    signals,    \* Stop hooks that told it so since the last gate, turn or background run
    blocks,     \* and since the turn began, counted to MaxAttempts
    known,      \* the result cache: the trees whose run passed
    later,      \* the Stop hooks' runs taken into the background that still run
    run,        \* the run under way
    synced,     \* per sidecar of its pool: the tree it holds
    hands,      \* per worker: what it is at
    did         \* per command: what came of it

runVars ==
    <<disk, tries, continuing, signals, blocks, known, later, run, synced, hands, did>>

\* A worker that is not at a job.
Out == 0
Asking == -1
Free == -2

\* A run taken into the background is one of a turn's first Stop hook, or of one of an
\* agent that goes on because of a Stop hook.
Later == {"fresh", "going"}

NoRun == [who |-> "nobody", at |-> "idle", saw |-> NoTree, place |-> "configured",
          next |-> 1, erred |-> FALSE, cut |-> FALSE, why |-> "none"]

InitRun ==
    /\ disk \in Tree /\ tries = 0 /\ continuing = FALSE /\ signals = 0 /\ blocks = 0
    /\ known = {} /\ later = [kind \in Later |-> 0] /\ run = NoRun
    /\ synced = [w \in Worker |-> NoTree] /\ hands = [w \in Worker |-> Out]
    /\ did = [c \in Job |-> "none"]

Hook == {"stop", "gate"}
IsHook == run.who \in Hook

-----------------------------------------------------------------------------
(* The plan. *)

\* --remote and --local place every command; without them each says for itself.
Local(c) == run.place = "local" \/ (run.place = "configured" /\ Command[c].local)

RemoteJobs == {c \in Job : ~Local(c)}
\* The autofix commands among the local ones run first, then, after the remote
\* ones, the others; each in the configured order.
AutofixFirst == {c \in Job : Local(c) /\ Command[c].role = "autofix"}
LocalLast == {c \in Job : Local(c)} \ AutofixFirst

PoolSize ==
    IF RemoteJobs = {} THEN 0
    ELSE IF Parallel < Cardinality(RemoteJobs) THEN Parallel ELSE Cardinality(RemoteJobs)

-----------------------------------------------------------------------------
(* The answer: exit code 2 tells the agent to go on, 0 and 1 do not. *)

\* Mutant: any hook may be released to the background.
AnyHookMayWait(who) == who \in Hook

MayRunInBackground(who) == who = "stop"

\* The agent hears exit code `code` from a hook.
Hears(who, code) ==
    \/ /\ who = "stop" /\ code = 2
       /\ continuing' = TRUE /\ signals' = signals + 1
       /\ blocks' = IF blocks < MaxAttempts THEN blocks + 1 ELSE blocks
    \/ /\ who = "stop" /\ code # 2
       /\ continuing' = FALSE /\ signals' = 0 /\ blocks' = 0
    \/ who = "gate" /\ signals' = 0 /\ UNCHANGED <<continuing, blocks>>
    \/ who \notin Hook /\ UNCHANGED <<continuing, signals, blocks>>

\* Mutant: the last attempt still tells the agent to go on.
WrapHookResultOnce(failed) ==
    IF ~failed THEN tries' = 0 /\ Hears(run.who, 0)
    ELSE /\ tries' = tries + 1
         /\ Hears(run.who, IF tries' > MaxAttempts THEN 0 ELSE 2)

\* A failure counts, and is answered 2 until there were MaxAttempts of them.
WrapHookResult(failed) ==
    IF ~failed THEN tries' = 0 /\ Hears(run.who, 0)
    ELSE /\ tries' = tries + 1
         /\ Hears(run.who, IF tries' >= MaxAttempts THEN 0 ELSE 2)

Answer(failed, why) ==
    /\ run' = [run EXCEPT !.at = "answered", !.why = why]
    /\ IF IsHook THEN WrapHookResult(failed) ELSE UNCHANGED <<tries, continuing, signals, blocks>>

\* The command exits before it has a result to wrap.
Exit(code, why) ==
    /\ run' = [run EXCEPT !.at = "answered", !.why = why]
    /\ Hears(run.who, code)

-----------------------------------------------------------------------------
(* The start of a run. *)

Begins(who, place) ==
    /\ run.at = "idle"
    /\ run' = [NoRun EXCEPT !.who = who, !.at = "start", !.place = place]
    /\ UNCHANGED <<disk, tries, continuing, signals, blocks, known, later, synced, hands, did>>

\* Whether the run is of an agent that goes on because of a Stop hook is said to the
\* daemon with the session's name.
Kind == IF continuing THEN "going" ELSE "fresh"

\* A daemon of this build is asked first: it may take the run into the background
\* when the hook can wait, and runs it at once, as below, when not.
Delegated ==
    /\ run.at = "start" /\ MayRunInBackground(run.who)
    /\ later["fresh"] + later["going"] < MaxLater /\ later' = [later EXCEPT ![Kind] = @ + 1]
    /\ Exit(0, "background")
    /\ UNCHANGED <<disk, tries, known, synced, hands, did>>

\* The hook's counter starts over unless the agent is going on because of a Stop
\* hook, which a commit gate's payload does not say.
StartsOver == run.who = "gate" \/ (run.who = "stop" /\ ~continuing)

\* seen is the tree's fingerprint, NoTree when it could not be taken.
GoesOn(seen) ==
    \/ Exit(IF IsHook THEN 0 ELSE 1, "unconfigured")
    \/ IsHook /\ PoolSize > 0 /\ Exit(1, "unauthorised")
    \/ /\ run' = [run EXCEPT !.at = "lookup", !.saw = seen]
       /\ UNCHANGED <<continuing, signals, blocks>>

\* `--async`: a person's run is taken into the background, unless the daemon
\* cannot tell which tree it would be of.
DelegateToDaemon ==
    /\ run.at = "lookup" /\ run.who = "person" /\ Exit(0, "background")
    /\ UNCHANGED <<disk, tries, known, later, synced, hands, did>>

InitHook ==
    /\ run.at = "start"
    /\ tries' = IF StartsOver THEN 0 ELSE tries
    /\ \E seen \in IF IsHook THEN {disk, NoTree} ELSE {NoTree} :
        \/ IsHook /\ Exit(1, "disabled")
        \/ seen = 0 /\ Exit(0, "clean")
        \/ seen # 0 /\ GoesOn(seen)
    /\ UNCHANGED <<disk, known, later, synced, hands, did>>

\* The entry is there; week-old ones are swept.
Put(tree) == \E young \in SUBSET known : known' = young \cup {tree}

\* A tree that could not be fingerprinted is no key.
HookResultCache == known \ {NoTree}

Cached ==
    /\ run.at = "lookup" /\ run.saw \in HookResultCache
    /\ Answer(FALSE, "cached")
    /\ UNCHANGED <<disk, known, later, synced, hands, did>>

\* The pool is built: its first sidecar is synced before the run goes on.
Prepare ==
    /\ run.at = "lookup" /\ run.saw \notin HookResultCache
    /\ \/ /\ run' = [run EXCEPT !.at = "autofix"]
          /\ synced' = IF PoolSize > 0 THEN [synced EXCEPT ![1] = disk] ELSE synced
          /\ UNCHANGED <<continuing, signals, blocks>>
       \/ Exit(1, "unprepared") /\ UNCHANGED synced
    /\ UNCHANGED <<disk, tries, known, later, hands, did>>

\* The other members are synced while the run goes on.
SyncMember(w) ==
    /\ run.at \in {"autofix", "remote"} /\ w <= PoolSize /\ synced[w] = NoTree
    /\ synced' = [synced EXCEPT ![w] = disk]
    /\ UNCHANGED <<disk, tries, continuing, signals, blocks, known, later, run, hands, did>>

-----------------------------------------------------------------------------
(* Local commands: in order, up to the first that fails. *)

\* Commands of a batch still to run.
Left(batch) ==
    IF \E c \in batch : did[c] = "fail" THEN {} ELSE {c \in batch : did[c] = "none"}
First(S) == CHOOSE c \in S : \A d \in S : c <= d

\* A command that times out, or cannot be started, failed too.
RunCommand == {"pass", "fail"}

RunLocally(batch) ==
    LET c == First(Left(batch)) IN
    /\ \E result \in RunCommand : did' = [did EXCEPT ![c] = result]
    /\ disk' \in IF Command[c].role = "autofix" THEN Tree \ {0} ELSE {disk}

RunAutofix ==
    /\ run.at = "autofix" /\ Left(AutofixFirst) # {} /\ RunLocally(AutofixFirst)
    /\ UNCHANGED <<tries, continuing, signals, blocks, known, later, run, synced, hands>>

\* The job queue is filled and closed, and the workers start.
StartRemote ==
    /\ run.at = "autofix" /\ Left(AutofixFirst) = {}
    /\ run' = [run EXCEPT !.at = "remote"]
    /\ hands' = [w \in Worker |-> IF w <= PoolSize THEN Asking ELSE Out]
    /\ UNCHANGED <<disk, tries, continuing, signals, blocks, known, later, synced, did>>

-----------------------------------------------------------------------------
(* Remote commands: each worker holds a sidecar and takes the next job.    *)

AcquireWorker(w) ==
    /\ hands[w] = Asking
    /\ \/ synced[w] # NoTree /\ hands' = [hands EXCEPT ![w] = Free] /\ UNCHANGED run
       \/ hands' = [hands EXCEPT ![w] = Out] /\ run' = [run EXCEPT !.erred = TRUE]
    /\ UNCHANGED <<disk, tries, continuing, signals, blocks, known, later, synced, did>>

Queue == {c \in RemoteJobs : c >= run.next}

TakeJob(w) ==
    /\ hands[w] = Free /\ Queue # {}
    /\ hands' = [hands EXCEPT ![w] = First(Queue)]
    /\ run' = [run EXCEPT !.next = First(Queue) + 1]
    /\ UNCHANGED <<disk, tries, continuing, signals, blocks, known, later, synced, did>>

\* The queue is empty, or the worker sees that the run was interrupted.
WorkerLeaves(w) ==
    /\ hands[w] = Free /\ (Queue = {} \/ run.cut)
    /\ hands' = [hands EXCEPT ![w] = Out]
    /\ UNCHANGED <<disk, tries, continuing, signals, blocks, known, later, run, synced, did>>

RunOnSidecar(w) ==
    /\ hands[w] \in Job
    /\ \E result \in RunCommand : did' = [did EXCEPT ![hands[w]] = result]
    /\ hands' = [hands EXCEPT ![w] = Free]
    /\ UNCHANGED <<disk, tries, continuing, signals, blocks, known, later, run, synced>>

Interrupted ==
    /\ run.at = "remote" /\ ~run.cut /\ run' = [run EXCEPT !.cut = TRUE]
    /\ UNCHANGED <<disk, tries, continuing, signals, blocks, known, later, synced, hands, did>>

Failed(batch) == \E c \in batch : did[c] = "fail"

\* Mutant: an interruption is no failure when no command failed.
CollectQuietly == run.erred \/ Failed(RemoteJobs)

\* Commands nobody ran are an error of the interruption; a worker that got no
\* sidecar is one of its own.
Collect ==
    \/ run.erred \/ Failed(RemoteJobs)
    \/ run.cut /\ \E c \in RemoteJobs : did[c] = "none"

EndRemote ==
    /\ run.at = "remote" /\ \A w \in Worker : hands[w] = Out
    /\ run' = [run EXCEPT !.at = "local", !.erred = Collect]
    /\ UNCHANGED <<disk, tries, continuing, signals, blocks, known, later, synced, hands, did>>

RunRest ==
    /\ run.at = "local" /\ Left(LocalLast) # {} /\ RunLocally(LocalLast)
    /\ UNCHANGED <<tries, continuing, signals, blocks, known, later, run, synced, hands>>

\* A pass goes to the cache under the tree the run began with.
Finish ==
    LET failed == run.erred \/ Failed(AutofixFirst) \/ Failed(LocalLast) IN
    /\ run.at = "local" /\ Left(LocalLast) = {}
    /\ IF failed \/ run.saw = NoTree THEN UNCHANGED known ELSE Put(run.saw)
    /\ Answer(failed, IF failed THEN "failed" ELSE "passed")
    /\ UNCHANGED <<disk, later, synced, hands, did>>

-----------------------------------------------------------------------------
(* Between runs, and beside them. *)

\* A run taken into the background has its turn: no other run of the daemon is at work.
\* It is the Stop hook's still, so it counts its own failure or starts the count over, and
\* nobody hears its exit code.  It leaves early as a hook may, or ends with the daemon; one
\* that was superseded fails.
BackgroundRun(kind) ==
    LET kept == IF kind = "going" THEN tries ELSE 0 IN
    /\ run.at \in {"idle", "start"} /\ later[kind] > 0
    /\ later' = [later EXCEPT ![kind] = @ - 1]
    /\ \/ tries' = 0 /\ (UNCHANGED known \/ \E tree \in Tree \ {0} : Put(tree))
       \/ tries' \in {tries, kept, kept + 1} /\ UNCHANGED known
    /\ \/ UNCHANGED disk
       \/ (\E c \in Job : Command[c].local /\ Command[c].role = "autofix") /\ disk' \in Tree \ {0}
    /\ signals' = 0
    /\ UNCHANGED <<continuing, blocks, run, synced, hands, did>>

\* What the agent heard lets a commit through unless it was told to go on.
Dismiss ==
    /\ run.at = "answered" /\ run' = NoRun
    /\ disk' \in IF run.who = "gate" /\ run.why \in {"passed", "cached"} THEN {0, disk} ELSE {disk}
    /\ did' = [c \in Job |-> "none"] /\ synced' = [w \in Worker |-> NoTree]
    /\ UNCHANGED <<tries, continuing, signals, blocks, known, later, hands>>

Edit ==
    /\ run.at = "idle" \/ Meddled
    /\ run.at # "answered"
    /\ disk' \in Tree \ {disk}
    /\ UNCHANGED <<tries, continuing, signals, blocks, known, later, run, synced, hands, did>>

NextRun ==
    \/ \E place \in {"configured", "local", "remote"} : Begins("person", place)
    \/ \E who \in Hook : Begins(who, "configured")
    \/ Delegated \/ DelegateToDaemon \/ InitHook \/ Cached \/ Prepare \/ RunAutofix \/ StartRemote
    \/ Interrupted \/ EndRemote \/ RunRest \/ Finish \/ Dismiss \/ Edit
    \/ \E kind \in Later : BackgroundRun(kind)
    \/ \E w \in Worker :
        SyncMember(w) \/ AcquireWorker(w) \/ TakeJob(w) \/ WorkerLeaves(w) \/ RunOnSidecar(w)

SpecRun == InitRun /\ [][NextRun]_runVars

-----------------------------------------------------------------------------
(* Type invariant. *)
RunTypeOK ==
    /\ disk \in Tree /\ known \subseteq Tree
    /\ tries \in Nat /\ signals \in 0..MaxAttempts /\ blocks \in 0..MaxAttempts
    /\ continuing \in BOOLEAN /\ later \in [Later -> Nat]
    /\ DOMAIN run = DOMAIN NoRun /\ run.saw \in Tree \cup {NoTree}
    /\ run.who \in Hook \cup {"nobody", "person"}
    /\ synced \in [Worker -> Tree \cup {NoTree}]
    /\ hands \in [Worker -> {Out, Asking, Free} \cup Job]
    /\ did \in [Job -> {"none", "pass", "fail"}]

\* A run that says it passed ran every configured command and each passed, with
\* workers that got no sidecar, an interruption between two jobs and a local
\* batch that stopped early (RunDistributed, collectDistributedResults, RunAll,
\* runValidationPlan).
PassedRanAll == run.why = "passed" => \A c \in Job : did[c] = "pass"

\* A commit gate that answers with an exit code that lets the commit through,
\* having got as far as the commands, has seen them pass: it is neither released
\* to the background nor given up on (mayRunInBackground, WrapHookResult).
GateHolds ==
    run.at = "answered" /\ run.who = "gate" =>
        run.why # "background" /\ (run.why = "failed" => tries < MaxAttempts)

\* Between two commit gates an agent is told to go on fewer than MaxAttempts
\* times in a row, unless a run taken into the background comes in between, which has the
\* same attempts file and starts the count over (TrackFailedAttempt, WrapHookResult).
SignalsCapped == signals < MaxAttempts

\* HOOKS.md:390: in one turn the Stop hook tells the agent to go on fewer than
\* MaxAttempts times while validation keeps failing, whatever else the agent does.
BlocksCapped == blocks < MaxAttempts

\* validate.go:1451: what the remote gates check is the tree as the formatter
\* leaves it.
GatesSeeFormatted ==
    \A w \in Worker : hands[w] \in Job /\ ~Meddled => synced[w] = disk
==============================================================================
