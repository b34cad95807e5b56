----------------------------- MODULE MutationRun -----------------------------
(***************************************************************************)
(* `chunk mutate --parallel` (internal/mutate/runner.go, cmd/mutate.go):   *)
(* the unmodified suite is run once, then each mutation is applied as a    *)
(* patch on a sidecar of the pool, tested and reversed, several at a time. *)
(* A sidecar whose tree is in doubt is replaced before it is used again.   *)
(*                                                                         *)
(* The pool is what its Acquire, Release and Replace promise.              *)
(***************************************************************************)
EXTENDS Integers, FiniteSets

CONSTANTS
    Mutations, \* mutations: 1..Mutations
    Sidecar    \* sidecars of the pool

MutationAssumption == Mutations \in Nat

Mutation == 1..Mutations

VARIABLES
    sched,     \* runWith: "baseline", "loop", "wait" or "over"
    upNext,    \* the mutation it schedules next
    schedErr,  \* it gave up scheduling
    cancelled, \* the run's context is done
    mut,       \* per mutation: how far it is, on which sidecar, and its result
    patched,   \* per sidecar: the mutations applied to its tree
    idle       \* sidecars in the pool

mutationVars == <<sched, upNext, schedErr, cancelled, mut, patched, idle>>

NoSidecar == "none"
Fresh == [at |-> "none", on |-> NoSidecar, tested |-> {}, ran |-> "none", reusable |-> TRUE,
          result |-> "none"]

InitMutation ==
    /\ sched = "baseline" /\ upNext = 1 /\ schedErr = FALSE /\ cancelled = FALSE
    /\ mut = [m \in Mutation |-> Fresh]
    /\ patched = [w \in Sidecar |-> {}] /\ idle = Sidecar

\* The suite must pass on the unmodified tree before anything is mutated.
Baseline ==
    /\ sched = "baseline"
    /\ \/ sched' = "loop" /\ ~cancelled /\ UNCHANGED schedErr
       \/ sched' = "over" /\ schedErr' = TRUE
    /\ UNCHANGED <<upNext, cancelled, mut, patched, idle>>

Cancel ==
    /\ sched # "over" /\ ~cancelled /\ cancelled' = TRUE
    /\ UNCHANGED <<sched, upNext, schedErr, mut, patched, idle>>

-----------------------------------------------------------------------------
(* The scheduler.  The context is looked at before each mutation, so it    *)
(* may be done by the time a sidecar was had.                              *)

Schedule ==
    /\ sched = "loop" /\ upNext \in Mutation
    /\ \/ /\ mut' = [mut EXCEPT ![upNext].at = "done", ![upNext].result = "error"]
          /\ UNCHANGED idle \* no patch could be made
       \/ \E w \in idle :
            /\ mut' = [mut EXCEPT ![upNext].at = "apply", ![upNext].on = w]
            /\ idle' = idle \ {w}
    /\ upNext' = upNext + 1
    /\ UNCHANGED <<sched, schedErr, cancelled, patched>>

\* The run was cancelled, or no sidecar is left to be had.
GiveUp ==
    /\ sched = "loop" /\ upNext \in Mutation
    /\ cancelled \/ (idle = {} /\ \A m \in Mutation : mut[m].at \in {"none", "done"})
    /\ sched' = "wait" /\ schedErr' = TRUE
    /\ UNCHANGED <<upNext, cancelled, mut, patched, idle>>

AllScheduled ==
    /\ sched = "loop" /\ upNext \notin Mutation /\ sched' = "wait"
    /\ UNCHANGED <<upNext, schedErr, cancelled, mut, patched, idle>>

-----------------------------------------------------------------------------
(* One mutation on its sidecar. *)

OnWorker(m, at) == mut[m].at = at

\* git apply takes all of a patch or none; when its answer is lost nobody knows which.
Apply(m) ==
    LET w == mut[m].on IN
    /\ OnWorker(m, "apply")
    /\ \/ /\ ~cancelled /\ patched' = [patched EXCEPT ![w] = @ \cup {m}]
          /\ mut' = [mut EXCEPT ![m].at = "test"]
       \/ /\ ~cancelled /\ UNCHANGED patched \* the patch does not apply
          /\ mut' = [mut EXCEPT ![m].at = "return", ![m].result = "error"]
       \/ /\ patched' \in {patched, [patched EXCEPT ![w] = @ \cup {m}]}
          /\ mut' = [mut EXCEPT ![m].at = "return", ![m].result = "error", ![m].reusable = FALSE]
    /\ UNCHANGED <<sched, upNext, schedErr, cancelled, idle>>

\* The suite passes, fails, or is cut off: by its timeout, the run's end or the sidecar's.
Test(m) ==
    /\ OnWorker(m, "test")
    /\ \E ran \in (IF cancelled THEN {} ELSE {"passed", "failed"}) \cup {"severed"} :
        mut' = [mut EXCEPT ![m].at = "reverse", ![m].ran = ran, ![m].tested = patched[mut[m].on]]
    /\ UNCHANGED <<sched, upNext, schedErr, cancelled, patched, idle>>

\* Mutant: a sidecar whose patch could not be reversed goes back as it is.
ReusableAnyway(reversed) == TRUE

Reusable(reversed) == reversed

\* The patch is reversed even when the run was cancelled.
ReversePatch(m) ==
    LET w == mut[m].on IN
    /\ OnWorker(m, "reverse")
    /\ \E reversed \in BOOLEAN :
        /\ patched' = IF reversed THEN [patched EXCEPT ![w] = @ \ {m}] ELSE patched
        /\ mut' = [mut EXCEPT ![m].at = "return", ![m].reusable = Reusable(reversed),
                       ![m].result = IF ~reversed \/ mut[m].ran = "severed" THEN "error"
                                     ELSE IF mut[m].ran = "failed" THEN "killed" ELSE "survived"]
    /\ UNCHANGED <<sched, upNext, schedErr, cancelled, idle>>

\* A sidecar in doubt is replaced by a freshly synced one, or, when that fails,
\* lost to the pool; a run that is stopping leaves it to the next sync.
Return(m) ==
    LET w == mut[m].on IN
    /\ OnWorker(m, "return")
    /\ IF mut[m].reusable \/ cancelled
       THEN idle' = idle \cup {w} /\ UNCHANGED patched
       ELSE \/ idle' = idle \cup {w} /\ patched' = [patched EXCEPT ![w] = {}]
            \/ UNCHANGED <<idle, patched>>
    /\ mut' = [mut EXCEPT ![m].at = "done"]
    /\ UNCHANGED <<sched, upNext, schedErr, cancelled>>

Over ==
    /\ sched = "wait" /\ \A m \in Mutation : mut[m].at \in {"none", "done"}
    /\ sched' = "over"
    /\ UNCHANGED <<upNext, schedErr, cancelled, mut, patched, idle>>

NextMutation ==
    \/ Baseline \/ Cancel \/ Schedule \/ GiveUp \/ AllScheduled \/ Over
    \/ \E m \in Mutation : Apply(m) \/ Test(m) \/ ReversePatch(m) \/ Return(m)

SpecMutation == InitMutation /\ [][NextMutation]_mutationVars

-----------------------------------------------------------------------------
(* Type invariant. *)
MutationTypeOK ==
    /\ sched \in {"baseline", "loop", "wait", "over"} /\ upNext \in 1..(Mutations + 1)
    /\ schedErr \in BOOLEAN /\ cancelled \in BOOLEAN /\ idle \subseteq Sidecar
    /\ patched \in [Sidecar -> SUBSET Mutation]
    /\ \A m \in Mutation :
        /\ mut[m].at \in {"none", "apply", "test", "reverse", "return", "done"}
        /\ mut[m].result \in {"none", "error", "killed", "survived"}

\* A mutation is told killed or survived only when the suite ran to its end on a
\* tree with that mutation and no other, whatever sidecar it was given and
\* whatever became of the mutations before it (runMutation, runWith).
VerdictHonest ==
    \A m \in Mutation : mut[m].result \in {"killed", "survived"} =>
        mut[m].tested = {m} /\ mut[m].ran \in {"passed", "failed"}

\* A run that reports no error has a result for every mutation.
MutationsTold ==
    sched = "over" /\ ~schedErr => \A m \in Mutation : mut[m].result # "none"
==============================================================================
