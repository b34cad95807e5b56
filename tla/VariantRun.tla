------------------------------ MODULE VariantRun ------------------------------
(***************************************************************************)
(* `chunk validate variants` (internal/variants, cmd/validate_variants.go):*)
(* each variant of the code gets a sidecar of its own, synced, patched,    *)
(* tested and deleted, a few at a time.  Only the age in its name protects *)
(* such a sidecar from the sweep that another run begins with.             *)
(*                                                                         *)
(* Time is counted in ticks, each age up to what is ever asked of it.      *)
(***************************************************************************)
EXTENDS Integers, FiniteSets

CONSTANTS
    Variant,     \* entries of the variants file
    Slots,       \* --parallel: sidecars at once
    Commands,    \* remote commands to run on each
    Timeout,     \* seconds a command may run, 0: as long as it likes
    SetupTime,   \* the longest that creating, syncing or patching takes
    OrphanAfter  \* orphanAfter: the age a sidecar is swept from

VariantAssumption ==
    /\ Slots \in Nat \ {0} /\ Commands \in Nat \ {0}
    /\ Timeout \in Nat /\ SetupTime \in Nat /\ OrphanAfter \in Nat

VARIABLES
    variant,     \* per variant: how far it is, its sidecar, and its result
    interrupted, \* SIGINT or SIGTERM came
    crashed      \* the process is gone

variantVars == <<variant, interrupted, crashed>>

Longest == IF Timeout > SetupTime THEN Timeout ELSE SetupTime
UpTo(n, limit) == IF n < limit THEN n ELSE limit

\* box: its sidecar; age: what its name says; ran: what its commands came to;
\* refused: the service would not delete it; sweptBusy: it was swept in use.
InitVariants ==
    /\ variant = [v \in Variant |->
           [at |-> "queued", cmd |-> 1, spent |-> 0, box |-> "none", age |-> 0,
            applied |-> FALSE, ran |-> "none", result |-> "none", unheard |-> FALSE,
            refused |-> FALSE, sweptBusy |-> FALSE]]
    /\ interrupted = FALSE /\ crashed = FALSE

Set(v, r) == variant' = [variant EXCEPT ![v] = r]
Goes(v, at) == [variant[v] EXCEPT !.at = at, !.spent = 0]
VariantEnds(v, at, result) == [Goes(v, at) EXCEPT !.result = result]

At(v, at) == ~crashed /\ variant[v].at = at
Same == UNCHANGED <<interrupted, crashed>>

Busy == {v \in Variant : variant[v].at \in {"create", "setup", "patch", "command", "delete"}}

\* Mutant: the name says when the run began.
StampOfRun == CHOOSE a \in 0..OrphanAfter :
    /\ \A v \in Variant : variant[v].age <= a
    /\ a = 0 \/ \E v \in Variant : variant[v].age = a

\* The name says when this sidecar was made.
Stamp == 0

TakeSlot(v) ==
    /\ At(v, "queued") /\ Cardinality(Busy) < Slots /\ ~interrupted
    /\ Set(v, [Goes(v, "create") EXCEPT !.age = Stamp])
    /\ Same

\* With or without a slot, nothing is created for one that had not begun.
CancelQueued(v) ==
    /\ At(v, "queued") /\ interrupted
    /\ Set(v, VariantEnds(v, "done", "error"))
    /\ Same

\* When only the answer is lost there is a sidecar, and no ID to delete it by.
Create(v) ==
    /\ At(v, "create")
    /\ \/ ~interrupted /\ Set(v, [Goes(v, "setup") EXCEPT !.box = "live"])
       \/ Set(v, [VariantEnds(v, "done", "error") EXCEPT !.box = "live", !.unheard = TRUE])
       \/ Set(v, VariantEnds(v, "done", "error"))
    /\ Same

Alive(v) == variant[v].box = "live" /\ ~interrupted

\* RsyncSyncEphemeral, OpenSession.
SyncVariant(v) ==
    /\ At(v, "setup")
    /\ \/ Alive(v) /\ Set(v, Goes(v, "patch"))
       \/ Set(v, VariantEnds(v, "delete", "error"))
    /\ Same

ApplyPatch(v) ==
    /\ At(v, "patch")
    /\ \/ Alive(v) /\ Set(v, [Goes(v, "command") EXCEPT !.applied = TRUE])
       \/ Set(v, VariantEnds(v, "delete", "error"))
    /\ Same

\* Mutant: an exit code is an exit code.
NoShellFailure(ran) == FALSE

\* 126 and 127: the shell's own failures.
ShellFailure(ran) == ran = "unrunnable"

\* A command with no limit does not hear of the interrupt.
RunVariantCommand(v) ==
    LET r == variant[v]
        answered(ran) ==
            IF ran = "passed" /\ r.cmd < Commands
            THEN [Goes(v, "command") EXCEPT !.cmd = @ + 1]
            ELSE [VariantEnds(v, "delete", IF ran = "passed" THEN "survived"
                                    ELSE IF ShellFailure(ran) THEN "error" ELSE "killed")
                     EXCEPT !.ran = ran]
    IN /\ At(v, "command")
       /\ \/ r.box = "live" /\ \E ran \in {"passed", "failed", "unrunnable"} : Set(v, answered(ran))
          \/ Timeout > 0 /\ (r.spent = Timeout \/ interrupted) /\ Set(v, VariantEnds(v, "delete", "error"))
          \/ Set(v, VariantEnds(v, "delete", "error")) \* exec error
       /\ Same

\* Mutant: the delete is asked for with the run's own context.
AskDeleteOfRun == ~interrupted

\* The delete is asked for even when the run was cancelled.
AskDelete == TRUE

Delete(v) ==
    /\ At(v, "delete")
    /\ \/ AskDelete /\ Set(v, [Goes(v, "done") EXCEPT !.box = "gone"])
       \/ AskDelete /\ Set(v, [Goes(v, "done") EXCEPT !.refused = TRUE])
       \/ ~AskDelete /\ Set(v, Goes(v, "done"))
    /\ Same

InterruptVariants ==
    /\ ~interrupted /\ ~crashed /\ interrupted' = TRUE /\ UNCHANGED <<variant, crashed>>

CrashVariants ==
    /\ ~crashed /\ crashed' = TRUE /\ UNCHANGED <<variant, interrupted>>

\* Another run's SweepOrphans: some of what is old enough, for a delete may fail.
Orphans == {v \in Variant : variant[v].box = "live" /\ variant[v].age >= OrphanAfter}

Sweep ==
    \E swept \in SUBSET Orphans :
        /\ swept # {}
        /\ variant' = [v \in Variant |->
               IF v \notin swept THEN variant[v]
               ELSE [variant[v] EXCEPT !.box = "gone",
                        !.sweptBusy = ~crashed /\ v \in Busy /\ variant[v].at # "delete"]]
        /\ Same

\* No stage outlasts its limit.
TimePasses ==
    /\ crashed \/ \A v \in Variant :
           LET r == variant[v] IN
           /\ r.at \in {"create", "setup", "patch", "delete"} => r.spent < SetupTime
           /\ r.at = "command" /\ Timeout > 0 => r.spent < Timeout
    /\ variant' = [v \in Variant |->
           IF variant[v].at \in {"queued", "done"} /\ variant[v].box # "live" THEN variant[v]
           ELSE [variant[v] EXCEPT !.age = UpTo(@ + 1, OrphanAfter),
                                   !.spent = UpTo(@ + 1, Longest)]]
    /\ UNCHANGED <<interrupted, crashed>>

NextVariants ==
    \/ \E v \in Variant :
         \/ TakeSlot(v) \/ CancelQueued(v) \/ Create(v) \/ SyncVariant(v) \/ ApplyPatch(v)
         \/ RunVariantCommand(v) \/ Delete(v)
    \/ InterruptVariants \/ CrashVariants \/ Sweep \/ TimePasses

SpecVariants == InitVariants /\ [][NextVariants]_variantVars

-----------------------------------------------------------------------------
(* Type invariant. *)
VariantsTypeOK ==
    /\ \A v \in Variant :
        /\ variant[v].at \in {"queued", "create", "setup", "patch", "command", "delete", "done"}
        /\ variant[v].cmd \in 1..Commands /\ variant[v].spent \in 0..Longest
        /\ variant[v].age \in 0..OrphanAfter
        /\ variant[v].result \in {"none", "error", "killed", "survived"}
    /\ interrupted \in BOOLEAN /\ crashed \in BOOLEAN
    /\ Cardinality(Busy) <= Slots

\* No sweep takes a sidecar that a run is still working on, however long that run
\* has gone on, as long as every command is bounded (orphanAfter: "a sidecar young
\* enough to belong to a live run is left alone").
SweepSpares == \A v \in Variant : ~variant[v].sweptBusy

\* A run that ends, interrupted or not, leaves no sidecar behind but one whose ID
\* it never heard or that the service would not delete (Run, runVariant).
NothingStranded ==
    \A v \in Variant : variant[v].at = "done" /\ variant[v].box = "live" =>
        variant[v].unheard \/ variant[v].refused

\* Killed or survived is said only of a patched tree whose commands ran to a
\* verdict (Result: "a non-empty Error means the mutant was never assessed").
AssessedHonest ==
    \A v \in Variant :
        LET r == variant[v] IN
        /\ r.result = "killed" => r.applied /\ r.ran = "failed"
        /\ r.result = "survived" => r.applied /\ r.ran = "passed" /\ r.cmd = Commands
==============================================================================
