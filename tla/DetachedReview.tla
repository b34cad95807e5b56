---------------------------- MODULE DetachedReview ----------------------------
(***************************************************************************)
(* A review that outlives the laptop (`chunk review --detach`,             *)
(* cmd/reviewdetach.go, review/detach.go).  A primary sidecar runs the     *)
(* whole review in a run directory; the project remembers which run that   *)
(* is; `chunk review results` and the next --detach read the directory     *)
(* with a shell script, file by file, while the run goes on.               *)
(***************************************************************************)
EXTENDS Integers, FiniteSets

CONSTANTS
    Caller,      \* terminals that run `chunk review --detach`
    MaxRuns,     \* bound: runs started
    Lossy,       \* can a request to the primary be lost, or its answer?
    Restarts     \* bound: restarts of the primary, which kill what runs on it

Runs == 1..MaxRuns
NoRun == 0

DetachAssumption == MaxRuns \in Nat /\ Lossy \in BOOLEAN /\ Restarts \in Nat

VARIABLES
    detachRecord, \* .chunk/review-run.json: the run it names, or NoRun
    dir,          \* per run: its directory on the primary
    starter,      \* per caller: where it is in runReviewDetached, the run it started
    reader,       \* `chunk review results`: where the script is, the run, what it says
    restarts

detachVars == <<detachRecord, dir, starter, reader, restarts>>

\* proc: the shell of the run; report: the --json report; code: the exit file.
Dir == [made : BOOLEAN, pid : BOOLEAN, proc : {"none", "shell", "review", "ended"},
        report : BOOLEAN, code : BOOLEAN]
NoDir == [made |-> FALSE, pid |-> FALSE, proc |-> "none", report |-> FALSE, code |-> FALSE]
Idle == [at |-> "idle", run |-> NoRun]
NotReading == [at |-> "idle", run |-> NoRun, status |-> "none"]

InitDetach ==
    /\ detachRecord = NoRun /\ dir = [r \in Runs |-> NoDir]
    /\ starter = [c \in Caller |-> Idle] /\ reader = NotReading /\ restarts = 0

Alive(r) == dir[r].proc \in {"shell", "review"}

-----------------------------------------------------------------------------
(* The primary. *)

\* The run's shell writes its PID, runs the review, and writes its exit code.
WritesPID(r) ==
    /\ dir[r].proc = "shell" /\ ~dir[r].pid
    /\ dir' = [dir EXCEPT ![r].pid = TRUE, ![r].proc = "review"]
    /\ UNCHANGED <<detachRecord, starter, reader, restarts>>

ReviewEnds(r) ==
    /\ dir[r].proc = "review"
    /\ \E report \in BOOLEAN :
        dir' = [dir EXCEPT ![r].proc = "shell", ![r].report = report]
    /\ UNCHANGED <<detachRecord, starter, reader, restarts>>

WritesCode(r) ==
    /\ dir[r].proc = "shell" /\ dir[r].pid
    /\ dir' = [dir EXCEPT ![r].proc = "ended", ![r].code = TRUE]
    /\ UNCHANGED <<detachRecord, starter, reader, restarts>>

Restart ==
    /\ restarts < Restarts /\ restarts' = restarts + 1
    /\ dir' = [r \in Runs |-> IF Alive(r) THEN [dir[r] EXCEPT !.proc = "ended"] ELSE dir[r]]
    /\ UNCHANGED <<detachRecord, starter, reader>>

-----------------------------------------------------------------------------
(* What ReadScript and ParseRead say of a run. *)

\* Mutants: a run that wrote no PID yet is gone; nobody looks whether the process is there.
Vanished(r) == ~dir[r].pid \/ ~Alive(r)
NeverGone(r) == dir[r].pid /\ ~Alive(r) /\ dir[r].code

\* Its shell wrote its PID, and no process has it.
Gone(r) == dir[r].pid /\ ~Alive(r)

Status(r) ==
    IF ~dir[r].made THEN "missing"
    ELSE IF dir[r].code THEN "done"
    ELSE IF Gone(r) THEN "died"
    ELSE "running"

-----------------------------------------------------------------------------
(* `chunk review --detach`. *)

Goes(c, at, r) == starter' = [starter EXCEPT ![c] = [at |-> at, run |-> r]]

\* Mutant: only a run that has begun its review is one that is running.
Unsure(r) == IF r = NoRun THEN TRUE ELSE Status(r) # "running" \/ ~dir[r].pid

\* Nothing recorded, or it is over, or it cannot be read.
NoActiveRun(r) == IF r = NoRun THEN TRUE ELSE Status(r) # "running"

CheckNoActiveRun(c) ==
    /\ starter[c].at = "idle"
    /\ \/ NoActiveRun(detachRecord)
       \/ Lossy
    /\ Goes(c, "launch", NoRun)
    /\ UNCHANGED <<detachRecord, dir, reader, restarts>>

\* The primary is acquired, chunk installed, and the script starts the run and returns
\* its directory; its answer may be lost when the run has begun.
Launch(c) ==
    /\ starter[c].at = "launch"
    /\ \E r \in {x \in Runs : ~dir[x].made /\ \A y \in Runs : y < x => dir[y].made} :
        /\ dir' = [dir EXCEPT ![r].made = TRUE, ![r].proc = "shell"]
        /\ \/ Goes(c, "save", r)
           \/ Lossy /\ Goes(c, "idle", NoRun)
    /\ UNCHANGED <<detachRecord, reader, restarts>>

\* No primary, a chunk that cannot run, or one without a review command.
LaunchFails(c) ==
    /\ starter[c].at = "launch" /\ Goes(c, "idle", NoRun)
    /\ UNCHANGED <<detachRecord, dir, reader, restarts>>

Save(c) ==
    /\ starter[c].at = "save"
    /\ \/ detachRecord' = starter[c].run
       \/ Lossy /\ detachRecord' = detachRecord     \* a warning: the review is already running
    /\ Goes(c, "idle", NoRun)
    /\ UNCHANGED <<dir, reader, restarts>>

-----------------------------------------------------------------------------
(* `chunk review results`: one step of the script is one look at a file. *)

LoadRecord ==
    /\ reader.at = "idle" /\ detachRecord # NoRun
    /\ reader' = [at |-> "exitfile", run |-> detachRecord, status |-> "none"]
    /\ UNCHANGED <<detachRecord, dir, starter, restarts>>

LookForExit ==
    /\ reader.at = "exitfile"
    /\ reader' = IF dir[reader.run].code
                 THEN [reader EXCEPT !.at = "told", !.status = "done"]
                 ELSE [reader EXCEPT !.at = "pidfile"]
    /\ UNCHANGED <<detachRecord, dir, starter, restarts>>

LookForProcess ==
    /\ reader.at = "pidfile"
    /\ reader' = [reader EXCEPT !.at = "told", !.status =
         IF Gone(reader.run) THEN "died" ELSE "running"]
    /\ UNCHANGED <<detachRecord, dir, starter, restarts>>

\* The report is printed, or the run is said to have left none.
Told ==
    /\ reader.at = "told" /\ reader' = NotReading
    /\ UNCHANGED <<detachRecord, dir, starter, restarts>>

NextDetach ==
    \/ \E r \in Runs : WritesPID(r) \/ ReviewEnds(r) \/ WritesCode(r)
    \/ Restart
    \/ \E c \in Caller : CheckNoActiveRun(c) \/ Launch(c) \/ LaunchFails(c) \/ Save(c)
    \/ LoadRecord \/ LookForExit \/ LookForProcess \/ Told

FairDetach ==
    /\ \A r \in Runs : WF_detachVars(WritesPID(r) \/ ReviewEnds(r) \/ WritesCode(r))
    /\ WF_detachVars(LookForExit \/ LookForProcess)

SpecDetach == InitDetach /\ [][NextDetach]_detachVars /\ FairDetach

-----------------------------------------------------------------------------
(* Properties. *)

DetachTypeOK ==
    /\ detachRecord \in Runs \union {NoRun} /\ dir \in [Runs -> Dir]
    /\ \A c \in Caller : starter[c].at \in {"idle", "launch", "save"}
    /\ reader.status \in {"none", "done", "died", "running"} /\ restarts \in 0..Restarts

\* "The two would share the primary's checkout and reviewer pool": at no time do two
\* runs of a project go on at once, as long as one terminal starts them and hears of it.
OneRunAtATime == \A q, r \in Runs : Alive(q) /\ Alive(r) => q = r

\* "No exit code, and the run's process is gone": what is said to have died has not
\* finished.
DiedIsDead == reader.status = "died" => ~dir[reader.run].code

\* A report of the end is the end: what was said to be done is not running.
ToldTruly == reader.status \in {"done", "died"} => ~Alive(reader.run)

\* A run that was recorded and wrote its PID is not said to be running for ever.
Recorded(r) == detachRecord = r /\ dir[r].pid
Reported(r) == detachRecord # r \/ Status(r) \in {"done", "died"}
RunReported == \A r \in Runs : Recorded(r) ~> Reported(r)
==============================================================================
