------------------------------ MODULE ReviewPass ------------------------------
(***************************************************************************)
(* One pass of `chunk review` (internal/review, cmd/review.go,             *)
(* cmd/reviewactivity.go): every prompt runs once, each on a sidecar       *)
(* checked out of the pool.  An error that every review would have, no     *)
(* Claude or a rejected credential, cancels the pass; any other is that    *)
(* prompt's.  The pass is shown live, filed in the event log per sidecar,  *)
(* and its findings are checked, merged and counted.                       *)
(*                                                                         *)
(* The pool is what its Acquire and Release promise: see SidecarPool.      *)
(***************************************************************************)
EXTENDS Integers, Sequences, FiniteSets, Functions

CONSTANTS
    Prompts,     \* prompts of the pass: 1..Prompts
    Member,      \* sidecars of the pool
    Answers,     \* what a review may report: sequences of raw findings
    MaxFindings  \* MaxFindings: kept of one review

Prompt == 1..Prompts

RawFindings == UNION {Range(raw) : raw \in Answers}

PassAssumption ==
    /\ Prompts \in Nat /\ MaxFindings \in Nat
    /\ Answers # {} /\ Answers \subseteq Seq(RawFindings)

VARIABLES
    main,        \* RunPass: "acquire", "wait" or "over"
    nextUp,      \* the prompt to acquire a sidecar for
    acquireErr,  \* an Acquire failed
    work,        \* per prompt: its goroutine, its sidecar and its result
    freeMembers, \* sidecars in the pool
    passCtx,     \* the pass's context: "live", "fatal" or "quit", by whoever cancelled it first
    fatalErr,    \* is there a first fatal error?
    runLog,      \* per sidecar: is its last event the end of a run?
    inFlight,    \* per sidecar: the prompt it is reviewing, 0 for none
    lines,       \* per prompt: its row of the live display
    passOutcome  \* what the command reports

passVars == <<main, nextUp, acquireErr, work, freeMembers, passCtx, fatalErr, runLog, inFlight,
              lines, passOutcome>>

Nobody == "nobody"
Job == [at |-> "none", on |-> Nobody, result |-> "none", findings |-> <<>>]

InitPass ==
    /\ main = "acquire" /\ nextUp = 1 /\ acquireErr = FALSE
    /\ work = [p \in Prompt |-> Job] /\ freeMembers = Member
    /\ passCtx = "live" /\ fatalErr = FALSE
    /\ runLog = [s \in Member |-> "closed"] /\ inFlight = [s \in Member |-> 0]
    /\ lines = [p \in Prompt |-> "queued"] /\ passOutcome = "none"

-----------------------------------------------------------------------------
(* Findings: raw ones have a place, or none that is in the repository, and a severity. *)

Rank == [high |-> 0, medium |-> 1, low |-> 2, info |-> 3]

\* Anything but the three real severities is info.
Severity(given) == IF given \in DOMAIN Rank THEN given ELSE "info"

Usable(f) == f.place # "outside" /\ f.body # "empty"
Cleaned(f) == [place |-> f.place, body |-> f.body, severity |-> Severity(f.severity)]

\* Without a place in the repository or a body a finding is dropped, and so is what comes
\* after the first MaxFindings.
CleanFindings(raw) ==
    LET out[i \in 0..Len(raw)] ==
            IF i = 0 THEN <<>>
            ELSE IF Len(out[i - 1]) < MaxFindings /\ Usable(raw[i])
                 THEN Append(out[i - 1], Cleaned(raw[i])) ELSE out[i - 1]
    IN out[Len(raw)]

SameFinding(f, g) == f.place = g.place /\ f.body = g.body

Worse(f, g) == Rank[f.severity] < Rank[g.severity]

\* A repeat is dropped, but the copy that is kept gets its severity if that is worse.
Merged(out, f) ==
    IF \E i \in DOMAIN out : SameFinding(out[i], f)
    THEN [i \in DOMAIN out |-> IF SameFinding(out[i], f) /\ Worse(f, out[i])
                               THEN [out[i] EXCEPT !.severity = f.severity] ELSE out[i]]
    ELSE Append(out, f)

DedupeFindings(fs) ==
    LET out[n \in 0..Len(fs)] == IF n = 0 THEN <<>> ELSE Merged(out[n - 1], fs[n])
    IN out[Len(fs)]

AllFindings ==
    LET part[p \in 0..Prompts] ==
            IF p = 0 THEN <<>>
            ELSE part[p - 1] \o (IF work[p].result = "ok" THEN work[p].findings ELSE <<>>)
    IN part[Prompts]

-----------------------------------------------------------------------------
(* The loop that hands out sidecars, and the user. *)

Cancelled == passCtx # "live"

Acquire ==
    /\ main = "acquire" /\ nextUp <= Prompts
    /\ \E s \in freeMembers :
        /\ freeMembers' = freeMembers \ {s}
        /\ work' = [work EXCEPT ![nextUp].at = "started", ![nextUp].on = s]
    /\ nextUp' = nextUp + 1
    /\ UNCHANGED <<main, acquireErr, passCtx, fatalErr, runLog, inFlight, lines, passOutcome>>

\* No sidecar can be had any more, or the pass was cancelled while it waited for one.
AcquireFails ==
    /\ main = "acquire" /\ nextUp <= Prompts
    /\ acquireErr' = TRUE /\ main' = "wait"
    /\ UNCHANGED <<nextUp, work, freeMembers, passCtx, fatalErr, runLog, inFlight, lines,
                   passOutcome>>

AllStarted ==
    /\ main = "acquire" /\ nextUp > Prompts /\ main' = "wait"
    /\ UNCHANGED <<nextUp, acquireErr, work, freeMembers, passCtx, fatalErr, runLog, inFlight,
                   lines, passOutcome>>

\* q in the display, or an interrupt.
Quit ==
    /\ main # "over" /\ passCtx = "live" /\ passCtx' = "quit"
    /\ UNCHANGED <<main, nextUp, acquireErr, work, freeMembers, fatalErr, runLog, inFlight,
                   lines, passOutcome>>

-----------------------------------------------------------------------------
(* A prompt's goroutine. *)

\* It is shown and filed as running on its sidecar.
Begin(p) ==
    /\ work[p].at = "started"
    /\ work' = [work EXCEPT ![p].at = "running"]
    /\ lines' = [lines EXCEPT ![p] = "running"]
    /\ runLog' = [runLog EXCEPT ![work[p].on] = "open"]
    /\ inFlight' = [inFlight EXCEPT ![work[p].on] = p]
    /\ UNCHANGED <<main, nextUp, acquireErr, freeMembers, passCtx, fatalErr, passOutcome>>

\* runOne: the run succeeded, failed (its timeout, its exit code, an answer that does
\* not parse), failed for a reason every run would, or was cut off by the cancellation.
RunOne(p) ==
    /\ work[p].at = "running"
    /\ \E result \in {"ok", "failed", "fatal"} \union (IF Cancelled THEN {"cancelled"} ELSE {}) :
        \E raw \in Answers :
            work' = [work EXCEPT ![p].at = "ran", ![p].result = result,
                                 ![p].findings = IF result = "ok" THEN CleanFindings(raw) ELSE <<>>]
    /\ UNCHANGED <<main, nextUp, acquireErr, freeMembers, passCtx, fatalErr, runLog, inFlight,
                   lines, passOutcome>>

\* Mutant: every run keeps the error it ended with.
OwnResult(p) == work[p].result

\* One that was cut off because another hit a fatal error reports that error.
Attributed(p) == IF work[p].result = "cancelled" /\ fatalErr THEN "fatal" ELSE work[p].result

\* A fatal result cancels the rest and is not reported as the prompt's own.
Settle(p) ==
    /\ work[p].at = "ran"
    /\ LET result == Attributed(p)
           s == work[p].on
       IN /\ work' = [work EXCEPT ![p].at = "settled", ![p].result = result]
          /\ fatalErr' = (fatalErr \/ result = "fatal")
          /\ passCtx' = IF result = "fatal" /\ passCtx = "live" THEN "fatal" ELSE passCtx
          /\ lines' = [lines EXCEPT ![p] =
                IF result = "fatal" THEN @ ELSE IF result = "ok" THEN "done" ELSE "failed"]
          /\ runLog' = IF result = "fatal" THEN runLog ELSE [runLog EXCEPT ![s] = "closed"]
          /\ inFlight' = IF result = "fatal" THEN inFlight ELSE [inFlight EXCEPT ![s] = 0]
    /\ UNCHANGED <<main, nextUp, acquireErr, freeMembers, passOutcome>>

Release(p) ==
    /\ work[p].at = "settled"
    /\ work' = [work EXCEPT ![p].at = "over"]
    /\ freeMembers' = freeMembers \union {work[p].on}
    /\ UNCHANGED <<main, nextUp, acquireErr, passCtx, fatalErr, runLog, inFlight, lines,
                   passOutcome>>

-----------------------------------------------------------------------------
(* The end of the pass. *)

Fatal == \E p \in Prompt : work[p].result = "fatal"
FailedReviews == {p \in Prompt : work[p].result \in {"failed", "cancelled"}}

\* A row that nothing was reported on is settled when the pass ended with an error.
Settled(state, err) == IF err /\ state \in {"queued", "running"} THEN "failed" ELSE state

\* Mutant: only what has a result is waited for.
AllSettled == \A p \in Prompt : work[p].at \in {"none", "settled", "over"}

AllReturned == \A p \in Prompt : work[p].at \in {"none", "over"}

\* finish closes the runs that are still open in the event log if there was an error.
PassEnds ==
    /\ main = "wait" /\ AllReturned
    /\ main' = "over"
    /\ passOutcome' = IF Fatal THEN "fatal" ELSE IF acquireErr THEN "stopped"
                      ELSE IF FailedReviews # {} THEN "failed" ELSE "passed"
    /\ LET err == Fatal \/ acquireErr
       IN /\ lines' = [p \in Prompt |-> Settled(lines[p], err)]
          /\ runLog' = [s \in Member |-> IF err /\ inFlight[s] # 0 THEN "closed" ELSE runLog[s]]
          /\ inFlight' = [s \in Member |-> IF err THEN 0 ELSE inFlight[s]]
    /\ UNCHANGED <<nextUp, acquireErr, work, freeMembers, passCtx, fatalErr>>

Works(p) == Begin(p) \/ RunOne(p) \/ Settle(p) \/ Release(p)
HandsOut == Acquire \/ AcquireFails \/ AllStarted \/ PassEnds

NextPass == HandsOut \/ Quit \/ \E p \in Prompt : Works(p)

\* A run has a timeout, and goroutines run on.
FairPass == WF_passVars(HandsOut) /\ \A p \in Prompt : WF_passVars(Works(p))

SpecPass == InitPass /\ [][NextPass]_passVars /\ FairPass

-----------------------------------------------------------------------------
(* Properties. *)

PassTypeOK ==
    /\ main \in {"acquire", "wait", "over"} /\ nextUp \in 1..Prompts + 1
    /\ \A p \in Prompt :
          work[p].on \in Member \union {Nobody} /\ Len(work[p].findings) <= MaxFindings
    /\ passCtx \in {"live", "fatal", "quit"}
    /\ runLog \in [Member -> {"open", "closed"}] /\ inFlight \in [Member -> 0..Prompts]
    /\ lines \in [Prompt -> {"queued", "running", "done", "failed"}]

\* "Attribute this result to the same root cause": a review is reported cancelled only
\* when the user ended the pass, never because another review failed for all of them.
NoSpuriousCancel ==
    main = "over" /\ passCtx # "quit" => \A p \in Prompt : work[p].result # "cancelled"

\* A pass that is reported as passed ran every prompt; one that ended without an error
\* has a result for each; and every sidecar is back.
PassComplete ==
    main = "over" =>
        /\ freeMembers = Member
        /\ passOutcome = "passed" => \A p \in Prompt : work[p].result = "ok"
        /\ passOutcome = "failed" => \A p \in Prompt : work[p].result # "none"
        /\ fatalErr <=> passOutcome = "fatal"

\* No sidecar is left reading as busy in the log and no row as still in flight, also
\* after a fatal error, whose own run never reports its end.
RowsSettled ==
    main = "over" =>
        /\ \A s \in Member : runLog[s] = "closed"
        /\ \A p \in Prompt : lines[p] \in {"done", "failed"}

\* Merging loses no finding that is worth changing and makes none worth it.
FindingsMerged ==
    LET merged == DedupeFindings(AllFindings)
    IN main = "over" =>
        /\ \A f \in Range(AllFindings) : \E d \in Range(merged) :
              SameFinding(d, f) /\ Rank[d.severity] <= Rank[f.severity]
        /\ \A d \in Range(merged) : \E f \in Range(AllFindings) : f = d
        /\ \A i, j \in DOMAIN merged : i # j => ~SameFinding(merged[i], merged[j])

\* The pass ends.
PassOver == <>(main = "over")
==============================================================================
