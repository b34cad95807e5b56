------------------------------- MODULE Session -------------------------------
(***************************************************************************)
(* Review sessions of the watch daemon, for one project                    *)
(* (internal/watchd/session_store.go, session_run.go, session_loop.go,     *)
(* session_tree.go).                                                       *)
(*                                                                         *)
(* A session runs rounds: review the user's files on sandboxes, have the   *)
(* findings fixed there, and write the resulting patch into the user's     *)
(* working tree.  The user keeps editing the same files all the while, and *)
(* HTTP handlers resume, cancel and restore the session concurrently with  *)
(* its loop.  One action is one critical section, one git command or one   *)
(* look at the tree: those are the points at which the goroutines, the git *)
(* processes and the user interleave.                                      *)
(*                                                                         *)
(* A file is what has been done to it: the user edits it contains and the  *)
(* fixes it contains.  The patch's text, the findings and the reviews of a *)
(* round are left out; a review or a fix is the outcome it can have.       *)
(***************************************************************************)
EXTENDS Integers, Sequences, FiniteSets

CONSTANTS
    Path,        \* the files of the project
    NoTree,      \* no tree saved, or looked at, yet
    Call,        \* HTTP handlers that may be in flight at once
    NSid,        \* bound: sessions ever started
    MaxRounds,   \* rounds of a session (MaxRounds, or the request's max_rounds)
    MaxStored,   \* MaxSessionsPerProject
    MaxEdits,    \* bound: edits by the user
    MaxCalls,    \* bound: handler calls accepted
    MaxCrashes   \* bound: times the daemon is killed

ASSUME BoundsAssumption ==
    /\ NSid \in Nat /\ MaxRounds \in Nat /\ MaxStored \in Nat \ {0}
    /\ MaxEdits \in Nat /\ MaxCalls \in Nat /\ MaxCrashes \in Nat

VARIABLES
    tree,     \* the user's working tree
    edits,    \* edits made so far; edit n is the n-th
    refs,     \* refs/chunk/restore/<session>: git refs, they outlive the daemon
    stopping, \* the daemon's context is done (SIGTERM)
    crashes,  \* times the daemon was killed
    started,  \* sessions ever started; session n is the n-th, so IDs are ages
    store,    \* the sessions in sessionStore.sessions and byProject
    sess,     \* per session: the sessionEntry the handlers share with the loop
    loop,     \* per session: the goroutine's own state (loopState and position)
    calls,    \* per handler: the call it is serving
    spent,    \* handler calls accepted so far
    hist      \* per session: what really happened, for the properties only

vars == <<tree, edits, refs, stopping, crashes, started, store, sess, loop,
          calls, spent, hist>>

-----------------------------------------------------------------------------
(* Data. *)

Sid == 1..NSid
Edit == 1..MaxEdits
Fix == Sid \X Nat    \* the session and the number of its round
File == [user : SUBSET Edit, fix : SUBSET Fix]
Tree == [Path -> File]

ASSUME NoTreeAssumption == NoTree \notin Tree

RoundStates == {"reviewing", "fixing", "applying", "done", "failed", "superseded"}
FixStates == {"none", "running", "applied", "empty", "failed"}
Round == [number : Nat, state : RoundStates, fix : FixStates]

SessionStates == {"none", "running", "paused", "done", "failed", "cancelled", "lost"}

Session == [state : SessionStates,
            rounds : Seq(Round),
            restore : {"none", "saved", "restored"},
            paths : SUBSET Path,
            left : Tree \cup {NoTree},
            cancelled : BOOLEAN,
            ctxDone : BOOLEAN,
            resume : 0..1]

Positions == {"idle", "start", "top", "review", "fix", "verify", "save", "apply",
              "record", "paused", "adopt", "settle", "over"}

Loop == [pc : Positions,
         expected : Tree \cup {NoTree},
         patch : SUBSET Path,
         touched : SUBSET Path,
         done : Nat,
         err : BOOLEAN]

Ops == {"idle", "resume", "cancel", "restore", "restoring"}
Served == [op : Ops, sid : Sid \cup {0}, force : BOOLEAN]
Idle == [op |-> "idle", sid |-> 0, force |-> FALSE]

History == [wrote : SUBSET Path,    \* files the session has written
            torn : BOOLEAN,         \* a write was cut short, or not recorded
            leftAt : 0..MaxEdits,   \* edits made when left was taken
            adopted : [Path -> SUBSET Edit],
                                    \* user edits the session paused for, then adopted
            asked : BOOLEAN,        \* a resume was accepted since this pause began
            asks : Nat,             \* resumes accepted
            wakes : Nat]            \* pauses ended by a resume

TypeOK ==
    /\ tree \in Tree
    /\ edits \in 0..MaxEdits
    /\ refs \in [Sid -> Tree \cup {NoTree}]
    /\ stopping \in BOOLEAN
    /\ crashes \in 0..MaxCrashes
    /\ started \in 0..NSid
    /\ store \in SUBSET (1..started)
    /\ sess \in [Sid -> Session]
    /\ loop \in [Sid -> Loop]
    /\ calls \in [Call -> Served]
    /\ spent \in 0..MaxCalls
    /\ hist \in [Sid -> History]

-----------------------------------------------------------------------------
(* Reading a session. *)

\* SessionState.Finished
Finished(s) == sess[s].state \in {"done", "failed", "cancelled"}
Active(s) == sess[s].state \in {"running", "paused"}

\* The files that differ between two trees (git diff --name-only).
ChangedBetween(a, b) == {p \in Path : a[p] # b[p]}

\* Mutant: every round counts.
NextNumberOfAll(s) == Len(sess[s].rounds) + 1

\* nextNumberLocked: a superseded round is retried, not counted.
NextNumber(s) ==
    1 + Cardinality({i \in DOMAIN sess[s].rounds : sess[s].rounds[i].state # "superseded"})

Last(s) == sess[s].rounds[Len(sess[s].rounds)]

\* The rounds of s with the last one's state and fix replaced.
EndRound(s, state, fix) ==
    [sess[s].rounds EXCEPT ![Len(sess[s].rounds)] =
        [number |-> Last(s).number, state |-> state, fix |-> fix]]

\* The tree once the current round's patch has reached the files in Q.
Patched(s, Q) ==
    [p \in Path |-> IF p \in Q
        THEN [user |-> tree[p].user, fix |-> tree[p].fix \cup {<<s, Last(s).number>>}]
        ELSE tree[p]]

\* The tree with the files in Q as the restore point has them.
PutBack(s, Q) == [p \in Path |-> IF p \in Q THEN refs[s][p] ELSE tree[p]]

\* What recordFix lists in the restore point: the files of every round so far.
\* Mutant: those of the last round only.
LastRoundTouched(s) == loop[s].patch
Recorded(s) == loop[s].touched

\* add: a session of the project has not ended, running or paused and waiting.
\* Mutant: a paused one does not count.
BusyRunning == \E s \in store : sess[s].state = "running"
Busy == \E s \in store : Active(s)

\* Mutant: off by one.
EvictedTooFew(S) ==
    LET finished == {s \in S : Finished(s)}
        Older(s) == {t \in finished : t < s}
    IN  {s \in finished : Cardinality(Older(s)) < Cardinality(S) - MaxStored - 1}

\* evictLocked: the oldest finished sessions go until S is within the cap.
Evicted(S) ==
    LET finished == {s \in S : Finished(s)}
        Older(s) == {t \in finished : t < s}
    IN  {s \in finished : Cardinality(Older(s)) < Cardinality(S) - MaxStored}

-----------------------------------------------------------------------------
EmptyTree == [p \in Path |-> [user |-> {}, fix |-> {}]]

NewSession ==
    [state |-> "none", rounds |-> << >>, restore |-> "none", paths |-> {},
     left |-> NoTree, cancelled |-> FALSE, ctxDone |-> FALSE, resume |-> 0]

NewLoop ==
    [pc |-> "idle", expected |-> NoTree, patch |-> {}, touched |-> {}, done |-> 0,
     err |-> FALSE]

NewHistory ==
    [wrote |-> {}, torn |-> FALSE, leftAt |-> 0, adopted |-> [p \in Path |-> {}],
     asked |-> FALSE, asks |-> 0, wakes |-> 0]

Init ==
    /\ tree = EmptyTree
    /\ edits = 0
    /\ refs = [s \in Sid |-> NoTree]
    /\ stopping = FALSE
    /\ crashes = 0
    /\ started = 0
    /\ store = {}
    /\ sess = [s \in Sid |-> NewSession]
    /\ loop = [s \in Sid |-> NewLoop]
    /\ calls = [c \in Call |-> Idle]
    /\ spent = 0
    /\ hist = [s \in Sid |-> NewHistory]

\* What only the user, the daemon's lifecycle, the store and the handlers change.
outside == <<edits, stopping, crashes, started, store, calls, spent>>

-----------------------------------------------------------------------------
(* The session's goroutine: executeSession, runLoop, runRound, applyFixes. *)

\* The loop returns an error; settleSession is next.
Fails(s) == [loop EXCEPT ![s].pc = "settle", ![s].err = TRUE]

\* The loop ends of its own accord (finishLoop).
Stops(s) == [loop EXCEPT ![s].pc = "settle"]

\* runLoop's first look at the tree.
FirstLook(s) ==
    /\ loop[s].pc = "start"
    /\ loop' = [loop EXCEPT ![s].pc = "top", ![s].expected = tree]
    /\ UNCHANGED <<outside, tree, refs, sess, hist>>

RoundsSpent(s) ==
    /\ loop[s].pc = "top"
    /\ loop[s].done = MaxRounds
    /\ loop' = Stops(s)
    /\ UNCHANGED <<outside, tree, refs, sess, hist>>

\* The tree is not as the loop left it: pause before starting a round.
PauseBetweenRounds(s) ==
    /\ loop[s].pc = "top"
    /\ loop[s].done < MaxRounds
    /\ tree # loop[s].expected
    /\ sess' = [sess EXCEPT ![s].state = "paused"]
    /\ loop' = [loop EXCEPT ![s].pc = "paused"]
    /\ hist' = [hist EXCEPT ![s].asked = FALSE]
    /\ UNCHANGED <<outside, tree, refs>>

BeginRound(s) ==
    /\ loop[s].pc = "top"
    /\ loop[s].done < MaxRounds
    /\ tree = loop[s].expected
    /\ sess' = [sess EXCEPT ![s].rounds =
                  Append(@, [number |-> NextNumber(s), state |-> "reviewing", fix |-> "none"])]
    /\ loop' = [loop EXCEPT ![s].pc = "review"]
    /\ UNCHANGED <<outside, tree, refs, hist>>

\* The pool could not be opened, the pass failed or was cancelled (the round
\* stays as it is and settleSession closes it), or every review failed.
ReviewsFail(s) ==
    /\ loop[s].pc = "review"
    /\ \E state \in {"reviewing", "failed"} :
         sess' = [sess EXCEPT ![s].rounds = EndRound(s, state, "none")]
    /\ loop' = Fails(s)
    /\ UNCHANGED <<outside, tree, refs, hist>>

NothingWorthChanging(s) ==
    /\ loop[s].pc = "review"
    /\ ~sess[s].ctxDone
    /\ sess' = [sess EXCEPT ![s].rounds = EndRound(s, "done", "none")]
    /\ loop' = Stops(s)
    /\ UNCHANGED <<outside, tree, refs, hist>>

StartFix(s) ==
    /\ loop[s].pc = "review"
    /\ ~sess[s].ctxDone
    /\ sess' = [sess EXCEPT ![s].rounds = EndRound(s, "fixing", "running")]
    /\ loop' = [loop EXCEPT ![s].pc = "fix"]
    /\ UNCHANGED <<outside, tree, refs, hist>>

\* fixOnSandbox failed, or the patch names a path a fix may not touch.
FixFails(s) ==
    /\ loop[s].pc = "fix"
    /\ sess' = [sess EXCEPT ![s].rounds = EndRound(s, "fixing", "failed")]
    /\ loop' = Fails(s)
    /\ UNCHANGED <<outside, tree, refs, hist>>

FixIsEmpty(s) ==
    /\ loop[s].pc = "fix"
    /\ sess' = [sess EXCEPT ![s].rounds = EndRound(s, "done", "empty")]
    /\ loop' = Stops(s)
    /\ UNCHANGED <<outside, tree, refs, hist>>

FixMade(s) ==
    /\ loop[s].pc = "fix"
    /\ \E Q \in SUBSET Path \ {{}} :
         loop' = [loop EXCEPT ![s].pc = "verify", ![s].patch = Q]
    /\ UNCHANGED <<outside, tree, refs, sess, hist>>

\* The look before the write found an edit: the round is superseded, and the
\* session waits for the user.
Supersede(s) ==
    /\ loop[s].pc = "verify"
    /\ tree # loop[s].expected
    /\ sess' = [sess EXCEPT ![s].rounds = EndRound(s, "superseded", "failed"),
                            ![s].state = "paused"]
    /\ loop' = [loop EXCEPT ![s].pc = "paused"]
    /\ hist' = [hist EXCEPT ![s].asked = FALSE]
    /\ UNCHANGED <<outside, tree, refs>>

VerifyTree(s) ==
    /\ loop[s].pc = "verify"
    /\ tree = loop[s].expected
    /\ sess' = [sess EXCEPT ![s].rounds = EndRound(s, "applying", "running")]
    /\ loop' = [loop EXCEPT ![s].pc = "save"]
    /\ UNCHANGED <<outside, tree, refs, hist>>

\* Mutant: a restore point for every round.
SaveRestorePointEachRound(s) ==
    /\ loop[s].pc = "save"
    /\ refs' = [refs EXCEPT ![s] = loop[s].expected]
    /\ sess' = [sess EXCEPT ![s].restore = "saved"]
    /\ loop' = [loop EXCEPT ![s].pc = "apply"]
    /\ UNCHANGED <<outside, tree, hist>>

\* saveRestorePoint and setRestore, before the session's first write only.
SaveRestorePoint(s) ==
    /\ loop[s].pc = "save"
    /\ IF sess[s].restore = "none"
         THEN /\ refs' = [refs EXCEPT ![s] = loop[s].expected]
              /\ sess' = [sess EXCEPT ![s].restore = "saved"]
         ELSE UNCHANGED <<refs, sess>>
    /\ loop' = [loop EXCEPT ![s].pc = "apply"]
    /\ UNCHANGED <<outside, tree, hist>>

\* savePatch, saveRestorePoint or applyPatchToTree failed with nothing written:
\* a patch that does not fit, a denied path, a context already done.
ApplyRefused(s) ==
    /\ loop[s].pc \in {"save", "apply"}
    /\ sess' = [sess EXCEPT ![s].rounds = EndRound(s, "applying", "failed")]
    /\ loop' = Fails(s)
    /\ UNCHANGED <<outside, tree, refs, hist>>

\* git apply wrote the patch.
ApplyPatch(s) ==
    /\ loop[s].pc = "apply"
    /\ tree' = Patched(s, loop[s].patch)
    /\ loop' = [loop EXCEPT ![s].pc = "record",
                            ![s].touched = @ \cup loop[s].patch]
    /\ hist' = [hist EXCEPT ![s].wrote = @ \cup loop[s].patch]
    /\ UNCHANGED <<outside, refs, sess>>

\* The context ended while git apply was writing: the process was killed, and
\* the files it had got to stay changed.
ApplyCut(s) ==
    /\ loop[s].pc = "apply"
    /\ sess[s].ctxDone
    /\ \E Q \in SUBSET loop[s].patch \ {{}} :
         /\ tree' = Patched(s, Q)
         /\ hist' = [hist EXCEPT ![s].wrote = @ \cup Q, ![s].torn = TRUE]
    /\ sess' = [sess EXCEPT ![s].rounds = EndRound(s, "applying", "failed")]
    /\ loop' = Fails(s)
    /\ UNCHANGED <<outside, refs>>

\* The look after the write, recordFix, endRound.
RecordFix(s) ==
    /\ loop[s].pc = "record"
    /\ sess' = [sess EXCEPT ![s].rounds = EndRound(s, "done", "applied"),
                            ![s].left = tree,
                            ![s].paths = Recorded(s)]
    /\ loop' = [loop EXCEPT ![s].pc = "top", ![s].expected = tree, ![s].done = @ + 1]
    /\ hist' = [hist EXCEPT ![s].leftAt = edits]
    /\ UNCHANGED <<outside, tree, refs>>

\* The look after the write failed.
RecordFails(s) ==
    /\ loop[s].pc = "record"
    /\ sess' = [sess EXCEPT ![s].rounds = EndRound(s, "applying", "failed")]
    /\ loop' = Fails(s)
    /\ hist' = [hist EXCEPT ![s].torn = TRUE]
    /\ UNCHANGED <<outside, tree, refs>>

\* Any other look at the tree failed (git could not snapshot it).
LookFails(s) ==
    /\ loop[s].pc \in {"start", "top", "verify", "adopt"}
    /\ loop' = Fails(s)
    /\ UNCHANGED <<outside, tree, refs, sess, hist>>

\* Mutant: the resume stays in the channel.
WokenAgain(s) ==
    /\ loop[s].pc = "paused"
    /\ sess[s].resume = 1
    /\ loop' = [loop EXCEPT ![s].pc = "adopt"]
    /\ UNCHANGED <<outside, tree, refs, sess, hist>>

\* pauseSession receives from the resume channel.
Woken(s) ==
    /\ loop[s].pc = "paused"
    /\ sess[s].resume = 1
    /\ sess' = [sess EXCEPT ![s].resume = 0]
    /\ loop' = [loop EXCEPT ![s].pc = "adopt"]
    /\ UNCHANGED <<outside, tree, refs, hist>>

\* Mutant: the context is looked at once a resume has come.
PauseCancelledLate(s) ==
    /\ loop[s].pc = "paused"
    /\ sess[s].ctxDone
    /\ sess[s].resume = 1
    /\ loop' = Fails(s)
    /\ UNCHANGED <<outside, tree, refs, sess, hist>>

PauseCancelled(s) ==
    /\ loop[s].pc = "paused"
    /\ sess[s].ctxDone
    /\ loop' = Fails(s)
    /\ UNCHANGED <<outside, tree, refs, sess, hist>>

\* Mutant: an edit made while deciding keeps the session waiting.
AdoptIfUnmoved(s) ==
    /\ loop[s].pc = "adopt"
    /\ loop' = [loop EXCEPT ![s].pc = IF tree = loop[s].expected THEN "top" ELSE "paused"]
    /\ sess' = [sess EXCEPT ![s].state = IF tree = loop[s].expected THEN "running" ELSE @]
    /\ UNCHANGED <<outside, tree, refs, hist>>

\* The look after a resume becomes the new baseline, and the session runs again.
Adopt(s) ==
    /\ loop[s].pc = "adopt"
    /\ loop' = [loop EXCEPT ![s].pc = "top", ![s].expected = tree]
    /\ sess' = [sess EXCEPT ![s].state = "running"]
    /\ hist' = [hist EXCEPT
         ![s].wakes = @ + 1,
         ![s].adopted = [p \in Path |-> IF p \in loop[s].touched
             THEN @[p] \cup (tree[p].user \ loop[s].expected[p].user)
             ELSE @[p]]]
    /\ UNCHANGED <<outside, tree, refs>>

\* How the session ended: a cancellation goes before the error it caused.
\* Mutant: the error goes first.
VerdictByError(s) ==
    IF loop[s].err THEN "failed" ELSE IF sess[s].cancelled THEN "cancelled" ELSE "done"
Verdict(s) ==
    IF sess[s].cancelled THEN "cancelled" ELSE IF loop[s].err THEN "failed" ELSE "done"

\* What is still in flight did not finish.  Mutant: a round being applied is left.
ClosedButApplying(r) ==
    IF r.state \in {"reviewing", "fixing"} THEN [r EXCEPT !.state = "failed"] ELSE r
Closed(r) ==
    IF r.state \in {"done", "failed", "superseded"} THEN r ELSE [r EXCEPT !.state = "failed"]

\* settleSession, then entry.cancel().
Settle(s) ==
    /\ loop[s].pc = "settle"
    /\ sess' = [sess EXCEPT
         ![s].state = Verdict(s),
         ![s].rounds = [i \in DOMAIN @ |-> Closed(@[i])],
         ![s].ctxDone = TRUE]
    /\ loop' = [loop EXCEPT ![s].pc = "over"]
    /\ UNCHANGED <<outside, tree, refs, hist>>

LoopStep(s) ==
    \/ FirstLook(s) \/ RoundsSpent(s) \/ PauseBetweenRounds(s) \/ BeginRound(s)
    \/ ReviewsFail(s) \/ NothingWorthChanging(s) \/ StartFix(s)
    \/ FixFails(s) \/ FixIsEmpty(s) \/ FixMade(s)
    \/ Supersede(s) \/ VerifyTree(s)
    \/ SaveRestorePoint(s) \/ ApplyRefused(s) \/ ApplyPatch(s) \/ ApplyCut(s)
    \/ RecordFix(s) \/ RecordFails(s) \/ LookFails(s)
    \/ Woken(s) \/ PauseCancelled(s) \/ Adopt(s)
    \/ Settle(s)

-----------------------------------------------------------------------------
(* The HTTP handlers. *)

\* Handler c takes up a call on a session the store still has.
Takes(c, s, op, force) ==
    /\ calls[c] = Idle
    /\ spent < MaxCalls
    /\ s \in store
    /\ calls' = [calls EXCEPT ![c] = [op |-> op, sid |-> s, force |-> force]]
    /\ spent' = spent + 1

Answers(c) == calls' = [calls EXCEPT ![c] = Idle]

\* sessionStore.add, under the store's lock, and executeSession's goroutine.  A
\* session started during shutdown inherits a context that is already done.
StartSession ==
    /\ started < NSid
    /\ ~Busy
    /\ started' = started + 1
    /\ store' = LET S == store \cup {started + 1} IN S \ Evicted(S)
    /\ sess' = [sess EXCEPT ![started + 1] =
                  [NewSession EXCEPT !.state = "running", !.ctxDone = stopping]]
    /\ loop' = [loop EXCEPT ![started + 1].pc = "start"]
    /\ UNCHANGED <<tree, edits, refs, stopping, crashes, calls, spent, hist>>

\* resumeSession looks at the state under the lock, then sends without it.
ResumeAccepted(c, s) ==
    /\ Takes(c, s, "resume", FALSE)
    /\ sess[s].state = "paused"
    /\ hist' = [hist EXCEPT ![s].asked = TRUE, ![s].asks = @ + 1]
    /\ UNCHANGED <<tree, edits, refs, stopping, crashes, started, store, sess, loop>>

\* Mutant: resumes pile up.
SendResumeUnbounded(c) ==
    /\ calls[c].op = "resume"
    /\ sess' = [sess EXCEPT ![calls[c].sid].resume = @ + 1]
    /\ Answers(c)
    /\ UNCHANGED <<tree, edits, refs, stopping, crashes, started, store, loop, spent, hist>>

\* The channel holds one resume; a second one finds it full and is dropped.
SendResume(c) ==
    /\ calls[c].op = "resume"
    /\ sess' = [sess EXCEPT ![calls[c].sid].resume = 1]
    /\ Answers(c)
    /\ UNCHANGED <<tree, edits, refs, stopping, crashes, started, store, loop, spent, hist>>

\* cancelSession marks the session under its lock, then ends its context.
CancelAccepted(c, s) ==
    /\ Takes(c, s, "cancel", FALSE)
    /\ ~Finished(s)
    /\ sess' = [sess EXCEPT ![s].cancelled = TRUE]
    /\ UNCHANGED <<tree, edits, refs, stopping, crashes, started, store, loop, hist>>

EndContext(c) ==
    /\ calls[c].op = "cancel"
    /\ sess' = [sess EXCEPT ![calls[c].sid].ctxDone = TRUE]
    /\ Answers(c)
    /\ UNCHANGED <<tree, edits, refs, stopping, crashes, started, store, loop, spent, hist>>

\* restoreFiles reads the session under its lock and checks it may be restored.
\* A forced restore does not look at the tree first.
RestoreAccepted(c, s) ==
    /\ \E force \in BOOLEAN :
         Takes(c, s, IF force THEN "restoring" ELSE "restore", force)
    /\ Finished(s)
    /\ sess[s].restore = "saved"
    /\ UNCHANGED <<tree, edits, refs, stopping, crashes, started, store, sess, loop, hist>>

\* The files the session changed are as it left them.
\* Mutant: only those of its last round are compared.
UneditedLastRound(s) == ChangedBetween(sess[s].left, tree) \cap loop[s].patch = {}
Unedited(s) == ChangedBetween(sess[s].left, tree) \cap sess[s].paths = {}

\* restoreSession without force: go on only if no file the session changed
\* differs from how the session left it.
CheckUnedited(c) ==
    LET s == calls[c].sid IN
    /\ calls[c].op = "restore"
    /\ sess[s].left # NoTree
    /\ Unedited(s)
    /\ calls' = [calls EXCEPT ![c].op = "restoring"]
    /\ UNCHANGED <<tree, edits, refs, stopping, crashes, started, store, sess, loop, spent, hist>>

\* Edited since, or (no fix was recorded) there is no tree to compare with.
RestoreRefused(c) ==
    LET s == calls[c].sid IN
    /\ calls[c].op = "restore"
    /\ sess[s].left # NoTree => ~Unedited(s)
    /\ Answers(c)
    /\ UNCHANGED <<tree, edits, refs, stopping, crashes, started, store, sess, loop, spent, hist>>

PutFilesBack(c) ==
    LET s == calls[c].sid IN
    /\ calls[c].op = "restoring"
    /\ tree' = PutBack(s, sess[s].paths)
    /\ sess' = [sess EXCEPT ![s].restore = "restored"]
    /\ Answers(c)
    /\ UNCHANGED <<edits, refs, stopping, crashes, started, store, loop, spent, hist>>

\* git restore or a removal failed, or the client went away: some files are
\* back, and the session still counts as not restored.
RestoreCut(c) ==
    LET s == calls[c].sid IN
    /\ calls[c].op = "restoring"
    /\ \E Q \in SUBSET sess[s].paths : tree' = PutBack(s, Q)
    /\ Answers(c)
    /\ UNCHANGED <<edits, refs, stopping, crashes, started, store, sess, loop, spent, hist>>

CallStep(c) ==
    \/ SendResume(c) \/ EndContext(c)
    \/ CheckUnedited(c) \/ RestoreRefused(c) \/ PutFilesBack(c) \/ RestoreCut(c)

-----------------------------------------------------------------------------
(* The user and the daemon's life. *)

\* The user adds something to a file, takes their own edits out of it, takes the
\* session's fixes out of it, or several of these at once.
UserEdit(p) ==
    /\ edits < MaxEdits
    /\ edits' = edits + 1
    /\ \E user \in {tree[p].user \cup {edits + 1}, {}}, fix \in {tree[p].fix, {}} :
         tree' = [tree EXCEPT ![p] = [user |-> user, fix |-> fix]]
    /\ UNCHANGED <<refs, stopping, crashes, started, store, sess, loop, calls, spent, hist>>

\* SIGTERM ends the daemon's context, the parent of every session's; stopAll
\* then waits for the sessions to settle.
Stop ==
    /\ ~stopping
    /\ stopping' = TRUE
    /\ sess' = [s \in Sid |-> IF Active(s) THEN [sess[s] EXCEPT !.ctxDone = TRUE] ELSE sess[s]]
    /\ UNCHANGED <<tree, edits, refs, crashes, started, store, loop, calls, spent, hist>>

\* The restore refs a new daemon finds: git keeps them.
\* Mutant: restore points are kept like sessions, in memory.
RefsForgotten == [s \in Sid |-> NoTree]
RefsOnDisk == refs

\* The daemon is killed and started again: sessions are in memory only.  A git
\* apply under way may have written some of its files, or may still write all.
Crash ==
    /\ crashes < MaxCrashes
    /\ crashes' = crashes + 1
    /\ \/ UNCHANGED <<tree, hist>>
       \/ \E s \in Sid : \E Q \in SUBSET loop[s].patch :
            /\ loop[s].pc = "apply"
            /\ tree' = Patched(s, Q)
            /\ hist' = [hist EXCEPT ![s].wrote = @ \cup Q, ![s].torn = TRUE]
    /\ stopping' = FALSE
    /\ store' = {}
    /\ sess' = [s \in Sid |-> IF s <= started THEN [NewSession EXCEPT !.state = "lost"] ELSE sess[s]]
    /\ loop' = [s \in Sid |-> IF s <= started THEN [NewLoop EXCEPT !.pc = "over"] ELSE loop[s]]
    /\ calls' = [c \in Call |-> Idle]
    /\ refs' = RefsOnDisk
    /\ UNCHANGED <<edits, started, spent>>

Next ==
    \/ StartSession
    \/ \E s \in Sid : LoopStep(s)
    \/ \E c \in Call, s \in Sid :
         ResumeAccepted(c, s) \/ CancelAccepted(c, s) \/ RestoreAccepted(c, s)
    \/ \E c \in Call : CallStep(c)
    \/ \E p \in Path : UserEdit(p)
    \/ Stop
    \/ Crash

Spec == Init /\ [][Next]_vars

\* The goroutine and the handlers run on: every sandbox call has a timeout, and
\* git commands end.  Nothing obliges the user to edit, resume or cancel.
Fairness ==
    /\ \A s \in Sid : WF_vars(LoopStep(s))
    /\ \A c \in Call : WF_vars(CallStep(c))

FairSpec == Spec /\ Fairness
-----------------------------------------------------------------------------
(* What the session promises. *)

\* One session at a time per project: two would fight over the same files
\* (sessionStore.add).  Evicted sessions count: the store only drops what ended.
OneActive == \A s, t \in Sid : Active(s) /\ Active(t) => s = t

\* evictLocked gives up when nothing can be dropped, yet a project never keeps
\* more than MaxSessionsPerProject sessions.
StoreCap == Cardinality(store) <= MaxStored

\* Nothing is changed before a restore point exists, the restore point holds the
\* files without any fix of the session however many rounds it ran, and it
\* outlives the daemon (applyFixes, saveRestorePoint).
RestorePointDurable ==
    \A s \in Sid : hist[s].wrote # {} =>
        /\ refs[s] # NoTree
        /\ \A p \in Path : \A f \in refs[s][p].fix : f[1] # s
        /\ sess[s].state # "lost" => sess[s].restore # "none"

\* Rounds that were not superseded are numbered 1, 2, ... and never more than
\* MaxRounds: an abandoned round does not count, its successor takes its number
\* (runLoop's done against nextNumberLocked).
RoundsCounted ==
    \A s \in Sid :
        LET rounds == sess[s].rounds
            counted == {i \in DOMAIN rounds : rounds[i].state # "superseded"}
        IN  /\ Cardinality(counted) <= MaxRounds
            /\ \A i \in counted :
                 rounds[i].number = Cardinality({j \in counted : j <= i})

\* Wherever the loop was when it ended, a session that is over shows no round as
\* still going, and a cancellation that was told the session was still going is what
\* the session ends as, even if the loop was about to end by itself: cancelSession's
\* check and settleSession's verdict are under one lock.  Nothing else ends as cancelled.
SettledHonestly ==
    \A s \in Sid : Finished(s) =>
        /\ \A i \in DOMAIN sess[s].rounds :
             sess[s].rounds[i].state \in {"done", "failed", "superseded"}
        /\ sess[s].cancelled <=> sess[s].state = "cancelled"

\* Unless a write was cut short, a session that is over lists every file it wrote
\* in any of its rounds, so a restore covers them all (recordFix).
FixesRecorded ==
    \A s \in Sid : Finished(s) /\ ~hist[s].torn => hist[s].wrote \subseteq sess[s].paths

\* A restore that was not forced goes ahead only if no file it would overwrite
\* holds a user edit newer than the session's last look at the tree.
RestoreOnlyUnedited ==
    [][\A c \in Call :
        calls[c].op = "restore" /\ calls'[c].op = "restoring" =>
            LET s == calls[c].sid IN
            \A p \in sess[s].paths : \A n \in tree[p].user : n <= hist[s].leftAt]_vars

\* A restore leaves no fix of the session, of any round, in the files the session
\* recorded.
RestoreUndoesFixes ==
    [][\A s \in Sid :
        sess[s].restore = "saved" /\ sess'[s].restore = "restored" =>
            \A p \in sess[s].paths : \A f \in tree'[p].fix : f[1] # s]_vars

\* A session told to stop ends, also one that is paused with nobody to resume it
\* (pauseSession selects on the context), so stopAll does not wait for ever.
CancelEnds == \A s \in Sid : (sess[s].cancelled \/ sess[s].ctxDone) ~> ~Active(s)

\* A resume accepted while the session is paused ends that pause, although it is
\* sent after the lock is released and the channel may be full by then.
ResumeWakes ==
    \A c \in Call, s \in Sid :
        (calls[c].op = "resume" /\ calls[c].sid = s) ~> sess[s].state # "paused"

-----------------------------------------------------------------------------
(* What the clients see of a session, and are promised of it. *)

\* What they see of its state: every end is one.
Seen == [s \in Sid |-> IF Finished(s) THEN "ended" ELSE sess[s].state]

\* Those whose context is done: what was to be resumed then no longer matters.
ToldToStop == [s \in Sid |-> Active(s) /\ sess[s].ctxDone]
Unanswered ==
    [s \in Sid |-> IF Active(s) /\ ~sess[s].ctxDone THEN hist[s].asks - hist[s].wakes ELSE 0]

P == INSTANCE ReviewSessions WITH
    Review <- Sid, Project <- [s \in Sid |-> 1],
    truth <- Seen, told <- ToldToStop, owed <- Unanswered

\* One session of the project is live at a time, one that has ended or was lost with
\* the daemon never runs again, and a paused one goes on or ends only for a resume that
\* was accepted and ends no other pause, or because it was told to stop.
Promise == P!SpecReviews

-----------------------------------------------------------------------------
(* What the comments say and the code does not do. *)

\* "pauseSession stops the session until the user decides": a pause ends only if
\* a resume was accepted during it.
PauseWaitsForUser ==
    [][\A s \in Sid :
        sess[s].state = "paused" /\ sess'[s].state = "running" => hist[s].asked]_vars

\* "restoreFiles undoes everything a session changed in the working tree".
RestoreUndoesEverything ==
    [][\A s \in Sid :
        sess[s].restore = "saved" /\ sess'[s].restore = "restored" =>
            \A p \in Path : \A f \in tree'[p].fix : f[1] # s]_vars
==============================================================================
