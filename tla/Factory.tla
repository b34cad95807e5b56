------------------------------ MODULE Factory ------------------------------
(***************************************************************************)
(* A factory run: an implementer works on a sidecar, its tree is pulled    *)
(* into a worktree of the run's own and pushed to the reviewers, reviews   *)
(* and validation commands judge it, and what failed is fed back, until    *)
(* everything passes, nothing changes any more or the attempts run out.    *)
(* The daemon records the run round by round.                              *)
(*                                                                         *)
(* A tree is a number, 0 the baseline; a fingerprint is the tree itself.   *)
(* A member's check is the worst its prompts had; commands are one check.  *)
(***************************************************************************)
EXTENDS Naturals, FiniteSets

CONSTANTS Reviewers,
          Attempts,       \* rounds at most
          MaxTree,        \* bounds what the implementer writes
          Rewrites,       \* TRUE when a validation command may change files
          KeepSidecars

FactoryAssumption == Attempts \in Nat \ {0} /\ MaxTree \in Nat \ {0}

VARIABLES phase,
          impl,           \* the implementer's tree
          reviewerTree,   \* each reviewer's
          worktree,       \* [made, tree, commit] of the run's worktree
          round, feedback,
          change,         \* the tree of the outcome's change
          todo,           \* reviewers a step has not reached
          verdict, about, \* of each reviewer, and the tree it is about
          validation,     \* the commands' check, and the tree they ran on
          factoryOutcome, \* [result, rounds, failed] of the loop
          factoryRecord,  \* the state of each round the daemon shows
          members         \* "none", "running", "kept" or "destroyed"

factoryVars == <<phase, impl, reviewerTree, worktree, round, feedback, change, todo,
                 verdict, about, validation, factoryOutcome, factoryRecord, members>>
trees == <<impl, reviewerTree, worktree>>
checks == <<verdict, about, validation>>
loop == <<round, feedback, change, factoryOutcome, factoryRecord>>

Trees == 0..MaxTree
Nothing == MaxTree + 1
Verdicts == {"none", "passed", "failed", "errored"}
Phases == {"request", "worktree", "pool", "prepare", "implement", "collect", "pull", "kill", "push",
           "mark", "check", "judge", "lastpull", "commit", "close", "remove", "done"}

FactoryTypeOK ==
    /\ phase \in Phases /\ impl \in Trees
    /\ reviewerTree \in [Reviewers -> Trees]
    /\ worktree \in [made : BOOLEAN, tree : Trees, commit : Trees \cup {Nothing}]
    /\ round \in 0..Attempts /\ feedback \in BOOLEAN
    /\ change \in Trees \cup {Nothing}
    /\ todo \subseteq Reviewers
    /\ verdict \in [Reviewers -> Verdicts]
    /\ about \in [Reviewers -> Trees \cup {Nothing}]
    /\ validation \in [check : Verdicts, tree : Trees \cup {Nothing}]
    /\ factoryOutcome \in [result : {"none", "passed", "exhausted", "stuck", "no_change"},
                           rounds : 0..Attempts, failed : BOOLEAN]
    /\ factoryRecord \in [1..Attempts -> {"none", "implementing", "checking", "done", "stopped"}]
    /\ members \in {"none", "running", "kept", "destroyed"}

Unchecked == [r \in Reviewers |-> "none"]
Unseen == [r \in Reviewers |-> Nothing]
NotRun == [check |-> "none", tree |-> Nothing]

InitFactory ==
    /\ phase = "request" /\ impl = 0 /\ reviewerTree = [r \in Reviewers |-> 0]
    /\ worktree = [made |-> FALSE, tree |-> 0, commit |-> Nothing]
    /\ round = 0 /\ feedback = TRUE /\ change = Nothing /\ todo = {}
    /\ verdict = Unchecked /\ about = Unseen /\ validation = NotRun
    /\ factoryOutcome = [result |-> "none", rounds |-> 0, failed |-> FALSE]
    /\ factoryRecord = [n \in 1..Attempts |-> "none"]
    /\ members = "none"

Started == phase \notin {"request", "worktree", "pool", "prepare", "remove"}

\* Mutant: a round that was not checked stays as it was.
NotedNot(rec) == rec

\* The recorder leaves no round running when the run ends well.
Noted(rec) == [n \in 1..Attempts |-> IF rec[n] = "implementing" THEN "done" ELSE rec[n]]

Ends(result) ==
    /\ phase' = "lastpull"
    /\ factoryOutcome' = [factoryOutcome EXCEPT !.result = result]
    /\ factoryRecord' = Noted(factoryRecord)

\* A step that could not run: the error goes with the outcome so far.
Fails ==
    /\ phase' = IF Started THEN "lastpull" ELSE "close"
    /\ factoryOutcome' = [factoryOutcome EXCEPT !.failed = TRUE]
    /\ factoryRecord' = [n \in 1..Attempts |->
          IF factoryRecord[n] \in {"implementing", "checking"} THEN "stopped" ELSE factoryRecord[n]]
    /\ UNCHANGED <<trees, checks, round, feedback, change, todo, members>>

-----------------------------------------------------------------------------
(* Setting up.                                                             *)

\* The daemon refuses what it has no credential, project or checks for, or
\* while another session has the project.
StartFactory ==
    /\ phase = "request"
    /\ \/ phase' = "worktree" /\ UNCHANGED factoryOutcome
       \/ phase' = "done" /\ factoryOutcome' = [factoryOutcome EXCEPT !.failed = TRUE]
    /\ UNCHANGED <<trees, checks, round, feedback, change, todo, factoryRecord, members>>

CreateWorktree ==
    /\ phase = "worktree"
    /\ \/ phase' = "pool" /\ worktree' = [worktree EXCEPT !.made = TRUE]
          /\ UNCHANGED factoryOutcome
       \/ phase' = "done" /\ factoryOutcome' = [factoryOutcome EXCEPT !.failed = TRUE]
          /\ UNCHANGED worktree
    /\ UNCHANGED <<impl, reviewerTree, checks, round, feedback, change, todo, factoryRecord,
                   members>>

NewPool ==
    /\ phase = "pool"
    /\ \/ phase' = "prepare" /\ members' = "running" /\ UNCHANGED factoryOutcome
       \/ phase' = "remove" /\ members' = "none"
          /\ factoryOutcome' = [factoryOutcome EXCEPT !.failed = TRUE]
       \/ phase' = "close" /\ members' = "running"    \* made, but never synced
          /\ factoryOutcome' = [factoryOutcome EXCEPT !.failed = TRUE]
    /\ UNCHANGED <<trees, checks, round, feedback, change, todo, factoryRecord>>

\* Every member commits the tree it was given as its baseline.
Prepare ==
    /\ phase = "prepare"
    /\ \/ /\ phase' = "implement" /\ round' = 1
          /\ factoryRecord' = [factoryRecord EXCEPT ![1] = "implementing"]
          /\ UNCHANGED <<trees, checks, feedback, change, todo, factoryOutcome, members>>
       \/ Fails

-----------------------------------------------------------------------------
(* A round.                                                                *)

Implement ==
    /\ phase = "implement"
    /\ \/ /\ impl' \in Trees
          /\ phase' = "collect"
          /\ UNCHANGED <<reviewerTree, worktree, checks, loop, todo, members>>
       \/ Fails
       \/ /\ impl' \in Trees \ {impl}     \* it failed half-way
          /\ phase' = "lastpull"
          /\ factoryOutcome' = [factoryOutcome EXCEPT !.failed = TRUE]
          /\ factoryRecord' = [factoryRecord EXCEPT ![round] = "stopped"]
          /\ UNCHANGED <<reviewerTree, worktree, checks, round, feedback, change, todo, members>>

Stuck(tree) == round > 1 /\ tree = change

Collect ==
    /\ phase = "collect"
    /\ \/ impl = 0 /\ Ends("no_change") /\ change' = 0
       \/ impl # 0 /\ Stuck(impl) /\ Ends("stuck") /\ UNCHANGED change
       \/ /\ impl # 0 /\ ~Stuck(impl)
          /\ phase' = "pull" /\ change' = impl
          /\ factoryRecord' = [factoryRecord EXCEPT ![round] = "checking"]
          /\ UNCHANGED factoryOutcome
    /\ UNCHANGED <<trees, checks, round, feedback, todo, members>>

CollectFails == phase = "collect" /\ Fails

\* Mutant: the last round's tree is what the reviewers get.
PulledOld == worktree

Pulled == [worktree EXCEPT !.tree = impl]

Pull ==
    /\ phase = "pull"
    /\ worktree' = Pulled
    /\ phase' = IF Reviewers = {} THEN "check" ELSE "kill"
    /\ verdict' = Unchecked /\ about' = Unseen /\ validation' = NotRun
    /\ UNCHANGED <<impl, reviewerTree, loop, todo, members>>

PullFails == phase = "pull" /\ Fails

\* Reviews that outlived their timeout are killed, as well as that goes.
KillStrays ==
    /\ phase = "kill"
    /\ phase' = "push" /\ todo' = Reviewers
    /\ UNCHANGED <<trees, checks, loop, members>>

Push(r) ==
    /\ phase = "push" /\ r \in todo
    /\ reviewerTree' = [reviewerTree EXCEPT ![r] = worktree.tree]
    /\ todo' = todo \ {r}
    /\ phase' = IF todo = {r} THEN "mark" ELSE phase
    /\ UNCHANGED <<impl, worktree, checks, loop, members>>

PushFails == phase = "push" /\ Fails

MarkNew ==
    /\ phase = "mark"
    /\ \/ /\ phase' = "check" /\ todo' = Reviewers
          /\ UNCHANGED <<trees, checks, loop, members>>
       \/ Fails

FromReview(r) == {"passed", "failed", "errored"}

Review(r) ==
    /\ phase = "check" /\ r \in todo
    /\ todo' = todo \ {r}
    /\ verdict' \in {[verdict EXCEPT ![r] = v] : v \in FromReview(r)}
    /\ about' = [about EXCEPT ![r] = reviewerTree[r]]
    /\ UNCHANGED <<phase, trees, validation, loop, members>>

\* On the implementer, while the reviews run.
RunValidation ==
    /\ phase = "check" /\ validation.check = "none"
    /\ validation' \in [check : {"passed", "failed", "errored"}, tree : {impl}]
    /\ impl' \in IF Rewrites THEN Trees ELSE {impl}
    /\ UNCHANGED <<phase, reviewerTree, worktree, verdict, about, loop, todo, members>>

Checked ==
    /\ phase = "check" /\ todo = {} /\ validation.check # "none"
    /\ phase' = "judge"
    /\ factoryOutcome' = [factoryOutcome EXCEPT !.rounds = round]
    /\ factoryRecord' = [factoryRecord EXCEPT ![round] = "done"]
    /\ UNCHANGED <<trees, checks, round, feedback, change, todo, members>>

ReviewsFail == phase = "check" /\ Reviewers # {} /\ validation.check # "none" /\ Fails

All == {verdict[r] : r \in Reviewers} \cup {validation.check}
Passed == All = {"passed"}
Feedback == "failed" \in All

\* Mutant: checking the same tree again is free.
NextRoundFree == IF Feedback THEN round + 1 ELSE round

NextRound == round + 1

\* Nothing to fix when checks only could not run: the same tree once more.
Judge ==
    /\ phase = "judge"
    /\ \/ Passed /\ Ends("passed") /\ UNCHANGED <<round, feedback>>
       \/ ~Passed /\ round = Attempts /\ Ends("exhausted") /\ UNCHANGED <<round, feedback>>
       \/ /\ ~Passed /\ round < Attempts
          /\ round' = NextRound /\ feedback' = Feedback
          /\ phase' = IF Feedback THEN "implement" ELSE "pull"
          /\ factoryRecord' = [factoryRecord EXCEPT ![NextRound] =
                                 IF Feedback THEN "implementing" ELSE "checking"]
          /\ UNCHANGED factoryOutcome
    /\ UNCHANGED <<trees, checks, change, todo, members>>

-----------------------------------------------------------------------------
(* The way out: what the implementer last wrote is pulled if it can be,    *)
(* what the worktree holds is committed, and the sidecars go.              *)

LastPull ==
    /\ phase = "lastpull"
    /\ worktree' \in {worktree, Pulled}
    /\ phase' = "commit"
    /\ UNCHANGED <<impl, reviewerTree, checks, loop, todo, members>>

Commit ==
    /\ phase = "commit"
    /\ \/ worktree' = [worktree EXCEPT !.commit = worktree.tree]
       \/ UNCHANGED worktree
    /\ phase' = "close"
    /\ UNCHANGED <<impl, reviewerTree, checks, loop, todo, members>>

ClosePool ==
    /\ phase = "close"
    /\ members' = IF KeepSidecars THEN "kept" ELSE "destroyed"
    /\ phase' = IF round = 0 THEN "remove" ELSE "done"
    /\ UNCHANGED <<trees, checks, loop, todo>>

RemoveWorktree ==
    /\ phase = "remove"
    /\ worktree' = [worktree EXCEPT !.made = FALSE]
    /\ phase' = "done"
    /\ UNCHANGED <<impl, reviewerTree, checks, loop, todo, members>>

NextFactory ==
    \/ StartFactory \/ CreateWorktree \/ NewPool \/ Prepare
    \/ Implement \/ Collect \/ CollectFails
    \/ Pull \/ PullFails \/ KillStrays \/ PushFails \/ MarkNew \/ RunValidation
    \/ Checked \/ ReviewsFail \/ Judge \/ LastPull \/ Commit \/ ClosePool \/ RemoveWorktree
    \/ \E r \in Reviewers : Push(r) \/ Review(r)

FairFactory == WF_factoryVars(NextFactory)
SpecFactory == InitFactory /\ [][NextFactory]_factoryVars /\ FairFactory

\* What the command exits with.
Succeeds == ~factoryOutcome.failed /\ factoryOutcome.result = "passed"

-----------------------------------------------------------------------------
(* What judges a round judges the change the round collected, and a run    *)
(* that passed, ran out or got stuck has checks that describe the change   *)
(* it reports: the trees go from sidecar to worktree to sidecars between.  *)
ChecksDescribeChange ==
    /\ phase \in {"check", "judge"} => \A r \in Reviewers : about[r] \in {Nothing, change}
    /\ factoryOutcome.result \in {"passed", "exhausted", "stuck"} =>
          validation.tree = change /\ \A r \in Reviewers : about[r] = change

(* A run that passed commits what passed, and no run commits less than the *)
(* last checks judged; the branch goes only before the implementer began.  *)
WorkKept ==
    phase = "done" =>
        /\ worktree.made <=> round > 0
        /\ Succeeds /\ worktree.commit # Nothing => worktree.commit = change
        /\ worktree.commit # Nothing /\ validation.tree # Nothing =>
              worktree.commit \in {validation.tree, impl}

(* A run that ended well leaves no round open in the daemon's record.      *)
RoundsClosed ==
    (phase = "done" /\ ~factoryOutcome.failed) =>
        \A n \in 1..Attempts : factoryRecord[n] = IF n <= round THEN "done" ELSE "none"

(* Whatever the reviewers say and whatever fails, a run comes to an end.    *)
RunEnds == <>(phase = "done")
=============================================================================
