------------------------------ MODULE BranchWatch ------------------------------
(***************************************************************************)
(* What the watch daemon says of a checkout's branch: whether it would     *)
(* merge into the target (watchd/conflicts.go) and its open pull request   *)
(* (watchd/prmonitor.go).  The user commits and switches branches while a  *)
(* check runs, and the target moves on the remote.                         *)
(*                                                                         *)
(* Commits are numbers; Clash says which two conflict.                     *)
(***************************************************************************)
EXTENDS Integers

CONSTANTS
    Branch,      \* branches of the checkout
    MaxCommits   \* bound: commits on a branch, and on the target

BranchAssumption == MaxCommits \in Nat

VARIABLES
    branch,    \* the branch that is checked out, Detached, or Target
    heads,     \* per branch: its commit, 0 before the first
    target,    \* the target, as last fetched; 0 before the first fetch
    upstream,  \* the target, on the remote
    check,     \* the conflict check that is under way
    report,    \* the report that is published
    due,       \* is a fetch of the target due?
    pr,        \* the pull request that is published: the branch it is of, or NoPR
    prFetch    \* per branch: "due", "inflight" or "recent"

checkVars == <<check, report, due>>
prVars == <<pr, prFetch>>
repoVars == <<branch, heads, target, upstream>>
branchVars == <<repoVars, checkVars, prVars>>

Detached == "detached"
Target == "target"
NoPR == "no PR"
NoCheck == [at |-> "idle", branch |-> Detached, stale |-> FALSE, head |-> 0, target |-> 0]
Unavailable(b) == [known |-> FALSE, branch |-> b, head |-> 0, target |-> 0,
                   conflicted |-> FALSE, stale |-> FALSE]

\* External: the merge of two commits.
Clash(head, onto) == (head + onto) % 2 = 0

InitBranch ==
    /\ branch \in Branch /\ heads = [b \in Branch |-> 0] /\ target = 0 /\ upstream = 1
    /\ check = NoCheck /\ report = Unavailable(Detached) /\ due = TRUE
    /\ pr = NoPR /\ prFetch = [b \in Branch |-> "due"]

-----------------------------------------------------------------------------
(* The user and the remote. *)

Checkout ==
    /\ branch' \in (Branch \cup {Detached, Target}) \ {branch}
    /\ UNCHANGED <<heads, target, upstream, checkVars, prVars>>

Commit ==
    /\ branch \in Branch /\ heads[branch] < MaxCommits
    /\ heads' = [heads EXCEPT ![branch] = @ + 1]
    /\ UNCHANGED <<branch, target, upstream, checkVars, prVars>>

Push ==
    /\ upstream < MaxCommits /\ upstream' = upstream + 1
    /\ UNCHANGED <<branch, heads, target, checkVars, prVars>>

IntervalOver ==
    /\ due' = TRUE /\ prFetch' = [b \in Branch |-> IF prFetch[b] = "recent" THEN "due" ELSE prFetch[b]]
    /\ UNCHANGED <<repoVars, check, report, pr>>

-----------------------------------------------------------------------------
(* The conflict check (evaluateConflict). *)

Publishes(r) == report' = r /\ check' = NoCheck

\* No branch, or the target itself: nothing to compare.
ReadBranch ==
    /\ check.at = "idle"
    /\ IF branch \in Branch
       THEN check' = [NoCheck EXCEPT !.at = "fetch", !.branch = branch] /\ UNCHANGED report
       ELSE Publishes(Unavailable(branch))
    /\ UNCHANGED <<due, repoVars, prVars>>

\* The target is fetched when that is due; a failure is remembered, and not retried
\* before the interval is over.
FetchTarget ==
    /\ check.at = "fetch" /\ due' = FALSE
    /\ \E fails \in BOOLEAN :
        /\ target' = IF due /\ ~fails THEN upstream ELSE target
        /\ check' = [check EXCEPT !.at = "target", !.stale = due /\ fails]
    /\ UNCHANGED <<branch, heads, upstream, report, prVars>>

ReadTarget ==
    /\ check.at = "target"
    /\ check' = [check EXCEPT !.at = "head", !.target = target]
    /\ UNCHANGED <<report, due, repoVars, prVars>>

HeadNow == IF branch \in Branch THEN heads[branch] ELSE IF branch = Target THEN target ELSE 1

\* Without a commit on either side there is no answer; git may also not answer in time.
ReadHead ==
    /\ check.at = "head"
    /\ \/ check.target # 0 /\ HeadNow # 0
          /\ check' = [check EXCEPT !.at = "merge", !.head = HeadNow] /\ UNCHANGED report
       \/ Publishes(Unavailable(check.branch))
    /\ UNCHANGED <<due, repoVars, prVars>>

\* Mutant: the head alone tells that nothing has changed.
SameHeadOnly == report.known /\ report.head = check.head

\* The last report is for the same two commits.
SamePair == report.known /\ report.head = check.head /\ report.target = check.target

Preview ==
    /\ check.at = "merge"
    /\ \/ Publishes([known |-> TRUE, branch |-> IF SamePair THEN report.branch ELSE check.branch,
                     head |-> check.head, target |-> check.target, stale |-> check.stale,
                     conflicted |-> IF SamePair THEN report.conflicted
                                    ELSE Clash(check.head, check.target)])
       \/ ~SamePair /\ Publishes(Unavailable(check.branch))
    /\ UNCHANGED <<due, repoVars, prVars>>

-----------------------------------------------------------------------------
(* The pull request (prMonitor): one fetch per branch, the state per project. *)

RefreshPR ==
    /\ branch \in Branch /\ prFetch[branch] = "due"
    /\ prFetch' = [prFetch EXCEPT ![branch] = "inflight"]
    /\ UNCHANGED <<pr, repoVars, checkVars>>

FetchedPR(b) ==
    /\ prFetch[b] = "inflight" /\ prFetch' = [prFetch EXCEPT ![b] = "recent"]
    /\ pr' \in {pr, NoPR, b}
    /\ UNCHANGED <<repoVars, checkVars>>

NextBranch ==
    \/ Checkout \/ Commit \/ Push \/ IntervalOver
    \/ ReadBranch \/ FetchTarget \/ ReadTarget \/ ReadHead \/ Preview
    \/ RefreshPR \/ \E b \in Branch : FetchedPR(b)

SpecBranch == InitBranch /\ [][NextBranch]_branchVars

-----------------------------------------------------------------------------
(* Properties. *)

BranchTypeOK ==
    /\ branch \in Branch \cup {Detached, Target} /\ pr \in Branch \cup {NoPR}
    /\ target \in 0..MaxCommits /\ upstream \in 1..MaxCommits
    /\ check.at \in {"idle", "fetch", "target", "head", "merge"}

\* A report that is published is true of the two commits it names, whatever was
\* committed, checked out or fetched while it was made or reused.
ReportTrue == report.known => report.conflicted = Clash(report.head, report.target)

\* conflicts.go:185: the commit a published report names is one of the branch it names.  It
\* is not: the branch and its head are read one after the other, and a report is reused.
ReportOfItsBranch == report.known => report.head \in 1..heads[report.branch]
==============================================================================
