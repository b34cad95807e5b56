----------------------------- MODULE SessionView -----------------------------
(***************************************************************************)
(* The dashboard's view of the daemon's review sessions (ui/watch/         *)
(* session.go) and the timers of the dashboard (ui/watch/model.go).        *)
(*                                                                         *)
(* The list is the daemon's: every poll may reorder it under the cursor,   *)
(* which is an index.  A session is ended by pressing x twice.  The        *)
(* sessions are as ReviewSessions has them, which Session implements.      *)
(***************************************************************************)
EXTENDS ReviewSessions, Integers, Sequences, FiniteSets, SequencesExt

CONSTANT MaxRequests \* bound: requests to the daemon that are not answered yet

ViewAssumption == Review \subseteq Nat \ {0} /\ MaxRequests \in Nat

VARIABLES
    sessions,  \* m.sessions: [id, state] as last polled
    view,      \* m.sessionView
    requests,  \* the actions asked of the daemon: [act, id]
    pressed,   \* the last key press, and the session that was under the cursor
    poll,      \* the chain of loads and ticks
    spins,     \* spin messages that are scheduled
    spinning, hasSpinner, \* m.spinning, m.hasSpinner
    sidecarRuns \* does a sidecar run anything, as last polled?

timerVars == <<poll, spins, spinning, hasSpinner, sidecarRuns>>
viewVars == <<reviewVars, sessions, view, requests, pressed, timerVars>>

NoSession == 0
NoView == [open |-> FALSE, sel |-> 0, confirm |-> NoSession]
NoKey == [key |-> "none", id |-> NoSession]

InitView ==
    /\ InitReviews /\ sessions = <<>>
    /\ view = NoView /\ requests = {} /\ pressed = NoKey
    /\ poll = "load" /\ spins = 1 /\ spinning = TRUE /\ hasSpinner = FALSE
    /\ sidecarRuns = FALSE

-----------------------------------------------------------------------------
(* The daemon. *)

\* The sessions run, pause and end by themselves; the daemon is shut down, or dies.
Daemon ==
    /\ \/ \E r \in Review : Starts(r) \/ Pauses(r) \/ Resumes(r) \/ Ends(r)
       \/ Dies \/ Stops(LiveReviews)
    /\ UNCHANGED <<sessions, view, requests, pressed, timerVars>>

\* A request that comes too late is refused.
Served(q) ==
    /\ requests' = requests \ {q}
    /\ IF q.act = "cancel" /\ Live(truth[q.id]) THEN Stops({q.id})
       ELSE IF q.act = "resume" /\ truth[q.id] = "paused" /\ ~told[q.id] /\ owed[q.id] < MaxRequests
       THEN Asks(q.id)
       ELSE UNCHANGED reviewVars
    /\ UNCHANGED <<sessions, view, pressed, timerVars>>

-----------------------------------------------------------------------------
(* Polls and timers. *)

\* Live sessions first, the newest first among them and among the rest.
Collected ==
    LET known == {[id |-> r, state |-> truth[r]] : r \in {x \in Review : truth[x] \notin {"none", "lost"}}}
        order(a, b) == IF Live(a.state) # Live(b.state) THEN Live(a.state) ELSE a.id > b.id
    IN {list \in [1..Cardinality(known) -> known] :
            \A i, j \in DOMAIN list : i < j => order(list[i], list[j])}

Clamped(i) == IF i >= Len(sessions') THEN (IF sessions' = <<>> THEN 0 ELSE Len(sessions') - 1) ELSE i

\* Mutant: a poll that finds something running always starts a chain.
SpinsTwice == hasSpinner'

\* One chain at a time: a chain that has not noticed yet that nothing runs goes on.
StartsChain == hasSpinner' /\ ~spinning

Loaded ==
    /\ poll = "load" /\ poll' = "tick"
    /\ sessions' \in Collected
    /\ view' = IF view.open THEN [view EXCEPT !.sel = Clamped(@)] ELSE view
    /\ sidecarRuns' \in BOOLEAN
    /\ hasSpinner' = (sidecarRuns' \/ \E i \in DOMAIN sessions' : sessions'[i].state = "running")
    /\ spinning' = (spinning \/ StartsChain)
    /\ spins' = IF StartsChain THEN spins + 1 ELSE spins
    /\ UNCHANGED <<reviewVars, requests, pressed>>

\* The daemon is gone or does not answer: the last snapshot stays.
LoadFails ==
    /\ poll = "load" /\ poll' = "tick"
    /\ UNCHANGED <<reviewVars, sessions, view, requests, pressed, spins, spinning, hasSpinner, sidecarRuns>>

TickFires ==
    /\ poll = "tick" /\ poll' = "load"
    /\ UNCHANGED <<reviewVars, sessions, view, requests, pressed, spins, spinning, hasSpinner, sidecarRuns>>

Spin ==
    /\ spins > 0
    /\ spins' = IF hasSpinner THEN spins ELSE spins - 1
    /\ spinning' = (spinning /\ hasSpinner)
    /\ UNCHANGED <<reviewVars, sessions, view, requests, pressed, poll, hasSpinner, sidecarRuns>>

-----------------------------------------------------------------------------
(* Keys. *)

Selected == IF view.open /\ view.sel + 1 \in DOMAIN sessions
            THEN sessions[view.sel + 1] ELSE [id |-> NoSession, state |-> "none"]

OpenView ==
    /\ ~view.open
    /\ view' = [NoView EXCEPT !.open = TRUE]
    /\ pressed' = [NoKey EXCEPT !.key = "open"]
    /\ UNCHANGED <<reviewVars, sessions, requests, timerVars>>

CloseView ==
    /\ view.open /\ view' = NoView
    /\ pressed' = [key |-> "close", id |-> Selected.id]
    /\ UNCHANGED <<reviewVars, sessions, requests, timerVars>>

\* Any key but the second x withdraws the first.
Move(to) ==
    /\ view.open
    /\ view' = [view EXCEPT !.sel = IF to \in 0 .. Len(sessions) - 1 THEN to ELSE @,
                            !.confirm = NoSession]
    /\ pressed' = [key |-> "move", id |-> Selected.id]
    /\ UNCHANGED <<reviewVars, sessions, requests, timerVars>>

Request(act) == requests' = requests \union {[act |-> act, id |-> Selected.id]}

\* c: only a paused session is resumed.
Resume ==
    /\ view.open /\ Cardinality(requests) < MaxRequests
    /\ view' = [view EXCEPT !.confirm = NoSession]
    /\ pressed' = [key |-> "c", id |-> Selected.id]
    /\ IF Selected.state = "paused" THEN Request("resume") ELSE UNCHANGED requests
    /\ UNCHANGED <<reviewVars, sessions, timerVars>>

\* Mutant: the first press is remembered, and not of which session it was.
ConfirmedAtAll == view.confirm # NoSession

\* The first press was on this session.
Confirmed == view.confirm = Selected.id

CancelReview ==
    /\ view.open /\ Cardinality(requests) < MaxRequests
    /\ pressed' = [key |-> "x", id |-> Selected.id]
    /\ IF Live(Selected.state)
       THEN IF Confirmed
            THEN /\ Request("cancel") /\ view' = [view EXCEPT !.confirm = NoSession]
            ELSE /\ view' = [view EXCEPT !.confirm = Selected.id] /\ UNCHANGED requests
       ELSE /\ view' = [view EXCEPT !.confirm = NoSession] /\ UNCHANGED requests
    /\ UNCHANGED <<reviewVars, sessions, timerVars>>

NextView ==
    \/ Daemon
    \/ \E q \in requests : Served(q)
    \/ Loaded \/ LoadFails \/ TickFires \/ Spin
    \/ OpenView \/ CloseView \/ Move(view.sel + 1) \/ Move(view.sel - 1) \/ Resume \/ CancelReview

\* The timers fire and a request over the local socket is answered or times out.
FairView == WF_viewVars(Loaded \/ LoadFails) /\ WF_viewVars(TickFires) /\ WF_viewVars(Spin)

SpecView == InitView /\ [][NextView]_viewVars /\ FairView

-----------------------------------------------------------------------------
(* Properties. *)

ViewTypeOK ==
    /\ truth \in [Review -> State]
    /\ view.sel \in 0..Cardinality(Review) /\ view.confirm \in Review \union {NoSession}
    /\ (view.open /\ sessions # <<>>) => Selected.id # NoSession
    /\ requests \subseteq [act : {"resume", "cancel"}, id : Review]

\* "The explicit keys ... and the confirmed cancel": a cancel goes out only for the
\* session that was under the cursor at both presses, however polls moved the list.
CancelConfirmed ==
    [][\A q \in requests' \ requests :
        q.act = "cancel" => pressed = [key |-> "x", id |-> q.id] /\ pressed' = pressed]_viewVars

\* Polls that find something running after a quiet spell never start a second chain of
\* spin messages next to one that has not stopped, and never leave none.
OneSpinner ==
    /\ spins <= 1
    /\ hasSpinner => spins = 1
=============================================================================
