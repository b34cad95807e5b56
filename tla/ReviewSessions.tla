--------------------------- MODULE ReviewSessions ---------------------------
(***************************************************************************)
(* What the daemon promises of its review sessions to those who list them  *)
(* and act on them: one of a project is live at a time, one that has ended *)
(* stays so, and a pause ends because somebody asked.  Session is the loop *)
(* that keeps the promise (Session!Promise); SessionView is the           *)
(* dashboard that relies on it.                                            *)
(***************************************************************************)
EXTENDS Naturals

CONSTANTS
    Review,  \* sessions, in the order they are started
    Project  \* per session: the project it is of

VARIABLES
    truth,   \* per session: its state
    owed,    \* per session: resumes accepted that have not ended a pause
    told     \* per session: has it been told to stop?

reviewVars == <<truth, owed, told>>

State == {"none", "running", "paused", "ended", "lost"}
Live(state) == state \in {"running", "paused"}
LiveReviews == {r \in Review : Live(truth[r])}

InitReviews ==
    /\ truth = [r \in Review |-> "none"]
    /\ owed = [r \in Review |-> 0] /\ told = [r \in Review |-> FALSE]

\* The start of a session may meet a daemon that is shutting down.
Starts(r) ==
    /\ truth[r] = "none" /\ \A q \in Review : q < r => truth[q] # "none"
    /\ \A q \in LiveReviews : Project[q] # Project[r]
    /\ truth' = [truth EXCEPT ![r] = "running"]
    /\ \E stopping \in BOOLEAN : told' = [told EXCEPT ![r] = stopping]
    /\ UNCHANGED owed

Pauses(r) ==
    /\ truth[r] = "running"
    /\ truth' = [truth EXCEPT ![r] = "paused"] /\ UNCHANGED <<owed, told>>

Asks(r) ==
    /\ truth[r] = "paused" /\ ~told[r]
    /\ owed' = [owed EXCEPT ![r] = @ + 1] /\ UNCHANGED <<truth, told>>

\* One that is told to stop may still leave its pause on the way.
Resumes(r) ==
    /\ truth[r] = "paused" /\ (owed[r] > 0 \/ told[r])
    /\ truth' = [truth EXCEPT ![r] = "running"]
    /\ owed' = [owed EXCEPT ![r] = IF told[r] THEN 0 ELSE @ - 1] /\ UNCHANGED told

\* A cancellation, or a shutdown.  What was to be resumed then no longer matters.
Stops(R) ==
    /\ told' = [r \in Review |-> told[r] \/ r \in R]
    /\ owed' = [r \in Review |-> IF r \in R THEN 0 ELSE owed[r]] /\ UNCHANGED truth

\* A pause may also end the session: the look after a resume failed, or it is told to.
Ends(r) ==
    /\ Live(truth[r]) /\ (truth[r] = "paused" => owed[r] > 0 \/ told[r])
    /\ truth' = [truth EXCEPT ![r] = "ended"]
    /\ owed' = [owed EXCEPT ![r] = 0] /\ told' = [told EXCEPT ![r] = FALSE]

\* Sessions are in the daemon's memory only.
Dies ==
    /\ truth' = [r \in Review |-> IF truth[r] = "none" THEN "none" ELSE "lost"]
    /\ owed' = [r \in Review |-> 0] /\ told' = [r \in Review |-> FALSE]

NextReviews ==
    \/ \E r \in Review : Starts(r) \/ Pauses(r) \/ Asks(r) \/ Resumes(r) \/ Ends(r)
    \/ \E R \in SUBSET LiveReviews : Stops(R)
    \/ Dies

SpecReviews == InitReviews /\ [][NextReviews]_reviewVars
=============================================================================
