------------------------------ MODULE HttpClient ------------------------------
(***************************************************************************)
(* The client every service is called with (internal/httpcl): requests     *)
(* that fail are retried, a 429 is waited out within a budget, and a 401   *)
(* makes the client read its stored credential again, for it may live as   *)
(* long as the watch daemon while `chunk auth login` runs elsewhere.       *)
(*                                                                         *)
(* A credential is good while the service takes it.  Time is in ticks.     *)
(***************************************************************************)
EXTENDS Integers, FiniteSets

CONSTANTS
    Call,        \* goroutines that call the service
    Asked,       \* per call: the timeout it asks for, 0: the client's
    ClientTimeout, \* Config.Timeout
    Budget,      \* RetryOn429Budget
    RetryMax,    \* retries of anything but a 429
    RetryAfter,  \* what a 429 may say
    Credential,  \* credentials that are ever stored
    MaxLogins    \* bound: logins elsewhere

NoCall == "none"

HttpAssumption ==
    /\ ClientTimeout \in Nat \ {0} /\ Budget \in Nat /\ RetryMax \in Nat /\ MaxLogins \in Nat
    /\ Asked \in [Call -> Nat] /\ RetryAfter \subseteq Nat
    /\ NoCall \notin Call /\ Credential # {}

VARIABLES
    authToken, \* the credential the client holds
    stored,    \* the one that is stored
    good,      \* the one the service takes
    reloadMu,  \* who holds reloadMu
    call,      \* per call: where it is, and what it remembers
    logins     \* logins so far

httpVars == <<authToken, stored, good, reloadMu, call, logins>>

\* token: what it last sent; second: it is on its retry after a 401; elapsed: since
\* it began; tries: nonRateLimitAttempts; read: what it read from the store;
\* settled: a good credential was stored, and nobody reading, all along.
InitHttp ==
    /\ authToken = (CHOOSE t \in Credential : TRUE) /\ stored = authToken /\ good = authToken
    /\ reloadMu = NoCall /\ logins = 0
    /\ call = [c \in Call |-> [at |-> "new", token |-> authToken, second |-> FALSE, elapsed |-> 0,
                               tries |-> 0, read |-> authToken, settled |-> FALSE,
                               result |-> "none"]]

CallAt(c, at) == call[c].at = at
Update(c, r) == call' = [call EXCEPT ![c] = r]
Ended(c, result) == [call[c] EXCEPT !.at = "done", !.result = result]
Client == UNCHANGED <<authToken, stored, good, reloadMu, logins>>

\* The deadline of the whole call.
Deadline(c) ==
    IF Budget > 0 THEN Budget + ClientTimeout
    ELSE IF Asked[c] > 0 THEN Asked[c] ELSE ClientTimeout

BeginCall(c) ==
    /\ CallAt(c, "new")
    /\ Update(c, [call[c] EXCEPT !.at = "sent", !.token = authToken,
                                 !.settled = stored = good /\ reloadMu = NoCall])
    /\ Client

Again(c) == [call[c] EXCEPT !.tries = @ + 1]

\* The service takes the request, fails at it, or cannot be reached; then it is sent again.
Answered(c) ==
    /\ CallAt(c, "sent")
    /\ \/ call[c].token = good /\ Update(c, Ended(c, "ok"))
       \/ call[c].tries < RetryMax /\ Update(c, Again(c))
       \/ call[c].tries >= RetryMax /\ Update(c, Ended(c, "failed"))
    /\ Client

\* CheckRetry on a 429.
RateLimited(c) ==
    /\ CallAt(c, "sent") /\ Budget > 0
    /\ \E after \in RetryAfter :
        IF call[c].elapsed + after > Budget THEN Update(c, Ended(c, "rate limited"))
        ELSE Update(c, [call[c] EXCEPT !.elapsed = @ + after])
    /\ Client

TimedOut(c) ==
    /\ CallAt(c, "sent") /\ call[c].elapsed >= Deadline(c)
    /\ Update(c, Ended(c, "deadline"))
    /\ Client

\* The service is still at work on it.
Waits(c) ==
    /\ CallAt(c, "sent") /\ call[c].elapsed < Deadline(c)
    /\ Update(c, [call[c] EXCEPT !.elapsed = @ + 1])
    /\ Client

\* A second 401 is final; both attempts share one count of retries.
Unauthorized(c) ==
    /\ CallAt(c, "sent") /\ call[c].token # good
    /\ Update(c, IF call[c].second THEN Ended(c, "unauthorized")
                 ELSE [call[c] EXCEPT !.at = "rejected",
                          !.tries = IF Budget > 0 /\ @ < RetryMax THEN @ + 1 ELSE @])
    /\ Client

-----------------------------------------------------------------------------
(* reload: one caller at a time reads, and none holds mu while it does. *)

MovedOn(c) == authToken # call[c].token

\* Mutant: it is sent again with what it was sent with.
ResendSame(c) == [call[c] EXCEPT !.at = "sent", !.second = TRUE]

Resend(c) == [call[c] EXCEPT !.at = "sent", !.second = TRUE, !.token = authToken]

Rejected(c) ==
    /\ CallAt(c, "rejected")
    /\ Update(c, IF MovedOn(c) THEN Resend(c) ELSE [call[c] EXCEPT !.at = "reload"])
    /\ Client

LockReload(c) ==
    /\ CallAt(c, "reload") /\ reloadMu = NoCall
    /\ IF MovedOn(c) THEN Update(c, Resend(c)) /\ UNCHANGED reloadMu
       ELSE Update(c, [call[c] EXCEPT !.at = "read"]) /\ reloadMu' = c
    /\ UNCHANGED <<authToken, stored, good, logins>>

\* The keychain answers, or does not.
ReadStore(c) ==
    /\ CallAt(c, "read")
    /\ \/ Update(c, [call[c] EXCEPT !.at = "swap", !.read = stored]) /\ UNCHANGED reloadMu
       \/ Update(c, [Ended(c, "unauthorized") EXCEPT !.settled = FALSE]) /\ reloadMu' = NoCall
    /\ UNCHANGED <<authToken, stored, good, logins>>

SwapToken(c) ==
    /\ CallAt(c, "swap") /\ reloadMu' = NoCall
    /\ IF call[c].read = call[c].token THEN Update(c, Ended(c, "unauthorized")) /\ UNCHANGED authToken
       ELSE authToken' = call[c].read /\ Update(c, [call[c] EXCEPT !.at = "resend"])
    /\ UNCHANGED <<stored, good, logins>>

SendSecond(c) == CallAt(c, "resend") /\ Update(c, Resend(c)) /\ Client

\* A credential is stored in another process; the service takes it, or has not yet.
Login ==
    /\ logins < MaxLogins /\ logins' = logins + 1
    /\ \E t \in Credential, taken \in BOOLEAN :
        /\ stored' = t /\ good' = IF taken THEN t ELSE good
        /\ call' = [c \in Call |-> [call[c] EXCEPT !.settled = FALSE]]
    /\ UNCHANGED <<authToken, reloadMu>>

NextHttp ==
    \/ \E c \in Call :
         \/ BeginCall(c) \/ Answered(c) \/ RateLimited(c) \/ TimedOut(c) \/ Waits(c)
         \/ Unauthorized(c) \/ Rejected(c) \/ LockReload(c) \/ ReadStore(c) \/ SwapToken(c)
         \/ SendSecond(c)
    \/ Login

SpecHttp == InitHttp /\ [][NextHttp]_httpVars

-----------------------------------------------------------------------------
(* Type invariant. *)
HttpTypeOK ==
    /\ {authToken, stored, good} \subseteq Credential /\ reloadMu \in Call \cup {NoCall}
    /\ logins \in 0..MaxLogins
    /\ \A c \in Call :
        /\ call[c].at \in {"new", "sent", "rejected", "reload", "read", "swap", "resend", "done"}
        /\ call[c].elapsed \in 0..Deadline(c) /\ call[c].tries \in 0..RetryMax

\* A call begun once a good credential is stored is not turned away for want of
\* one, whatever the other callers are doing with the client (reload: "without
\* this a `chunk auth login` in another terminal never reaches it").
LoginReaches == \A c \in Call : call[c].result = "unauthorized" => ~call[c].settled

\* No call is cut off before the time it asked for (CreateSidecar: "provisioning
\* can outlast the ordinary API deadline").
GetsItsTime ==
    \A c \in Call : call[c].result = "deadline" => call[c].elapsed >= Asked[c]
==============================================================================
