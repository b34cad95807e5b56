------------------------------ MODULE Credentials ------------------------------
(***************************************************************************)
(* Where credentials are kept (internal/config, internal/authprompt) and   *)
(* what `chunk auth login`, `set` and `remove` and the commands that need  *)
(* a client do to them (cmd/auth.go, cmd/authhelper.go).                   *)
(*                                                                         *)
(* A credential resolves from the environment, else the config file, else  *)
(* the keychain.  The config file also holds whose account the CircleCI    *)
(* token is, and every change of it reads the whole file and writes it     *)
(* back.                                                                   *)
(***************************************************************************)
EXTENDS Integers, FiniteSets

CONSTANTS
    Proc,      \* processes of chunk
    Tokens,    \* per provider: the credentials a user may have
    InEnv,     \* per provider: what the environment sets
    NoToken

Provider == {"circleci", "anthropic", "oauth", "github"}
FileBacked == Provider \ {"oauth"}

CredentialsAssumption ==
    /\ DOMAIN Tokens = Provider /\ \A p \in Provider : NoToken \notin Tokens[p]
    /\ DOMAIN InEnv = Provider /\ \A p \in Provider : InEnv[p] \in Tokens[p] \cup {NoToken}

VARIABLES
    config,  \* the config file: a token per provider, and the account
    ring,    \* the keychain
    proc     \* per process: the command it runs and how far it is

credentialVars == <<config, ring, proc>>

NoAccount == "none"

Idle == [at |-> "idle", p |-> "circleci", token |-> NoToken, insecure |-> FALSE,
         account |-> NoAccount, copy |-> [tokens |-> [p \in FileBacked |-> NoToken],
                                          account |-> NoAccount], told |-> "none"]

InitCredentials ==
    /\ config = [tokens |-> [p \in FileBacked |-> NoToken], account |-> NoAccount]
    /\ ring = [p \in Provider |-> NoToken]
    /\ proc = [q \in Proc |-> Idle]

In(q, at) == proc[q].at = at
Becomes(q, r) == proc' = [proc EXCEPT ![q] = r]
Stores == UNCHANGED <<config, ring>>

-----------------------------------------------------------------------------
(* Resolution. *)

InFile(p) == IF p \in FileBacked THEN config.tokens[p] ELSE NoToken

ResolveCircleCI(insecure) ==
    CASE InEnv["circleci"] # NoToken -> InEnv["circleci"]
      [] InEnv["circleci"] = NoToken /\ InFile("circleci") # NoToken -> InFile("circleci")
      [] OTHER -> IF insecure THEN NoToken ELSE ring["circleci"]

Resolve(p, insecure) ==
    CASE InEnv[p] # NoToken -> InEnv[p]
      [] InEnv[p] = NoToken /\ InFile(p) # NoToken -> InFile(p)
      [] OTHER -> IF insecure THEN NoToken ELSE ring[p]

-----------------------------------------------------------------------------
(* Commands that store a credential: what each asks before it takes one. *)

Takes(q, p, insecure, next) ==
    \E t \in Tokens[p] : Becomes(q, [Idle EXCEPT !.at = next, !.p = p, !.token = t,
                                                 !.insecure = insecure])

\* Only the config file's credential is asked about; without a terminal the answer is no.
SetCircleCI(q) ==
    /\ In(q, "idle") /\ Stores
    /\ \E insecure, replace \in BOOLEAN :
        /\ InFile("circleci") # NoToken => replace
        /\ Takes(q, "circleci", insecure, "validate")

SetAnthropic(q) ==
    /\ In(q, "idle") /\ Stores
    /\ \E insecure, replace \in BOOLEAN :
        /\ InFile("anthropic") # NoToken => replace
        /\ Takes(q, "anthropic", insecure, "validate")

SetGitHub(q) ==
    /\ In(q, "idle") /\ Stores
    /\ \E insecure, replace \in BOOLEAN :
        /\ InFile("github") # NoToken => replace
        /\ Takes(q, "github", insecure, "validate")

\* The subscription's token goes to the keychain or nowhere, and is not validated.
SetAnthropicOAuth(q) ==
    /\ In(q, "idle") /\ Stores
    /\ \E replace \in BOOLEAN :
        /\ ring["oauth"] # NoToken => replace
        /\ Takes(q, "oauth", FALSE, "save")

AuthLogin(q) ==
    /\ In(q, "idle") /\ Stores
    /\ \E insecure \in BOOLEAN : Takes(q, "circleci", insecure, "validate")

\* A command that needs a client asks for a credential when none resolves.
EnsureCircleCI(q) ==
    /\ In(q, "idle") /\ Stores
    /\ \E insecure \in BOOLEAN :
        ResolveCircleCI(insecure) = NoToken /\ Takes(q, "circleci", insecure, "validate")

EnsureAnthropic(q) ==
    /\ In(q, "idle") /\ Stores
    /\ \E insecure \in BOOLEAN :
        Resolve("anthropic", insecure) = NoToken /\ Takes(q, "anthropic", insecure, "validate")

EnsureGitHub(q) ==
    /\ In(q, "idle") /\ Stores
    /\ \E insecure \in BOOLEAN :
        Resolve("github", insecure) = NoToken /\ Takes(q, "github", insecure, "validate")

\* A client it has, and no account on record: the account is asked for and kept.
BackfillUserID(q) ==
    /\ In(q, "idle") /\ Stores /\ config.account = NoAccount
    /\ \E insecure \in BOOLEAN :
        LET token == ResolveCircleCI(insecure) IN
        /\ token # NoToken
        /\ Becomes(q, [Idle EXCEPT !.at = "identify", !.p = "circleci", !.token = token,
                                   !.account = token, !.told = "nothing"])

\* The provider takes it, refuses it, or is too busy to say whose it is, which counts
\* as taking it.
Validate(q) ==
    /\ In(q, "validate") /\ Stores
    /\ \/ Becomes(q, Idle)
       \/ \E account \in IF proc[q].p = "circleci" THEN {proc[q].token, NoAccount} ELSE {NoAccount} :
            Becomes(q, [proc[q] EXCEPT !.at = "save", !.account = account])

\* Into the keychain; or into the config file, as it is when it is read.
Save(q) ==
    LET after == IF proc[q].account = NoAccount THEN "told" ELSE "identify" IN
    /\ In(q, "save") /\ UNCHANGED config
    /\ \/ Becomes(q, Idle) /\ UNCHANGED ring
       \/ /\ ~proc[q].insecure /\ ring' = [ring EXCEPT ![proc[q].p] = proc[q].token]
          /\ Becomes(q, [proc[q] EXCEPT !.at = after, !.told = "saved"])
       \/ /\ proc[q].insecure /\ UNCHANGED ring
          /\ Becomes(q, [proc[q] EXCEPT !.at = "write", !.told = "saved",
                             !.copy = [config EXCEPT !.tokens[proc[q].p] = proc[q].token]])

\* SaveUserID; the copy goes with what else is in the file.
SaveUserID(q) ==
    /\ In(q, "identify") /\ Stores
    /\ Becomes(q, [proc[q] EXCEPT !.at = "write", !.copy = [config EXCEPT !.account = proc[q].account],
                                  !.account = NoAccount])

\* What is left to do once the file is written.
AfterWrite(q) ==
    CASE proc[q].told = "nothing" -> Idle
      [] proc[q].told = "removed" -> [proc[q] EXCEPT !.at = "forget"]
      [] proc[q].told = "forgot" -> [proc[q] EXCEPT !.at = "told", !.told = "removed"]
      [] OTHER -> [proc[q] EXCEPT !.at = IF proc[q].account = NoAccount THEN "told" ELSE "identify"]

WriteConfig(q) ==
    /\ In(q, "write") /\ config' = proc[q].copy
    /\ Becomes(q, AfterWrite(q)) /\ UNCHANGED ring

-----------------------------------------------------------------------------
(* Commands that remove one. *)

HasStored(p, insecure) ==
    IF insecure THEN InFile(p) # NoToken ELSE ring[p] # NoToken

\* Confirmed, or forced.
RemoveStored(q, p, insecure, next) ==
    /\ In(q, "idle") /\ HasStored(p, insecure)
    /\ LET r == [Idle EXCEPT !.p = p, !.insecure = insecure, !.told = "removed"] IN
       IF insecure
       THEN /\ Becomes(q, [r EXCEPT !.at = "write", !.copy = [config EXCEPT !.tokens[p] = NoToken]])
            /\ UNCHANGED ring
       ELSE ring' = [ring EXCEPT ![p] = NoToken] /\ Becomes(q, [r EXCEPT !.at = next])
    /\ UNCHANGED config

RemoveCircleCI(q) == \E insecure \in BOOLEAN : RemoveStored(q, "circleci", insecure, "forget")
RemoveAnthropic(q) == \E insecure \in BOOLEAN : RemoveStored(q, "anthropic", insecure, "told")
RemoveGitHub(q) == \E insecure \in BOOLEAN : RemoveStored(q, "github", insecure, "told")
RemoveAnthropicOAuth(q) == RemoveStored(q, "oauth", FALSE, "told")

\* Mutant: the account is forgotten with the config file's token.
ForgetsWithFile(q) == proc[q].insecure

\* The account is kept as long as any token resolves.
Forgets(q) == ResolveCircleCI(FALSE) = NoToken

ClearUserID(q) ==
    /\ In(q, "forget") /\ Stores
    /\ Becomes(q, IF proc[q].p = "circleci" /\ Forgets(q)
                  THEN [proc[q] EXCEPT !.at = "write", !.told = "forgot",
                                       !.copy = [config EXCEPT !.account = NoAccount]]
                  ELSE [proc[q] EXCEPT !.at = "told"])

\* The command has said what it did.
Leave(q) == In(q, "told") /\ Becomes(q, Idle) /\ Stores

NextCredentials ==
    \E q \in Proc :
      \/ SetCircleCI(q) \/ SetAnthropic(q) \/ SetGitHub(q) \/ SetAnthropicOAuth(q)
      \/ AuthLogin(q) \/ EnsureCircleCI(q) \/ EnsureAnthropic(q) \/ EnsureGitHub(q)
      \/ BackfillUserID(q) \/ Validate(q) \/ Save(q) \/ SaveUserID(q) \/ WriteConfig(q)
      \/ RemoveCircleCI(q) \/ RemoveAnthropic(q) \/ RemoveGitHub(q) \/ RemoveAnthropicOAuth(q)
      \/ ClearUserID(q) \/ Leave(q)

SpecCredentials == InitCredentials /\ [][NextCredentials]_credentialVars

-----------------------------------------------------------------------------
(* Type invariant. *)
CredentialsTypeOK ==
    /\ \A p \in FileBacked : config.tokens[p] \in Tokens[p] \cup {NoToken}
    /\ \A p \in Provider : ring[p] \in Tokens[p] \cup {NoToken}
    /\ config.account \in Tokens["circleci"] \cup {NoAccount}
    /\ \A q \in Proc : proc[q].at \in {"idle", "validate", "save", "write", "identify", "forget", "told"}

AtRest == \A q \in Proc : In(q, "idle")

\* Between commands an account is on record only while some token resolves,
\* wherever each was kept and in whatever order they were removed (ClearUserID:
\* "leaving it behind would keep attributing events to a user who has logged out").
LoggedOutIsAnonymous ==
    AtRest /\ config.account # NoAccount => ResolveCircleCI(FALSE) # NoToken

\* A credential that a command has just stored is the one that is used, unless the
\* environment sets another, of which the command warns (authSetCircleCI: "Do you
\* want to replace it?").
SavedIsUsed ==
    \A q \in Proc : In(q, "told") /\ proc[q].told = "saved" /\ InEnv[proc[q].p] = NoToken =>
        Resolve(proc[q].p, proc[q].insecure) = proc[q].token
==============================================================================
