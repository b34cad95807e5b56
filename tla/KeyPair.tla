------------------------------- MODULE KeyPair -------------------------------
(***************************************************************************)
(* The SSH key every process of the user shares: chunk processes find it   *)
(* missing at the same time, one generates it under a lock file, the       *)
(* others wait for it, and each then registers the public half with a      *)
(* sidecar.  A process may be killed holding the lock file.                *)
(*                                                                         *)
(* A waiting process gives up on a lock file when its deadline passes;     *)
(* Generation takes far less than the deadline, so only a dead process's   *)
(* file is waited for that long.                                           *)
(***************************************************************************)
EXTENDS Naturals

CONSTANTS Openers,       \* processes opening a session
          Mortal,        \* those that may be killed
          NoKey,
          Legacy,        \* a key an earlier version wrote
          MaxNotFound    \* 404s of a sidecar in a behaviour

KeyAssumption ==
    /\ Mortal \subseteq Openers /\ MaxNotFound \in Nat
    /\ {NoKey, Legacy} \cap Openers = {} /\ NoKey # Legacy

VARIABLES private, public,     \* the key in each file: a key is named for its maker
          format,              \* "none", "pkcs8" or "openssh", of the private file
          lockedBy,            \* who made the lock file, NoKey when there is none
          opener,              \* where each process is
          registered,          \* the public key each process gave its sidecar
          attempts, notFound

keyVars == <<private, public, format, lockedBy, opener, registered, attempts, notFound>>
files == <<private, public, format, lockedBy>>
session == <<registered, attempts, notFound>>

MaxAttempts == 4
Keys == Openers \cup {Legacy}

KeyTypeOK ==
    /\ private \in Keys \cup {NoKey} /\ public \in Keys \cup {NoKey}
    /\ format \in {"none", "pkcs8", "openssh"}
    /\ (format = "none") <=> (private = NoKey)
    /\ lockedBy \in Openers \cup {NoKey}
    /\ opener \in [Openers -> {"stat", "lock", "wait", "break", "recheck", "public", "private",
                               "release", "migrate", "register", "open", "failed", "killed"}]
    /\ registered \in [Openers -> Keys \cup {NoKey}]
    /\ attempts \in [Openers -> 0..MaxAttempts] /\ notFound \in 0..MaxNotFound

InitKey ==
    /\ \/ private = NoKey /\ public = NoKey /\ format = "none"
       \/ private = Legacy /\ public = Legacy /\ format = "pkcs8"
    /\ lockedBy = NoKey
    /\ opener = [p \in Openers |-> "stat"]
    /\ registered = [p \in Openers |-> NoKey]
    /\ attempts = [p \in Openers |-> 0] /\ notFound = 0

Goes(p, from, to) == opener[p] = from /\ opener' = [opener EXCEPT ![p] = to]

-----------------------------------------------------------------------------
(* EnsureKeyPair.                                                          *)

Stat(p) ==
    /\ Goes(p, "stat", IF private = NoKey THEN "lock" ELSE "migrate")
    /\ UNCHANGED <<files, session>>

\* The same key in a format every ssh loads.
Migrate(p) ==
    /\ Goes(p, "migrate", "register")
    /\ format' = "openssh"
    /\ UNCHANGED <<private, public, lockedBy, session>>

Lock(p) ==
    /\ lockedBy = NoKey
    /\ Goes(p, "lock", "recheck")
    /\ lockedBy' = p
    /\ UNCHANGED <<private, public, format, session>>

LockTaken(p) ==
    /\ lockedBy # NoKey
    /\ Goes(p, "lock", "wait")
    /\ UNCHANGED <<files, session>>

Published(p) ==
    /\ private # NoKey
    /\ Goes(p, "wait", "register")
    /\ UNCHANGED <<files, session>>

Poll(p) ==
    /\ private = NoKey /\ lockedBy = NoKey
    /\ Goes(p, "wait", "lock")
    /\ UNCHANGED <<files, session>>

\* Mutant: a lock file is somebody's for good.
AbandonedNever == FALSE

Abandoned == lockedBy # NoKey /\ opener[lockedBy] = "killed"

Deadline(p) ==
    /\ private = NoKey /\ Abandoned
    /\ Goes(p, "wait", "break")
    /\ UNCHANGED <<files, session>>

\* Whoever's lock file it is by now.
BreakLock(p) ==
    /\ Goes(p, "break", "lock")
    /\ lockedBy' = NoKey
    /\ UNCHANGED <<private, public, format, session>>

\* Mutant: whoever gets the lock generates.
AfterLockBlind(p) == "public"

AfterLock(p) == IF private = NoKey THEN "public" ELSE "release"

Recheck(p) ==
    /\ Goes(p, "recheck", AfterLock(p))
    /\ UNCHANGED <<files, session>>

\* Each half appears whole, the public one first.
WritePublic(p) ==
    /\ Goes(p, "public", "private")
    /\ public' = p
    /\ UNCHANGED <<private, format, lockedBy, session>>

WritePrivate(p) ==
    /\ Goes(p, "private", "release")
    /\ private' = p /\ format' = "openssh"
    /\ UNCHANGED <<public, lockedBy, session>>

Release(p) ==
    /\ Goes(p, "release", "register")
    /\ lockedBy' = NoKey
    /\ UNCHANGED <<private, public, format, session>>

-----------------------------------------------------------------------------
(* OpenSession: the public key is read and registered; a 404 of a sidecar  *)
(* that was just created is retried.                                       *)

Register(p) ==
    /\ Goes(p, "register", IF public = NoKey THEN "failed" ELSE "open")
    /\ registered' = [registered EXCEPT ![p] = public]
    /\ UNCHANGED <<files, attempts, notFound>>

NotFound(p) ==
    /\ opener[p] = "register" /\ notFound < MaxNotFound
    /\ notFound' = notFound + 1
    /\ attempts' = [attempts EXCEPT ![p] = @ + 1]
    /\ opener' = [opener EXCEPT ![p] = IF attempts[p] + 1 = MaxAttempts THEN "failed" ELSE @]
    /\ UNCHANGED <<files, registered>>

Refused(p) ==
    /\ Goes(p, "register", "failed")
    /\ UNCHANGED <<files, session>>

Kill(p) ==
    /\ p \in Mortal /\ opener[p] \notin {"open", "failed", "killed"}
    /\ opener' = [opener EXCEPT ![p] = "killed"]
    /\ UNCHANGED <<files, session>>

Step(p) ==
    \/ Stat(p) \/ Migrate(p) \/ Lock(p) \/ LockTaken(p) \/ Published(p) \/ Poll(p)
    \/ Deadline(p) \/ BreakLock(p) \/ Recheck(p) \/ WritePublic(p) \/ WritePrivate(p)
    \/ Release(p) \/ Register(p)

NextKey == \E p \in Openers : Step(p) \/ NotFound(p) \/ Refused(p) \/ Kill(p)

FairKey == \A p \in Openers : WF_keyVars(Step(p))
SpecKey == InitKey /\ [][NextKey]_keyVars /\ FairKey

-----------------------------------------------------------------------------
(* A visible private key has its own public half beside it, and what a     *)
(* process registered is the half of the key ssh will offer: the two       *)
(* writes of two generators are never interleaved (session.go:144).        *)
PairMatches ==
    /\ private # NoKey => public = private
    /\ \A p \in Openers : opener[p] = "open" => registered[p] = private

(* A process killed with the lock file in its name wedges no other one.    *)
Settled(p) == opener[p] \in {"open", "failed", "killed"}
OpensOrFails == \A p \in Openers : <>Settled(p)
=============================================================================
