--------------------------- MODULE SidecarRecords ---------------------------
(***************************************************************************)
(* The files that say which sidecars a checkout uses: one per session and  *)
(* branch, in the project's data directory.  Commands and hooks of several *)
(* sessions write them, a write takes the sidecars it names away from the  *)
(* other files, and the reaper deletes what cold files name.               *)
(*                                                                         *)
(* A file's age is one bit, cold once nobody wrote it for StaleAfter; the  *)
(* order of a file's sidecars and their names are left out.                *)
(***************************************************************************)
EXTENDS Naturals, FiniteSets

CONSTANTS Actors,       \* commands and hooks
          Keys,         \* sessions and branches, a file name each
          Sidecars,
          Orgs,
          NoOrg,        \* what `chunk sidecar use' records
          MaxOps        \* operations in a behaviour

RecordsAssumption == NoOrg \notin Orgs /\ MaxOps \in Nat

VARIABLES cloud,        \* "unused", "live" or "gone", for every sidecar
          owner,        \* the organization of every sidecar
          file,         \* the state files
          at,           \* the session and branch each actor is in
          step,         \* what each actor is doing
          ops

recordVars == <<cloud, owner, file, at, step, ops>>

NoState == [ids |-> {}, org |-> NoOrg, cold |-> FALSE]
Names(k) == file[k].ids
NoStep == [op |-> "idle"]

RecordsTypeOK ==
    /\ cloud \in [Sidecars -> {"unused", "live", "gone"}]
    /\ owner \in [Sidecars -> Orgs]
    /\ file \in [Keys -> [ids : SUBSET Sidecars, org : Orgs \cup {NoOrg}, cold : BOOLEAN]]
    /\ \A k \in Keys : file[k].ids = {} => file[k] = NoState
    /\ at \in [Actors -> Keys]
    /\ \A a \in Actors : step[a].op \in {"idle", "write", "prune", "remove", "list", "reap"}
    /\ ops \in 0..MaxOps

InitRecords ==
    /\ cloud = [s \in Sidecars |-> "unused"]
    /\ owner \in [Sidecars -> Orgs]
    /\ file = [k \in Keys |-> NoState]
    /\ at \in [Actors -> Keys]
    /\ step = [a \in Actors |-> NoStep]
    /\ ops = 0

Begin(a, what) ==
    /\ step[a] = NoStep /\ ops < MaxOps
    /\ step' = [step EXCEPT ![a] = what]
    /\ ops' = ops + 1

Then(a, what) == step' = [step EXCEPT ![a] = what] /\ UNCHANGED ops

Saving(ids, org) == [op |-> "write", ids |-> ids, org |-> org]

-----------------------------------------------------------------------------
(* Saving: the file is written, then every other file that names one of    *)
(* its sidecars is removed.                                                *)

Write(a) ==
    /\ step[a].op = "write"
    /\ file' = [file EXCEPT ![at[a]] =
                  [ids |-> step[a].ids, org |-> step[a].org, cold |-> FALSE]]
    /\ Then(a, [op |-> "prune", key |-> at[a], ids |-> step[a].ids])
    /\ UNCHANGED <<cloud, owner, at>>

\* Mutant: the files of other sessions stay.
RekeyedNot(keep, ids) == {}

Rekeyed(keep, ids) == {k \in Keys \ {keep} : Names(k) \cap ids # {}}

Prune(a) ==
    /\ step[a].op = "prune"
    /\ LET old == Rekeyed(step[a].key, step[a].ids)
       IN  file' = [k \in Keys |-> IF k \in old THEN NoState ELSE file[k]]
    /\ Then(a, NoStep)
    /\ UNCHANGED <<cloud, owner, at>>

-----------------------------------------------------------------------------
(* The commands.                                                           *)

\* `create', `setup' and a validate that finds no active sidecar.
CreateSidecar(a, s) ==
    /\ cloud[s] = "unused"
    /\ cloud' = [cloud EXCEPT ![s] = "live"]
    /\ Begin(a, Saving({s}, owner[s]))
    /\ UNCHANGED <<owner, file, at>>

\* `use': any id the user knows of, with no organization beside it.
Use(a, s) ==
    /\ cloud[s] # "unused"
    /\ Begin(a, Saving({s}, NoOrg))
    /\ UNCHANGED <<cloud, owner, file, at>>

\* A run with the recorded sidecars saves what backs its pool: the same
\* ones, or a new one in place of a member it lost or beside them.
SaveActivePoolState(a) ==
    /\ Names(at[a]) # {}
    /\ \E out \in {{}} \cup {{s} : s \in Names(at[a])},
          new \in {{}} \cup {{s} : s \in {t \in Sidecars : cloud[t] = "unused"}} :
          /\ (Names(at[a]) \ out) \cup new # {}
          /\ \A s \in new : file[at[a]].org \in {NoOrg, owner[s]}
          /\ cloud' = [s \in Sidecars |-> IF s \in new THEN "live" ELSE cloud[s]]
          /\ Begin(a, Saving((Names(at[a]) \ out) \cup new, file[at[a]].org))
    /\ UNCHANGED <<owner, file, at>>

\* `delete' and `snapshot create': the API first, the file afterwards.
DeleteSidecar(a, s) ==
    /\ cloud[s] = "live"
    /\ cloud' = [cloud EXCEPT ![s] = "gone"]
    /\ Begin(a, [op |-> "remove", id |-> s])
    /\ UNCHANGED <<owner, file, at>>

RemoveActiveSidecar(a) ==
    /\ step[a].op = "remove"
    /\ LET left == Names(at[a]) \ {step[a].id}
       IN  \/ /\ step[a].id \notin Names(at[a])
              /\ Then(a, NoStep) /\ UNCHANGED file
           \/ /\ step[a].id \in Names(at[a]) /\ left = {}
              /\ file' = [file EXCEPT ![at[a]] = NoState]
              /\ Then(a, NoStep)
           \/ /\ step[a].id \in Names(at[a]) /\ left # {}
              /\ Then(a, Saving(left, file[at[a]].org)) /\ UNCHANGED file
    /\ UNCHANGED <<cloud, owner, at>>

ForgetSidecars(a) ==
    /\ step[a] = NoStep /\ file[at[a]] # NoState
    /\ file' = [file EXCEPT ![at[a]] = NoState]
    /\ UNCHANGED <<cloud, owner, at, step, ops>>

\* `auth' clearing the sidecars of an organization it left.
ClearActiveByOrg(o) ==
    /\ \E k \in Keys : file[k] # NoState /\ file[k].org = o
    /\ file' = [k \in Keys |-> IF file[k].org = o THEN NoState ELSE file[k]]
    /\ UNCHANGED <<cloud, owner, at, step, ops>>

\* A branch is checked out, also while a command is under way; one that prunes or reaps
\* has taken its file's name already, so there it comes to the same as a checkout after it.
CheckoutKey(a, k) ==
    /\ step[a].op \notin {"prune", "reap"} /\ k # at[a]
    /\ at' = [at EXCEPT ![a] = k]
    /\ UNCHANGED <<cloud, owner, file, step, ops>>

-----------------------------------------------------------------------------
(* Reaping: the files as they are, then the organization's live sidecars,  *)
(* then one file after another.                                            *)

LoadEntries(a, o) ==
    /\ \E k \in Keys : file[k] # NoState
    /\ Begin(a, [op |-> "list", org |-> o, seen |-> file])
    /\ UNCHANGED <<cloud, owner, file, at>>

\* Which file is the caller's own is looked up after the list has come.
ListSidecars(a) ==
    /\ step[a].op = "list"
    /\ Then(a, [op |-> "reap", org |-> step[a].org, seen |-> step[a].seen,
                current |-> at[a],
                live |-> {s \in Sidecars : cloud[s] = "live" /\ owner[s] = step[a].org},
                todo |-> {k \in Keys : step[a].seen[k] # NoState}])
    /\ UNCHANGED <<cloud, owner, file, at>>

OtherOrg(r, k) == r.seen[k].org \notin {NoOrg, r.org}
Spared(r, k) == ~r.seen[k].cold \/ k = r.current
Kept(r, k) == r.seen[k].ids \cap r.live # {} /\ Spared(r, k)
\* Mutant: the caller's own file is as old as any other.
CondemnedOwn(r, k) ==
    IF OtherOrg(r, k) \/ ~r.seen[k].cold THEN {} ELSE r.seen[k].ids \cap r.live

Condemned(r, k) == IF OtherOrg(r, k) \/ Spared(r, k) THEN {} ELSE r.seen[k].ids \cap r.live

\* The API may refuse a deletion; the file goes all the same.
ReapFile(a, k) ==
    /\ step[a].op = "reap" /\ k \in step[a].todo
    /\ \E refused \in SUBSET Condemned(step[a], k) :
          cloud' = [s \in Sidecars |->
                      IF s \in Condemned(step[a], k) \ refused THEN "gone" ELSE cloud[s]]
    /\ file' = IF OtherOrg(step[a], k) \/ Kept(step[a], k) THEN file
               ELSE [file EXCEPT ![k] = NoState]
    /\ LET rest == step[a].todo \ {k}
       IN  Then(a, IF rest = {} THEN NoStep ELSE [step[a] EXCEPT !.todo = rest])
    /\ UNCHANGED <<owner, at>>

-----------------------------------------------------------------------------
(* Around them.                                                            *)

Cool(k) ==
    /\ file[k] # NoState /\ ~file[k].cold
    /\ file' = [file EXCEPT ![k].cold = TRUE]
    /\ UNCHANGED <<cloud, owner, at, step, ops>>

Expire(s) ==
    /\ cloud[s] = "live"
    /\ cloud' = [cloud EXCEPT ![s] = "gone"]
    /\ UNCHANGED <<owner, file, at, step, ops>>

NextRecords ==
    \/ \E a \in Actors :
          \/ Write(a) \/ Prune(a) \/ RemoveActiveSidecar(a) \/ ListSidecars(a)
          \/ SaveActivePoolState(a) \/ ForgetSidecars(a)
          \/ \E s \in Sidecars : CreateSidecar(a, s) \/ Use(a, s) \/ DeleteSidecar(a, s)
          \/ \E k \in Keys : CheckoutKey(a, k) \/ ReapFile(a, k)
          \/ \E o \in Orgs : LoadEntries(a, o)
    \/ \E o \in Orgs : ClearActiveByOrg(o)
    \/ \E k \in Keys : Cool(k)
    \/ \E s \in Sidecars : Expire(s)

SpecRecords == InitRecords /\ [][NextRecords]_recordVars

-----------------------------------------------------------------------------
(* At rest no two files name the same sidecar, whatever saves overlapped:  *)
(* pruneRekeyedState (active.go:171).                                      *)
Saved == \A a \in Actors : step[a].op # "prune"

OneFilePerSidecar ==
    Saved => \A j, k \in Keys : j # k => Names(j) \cap Names(k) = {}

(* A reaper whose picture of the files is still true, and was taken with   *)
(* no save half-done, deletes no sidecar a file it must spare names: its   *)
(* caller's own, a warm one, or another organization's.                    *)
ReapSparesUsed ==
    [][\A a \in Actors, k \in Keys :
         (ReapFile(a, k) /\ Saved /\ file = step[a].seen)
           => \A s \in Sidecars, j \in Keys :
                (/\ s \in Names(j) /\ cloud[s] = "live"
                 /\ (~file[j].cold \/ j = step[a].current \/ OtherOrg(step[a], j)))
                => cloud'[s] = "live"]_recordVars

(* A reaper deletes no sidecar that a warm file names by then.  It does: a *)
(* file is judged by its time and names of before the list (reap.go:140).  *)
ReapSparesRewarmed ==
    [][\A a \in Actors, k \in Keys :
         (ReapFile(a, k) /\ Saved)
           => \A s \in Sidecars, j \in Keys :
                s \in Names(j) /\ cloud[s] = "live" /\ ~file[j].cold
                => cloud'[s] = "live"]_recordVars
=============================================================================
