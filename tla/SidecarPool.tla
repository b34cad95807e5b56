----------------------------- MODULE SidecarPool -----------------------------
(***************************************************************************)
(* A pool of sidecars (internal/sidecar/pool.go).                          *)
(*                                                                         *)
(* The pool hands out remote machines to concurrent tasks.  Members may    *)
(* still be syncing, or be created, when the first task asks for one, so   *)
(* the tasks share the pool with the goroutines that sync the members it   *)
(* was given, with the collector of the clones being created, and with the *)
(* owner, which closes or destroys it.  One action is one critical section *)
(* of Pool.mu together with the remote calls before it; what a goroutine   *)
(* still does after unlocking (notify, save the state file, delete) is its *)
(* list of errands, each a step of its own.                                *)
(*                                                                         *)
(* A sidecar is its ID.  What is synced, the sidecar's client and its      *)
(* repository path are left out.  The channel of free entries is a bag: no *)
(* property depends on the order in which it hands them out.               *)
(***************************************************************************)
EXTENDS Integers, Sequences, FiniteSets

CONSTANTS
    Task,         \* the tasks: each acquires once, uses the entry, gives it back
    Existing,     \* sidecars the pool is assembled from; each has its own sync
    Collector,    \* the goroutine that collects the clones
    Closer,       \* the goroutine that ends the background sync
    Owner,        \* the command that owns the pool
    Nobody,       \* no holder of stateMu
    Size,         \* the pool's capacity
    MaxMade,      \* bound: sidecars ever created
    MaxGone,      \* bound: sidecars that vanish by themselves
    MaxUndeleted, \* bound: deletions that fail
    Modes,        \* may the tasks acquire all at once, as in RunDistributed?
    CanInterrupt, \* the command can be interrupted
    CanTimeOut    \* the time for closing or destroying the pool can run out

ASSUME SizeAssumption ==
    /\ Size \in Nat \ {0}
    /\ IsFiniteSet(Existing) /\ Cardinality(Existing) <= Size

ASSUME BoundsAssumption ==
    /\ MaxMade \in Nat \ {0} /\ MaxGone \in Nat /\ MaxUndeleted \in Nat
    /\ Modes \in SUBSET BOOLEAN /\ CanInterrupt \in BOOLEAN
    /\ CanTimeOut \in BOOLEAN

ASSUME ProcessAssumption ==
    /\ Task \cap Existing = {}
    /\ Task \cap {Collector, Closer, Owner} = {}
    /\ Existing \cap {Collector, Closer, Owner} = {}
    /\ Cardinality({Collector, Closer, Owner}) = 3
    /\ IsFiniteSet(Task)
    /\ Nobody \notin Task \cup Existing \cup {Collector, Closer, Owner}
    /\ Existing \cap Nat = {}

VARIABLES
    free,           \* Pool.free: how many times each sidecar is in the channel
    token,          \* Pool.updates: a channel of one token
    ids,            \* Pool.ids
    entries,        \* the IDs in Pool.entries
    pendingSyncs,   \* members not synced yet
    pendingCreates, \* clones not collected yet
    checkedOut,     \* entries given to tasks
    closed,         \* Destroy was called
    syncErr,        \* Pool.syncErr is not nil
    concurrent,     \* the tasks are the workers of RunDistributed
    ctxDone,        \* the command's context is done
    cancelled,      \* the context of the clone creations is done
    creating,       \* creations in flight
    landed,         \* clones created, not collected yet
    bad,            \* failed creations, not collected yet
    remote,         \* sidecars that exist on the server
    made,           \* sidecars created so far; the n-th has ID n
    orphans,        \* created on the server, under an ID the client never learnt
    gone,           \* sidecars that vanished so far
    undeleted,      \* deletions that failed so far
    file,           \* the sidecars in the pool's state file
    stateMu,        \* the holder of Pool.stateMu
    snap,           \* per goroutine: the IDs it is about to save
    pc, hand, fresh, errands  \* per goroutine, see below

poolVars == <<free, token, ids, entries, pendingSyncs, pendingCreates,
              checkedOut, closed, syncErr>>
createVars == <<creating, landed, bad>>
remoteVars == <<remote, made, orphans, gone, undeleted>>
fileVars == <<file, stateMu, snap>>
procVars == <<pc, hand, fresh, errands>>
runVars == <<concurrent, ctxDone>>
vars == <<poolVars, runVars, cancelled, createVars, remoteVars, fileVars, procVars>>

-----------------------------------------------------------------------------
(* Data. *)

NoId == 0
Id == Existing \cup (1..MaxMade)

\* The sidecars to create at the start; the first is the seed, and with more
\* than one the rest are clones of its snapshot, and so is its place taken.
NewCount == Size - Cardinality(Existing)
Cloning == NewCount > 1
Seed == 1

Proc == Task \cup Existing \cup {Collector, Closer, Owner}

\* What a goroutine still does once it has unlocked the pool.
Errand == {"tell", "save", "write", "drop"}

TaskPlace == {"new", "look", "wait", "held", "swap", "retire", "over", "refused"}
SyncPlace == {"sync", "rebuilt", "finish", "done"}
OwnerPlace == {"open", "closing", "keeping", "destroyed", "kept"}
Place == TaskPlace \cup SyncPlace \cup OwnerPlace \cup {"collect", "await"}

TypeOK ==
    /\ free \in [Id -> Nat]
    /\ token \in 0..1
    /\ ids \in SUBSET Id /\ entries \in SUBSET Id
    /\ pendingSyncs \in Nat /\ pendingCreates \in Nat /\ checkedOut \in Nat
    /\ closed \in BOOLEAN /\ syncErr \in BOOLEAN
    /\ concurrent \in BOOLEAN /\ ctxDone \in BOOLEAN /\ cancelled \in BOOLEAN
    /\ creating \in Nat /\ landed \in SUBSET Id /\ bad \in Nat
    /\ remote \in SUBSET Id /\ made \in 0..MaxMade /\ orphans \in SUBSET Id
    /\ gone \in 0..MaxGone /\ undeleted \in 0..MaxUndeleted
    /\ file \in SUBSET Id /\ stateMu \in Proc \cup {Nobody} 
    /\ snap \in [Proc -> SUBSET Id]
    /\ pc \in [Proc -> Place]
    /\ hand \in [Proc -> Id \cup {NoId}]
    /\ fresh \in [Proc -> Id \cup {NoId}]
    /\ errands \in [Proc -> Seq(Errand)]

\* Tasks that have an entry checked out.
Holds(t) == pc[t] \in {"held", "swap", "retire"}
Acquiring(t) == pc[t] \in {"look", "wait"}

\* A goroutine takes its next step only when its errands are done.
Ready(p) == errands[p] = <<>>

\* Mutant: entries that are checked out are not waited for.
TerminalTooSoon ==
    /\ pendingSyncs = 0 /\ pendingCreates = 0
    /\ \A i \in Id : free[i] = 0
    /\ syncErr

\* Acquire's error case: nothing is free, checked out, nor still to come.
Terminal ==
    /\ pendingSyncs = 0 /\ pendingCreates = 0 /\ checkedOut = 0
    /\ \A i \in Id : free[i] = 0
    /\ syncErr

BackgroundDone ==
    /\ pc[Collector] = "done" /\ Ready(Collector)
    /\ pc[Closer] = "done" /\ Ready(Closer)

-----------------------------------------------------------------------------
(* Parts of steps. *)

\* p moves on to place, with errands to run.
Goes(p, place, todo) ==
    /\ pc' = [pc EXCEPT ![p] = place]
    /\ errands' = [errands EXCEPT ![p] = todo]

\* Mutant: an entry given back is not counted.
NoCheckIn == checkedOut

\* checkedOut after Release, Replace or retire.
CheckIn == IF checkedOut > 0 THEN checkedOut - 1 ELSE checkedOut
OneLess(n) == IF n > 0 THEN n - 1 ELSE n

\* Mutant: an entry is taken without a look at the channel.
AnyMember(id) == id \in entries
Available(id) == free[id] > 0

\* Mutant: the entry is looked at, and stays in the channel.
Peeked(id) == free
Taken(id) == [free EXCEPT ![id] = @ - 1]

\* Mutant: the replacement is appended to the members.
Beside(S, old, new) == S \cup {new}

\* A replacement takes the place of the entry it is for.
InPlaceOf(S, old, new) == (S \ {old}) \cup {new}

\* Mutant: notifyUpdate sends nothing.
NotTold == token
Told == 1

\* Mutant: the state is saved without Pool.stateMu.
NoStateMu == TRUE
StateMuFree == stateMu = Nobody

SyncsOver == \A s \in Existing : pc[s] = "done" /\ Ready(s)

\* Mutant: the collector is over only if every creation succeeded.
AllLanded == creating = 0 /\ landed = {} /\ bad = 0 /\ ~syncErr

\* The collector has seen the result of every creation.
AllCollected == creating = 0 /\ landed = {} /\ bad = 0

\* Mutant: Destroy does not wait for the background work.
DeleteAtOnce == TRUE
MayDelete == BackgroundDone \/ CanTimeOut

\* Pool.free <- id
Put(id) == free' = [free EXCEPT ![id] = @ + 1]

\* DeleteSidecar, its error ignored: the sidecar is gone, or the call failed.
Deleted(S) ==
    \/ remote' = remote \ S /\ UNCHANGED undeleted
    \/ /\ S \cap remote # {} /\ undeleted < MaxUndeleted
       /\ undeleted' = undeleted + 1
       /\ UNCHANGED remote

\* Create a replacement of a deleted sidecar, sync it, and enter it in the active
\* record; the deletion of the old one may have failed.
Rebuilt(dead) ==
    /\ made < MaxMade /\ made' = made + 1
    /\ \/ remote' = (remote \ {dead}) \cup {made + 1} /\ UNCHANGED undeleted
       \/ /\ dead \in remote /\ undeleted < MaxUndeleted
          /\ remote' = remote \cup {made + 1} /\ undeleted' = undeleted + 1

\* One of those steps fails, and the replacement, if it was made, is deleted; that
\* deletion may fail too.
NotRebuilt(dead) ==
    \/ Deleted({dead}) /\ UNCHANGED made
    \/ /\ made < MaxMade /\ made' = made + 1
       /\ \E kept \in SUBSET ({dead} \cap remote) :
            /\ remote' = (remote \ ({dead} \ kept)) \cup {made + 1}
            /\ undeleted' = undeleted + 1 + Cardinality(kept)
            /\ undeleted' <= MaxUndeleted

-----------------------------------------------------------------------------
(* NewPool, once it has probed the existing sidecars and created the seed:  *)
(* the surviving ones wait for their sync, a lone new one is free.          *)

Init ==
    /\ free = [i \in Id |-> IF NewCount = 1 /\ i = Seed THEN 1 ELSE 0]
    /\ token = 0
    /\ entries = Existing \cup (IF NewCount = 1 THEN {Seed} ELSE {})
    /\ ids = entries /\ file = entries
    /\ pendingSyncs = Cardinality(Existing)
    /\ pendingCreates = IF Cloning THEN NewCount ELSE 0
    /\ creating = pendingCreates
    /\ checkedOut = 0 /\ closed = FALSE /\ syncErr = FALSE
    /\ concurrent \in Modes /\ ctxDone = FALSE /\ cancelled = FALSE
    /\ landed = {} /\ bad = 0
    /\ made = IF NewCount > 0 THEN 1 ELSE 0
    /\ remote = Existing \cup (1..made)
    /\ orphans = {} /\ gone = 0 /\ undeleted = 0
    /\ stateMu = Nobody /\ snap = [p \in Proc |-> {}]
    /\ pc = [p \in Proc |->
                IF p \in Task THEN "new"
                ELSE IF p \in Existing THEN "sync"
                ELSE IF p = Collector THEN (IF Cloning THEN "collect" ELSE "done")
                ELSE IF p = Closer THEN (IF Existing # {} THEN "await" ELSE "done")
                ELSE "open"]
    /\ hand = [p \in Proc |-> IF p \in Existing THEN p ELSE NoId]
    /\ fresh = [p \in Proc |-> NoId]
    /\ errands = [p \in Proc |-> <<>>]

-----------------------------------------------------------------------------
(* Errands. *)

\* notifyUpdate: a token, unless there is one.
Tell(p) ==
    /\ ~Ready(p) /\ Head(errands[p]) = "tell"
    /\ token' = Told
    /\ errands' = [errands EXCEPT ![p] = Tail(@)]
    /\ UNCHANGED <<free, ids, entries, pendingSyncs, pendingCreates, checkedOut,
                   closed, syncErr, runVars, cancelled, createVars, remoteVars,
                   fileVars, pc, hand, fresh>>

\* persistState reads the IDs holding stateMu ...
Save(p) ==
    /\ ~Ready(p) /\ Head(errands[p]) = "save"
    /\ StateMuFree
    /\ stateMu' = p
    /\ snap' = [snap EXCEPT ![p] = ids]
    /\ errands' = [errands EXCEPT ![p] = <<"write">> \o Tail(@)]
    /\ UNCHANGED <<poolVars, runVars, cancelled, createVars, remoteVars, file,
                   pc, hand, fresh>>

\* ... and writes them.
Write(p) ==
    /\ ~Ready(p) /\ Head(errands[p]) = "write"
    /\ file' = snap[p]
    /\ stateMu' = Nobody
    /\ snap' = [snap EXCEPT ![p] = {}]
    /\ errands' = [errands EXCEPT ![p] = Tail(@)]
    /\ UNCHANGED <<poolVars, runVars, cancelled, createVars, remoteVars,
                   pc, hand, fresh>>

\* A sidecar that came back to a closed pool is deleted.
Drop(p) ==
    /\ ~Ready(p) /\ Head(errands[p]) = "drop"
    /\ Deleted({hand[p]})
    /\ hand' = [hand EXCEPT ![p] = NoId]
    /\ errands' = [errands EXCEPT ![p] = Tail(@)]
    /\ UNCHANGED <<poolVars, runVars, cancelled, createVars, made, orphans, gone,
                   fileVars, pc, fresh>>

-----------------------------------------------------------------------------
(* A task: Acquire, then Release or Replace. *)

\* RunPass and the mutation runner acquire from one goroutine, one entry at a
\* time.  RunDistributed's workers acquire at once, after the command has
\* acquired and released one entry by itself.
MayAsk == \/ \A t \in Task : ~Acquiring(t)
          \/ concurrent /\ \E t \in Task : pc[t] = "over" /\ Ready(t)

Ask(t) ==
    /\ pc[t] = "new" /\ MayAsk
    /\ Goes(t, "look", <<>>)
    /\ UNCHANGED <<poolVars, runVars, cancelled, createVars, remoteVars, fileVars,
                   hand, fresh>>

Refused(t) ==
    /\ pc[t] = "look" /\ (closed \/ Terminal)
    /\ Goes(t, "refused", <<>>)
    /\ UNCHANGED <<poolVars, runVars, cancelled, createVars, remoteVars, fileVars,
                   hand, fresh>>

Acquire(t) ==
    /\ pc[t] = "look" /\ ~closed
    /\ \E id \in Id :
        /\ Available(id)
        /\ free' = Taken(id)
        /\ hand' = [hand EXCEPT ![t] = id]
    /\ checkedOut' = checkedOut + 1
    /\ Goes(t, "held", <<>>)
    /\ UNCHANGED <<token, ids, entries, pendingSyncs, pendingCreates, closed, syncErr,
                   runVars, cancelled, createVars, remoteVars, fileVars, fresh>>

FindsNone(t) ==
    /\ pc[t] = "look" /\ ~closed /\ ~Terminal
    /\ \A i \in Id : free[i] = 0
    /\ Goes(t, "wait", <<>>)
    /\ UNCHANGED <<poolVars, runVars, cancelled, createVars, remoteVars, fileVars,
                   hand, fresh>>

Wake(t) ==
    /\ pc[t] = "wait" /\ token = 1
    /\ token' = 0
    /\ Goes(t, "look", <<>>)
    /\ UNCHANGED <<free, ids, entries, pendingSyncs, pendingCreates, checkedOut,
                   closed, syncErr, runVars, cancelled, createVars, remoteVars,
                   fileVars, hand, fresh>>

GiveUp(t) ==
    /\ pc[t] = "wait" /\ ctxDone
    /\ Goes(t, "refused", <<>>)
    /\ UNCHANGED <<poolVars, runVars, cancelled, createVars, remoteVars, fileVars,
                   hand, fresh>>

Release(t) ==
    /\ pc[t] = "held"
    /\ checkedOut' = CheckIn
    /\ IF closed
       THEN UNCHANGED <<free, hand>> /\ Goes(t, "over", <<"drop", "tell">>)
       ELSE /\ Put(hand[t])
            /\ hand' = [hand EXCEPT ![t] = NoId]
            /\ Goes(t, "over", <<"tell">>)
    /\ UNCHANGED <<token, ids, entries, pendingSyncs, pendingCreates, closed,
                   syncErr, runVars, cancelled, createVars, remoteVars, fileVars, fresh>>

\* Replace deletes the unusable sidecar first, then makes another.  The mutation
\* runner, its only caller, replaces nothing once it is being stopped, and ends
\* its tasks before its pool.
Rebuild(t) ==
    /\ pc[t] = "held" /\ ~ctxDone /\ ~closed /\ ~concurrent
    /\ Rebuilt(hand[t])
    /\ fresh' = [fresh EXCEPT ![t] = made + 1]
    /\ Goes(t, "swap", <<>>)
    /\ UNCHANGED <<poolVars, runVars, cancelled, createVars, orphans, gone, fileVars, hand>>

CannotRebuild(t) ==
    /\ pc[t] = "held" /\ ~ctxDone /\ ~closed /\ ~concurrent
    /\ NotRebuilt(hand[t])
    /\ Goes(t, "retire", <<>>)
    /\ UNCHANGED <<poolVars, runVars, cancelled, createVars, orphans, gone, fileVars,
                   hand, fresh>>

\* The replacement takes the dead entry's place (which a held entry has, see
\* MembersInPlace: Replace's "not a pool member" is never reached from here).
\* No caller destroys the pool during a Replace.
Swap(t) ==
    /\ pc[t] = "swap"
    /\ entries' = InPlaceOf(entries, hand[t], fresh[t])
    /\ ids' = InPlaceOf(ids, hand[t], fresh[t])
    /\ checkedOut' = CheckIn
    /\ Put(fresh[t])
    /\ hand' = [hand EXCEPT ![t] = NoId]
    /\ fresh' = [fresh EXCEPT ![t] = NoId]
    /\ Goes(t, "over", <<"tell", "save">>)
    /\ UNCHANGED <<token, pendingSyncs, pendingCreates, closed, syncErr, runVars,
                   cancelled, createVars, remoteVars, fileVars>>

Retire(t) ==
    /\ pc[t] = "retire"
    /\ entries' = entries \ {hand[t]}
    /\ ids' = ids \ {hand[t]}
    /\ checkedOut' = CheckIn
    /\ syncErr' = TRUE
    /\ hand' = [hand EXCEPT ![t] = NoId]
    /\ Goes(t, "over", <<"save", "tell">>)
    /\ UNCHANGED <<free, token, pendingSyncs, pendingCreates, closed, runVars,
                   cancelled, createVars, remoteVars, fileVars, fresh>>

-----------------------------------------------------------------------------
(* Background sync of the sidecars the pool was given.  The semaphore only   *)
(* delays the syncs, and is left out.                                        *)

\* The sidecar is gone or out of date, and is replaced ...
SyncStale(s) ==
    /\ pc[s] = "sync"
    /\ Rebuilt(hand[s])
    /\ fresh' = [fresh EXCEPT ![s] = made + 1]
    /\ Goes(s, "rebuilt", <<>>)
    /\ UNCHANGED <<poolVars, runVars, cancelled, createVars, orphans, gone, fileVars, hand>>

\* ... by the replacement taking its place.
Install(s) ==
    /\ pc[s] = "rebuilt"
    /\ entries' = InPlaceOf(entries, hand[s], fresh[s])
    /\ ids' = InPlaceOf(ids, hand[s], fresh[s])
    /\ hand' = [hand EXCEPT ![s] = fresh[s]]
    /\ fresh' = [fresh EXCEPT ![s] = NoId]
    /\ Goes(s, "finish", <<>>)
    /\ UNCHANGED <<free, token, pendingSyncs, pendingCreates, checkedOut, closed,
                   syncErr, runVars, cancelled, createVars, remoteVars, fileVars>>

\* finishSync of a synced sidecar.
Synced(s) ==
    /\ \/ pc[s] = "sync" /\ hand[s] \in remote
       \/ pc[s] = "finish"
    /\ pendingSyncs' = OneLess(pendingSyncs)
    /\ IF closed
       THEN UNCHANGED <<free, hand>> /\ Goes(s, "done", <<"drop", "tell">>)
       ELSE /\ Put(hand[s])
            /\ hand' = [hand EXCEPT ![s] = NoId]
            /\ Goes(s, "done", <<"tell">>)
    /\ UNCHANGED <<token, ids, entries, pendingCreates, checkedOut, closed, syncErr,
                   runVars, cancelled, createVars, remoteVars, fileVars, fresh>>

\* finishSync of one that could not be synced, nor replaced if it was stale: it
\* stays a member, and is never free.
SyncFails(s) ==
    /\ pc[s] = "sync"
    /\ \/ UNCHANGED <<remote, made, undeleted>>
       \/ NotRebuilt(hand[s])
    /\ pendingSyncs' = OneLess(pendingSyncs)
    /\ syncErr' = TRUE
    /\ hand' = [hand EXCEPT ![s] = NoId]
    /\ Goes(s, "done", <<"tell">>)
    /\ UNCHANGED <<free, token, ids, entries, pendingCreates, checkedOut, closed,
                   runVars, cancelled, createVars, orphans, gone, fileVars, fresh>>

\* The last goroutine of the sync saves the state if every sync succeeded.
EndSync ==
    /\ pc[Closer] = "await"
    /\ SyncsOver
    /\ Goes(Closer, "done",
            IF pendingSyncs = 0 /\ ~syncErr /\ ~closed THEN <<"save", "tell">> ELSE <<"tell">>)
    /\ UNCHANGED <<poolVars, runVars, cancelled, createVars, remoteVars, fileVars,
                   hand, fresh>>

-----------------------------------------------------------------------------
(* Clones of the seed.                                                       *)

CloneLands ==
    /\ creating > 0 /\ made < MaxMade
    /\ creating' = creating - 1
    /\ made' = made + 1
    /\ remote' = remote \cup {made + 1}
    /\ landed' = landed \cup {made + 1}
    /\ UNCHANGED <<poolVars, runVars, cancelled, bad, orphans, gone, undeleted,
                   fileVars, procVars>>

\* A creation that was cancelled may be carried out on the server all the same.
CloneFails ==
    /\ creating > 0
    /\ creating' = creating - 1
    /\ bad' = bad + 1
    /\ \/ UNCHANGED <<made, remote, orphans>>
       \/ /\ cancelled /\ made < MaxMade
          /\ made' = made + 1
          /\ remote' = remote \cup {made + 1}
          /\ orphans' = orphans \cup {made + 1}
    /\ UNCHANGED <<poolVars, runVars, cancelled, landed, gone, undeleted, fileVars,
                   procVars>>

\* finishCreate of a clone.
CollectClone ==
    /\ pc[Collector] = "collect" /\ Ready(Collector)
    /\ \E id \in landed :
        /\ landed' = landed \ {id}
        /\ IF closed
           THEN /\ hand' = [hand EXCEPT ![Collector] = id]
                /\ Goes(Collector, "collect", <<"drop", "tell">>)
                /\ UNCHANGED <<free, ids, entries>>
           ELSE /\ ids' = ids \cup {id} /\ entries' = entries \cup {id}
                /\ Put(id)
                /\ Goes(Collector, "collect", <<"save", "tell">>)
                /\ UNCHANGED hand
    /\ pendingCreates' = OneLess(pendingCreates)
    /\ UNCHANGED <<token, pendingSyncs, checkedOut, closed, syncErr, runVars, cancelled,
                   creating, bad, remoteVars, fileVars, fresh>>

\* finishCreate of a creation that failed, or of a clone that could not take a
\* stale sidecar's place in the active record and was deleted.
CollectFailure ==
    /\ pc[Collector] = "collect" /\ Ready(Collector)
    /\ \/ bad > 0 /\ bad' = bad - 1 /\ UNCHANGED <<landed, remote, undeleted>>
       \/ \E id \in landed :
            landed' = landed \ {id} /\ Deleted({id}) /\ UNCHANGED bad
    /\ pendingCreates' = OneLess(pendingCreates)
    /\ syncErr' = TRUE
    /\ Goes(Collector, "collect", <<"tell">>)
    /\ UNCHANGED <<free, token, ids, entries, pendingSyncs, checkedOut, closed, runVars,
                   cancelled, creating, made, orphans, gone, fileVars, hand, fresh>>

\* The collector deletes the seed at its end.
EndCollect ==
    /\ pc[Collector] = "collect" /\ Ready(Collector)
    /\ AllCollected
    /\ Deleted({Seed})
    /\ cancelled' = TRUE
    /\ Goes(Collector, "done", <<>>)
    /\ UNCHANGED <<poolVars, runVars, createVars, made, orphans, gone, fileVars,
                   hand, fresh>>

-----------------------------------------------------------------------------
(* The owner: Destroy, or Close.                                             *)

\* No caller destroys the pool while a Replace runs; RunDistributed's command
\* neither destroys nor closes it.
Destroy ==
    /\ pc[Owner] = "open" /\ ~concurrent
    /\ \A t \in Task : pc[t] \notin {"swap", "retire"} /\ Ready(t)
    /\ closed' = TRUE /\ cancelled' = TRUE
    /\ Goes(Owner, "closing", <<>>)
    /\ UNCHANGED <<free, token, ids, entries, pendingSyncs, pendingCreates, checkedOut,
                   syncErr, runVars, createVars, remoteVars, fileVars, hand, fresh>>

\* Once the background work is over, or out of time, the members are deleted; those that could
\* not be are kept in the state file.
DeleteMembers ==
    /\ pc[Owner] = "closing" /\ MayDelete
    /\ \E failed \in SUBSET (ids \cap remote) :
        /\ undeleted' = undeleted + Cardinality(failed) /\ undeleted' <= MaxUndeleted
        /\ remote' = remote \ (ids \ failed)
        /\ IF failed = {}
           THEN file' = {} /\ UNCHANGED ids /\ Goes(Owner, "destroyed", <<"tell">>)
           ELSE ids' = failed /\ UNCHANGED file /\ Goes(Owner, "destroyed", <<"tell", "save">>)
    /\ UNCHANGED <<free, token, entries, pendingSyncs, pendingCreates, checkedOut, closed,
                   syncErr, runVars, cancelled, createVars, made, orphans, gone,
                   stateMu, snap, hand, fresh>>

Close ==
    /\ pc[Owner] = "open" /\ ~concurrent
    /\ \A t \in Task : ~Acquiring(t) /\ ~Holds(t) /\ Ready(t)
    /\ Goes(Owner, "keeping", <<>>)
    /\ UNCHANGED <<poolVars, runVars, cancelled, createVars, remoteVars, fileVars,
                   hand, fresh>>

\* Close waits for the background work, and cancels what is left of it when its
\* own context ends first.
Kept ==
    /\ pc[Owner] = "keeping"
    /\ \/ BackgroundDone /\ UNCHANGED cancelled
       \/ (ctxDone \/ CanTimeOut) /\ cancelled' = TRUE
    /\ Goes(Owner, "kept", <<>>)
    /\ UNCHANGED <<poolVars, runVars, createVars, remoteVars, fileVars, hand, fresh>>

-----------------------------------------------------------------------------
(* The rest of the world.                                                    *)

Vanish ==
    /\ gone < MaxGone /\ gone' = gone + 1
    /\ \E id \in remote : remote' = remote \ {id}
    /\ UNCHANGED <<poolVars, runVars, cancelled, createVars, made, orphans, undeleted,
                   fileVars, procVars>>

Interrupt ==
    /\ CanInterrupt /\ ~ctxDone
    /\ ctxDone' = TRUE /\ cancelled' = TRUE
    /\ UNCHANGED <<concurrent, poolVars, createVars, remoteVars, fileVars, procVars>>

Acts(t) == \/ Ask(t) \/ Refused(t) \/ Acquire(t) \/ FindsNone(t) \/ Wake(t) \/ GiveUp(t)
           \/ Release(t) \/ Rebuild(t) \/ CannotRebuild(t) \/ Swap(t) \/ Retire(t)
Syncs(s) == SyncStale(s) \/ Install(s) \/ Synced(s) \/ SyncFails(s)
Errands(p) == Tell(p) \/ Save(p) \/ Write(p) \/ Drop(p)
Clones == CloneLands \/ CloneFails \/ CollectClone \/ CollectFailure \/ EndCollect
Owns == Destroy \/ DeleteMembers \/ Close \/ Kept

Next == \/ \E t \in Task : Acts(t)
        \/ \E s \in Existing : Syncs(s)
        \/ \E p \in Proc : Errands(p)
        \/ EndSync \/ Clones \/ Owns \/ Vanish \/ Interrupt

Spec == Init /\ [][Next]_vars

\* Every goroutine keeps going; a task that holds an entry ends, since what it
\* runs on the sidecar has a timeout, and so do a sync and a creation.  Nobody
\* has to ask, to interrupt, or to close the pool.
Fairness ==
    /\ \A t \in Task : WF_vars(Acts(t))
    /\ \A s \in Existing : WF_vars(Syncs(s))
    /\ \A p \in Proc : WF_vars(Errands(p))
    /\ WF_vars(EndSync) /\ WF_vars(Clones) /\ WF_vars(DeleteMembers \/ Kept)

FairSpec == Spec /\ Fairness

-----------------------------------------------------------------------------
(* Properties.                                                               *)

\* The sidecars a goroutine has in its hands.
Has(p, i) == i \in Id /\ (hand[p] = i \/ fresh[p] = i)

\* A sidecar is in one place: it is free once, or one task or one sync has it, and
\* no task is given a sidecar that is still being synced or replaced.
OneOwner ==
    \A i \in Id :
        /\ free[i] <= 1
        /\ \A p \in Proc : Has(p, i) => free[i] = 0
        /\ \A p, q \in Proc : Has(p, i) /\ Has(q, i) => p = q

\* Pool.free has room for every send made while Pool.mu is held: what is free,
\* checked out or still to be synced is a member, and there is never a member, nor
\* a clone to come, beyond the capacity.
MembersInPlace ==
    /\ Cardinality(entries) + pendingCreates <= Size
    /\ \A i \in Id : free[i] > 0 => i \in entries
    /\ \A t \in Task : Holds(t) => hand[t] \in entries
    /\ \A s \in Existing : pc[s] \in {"sync", "rebuilt", "finish"} => hand[s] \in entries

\* checkedOut, decremented only when it is positive by three different methods, is
\* the number of tasks that have an entry.
Counted == checkedOut = Cardinality({t \in Task : Holds(t)})

\* Acquire reports the sync error only when no entry can ever be free again.
TerminalIsFinal == [][Terminal => Terminal']_vars

\* Something the members were changed for has not been saved yet.
Saving == \E p \in Proc : \E n \in DOMAIN errands[p] : errands[p][n] \in {"save", "write"}

\* Between changes, the state file has the members, however the goroutines that
\* save it interleave (Replace, retire, finishCreate).
RecordUpToDate == ~Saving /\ pc[Owner] # "destroyed" => file = ids

\* Once Destroy is over and its wait did not run out, every sidecar whose ID was
\* learnt is deleted, those that landed while it was waiting included.
DestroyLeavesNone ==
    pc[Owner] = "destroyed" /\ Ready(Owner) => BackgroundDone /\ remote \subseteq orphans

\* A task that asks for an entry gets one, or an error.
AcquireReturns == \A t \in Task : Acquiring(t) ~> ~Acquiring(t)

\* Destroy and Close return, whatever is still being synced or created.
OwnerReturns == pc[Owner] \in {"closing", "keeping"} ~> pc[Owner] \in {"destroyed", "kept"}
==============================================================================
