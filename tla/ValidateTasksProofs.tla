------------------------ MODULE ValidateTasksProofs ------------------------
(* Theorems about ValidateTasks, for every number of sessions, runs, edits and *)
(* results kept, and every policy.                                             *)
EXTENDS ValidateTasks, TLAPS, FiniteSetTheorems, WellFoundedInduction

USE BoundsAssumption, FlagsAssumption, ProcessAssumption DEF TaskId, Content, NoTree, Tree

-----------------------------------------------------------------------------
(* Types. *)

\* Every session on its way to start a run can still start one.
RoomKept == started + Cardinality(Launching) <= MaxTasks

Unstarted == \A i \in TaskId : i > started => run[i].at = "none" /\ i \notin store

\* Only a tree that could be read is copied.
CallOk(c) == /\ c.copy => c.before # NoTree
             /\ c.at \in {"idle", "hold", "wait"} => ~c.copy

CopyOfTree ==
    /\ \A s \in Session : CallOk(call[s])
    /\ \A i \in TaskId : run[i].copy => run[i].before # NoTree

USE DEF CallOk

TypeInv == TypeOK /\ RoomKept /\ Unstarted /\ CopyOfTree

LEMMA LaunchingCounted == IsFiniteSet(Launching) /\ Cardinality(Launching) \in Nat
<1>1. Launching \subseteq Session
  BY DEF Launching
<1> QED
  BY <1>1, FS_Subset, FS_CardinalityType

LEMMA LookType == ASSUME TypeOK PROVE Look \subseteq Tree
  BY DEF TypeOK, Look

LEMMA NoTaskType == NoTask \in Task
  BY DEF NoTask, Task

LEMMA WithoutType ==
    ASSUME TypeOK, NEW ids
    PROVE  Without(ids) \in [TaskId -> Task]
  BY NoTaskType DEF TypeOK, Without

LEMMA InitTypes == Init => TypeInv
<1> SUFFICES ASSUME Init PROVE TypeInv
  OBVIOUS
<1> USE DEF Init
<1>1. NoRun \in Run /\ NoCall \in Call /\ NoTask \in Task
  BY NoTaskType DEF NoRun, Run, NoCall, Call
<1>a. task \in [TaskId -> Task] /\ run \in [TaskId -> Run] /\ call \in [Session -> Call]
  BY <1>1
<1>b. tree \in Content /\ green \in Tree /\ started \in 0..MaxTasks
  OBVIOUS
<1>c. /\ owes \in BOOLEAN /\ claims \subseteq Session /\ saw \subseteq Content
      /\ store \subseteq TaskId /\ written \subseteq TaskId
      /\ validateMu \in Session \cup TaskId \cup {Nobody}
      /\ \A i \in store : task[i].start # NoTree
  OBVIOUS
<1>2. TypeOK
  BY <1>a, <1>b, <1>c DEF TypeOK
<1>3. Launching = {}
  BY DEF Launching, NoCall
<1>4. RoomKept
  BY <1>3, FS_EmptySet DEF RoomKept
<1>5. Unstarted /\ CopyOfTree
  BY DEF Unstarted, CopyOfTree, NoRun, NoCall
<1> QED
  BY <1>2, <1>4, <1>5 DEF TypeInv

\* The handlers' steps that neither file a task nor enter or leave the way to one.
LEMMA CallStep ==
    ASSUME TypeInv, NEW s \in Session, NEW c \in Call,
           call' = [call EXCEPT ![s] = c],
           CallOk(c),
           s \in Launching <=> c.at \in {"snapshot", "supersede", "fingerprint", "add"},
           started' = started
    PROVE  /\ call' \in [Session -> Call]
           /\ Launching' = Launching
           /\ RoomKept'
           /\ \A t \in Session : CallOk(call'[t])
<1>1. call \in [Session -> Call]
  BY DEF TypeInv, TypeOK
<1>2. call' \in [Session -> Call]
  BY <1>1
<1>3. Launching' = Launching
  BY <1>1, <1>2 DEF Launching
<1>4. \A t \in Session : CallOk(call'[t])
  BY <1>1 DEF TypeInv, CopyOfTree
<1>5. RoomKept'
  BY <1>3 DEF TypeInv, RoomKept
<1> QED
  BY <1>2, <1>3, <1>4, <1>5

\* Leaving the way to a run without starting one only makes room.
LEMMA CallLeaves ==
    ASSUME TypeInv, NEW s \in Session, NEW c \in Call,
           call' = [call EXCEPT ![s] = c],
           CallOk(c),
           s \in Launching,
           c.at \notin {"snapshot", "supersede", "fingerprint", "add"}
    PROVE  /\ call' \in [Session -> Call]
           /\ Launching' = Launching \ {s}
           /\ Cardinality(Launching') = Cardinality(Launching) - 1
           /\ \A t \in Session : CallOk(call'[t])
<1>1. call \in [Session -> Call]
  BY DEF TypeInv, TypeOK
<1>2. call' \in [Session -> Call]
  BY <1>1
<1>3. Launching' = Launching \ {s}
  BY <1>1, <1>2 DEF Launching
<1>4. \A t \in Session : CallOk(call'[t])
  BY <1>1 DEF TypeInv, CopyOfTree
<1>5. Cardinality(Launching') = Cardinality(Launching) - 1
  BY <1>3, LaunchingCounted, FS_RemoveElement
<1> QED
  BY <1>2, <1>3, <1>4, <1>5

LEMMA RunStep ==
    ASSUME TypeInv, NEW i \in TaskId, NEW r \in Run, r.at # "none",
           i <= started,
           run' = [run EXCEPT ![i] = r],
           r.copy => r.before # NoTree,
           store' = store, started' = started
    PROVE  /\ run' \in [TaskId -> Run]
           /\ Unstarted'
           /\ \A j \in TaskId : run'[j].copy => run'[j].before # NoTree
<1>1. run \in [TaskId -> Run] /\ started \in Nat
  BY DEF TypeInv, TypeOK
<1>2. run' \in [TaskId -> Run]
  BY <1>1
<1>3. Unstarted'
  BY <1>1 DEF TypeInv, Unstarted
<1>4. \A j \in TaskId : run'[j].copy => run'[j].before # NoTree
  BY <1>1 DEF TypeInv, CopyOfTree
<1> QED
  BY <1>2, <1>3, <1>4

LEMMA CallRecords ==
    ASSUME TypeInv, NEW s \in Session
    PROVE  /\ call[s] \in Call
           /\ CallOk(call[s])
           /\ NoCall \in Call /\ CallOk(NoCall) /\ NoCall.at = "idle"
  BY DEF TypeInv, TypeOK, CopyOfTree, NoCall, Call

LEMMA RunRecords ==
    ASSUME TypeInv, NEW i \in TaskId
    PROVE  /\ run[i] \in Run
           /\ run[i].copy => run[i].before # NoTree
           /\ run[i].at # "none" => i <= started
           /\ NoRun \in Run /\ ~NoRun.copy
  BY DEF TypeInv, TypeOK, CopyOfTree, Unstarted, NoRun, Run

\* A step of a handler that changes nothing of the runs and the store.
LEMMA CallTypes ==
    ASSUME TypeInv, call' \in [Session -> Call], RoomKept',
           \A t \in Session : CallOk(call'[t]),
           UNCHANGED <<storeVars, run>>,
           tree' \in Content, owes' \in BOOLEAN, green' \in Tree,
           claims' \subseteq Session, saw' \subseteq Content,
           validateMu' \in Session \cup TaskId \cup {Nobody}, written' \subseteq TaskId
    PROVE  TypeInv'
  BY DEF TypeInv, TypeOK, storeVars, Unstarted, CopyOfTree

\* A step of a run that leaves the store alone.
LEMMA RunTypes ==
    ASSUME TypeInv, run' \in [TaskId -> Run], Unstarted',
           \A j \in TaskId : run'[j].copy => run'[j].before # NoTree,
           task' \in [TaskId -> Task], \A j \in TaskId : task'[j].start = task[j].start,
           UNCHANGED <<store, started, call, tree, written>>,
           owes' \in BOOLEAN, green' \in Tree, claims' \subseteq Session,
           saw' \subseteq Content,
           validateMu' \in Session \cup TaskId \cup {Nobody}
    PROVE  TypeInv'
<1>1. Launching' = Launching
  BY DEF Launching
<1>2. RoomKept'
  BY <1>1 DEF TypeInv, RoomKept
<1> QED
  BY <1>2 DEF TypeInv, TypeOK, CopyOfTree

LEMMA VerdictsType == \A c : Verdicts(c) \subseteq BOOLEAN
  BY DEF Verdicts

LEMMA RequestTypes ==
    ASSUME TypeInv, NEW s \in Session, Request(s)
    PROVE  TypeInv'
<1>1. /\ TypeOK /\ UNCHANGED <<tree, riskVars, muVars, storeVars, run, written>>
      /\ claims' = claims \cup {s} /\ call[s].at = "idle"
  BY DEF TypeInv, Request
<1>2. s \notin Launching
  BY <1>1 DEF Launching
<1>3. /\ call' \in [Session -> Call] /\ RoomKept'
      /\ \A t \in Session : CallOk(call'[t])
  <2>1. CASE call' = [call EXCEPT ![s].at = "hold", ![s].waits = TRUE]
    <3> DEFINE c == [call[s] EXCEPT !.at = "hold", !.waits = TRUE]
    <3>1. c \in Call /\ CallOk(c) /\ c.at = "hold"
      BY <1>1, CallRecords DEF Call
    <3>2. call' = [call EXCEPT ![s] = c]
      BY <2>1
    <3> QED
      BY <1>1, <1>2, <3>1, <3>2, CallStep DEF storeVars
  <2>2. CASE /\ Room
             /\ \E waits \in BOOLEAN :
                  call' = [call EXCEPT ![s].at = "snapshot", ![s].waits = waits]
    <3>1. PICK waits \in BOOLEAN :
             call' = [call EXCEPT ![s].at = "snapshot", ![s].waits = waits]
      BY <2>2
    <3> DEFINE c == [call[s] EXCEPT !.at = "snapshot", !.waits = waits]
    <3>2. c \in Call /\ CallOk(c) /\ c.at = "snapshot"
      BY CallRecords DEF Call
    <3>3. call \in [Session -> Call] /\ call' = [call EXCEPT ![s] = c]
      BY <1>1, <3>1 DEF TypeOK
    <3>4. Launching' = Launching \cup {s}
      BY <3>2, <3>3 DEF Launching
    <3>5. Cardinality(Launching') = Cardinality(Launching) + 1
      BY <1>2, <3>4, LaunchingCounted, FS_AddElement
    <3>6. RoomKept'
      BY <1>1, <2>2, <3>5, LaunchingCounted DEF Room, RoomKept, storeVars, TypeOK
    <3>7. call' \in [Session -> Call]
      BY <3>2, <3>3
    <3> QED
      BY <3>2, <3>3, <3>6, <3>7 DEF TypeInv, CopyOfTree
  <2> QED
    BY <2>1, <2>2 DEF Request
<1> QED
  BY <1>1, <1>3, CallTypes DEF TypeOK, riskVars, muVars

LEMMA SnapshotTypes ==
    ASSUME TypeInv, NEW s \in Session, Snapshot(s)
    PROVE  TypeInv'
<1>1. PICK before \in Look, copy \in BOOLEAN :
        /\ copy => before # NoTree
        /\ call' = [call EXCEPT ![s].at = "supersede", ![s].before = before, ![s].copy = copy]
  BY DEF Snapshot
<1> DEFINE c == [call[s] EXCEPT !.at = "supersede", !.before = before, !.copy = copy]
<1>2. before \in Tree
  BY LookType DEF TypeInv
<1>3. c \in Call /\ CallOk(c) /\ c.at = "supersede"
  BY <1>1, <1>2, CallRecords DEF Call
<1>4. call' = [call EXCEPT ![s] = c]
  BY <1>1
<1>5. s \in Launching
  BY DEF Snapshot, Launching
<1>6. /\ TypeOK /\ UNCHANGED <<tree, riskVars, claims, muVars, storeVars, run, written>>
  BY DEF TypeInv, Snapshot
<1>7. /\ call' \in [Session -> Call] /\ RoomKept'
      /\ \A t \in Session : CallOk(call'[t])
  BY <1>3, <1>4, <1>5, <1>6, CallStep DEF storeVars
<1> QED
  BY <1>6, <1>7, CallTypes DEF TypeOK, riskVars, muVars

LEMMA SupersedeTypes ==
    ASSUME TypeInv, NEW s \in Session, Supersede(s)
    PROVE  TypeInv'
<1> DEFINE c == [call[s] EXCEPT !.at = "fingerprint"]
<1>1. c \in Call /\ CallOk(c) /\ c.at = "fingerprint"
  BY CallRecords DEF Call
<1>2. call' = [call EXCEPT ![s] = c] /\ s \in Launching /\ started' = started
  BY DEF Supersede, Goes, Launching
<1>3. /\ call' \in [Session -> Call] /\ RoomKept'
      /\ \A t \in Session : CallOk(call'[t])
  BY <1>1, <1>2, CallStep
<1>4. /\ TypeOK /\ UNCHANGED <<tree, riskVars, claims, muVars, started, written>>
      /\ store' = store \ Pointless /\ task' = Without(Pointless)
      /\ run' = [i \in TaskId |-> IF i \in Pointless THEN [run[i] EXCEPT !.cancelled = TRUE]
                                                    ELSE run[i]]
  BY DEF TypeInv, Supersede
<1>5. \A i \in TaskId : /\ run'[i] \in Run /\ run'[i].at = run[i].at
                        /\ run'[i].copy = run[i].copy /\ run'[i].before = run[i].before
  BY <1>4, RunRecords, ZenonT(40) DEF Run
<1>6. run' \in [TaskId -> Run]
  BY <1>4, <1>5
<1>7. Unstarted' /\ CopyOfTree'
  BY <1>3, <1>4, <1>5 DEF TypeInv, Unstarted, CopyOfTree
<1>8. task' \in [TaskId -> Task]
  BY <1>4, WithoutType
<1>9. \A i \in store' : task'[i].start # NoTree
  BY <1>4 DEF Without, TypeOK
<1> QED
  BY <1>3, <1>4, <1>6, <1>7, <1>8, <1>9 DEF TypeInv, TypeOK, riskVars, muVars

LEMMA FingerprintTypes ==
    ASSUME TypeInv, NEW s \in Session, Fingerprint(s)
    PROVE  TypeInv'
<1>1. PICK start \in Look : call' = [call EXCEPT ![s].at = "add", ![s].start = start]
  BY DEF Fingerprint
<1> DEFINE c == [call[s] EXCEPT !.at = "add", !.start = start]
<1>2. start \in Tree
  BY LookType DEF TypeInv
<1>3. c \in Call /\ CallOk(c) /\ c.at = "add"
  BY <1>2, CallRecords DEF Call
<1>4. call' = [call EXCEPT ![s] = c] /\ s \in Launching
  BY <1>1 DEF Fingerprint, Launching
<1>5. /\ TypeOK /\ UNCHANGED <<tree, riskVars, claims, muVars, storeVars, run, written>>
  BY DEF TypeInv, Fingerprint
<1>6. /\ call' \in [Session -> Call] /\ RoomKept'
      /\ \A t \in Session : CallOk(call'[t])
  BY <1>3, <1>4, <1>5, CallStep DEF storeVars
<1> QED
  BY <1>5, <1>6, CallTypes DEF TypeOK, riskVars, muVars

LEMMA AddTypes ==
    ASSUME TypeInv, NEW s \in Session, Add(s)
    PROVE  TypeInv'
<1> DEFINE n == started + 1
           t == [NoTask EXCEPT !.running = TRUE, !.snapshot = call[s].copy,
                               !.start = call[s].start]
           r == [NoRun EXCEPT !.at = "queued", !.by = s, !.before = call[s].before,
                              !.copy = call[s].copy]
<1>1. /\ TypeOK /\ UNCHANGED <<tree, riskVars, claims, muVars, written>>
      /\ started' = n /\ call[s].at = "add" /\ call[s].start # NoTree
      /\ task' = [Without(Evicted) EXCEPT ![n] = t]
      /\ store' = (store \ Evicted) \cup {n}
      /\ run' = [run EXCEPT ![n] = r]
      /\ call' = [call EXCEPT ![s] = NoCall]
  BY DEF TypeInv, Add, Returns, Refusable
<1>2. s \in Launching /\ NoCall \in Call /\ CallOk(NoCall) /\ NoCall.at = "idle"
  BY <1>1, CallRecords DEF Launching
<1>3. /\ call' \in [Session -> Call]
      /\ Cardinality(Launching') = Cardinality(Launching) - 1
      /\ \A u \in Session : CallOk(call'[u])
  BY <1>1, <1>2, CallLeaves
<1>4. Cardinality(Launching) \in Nat /\ Cardinality(Launching) # 0
  BY <1>2, LaunchingCounted, FS_EmptySet
<1>5. RoomKept' /\ n \in TaskId /\ started \in Nat
  BY <1>1, <1>3, <1>4 DEF TypeInv, RoomKept, TypeOK
<1>6. t \in Task /\ r \in Run /\ (r.copy => r.before # NoTree) /\ t.start # NoTree
  BY <1>1, CallRecords DEF NoTask, Task, NoRun, Run, Call
<1>7. Without(Evicted) \in [TaskId -> Task] /\ run \in [TaskId -> Run]
  BY <1>1, WithoutType DEF TypeOK
<1>8. task' \in [TaskId -> Task] /\ run' \in [TaskId -> Run]
  BY <1>1, <1>5, <1>6, <1>7
<1>9. \A i \in store' : task'[i].start # NoTree
  BY <1>1, <1>5, <1>6, <1>7 DEF Without, TypeOK
<1>10. Unstarted' /\ CopyOfTree'
  BY <1>1, <1>3, <1>5, <1>6, <1>7 DEF TypeInv, Unstarted, CopyOfTree
<1>11. started' \in 0..MaxTasks /\ store' \subseteq TaskId
  BY <1>1, <1>5 DEF TypeOK
<1> QED
  BY <1>1, <1>3, <1>5, <1>8, <1>9, <1>10, <1>11 DEF TypeInv, TypeOK, riskVars, muVars

LEMMA RefuseTypes ==
    ASSUME TypeInv, NEW s \in Session, Refuse(s)
    PROVE  TypeInv'
<1>1. /\ TypeOK /\ UNCHANGED <<tree, riskVars, muVars, storeVars, run, written>>
      /\ s \in Launching /\ claims' \subseteq claims
  BY DEF TypeInv, Refuse, Launching
<1> DEFINE c == IF call[s].waits THEN [call[s] EXCEPT !.at = "hold", !.copy = FALSE]
          ELSE NoCall
<1>2. c \in Call /\ CallOk(c) /\ c.at \in {"hold", "idle"}
  BY CallRecords, ZenonT(40) DEF Call
<1>3. call' = [call EXCEPT ![s] = c]
  BY DEF Refuse, Goes, Returns
<1>4. /\ call' \in [Session -> Call]
      /\ Cardinality(Launching') = Cardinality(Launching) - 1
      /\ \A u \in Session : CallOk(call'[u])
  BY <1>1, <1>2, <1>3, CallLeaves
<1>5. RoomKept'
  BY <1>1, <1>4, LaunchingCounted DEF TypeInv, RoomKept, storeVars, TypeOK
<1> QED
  BY <1>1, <1>4, <1>5, CallTypes DEF TypeOK, riskVars, muVars

LEMMA HoldTypes ==
    ASSUME TypeInv, NEW s \in Session, Hold(s)
    PROVE  TypeInv'
<1>1. PICK before \in Look : call' = [call EXCEPT ![s].at = "wait", ![s].before = before]
  BY DEF Hold
<1> DEFINE c == [call[s] EXCEPT !.at = "wait", !.before = before]
<1>2. before \in Tree /\ ~call[s].copy
  BY LookType DEF TypeInv, CopyOfTree, Hold
<1>3. c \in Call /\ CallOk(c) /\ c.at = "wait"
  BY <1>2, CallRecords DEF Call
<1>4. call' = [call EXCEPT ![s] = c] /\ s \notin Launching
  BY <1>1 DEF Hold, Launching
<1>5. TypeOK /\ UNCHANGED <<tree, riskVars, claims, muVars, storeVars, run, written>>
  BY DEF TypeInv, Hold
<1>6. /\ call' \in [Session -> Call] /\ RoomKept'
      /\ \A t \in Session : CallOk(call'[t])
  BY <1>3, <1>4, <1>5, CallStep DEF storeVars
<1> QED
  BY <1>5, <1>6, CallTypes DEF TypeOK, riskVars, muVars

LEMMA EndNowRisk ==
    ASSUME TypeInv, NEW s \in Session, EndNow(s)
    PROVE  owes' \in BOOLEAN /\ green' \in Tree
  BY CallRecords, VerdictsType DEF EndNow, TypeInv, TypeOK, Call

LEMMA BeginNowTypes ==
    ASSUME TypeInv, NEW s \in Session, BeginNow(s)
    PROVE  TypeInv'
<1> DEFINE c == [call[s] EXCEPT !.at = "run"]
<1>1. c \in Call /\ CallOk(c) /\ c.at = "run"
  BY CallRecords DEF Call
<1>2. call' = [call EXCEPT ![s] = c] /\ s \notin Launching
  BY DEF BeginNow, Launching, Goes, Returns
<1>3. TypeOK /\ UNCHANGED <<tree, riskVars, claims, storeVars, run, written>>
      /\ validateMu' = s /\ saw' = {tree}
  BY DEF TypeInv, BeginNow, Lock
<1>4. /\ call' \in [Session -> Call] /\ RoomKept'
      /\ \A t \in Session : CallOk(call'[t])
  BY <1>1, <1>2, <1>3, CallStep DEF storeVars
<1> QED
  BY <1>3, <1>4, CallTypes DEF TypeOK, riskVars, muVars

LEMMA EndNowTypes ==
    ASSUME TypeInv, NEW s \in Session, EndNow(s)
    PROVE  TypeInv'
<1> DEFINE c == NoCall
<1>1. c \in Call /\ CallOk(c) /\ c.at = "idle"
  BY CallRecords DEF Call
<1>2. call' = [call EXCEPT ![s] = c] /\ s \notin Launching
  BY DEF EndNow, Launching, Goes, Returns
<1>3. TypeOK /\ UNCHANGED <<tree, storeVars, run, written>>
      /\ validateMu' = Nobody /\ saw' = {} /\ claims' = claims \ {s}
  BY DEF TypeInv, EndNow, Unlock
<1>4. /\ call' \in [Session -> Call] /\ RoomKept'
      /\ \A t \in Session : CallOk(call'[t])
  BY <1>1, <1>2, <1>3, CallStep DEF storeVars
<1> QED
  BY <1>3, <1>4, CallTypes, EndNowRisk DEF TypeOK, riskVars, muVars

LEMMA NoSidecarTypes ==
    ASSUME TypeInv, NEW s \in Session, NoSidecar(s)
    PROVE  TypeInv'
<1> DEFINE c == NoCall
<1>1. c \in Call /\ CallOk(c) /\ c.at = "idle"
  BY CallRecords DEF Call
<1>2. call' = [call EXCEPT ![s] = c] /\ s \notin Launching
  BY DEF NoSidecar, Launching, Goes, Returns
<1>3. TypeOK /\ UNCHANGED <<tree, riskVars, storeVars, run, written>>
      /\ validateMu' = Nobody /\ saw' = {} /\ claims' = claims \ {s}
  BY DEF TypeInv, NoSidecar, Unlock
<1>4. /\ call' \in [Session -> Call] /\ RoomKept'
      /\ \A t \in Session : CallOk(call'[t])
  BY <1>1, <1>2, <1>3, CallStep DEF storeVars
<1> QED
  BY <1>3, <1>4, CallTypes DEF TypeOK, riskVars, muVars

LEMMA CollectTypes ==
    ASSUME TypeInv, NEW s \in Session, Collect(s)
    PROVE  TypeInv'
<1>a. PICK now \in Look : call' = [call EXCEPT ![s] = [NoCall EXCEPT !.at = "read", !.start = now]]
  BY DEF Collect
<1>b. now \in Tree
  BY LookType DEF TypeInv
<1> DEFINE c == [NoCall EXCEPT !.at = "read", !.start = now]
<1>1. c \in Call /\ CallOk(c) /\ c.at = "read"
  BY <1>b, CallRecords DEF Call
<1>2. call' = [call EXCEPT ![s] = c] /\ s \notin Launching
  BY <1>a DEF Collect, Launching, Goes, Returns
<1>3. TypeOK /\ UNCHANGED <<tree, riskVars, claims, muVars, storeVars, run, written>>
  BY DEF TypeInv, Collect
<1>4. /\ call' \in [Session -> Call] /\ RoomKept'
      /\ \A t \in Session : CallOk(call'[t])
  BY <1>1, <1>2, <1>3, CallStep DEF storeVars
<1> QED
  BY <1>3, <1>4, CallTypes DEF TypeOK, riskVars, muVars

LEMMA ReadTypes ==
    ASSUME TypeInv, NEW s \in Session, Read(s)
    PROVE  TypeInv'
<1>a. {Reported(i, call[s].start) : i \in Unread} \subseteq Report
  <2> SUFFICES ASSUME NEW i \in Unread PROVE Reported(i, call[s].start) \in Report
    OBVIOUS
  <2>1. i \in TaskId /\ task[i] \in Task
    BY DEF TypeInv, TypeOK, Unread
  <2> QED
    BY <2>1 DEF Reported, Report, Task, Moved
<1> DEFINE c == [call[s] EXCEPT !.at = "write", !.got = {Reported(i, call[s].start) : i \in Unread}]
<1>1. c \in Call /\ CallOk(c) /\ c.at = "write"
  BY <1>a, CallRecords DEF Call
<1>2. call' = [call EXCEPT ![s] = c] /\ s \notin Launching
  BY DEF Read, Launching, Goes, Returns
<1>3. TypeOK /\ UNCHANGED <<tree, riskVars, claims, muVars, storeVars, run, written>>
  BY DEF TypeInv, Read
<1>4. /\ call' \in [Session -> Call] /\ RoomKept'
      /\ \A t \in Session : CallOk(call'[t])
  BY <1>1, <1>2, <1>3, CallStep DEF storeVars
<1> QED
  BY <1>3, <1>4, CallTypes DEF TypeOK, riskVars, muVars

LEMMA WriteTypes ==
    ASSUME TypeInv, NEW s \in Session, Write(s)
    PROVE  TypeInv'
<1> DEFINE c == [call[s] EXCEPT !.at = "ack"]
<1>1. c \in Call /\ CallOk(c) /\ c.at = "ack"
  BY CallRecords DEF Call
<1>2. call' = [call EXCEPT ![s] = c] /\ s \notin Launching
  BY DEF Write, Launching, Goes, Returns
<1>3. TypeOK /\ UNCHANGED <<tree, riskVars, claims, muVars, storeVars, run>>
      /\ written' = written \cup {r.id : r \in call[s].got}
  BY DEF TypeInv, Write
<1>4. /\ call' \in [Session -> Call] /\ RoomKept'
      /\ \A t \in Session : CallOk(call'[t])
  BY <1>1, <1>2, <1>3, CallStep DEF storeVars
<1>5. \A r \in call[s].got : r.id \in TaskId
  BY CallRecords DEF Call, Report
<1>6. written' \subseteq TaskId
  BY <1>3, <1>5 DEF TypeOK
<1> QED
  BY <1>3, <1>4, <1>6, CallTypes DEF TypeOK, riskVars, muVars

LEMMA WriteFailsTypes ==
    ASSUME TypeInv, NEW s \in Session, WriteFails(s)
    PROVE  TypeInv'
<1> DEFINE c == NoCall
<1>1. c \in Call /\ CallOk(c) /\ c.at = "idle"
  BY CallRecords DEF Call
<1>2. call' = [call EXCEPT ![s] = c] /\ s \notin Launching
  BY DEF WriteFails, Launching, Goes, Returns
<1>3. TypeOK /\ UNCHANGED <<tree, riskVars, claims, muVars, storeVars, run, written>>
  BY DEF TypeInv, WriteFails
<1>4. /\ call' \in [Session -> Call] /\ RoomKept'
      /\ \A t \in Session : CallOk(call'[t])
  BY <1>1, <1>2, <1>3, CallStep DEF storeVars
<1> QED
  BY <1>3, <1>4, CallTypes DEF TypeOK, riskVars, muVars

LEMMA BeginTypes ==
    ASSUME TypeInv, NEW i \in TaskId, Begin(i)
    PROVE  TypeInv'
<1> DEFINE r == [run[i] EXCEPT !.at = "run"]
<1>1. r \in Run /\ r.at # "none" /\ (r.copy => r.before # NoTree) /\ i <= started
  BY RunRecords DEF Begin, Run
<1>2. run' = [run EXCEPT ![i] = r] /\ UNCHANGED <<storeVars, call, tree, written, owes, green, claims>>
      /\ validateMu' = i /\ saw' = {IF run[i].copy THEN run[i].before ELSE tree}
  BY DEF Begin, RunGoes, Lock, riskVars
<1>3. saw' \subseteq Content
  BY <1>2, RunRecords DEF Run, TypeInv, TypeOK
<1>4. /\ run' \in [TaskId -> Run] /\ Unstarted'
      /\ \A j \in TaskId : run'[j].copy => run'[j].before # NoTree
  BY <1>1, <1>2, RunStep DEF storeVars
<1> QED
  BY <1>2, <1>3, <1>4, RunTypes DEF TypeInv, TypeOK, storeVars

LEMMA ConcludeTypes ==
    ASSUME TypeInv, NEW i \in TaskId, Conclude(i)
    PROVE  TypeInv'
<1>1. PICK pass \in BOOLEAN :
        /\ run' = [run EXCEPT ![i].at = "finish", ![i].pass = pass]
        /\ green' = IF pass /\ ~run[i].cancelled /\ run[i].before # NoTree
                    THEN run[i].before ELSE green
  BY VerdictsType DEF Conclude
<1> DEFINE r == [run[i] EXCEPT !.at = "finish", !.pass = pass]
<1>2. r \in Run /\ r.at # "none" /\ (r.copy => r.before # NoTree) /\ i <= started
  BY RunRecords, ZenonT(40) DEF Conclude, Run
<1>3. run' = [run EXCEPT ![i] = r] /\ UNCHANGED <<storeVars, call, tree, written, owes>>
      /\ validateMu' = Nobody /\ saw' = {} /\ claims' \subseteq claims
  BY <1>1, ZenonT(40) DEF Conclude, Unlock
<1>4. green' \in Tree
  BY <1>1, RunRecords DEF Run, TypeInv, TypeOK
<1>5. /\ run' \in [TaskId -> Run] /\ Unstarted'
      /\ \A j \in TaskId : run'[j].copy => run'[j].before # NoTree
  BY <1>2, <1>3, RunStep DEF storeVars
<1> QED
  BY <1>3, <1>4, <1>5, RunTypes DEF TypeInv, TypeOK, storeVars

LEMMA FinishTypes ==
    ASSUME TypeInv, NEW i \in TaskId, Finish(i)
    PROVE  TypeInv'
<1>1. PICK after \in Look : run' = [run EXCEPT ![i].at = "record", ![i].after = after]
  BY DEF Finish
<1> DEFINE r == [run[i] EXCEPT !.at = "record", !.after = after]
<1>2. after \in Tree
  BY LookType DEF TypeInv
<1>3. r \in Run /\ r.at # "none" /\ (r.copy => r.before # NoTree) /\ i <= started
  BY <1>2, RunRecords, ZenonT(40) DEF Finish, Run
<1>4. run' = [run EXCEPT ![i] = r]
      /\ UNCHANGED <<tree, riskVars, claims, muVars, storeVars, call, written>>
  BY <1>1 DEF Finish
<1>5. /\ run' \in [TaskId -> Run] /\ Unstarted'
      /\ \A j \in TaskId : run'[j].copy => run'[j].before # NoTree
  BY <1>3, <1>4, RunStep DEF storeVars
<1> QED
  BY <1>4, <1>5, RunTypes DEF TypeInv, TypeOK, storeVars, riskVars, muVars

LEMMA RecordTypes ==
    ASSUME TypeInv, NEW i \in TaskId, Record(i)
    PROVE  TypeInv'
<1> DEFINE r == [run[i] EXCEPT !.at = "tell"]
           t == [task[i] EXCEPT !.running = FALSE, !.pass = run[i].pass,
                                !.stale = Moved(task[i].start, run[i].after)]
<1>1. r \in Run /\ r.at # "none" /\ (r.copy => r.before # NoTree) /\ i <= started
  BY RunRecords DEF Record, Run
<1>2. run' = [run EXCEPT ![i] = r] /\ task' = [task EXCEPT ![i] = t]
      /\ UNCHANGED <<tree, riskVars, claims, muVars, store, started, call, written>>
  BY DEF Record, RunGoes
<1>3. task \in [TaskId -> Task]
  BY DEF TypeInv, TypeOK
<1>a. task[i] \in Task /\ run[i].pass \in BOOLEAN
      /\ Moved(task[i].start, run[i].after) \in BOOLEAN
  BY <1>3, RunRecords DEF Run, Moved
<1>4. t \in Task /\ t.start = task[i].start
  BY <1>a DEF Task
<1>5. task' \in [TaskId -> Task] /\ \A j \in TaskId : task'[j].start = task[j].start
  BY <1>2, <1>3, <1>4
<1>6. /\ run' \in [TaskId -> Run] /\ Unstarted'
      /\ \A j \in TaskId : run'[j].copy => run'[j].before # NoTree
  BY <1>1, <1>2, RunStep
<1> QED
  BY <1>2, <1>5, <1>6, RunTypes DEF TypeInv, TypeOK, riskVars, muVars

LEMMA ForgottenTypes ==
    ASSUME TypeInv, NEW i \in TaskId, Forgotten(i)
    PROVE  TypeInv'
<1> DEFINE r == [NoRun EXCEPT !.at = "done"]
<1>1. r \in Run /\ r.at # "none" /\ (r.copy => r.before # NoTree) /\ i <= started
  BY RunRecords DEF Forgotten, Run
<1>2. run' = [run EXCEPT ![i] = r]
      /\ UNCHANGED <<tree, riskVars, claims, muVars, storeVars, call, written>>
  BY DEF Forgotten, RunEnds
<1>3. /\ run' \in [TaskId -> Run] /\ Unstarted'
      /\ \A j \in TaskId : run'[j].copy => run'[j].before # NoTree
  BY <1>1, <1>2, RunStep DEF storeVars
<1> QED
  BY <1>2, <1>3, RunTypes DEF TypeInv, TypeOK, storeVars, riskVars, muVars

LEMMA TellTypes ==
    ASSUME TypeInv, NEW i \in TaskId, Tell(i)
    PROVE  TypeInv'
<1> DEFINE r == [NoRun EXCEPT !.at = "done"]
<1>1. r \in Run /\ r.at # "none" /\ (r.copy => r.before # NoTree) /\ i <= started
  BY RunRecords DEF Tell, Run
<1>2. run' = [run EXCEPT ![i] = r] /\ owes' \in BOOLEAN
      /\ UNCHANGED <<tree, green, claims, muVars, storeVars, call, written>>
  BY DEF Tell, RunEnds
<1>3. /\ run' \in [TaskId -> Run] /\ Unstarted'
      /\ \A j \in TaskId : run'[j].copy => run'[j].before # NoTree
  BY <1>1, <1>2, RunStep DEF storeVars
<1> QED
  BY <1>2, <1>3, RunTypes DEF TypeInv, TypeOK, storeVars, riskVars, muVars

LEMMA AcknowledgeTypes ==
    ASSUME TypeInv, NEW s \in Session, Acknowledge(s)
    PROVE  TypeInv'
<1>1. call' = [call EXCEPT ![s] = NoCall] /\ s \notin Launching
      /\ NoCall \in Call /\ CallOk(NoCall) /\ NoCall.at = "idle"
  BY CallRecords DEF Acknowledge, Returns, Launching
<1>2. TypeOK /\ UNCHANGED <<tree, riskVars, claims, muVars, store, started, run, written>>
  BY DEF Acknowledge, TypeInv
<1>3. /\ call' \in [Session -> Call] /\ RoomKept'
      /\ \A t \in Session : CallOk(call'[t])
  BY <1>1, <1>2, CallStep
<1>4. ASSUME NEW i \in TaskId
      PROVE  task'[i] \in Task /\ task'[i].start = task[i].start
  <2>1. task[i] \in Task
    BY <1>2 DEF TypeOK
  <2>2. task'[i] = task[i] \/ task'[i] = [task[i] EXCEPT !.delivered = TRUE]
    BY DEF Acknowledge
  <2> QED
    BY <2>1, <2>2 DEF Task
<1>5. task' \in [TaskId -> Task]
  BY <1>4 DEF Acknowledge
<1> QED
  BY <1>2, <1>3, <1>4, <1>5 DEF TypeInv, TypeOK, Unstarted, CopyOfTree, riskVars, muVars

LEMMA EditTypes == ASSUME TypeInv, Edit PROVE TypeInv'
<1>1. TypeOK /\ UNCHANGED <<riskVars, claims, validateMu, storeVars, run, call, written>>
  BY DEF TypeInv, Edit
<1>2. tree' \in Content /\ saw' \subseteq Content
  BY <1>1 DEF TypeOK, Edit
<1>3. Launching' = Launching
  BY <1>1 DEF Launching
<1> QED
  BY <1>1, <1>2, <1>3 DEF TypeInv, TypeOK, RoomKept, Unstarted, CopyOfTree, riskVars, storeVars

LEMMA NextTypes == ASSUME TypeInv, [Next]_vars PROVE TypeInv'
<1>1. ASSUME NEW s \in Session, Request(s) \/ Collect(s) \/ Handles(s)
      PROVE  TypeInv'
  BY <1>1, RequestTypes, CollectTypes, SnapshotTypes, SupersedeTypes, FingerprintTypes,
     AddTypes, RefuseTypes, HoldTypes, BeginNowTypes, EndNowTypes, NoSidecarTypes,
     ReadTypes, WriteTypes, WriteFailsTypes, AcknowledgeTypes
     DEF Handles
<1>2. ASSUME NEW i \in TaskId, Runs(i)
      PROVE  TypeInv'
  BY <1>2, BeginTypes, ConcludeTypes, FinishTypes, RecordTypes, ForgottenTypes, TellTypes
     DEF Runs
<1>3. CASE UNCHANGED vars
  <2>1. Launching' = Launching
    BY <1>3 DEF Launching, vars
  <2> QED
    BY <1>3, <2>1 DEF vars, riskVars, muVars, storeVars, TypeInv, TypeOK, RoomKept,
                      Unstarted, CopyOfTree
<1> QED
  BY <1>1, <1>2, <1>3, EditTypes DEF Next

LEMMA TypesAlways == Spec => []TypeInv
<1>1. TypeInv /\ [Next]_vars => TypeInv'
  BY NextTypes
<1> QED
  BY <1>1, InitTypes, PTL DEF Spec

\* Every variable of the model keeps its type, for every value of the constants.
THEOREM TasksTypes == Spec => []TypeOK
<1>1. TypeInv => TypeOK
  BY DEF TypeInv
<1> QED
  BY <1>1, TypesAlways, PTL

-----------------------------------------------------------------------------
(* Delivery. *)

AckWritten ==
    \A s \in Session : call[s].at = "ack" => \A r \in call[s].got : r.id \in written

DeliveryInv == DeliveredMeansWritten /\ AckWritten

\* What is acknowledged anew in a step is what was written before.
LEMMA DeliveryKept ==
    ASSUME TypeInv, DeliveryInv,
           written \subseteq written',
           \A i \in TaskId : task'[i].delivered => task[i].delivered \/ i \in written,
           \A s \in Session : call'[s].at = "ack" => call'[s] = call[s]
    PROVE  DeliveryInv'
  BY DEF DeliveryInv, DeliveredMeansWritten, AckWritten

\* Where a step of a handler leads.
LEMMA StepAt ==
    ASSUME TypeInv, NEW s \in Session
    PROVE  /\ Request(s) => call'[s].at \in {"hold", "snapshot"}
           /\ Snapshot(s) => call'[s].at = "supersede"
           /\ Supersede(s) => call'[s].at = "fingerprint"
           /\ Fingerprint(s) => call'[s].at = "add"
           /\ Refuse(s) => \/ call'[s].at = "hold" /\ claims' = claims
                           \/ call'[s].at = "idle" /\ claims' = claims \ {s}
           /\ Hold(s) => call'[s].at = "wait"
           /\ BeginNow(s) => call'[s].at = "run"
           /\ EndNow(s) \/ NoSidecar(s) \/ WriteFails(s) => call'[s].at = "idle"
           /\ Collect(s) => call'[s].at = "read"
           /\ Read(s) => call'[s].at = "write"
           /\ Write(s) => call'[s].at = "ack"
<1>1. call \in [Session -> Call] /\ NoCall \in Call /\ NoCall.at = "idle"
  BY CallRecords DEF TypeInv, TypeOK
<1>2. ASSUME NEW at, Goes(s, at) PROVE call'[s].at = at
  BY <1>1, <1>2 DEF Goes, Call
<1>3. Returns(s) => call'[s].at = "idle"
  BY <1>1 DEF Returns
<1>4. ASSUME Request(s) PROVE call'[s].at \in {"hold", "snapshot"}
  <2>1. CASE call' = [call EXCEPT ![s].at = "hold", ![s].waits = TRUE]
    BY <1>1, <2>1 DEF Call
  <2>2. CASE \E waits \in BOOLEAN :
                call' = [call EXCEPT ![s].at = "snapshot", ![s].waits = waits]
    BY <1>1, <2>2 DEF Call
  <2> QED
    BY <1>4, <2>1, <2>2 DEF Request
<1>5. Snapshot(s) => call'[s].at = "supersede"
  BY <1>1 DEF Snapshot, Call
<1>6. Fingerprint(s) => call'[s].at = "add"
  BY <1>1 DEF Fingerprint, Call
<1>7. Refuse(s) => \/ call'[s].at = "hold" /\ claims' = claims
                   \/ call'[s].at = "idle" /\ claims' = claims \ {s}
  BY <1>1, <1>3 DEF Refuse, Call
<1>8. Hold(s) => call'[s].at = "wait"
  BY <1>1 DEF Hold, Call
<1>9. Collect(s) => call'[s].at = "read"
  BY <1>1 DEF Collect, NoCall
<1>10. Read(s) => call'[s].at = "write"
  BY <1>1 DEF Read, Call
<1>11. /\ Supersede(s) => Goes(s, "fingerprint")
       /\ BeginNow(s) => Goes(s, "run")
       /\ EndNow(s) \/ NoSidecar(s) \/ WriteFails(s) => Returns(s)
       /\ Write(s) => Goes(s, "ack")
  BY DEF Supersede, BeginNow, EndNow, NoSidecar, WriteFails, Write
<1>12. /\ Supersede(s) => call'[s].at = "fingerprint"
       /\ BeginNow(s) => call'[s].at = "run"
       /\ Write(s) => call'[s].at = "ack"
  BY <1>2, <1>11
<1>13. EndNow(s) \/ NoSidecar(s) \/ WriteFails(s) => call'[s].at = "idle"
  BY <1>3, <1>11
<1> QED
  BY <1>4, <1>5, <1>6, <1>7, <1>8, <1>9, <1>10, <1>12, <1>13

LEMMA HandlesDelivery ==
    ASSUME TypeInv, DeliveryInv, NEW s \in Session, Request(s) \/ Collect(s) \/ Handles(s)
    PROVE  DeliveryInv'
<1> USE DEF storeVars
<1>1. call \in [Session -> Call] /\ task \in [TaskId -> Task] /\ NoCall.at = "idle"
  BY DEF TypeInv, TypeOK, NoCall
<1>2. \A t \in Session : t # s => call'[t] = call[t]
  BY <1>1 DEF Handles, Request, Collect, Snapshot, Supersede, Fingerprint, Add, Refuse, Hold,
        BeginNow, EndNow, NoSidecar, Read, Write, WriteFails, Acknowledge, Goes, Returns
<1>3. CASE Write(s)
  <2>1. /\ written' = written \cup {r.id : r \in call[s].got} /\ task' = task
        /\ call' = [call EXCEPT ![s].at = "ack"]
    BY <1>3 DEF Write, Goes
  <2>2. call'[s].got = call[s].got
    BY <1>1, <2>1 DEF Call
  <2> QED
    BY <1>2, <2>1, <2>2 DEF DeliveryInv, DeliveredMeansWritten, AckWritten
<1>4. CASE Acknowledge(s)
  <2>1. call[s].at = "ack" /\ written' = written /\ call'[s] = NoCall
        /\ task' = [i \in TaskId |-> IF i \in store \cap {r.id : r \in call[s].got}
                                     THEN [task[i] EXCEPT !.delivered = TRUE] ELSE task[i]]
    BY <1>1, <1>4 DEF Acknowledge, Returns
  <2>2. \A i \in TaskId : task'[i].delivered => task[i].delivered \/ i \in written
    BY <2>1 DEF DeliveryInv, AckWritten
  <2> QED
    BY <1>1, <1>2, <2>1, <2>2, DeliveryKept
<1>5. CASE Supersede(s)
  <2>1. written' = written /\ task' = Without(Pointless) /\ call'[s].at = "fingerprint"
    BY <1>1, <1>5 DEF Supersede, Goes
  <2> QED
    BY <1>2, <2>1, DeliveryKept DEF Without, NoTask
<1>6. CASE Add(s)
  <2>1. /\ written' = written /\ call'[s] = NoCall
        /\ task' = [Without(Evicted) EXCEPT ![started + 1] =
                      [NoTask EXCEPT !.running = TRUE, !.snapshot = call[s].copy,
                                     !.start = call[s].start]]
    BY <1>1, <1>6 DEF Add, Returns
  <2>2. \A i \in TaskId : task'[i].delivered => task[i].delivered
    BY <2>1 DEF Without, NoTask
  <2> QED
    BY <1>1, <1>2, <2>1, <2>2, DeliveryKept
<1>7. CASE \/ Request(s) \/ Collect(s) \/ Snapshot(s) \/ Fingerprint(s) \/ Refuse(s)
           \/ Hold(s) \/ BeginNow(s) \/ EndNow(s) \/ NoSidecar(s) \/ Read(s) \/ WriteFails(s)
  <2>1. written' = written /\ task' = task
    BY <1>7 DEF Request, Collect, Snapshot, Fingerprint, Refuse, Hold, BeginNow, EndNow,
                NoSidecar, Read, WriteFails
  <2>2. call'[s].at # "ack"
    BY <1>7, StepAt
  <2> QED
    BY <1>2, <2>1, <2>2, DeliveryKept
<1> QED
  BY <1>3, <1>4, <1>5, <1>6, <1>7 DEF Handles

LEMMA RunsDelivery ==
    ASSUME TypeInv, DeliveryInv, NEW i \in TaskId, Runs(i)
    PROVE  DeliveryInv'
<1> USE DEF storeVars
<1>1. written' = written /\ call' = call
  BY DEF Runs, Begin, Conclude, Finish, Record, Forgotten, Tell
<1>2. CASE Record(i)
  <2>1. \A j \in TaskId : task'[j].delivered = task[j].delivered
    BY <1>2 DEF Record, TypeInv, TypeOK, Task
  <2> QED
    BY <1>1, <2>1, DeliveryKept
<1>3. CASE ~Record(i)
  <2>1. task' = task
    BY <1>3 DEF Runs, Begin, Conclude, Finish, Forgotten, Tell
  <2> QED
    BY <1>1, <2>1, DeliveryKept
<1> QED
  BY <1>2, <1>3

\* Nothing is stamped as delivered that was not written to a caller.
THEOREM DeliveredAlways == Spec => []DeliveredMeansWritten
<1>1. Init => DeliveryInv
  BY DEF Init, DeliveryInv, DeliveredMeansWritten, AckWritten, NoTask, NoCall
<1>2. TypeInv /\ DeliveryInv /\ [Next]_vars => DeliveryInv'
  <2> SUFFICES ASSUME TypeInv, DeliveryInv, [Next]_vars PROVE DeliveryInv'
    OBVIOUS
  <2>1. CASE Edit \/ UNCHANGED vars
    <3>1. UNCHANGED <<task, call, written>>
      BY <2>1 DEF Edit, vars, storeVars
    <3> QED
      BY <3>1, DeliveryKept
  <2> QED
    BY <2>1, HandlesDelivery, RunsDelivery DEF Next
<1>3. DeliveryInv => DeliveredMeansWritten
  BY DEF DeliveryInv
<1> QED
  BY <1>1, <1>2, <1>3, TypesAlways, PTL DEF Spec

-----------------------------------------------------------------------------
(* Claims. *)

LEMMA HandlesClaims ==
    ASSUME TypeInv, ClaimsFreed, NEW s \in Session, Request(s) \/ Collect(s) \/ Handles(s)
    PROVE  ClaimsFreed'
<1> USE DEF storeVars
<1>1. call \in [Session -> Call] /\ run \in [TaskId -> Run] /\ NoCall.at = "idle"
  BY DEF TypeInv, TypeOK, NoCall
<1>2. \A t \in Session : t # s => call'[t] = call[t]
  BY <1>1 DEF Handles, Request, Collect, Snapshot, Supersede, Fingerprint, Add, Refuse, Hold,
        BeginNow, EndNow, NoSidecar, Read, Write, WriteFails, Acknowledge, Goes, Returns
<1>3. CASE Add(s)
  <2> DEFINE n == started + 1
  <2>0. TypeInv'
    BY <1>3, AddTypes
  <2>1a. started \in Nat /\ started' = n /\ claims' = claims
    BY <1>3 DEF TypeInv, TypeOK, Add
  <2>1b. started' \in 0..MaxTasks
    BY <2>0 DEF TypeInv, TypeOK
  <2>1c. n \in TaskId
    BY <2>1a, <2>1b, BoundsAssumption DEF TaskId
  <2>1. n \in TaskId /\ run[n].at = "none" /\ claims' = claims
    BY <2>1a, <2>1c DEF TypeInv, Unstarted
  <2>2. run'[n].by = s /\ run'[n].at = "queued"
        /\ \A i \in TaskId : i # n => run'[i] = run[i]
    BY <1>1, <1>3, <2>1 DEF Add, NoRun
  <2>3. claims \subseteq Session
    BY DEF TypeInv, TypeOK
  <2>4. ASSUME NEW t \in claims, t # s
        PROVE  \/ call'[t].at \notin {"idle", "read", "write", "ack"}
               \/ \E i \in TaskId : run'[i].by = t /\ run'[i].at \in {"queued", "run"}
    BY <1>2, <2>1, <2>2, <2>3, <2>4 DEF ClaimsFreed
  <2> QED
    BY <2>1, <2>2, <2>4 DEF ClaimsFreed
<1>4. CASE ~Add(s)
  <2>1. \A i \in TaskId : run'[i].by = run[i].by /\ run'[i].at = run[i].at
    <3>1. CASE Supersede(s)
      BY <1>1, <3>1 DEF Supersede, Run
    <3>2. CASE ~Supersede(s)
      BY <1>4, <3>2 DEF Handles, Request, Collect, Snapshot, Fingerprint, Refuse, Hold,
            BeginNow, EndNow, NoSidecar, Read, Write, WriteFails, Acknowledge
    <3> QED
      BY <3>1, <3>2
  <2>2. \A t \in claims' : t # s => t \in claims
    BY <1>4 DEF Handles, Request, Collect, Snapshot, Supersede, Fingerprint, Refuse, Hold,
          BeginNow, EndNow, NoSidecar, Read, Write, WriteFails, Acknowledge
  <2>3. \/ s \notin claims'
        \/ call'[s].at \notin {"idle", "read", "write", "ack"}
        \/ s \in claims /\ call[s].at \in {"idle", "read", "write", "ack"}
    <3>1. CASE Request(s) \/ Snapshot(s) \/ Supersede(s) \/ Fingerprint(s) \/ Hold(s) \/ BeginNow(s)
      BY <3>1, StepAt
    <3>2. CASE EndNow(s) \/ NoSidecar(s)
      BY <3>2 DEF EndNow, NoSidecar
    <3>3. CASE Refuse(s)
      BY <3>3, StepAt
    <3>4. CASE Collect(s) \/ Read(s) \/ Write(s) \/ WriteFails(s) \/ Acknowledge(s)
      BY <3>4 DEF Collect, Read, Write, WriteFails, Acknowledge
    <3> QED
      BY <1>4, <3>1, <3>2, <3>3, <3>4 DEF Handles
  <2>4. claims \subseteq Session
    BY DEF TypeInv, TypeOK
  <2>5. ASSUME NEW t \in claims'
        PROVE  \/ call'[t].at \notin {"idle", "read", "write", "ack"}
               \/ \E i \in TaskId : run'[i].by = t /\ run'[i].at \in {"queued", "run"}
    BY <1>2, <2>1, <2>2, <2>3, <2>4 DEF ClaimsFreed
  <2> QED
    BY <2>5 DEF ClaimsFreed
<1> QED
  BY <1>3, <1>4

LEMMA RunsClaims ==
    ASSUME TypeInv, ClaimsFreed, NEW i \in TaskId, Runs(i)
    PROVE  ClaimsFreed'
<1> USE DEF storeVars
<1>1. run \in [TaskId -> Run] /\ call' = call
  BY DEF TypeInv, TypeOK, Runs, Begin, Conclude, Finish, Record, Forgotten, Tell
<1>2. CASE Conclude(i)
  <2>1. claims' = claims \ {run[i].by} /\ \A j \in TaskId : j # i => run'[j] = run[j]
    BY <1>1, <1>2 DEF Conclude
  <2> QED
    BY <1>1, <2>1 DEF ClaimsFreed
<1>3. CASE Begin(i)
  <2>1. claims' = claims /\ run' = [run EXCEPT ![i].at = "run"]
    BY <1>3 DEF Begin, RunGoes
  <2>2. \A j \in TaskId : /\ run'[j].by = run[j].by
                          /\ run[j].at \in {"queued", "run"} => run'[j].at \in {"queued", "run"}
    BY <1>1, <2>1 DEF Run
  <2> QED
    BY <1>1, <2>2, <2>1 DEF ClaimsFreed
<1>4. CASE Finish(i) \/ Record(i) \/ Forgotten(i) \/ Tell(i)
  <2>1. claims' = claims /\ run[i].at \notin {"queued", "run"}
        /\ \A j \in TaskId : j # i => run'[j] = run[j]
    BY <1>1, <1>4 DEF Finish, Record, Forgotten, Tell, RunGoes, RunEnds
  <2> QED
    BY <1>1, <2>1 DEF ClaimsFreed
<1> QED
  BY <1>2, <1>3, <1>4 DEF Runs

\* A claim always has a handler or a run that will release it: none is left to
\* expire, however runs are refused, superseded and forgotten.
THEOREM ClaimsAlways == Spec => []ClaimsFreed
<1>1. Init => ClaimsFreed
  BY DEF Init, ClaimsFreed
<1>2. TypeInv /\ ClaimsFreed /\ [Next]_vars => ClaimsFreed'
  <2> SUFFICES ASSUME TypeInv, ClaimsFreed, [Next]_vars PROVE ClaimsFreed'
    OBVIOUS
  <2>1. CASE Edit \/ UNCHANGED vars
    BY <2>1 DEF Edit, vars, ClaimsFreed
  <2> QED
    BY <2>1, HandlesClaims, RunsClaims DEF Next
<1> QED
  BY <1>1, <1>2, TypesAlways, PTL DEF Spec

-----------------------------------------------------------------------------
(* Verdicts. *)

\* What is known of a run whose task is filed, if the tree never returns to a
\* content it had: what it has read lies between the content it is judged by and
\* the tree, so if the tree has not moved it has read that and nothing else.
RunOk(i) ==
    /\ task[i].start <= tree
    /\ ~run[i].cancelled
    /\ run[i].at \in {"queued", "run", "finish", "record"} => task[i].snapshot = run[i].copy
    /\ run[i].at = "run" /\ ~run[i].copy =>
          tree \in saw /\ \A c \in saw : task[i].start <= c /\ c <= tree
    /\ run[i].at = "finish" /\ ~run[i].copy /\ task[i].start = tree =>
          (run[i].pass <=> task[i].start \notin Bad)
    /\ run[i].at = "record" /\ ~run[i].copy /\ task[i].start = run[i].after =>
          (run[i].pass <=> task[i].start \notin Bad)
    /\ ~task[i].running /\ ~task[i].snapshot /\ ~task[i].stale =>
          (task[i].pass <=> task[i].start \notin Bad)

RunsOk == \A i \in store : RunOk(i)

\* Who runs holds validateMu.
TurnsOk ==
    /\ \A i \in TaskId : run[i].at = "run" => validateMu = i
    /\ \A s \in Session : call[s].at = "run" => validateMu = s

LooksPast == \A s \in Session : call[s].start <= tree

VerdictInv == RunsOk /\ TurnsOk /\ LooksPast /\ VerdictOfTheTree

LEMMA RunKept ==
    ASSUME RunsOk, NEW i \in store, run'[i] = run[i], tree' = tree,
           saw' = saw \/ run[i].at # "run",
           task'[i].start = task[i].start, task'[i].snapshot = task[i].snapshot,
           task'[i].running = task[i].running, task'[i].stale = task[i].stale,
           task'[i].pass = task[i].pass
    PROVE  RunOk(i)'
  BY DEF RunsOk, RunOk

LEMMA VerdictKept ==
    ASSUME TypeInv, VerdictOfTheTree, NEW s \in Session,
           \A t \in Session : t # s => call'[t] = call[t],
           \/ call'[s].at \notin {"write", "ack"}
           \/ /\ call[s].at = "write" /\ call'[s].start = call[s].start
              /\ call'[s].got = call[s].got
    PROVE  VerdictOfTheTree'
  BY DEF VerdictOfTheTree

\* A handler looks at the tree as it is.
LEMMA StepStart ==
    ASSUME TypeInv, LooksPast, NEW s \in Session, Request(s) \/ Collect(s) \/ Handles(s)
    PROVE  LooksPast'
<1>1. call \in [Session -> Call] /\ tree \in Content /\ NoCall.start = -1
  BY DEF TypeInv, TypeOK, NoCall
<1>2. tree' = tree /\ \A t \in Session : t # s => call'[t] = call[t]
  BY <1>1 DEF Handles, Request, Collect, Snapshot, Supersede, Fingerprint, Add, Refuse, Hold,
        BeginNow, EndNow, NoSidecar, Read, Write, WriteFails, Acknowledge, Goes, Returns
<1>3. Look \subseteq {tree, NoTree} /\ \A l \in Look : l <= tree
  BY <1>1, BoundsAssumption DEF Look
<1>4. call'[s].start \in Look \cup {call[s].start, NoTree}
  <2>1. ASSUME Request(s) PROVE call'[s].start = call[s].start
    <3>1. CASE call' = [call EXCEPT ![s].at = "hold", ![s].waits = TRUE]
      BY <1>1, <3>1 DEF Call
    <3>2. CASE \E waits \in BOOLEAN :
                  call' = [call EXCEPT ![s].at = "snapshot", ![s].waits = waits]
      BY <1>1, <3>2 DEF Call
    <3> QED
      BY <2>1, <3>1, <3>2 DEF Request
  <2>2. Collect(s) => call'[s].start \in Look
    BY <1>1 DEF Collect, NoCall
  <2>3. Snapshot(s) => call'[s].start = call[s].start
    BY <1>1 DEF Snapshot, Call
  <2>4. Fingerprint(s) => call'[s].start \in Look
    BY <1>1 DEF Fingerprint, Call
  <2>5. Hold(s) => call'[s].start = call[s].start
    BY <1>1 DEF Hold, Call
  <2>6. Read(s) => call'[s].start = call[s].start
    BY <1>1 DEF Read, Call
  <2>7. ASSUME NEW at, Goes(s, at) PROVE call'[s].start = call[s].start
    BY <1>1, <2>7 DEF Goes, Call
  <2>8. Returns(s) => call'[s].start = -1
    BY <1>1 DEF Returns
  <2>9. Refuse(s) => call'[s].start \in {call[s].start, NoTree}
    BY <1>1, <2>8 DEF Refuse, Call
  <2>10. /\ Supersede(s) => Goes(s, "fingerprint")
         /\ BeginNow(s) => Goes(s, "run")
         /\ Write(s) => Goes(s, "ack")
         /\ Add(s) \/ EndNow(s) \/ NoSidecar(s) \/ WriteFails(s) \/ Acknowledge(s) => Returns(s)
    BY DEF Supersede, BeginNow, Write, Add, EndNow, NoSidecar, WriteFails, Acknowledge
  <2>11. Supersede(s) \/ BeginNow(s) \/ Write(s) => call'[s].start = call[s].start
    BY <2>7, <2>10
  <2>12. Add(s) \/ EndNow(s) \/ NoSidecar(s) \/ WriteFails(s) \/ Acknowledge(s)
         => call'[s].start = -1
    BY <2>8, <2>10
  <2> QED
    BY <2>1, <2>2, <2>3, <2>4, <2>5, <2>6, <2>9, <2>11, <2>12 DEF Handles
<1>5. call'[s].start <= tree
  <2>1. CASE call'[s].start = call[s].start
    BY <2>1 DEF LooksPast
  <2>2. CASE call'[s].start = NoTree
    BY <1>1, <2>2
  <2>3. CASE call'[s].start \in Look
    BY <1>3, <2>3
  <2> QED
    BY <1>4, <2>1, <2>2, <2>3
<1> QED
  BY <1>2, <1>5 DEF LooksPast

\* Handlers that leave the runs, the store and the turn alone.
LEMMA QuietVerdict ==
    ASSUME TypeInv, VerdictInv, NEW s \in Session,
           \/ Request(s) \/ Collect(s) \/ Snapshot(s) \/ Fingerprint(s) \/ Refuse(s)
           \/ Hold(s) \/ Read(s) \/ Write(s) \/ WriteFails(s)
    PROVE  VerdictInv'
<1> USE DEF storeVars, muVars
<1>1. call \in [Session -> Call] /\ task \in [TaskId -> Task] /\ tree \in Content
  BY DEF TypeInv, TypeOK
<1>2. UNCHANGED <<tree, validateMu, saw, store, task, run>>
  BY DEF Request, Collect, Snapshot, Fingerprint, Refuse, Hold, Read, Write, WriteFails
<1>3. \A t \in Session : t # s => call'[t] = call[t]
  BY <1>1 DEF Request, Collect, Snapshot, Fingerprint, Refuse, Hold, Read, Write, WriteFails,
        Goes, Returns
<1>4. RunsOk'
  BY <1>2, RunKept DEF VerdictInv, RunsOk
<1>5. TurnsOk'
  BY <1>2, <1>3, StepAt DEF VerdictInv, TurnsOk
<1>6. LooksPast'
  BY StepStart DEF VerdictInv, Handles
<1>7. VerdictOfTheTree'
  <2>1. CASE Read(s)
    <3>1. /\ call'[s].start = call[s].start
          /\ call'[s].got = {Reported(i, call[s].start) : i \in Unread}
      BY <1>1, <2>1 DEF Read, Call
    <3>2. ASSUME NEW i \in Unread, ~Reported(i, call[s].start).stale,
                 ~Reported(i, call[s].start).snapshot
          PROVE  Reported(i, call[s].start).pass <=> call[s].start \notin Bad
      <4>1. i \in store /\ i \in TaskId /\ ~task[i].running
        BY DEF Unread, TypeInv, TypeOK
      <4>2. ~task[i].stale /\ ~task[i].snapshot /\ task[i].start = call[s].start
        BY <3>2 DEF Reported, Moved
      <4>3. task[i].pass <=> task[i].start \notin Bad
        BY <4>1, <4>2 DEF VerdictInv, RunsOk, RunOk
      <4>4. Reported(i, call[s].start).pass <=> task[i].pass
        BY <3>2 DEF Reported
      <4> QED
        BY <4>2, <4>3, <4>4
    <3>3. \A r \in call'[s].got : ~r.stale /\ ~r.snapshot => (r.pass <=> call'[s].start \notin Bad)
      BY <3>1, <3>2
    <3> QED
      BY <1>3, <3>3 DEF VerdictInv, VerdictOfTheTree
  <2>2. CASE Write(s)
    <3>1. call[s].at = "write" /\ call'[s].start = call[s].start /\ call'[s].got = call[s].got
      BY <1>1, <2>2 DEF Write, Goes, Call
    <3> QED
      BY <1>3, <3>1, VerdictKept DEF VerdictInv
  <2>3. CASE \/ Request(s) \/ Collect(s) \/ Snapshot(s) \/ Fingerprint(s) \/ Refuse(s)
             \/ Hold(s) \/ WriteFails(s)
    BY <1>3, <2>3, StepAt, VerdictKept DEF VerdictInv
  <2> QED
    BY <2>1, <2>2, <2>3
<1> QED
  BY <1>4, <1>5, <1>6, <1>7 DEF VerdictInv

LEMMA HandlesVerdict ==
    ASSUME TypeInv, VerdictInv, NEW s \in Session,
           \/ Supersede(s) \/ Add(s) \/ BeginNow(s) \/ EndNow(s) \/ NoSidecar(s)
           \/ Acknowledge(s)
    PROVE  VerdictInv'
<1> USE DEF storeVars, muVars
<1>1. /\ call \in [Session -> Call] /\ task \in [TaskId -> Task] /\ run \in [TaskId -> Run]
      /\ store \subseteq TaskId /\ tree \in Content /\ NoCall.at = "idle"
  BY DEF TypeInv, TypeOK, NoCall
<1>2. tree' = tree /\ \A t \in Session : t # s => call'[t] = call[t]
  BY <1>1 DEF Supersede, Add, BeginNow, EndNow, NoSidecar, Acknowledge, Goes, Returns
<1>3. LooksPast'
  BY StepStart DEF VerdictInv, Handles
<1>4. call'[s].at \notin {"write", "ack"}
  <2>1. Add(s) \/ Acknowledge(s) => call'[s].at = "idle"
    BY <1>1 DEF Add, Acknowledge, Returns
  <2> QED
    BY <2>1, StepAt
<1>5. VerdictOfTheTree'
  BY <1>2, <1>4, VerdictKept DEF VerdictInv
<1>6. RunsOk' /\ TurnsOk'
  <2>1. CASE Supersede(s)
    <3>1. /\ validateMu' = validateMu /\ saw' = saw /\ store' = store \ Pointless
          /\ call'[s].at = "fingerprint"
      BY <2>1, StepAt DEF Supersede
    <3>2. \A i \in store' : i \in store /\ run'[i] = run[i] /\ task'[i] = task[i]
      BY <1>1, <2>1, <3>1 DEF Supersede, Without
    <3>3. \A i \in TaskId : run'[i].at = run[i].at
      BY <1>1, <2>1 DEF Supersede, Run
    <3> QED
      BY <1>1, <1>2, <3>1, <3>2, <3>3, RunKept DEF VerdictInv, TurnsOk, RunsOk
  <2>2. CASE Add(s)
    <3>0. TypeInv'
      BY <2>2, AddTypes
    <3>1. started' = started + 1 /\ started \in Nat
      BY <2>2 DEF TypeInv, TypeOK, Add
    <3>a. started' \in 0..MaxTasks
      BY <3>0 DEF TypeInv, TypeOK
    <3>2. PICK n \in TaskId : n = started + 1
      BY <3>1, <3>a
    <3>4. /\ validateMu' = validateMu /\ saw' = saw /\ store' = (store \ Evicted) \cup {n}
          /\ call'[s].at = "idle"
      BY <1>1, <2>2, <3>2 DEF Add, Returns
    <3>5. /\ task'[n] = [NoTask EXCEPT !.running = TRUE, !.snapshot = call[s].copy,
                                       !.start = call[s].start]
          /\ run'[n] = [NoRun EXCEPT !.at = "queued", !.by = s, !.before = call[s].before,
                                     !.copy = call[s].copy]
      BY <1>1, <2>2, <3>2 DEF Add, Without
    <3>b. /\ task'[n].running /\ task'[n].snapshot = call[s].copy
          /\ task'[n].start = call[s].start
      BY <3>5 DEF NoTask
    <3>c. run'[n].at = "queued" /\ ~run'[n].cancelled /\ run'[n].copy = call[s].copy
      BY <3>5 DEF NoRun
    <3>d. task'[n].start <= tree'
      BY <1>2, <3>b DEF VerdictInv, LooksPast
    <3>6. RunOk(n)'
      BY <3>b, <3>c, <3>d DEF RunOk
    <3>7. \A i \in TaskId : i # n => run'[i] = run[i]
      BY <1>1, <2>2, <3>2 DEF Add
    <3>8. \A i \in store' : i # n => i \in store /\ task'[i] = task[i]
      BY <1>1, <2>2, <3>2, <3>4 DEF Add, Without
    <3>9. ASSUME NEW i \in store' PROVE RunOk(i)'
      <4>1. CASE i = n
        BY <3>6, <4>1
      <4>2. CASE i # n
        <5>1. i \in store /\ i \in TaskId /\ task'[i] = task[i] /\ run'[i] = run[i]
          BY <1>1, <3>7, <3>8, <4>2
        <5> QED
          BY <1>2, <3>4, <5>1, RunKept DEF VerdictInv
      <4> QED
        BY <4>1, <4>2
    <3>10. run'[n].at = "queued"
      BY <3>5 DEF NoRun
    <3>11. TurnsOk'
      BY <1>2, <3>4, <3>7, <3>10 DEF VerdictInv, TurnsOk
    <3> QED
      BY <3>9, <3>11 DEF RunsOk
  <2>3. CASE BeginNow(s)
    <3>1. /\ validateMu = Nobody /\ validateMu' = s /\ UNCHANGED <<store, task, run>>
      BY <2>3 DEF BeginNow, Lock
    <3>2. \A i \in TaskId : run[i].at # "run"
      BY <3>1, ProcessAssumption DEF VerdictInv, TurnsOk
    <3>3. \A t \in Session : call[t].at # "run"
      BY <3>1, ProcessAssumption DEF VerdictInv, TurnsOk
    <3> QED
      BY <1>1, <1>2, <3>1, <3>2, <3>3, RunKept DEF VerdictInv, TurnsOk, RunsOk
  <2>4. CASE EndNow(s) \/ NoSidecar(s)
    <3>1. call[s].at = "run" /\ UNCHANGED <<store, task, run>> /\ call'[s].at = "idle"
      BY <2>4, StepAt DEF EndNow, NoSidecar
    <3>2. validateMu = s
      BY <3>1 DEF VerdictInv, TurnsOk
    <3>3. \A i \in TaskId : run[i].at # "run"
      BY <3>2, ProcessAssumption DEF VerdictInv, TurnsOk
    <3>4. \A t \in Session : t # s => call[t].at # "run"
      BY <3>2 DEF VerdictInv, TurnsOk
    <3> QED
      BY <1>1, <1>2, <3>1, <3>3, <3>4, RunKept DEF VerdictInv, TurnsOk, RunsOk
  <2>5. CASE Acknowledge(s)
    <3>1. /\ UNCHANGED <<validateMu, saw, store, run>> /\ call'[s].at = "idle"
      BY <1>1, <2>5 DEF Acknowledge, Returns
    <3>2. \A i \in TaskId : \/ task'[i] = task[i]
                            \/ task'[i] = [task[i] EXCEPT !.delivered = TRUE]
      BY <1>1, <2>5 DEF Acknowledge
    <3>3. \A i \in TaskId :
             /\ task'[i].start = task[i].start /\ task'[i].snapshot = task[i].snapshot
             /\ task'[i].running = task[i].running /\ task'[i].stale = task[i].stale
             /\ task'[i].pass = task[i].pass
      BY <1>1, <3>2, ZenonT(40) DEF Task
    <3>4. RunsOk'
      BY <1>1, <1>2, <3>1, <3>3, RunKept DEF VerdictInv, RunsOk
    <3> QED
      BY <1>2, <3>1, <3>4 DEF VerdictInv, TurnsOk
  <2> QED
    BY <2>1, <2>2, <2>3, <2>4, <2>5
<1> QED
  BY <1>3, <1>5, <1>6 DEF VerdictInv


LEMMA RunsVerdict ==
    ASSUME TypeInv, VerdictInv, NEW i \in TaskId, Runs(i)
    PROVE  VerdictInv'
<1> USE DEF storeVars, muVars
<1>1. /\ task \in [TaskId -> Task] /\ run \in [TaskId -> Run]
      /\ store \subseteq TaskId /\ tree \in Content /\ saw \subseteq Content
      /\ \A j \in store : task[j].start \in Content
  BY DEF TypeInv, TypeOK, Task
<1>2. UNCHANGED <<tree, call, store>>
  BY DEF Runs, Begin, Conclude, Finish, Record, Forgotten, Tell
<1>3. LooksPast' /\ VerdictOfTheTree'
  BY <1>2 DEF VerdictInv, LooksPast, VerdictOfTheTree
<1>4. \A j \in TaskId : j # i => run'[j] = run[j] /\ task'[j] = task[j]
  BY <1>1 DEF Runs, Begin, Conclude, Finish, Record, Forgotten, Tell, RunGoes, RunEnds
<1>5. ASSUME \/ validateMu' = validateMu /\ saw' = saw
             \/ \A j \in TaskId : j # i => run[j].at # "run",
             i \in store => RunOk(i)'
      PROVE  RunsOk'
  BY <1>1, <1>2, <1>4, <1>5, RunKept DEF VerdictInv, RunsOk
<1>6. CASE Begin(i)
  <2>1. /\ validateMu = Nobody /\ validateMu' = i /\ task' = task /\ run[i].at = "queued"
        /\ saw' = {IF run[i].copy THEN run[i].before ELSE tree}
    BY <1>6 DEF Begin, Lock
  <2>2. run'[i] = [run[i] EXCEPT !.at = "run"]
    BY <1>1, <1>6 DEF Begin, RunGoes
  <2>3. /\ run'[i].at = "run" /\ run'[i].copy = run[i].copy
        /\ run'[i].cancelled = run[i].cancelled
    BY <1>1, <2>2 DEF Run
  <2>4. /\ \A j \in TaskId : run[j].at # "run"
        /\ \A s \in Session : call[s].at # "run"
    BY <2>1 DEF VerdictInv, TurnsOk
  <2>5. i \in store => RunOk(i)'
    BY <1>1, <1>2, <2>1, <2>3 DEF VerdictInv, RunsOk, RunOk
  <2>6. TurnsOk'
    BY <1>2, <1>4, <2>1, <2>4 DEF TurnsOk
  <2> QED
    BY <1>3, <1>5, <2>4, <2>5, <2>6 DEF VerdictInv
<1>7. CASE Conclude(i)
  <2>1. PICK pass \in Verdicts(run[i].cancelled) :
           run' = [run EXCEPT ![i].at = "finish", ![i].pass = pass]
    BY <1>7 DEF Conclude
  <2>2. run[i].at = "run" /\ task' = task /\ validateMu = i
    BY <1>7 DEF Conclude, VerdictInv, TurnsOk
  <2>3. /\ run'[i].at = "finish" /\ run'[i].copy = run[i].copy
        /\ run'[i].cancelled = run[i].cancelled /\ run'[i].pass = pass
    BY <1>1, <2>1 DEF Run
  <2>4. /\ \A j \in TaskId : j # i => run[j].at # "run"
        /\ \A s \in Session : call[s].at # "run"
    BY <2>2 DEF VerdictInv, TurnsOk
  <2>5. ASSUME i \in store PROVE RunOk(i)'
    <3>1. RunOk(i)
      BY <2>5 DEF VerdictInv, RunsOk
    <3>2. ASSUME ~run[i].copy, task[i].start = tree
          PROVE  pass <=> task[i].start \notin Bad
      <4>1. tree \in saw /\ \A c \in saw : tree <= c /\ c <= tree
        BY <2>2, <3>1, <3>2 DEF RunOk
      <4>a. \A c \in saw : c = tree
        <5>1. \A c \in saw : c \in Int /\ tree \in Int
          BY <1>1
        <5> QED
          BY <4>1, <5>1
      <4>2. saw = {tree}
        BY <4>1, <4>a, Zenon
      <4>3. ~run[i].cancelled
        BY <3>1 DEF RunOk
      <4> QED
        BY <1>1, <2>1, <3>2, <4>2, <4>3 DEF Verdicts
    <3>3. /\ task[i].start <= tree /\ ~run[i].cancelled /\ task[i].snapshot = run[i].copy
          /\ ~task[i].running /\ ~task[i].snapshot /\ ~task[i].stale =>
                (task[i].pass <=> task[i].start \notin Bad)
      BY <2>2, <3>1 DEF RunOk
    <3> QED
      BY <1>2, <2>2, <2>3, <3>2, <3>3 DEF RunOk
  <2>6. TurnsOk'
    BY <1>2, <1>4, <2>3, <2>4 DEF TurnsOk
  <2> QED
    BY <1>3, <1>5, <2>4, <2>5, <2>6 DEF VerdictInv
<1>8. CASE Finish(i)
  <2>1. PICK after \in Look : run' = [run EXCEPT ![i].at = "record", ![i].after = after]
    BY <1>8 DEF Finish
  <2>2. run[i].at = "finish" /\ UNCHANGED <<task, validateMu, saw>>
    BY <1>8 DEF Finish
  <2>3. /\ run'[i].at = "record" /\ run'[i].copy = run[i].copy
        /\ run'[i].cancelled = run[i].cancelled /\ run'[i].pass = run[i].pass
        /\ run'[i].after = after
    BY <1>1, <2>1 DEF Run
  <2>4. after = tree \/ after = NoTree
    BY DEF Look
  <2>5. i \in store => RunOk(i)'
    BY <1>1, <1>2, <2>2, <2>3, <2>4 DEF VerdictInv, RunsOk, RunOk
  <2>6. TurnsOk'
    BY <1>2, <1>4, <2>2, <2>3 DEF VerdictInv, TurnsOk
  <2> QED
    BY <1>3, <1>5, <2>2, <2>5, <2>6 DEF VerdictInv
<1>9. CASE Record(i)
  <2>1. /\ task' = [task EXCEPT ![i].running = FALSE, ![i].pass = run[i].pass,
                                ![i].stale = Moved(task[i].start, run[i].after)]
        /\ run[i].at = "record" /\ UNCHANGED <<validateMu, saw>>
    BY <1>9 DEF Record
  <2>2. /\ run'[i].at = "tell" /\ run'[i].cancelled = run[i].cancelled
    BY <1>1, <1>9 DEF Record, RunGoes, Run
  <2>3. /\ task'[i].start = task[i].start /\ task'[i].snapshot = task[i].snapshot
        /\ task'[i].pass = run[i].pass
        /\ task'[i].stale = Moved(task[i].start, run[i].after)
    BY <1>1, <2>1 DEF Task
  <2>4. i \in store => RunOk(i)'
    BY <1>1, <1>2, <2>1, <2>2, <2>3 DEF VerdictInv, RunsOk, RunOk, Moved
  <2>5. TurnsOk'
    BY <1>2, <1>4, <2>1, <2>2 DEF VerdictInv, TurnsOk
  <2> QED
    BY <1>3, <1>5, <2>1, <2>4, <2>5 DEF VerdictInv
<1>10. CASE Forgotten(i)
  <2>1. i \notin store /\ UNCHANGED <<validateMu, saw>>
    BY <1>10 DEF Forgotten
  <2>2. run'[i].at = "done"
    BY <1>1, <1>10 DEF Forgotten, RunEnds, NoRun
  <2>3. TurnsOk'
    BY <1>2, <1>4, <2>1, <2>2 DEF VerdictInv, TurnsOk
  <2> QED
    BY <1>3, <1>5, <2>1, <2>3 DEF VerdictInv
<1>11. CASE Tell(i)
  <2>1. run[i].at = "tell" /\ UNCHANGED <<task, validateMu, saw>>
    BY <1>11 DEF Tell
  <2>2. run'[i].at = "done" /\ ~run'[i].cancelled
    BY <1>1, <1>11 DEF Tell, RunEnds, NoRun
  <2>3. i \in store => RunOk(i)'
    BY <1>1, <1>2, <2>1, <2>2 DEF VerdictInv, RunsOk, RunOk
  <2>4. TurnsOk'
    BY <1>2, <1>4, <2>1, <2>2 DEF VerdictInv, TurnsOk
  <2> QED
    BY <1>3, <1>5, <2>1, <2>3, <2>4 DEF VerdictInv
<1> QED
  BY <1>6, <1>7, <1>8, <1>9, <1>10, <1>11 DEF Runs

LEMMA EditVerdict ==
    ASSUME TypeInv, VerdictInv, ~MayRevert, Edit
    PROVE  VerdictInv'
<1> USE DEF storeVars
<1>1. PICK c \in Content :
         /\ c > tree /\ tree' = c
         /\ saw' = IF validateMu = Nobody \/ (validateMu \in TaskId /\ run[validateMu].copy)
                   THEN saw ELSE saw \cup {c}
  BY DEF Edit
<1>2. UNCHANGED <<validateMu, store, task, run, call>>
  BY DEF Edit
<1>3. /\ tree \in Content /\ saw \subseteq Content /\ store \subseteq TaskId
      /\ \A i \in store : task[i].start \in Content
      /\ \A s \in Session : call[s].start \in Tree
  BY DEF TypeInv, TypeOK, Task, Call
<1>4. ASSUME NEW i \in store PROVE RunOk(i)'
  <2>1. RunOk(i)
    BY DEF VerdictInv, RunsOk
  <2>2. task[i].start <= tree' /\ task[i].start # tree'
    BY <1>1, <1>3, <2>1 DEF RunOk
  <2>3. ASSUME run[i].at = "run", ~run[i].copy
        PROVE  tree' \in saw' /\ \A d \in saw' : task[i].start <= d /\ d <= tree'
    <3>1. validateMu = i
      BY <1>3, <2>3 DEF VerdictInv, TurnsOk
    <3>2. saw' = saw \cup {c}
      BY <1>1, <1>3, <2>3, <3>1
    <3>3. \A d \in saw : task[i].start <= d /\ d <= tree
      BY <2>1, <2>3 DEF RunOk
    <3>4. \A d \in saw : task[i].start <= d /\ d <= tree'
      BY <1>1, <1>3, <3>3
    <3> QED
      BY <1>1, <2>2, <3>2, <3>4
  <2> QED
    BY <1>2, <2>1, <2>2, <2>3 DEF RunOk
<1>5. RunsOk' /\ TurnsOk' /\ VerdictOfTheTree'
  BY <1>2, <1>4 DEF VerdictInv, RunsOk, TurnsOk, VerdictOfTheTree
<1>6. LooksPast'
  <2>1. ASSUME NEW s \in Session PROVE call[s].start <= tree'
    BY <1>1, <1>3 DEF VerdictInv, LooksPast
  <2> QED
    BY <1>2, <2>1 DEF LooksPast
<1> QED
  BY <1>5, <1>6 DEF VerdictInv

\* If the tree never returns to a content it had, a result of a run in the tree
\* itself that is handed over as current is the verdict of the caller's tree.
THEOREM VerdictAlways ==
    ASSUME ~MayRevert
    PROVE  Spec => []VerdictOfTheTree
<1>1. Init => VerdictInv
  BY DEF Init, VerdictInv, RunsOk, TurnsOk, LooksPast, VerdictOfTheTree, NoRun, NoCall
<1>2. TypeInv /\ VerdictInv /\ [Next]_vars => VerdictInv'
  <2> SUFFICES ASSUME TypeInv, VerdictInv, [Next]_vars PROVE VerdictInv'
    OBVIOUS
  <2>1. CASE UNCHANGED vars
    BY <2>1 DEF vars, storeVars, muVars, VerdictInv, RunsOk, RunOk, TurnsOk, LooksPast,
                VerdictOfTheTree
  <2>2. ASSUME NEW s \in Session, Request(s) \/ Collect(s) \/ Handles(s) PROVE VerdictInv'
    BY <2>2, QuietVerdict, HandlesVerdict DEF Handles
  <2> QED
    BY <2>1, <2>2, RunsVerdict, EditVerdict DEF Next
<1>3. VerdictInv => VerdictOfTheTree
  BY DEF VerdictInv
<1> QED
  BY <1>1, <1>2, <1>3, TypesAlways, PTL DEF Spec



-----------------------------------------------------------------------------
(* The cap of the store, and what is dropped to keep it.                       *)

LEMMA StoreCounted ==
    ASSUME TypeOK
    PROVE  /\ IsFiniteSet(store) /\ Cardinality(store) \in Nat
           /\ IsFiniteSet(Running(store)) /\ Cardinality(Running(store)) \in Nat
           /\ \A S : S \subseteq store => IsFiniteSet(S) /\ Cardinality(S) \in Nat
<1>1. IsFiniteSet(1..MaxTasks) /\ store \in SUBSET (1..MaxTasks)
  BY FS_Interval DEF TypeOK
<1>2. IsFiniteSet(store)
  BY <1>1, FS_Subset
<1>3. Running(store) \subseteq store
  BY DEF Running
<1> QED
  BY <1>2, <1>3, FS_Subset, FS_CardinalityType

\* A set of numbers that is not empty has a least one.
LEMMA Least ==
    ASSUME NEW S \in SUBSET Nat, S # {}
    PROVE  \E m \in S : \A t \in S : ~(t < m)
<1>1. PICK m \in S : \A t \in S : ~(<<t, m>> \in OpToRel(<, Nat))
  BY NatLessThanWellFounded, WFMin
<1>2. \A t \in S : t \in Nat /\ m \in Nat
  OBVIOUS
<1> QED
  BY <1>1, <1>2 DEF OpToRel

\* Among finished tasks there is one that is dropped before all others: the oldest of
\* those delivered, or of all when none is.
LEMMA FirstToDrop ==
    ASSUME TypeOK, NEW S \in SUBSET TaskId, S # {}
    PROVE  \E i \in S : \A j \in S : ~DroppedBefore(j, i)
<1>1. \A j \in S : task[j].delivered \in BOOLEAN
  BY DEF TypeOK, Task
<1> DEFINE D == {j \in S : task[j].delivered}
<1>2. S \in SUBSET Nat /\ D \in SUBSET Nat
  <2>1. \A i \in 1..MaxTasks : i \in Nat
    OBVIOUS
  <2> QED
    BY <2>1
<1>3. CASE D # {}
  <2>1. PICK i \in D : \A j \in D : ~(j < i)
    BY <1>2, <1>3, Least
  <2> QED
    BY <1>1, <2>1 DEF DroppedBefore
<1>4. CASE D = {}
  <2>1. PICK i \in S : \A j \in S : ~(j < i)
    BY <1>2, Least
  <2> QED
    BY <1>1, <1>4, <2>1 DEF DroppedBefore
<1> QED
  BY <1>3, <1>4

\* A full store that is not full of runs gives up a task; no other does.
LEMMA MakesRoom ==
    ASSUME TypeOK, CapHolds, ~Full
    PROVE  /\ Cardinality(store) = Cap => Evicted # {}
           /\ Evicted # {} => Cardinality(store) = Cap
           /\ \A i \in Evicted : /\ i \in store \ Running(store)
                                 /\ \A j \in store \ Running(store) : ~DroppedBefore(j, i)
<1> DEFINE over == store \ Running(store)
           excess == Cardinality(store) + 1 - Cap
           ahead(i) == {j \in over : DroppedBefore(j, i)}
<1>1. Cardinality(store) \in Nat /\ Cap \in Nat /\ Cardinality(store) <= Cap
  BY StoreCounted DEF CapHolds
<1>2. Evicted = {i \in over : Cardinality(ahead(i)) < excess}
  BY DEF Evicted
<1>3. \A i : IsFiniteSet(ahead(i)) /\ Cardinality(ahead(i)) \in Nat
  <2>1. \A i : ahead(i) \subseteq store
    OBVIOUS
  <2> QED
    BY <2>1, StoreCounted
<1>4. excess \in Int /\ excess <= 1 /\ (excess = 1 <=> Cardinality(store) = Cap)
  BY <1>1
<1> HIDE DEF excess
<1>5. ASSUME NEW i \in Evicted
      PROVE  excess = 1 /\ i \in over /\ \A j \in over : ~DroppedBefore(j, i)
  <2>1. i \in over /\ Cardinality(ahead(i)) < excess
    BY <1>2, <1>5
  <2>2. excess = 1 /\ Cardinality(ahead(i)) = 0
    BY <1>3, <1>4, <2>1
  <2>3. ahead(i) = {}
    BY <1>3, <2>2, FS_EmptySet
  <2> QED
    BY <2>1, <2>2, <2>3
<1>6. ASSUME Cardinality(store) = Cap PROVE Evicted # {}
  <2>1. over # {}
    <3>1. over = {} => Running(store) = store
      BY DEF Running
    <3>2. Cardinality(Running(store)) < Cap
      BY <1>1, StoreCounted DEF Full
    <3> QED
      BY <1>1, <1>6, <3>1, <3>2
  <2>2. over \in SUBSET TaskId
    BY DEF TypeOK
  <2>3. PICK i \in over : \A j \in over : ~DroppedBefore(j, i)
    BY <2>1, <2>2, FirstToDrop
  <2>4. ahead(i) = {}
    BY <2>3
  <2>5. Cardinality(ahead(i)) = 0
    BY <2>4, FS_EmptySet
  <2>6. Cardinality(ahead(i)) < excess
    BY <1>4, <1>6, <2>5
  <2> QED
    BY <1>2, <2>3, <2>6
<1> QED
  BY <1>4, <1>5, <1>6

\* Which steps change what is filed.
LEMMA StoreSteps ==
    ASSUME [Next]_vars
    PROVE  \/ store' = store
           \/ store' = store \ Pointless
           \/ ~Full /\ store' = (store \ Evicted) \cup {started + 1}
<1> USE DEF storeVars
<1>1. ASSUME NEW s \in Session, Request(s) \/ Collect(s) \/ Handles(s)
      PROVE  \/ store' = store
             \/ store' = store \ Pointless
             \/ ~Full /\ store' = (store \ Evicted) \cup {started + 1}
  <2>1. CASE Request(s) \/ Collect(s)
    BY <2>1 DEF Request, Collect
  <2>2. CASE Supersede(s)
    BY <2>2 DEF Supersede
  <2>3. CASE Add(s)
    BY <2>3 DEF Add, Refusable
  <2>4. CASE Snapshot(s) \/ Fingerprint(s) \/ Refuse(s) \/ Hold(s) \/ BeginNow(s) \/ EndNow(s)
    BY <2>4 DEF Snapshot, Fingerprint, Refuse, Hold, BeginNow, EndNow
  <2>5. CASE NoSidecar(s) \/ Read(s) \/ Write(s) \/ WriteFails(s) \/ Acknowledge(s)
    BY <2>5 DEF NoSidecar, Read, Write, WriteFails, Acknowledge
  <2> QED
    BY <1>1, <2>1, <2>2, <2>3, <2>4, <2>5 DEF Handles
<1>2. ASSUME NEW i \in TaskId, Runs(i) PROVE store' = store
  BY <1>2 DEF Runs, Begin, Conclude, Finish, Record, Forgotten, Tell
<1>3. CASE Edit \/ UNCHANGED vars
  BY <1>3 DEF Edit, vars
<1> QED
  BY <1>1, <1>2, <1>3 DEF Next

LEMMA CapNext == TypeInv /\ CapHolds /\ [Next]_vars => CapHolds'
<1> SUFFICES ASSUME TypeInv, CapHolds, [Next]_vars PROVE CapHolds'
  OBVIOUS
<1>0. TypeOK /\ Cardinality(store) \in Nat /\ Cardinality(store) <= Cap /\ Cap \in Nat
  BY StoreCounted DEF TypeInv, CapHolds
<1>1. CASE store' = store
  BY <1>1 DEF CapHolds
<1>2. CASE store' = store \ Pointless
  <2>1. Cardinality(store \ Pointless) <= Cardinality(store)
        /\ Cardinality(store \ Pointless) \in Nat
    BY <1>0, StoreCounted, FS_Subset, FS_CardinalityType
  <2> QED
    BY <1>0, <1>2, <2>1 DEF CapHolds
<1>3. CASE ~Full /\ store' = (store \ Evicted) \cup {started + 1}
  <2> DEFINE kept == store \ Evicted
  <2>1. IsFiniteSet(kept) /\ Cardinality(kept) \in Nat /\ Cardinality(kept) <= Cardinality(store)
    BY <1>0, StoreCounted, FS_Subset
  <2>2. Cardinality(kept) + 1 <= Cap
    <3>1. CASE Cardinality(store) # Cap
      BY <1>0, <2>1, <3>1
    <3>2. CASE Cardinality(store) = Cap
      <4>1. PICK i \in Evicted : i \in store
        BY <1>0, <1>3, <3>2, MakesRoom
      <4>2. Cardinality(store \ {i}) = Cardinality(store) - 1 /\ IsFiniteSet(store \ {i})
        BY <1>0, <4>1, StoreCounted, FS_RemoveElement
      <4>3. Cardinality(kept) <= Cardinality(store \ {i})
        BY <4>1, <4>2, FS_Subset
      <4> QED
        BY <1>0, <2>1, <3>2, <4>2, <4>3
    <3> QED
      BY <3>1, <3>2
  <2> HIDE DEF kept
  <2>3. \/ Cardinality(kept \cup {started + 1}) = Cardinality(kept)
        \/ Cardinality(kept \cup {started + 1}) = Cardinality(kept) + 1
    BY <2>1, FS_AddElement
  <2>4. Cardinality(kept \cup {started + 1}) <= Cap
    BY <1>0, <2>1, <2>2, <2>3
  <2> QED
    BY <1>3, <2>4 DEF CapHolds, kept
<1> QED
  BY <1>1, <1>2, <1>3, StoreSteps

LEMMA CapAlways == Spec => []CapHolds
<1>1. Init => CapHolds
  BY FS_EmptySet DEF Init, CapHolds
<1> QED
  BY <1>1, CapNext, TypesAlways, PTL DEF Spec

\* The daemon never keeps more results and runs than the cap, although runs in flight
\* are never dropped to make room: when one more is started, the store has room, or a
\* finished task to give up (CapHolds of ValidateTasks).
THEOREM StoreKeepsCap == Spec => []CapHolds
  BY CapAlways

\* A run of a copy that is in flight is never dropped, and a result nobody has read only
\* from a full store of results nobody has read (OnlyUselessDropped of ValidateTasks).
THEOREM UsefulIsKept == Spec => OnlyUselessDropped
<1> DEFINE Useless(i) ==
              \/ task[i].running /\ ~task[i].snapshot
              \/ ~task[i].running /\ Cardinality(store) = Cap
                 /\ (task[i].delivered \/ store \ Running(store) = Unread)
<1>1. TypeInv /\ CapHolds /\ [Next]_vars => [\A i \in store \ store' : Useless(i)]_vars
  <2> SUFFICES ASSUME TypeInv, CapHolds, [Next]_vars, NEW i \in store \ store'
               PROVE  Useless(i)
    OBVIOUS
  <2>1. CASE store' = store \ Pointless
    BY <2>1 DEF Pointless
  <2>2. CASE ~Full /\ store' = (store \ Evicted) \cup {started + 1}
    <3>1. i \in Evicted /\ TypeOK
      BY <2>2 DEF TypeInv
    <3>2. /\ Cardinality(store) = Cap /\ i \in store \ Running(store)
          /\ \A j \in store \ Running(store) : ~DroppedBefore(j, i)
      BY <2>2, <3>1, MakesRoom
    <3>3. \A j \in store : task[j].delivered \in BOOLEAN /\ task[j].running \in BOOLEAN
      BY <3>1 DEF TypeOK, Task
    <3>4. ~task[i].running
      BY <3>2 DEF Running
    <3>5. CASE task[i].delivered
      BY <3>2, <3>4, <3>5
    <3>6. CASE ~task[i].delivered
      <4>1. \A j \in store \ Running(store) : ~task[j].delivered
        BY <3>2, <3>3, <3>6 DEF DroppedBefore
      <4>2. store \ Running(store) = Unread
        BY <4>1 DEF Running, Unread
      <4> QED
        BY <3>2, <3>4, <4>2
    <3> QED
      BY <3>5, <3>6
  <2> QED
    BY <2>1, <2>2, StoreSteps
<1> QED
  BY <1>1, TypesAlways, CapAlways, PTL DEF Spec, OnlyUselessDropped
==============================================================================
