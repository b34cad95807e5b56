------------------------- MODULE CommandPartsProofs -------------------------
(***************************************************************************)
(* Proofs about the parts that MCCommands has side by side: the commands'  *)
(* runs, the files and trees they keep, the project they set up, the       *)
(* credentials they use, and what the dashboard draws.                     *)
(***************************************************************************)
EXTENDS MutationRun, ValidateRun, VariantRun, SidecarRecords, WorkspaceMirror,
        ProjectSetup, HttpClient, Credentials, EventLog, BranchWatch, DashboardRows,
        SessionView, FiniteSetTheorems, SequenceTheorems, WellFoundedInduction, TLAPS

-----------------------------------------------------------------------------
(***************************************************************************)
(* MutationRun: the verdict of a mutation is of the tree with that mutation*)
(* alone, for any numbers of mutations and sidecars.                       *)
(***************************************************************************)

(* The inductive invariant. *)

MutationRec ==
    [at : {"none", "apply", "test", "reverse", "return", "done"}, on : Sidecar \cup {NoSidecar},
     tested : SUBSET Mutation, ran : {"none", "passed", "failed", "severed"},
     reusable : BOOLEAN, result : {"none", "error", "killed", "survived"}]

Typed == MutationTypeOK /\ mut \in [Mutation -> MutationRec]

\* A mutation that is under way has a sidecar for itself.
Mutating(m) == mut[m].at \in {"apply", "test", "reverse", "return"}
OwnWorker ==
    /\ \A m \in Mutation : Mutating(m) => mut[m].on \in Sidecar /\ mut[m].on \notin idle
    /\ \A m, n \in Mutation : Mutating(m) /\ Mutating(n) /\ mut[m].on = mut[n].on => m = n

\* What is on a sidecar at each stage, when it counts: once the run is cancelled nothing
\* is applied any more.
TreeKnown ==
    /\ ~cancelled => \A w \in idle : patched[w] = {}
    /\ \A m \in Mutation :
        /\ mut[m].at = "apply" /\ ~cancelled => patched[mut[m].on] = {}
        /\ mut[m].at \in {"test", "reverse"} => patched[mut[m].on] = {m}
        /\ mut[m].at = "return" /\ mut[m].reusable /\ ~cancelled => patched[mut[m].on] = {}

\* What is known of a mutation at each stage.
StageKnown ==
    \A m \in Mutation :
        /\ mut[m].at \in {"none", "apply", "test", "reverse"} => mut[m].result = "none"
        /\ mut[m].at \in {"return", "done"} => mut[m].result # "none"
        /\ mut[m].at = "reverse" => mut[m].tested = {m} /\ mut[m].ran # "none"

\* Mutations are scheduled in order, and all of them unless the scheduler gave up.
Scheduled ==
    /\ \A m \in Mutation : mut[m].at = "none" <=> m >= upNext
    /\ sched \in {"wait", "over"} /\ ~schedErr => upNext = Mutations + 1
    /\ sched = "over" => \A m \in Mutation : mut[m].at \in {"none", "done"}
    /\ sched = "baseline" => upNext = 1

MutationInv == Typed /\ OwnWorker /\ TreeKnown /\ StageKnown /\ Scheduled /\ VerdictHonest

LEMMA MutationInit == MutationAssumption /\ InitMutation => MutationInv
<1> SUFFICES ASSUME MutationAssumption, InitMutation PROVE MutationInv
  OBVIOUS
<1>1. Fresh \in MutationRec
  BY DEF Fresh, MutationRec
<1>2. Typed
  <2>1. mut \in [Mutation -> MutationRec] /\ \A m \in Mutation : mut[m] = Fresh
    BY <1>1 DEF InitMutation
  <2>2. upNext \in 1..(Mutations + 1)
    BY DEF InitMutation, MutationAssumption
  <2> QED
    BY <2>1, <2>2 DEF InitMutation, Typed, MutationTypeOK, MutationRec
<1>3. OwnWorker /\ TreeKnown /\ StageKnown /\ VerdictHonest
  BY DEF InitMutation, OwnWorker, Mutating, TreeKnown, StageKnown, VerdictHonest, Fresh
<1>4. Scheduled
  BY DEF InitMutation, Scheduled, Fresh, Mutation, MutationAssumption
<1> QED
  BY <1>2, <1>3, <1>4 DEF MutationInv

-----------------------------------------------------------------------------
(* A step of one mutation, m, which becomes r: everything but its own sidecar is  *)
(* as it was.                                                                     *)

LEMMA OneMutation ==
    ASSUME MutationAssumption, MutationInv, NEW m \in Mutation, NEW r \in MutationRec,
           Mutating(m), mut' = [mut EXCEPT ![m] = r],
           patched' \in [Sidecar -> SUBSET Mutation],
           \A w \in Sidecar : w # mut[m].on => patched'[w] = patched[w],
           r.on = mut[m].on, sched' = sched, upNext' = upNext, schedErr' = schedErr,
           cancelled' = cancelled,
           \/ r.at \in {"test", "reverse", "return"} /\ idle' = idle
           \/ r.at = "done" /\ idle' \in {idle, idle \cup {mut[m].on}},
           mut[m].on \in idle' /\ ~cancelled => patched'[mut[m].on] = {},
           r.at \in {"test", "reverse"} => patched'[mut[m].on] = {m} /\ r.result = "none",
           r.at = "reverse" => r.tested = {m} /\ r.ran # "none",
           r.at = "return" /\ r.reusable /\ ~cancelled => patched'[mut[m].on] = {},
           r.at \in {"return", "done"} => r.result # "none",
           r.result \in {"killed", "survived"} => r.tested = {m} /\ r.ran \in {"passed", "failed"}
    PROVE  MutationInv'
<1>1. \A n \in Mutation : mut'[n] = IF n = m THEN r ELSE mut[n]
  BY DEF MutationInv, Typed
<1>2. mut[m].on \in Sidecar /\ mut[m].on \notin idle
  BY DEF MutationInv, OwnWorker
<1>3. \A n \in Mutation : n # m /\ Mutating(n) => mut[n].on # mut[m].on /\ patched'[mut[n].on] = patched[mut[n].on]
  BY DEF MutationInv, OwnWorker
<1>4. Typed'
  <2>1. mut' \in [Mutation -> MutationRec]
    BY DEF MutationInv, Typed
  <2>2. idle' \subseteq Sidecar
    BY <1>2 DEF MutationInv, Typed, MutationTypeOK
  <2> QED
    BY <2>1, <2>2 DEF MutationInv, Typed, MutationTypeOK, MutationRec
<1>5. OwnWorker'
  <2>1. \A n \in Mutation : Mutating(n)' => Mutating(n) /\ mut'[n].on = mut[n].on
    BY <1>1 DEF Mutating
  <2>2. \A n \in Mutation : Mutating(n)' => mut'[n].on \in Sidecar /\ mut'[n].on \notin idle'
    BY <1>1, <1>2, <1>3, <2>1 DEF Mutating, MutationInv, OwnWorker
  <2> QED
    BY <2>1, <2>2 DEF MutationInv, OwnWorker
<1>6. TreeKnown'
  <2>1. ASSUME ~cancelled, NEW w \in idle' PROVE patched'[w] = {}
    BY <2>1, <1>2 DEF MutationInv, TreeKnown, Typed, MutationTypeOK
  <2>2. ASSUME NEW n \in Mutation
        PROVE  /\ mut'[n].at = "apply" /\ ~cancelled => patched'[mut'[n].on] = {}
               /\ mut'[n].at \in {"test", "reverse"} => patched'[mut'[n].on] = {n}
               /\ mut'[n].at = "return" /\ mut'[n].reusable /\ ~cancelled => patched'[mut'[n].on] = {}
    <3>1. CASE n = m
      BY <1>1, <3>1
    <3>2. CASE n # m
      BY <1>1, <1>3, <3>2 DEF Mutating, MutationInv, TreeKnown
    <3> QED
      BY <3>1, <3>2
  <2> QED
    BY <2>1, <2>2 DEF TreeKnown
<1>7. StageKnown' /\ VerdictHonest'
  BY <1>1 DEF MutationInv, StageKnown, VerdictHonest
<1>8. Scheduled'
  <2>1. mut[m].at \notin {"none", "done"} /\ r.at # "none"
    BY DEF Mutating
  <2> QED
    BY <1>1, <2>1 DEF MutationInv, Scheduled
<1> QED
  BY <1>4, <1>5, <1>6, <1>7, <1>8 DEF MutationInv

LEMMA WorkerStep ==
    ASSUME MutationAssumption, MutationInv, NEW m \in Mutation,
           Apply(m) \/ Test(m) \/ ReversePatch(m) \/ Return(m)
    PROVE  MutationInv'
<1> DEFINE w == mut[m].on
<1>0. /\ mut[m] \in MutationRec /\ mut \in [Mutation -> MutationRec]
      /\ patched \in [Sidecar -> SUBSET Mutation] /\ idle \subseteq Sidecar
  BY DEF MutationInv, Typed, MutationTypeOK
<1>1. CASE Apply(m)
  <2>1. Mutating(m) /\ w \in Sidecar /\ w \notin idle
    BY <1>1 DEF Apply, OnWorker, Mutating, MutationInv, OwnWorker
  <2>2. ~cancelled => patched[w] = {}
    BY <1>1 DEF Apply, OnWorker, MutationInv, TreeKnown
  <2>3. mut[m].result = "none"
    BY <1>1 DEF Apply, OnWorker, MutationInv, StageKnown
  <2>4. /\ sched' = sched /\ upNext' = upNext /\ schedErr' = schedErr
        /\ cancelled' = cancelled /\ idle' = idle
    BY <1>1 DEF Apply
  <2>5. CASE /\ ~cancelled /\ patched' = [patched EXCEPT ![w] = @ \cup {m}]
             /\ mut' = [mut EXCEPT ![m].at = "test"]
    <3> DEFINE r == [mut[m] EXCEPT !.at = "test"]
    <3>1. /\ r \in MutationRec /\ mut' = [mut EXCEPT ![m] = r]
          /\ r.on = w /\ r.at = "test" /\ r.result = "none"
      BY <1>0, <2>3, <2>5 DEF MutationRec
    <3>2. /\ patched' \in [Sidecar -> SUBSET Mutation] /\ patched'[w] = {m}
          /\ \A v \in Sidecar : v # w => patched'[v] = patched[v]
      BY <1>0, <2>1, <2>2, <2>5
    <3> HIDE DEF r
    <3> QED
      BY <2>1, <2>4, <3>1, <3>2, OneMutation
  <2>6. CASE /\ ~cancelled /\ patched' = patched
             /\ mut' = [mut EXCEPT ![m].at = "return", ![m].result = "error"]
    <3> DEFINE r == [mut[m] EXCEPT !.at = "return", !.result = "error"]
    <3>1. /\ r \in MutationRec /\ mut' = [mut EXCEPT ![m] = r]
          /\ r.on = w /\ r.at = "return" /\ r.result = "error"
      BY <1>0, <2>6 DEF MutationRec
    <3> HIDE DEF r
    <3> QED
      BY <1>0, <2>1, <2>2, <2>4, <2>6, <3>1, OneMutation
  <2>7. CASE /\ patched' \in {patched, [patched EXCEPT ![w] = @ \cup {m}]}
             /\ mut' = [mut EXCEPT ![m].at = "return", ![m].result = "error", ![m].reusable = FALSE]
    <3> DEFINE r == [mut[m] EXCEPT !.at = "return", !.result = "error", !.reusable = FALSE]
    <3>1. /\ r \in MutationRec /\ mut' = [mut EXCEPT ![m] = r]
          /\ r.on = w /\ r.at = "return" /\ r.result = "error" /\ r.reusable = FALSE
      BY <1>0, <2>7 DEF MutationRec
    <3>2. /\ patched' \in [Sidecar -> SUBSET Mutation]
          /\ \A v \in Sidecar : v # w => patched'[v] = patched[v]
      BY <1>0, <2>1, <2>7
    <3> HIDE DEF r
    <3> QED
      BY <2>1, <2>4, <3>1, <3>2, OneMutation
  <2> QED
    BY <1>1, <2>5, <2>6, <2>7 DEF Apply
<1>2. CASE Test(m)
  <2>1. Mutating(m) /\ w \in Sidecar /\ w \notin idle
    BY <1>2 DEF Test, OnWorker, Mutating, MutationInv, OwnWorker
  <2>2. patched[w] = {m} /\ mut[m].result = "none"
    BY <1>2 DEF Test, OnWorker, MutationInv, TreeKnown, StageKnown
  <2>3. PICK ran \in {"passed", "failed", "severed"} :
          mut' = [mut EXCEPT ![m].at = "reverse", ![m].ran = ran, ![m].tested = patched[w]]
    BY <1>2 DEF Test
  <2> DEFINE r == [mut[m] EXCEPT !.at = "reverse", !.ran = ran, !.tested = patched[w]]
  <2>4. /\ r \in MutationRec /\ mut' = [mut EXCEPT ![m] = r]
        /\ r.on = w /\ r.at = "reverse" /\ r.result = "none" /\ r.tested = {m} /\ r.ran = ran
    BY <1>0, <2>2, <2>3 DEF MutationRec
  <2> HIDE DEF r
  <2>5. /\ sched' = sched /\ upNext' = upNext /\ schedErr' = schedErr
        /\ cancelled' = cancelled /\ idle' = idle /\ patched' = patched
    BY <1>2 DEF Test
  <2> QED
    BY <1>0, <2>1, <2>2, <2>3, <2>4, <2>5, OneMutation
<1>3. CASE ReversePatch(m)
  <2>1. Mutating(m) /\ w \in Sidecar /\ w \notin idle
    BY <1>3 DEF ReversePatch, OnWorker, Mutating, MutationInv, OwnWorker
  <2>2. patched[w] = {m} /\ mut[m].tested = {m} /\ mut[m].ran # "none"
    BY <1>3 DEF ReversePatch, OnWorker, MutationInv, TreeKnown, StageKnown
  <2> DEFINE result(reversed) == IF ~reversed \/ mut[m].ran = "severed" THEN "error"
                                 ELSE IF mut[m].ran = "failed" THEN "killed" ELSE "survived"
             r(reversed) == [mut[m] EXCEPT !.at = "return", !.reusable = reversed,
                                           !.result = result(reversed)]
  <2>3. PICK reversed \in BOOLEAN :
          /\ patched' = IF reversed THEN [patched EXCEPT ![w] = @ \ {m}] ELSE patched
          /\ mut' = [mut EXCEPT ![m].at = "return", ![m].reusable = reversed,
                                ![m].result = result(reversed)]
    BY <1>3 DEF ReversePatch, Reusable
  <2>4. /\ result(reversed) \in {"error", "killed", "survived"}
        /\ result(reversed) \in {"killed", "survived"} => mut[m].ran \in {"passed", "failed"}
    BY <1>0, <2>2 DEF MutationRec
  <2> HIDE DEF result
  <2>5. /\ r(reversed) \in MutationRec /\ mut' = [mut EXCEPT ![m] = r(reversed)]
        /\ r(reversed).on = w /\ r(reversed).at = "return"
        /\ r(reversed).result = result(reversed) /\ r(reversed).reusable = reversed
        /\ r(reversed).tested = {m} /\ r(reversed).ran = mut[m].ran
    BY <1>0, <2>2, <2>3, <2>4 DEF MutationRec
  <2> HIDE DEF r
  <2>6. /\ sched' = sched /\ upNext' = upNext /\ schedErr' = schedErr
        /\ cancelled' = cancelled /\ idle' = idle
    BY <1>3 DEF ReversePatch
  <2>7. /\ patched' \in [Sidecar -> SUBSET Mutation]
        /\ \A v \in Sidecar : v # w => patched'[v] = patched[v]
        /\ reversed => patched'[w] = {}
    BY <1>0, <2>1, <2>2, <2>3
  <2> QED
    BY <2>1, <2>4, <2>5, <2>6, <2>7, OneMutation
<1>4. CASE Return(m)
  <2>1. Mutating(m) /\ w \in Sidecar /\ w \notin idle
    BY <1>4 DEF Return, OnWorker, Mutating, MutationInv, OwnWorker
  <2>2. /\ mut[m].result # "none"
        /\ mut[m].result \in {"killed", "survived"} =>
             mut[m].tested = {m} /\ mut[m].ran \in {"passed", "failed"}
        /\ mut[m].reusable /\ ~cancelled => patched[w] = {}
    BY <1>4 DEF Return, OnWorker, MutationInv, TreeKnown, StageKnown, VerdictHonest
  <2> DEFINE r == [mut[m] EXCEPT !.at = "done"]
  <2>3. /\ r \in MutationRec /\ mut' = [mut EXCEPT ![m] = r]
        /\ r.on = w /\ r.at = "done" /\ r.result = mut[m].result
        /\ r.tested = mut[m].tested /\ r.ran = mut[m].ran
    BY <1>0, <1>4 DEF Return, MutationRec
  <2> HIDE DEF r
  <2>4. /\ sched' = sched /\ upNext' = upNext /\ schedErr' = schedErr
        /\ cancelled' = cancelled
    BY <1>4 DEF Return
  <2>5. /\ patched' \in [Sidecar -> SUBSET Mutation]
        /\ \A v \in Sidecar : v # w => patched'[v] = patched[v]
        /\ idle' \in {idle, idle \cup {w}}
        /\ w \in idle' /\ ~cancelled => patched'[w] = {}
    BY <1>0, <1>4, <2>1, <2>2 DEF Return
  <2> QED
    BY <2>1, <2>2, <2>3, <2>4, <2>5, OneMutation
<1> QED
  BY <1>1, <1>2, <1>3, <1>4

-----------------------------------------------------------------------------
(* The scheduler. *)

LEMMA SchedulerStep ==
    ASSUME MutationAssumption, MutationInv,
           Baseline \/ Cancel \/ Schedule \/ GiveUp \/ AllScheduled \/ Over
    PROVE  MutationInv'
<1>0. /\ mut \in [Mutation -> MutationRec] /\ upNext \in 1..(Mutations + 1)
      /\ idle \subseteq Sidecar /\ Mutations \in Nat
  BY DEF MutationInv, Typed, MutationTypeOK, MutationAssumption
<1>1. CASE Baseline \/ Cancel \/ GiveUp \/ AllScheduled \/ Over
  <2>1. /\ mut' = mut /\ patched' = patched /\ idle' = idle /\ upNext' = upNext
        /\ ~cancelled' => ~cancelled
    BY <1>1 DEF Baseline, Cancel, GiveUp, AllScheduled, Over
  <2>2. Typed'
    BY <1>1, <2>1 DEF Baseline, Cancel, GiveUp, AllScheduled, Over, MutationInv, Typed, MutationTypeOK
  <2>3. OwnWorker' /\ StageKnown' /\ VerdictHonest'
    BY <2>1 DEF MutationInv, OwnWorker, Mutating, StageKnown, VerdictHonest
  <2>4. TreeKnown'
    <3>1. TreeKnown
      BY DEF MutationInv
    <3> QED
      BY <2>1, <3>1, ZenonT(30) DEF TreeKnown
  <2>5. Scheduled'
    <3>1. /\ \A m \in Mutation : mut[m].at = "none" <=> m >= upNext
          /\ sched \in {"wait", "over"} /\ ~schedErr => upNext = Mutations + 1
          /\ sched = "over" => \A m \in Mutation : mut[m].at \in {"none", "done"}
          /\ sched = "baseline" => upNext = 1
      BY DEF MutationInv, Scheduled
    <3>2. sched' \in {"wait", "over"} /\ ~schedErr' => upNext = Mutations + 1
      <4>1. CASE Baseline
        BY <3>1, <4>1 DEF Baseline
      <4>2. CASE Cancel
        BY <3>1, <4>2 DEF Cancel
      <4>3. CASE GiveUp
        BY <4>3 DEF GiveUp
      <4>4. CASE AllScheduled
        BY <1>0, <4>4 DEF AllScheduled, Mutation
      <4>5. CASE Over
        BY <3>1, <4>5 DEF Over
      <4> QED
        BY <1>1, <4>1, <4>2, <4>3, <4>4, <4>5
    <3>3. sched' = "over" => \A m \in Mutation : mut[m].at \in {"none", "done"}
      <4>1. CASE Baseline
        <5>1. upNext = 1 => \A m \in Mutation : mut[m].at = "none"
          BY <3>1 DEF Mutation
        <5> QED
          BY <3>1, <4>1, <5>1 DEF Baseline
      <4>2. CASE Cancel \/ GiveUp \/ AllScheduled \/ Over
        BY <3>1, <4>2 DEF Cancel, GiveUp, AllScheduled, Over
      <4> QED
        BY <1>1, <4>1, <4>2
    <3>4. sched' = "baseline" => upNext = 1
      BY <1>1, <3>1 DEF Baseline, Cancel, GiveUp, AllScheduled, Over
    <3> QED
      BY <2>1, <3>1, <3>2, <3>3, <3>4 DEF Scheduled
  <2> QED
    BY <2>2, <2>3, <2>4, <2>5 DEF MutationInv
<1>2. CASE Schedule
  <2> DEFINE m == upNext
  <2>1. /\ m \in Mutation /\ sched = "loop" /\ upNext' = upNext + 1
        /\ sched' = sched /\ schedErr' = schedErr /\ cancelled' = cancelled
        /\ patched' = patched
    BY <1>2 DEF Schedule
  <2>2. mut[m].at = "none" /\ mut[m].result = "none" /\ mut[m] \in MutationRec
    BY <1>0, <2>1 DEF MutationInv, Scheduled, StageKnown
  <2>3. PICK r \in MutationRec :
          /\ mut' = [mut EXCEPT ![m] = r]
          /\ \/ r.at = "done" /\ r.result = "error" /\ idle' = idle
             \/ /\ r.at = "apply" /\ r.result = "none"
                /\ r.on \in idle /\ idle' = idle \ {r.on}
    <3>1. CASE /\ mut' = [mut EXCEPT ![m].at = "done", ![m].result = "error"]
               /\ idle' = idle
      <4> DEFINE r == [mut[m] EXCEPT !.at = "done", !.result = "error"]
      <4>1. r \in MutationRec /\ r.at = "done" /\ r.result = "error" /\ mut' = [mut EXCEPT ![m] = r]
        BY <1>0, <2>1, <2>2, <3>1 DEF MutationRec
      <4> QED
        BY <3>1, <4>1
    <3>2. ASSUME NEW w \in idle,
                 mut' = [mut EXCEPT ![m].at = "apply", ![m].on = w], idle' = idle \ {w}
          PROVE  \E r \in MutationRec :
                    /\ mut' = [mut EXCEPT ![m] = r] /\ r.at = "apply" /\ r.result = "none"
                    /\ r.on \in idle /\ idle' = idle \ {r.on}
      <4> DEFINE r == [mut[m] EXCEPT !.at = "apply", !.on = w]
      <4>1. /\ r \in MutationRec /\ r.at = "apply" /\ r.on = w /\ r.result = "none"
            /\ mut' = [mut EXCEPT ![m] = r]
        BY <1>0, <2>1, <2>2, <3>2 DEF MutationRec
      <4> QED
        BY <3>2, <4>1
    <3> QED
      BY <1>2, <3>1, <3>2 DEF Schedule
  <2>4. \A n \in Mutation : mut'[n] = IF n = m THEN r ELSE mut[n]
    BY <1>0, <2>1, <2>3
  <2>5. Typed'
    <3>1. mut' \in [Mutation -> MutationRec] /\ idle' \subseteq Sidecar
      BY <1>0, <2>1, <2>3
    <3>2. upNext' \in 1..(Mutations + 1)
      BY <1>0, <2>1 DEF Mutation
    <3> QED
      BY <2>1, <3>1, <3>2 DEF MutationInv, Typed, MutationTypeOK, MutationRec
  <2>6. OwnWorker'
    <3>1. \A n \in Mutation : Mutating(n)' => IF n = m THEN r.at = "apply" ELSE Mutating(n)
      BY <2>3, <2>4 DEF Mutating
    <3>2. \A n \in Mutation : Mutating(n)' => mut'[n].on \in Sidecar /\ mut'[n].on \notin idle'
      BY <1>0, <2>3, <2>4, <3>1 DEF MutationInv, OwnWorker
    <3>3. \A n \in Mutation : n # m /\ Mutating(n)' /\ r.at = "apply" => mut'[n].on # r.on
      BY <2>3, <2>4, <3>1 DEF MutationInv, OwnWorker
    <3> QED
      BY <2>4, <3>1, <3>2, <3>3 DEF MutationInv, OwnWorker
  <2>7. TreeKnown'
    <3>1. idle' \subseteq idle
      BY <2>3
    <3>2. r.at = "apply" /\ ~cancelled => patched[r.on] = {}
      BY <2>3 DEF MutationInv, TreeKnown
    <3>3. TreeKnown
      BY DEF MutationInv
    <3>4. ~cancelled' => \A w \in idle' : patched'[w] = {}
      BY <2>1, <3>1, <3>3 DEF TreeKnown
    <3>5. ASSUME NEW n \in Mutation
          PROVE  /\ mut'[n].at = "apply" /\ ~cancelled' => patched'[mut'[n].on] = {}
                 /\ mut'[n].at \in {"test", "reverse"} => patched'[mut'[n].on] = {n}
                 /\ mut'[n].at = "return" /\ mut'[n].reusable /\ ~cancelled'
                      => patched'[mut'[n].on] = {}
      <4>1. CASE n = m
        BY <2>1, <2>3, <2>4, <3>2, <4>1
      <4>2. CASE n # m
        BY <2>1, <2>4, <3>3, <4>2 DEF TreeKnown
      <4> QED
        BY <4>1, <4>2
    <3> QED
      BY <3>4, <3>5 DEF TreeKnown
  <2>8. StageKnown' /\ VerdictHonest'
    BY <2>3, <2>4 DEF MutationInv, StageKnown, VerdictHonest
  <2>9. Scheduled'
    BY <1>0, <2>1, <2>3, <2>4 DEF MutationInv, Scheduled, Mutation
  <2> QED
    BY <2>5, <2>6, <2>7, <2>8, <2>9 DEF MutationInv
<1> QED
  BY <1>1, <1>2

LEMMA MutationNext ==
    ASSUME MutationAssumption, MutationInv, [NextMutation]_mutationVars
    PROVE  MutationInv'
<1>1. ASSUME UNCHANGED mutationVars PROVE MutationInv'
  <2>1. /\ sched' = sched /\ upNext' = upNext /\ schedErr' = schedErr
        /\ cancelled' = cancelled /\ mut' = mut /\ patched' = patched /\ idle' = idle
    BY <1>1 DEF mutationVars
  <2>2. Typed'
    BY <2>1 DEF MutationInv, Typed, MutationTypeOK, MutationRec
  <2>3. OwnWorker' /\ StageKnown' /\ VerdictHonest'
    BY <2>1 DEF MutationInv, OwnWorker, Mutating, StageKnown, VerdictHonest
  <2>4. TreeKnown' /\ Scheduled'
    BY <2>1, ZenonT(30) DEF MutationInv, TreeKnown, Scheduled
  <2> QED
    BY <2>2, <2>3, <2>4 DEF MutationInv
<1> QED
  BY <1>1, WorkerStep, SchedulerStep DEF NextMutation

LEMMA MutationAlways ==
    ASSUME MutationAssumption
    PROVE  SpecMutation => []MutationInv
<1>1. InitMutation => MutationInv
  BY MutationInit
<1>2. MutationInv /\ [NextMutation]_mutationVars => MutationInv'
  BY MutationNext
<1> QED
  BY <1>1, <1>2, PTL DEF SpecMutation

\* A run that is over without an error has settled every mutation.
LEMMA MutationsSettled ==
    ASSUME MutationAssumption, MutationInv
    PROVE  MutationsTold
<1> SUFFICES ASSUME sched = "over", ~schedErr, NEW m \in Mutation
             PROVE  mut[m].result # "none"
  BY DEF MutationsTold
<1>1. upNext = Mutations + 1 /\ mut[m].at \in {"none", "done"}
  BY DEF MutationInv, Scheduled
<1>2. mut[m].at # "none"
  BY <1>1 DEF MutationInv, Scheduled, Mutation, MutationAssumption
<1> QED
  BY <1>1, <1>2 DEF MutationInv, StageKnown

\* A mutation is told killed or survived only when the suite ran to its end on a tree
\* with that mutation and no other, for any number of mutations and sidecars, and
\* whatever patches, reversals and replacements fail before it (runMutation, runWith).
THEOREM VerdictsHonest ==
    ASSUME MutationAssumption
    PROVE  SpecMutation => []VerdictHonest
<1>1. MutationInv => VerdictHonest
  BY DEF MutationInv
<1> QED
  BY <1>1, MutationAlways, PTL

\* A run that reports no error has a result for every mutation, however many were
\* tested at a time and wherever it was cancelled (runWith).
THEOREM EveryMutationTold ==
    ASSUME MutationAssumption
    PROVE  SpecMutation => []MutationsTold
<1>1. MutationInv => MutationsTold
  BY MutationsSettled
<1> QED
  BY <1>1, MutationAlways, PTL

-----------------------------------------------------------------------------
(***************************************************************************)
(* ValidateRun: a run that passed ran every command, a gate lets go of what*)
(* passed, and the attempts are capped, for any commands, any number of    *)
(* sidecars and attempts, and any trees.                                   *)
(***************************************************************************)

(* What the operators of the plan give. *)

\* A set of numbers that is not empty has a least one.
LEMMA Least ==
    ASSUME NEW S \in SUBSET Nat, S # {}
    PROVE  \E m \in S : \A t \in S : ~(t < m)
<1>1. PICK m \in S : \A t \in S : ~(<<t, m>> \in OpToRel(<, Nat))
  BY NatLessThanWellFounded, WFMin
<1>2. \A t \in S : t \in Nat /\ m \in Nat
  OBVIOUS
<1> QED
  BY <1>1, <1>2 DEF OpToRel

\* The first of some commands is one of them, and none comes before it.
LEMMA FirstIs ==
    ASSUME RunAssumption, NEW S \in SUBSET Job, S # {}
    PROVE  First(S) \in S /\ \A d \in S : First(S) <= d
<1>1. S \in SUBSET Nat
  BY DEF RunAssumption
<1>2. PICK m \in S : \A t \in S : ~(t < m)
  BY <1>1, Least
<1>3. \A d \in S : m <= d
  BY <1>1, <1>2
<1> QED
  BY <1>2, <1>3 DEF First

\* A plan with remote commands has a sidecar for them.
LEMMA PoolHasOne ==
    ASSUME RunAssumption, RemoteJobs # {}
    PROVE  1 \in Worker /\ 1 <= PoolSize
<1>1. IsFiniteSet(Job)
  BY FS_Interval DEF RunAssumption
<1>2. IsFiniteSet(RemoteJobs)
  BY <1>1, FS_Subset DEF RemoteJobs
<1>3. Cardinality(RemoteJobs) \in Nat /\ Cardinality(RemoteJobs) # 0
  BY <1>2, FS_CardinalityType, FS_EmptySet
<1> QED
  BY <1>3 DEF PoolSize, RunAssumption, Worker

-----------------------------------------------------------------------------
(* Types. *)

RunWho == {"nobody", "person", "stop", "gate"}
RunAt == {"idle", "start", "lookup", "autofix", "remote", "local", "answered"}
RunPlace == {"configured", "local", "remote"}
RunWhy == {"none", "background", "unconfigured", "unauthorised", "disabled", "clean", "cached",
           "unprepared", "failed", "passed"}
RunRec ==
    [who : RunWho, at : RunAt, saw : Tree \cup {NoTree}, place : RunPlace, next : Nat,
     erred : BOOLEAN, cut : BOOLEAN, why : RunWhy]
Hands == {Out, Asking, Free} \cup Job
Outcome == {"none", "pass", "fail"}

RunTyped ==
    /\ disk \in Tree /\ known \subseteq Tree
    /\ tries \in Nat /\ signals \in 0..MaxAttempts /\ blocks \in 0..MaxAttempts
    /\ continuing \in BOOLEAN /\ later \in [Later -> Nat]
    /\ run \in RunRec
    /\ synced \in [Worker -> Tree \cup {NoTree}]
    /\ hands \in [Worker -> Hands]
    /\ did \in [Job -> Outcome]

\* Where the run is while its commands run.
Underway == {"lookup", "autofix", "remote", "local"}

\* The attempts file keeps count of the times the agent was told to go on, which starts
\* over when the agent does.
GoingOn == continuing = FALSE => signals = 0

TriesOk ==
    /\ run.at = "idle" => run.who = "nobody"
    /\ signals < MaxAttempts
    /\ run.who # "gate" => signals <= tries
    /\ run.at \in Underway /\ run.who = "gate" => tries = 0
    /\ run.at = "answered" /\ run.who = "gate" =>
          /\ signals = 0 /\ run.why # "background"
          /\ run.why = "failed" => tries < MaxAttempts

\* A remote command that nobody ran is in the queue or in a worker's hands; and a
\* worker that left did so because of an error, an interruption or an empty queue.
WorkOk ==
    /\ run.at # "remote" => \A w \in Worker : hands[w] = Out
    /\ run.at \notin {"remote", "local", "answered"} => run.next = 1
    /\ run.at # "answered" => run.why = "none"
    /\ run.at \in {"remote", "local"} => Left(AutofixFirst) = {}
    /\ run.at = "remote" =>
          /\ \A w \in Worker : hands[w] \in Job => hands[w] \in RemoteJobs
          /\ \A c \in RemoteJobs :
                did[c] # "none" \/ c >= run.next \/ \E w \in Worker : hands[w] = c
          /\ \A w \in Worker :
                w <= PoolSize /\ hands[w] = Out => run.erred = TRUE \/ run.cut = TRUE \/ Queue = {}
    /\ run.at = "local" /\ run.erred = FALSE => \A c \in RemoteJobs : did[c] = "pass"
    /\ run.why = "passed" => \A c \in Job : did[c] = "pass"

RunInv == RunTyped /\ GoingOn /\ TriesOk /\ WorkOk

\* What a run's record may be given.
LEMMA RunValues ==
    /\ "idle" \in RunAt /\ "start" \in RunAt /\ "lookup" \in RunAt /\ "autofix" \in RunAt
    /\ "remote" \in RunAt /\ "local" \in RunAt /\ "answered" \in RunAt
    /\ "nobody" \in RunWho /\ "person" \in RunWho /\ "stop" \in RunWho /\ "gate" \in RunWho
    /\ "configured" \in RunPlace /\ "local" \in RunPlace /\ "remote" \in RunPlace
    /\ "none" \in RunWhy /\ "background" \in RunWhy /\ "unconfigured" \in RunWhy
    /\ "unauthorised" \in RunWhy /\ "disabled" \in RunWhy /\ "clean" \in RunWhy
    /\ "cached" \in RunWhy /\ "unprepared" \in RunWhy /\ "failed" \in RunWhy
    /\ "passed" \in RunWhy
    /\ TRUE \in BOOLEAN /\ FALSE \in BOOLEAN
  BY DEF RunAt, RunWho, RunPlace, RunWhy

LEMMA NoRunTyped == NoRun \in RunRec
  BY RunValues, Zenon DEF NoRun, RunRec

\* A run that goes somewhere, and one that is answered.
LEMMA RunGoes ==
    ASSUME run \in RunRec, NEW a \in RunAt
    PROVE  LET r == [run EXCEPT !.at = a] IN
           /\ r \in RunRec /\ r.at = a /\ r.who = run.who /\ r.saw = run.saw
           /\ r.place = run.place /\ r.next = run.next /\ r.erred = run.erred
           /\ r.cut = run.cut /\ r.why = run.why
<1>1. [run EXCEPT !.at = a] \in RunRec
  BY Zenon DEF RunRec
<1> QED
  BY <1>1 DEF RunRec

LEMMA RunAnswered ==
    ASSUME run \in RunRec, NEW y \in RunWhy
    PROVE  LET r == [run EXCEPT !.at = "answered", !.why = y] IN
           /\ r \in RunRec /\ r.at = "answered" /\ r.who = run.who /\ r.saw = run.saw
           /\ r.place = run.place /\ r.next = run.next /\ r.erred = run.erred
           /\ r.cut = run.cut /\ r.why = y
<1>1. [run EXCEPT !.at = "answered", !.why = y] \in RunRec
  BY RunValues, Zenon DEF RunRec
<1> QED
  BY <1>1 DEF RunRec

\* The plan is the placement's.
LEMMA SamePlan ==
    ASSUME run'.place = run.place
    PROVE  /\ RemoteJobs' = RemoteJobs /\ AutofixFirst' = AutofixFirst
           /\ LocalLast' = LocalLast /\ PoolSize' = PoolSize
<1>1. \A c \in Job : Local(c)' <=> Local(c)
  BY DEF Local
<1>2. RemoteJobs' = RemoteJobs /\ AutofixFirst' = AutofixFirst /\ LocalLast' = LocalLast
  BY <1>1 DEF RemoteJobs, AutofixFirst, LocalLast
<1> QED
  BY <1>2 DEF PoolSize

\* The numbers the attempts are counted by.
LEMMA RunNumbers ==
    ASSUME RunAssumption, RunInv
    PROVE  /\ MaxAttempts \in Nat /\ MaxAttempts >= 2
           /\ tries \in Nat /\ signals \in Nat /\ blocks \in Nat
           /\ signals <= MaxAttempts /\ blocks <= MaxAttempts
           /\ continuing \in BOOLEAN
  BY DEF RunAssumption, RunInv, RunTyped

\* A hook is answered, or a person, before there is a result to wrap.
LEMMA RunExits ==
    ASSUME RunAssumption, RunInv, NEW code \in {0, 1}, NEW y \in RunWhy, Exit(code, y),
           run.at \in {"start", "lookup"}, tries' \in {0, tries},
           run.who \notin Hook => tries' = tries,
           y \notin {"failed", "passed"}, y = "background" => run.who # "gate",
           later' \in [Later -> Nat], UNCHANGED <<disk, known, synced, hands, did>>
    PROVE  RunInv'
<1>1. /\ run' = [run EXCEPT !.at = "answered", !.why = y] /\ run \in RunRec
      /\ Hears(run.who, code)
  BY DEF Exit, RunInv, RunTyped
<1>2. /\ run' \in RunRec /\ run'.at = "answered" /\ run'.who = run.who
      /\ run'.place = run.place /\ run'.why = y
  BY <1>1, RunAnswered
<1>3. /\ run.who = "stop" => continuing' = FALSE /\ signals' = 0 /\ blocks' = 0
      /\ run.who = "gate" => continuing' = continuing /\ signals' = 0 /\ blocks' = blocks
      /\ run.who \notin Hook => UNCHANGED <<continuing, signals, blocks>>
  BY <1>1 DEF Hears, Hook
<1>4. /\ run.who \in {"stop", "gate"} => signals' = 0
      /\ run.who \notin {"stop", "gate"} => signals' = signals
  BY <1>3, Zenon DEF Hook
<1>5. RunTyped'
  <2>1. tries' \in Nat /\ signals' \in 0..MaxAttempts /\ blocks' \in 0..MaxAttempts
    BY <1>3, RunNumbers DEF Hook
  <2>2. continuing' \in {FALSE, continuing} /\ continuing \in BOOLEAN
    BY <1>3, RunNumbers, Zenon DEF Hook
  <2>3. continuing' \in BOOLEAN
    BY <2>2, Zenon
  <2> QED
    BY <1>2, <2>1, <2>3 DEF RunInv, RunTyped
<1>6. TriesOk'
  BY <1>2, <1>4, RunNumbers DEF RunInv, TriesOk, Underway, Hook
<1>7. WorkOk'
  BY <1>2 DEF RunInv, WorkOk
<1>8. GoingOn'
  <2>1. CASE run.who = "stop"
    <3>1. continuing' = FALSE /\ signals' = 0
      BY <1>3, <2>1
    <3> QED
      BY <3>1, Zenon DEF GoingOn
  <2>2. CASE run.who # "stop"
    <3>1. continuing' = continuing /\ signals' \in {0, signals}
      BY <1>3, <2>2, Zenon DEF Hook
    <3> QED
      BY <3>1, Zenon DEF RunInv, GoingOn
  <2> QED
    BY <2>1, <2>2
<1> QED
  BY <1>5, <1>6, <1>7, <1>8 DEF RunInv

\* A result is told.
LEMMA RunTold ==
    ASSUME RunAssumption, RunInv, NEW bad \in BOOLEAN, NEW y \in {"cached", "failed", "passed"},
           Answer(bad, y), run.at \in {"lookup", "local"}, bad <=> y = "failed",
           y = "passed" => \A c \in Job : did[c] = "pass",
           known' \subseteq Tree, UNCHANGED <<disk, later, synced, hands, did>>
    PROVE  RunInv'
<1>19. run' = [run EXCEPT !.at = "answered", !.why = y] /\ run \in RunRec /\ y \in RunWhy
  BY DEF Answer, RunInv, RunTyped, RunWhy
<1>18. /\ run' \in RunRec /\ run'.at = "answered" /\ run'.who = run.who
      /\ run'.place = run.place /\ run'.why = y
  BY <1>19, RunAnswered
<1>3. ASSUME run.who \notin Hook PROVE UNCHANGED <<tries, continuing, signals, blocks>>
  BY <1>3 DEF Answer, IsHook
<1>4. ASSUME run.who \in Hook, ~bad
      PROVE  /\ tries' = 0 /\ signals' = 0 /\ blocks' \in {0, blocks}
             /\ run.who = "stop" => continuing' = FALSE
             /\ run.who = "gate" => continuing' = continuing
  BY <1>4 DEF Answer, IsHook, WrapHookResult, Hears, Hook
<1>5. ASSUME run.who = "gate", bad
      PROVE  /\ tries' = tries + 1 /\ signals' = 0 /\ blocks' = blocks /\ continuing' = continuing
  BY <1>5 DEF Answer, IsHook, WrapHookResult, Hears, Hook
<1>6. ASSUME run.who = "stop", bad
      PROVE  /\ tries' = tries + 1
             /\ tries' >= MaxAttempts => continuing' = FALSE /\ signals' = 0 /\ blocks' = 0
             /\ ~(tries' >= MaxAttempts) =>
                   /\ continuing' = TRUE /\ signals' = signals + 1
                   /\ blocks' = IF blocks < MaxAttempts THEN blocks + 1 ELSE blocks
  BY <1>6 DEF Answer, IsHook, WrapHookResult, Hears, Hook
<1>7. /\ run.who = "gate" => tries = 0
      /\ run.who # "gate" => signals <= tries
  BY DEF RunInv, TriesOk, Underway
<1>8. run.who \in {"stop", "gate"} \/ run.who \notin Hook
  BY DEF Hook
<1>9. run.who \notin Hook => tries' = tries /\ signals' = signals /\ blocks' = blocks
  BY <1>3, Zenon
<1>10. run.who = "gate" =>
          /\ signals' = 0 /\ blocks' \in {0, blocks}
          /\ ~bad => tries' = 0
          /\ bad => tries' = tries + 1
  BY <1>4, <1>5, Zenon DEF Hook
<1>11. run.who = "stop" /\ ~bad => tries' = 0 /\ signals' = 0 /\ blocks' \in {0, blocks}
  BY <1>4, Zenon DEF Hook
<1>12. run.who = "stop" /\ bad =>
          /\ tries' = tries + 1
          /\ \/ signals' = 0 /\ blocks' = 0
             \/ /\ ~(tries' >= MaxAttempts) /\ signals' = signals + 1
                /\ blocks' = IF blocks < MaxAttempts THEN blocks + 1 ELSE blocks
  BY <1>6, Zenon
<1>13. RunTyped'
  <2>1. tries' \in Nat /\ signals' \in 0..MaxAttempts /\ blocks' \in 0..MaxAttempts
    <3>1. CASE run.who \notin Hook
      BY <1>9, <3>1, RunNumbers
    <3>2. CASE run.who = "gate"
      BY <1>7, <1>10, <3>2, RunNumbers
    <3>3. CASE run.who = "stop"
      BY <1>7, <1>11, <1>12, <3>3, RunNumbers
    <3> QED
      BY <1>8, <3>1, <3>2, <3>3
  <2>2. continuing' \in {TRUE, FALSE, continuing} /\ continuing \in BOOLEAN
    BY <1>3, <1>4, <1>5, <1>6, <1>8, RunNumbers, Zenon DEF Hook
  <2>3. continuing' \in BOOLEAN
    BY <2>2, Zenon
  <2> QED
    BY <1>18, <2>1, <2>3 DEF RunInv, RunTyped
<1>14. TriesOk'
  <2>1. CASE run.who \notin Hook
    BY <1>18, <1>9, <2>1, RunNumbers DEF RunInv, TriesOk, Underway, Hook
  <2>2. CASE run.who = "gate"
    BY <1>18, <1>7, <1>10, <2>2, RunNumbers DEF RunInv, TriesOk, Underway
  <2>3. CASE run.who = "stop"
    BY <1>18, <1>7, <1>11, <1>12, <2>3, RunNumbers DEF RunInv, TriesOk, Underway
  <2> QED
    BY <1>8, <2>1, <2>2, <2>3
<1>15. WorkOk'
  BY <1>18 DEF RunInv, WorkOk
<1>16. GoingOn'
  <2>1. CASE run.who \notin Hook
    BY <1>3, <2>1, Zenon DEF RunInv, GoingOn
  <2>2. CASE run.who = "gate"
    <3>1. signals' = 0
      BY <1>10, <2>2
    <3> QED
      BY <3>1, Zenon DEF GoingOn
  <2>3. CASE run.who = "stop"
    <3>1. (continuing' = FALSE /\ signals' = 0) \/ continuing' = TRUE
      BY <1>4, <1>6, <2>3, Zenon DEF Hook
    <3> QED
      BY <3>1, Zenon DEF GoingOn
  <2> QED
    BY <1>8, <2>1, <2>2, <2>3
<1> QED
  BY <1>13, <1>14, <1>15, <1>16 DEF RunInv

\* What keeps the counters and the answer as they are keeps what is said of them.
LEMMA RunCounts ==
    ASSUME RunInv, UNCHANGED <<tries, continuing, signals, blocks>>,
           run'.who = run.who, run'.why = run.why, run'.at = run.at \/ run'.at \in Underway,
           run.at \in Underway
    PROVE  GoingOn' /\ TriesOk'
<1>19. GoingOn'
  BY DEF RunInv, GoingOn
<1>18. run'.at \in Underway /\ run'.at # "idle" /\ run'.at # "answered"
  BY DEF Underway
<1> QED
  BY <1>19, <1>18 DEF RunInv, TriesOk

\* One command's outcome among the others.
LEMMA RunOutcome ==
    ASSUME did \in [Job -> Outcome], NEW c \in Job, NEW result \in RunCommand,
           did' = [did EXCEPT ![c] = result]
    PROVE  /\ did' \in [Job -> Outcome] /\ did'[c] # "none"
           /\ \A d \in Job : d # c => did'[d] = did[d]
  BY DEF Outcome, RunCommand

\* A batch that ended with no failure passed.
LEMMA RunAllPass ==
    ASSUME did \in [Job -> Outcome], NEW batch \in SUBSET Job, Left(batch) = {}, ~Failed(batch)
    PROVE  \A c \in batch : did[c] = "pass"
  BY DEF Left, Failed, Outcome

\* What another batch's command came to leaves a batch as it was.
LEMMA RunLeft ==
    ASSUME NEW batch \in SUBSET Job, \A d \in batch : did'[d] = did[d]
    PROVE  Left(batch)' = Left(batch)
  BY DEF Left

\* The run that is about to go on.
LEMMA RunStarted ==
    ASSUME NEW who \in RunWho, NEW place \in RunPlace
    PROVE  LET r == [NoRun EXCEPT !.who = who, !.at = "start", !.place = place] IN
           /\ r \in RunRec /\ r.at = "start" /\ r.who = who /\ r.next = 1 /\ r.why = "none"
<1>19. [NoRun EXCEPT !.who = who, !.at = "start", !.place = place] \in RunRec
  BY NoRunTyped, RunValues, Zenon DEF RunRec
<1> QED
  BY <1>19 DEF RunRec, NoRun

-----------------------------------------------------------------------------
(* Every action keeps the invariant. *)

LEMMA RunBegins ==
    ASSUME RunAssumption, RunInv, NEW who \in {"person", "stop", "gate"},
           NEW place \in RunPlace, Begins(who, place)
    PROVE  RunInv'
<1>1. who \in RunWho
  BY DEF RunWho
<1>2. /\ run' \in RunRec /\ run'.at = "start" /\ run'.who = who /\ run'.next = 1
      /\ run'.why = "none" /\ run.at = "idle"
  BY <1>1, RunStarted DEF Begins
<1>3. /\ UNCHANGED <<disk, known, later, synced, hands, did>>
      /\ UNCHANGED <<tries, continuing, signals, blocks>>
  BY DEF Begins
<1>4. RunTyped'
  BY <1>2, <1>3 DEF RunInv, RunTyped
<1>5. GoingOn'
  BY <1>3 DEF RunInv, GoingOn
<1>6. TriesOk'
  BY <1>2, <1>3 DEF RunInv, TriesOk, Underway
<1>7. WorkOk'
  BY <1>2, <1>3 DEF RunInv, WorkOk
<1> QED
  BY <1>4, <1>5, <1>6, <1>7 DEF RunInv

\* A released run is of one of the kinds.
LEMMA KindIs == Kind \in Later
  BY Zenon DEF Kind, Later

LEMMA RunDelegated ==
    ASSUME RunAssumption, RunInv, Delegated \/ DelegateToDaemon
    PROVE  RunInv'
<1>1. run.at \in {"start", "lookup"} /\ run.who # "gate" /\ Exit(0, "background")
  BY DEF Delegated, DelegateToDaemon, MayRunInBackground
<1>2. UNCHANGED <<disk, tries, known, synced, hands, did>>
  BY DEF Delegated, DelegateToDaemon
<1>5. later' \in [Later -> Nat]
  <2>1. later \in [Later -> Nat]
    BY DEF RunInv, RunTyped
  <2>2. CASE Delegated
    <3>1. later' = [later EXCEPT ![Kind] = @ + 1]
      BY <2>2 DEF Delegated
    <3> QED
      BY <2>1, <3>1, KindIs
  <2>3. CASE DelegateToDaemon
    BY <2>1, <2>3 DEF DelegateToDaemon
  <2> QED
    BY <2>2, <2>3
<1>3. "background" \in RunWhy /\ "background" \notin {"failed", "passed"}
  BY RunValues
<1>4. tries' \in {0, tries}
  BY <1>2
<1> QED
  BY <1>1, <1>2, <1>3, <1>4, <1>5, RunExits

\* The run's record when it goes on to look its tree up.
LEMMA RunLooksUp ==
    ASSUME run \in RunRec, NEW seen \in Tree \cup {NoTree}
    PROVE  LET r == [run EXCEPT !.at = "lookup", !.saw = seen] IN
           /\ r \in RunRec /\ r.at = "lookup" /\ r.who = run.who /\ r.next = run.next
           /\ r.why = run.why /\ r.place = run.place
<1>1. [run EXCEPT !.at = "lookup", !.saw = seen] \in RunRec
  BY RunValues, Zenon DEF RunRec
<1> QED
  BY <1>1 DEF RunRec

LEMMA RunInits ==
    ASSUME RunAssumption, RunInv, InitHook
    PROVE  RunInv'
<1>1. /\ run.at = "start" /\ tries' = IF StartsOver THEN 0 ELSE tries
      /\ UNCHANGED <<disk, known, later, synced, hands, did>>
  BY DEF InitHook
<1>2. PICK seen \in IF IsHook THEN {disk, NoTree} ELSE {NoTree} :
        \/ IsHook /\ Exit(1, "disabled")
        \/ seen = 0 /\ Exit(0, "clean")
        \/ seen # 0 /\ GoesOn(seen)
  BY DEF InitHook
<1>3. tries' \in {0, tries} /\ (run.who \notin Hook => tries' = tries)
  BY <1>1 DEF StartsOver, Hook
<1>8. later' \in [Later -> Nat]
  BY <1>1 DEF RunInv, RunTyped
<1>4. ASSUME NEW y \in {"disabled", "clean", "unconfigured", "unauthorised"},
             NEW code \in {0, 1}, Exit(code, y)
      PROVE  RunInv'
  <2>1. y \in RunWhy /\ y \notin {"failed", "passed"} /\ y # "background"
    BY DEF RunWhy
  <2> QED
    BY <1>1, <1>3, <1>4, <1>8, <2>1, RunExits
<1>5. CASE IsHook /\ Exit(1, "disabled")
  BY <1>4, <1>5
<1>6. CASE Exit(0, "clean")
  BY <1>4, <1>6
<1>7. CASE GoesOn(seen)
  <2>1. CASE Exit(IF IsHook THEN 0 ELSE 1, "unconfigured")
    BY <1>4, <2>1
  <2>2. CASE Exit(1, "unauthorised")
    BY <1>4, <2>2
  <2>3. CASE /\ run' = [run EXCEPT !.at = "lookup", !.saw = seen]
             /\ UNCHANGED <<continuing, signals, blocks>>
    <3>1. seen \in Tree \cup {NoTree} /\ run \in RunRec
      BY DEF RunInv, RunTyped
    <3>2. /\ run' \in RunRec /\ run'.at = "lookup" /\ run'.who = run.who
          /\ run'.next = run.next /\ run'.why = run.why
      BY <2>3, <3>1, RunLooksUp
    <3>4. run.who = "stop" /\ tries' # tries => continuing = FALSE
      BY <1>1, RunNumbers, Zenon DEF StartsOver
    <3>5. run.who = "stop" /\ tries' # tries => signals = 0
      BY <3>4, Zenon DEF RunInv, GoingOn
    <3>6. run.who = "gate" => tries' = 0
      BY <1>1, Zenon DEF StartsOver
    <3>7. RunTyped'
      BY <1>1, <1>3, <2>3, <3>2, RunNumbers DEF RunInv, RunTyped
    <3>8. TriesOk'
      BY <1>1, <1>3, <2>3, <3>2, <3>5, <3>6, RunNumbers DEF RunInv, TriesOk, Underway, Hook
    <3>9. WorkOk'
      BY <1>1, <3>2 DEF RunInv, WorkOk
    <3>10. GoingOn'
      BY <2>3, Zenon DEF RunInv, GoingOn
    <3> QED
      BY <3>7, <3>8, <3>9, <3>10 DEF RunInv
  <2> QED
    BY <1>7, <2>1, <2>2, <2>3 DEF GoesOn
<1> QED
  BY <1>2, <1>5, <1>6, <1>7

LEMMA RunCached ==
    ASSUME RunAssumption, RunInv, Cached
    PROVE  RunInv'
<1>1. Answer(FALSE, "cached") /\ run.at \in {"lookup", "local"}
  BY DEF Cached
<1>2. UNCHANGED <<disk, known, later, synced, hands, did>> /\ known' \subseteq Tree
  BY DEF Cached, RunInv, RunTyped
<1> QED
  BY <1>1, <1>2, RunTold

LEMMA RunPrepares ==
    ASSUME RunAssumption, RunInv, Prepare
    PROVE  RunInv'
<1>1. /\ run.at = "lookup" /\ UNCHANGED <<disk, tries, known, later, hands, did>>
      /\ later' \in [Later -> Nat]
  BY DEF Prepare, RunInv, RunTyped
<1>2. CASE Exit(1, "unprepared") /\ UNCHANGED synced
  <2>1. "unprepared" \in RunWhy /\ "unprepared" \notin {"failed", "passed"}
    BY RunValues
  <2> QED
    BY <1>1, <1>2, <2>1, RunExits
<1>3. CASE /\ run' = [run EXCEPT !.at = "autofix"]
           /\ synced' = IF PoolSize > 0 THEN [synced EXCEPT ![1] = disk] ELSE synced
           /\ UNCHANGED <<continuing, signals, blocks>>
  <2>1. "autofix" \in RunAt /\ run \in RunRec /\ synced \in [Worker -> Tree \cup {NoTree}]
        /\ disk \in Tree
    BY RunValues DEF RunInv, RunTyped
  <2>2. /\ run' \in RunRec /\ run'.at = "autofix" /\ run'.who = run.who
        /\ run'.next = run.next /\ run'.why = run.why
    BY <1>3, <2>1, RunGoes
  <2>3. synced' \in [Worker -> Tree \cup {NoTree}]
    BY <1>3, <2>1
  <2>4. RunTyped'
    BY <1>1, <1>3, <2>2, <2>3 DEF RunInv, RunTyped
  <2>5. GoingOn' /\ TriesOk'
    <3>1. run.at \in Underway /\ run'.at \in Underway
      BY <1>1, <2>2 DEF Underway
    <3> QED
      BY <1>1, <1>3, <2>2, <3>1, RunCounts
  <2>6. WorkOk'
    BY <1>1, <2>2 DEF RunInv, WorkOk
  <2> QED
    BY <2>4, <2>5, <2>6 DEF RunInv
<1> QED
  BY <1>2, <1>3 DEF Prepare

LEMMA RunSyncs ==
    ASSUME RunAssumption, RunInv, NEW w \in Worker, SyncMember(w)
    PROVE  RunInv'
<1>1. /\ UNCHANGED <<disk, tries, continuing, signals, blocks, known, later, run, hands, did>>
      /\ synced' = [synced EXCEPT ![w] = disk] /\ run'.place = run.place
  BY DEF SyncMember
<1>2. RunTyped'
  BY <1>1 DEF RunInv, RunTyped
<1>3. GoingOn' /\ TriesOk'
  BY <1>1 DEF RunInv, GoingOn, TriesOk
<1>4. WorkOk'
  <2>1. /\ RemoteJobs' = RemoteJobs /\ AutofixFirst' = AutofixFirst /\ PoolSize' = PoolSize
    BY <1>1, SamePlan
  <2>2. Left(AutofixFirst)' = Left(AutofixFirst) /\ Queue' = Queue
    BY <1>1, <2>1 DEF Left, Queue
  <2> QED
    BY <1>1, <2>1, <2>2 DEF RunInv, WorkOk
<1> QED
  BY <1>2, <1>3, <1>4 DEF RunInv

\* A local command is one of its batch that has not run.
LEMMA RunsNext ==
    ASSUME RunAssumption, RunInv, NEW batch \in SUBSET Job, Left(batch) # {}, RunLocally(batch)
    PROVE  /\ did' \in [Job -> Outcome] /\ disk' \in Tree
           /\ \A d \in Job \ batch : did'[d] = did[d]
<1>1. Left(batch) \subseteq batch
  BY DEF Left
<1>2. First(Left(batch)) \in batch
  BY <1>1, FirstIs
<1>3. PICK result \in RunCommand : did' = [did EXCEPT ![First(Left(batch))] = result]
  BY DEF RunLocally
<1>4. did' \in [Job -> Outcome] /\ \A d \in Job : d # First(Left(batch)) => did'[d] = did[d]
  BY <1>2, <1>3, RunOutcome DEF RunInv, RunTyped
<1>5. disk' \in Tree
  BY DEF RunLocally, RunInv, RunTyped
<1> QED
  BY <1>2, <1>4, <1>5

LEMMA RunAutofixes ==
    ASSUME RunAssumption, RunInv, RunAutofix
    PROVE  RunInv'
<1>1. /\ run.at = "autofix" /\ run' = run
      /\ UNCHANGED <<tries, continuing, signals, blocks, known, later, synced, hands>>
  BY DEF RunAutofix
<1>2. did' \in [Job -> Outcome] /\ disk' \in Tree
  BY RunsNext DEF RunAutofix, AutofixFirst
<1>3. RunTyped'
  BY <1>1, <1>2 DEF RunInv, RunTyped
<1>4. GoingOn' /\ TriesOk'
  BY <1>1 DEF RunInv, GoingOn, TriesOk
<1>5. WorkOk'
  BY <1>1 DEF RunInv, WorkOk
<1> QED
  BY <1>3, <1>4, <1>5 DEF RunInv

LEMMA RunStartsRemote ==
    ASSUME RunAssumption, RunInv, StartRemote
    PROVE  RunInv'
<1>1. /\ run.at = "autofix" /\ Left(AutofixFirst) = {} /\ run' = [run EXCEPT !.at = "remote"]
      /\ hands' = [w \in Worker |-> IF w <= PoolSize THEN Asking ELSE Out]
      /\ UNCHANGED <<disk, tries, continuing, signals, blocks, known, later, synced, did>>
  BY DEF StartRemote
<1>2. /\ run' \in RunRec /\ run'.at = "remote" /\ run'.who = run.who /\ run'.next = run.next
      /\ run'.why = run.why /\ run'.place = run.place
  <2>1. "remote" \in RunAt /\ run \in RunRec
    BY RunValues DEF RunInv, RunTyped
  <2> QED
    BY <1>1, <2>1, RunGoes
<1>3. hands' \in [Worker -> Hands] /\ \A w \in Worker : hands'[w] \in {Asking, Out}
  BY <1>1 DEF Hands
<1>4. RunTyped'
  BY <1>1, <1>2, <1>3 DEF RunInv, RunTyped
<1>5. GoingOn' /\ TriesOk'
  <2>1. run.at \in Underway /\ run'.at \in Underway
    BY <1>1, <1>2 DEF Underway
  <2> QED
    BY <1>1, <1>2, <2>1, RunCounts
<1>6. WorkOk'
  <2>1. /\ RemoteJobs' = RemoteJobs /\ AutofixFirst' = AutofixFirst /\ PoolSize' = PoolSize
    BY <1>2, SamePlan
  <2>2. Left(AutofixFirst)' = {}
    BY <1>1, <2>1 DEF Left
  <2>3. run.next = 1 /\ run.why = "none"
    BY <1>1 DEF RunInv, WorkOk
  <2>4. \A w \in Worker : hands'[w] \notin Job
    BY <1>3 DEF RunAssumption, Asking, Out
  <2>5. \A c \in RemoteJobs : c >= 1
    BY DEF RunAssumption, RemoteJobs
  <2>6. \A w \in Worker : w <= PoolSize => hands'[w] # Out
    BY <1>1 DEF Asking, Out
  <2> QED
    BY <1>2, <2>1, <2>2, <2>3, <2>4, <2>5, <2>6 DEF WorkOk
<1> QED
  BY <1>4, <1>5, <1>6 DEF RunInv

\* While workers are at it, the run is at its remote commands.
LEMMA RunAtRemote ==
    ASSUME RunInv, NEW w \in Worker, hands[w] # Out
    PROVE  run.at = "remote" /\ run.why = "none" /\ Left(AutofixFirst) = {}
  BY DEF RunInv, WorkOk

\* Steps of the workers: the batch before stays empty, and the rest is to be shown.
LEMMA RunWorks ==
    ASSUME RunInv, run.at = "remote", run' \in RunRec,
           run'.at = run.at, run'.who = run.who, run'.place = run.place, run'.why = run.why,
           hands' \in [Worker -> Hands], did' \in [Job -> Outcome],
           \A c \in AutofixFirst : did'[c] = did[c],
           UNCHANGED <<disk, tries, continuing, signals, blocks, known, later, synced>>,
           \A w \in Worker : hands'[w] \in Job => hands'[w] \in RemoteJobs,
           \A c \in RemoteJobs :
              did'[c] # "none" \/ c >= run'.next \/ \E w \in Worker : hands'[w] = c,
           \A w \in Worker :
              w <= PoolSize /\ hands'[w] = Out =>
                 run'.erred = TRUE \/ run'.cut = TRUE \/ Queue' = {}
    PROVE  RunInv'
<1>1. RunTyped'
  BY DEF RunInv, RunTyped
<1>2. GoingOn' /\ TriesOk'
  BY DEF RunInv, GoingOn, TriesOk
<1>3. RemoteJobs' = RemoteJobs /\ AutofixFirst' = AutofixFirst /\ PoolSize' = PoolSize
  BY SamePlan
<1>4. Left(AutofixFirst)' = {}
  BY <1>3 DEF RunInv, WorkOk, Left
<1>5. run.why = "none" /\ run'.at = "remote" /\ run'.why = "none"
  BY DEF RunInv, WorkOk
<1>6. WorkOk'
  BY <1>3, <1>4, <1>5 DEF WorkOk
<1> QED
  BY <1>1, <1>2, <1>6 DEF RunInv

LEMMA RunAcquires ==
    ASSUME RunAssumption, RunInv, NEW w \in Worker, AcquireWorker(w)
    PROVE  RunInv'
<1>1. /\ hands[w] = Asking
      /\ UNCHANGED <<disk, tries, continuing, signals, blocks, known, later, synced, did>>
      /\ run \in RunRec /\ hands \in [Worker -> Hands] /\ did \in [Job -> Outcome]
  BY DEF AcquireWorker, RunInv, RunTyped
<1>2. run.at = "remote"
  BY <1>1, RunAtRemote DEF Asking, Out
<1>3. /\ Asking \notin Job /\ Out \notin Job /\ Free \notin Job /\ Free # Out
      /\ Out \in Hands /\ Free \in Hands
  BY DEF RunAssumption, Asking, Out, Free, Hands
<1>4. \/ hands' = [hands EXCEPT ![w] = Free] /\ run' = run
      \/ hands' = [hands EXCEPT ![w] = Out] /\ run' = [run EXCEPT !.erred = TRUE]
  BY DEF AcquireWorker
<1>5. /\ run' \in RunRec /\ run'.at = run.at /\ run'.who = run.who /\ run'.place = run.place
      /\ run'.why = run.why /\ run'.next = run.next /\ run'.cut = run.cut
      /\ run'.erred \in {run.erred, TRUE}
      /\ hands'[w] = Out => run'.erred = TRUE
  <2>1. CASE hands' = [hands EXCEPT ![w] = Free] /\ run' = run
    BY <1>1, <1>3, <2>1
  <2>2. CASE hands' = [hands EXCEPT ![w] = Out] /\ run' = [run EXCEPT !.erred = TRUE]
    <3>1. [run EXCEPT !.erred = TRUE] \in RunRec
      BY <1>1, RunValues, Zenon DEF RunRec
    <3> QED
      BY <1>1, <2>2, <3>1 DEF RunRec
  <2> QED
    BY <1>4, <2>1, <2>2
<1>6. /\ hands' \in [Worker -> Hands] /\ hands'[w] \notin Job
      /\ \A x \in Worker : x # w => hands'[x] = hands[x]
  BY <1>1, <1>3, <1>4
<1>7. \A x \in Worker : hands'[x] \in Job => hands'[x] \in RemoteJobs
  BY <1>2, <1>6 DEF RunInv, WorkOk
<1>8. \A c \in RemoteJobs :
         did'[c] # "none" \/ c >= run'.next \/ \E x \in Worker : hands'[x] = c
  BY <1>1, <1>2, <1>3, <1>5, <1>6 DEF RunInv, WorkOk, RemoteJobs
<1>9. Queue' = Queue
  BY <1>5, SamePlan DEF Queue
<1>10. \A x \in Worker :
          x <= PoolSize /\ hands'[x] = Out => run'.erred = TRUE \/ run'.cut = TRUE \/ Queue' = {}
  <2> SUFFICES ASSUME NEW x \in Worker, x <= PoolSize, hands'[x] = Out
               PROVE  run'.erred = TRUE \/ run'.cut = TRUE \/ Queue' = {}
    OBVIOUS
  <2>1. CASE x = w
    BY <1>5, <2>1
  <2>2. CASE x # w
    <3>1. hands[x] = Out
      BY <1>6, <2>2
    <3>2. run.erred = TRUE \/ run.cut = TRUE \/ Queue = {}
      BY <1>2, <3>1 DEF RunInv, WorkOk
    <3> QED
      BY <1>5, <1>9, <3>2, Zenon
  <2> QED
    BY <2>1, <2>2
<1> QED
  BY <1>1, <1>2, <1>5, <1>6, <1>7, <1>8, <1>10, RunWorks

LEMMA RunTakes ==
    ASSUME RunAssumption, RunInv, NEW w \in Worker, TakeJob(w)
    PROVE  RunInv'
<1>1. /\ hands[w] = Free /\ Queue # {} /\ hands' = [hands EXCEPT ![w] = First(Queue)]
      /\ run' = [run EXCEPT !.next = First(Queue) + 1]
      /\ UNCHANGED <<disk, tries, continuing, signals, blocks, known, later, synced, did>>
      /\ run \in RunRec /\ hands \in [Worker -> Hands] /\ did \in [Job -> Outcome]
  BY DEF TakeJob, RunInv, RunTyped
<1>2. run.at = "remote" /\ Free \notin Job /\ Out \notin Job /\ Job \subseteq Nat
  BY <1>1, RunAtRemote DEF Free, Out, RunAssumption
<1>3. /\ First(Queue) \in Queue /\ \A d \in Queue : First(Queue) <= d
  <2>1. Queue \in SUBSET Job
    BY DEF Queue, RemoteJobs
  <2> QED
    BY <1>1, <2>1, FirstIs
<1>4. First(Queue) \in RemoteJobs /\ First(Queue) \in Nat /\ First(Queue) \in Hands
  BY <1>2, <1>3 DEF Queue, RemoteJobs, Hands
<1>5. /\ run' \in RunRec /\ run'.at = run.at /\ run'.who = run.who /\ run'.place = run.place
      /\ run'.why = run.why /\ run'.erred = run.erred /\ run'.cut = run.cut
      /\ run'.next = First(Queue) + 1
  <2>1. First(Queue) + 1 \in Nat
    BY <1>4
  <2>2. [run EXCEPT !.next = First(Queue) + 1] \in RunRec
    BY <1>1, <2>1, Zenon DEF RunRec
  <2> QED
    BY <1>1, <2>2 DEF RunRec
<1>6. /\ hands' \in [Worker -> Hands] /\ hands'[w] = First(Queue)
      /\ \A x \in Worker : x # w => hands'[x] = hands[x]
  BY <1>1, <1>4
<1>7. \A x \in Worker : hands'[x] \in Job => hands'[x] \in RemoteJobs
  BY <1>2, <1>4, <1>6 DEF RunInv, WorkOk
<1>8. \A c \in RemoteJobs :
         did'[c] # "none" \/ c >= run'.next \/ \E x \in Worker : hands'[x] = c
  <2> SUFFICES ASSUME NEW c \in RemoteJobs, did'[c] = "none", ~(c >= run'.next)
               PROVE  \E x \in Worker : hands'[x] = c
    OBVIOUS
  <2>1. c \in Nat /\ c \in Job
    BY <1>2 DEF RemoteJobs
  <2>2. CASE c >= run.next
    <3>1. c \in Queue
      BY <2>2 DEF Queue
    <3>2. c = First(Queue)
      BY <1>3, <1>4, <1>5, <2>1, <3>1
    <3> QED
      BY <1>6, <3>2
  <2>3. CASE ~(c >= run.next)
    <3>1. PICK x \in Worker : hands[x] = c
      BY <1>1, <1>2, <2>3 DEF RunInv, WorkOk
    <3>2. x # w
      BY <1>1, <1>2, <2>1, <3>1
    <3> QED
      BY <1>6, <3>1, <3>2
  <2> QED
    BY <2>2, <2>3
<1>9. Queue' \subseteq Queue
  <2>1. RemoteJobs' = RemoteJobs
    BY <1>5, SamePlan
  <2>2. \A c \in RemoteJobs : c >= run'.next => c >= run.next
    BY <1>1, <1>2, <1>3, <1>4, <1>5 DEF Queue, RemoteJobs, RunRec
  <2> QED
    BY <2>1, <2>2 DEF Queue
<1>10. \A x \in Worker :
          x <= PoolSize /\ hands'[x] = Out => run'.erred = TRUE \/ run'.cut = TRUE \/ Queue' = {}
  <2> SUFFICES ASSUME NEW x \in Worker, x <= PoolSize, hands'[x] = Out
               PROVE  run'.erred = TRUE \/ run'.cut = TRUE \/ Queue' = {}
    OBVIOUS
  <2>1. x # w
    BY <1>2, <1>4, <1>6 DEF RemoteJobs
  <2>2. hands[x] = Out
    BY <1>6, <2>1
  <2>3. run.erred = TRUE \/ run.cut = TRUE \/ Queue = {}
    BY <1>2, <2>2 DEF RunInv, WorkOk
  <2> QED
    BY <1>5, <1>9, <2>3, Zenon
<1> QED
  BY <1>1, <1>2, <1>5, <1>6, <1>7, <1>8, <1>10, RunWorks

LEMMA RunLeaves ==
    ASSUME RunAssumption, RunInv, NEW w \in Worker, WorkerLeaves(w)
    PROVE  RunInv'
<1>1. /\ hands[w] = Free /\ (Queue = {} \/ run.cut) /\ hands' = [hands EXCEPT ![w] = Out]
      /\ UNCHANGED <<disk, tries, continuing, signals, blocks, known, later, run, synced, did>>
      /\ run \in RunRec /\ hands \in [Worker -> Hands] /\ did \in [Job -> Outcome]
  BY DEF WorkerLeaves, RunInv, RunTyped
<1>2. run.at = "remote" /\ Free \notin Job /\ Out \notin Job /\ Out \in Hands
  BY <1>1, RunAtRemote DEF Free, Out, RunAssumption, Hands
<1>3. Queue = {} \/ run.cut = TRUE
  <2>1. run.cut \in BOOLEAN
    BY <1>1 DEF RunRec
  <2> QED
    BY <1>1, <2>1, Zenon
<1>4. /\ hands' \in [Worker -> Hands] /\ hands'[w] = Out
      /\ \A x \in Worker : x # w => hands'[x] = hands[x]
  BY <1>1, <1>2
<1>5. \A x \in Worker : hands'[x] \in Job => hands'[x] \in RemoteJobs
  BY <1>2, <1>4 DEF RunInv, WorkOk
<1>6. \A c \in RemoteJobs :
         did'[c] # "none" \/ c >= run'.next \/ \E x \in Worker : hands'[x] = c
  BY <1>1, <1>2, <1>4 DEF RunInv, WorkOk, RemoteJobs
<1>7. Queue' = Queue
  BY <1>1, SamePlan DEF Queue
<1>8. \A x \in Worker :
         x <= PoolSize /\ hands'[x] = Out => run'.erred = TRUE \/ run'.cut = TRUE \/ Queue' = {}
  <2> SUFFICES ASSUME NEW x \in Worker, x <= PoolSize, hands'[x] = Out
               PROVE  run'.erred = TRUE \/ run'.cut = TRUE \/ Queue' = {}
    OBVIOUS
  <2>1. run.erred = TRUE \/ run.cut = TRUE \/ Queue = {}
    BY <1>2, <1>3, <1>4 DEF RunInv, WorkOk
  <2> QED
    BY <1>1, <1>7, <2>1, Zenon
<1>9. run' \in RunRec /\ run'.at = run.at /\ run'.who = run.who /\ run'.place = run.place
      /\ run'.why = run.why /\ did' \in [Job -> Outcome]
  BY <1>1
<1> QED
  BY <1>1, <1>2, <1>4, <1>5, <1>6, <1>8, <1>9, RunWorks

LEMMA RunOnSidecars ==
    ASSUME RunAssumption, RunInv, NEW w \in Worker, RunOnSidecar(w)
    PROVE  RunInv'
<1>1. /\ hands[w] \in Job /\ hands' = [hands EXCEPT ![w] = Free]
      /\ UNCHANGED <<disk, tries, continuing, signals, blocks, known, later, run, synced>>
      /\ run \in RunRec /\ hands \in [Worker -> Hands] /\ did \in [Job -> Outcome]
  BY DEF RunOnSidecar, RunInv, RunTyped
<1>2. /\ Free \notin Job /\ Out \notin Job /\ Free # Out /\ Free \in Hands
  BY DEF Free, Out, RunAssumption, Hands
<1>3. run.at = "remote" /\ hands[w] \in RemoteJobs
  BY <1>1, <1>2, RunAtRemote DEF RunInv, WorkOk
<1>4. /\ did' \in [Job -> Outcome] /\ did'[hands[w]] # "none"
      /\ \A d \in Job : d # hands[w] => did'[d] = did[d]
  BY <1>1, RunOutcome DEF RunOnSidecar
<1>5. /\ hands' \in [Worker -> Hands] /\ hands'[w] = Free
      /\ \A x \in Worker : x # w => hands'[x] = hands[x]
  BY <1>1, <1>2
<1>6. \A x \in Worker : hands'[x] \in Job => hands'[x] \in RemoteJobs
  BY <1>2, <1>3, <1>5 DEF RunInv, WorkOk
<1>7. \A c \in RemoteJobs :
         did'[c] # "none" \/ c >= run'.next \/ \E x \in Worker : hands'[x] = c
  <2> SUFFICES ASSUME NEW c \in RemoteJobs, did'[c] = "none", ~(c >= run'.next)
               PROVE  \E x \in Worker : hands'[x] = c
    OBVIOUS
  <2>1. c \in Job /\ c # hands[w] /\ did[c] = "none" /\ ~(c >= run.next)
    BY <1>1, <1>4 DEF RemoteJobs
  <2>2. PICK x \in Worker : hands[x] = c
    BY <1>3, <2>1 DEF RunInv, WorkOk
  <2> QED
    BY <1>5, <2>1, <2>2
<1>8. Queue' = Queue
  BY <1>1, SamePlan DEF Queue
<1>9. \A x \in Worker :
         x <= PoolSize /\ hands'[x] = Out => run'.erred = TRUE \/ run'.cut = TRUE \/ Queue' = {}
  <2> SUFFICES ASSUME NEW x \in Worker, x <= PoolSize, hands'[x] = Out
               PROVE  run'.erred = TRUE \/ run'.cut = TRUE \/ Queue' = {}
    OBVIOUS
  <2>1. hands[x] = Out
    BY <1>2, <1>5
  <2>2. run.erred = TRUE \/ run.cut = TRUE \/ Queue = {}
    BY <1>3, <2>1 DEF RunInv, WorkOk
  <2> QED
    BY <1>1, <1>8, <2>2, Zenon
<1>10. \A c \in AutofixFirst : did'[c] = did[c]
  BY <1>3, <1>4 DEF AutofixFirst, RemoteJobs
<1>11. run' \in RunRec /\ run'.at = run.at /\ run'.who = run.who /\ run'.place = run.place
       /\ run'.why = run.why
  BY <1>1
<1> QED
  BY <1>1, <1>3, <1>4, <1>5, <1>6, <1>7, <1>9, <1>10, <1>11, RunWorks

LEMMA RunInterrupted ==
    ASSUME RunAssumption, RunInv, Interrupted
    PROVE  RunInv'
<1>1. /\ run.at = "remote" /\ run' = [run EXCEPT !.cut = TRUE]
      /\ UNCHANGED <<disk, tries, continuing, signals, blocks, known, later, synced, hands, did>>
      /\ run \in RunRec /\ hands \in [Worker -> Hands] /\ did \in [Job -> Outcome]
  BY DEF Interrupted, RunInv, RunTyped
<1>2. [run EXCEPT !.cut = TRUE] \in RunRec
  BY <1>1, RunValues, Zenon DEF RunRec
<1>3. /\ run' \in RunRec /\ run'.at = run.at /\ run'.who = run.who /\ run'.place = run.place
      /\ run'.why = run.why /\ run'.next = run.next /\ run'.cut = TRUE
  BY <1>1, <1>2 DEF RunRec
<1>4. \A x \in Worker : hands'[x] \in Job => hands'[x] \in RemoteJobs
  BY <1>1 DEF RunInv, WorkOk
<1>5. \A c \in RemoteJobs :
         did'[c] # "none" \/ c >= run'.next \/ \E x \in Worker : hands'[x] = c
  BY <1>1, <1>3 DEF RunInv, WorkOk
<1>6. \A x \in Worker :
         x <= PoolSize /\ hands'[x] = Out => run'.erred = TRUE \/ run'.cut = TRUE \/ Queue' = {}
  BY <1>3
<1>7. hands' \in [Worker -> Hands] /\ did' \in [Job -> Outcome]
      /\ \A c \in AutofixFirst : did'[c] = did[c]
  BY <1>1
<1> QED
  BY <1>1, <1>3, <1>4, <1>5, <1>6, <1>7, RunWorks

\* The run's record when the remote commands are over.
LEMMA RunCollects ==
    ASSUME run \in RunRec, NEW e \in BOOLEAN
    PROVE  LET r == [run EXCEPT !.at = "local", !.erred = e] IN
           /\ r \in RunRec /\ r.at = "local" /\ r.who = run.who /\ r.place = run.place
           /\ r.why = run.why /\ r.erred = e
<1>1. [run EXCEPT !.at = "local", !.erred = e] \in RunRec
  BY RunValues, Zenon DEF RunRec
<1> QED
  BY <1>1 DEF RunRec

LEMMA RunEndsRemote ==
    ASSUME RunAssumption, RunInv, EndRemote
    PROVE  RunInv'
<1>1. /\ run.at = "remote" /\ (\A w \in Worker : hands[w] = Out)
      /\ run' = [run EXCEPT !.at = "local", !.erred = Collect]
      /\ UNCHANGED <<disk, tries, continuing, signals, blocks, known, later, synced, hands, did>>
      /\ run \in RunRec /\ did \in [Job -> Outcome]
  BY DEF EndRemote, RunInv, RunTyped
<1>2. Collect \in BOOLEAN
  BY DEF Collect
<1>3. /\ run' \in RunRec /\ run'.at = "local" /\ run'.who = run.who /\ run'.place = run.place
      /\ run'.why = run.why /\ run'.erred = Collect
  BY <1>1, <1>2, RunCollects
<1>4. run'.erred = FALSE => ~Collect
  BY <1>3, Zenon
<1>5. RunTyped'
  BY <1>1, <1>3 DEF RunInv, RunTyped
<1>6. GoingOn' /\ TriesOk'
  <2>1. run.at \in Underway /\ run'.at \in Underway
    BY <1>1, <1>3 DEF Underway
  <2> QED
    BY <1>1, <1>3, <2>1, RunCounts
<1>7. ~Collect => \A c \in RemoteJobs : did[c] = "pass"
  <2> SUFFICES ASSUME ~Collect, NEW c \in RemoteJobs
               PROVE  did[c] = "pass"
    OBVIOUS
  <2>1. c \in Job /\ did[c] # "fail"
    BY DEF Collect, Failed, RemoteJobs
  <2>2. did[c] # "none"
    <3> SUFFICES ASSUME did[c] = "none" PROVE FALSE
      OBVIOUS
    <3>1. ~run.cut /\ ~run.erred
      BY Zenon DEF Collect
    <3>2. c >= run.next
      BY <1>1, <2>1 DEF RunInv, WorkOk, RunAssumption, Out
    <3>3. Queue # {}
      BY <3>2 DEF Queue
    <3>4. 1 \in Worker /\ 1 <= PoolSize
      BY PoolHasOne
    <3>5. run.erred = TRUE \/ run.cut = TRUE
      BY <1>1, <3>3, <3>4 DEF RunInv, WorkOk
    <3> QED
      BY <3>1, <3>5, Zenon
  <2> QED
    BY <1>1, <2>1, <2>2 DEF Outcome
<1>8. WorkOk'
  <2>1. RemoteJobs' = RemoteJobs /\ AutofixFirst' = AutofixFirst
    BY <1>3, SamePlan
  <2>2. Left(AutofixFirst)' = {}
    BY <1>1, <2>1 DEF Left, RunInv, WorkOk
  <2>3. run'.why = "none"
    BY <1>1, <1>3 DEF RunInv, WorkOk
  <2>4. run'.erred = FALSE => \A c \in RemoteJobs' : did'[c] = "pass"
    BY <1>1, <1>4, <1>7, <2>1, Zenon
  <2> QED
    BY <1>1, <1>3, <2>1, <2>2, <2>3, <2>4 DEF WorkOk
<1> QED
  BY <1>5, <1>6, <1>8 DEF RunInv

LEMMA RunsRest ==
    ASSUME RunAssumption, RunInv, RunRest
    PROVE  RunInv'
<1>1. /\ run.at = "local" /\ run' = run
      /\ UNCHANGED <<tries, continuing, signals, blocks, known, later, synced, hands>>
  BY DEF RunRest
<1>2. /\ did' \in [Job -> Outcome] /\ disk' \in Tree
      /\ \A d \in Job \ LocalLast : did'[d] = did[d]
  <2>1. LocalLast \in SUBSET Job
    BY DEF LocalLast
  <2> QED
    BY <2>1, RunsNext DEF RunRest
<1>3. RunTyped'
  BY <1>1, <1>2 DEF RunInv, RunTyped
<1>4. GoingOn' /\ TriesOk'
  BY <1>1 DEF RunInv, GoingOn, TriesOk
<1>5. /\ \A c \in AutofixFirst : did'[c] = did[c]
      /\ \A c \in RemoteJobs : did'[c] = did[c]
  BY <1>2 DEF AutofixFirst, RemoteJobs, LocalLast
<1>6. RemoteJobs' = RemoteJobs /\ AutofixFirst' = AutofixFirst
  BY <1>1, SamePlan
<1>7. Left(AutofixFirst)' = Left(AutofixFirst)
  BY <1>5, <1>6 DEF Left
<1>8. WorkOk'
  BY <1>1, <1>5, <1>6, <1>7 DEF RunInv, WorkOk
<1> QED
  BY <1>3, <1>4, <1>8 DEF RunInv

LEMMA RunFinishes ==
    ASSUME RunAssumption, RunInv, Finish
    PROVE  RunInv'
<1> DEFINE bad == run.erred \/ Failed(AutofixFirst) \/ Failed(LocalLast)
<1>1. /\ run.at = "local" /\ Left(LocalLast) = {}
      /\ Answer(bad, IF bad THEN "failed" ELSE "passed")
      /\ UNCHANGED <<disk, later, synced, hands, did>>
      /\ run \in RunRec /\ did \in [Job -> Outcome]
  BY DEF Finish, RunInv, RunTyped
<1>2. bad \in BOOLEAN
  OBVIOUS
<1>3. known' \subseteq Tree
  BY DEF Finish, Put, RunInv, RunTyped, RunRec
<1>4. ~bad => \A c \in Job : did[c] = "pass"
  <2> SUFFICES ASSUME ~bad PROVE \A c \in Job : did[c] = "pass"
    OBVIOUS
  <2>1. ~run.erred /\ ~Failed(AutofixFirst) /\ ~Failed(LocalLast)
    BY Zenon
  <2>2. run.erred = FALSE
    <3>1. run.erred \in BOOLEAN
      BY <1>1 DEF RunRec
    <3> QED
      BY <2>1, <3>1, Zenon
  <2>3. \A c \in RemoteJobs : did[c] = "pass"
    BY <1>1, <2>2 DEF RunInv, WorkOk
  <2>4. \A c \in AutofixFirst : did[c] = "pass"
    BY <1>1, <2>1, RunAllPass DEF RunInv, WorkOk, AutofixFirst
  <2>5. \A c \in LocalLast : did[c] = "pass"
    BY <1>1, <2>1, RunAllPass DEF LocalLast
  <2>6. \A c \in Job : c \in RemoteJobs \/ c \in AutofixFirst \/ c \in LocalLast
    BY DEF RemoteJobs, AutofixFirst, LocalLast
  <2> QED
    BY <2>3, <2>4, <2>5, <2>6
<1> HIDE DEF bad
<1>5. CASE bad
  <2>1. Answer(TRUE, "failed")
    <3>1. bad = TRUE
      BY <1>2, <1>5, Zenon
    <3> QED
      BY <1>1, <3>1
  <2> QED
    BY <1>1, <1>3, <2>1, RunTold
<1>6. CASE ~bad
  <2>1. Answer(FALSE, "passed")
    <3>1. bad = FALSE
      BY <1>2, <1>6, Zenon
    <3> QED
      BY <1>1, <3>1
  <2> QED
    BY <1>1, <1>3, <1>4, <1>6, <2>1, RunTold
<1> QED
  BY <1>5, <1>6

LEMMA RunsLater ==
    ASSUME RunAssumption, RunInv, NEW kind \in Later, BackgroundRun(kind)
    PROVE  RunInv'
<1>1. /\ run.at \in {"idle", "start"} /\ later[kind] > 0
      /\ later' = [later EXCEPT ![kind] = @ - 1] /\ signals' = 0
      /\ UNCHANGED <<continuing, blocks, run, synced, hands, did>>
  BY DEF BackgroundRun
<1>2. tries' \in Nat
  <2>1. tries' \in {0, tries, tries + 1, 1}
    BY DEF BackgroundRun
  <2> QED
    BY <2>1, RunNumbers
<1>3. disk' \in Tree /\ known' \subseteq Tree
  BY DEF BackgroundRun, Put, RunInv, RunTyped
<1>4. later' \in [Later -> Nat]
  BY <1>1 DEF RunInv, RunTyped, RunAssumption
<1>5. RunTyped'
  BY <1>1, <1>2, <1>3, <1>4, RunNumbers DEF RunInv, RunTyped
<1>6. GoingOn'
  BY <1>1, Zenon DEF GoingOn
<1>7. TriesOk'
  BY <1>1, <1>2, RunNumbers DEF RunInv, TriesOk, Underway
<1>8. WorkOk'
  BY <1>1 DEF RunInv, WorkOk
<1> QED
  BY <1>5, <1>6, <1>7, <1>8 DEF RunInv

LEMMA RunDismissed ==
    ASSUME RunAssumption, RunInv, Dismiss
    PROVE  RunInv'
<1>1. /\ run.at = "answered" /\ run' = NoRun
      /\ did' = [c \in Job |-> "none"] /\ synced' = [w \in Worker |-> NoTree]
      /\ UNCHANGED <<tries, continuing, signals, blocks, known, later, hands>>
  BY DEF Dismiss
<1>2. disk' \in Tree
  <2>1. disk' \in {0, disk}
    BY DEF Dismiss
  <2> QED
    BY <2>1 DEF RunInv, RunTyped, Tree, RunAssumption
<1>3. did' \in [Job -> Outcome] /\ synced' \in [Worker -> Tree \cup {NoTree}]
  BY <1>1 DEF Outcome
<1>4. run' \in RunRec /\ run'.at = "idle" /\ run'.who = "nobody" /\ run'.next = 1
      /\ run'.why = "none"
  BY <1>1, NoRunTyped DEF NoRun
<1>5. RunTyped'
  BY <1>1, <1>2, <1>3, <1>4 DEF RunInv, RunTyped
<1>6. GoingOn'
  BY <1>1 DEF RunInv, GoingOn
<1>7. TriesOk'
  BY <1>1, <1>4, RunNumbers DEF RunInv, TriesOk, Underway
<1>8. WorkOk'
  BY <1>1, <1>4 DEF RunInv, WorkOk
<1> QED
  BY <1>5, <1>6, <1>7, <1>8 DEF RunInv

LEMMA RunEdited ==
    ASSUME RunAssumption, RunInv, Edit
    PROVE  RunInv'
<1>1. /\ UNCHANGED <<tries, continuing, signals, blocks, known, later, run, synced, hands, did>>
      /\ disk' \in Tree
  BY DEF Edit
<1>2. RunTyped'
  BY <1>1 DEF RunInv, RunTyped
<1>3. GoingOn' /\ TriesOk'
  BY <1>1 DEF RunInv, GoingOn, TriesOk
<1>4. /\ RemoteJobs' = RemoteJobs /\ AutofixFirst' = AutofixFirst /\ PoolSize' = PoolSize
  BY <1>1, SamePlan
<1>5. Left(AutofixFirst)' = Left(AutofixFirst) /\ Queue' = Queue
  BY <1>1, <1>4 DEF Left, Queue
<1>6. WorkOk'
  BY <1>1, <1>4, <1>5 DEF RunInv, WorkOk
<1> QED
  BY <1>2, <1>3, <1>6 DEF RunInv

LEMMA RunInvInit ==
    ASSUME RunAssumption, InitRun
    PROVE  RunInv
<1>1. run \in RunRec /\ run.at = "idle" /\ run.who = "nobody" /\ run.next = 1
      /\ run.why = "none"
  BY NoRunTyped DEF InitRun, NoRun
<1>2. RunTyped
  <2>1. disk \in Tree /\ known \subseteq Tree
    BY DEF InitRun
  <2>2. tries \in Nat /\ signals \in 0..MaxAttempts /\ blocks \in 0..MaxAttempts
    BY DEF InitRun, RunAssumption
  <2>3. continuing \in BOOLEAN
    BY Zenon DEF InitRun
  <2>5. later \in [Later -> Nat]
    BY DEF InitRun, RunAssumption
  <2>4. synced \in [Worker -> Tree \cup {NoTree}] /\ hands \in [Worker -> Hands]
        /\ did \in [Job -> Outcome]
    BY DEF InitRun, Hands, Outcome
  <2> QED
    BY <1>1, <2>1, <2>2, <2>3, <2>4, <2>5 DEF RunTyped
<1>3. GoingOn
  BY Zenon DEF InitRun, GoingOn
<1>4. TriesOk
  BY <1>1 DEF InitRun, TriesOk, Underway, RunAssumption
<1>5. WorkOk
  BY <1>1 DEF InitRun, WorkOk
<1> QED
  BY <1>2, <1>3, <1>4, <1>5 DEF RunInv

LEMMA RunInvNext ==
    ASSUME RunAssumption, RunInv, [NextRun]_runVars
    PROVE  RunInv'
<1>1. CASE \E place \in {"configured", "local", "remote"} : Begins("person", place)
  BY <1>1, RunBegins DEF RunPlace
<1>2. CASE \E who \in Hook : Begins(who, "configured")
  BY <1>2, RunBegins, RunValues DEF Hook
<1>3. CASE UNCHANGED runVars
  <2>1. /\ UNCHANGED <<disk, tries, continuing, signals, blocks>>
        /\ UNCHANGED <<known, later, run, synced, hands, did>>
    BY <1>3 DEF runVars
  <2>2. /\ RemoteJobs' = RemoteJobs /\ AutofixFirst' = AutofixFirst /\ PoolSize' = PoolSize
    BY <2>1, SamePlan
  <2>3. Left(AutofixFirst)' = Left(AutofixFirst) /\ Queue' = Queue
    BY <2>1, <2>2 DEF Left, Queue
  <2>4. WorkOk'
    BY <2>1, <2>2, <2>3 DEF RunInv, WorkOk
  <2>5. RunTyped' /\ GoingOn' /\ TriesOk'
    BY <2>1 DEF RunInv, RunTyped, GoingOn, TriesOk
  <2> QED
    BY <2>4, <2>5 DEF RunInv
<1> QED
  BY <1>1, <1>2, <1>3, RunDelegated, RunInits, RunCached, RunPrepares, RunAutofixes,
     RunStartsRemote, RunInterrupted, RunEndsRemote, RunsRest, RunFinishes, RunDismissed,
     RunsLater, RunEdited, RunSyncs, RunAcquires, RunTakes, RunLeaves, RunOnSidecars
  DEF NextRun

-----------------------------------------------------------------------------
(* What the invariant says. *)

\* What a run promises follows from the invariant.
LEMMA RunKeepsWord ==
    ASSUME RunAssumption, RunInv
    PROVE  RunTypeOK /\ PassedRanAll /\ GateHolds /\ SignalsCapped
<1>1. DOMAIN run = DOMAIN NoRun /\ run.saw \in Tree \cup {NoTree}
      /\ run.who \in Hook \cup {"nobody", "person"}
  BY DEF RunInv, RunTyped, RunRec, NoRun, RunWho, Hook
<1>2. RunTypeOK
  BY <1>1 DEF RunInv, RunTyped, RunTypeOK, Hands, Outcome
<1>3. PassedRanAll /\ GateHolds /\ SignalsCapped
  BY DEF RunInv, WorkOk, TriesOk, PassedRanAll, GateHolds, SignalsCapped
<1> QED
  BY <1>2, <1>3

\* A validation run's state keeps its type (internal/cmd/validate.go, internal/validate).
THEOREM RunTypes ==
    ASSUME RunAssumption
    PROVE  SpecRun => []RunTypeOK
<1>1. InitRun => RunInv
  BY RunInvInit
<1>2. RunInv /\ [NextRun]_runVars => RunInv'
  BY RunInvNext
<1>3. RunInv => RunTypeOK
  BY RunKeepsWord
<1> QED
  BY <1>1, <1>2, <1>3, PTL DEF SpecRun

\* A run that says it passed ran every command, and each passed, on however many sidecars
\* and with whatever interruption (RunDistributed, collectDistributedResults); a commit gate
\* lets go only of what passed while it still counts; and the agent is told to go on fewer
\* than MaxAttempts times between two gates or runs taken into the background
\* (TrackFailedAttempt, WrapHookResult).
THEOREM RunsAnswerTruly ==
    ASSUME RunAssumption
    PROVE  SpecRun => [](PassedRanAll /\ GateHolds /\ SignalsCapped)
<1>1. InitRun => RunInv
  BY RunInvInit
<1>2. RunInv /\ [NextRun]_runVars => RunInv'
  BY RunInvNext
<1>3. RunInv => PassedRanAll /\ GateHolds /\ SignalsCapped
  BY RunKeepsWord
<1> QED
  BY <1>1, <1>2, <1>3, PTL DEF SpecRun

-----------------------------------------------------------------------------
(***************************************************************************)
(* VariantRun: a variant has the verdict of its commands and leaves nothing*)
(* behind, and a sweep spares sidecars at work while the age they are      *)
(* swept at is long enough, for any variants, commands and limits.         *)
(***************************************************************************)

(* What is known of a variant at each stage. *)

VariantStage == {"queued", "create", "setup", "patch", "command", "delete", "done"}
VariantBox == {"none", "live", "gone"}
VariantRan == {"none", "passed", "failed", "unrunnable"}
VariantResult == {"none", "error", "killed", "survived"}
VariantRec ==
    [at : VariantStage, cmd : 1..Commands, spent : 0..Longest, age : 0..OrphanAfter,
     box : VariantBox, applied : BOOLEAN, ran : VariantRan, result : VariantResult,
     unheard : BOOLEAN, refused : BOOLEAN, sweptBusy : BOOLEAN]

VariantsTyped ==
    /\ variant \in [Variant -> VariantRec]
    /\ interrupted \in BOOLEAN /\ crashed \in BOOLEAN

\* A sidecar stands from its creation to its deletion, and what is said of a variant
\* is said once, by the last of its commands.
VariantOk(r) ==
    /\ r.at \in {"queued", "create"} => r.box = "none"
    /\ r.at \in {"setup", "patch", "command", "delete"} => r.box \in {"live", "gone"}
    /\ r.at = "done" /\ r.box = "live" => r.unheard \/ r.refused
    /\ r.at \in VariantStage \ {"delete", "done"} => r.result = "none"
    /\ r.at = "command" => r.applied
    /\ r.result = "killed" => r.applied /\ r.ran = "failed"
    /\ r.result = "survived" => r.applied /\ r.ran = "passed" /\ r.cmd = Commands

VariantInv ==
    /\ VariantsTyped
    /\ IsFiniteSet(Busy) /\ Cardinality(Busy) <= Slots
    /\ \A v \in Variant : VariantOk(variant[v])

LEMMA VariantsTimed ==
    VariantAssumption => Longest \in Nat /\ SetupTime <= Longest /\ Timeout <= Longest
  BY DEF VariantAssumption, Longest

\* What a variant's record may be given.
LEMMA VariantValues ==
    /\ "create" \in VariantStage /\ "setup" \in VariantStage /\ "patch" \in VariantStage
    /\ "command" \in VariantStage /\ "delete" \in VariantStage /\ "done" \in VariantStage
    /\ "live" \in VariantBox /\ "gone" \in VariantBox
    /\ "error" \in VariantResult /\ "killed" \in VariantResult /\ "survived" \in VariantResult
    /\ TRUE \in BOOLEAN
  BY DEF VariantStage, VariantBox, VariantResult

\* The record of a variant that goes on, and of one that has its result.
LEMMA VariantWent ==
    ASSUME VariantAssumption, NEW v \in Variant, variant[v] \in VariantRec, NEW to \in VariantStage
    PROVE  LET r == Goes(v, to) IN
           /\ r \in VariantRec /\ r.at = to /\ r.spent = 0 /\ r.cmd = variant[v].cmd
           /\ r.age = variant[v].age /\ r.box = variant[v].box /\ r.applied = variant[v].applied
           /\ r.ran = variant[v].ran /\ r.result = variant[v].result
           /\ r.unheard = variant[v].unheard /\ r.refused = variant[v].refused
           /\ r.sweptBusy = variant[v].sweptBusy
<1>1. 0 \in 0..Longest
  BY VariantsTimed
<1>2. Goes(v, to) \in VariantRec
  BY <1>1, Zenon DEF Goes, VariantRec
<1> QED
  BY <1>2 DEF Goes, VariantRec

LEMMA VariantEnded ==
    ASSUME VariantAssumption, NEW v \in Variant, variant[v] \in VariantRec,
           NEW to \in VariantStage, NEW result \in VariantResult
    PROVE  LET r == VariantEnds(v, to, result) IN
           /\ r \in VariantRec /\ r.at = to /\ r.result = result /\ r.cmd = variant[v].cmd
           /\ r.box = variant[v].box /\ r.applied = variant[v].applied
           /\ r.ran = variant[v].ran /\ r.unheard = variant[v].unheard
           /\ r.refused = variant[v].refused /\ r.sweptBusy = variant[v].sweptBusy
<1> DEFINE g == Goes(v, to)
<1>1. /\ g \in VariantRec /\ g.at = to /\ g.cmd = variant[v].cmd
      /\ g.box = variant[v].box /\ g.applied = variant[v].applied
      /\ g.ran = variant[v].ran /\ g.unheard = variant[v].unheard
      /\ g.refused = variant[v].refused /\ g.sweptBusy = variant[v].sweptBusy
  BY VariantWent
<1>2. VariantEnds(v, to, result) = [g EXCEPT !.result = result]
  BY DEF VariantEnds
<1> HIDE DEF g
<1>3. VariantEnds(v, to, result) \in VariantRec
  BY <1>1, <1>2, Zenon DEF VariantRec
<1> QED
  BY <1>1, <1>2, <1>3 DEF VariantRec

LEMMA VariantInvInit == VariantAssumption /\ InitVariants => VariantInv
<1> SUFFICES ASSUME VariantAssumption, InitVariants PROVE VariantInv
  OBVIOUS
<1>1. /\ 1 \in 1..Commands /\ 0 \in 0..Longest /\ 0 \in 0..OrphanAfter /\ FALSE \in BOOLEAN
      /\ "queued" \in VariantStage /\ "none" \in VariantBox /\ "none" \in VariantRan
      /\ "none" \in VariantResult
  BY VariantsTimed DEF VariantAssumption, VariantStage, VariantBox, VariantRan, VariantResult
<1>2. VariantsTyped
  BY <1>1, Zenon DEF InitVariants, VariantsTyped, VariantRec
<1>3. Busy = {}
  BY DEF InitVariants, Busy
<1>4. \A v \in Variant : VariantOk(variant[v])
  BY DEF InitVariants, VariantOk
<1>5. IsFiniteSet({}) /\ Cardinality({}) = 0
  BY FS_EmptySet
<1> QED
  BY <1>2, <1>3, <1>4, <1>5 DEF VariantInv, VariantAssumption

\* What of a variant's record and of the slots a step of its own has to show.
LEMMA VariantMoves ==
    ASSUME VariantAssumption, VariantInv, NEW v \in Variant, NEW r \in VariantRec, Set(v, r),
           Same, VariantOk(r),
           \/ r.at \notin {"create", "setup", "patch", "command", "delete"}
           \/ v \in Busy
           \/ Cardinality(Busy) < Slots
    PROVE  VariantInv'
<1>1. variant' = [variant EXCEPT ![v] = r] /\ variant \in [Variant -> VariantRec]
  BY DEF Set, VariantInv, VariantsTyped
<1>2. VariantsTyped'
  BY <1>1 DEF VariantInv, VariantsTyped, Same
<1>3. \A w \in Variant : VariantOk(variant'[w])
  BY <1>1 DEF VariantInv
<1>4. IsFiniteSet(Busy') /\ Cardinality(Busy') <= Slots
  <2>1. IsFiniteSet(Busy) /\ Cardinality(Busy) \in Nat /\ Cardinality(Busy) <= Slots
    BY FS_CardinalityType DEF VariantInv
  <2>2. ASSUME Busy' \subseteq Busy PROVE IsFiniteSet(Busy') /\ Cardinality(Busy') <= Slots
    <3>1. IsFiniteSet(Busy') /\ Cardinality(Busy') <= Cardinality(Busy)
      BY <2>1, <2>2, FS_Subset
    <3>2. Cardinality(Busy') \in Nat
      BY <3>1, FS_CardinalityType
    <3> QED
      BY <2>1, <3>1, <3>2 DEF VariantAssumption
  <2>3. ASSUME Cardinality(Busy) < Slots
        PROVE  IsFiniteSet(Busy') /\ Cardinality(Busy') <= Slots
    <3> DEFINE more == Busy \cup {v}
    <3>1. Busy' \subseteq more
      BY <1>1 DEF Busy
    <3>2. /\ IsFiniteSet(more)
          /\ Cardinality(more) = IF v \in Busy THEN Cardinality(Busy) ELSE Cardinality(Busy) + 1
      BY <2>1, FS_AddElement
    <3> HIDE DEF more
    <3>3. IsFiniteSet(Busy') /\ Cardinality(Busy') <= Cardinality(more)
      BY <3>1, <3>2, FS_Subset
    <3>4. Cardinality(Busy') \in Nat
      BY <3>3, FS_CardinalityType
    <3> QED
      BY <2>1, <2>3, <3>2, <3>3, <3>4 DEF VariantAssumption
  <2> QED
    BY <1>1, <2>2, <2>3 DEF Busy
<1> QED
  BY <1>2, <1>3, <1>4 DEF VariantInv, VariantOk

\* One that is at a stage at all.
LEMMA VariantAt ==
    ASSUME VariantInv, NEW v \in Variant, NEW to, At(v, to)
    PROVE  /\ variant[v] \in VariantRec /\ VariantOk(variant[v]) /\ variant[v].at = to
           /\ to \in {"create", "setup", "patch", "command", "delete"} => v \in Busy
  BY DEF VariantInv, VariantsTyped, At, Busy

LEMMA VariantInvTaken ==
    ASSUME VariantAssumption, VariantInv, NEW v \in Variant, TakeSlot(v) \/ CancelQueued(v)
    PROVE  VariantInv'
<1>1. variant[v] \in VariantRec /\ VariantOk(variant[v]) /\ variant[v].at = "queued" /\ Same
  BY VariantAt DEF TakeSlot, CancelQueued
<1>2. CASE TakeSlot(v)
  <2> DEFINE g == Goes(v, "create")
  <2>1. /\ g \in VariantRec /\ g.at = "create" /\ g.box = variant[v].box
        /\ g.result = variant[v].result
    BY <1>1, VariantWent, VariantValues
  <2>2. Set(v, [g EXCEPT !.age = 0]) /\ Cardinality(Busy) < Slots
    BY <1>2 DEF TakeSlot, Stamp
  <2> HIDE DEF g
  <2>3. 0 \in 0..OrphanAfter
    BY DEF VariantAssumption
  <2>4. [g EXCEPT !.age = 0] \in VariantRec
    BY <2>1, <2>3, Zenon DEF VariantRec
  <2>5. VariantOk([g EXCEPT !.age = 0])
    BY <1>1, <2>1 DEF VariantOk, VariantRec, VariantStage
  <2> QED
    BY <1>1, <2>2, <2>4, <2>5, VariantMoves
<1>3. CASE CancelQueued(v)
  <2> DEFINE e == VariantEnds(v, "done", "error")
  <2>1. e \in VariantRec /\ e.at = "done" /\ e.box = variant[v].box /\ e.result = "error"
    BY <1>1, VariantEnded, VariantValues
  <2>2. Set(v, e)
    BY <1>3 DEF CancelQueued
  <2> HIDE DEF e
  <2>3. VariantOk(e)
    BY <1>1, <2>1 DEF VariantOk
  <2> QED
    BY <1>1, <2>1, <2>2, <2>3, VariantMoves
<1> QED
  BY <1>2, <1>3

\* A stage that fails, and is followed by the deletion.
LEMMA VariantInvFailed ==
    ASSUME VariantAssumption, VariantInv, NEW v \in Variant, v \in Busy,
           variant[v].at \in {"setup", "patch", "command"}, Same, Set(v, VariantEnds(v, "delete", "error"))
    PROVE  VariantInv'
<1> DEFINE e == VariantEnds(v, "delete", "error")
<1>1. variant[v] \in VariantRec /\ VariantOk(variant[v])
  BY DEF VariantInv, VariantsTyped
<1>2. e \in VariantRec /\ e.at = "delete" /\ e.box = variant[v].box /\ e.result = "error"
  BY <1>1, VariantEnded, VariantValues
<1>3. Set(v, e)
  OBVIOUS
<1> HIDE DEF e
<1>4. VariantOk(e)
  BY <1>1, <1>2 DEF VariantOk
<1> QED
  BY <1>2, <1>3, <1>4, VariantMoves

LEMMA VariantInvCreate ==
    ASSUME VariantAssumption, VariantInv, NEW v \in Variant, Create(v)
    PROVE  VariantInv'
<1> DEFINE g == Goes(v, "setup")
           e == VariantEnds(v, "done", "error")
<1>1. /\ variant[v] \in VariantRec /\ VariantOk(variant[v]) /\ variant[v].at = "create"
      /\ v \in Busy /\ Same
  BY VariantAt DEF Create
<1>2. g \in VariantRec /\ g.at = "setup" /\ g.result = variant[v].result
  BY <1>1, VariantWent, VariantValues
<1>3. e \in VariantRec /\ e.at = "done" /\ e.box = variant[v].box /\ e.result = "error"
  BY <1>1, VariantEnded, VariantValues
<1>4. \/ Set(v, [g EXCEPT !.box = "live"])
      \/ Set(v, [e EXCEPT !.box = "live", !.unheard = TRUE])
      \/ Set(v, e)
  BY DEF Create
<1> HIDE DEF g, e
<1>5. [g EXCEPT !.box = "live"] \in VariantRec
  BY <1>2, VariantValues, Zenon DEF VariantRec
<1>6. [e EXCEPT !.box = "live", !.unheard = TRUE] \in VariantRec
  BY <1>3, VariantValues, Zenon DEF VariantRec
<1>7. VariantOk([g EXCEPT !.box = "live"])
  BY <1>1, <1>2 DEF VariantOk, VariantRec, VariantStage
<1>8. VariantOk([e EXCEPT !.box = "live", !.unheard = TRUE])
  BY <1>1, <1>3 DEF VariantOk, VariantRec, VariantStage
<1>9. VariantOk(e)
  BY <1>1, <1>3 DEF VariantOk
<1> QED
  BY <1>1, <1>3, <1>4, <1>5, <1>6, <1>7, <1>8, <1>9, VariantMoves

LEMMA VariantInvSync ==
    ASSUME VariantAssumption, VariantInv, NEW v \in Variant, SyncVariant(v)
    PROVE  VariantInv'
<1> DEFINE g == Goes(v, "patch")
<1>1. /\ variant[v] \in VariantRec /\ VariantOk(variant[v]) /\ variant[v].at = "setup"
      /\ v \in Busy /\ Same
  BY VariantAt DEF SyncVariant
<1>2. /\ g \in VariantRec /\ g.at = "patch" /\ g.box = variant[v].box
      /\ g.result = variant[v].result
  BY <1>1, VariantWent, VariantValues
<1>3. Set(v, g) \/ Set(v, VariantEnds(v, "delete", "error"))
  BY DEF SyncVariant
<1> HIDE DEF g
<1>4. VariantOk(g)
  BY <1>1, <1>2 DEF VariantOk, VariantStage
<1> QED
  BY <1>1, <1>2, <1>3, <1>4, VariantMoves, VariantInvFailed

LEMMA VariantInvPatch ==
    ASSUME VariantAssumption, VariantInv, NEW v \in Variant, ApplyPatch(v)
    PROVE  VariantInv'
<1> DEFINE g == Goes(v, "command")
<1>1. /\ variant[v] \in VariantRec /\ VariantOk(variant[v]) /\ variant[v].at = "patch"
      /\ v \in Busy /\ Same
  BY VariantAt DEF ApplyPatch
<1>2. /\ g \in VariantRec /\ g.at = "command" /\ g.box = variant[v].box
      /\ g.result = variant[v].result
  BY <1>1, VariantWent, VariantValues
<1>3. Set(v, [g EXCEPT !.applied = TRUE]) \/ Set(v, VariantEnds(v, "delete", "error"))
  BY DEF ApplyPatch
<1> HIDE DEF g
<1>4. [g EXCEPT !.applied = TRUE] \in VariantRec
  BY <1>2, VariantValues, Zenon DEF VariantRec
<1>5. VariantOk([g EXCEPT !.applied = TRUE])
  BY <1>1, <1>2 DEF VariantOk, VariantRec, VariantStage
<1> QED
  BY <1>1, <1>3, <1>4, <1>5, VariantMoves, VariantInvFailed

LEMMA VariantInvCommand ==
    ASSUME VariantAssumption, VariantInv, NEW v \in Variant, RunVariantCommand(v)
    PROVE  VariantInv'
<1>1. /\ variant[v] \in VariantRec /\ VariantOk(variant[v]) /\ variant[v].at = "command"
      /\ v \in Busy /\ Same /\ variant[v].applied = TRUE /\ variant[v].cmd \in 1..Commands
  BY VariantAt DEF RunVariantCommand, VariantOk, VariantRec
<1>2. ASSUME NEW ran \in {"passed", "failed", "unrunnable"},
             ran = "passed" /\ variant[v].cmd < Commands,
             Set(v, [Goes(v, "command") EXCEPT !.cmd = @ + 1])
      PROVE  VariantInv'
  <2> DEFINE g == Goes(v, "command")
  <2>1. /\ g \in VariantRec /\ g.at = "command" /\ g.box = variant[v].box
        /\ g.result = variant[v].result /\ g.applied = variant[v].applied
        /\ g.cmd = variant[v].cmd
    BY <1>1, VariantWent, VariantValues
  <2>2. Set(v, [g EXCEPT !.cmd = @ + 1])
    BY <1>2
  <2> HIDE DEF g
  <2>3. g.cmd + 1 \in 1..Commands
    BY <1>1, <1>2, <2>1 DEF VariantAssumption
  <2>4. [g EXCEPT !.cmd = @ + 1] \in VariantRec
    BY <2>1, <2>3, Zenon DEF VariantRec
  <2>5. VariantOk([g EXCEPT !.cmd = @ + 1])
    BY <1>1, <2>1 DEF VariantOk, VariantRec, VariantStage
  <2> QED
    BY <1>1, <2>2, <2>4, <2>5, VariantMoves
<1>3. ASSUME NEW ran \in {"passed", "failed", "unrunnable"},
             ~(ran = "passed" /\ variant[v].cmd < Commands),
             NEW result, result = (IF ran = "passed" THEN "survived"
                                   ELSE IF ShellFailure(ran) THEN "error" ELSE "killed"),
             Set(v, [VariantEnds(v, "delete", result) EXCEPT !.ran = ran])
      PROVE  VariantInv'
  <2> DEFINE e == VariantEnds(v, "delete", result)
  <2>1. result \in VariantResult /\ ran \in VariantRan
    BY <1>3 DEF VariantResult, VariantRan
  <2>2. /\ e \in VariantRec /\ e.at = "delete" /\ e.box = variant[v].box /\ e.result = result
        /\ e.applied = variant[v].applied /\ e.cmd = variant[v].cmd
    <3>1. "delete" \in VariantStage
      BY VariantValues
    <3> QED
      BY <1>1, <2>1, <3>1, VariantEnded
  <2>3. Set(v, [e EXCEPT !.ran = ran])
    BY <1>3
  <2> HIDE DEF e
  <2>4. [e EXCEPT !.ran = ran] \in VariantRec
    BY <2>1, <2>2, Zenon DEF VariantRec
  <2>5. /\ result = "killed" => ran = "failed"
        /\ result = "survived" => ran = "passed" /\ variant[v].cmd = Commands
    BY <1>1, <1>3 DEF ShellFailure, VariantAssumption
  <2>6. VariantOk([e EXCEPT !.ran = ran])
    BY <1>1, <2>2, <2>5 DEF VariantOk, VariantRec, VariantStage
  <2> QED
    BY <1>1, <2>3, <2>4, <2>6, VariantMoves
<1>4. CASE Set(v, VariantEnds(v, "delete", "error"))
  BY <1>1, <1>4, VariantInvFailed
<1> QED
  BY <1>2, <1>3, <1>4 DEF RunVariantCommand

LEMMA VariantInvDelete ==
    ASSUME VariantAssumption, VariantInv, NEW v \in Variant, Delete(v)
    PROVE  VariantInv'
<1> DEFINE g == Goes(v, "done")
<1>1. /\ variant[v] \in VariantRec /\ VariantOk(variant[v]) /\ variant[v].at = "delete"
      /\ v \in Busy /\ Same
  BY VariantAt DEF Delete
<1>2. /\ g \in VariantRec /\ g.at = "done" /\ g.box = variant[v].box
      /\ g.result = variant[v].result /\ g.applied = variant[v].applied
      /\ g.ran = variant[v].ran /\ g.cmd = variant[v].cmd
  BY <1>1, VariantWent, VariantValues
<1>3. Set(v, [g EXCEPT !.box = "gone"]) \/ Set(v, [g EXCEPT !.refused = TRUE])
  BY DEF Delete, AskDelete
<1> HIDE DEF g
<1>4. [g EXCEPT !.box = "gone"] \in VariantRec /\ [g EXCEPT !.refused = TRUE] \in VariantRec
  BY <1>2, VariantValues, Zenon DEF VariantRec
<1>5. VariantOk([g EXCEPT !.box = "gone"])
  BY <1>1, <1>2 DEF VariantOk, VariantRec, VariantStage
<1>6. VariantOk([g EXCEPT !.refused = TRUE])
  BY <1>1, <1>2 DEF VariantOk, VariantRec, VariantStage
<1> QED
  BY <1>1, <1>3, <1>4, <1>5, <1>6, VariantMoves

\* A step that leaves every variant at its stage.
LEMMA VariantInvThere ==
    ASSUME VariantInv, UNCHANGED <<interrupted>>, crashed' \in BOOLEAN,
           variant' \in [Variant -> VariantRec],
           \A v \in Variant : VariantOk(variant'[v]) /\ variant'[v].at = variant[v].at
    PROVE  VariantInv'
<1>1. Busy' = Busy
  BY DEF Busy
<1> QED
  BY <1>1 DEF VariantInv, VariantsTyped, VariantOk

LEMMA VariantInvSweep ==
    ASSUME VariantAssumption, VariantInv, Sweep
    PROVE  VariantInv'
<1>1. PICK swept \in SUBSET Orphans :
        variant' = [v \in Variant |->
             IF v \notin swept THEN variant[v]
             ELSE [variant[v] EXCEPT !.box = "gone",
                      !.sweptBusy = ~crashed /\ v \in Busy /\ variant[v].at # "delete"]]
  BY DEF Sweep
<1>2. ASSUME NEW v \in Variant
      PROVE  /\ variant'[v] \in VariantRec /\ VariantOk(variant'[v])
             /\ variant'[v].at = variant[v].at
  <2> DEFINE r == variant[v]
             b == ~crashed /\ v \in Busy /\ variant[v].at # "delete"
  <2>1. r \in VariantRec /\ VariantOk(r) /\ b \in BOOLEAN
    BY DEF VariantInv, VariantsTyped
  <2>2. CASE v \notin swept
    BY <1>1, <2>1, <2>2
  <2>3. CASE v \in swept
    <3>1. r.box = "live"
      BY <2>3 DEF Orphans
    <3>2. variant'[v] = [r EXCEPT !.box = "gone", !.sweptBusy = b]
      BY <1>1, <2>3
    <3> HIDE DEF r, b
    <3>3. variant'[v] \in VariantRec
      BY <2>1, <3>2, VariantValues, Zenon DEF VariantRec
    <3>4. VariantOk([r EXCEPT !.box = "gone", !.sweptBusy = b])
      BY <2>1, <3>1 DEF VariantOk, VariantRec, VariantStage
    <3>5. [r EXCEPT !.box = "gone", !.sweptBusy = b].at = r.at
      BY <2>1 DEF VariantRec
    <3> QED
      BY <3>2, <3>3, <3>4, <3>5 DEF r
  <2> QED
    BY <2>2, <2>3
<1>3. variant' \in [Variant -> VariantRec]
  BY <1>1, <1>2
<1> QED
  BY <1>2, <1>3, VariantInvThere DEF Sweep, Same, VariantInv, VariantsTyped

\* What time makes of a variant.
LEMMA VariantGrows ==
    ASSUME VariantAssumption, VariantInv, TimePasses, NEW v \in Variant
    PROVE  /\ variant'[v] \in VariantRec /\ VariantOk(variant'[v])
           /\ variant'[v].at = variant[v].at /\ variant'[v].cmd = variant[v].cmd
           /\ variant'[v].sweptBusy = variant[v].sweptBusy
           /\ variant'[v].age \in {variant[v].age, variant[v].age + 1}
           /\ variant[v].at \in {"create", "setup", "patch", "command"} /\ variant[v].spent < Longest
                => variant'[v].spent = variant[v].spent + 1
<1> DEFINE r == variant[v]
           a == UpTo(r.age + 1, OrphanAfter)
           s == UpTo(r.spent + 1, Longest)
<1>1. r \in VariantRec /\ VariantOk(r)
  BY DEF VariantInv, VariantsTyped
<1>2. /\ r.age \in 0..OrphanAfter /\ r.spent \in 0..Longest
      /\ OrphanAfter \in Nat /\ Longest \in Nat
  BY <1>1, VariantsTimed DEF VariantRec, VariantAssumption
<1>3. CASE r.at \in {"queued", "done"} /\ r.box # "live"
  <2>1. variant'[v] = r
    BY <1>3 DEF TimePasses
  <2> QED
    BY <1>1, <1>3, <2>1
<1>4. CASE ~(r.at \in {"queued", "done"} /\ r.box # "live")
  <2>1. variant'[v] = [r EXCEPT !.age = a, !.spent = s]
    BY <1>4 DEF TimePasses
  <2>2. /\ a \in 0..OrphanAfter /\ a \in {r.age, r.age + 1}
        /\ s \in 0..Longest /\ (r.spent < Longest => s = r.spent + 1)
    BY <1>2 DEF UpTo
  <2> HIDE DEF r, a, s
  <2>3. [r EXCEPT !.age = a, !.spent = s] \in VariantRec
    BY <1>1, <2>2, Zenon DEF VariantRec
  <2>4. /\ [r EXCEPT !.age = a, !.spent = s].at = r.at
        /\ [r EXCEPT !.age = a, !.spent = s].cmd = r.cmd
        /\ [r EXCEPT !.age = a, !.spent = s].sweptBusy = r.sweptBusy
        /\ [r EXCEPT !.age = a, !.spent = s].age = a
        /\ [r EXCEPT !.age = a, !.spent = s].spent = s
    BY <1>1 DEF VariantRec
  <2>5. VariantOk([r EXCEPT !.age = a, !.spent = s])
    BY <1>1 DEF VariantOk, VariantRec, VariantStage
  <2> QED
    BY <2>1, <2>2, <2>3, <2>4, <2>5 DEF r
<1> QED
  BY <1>3, <1>4

LEMMA VariantInvNext ==
    ASSUME VariantAssumption, VariantInv, [NextVariants]_variantVars
    PROVE  VariantInv'
<1>1. ASSUME NEW v \in Variant,
             \/ TakeSlot(v) \/ CancelQueued(v) \/ Create(v) \/ SyncVariant(v) \/ ApplyPatch(v)
             \/ RunVariantCommand(v) \/ Delete(v)
      PROVE  VariantInv'
  BY <1>1, VariantInvTaken, VariantInvCreate, VariantInvSync, VariantInvPatch,
     VariantInvCommand, VariantInvDelete
<1>2. CASE InterruptVariants \/ CrashVariants
  BY <1>2 DEF InterruptVariants, CrashVariants, VariantInv, VariantsTyped, VariantOk, Busy
<1>3. CASE TimePasses
  <2>1. variant' \in [Variant -> VariantRec]
    <3>1. variant' = [v \in Variant |-> variant'[v]]
      BY <1>3 DEF TimePasses
    <3> QED
      BY <1>3, <3>1, VariantGrows
  <2> QED
    BY <1>3, <2>1, VariantGrows, VariantInvThere DEF TimePasses, VariantInv, VariantsTyped
<1>4. CASE UNCHANGED variantVars
  BY <1>4 DEF variantVars, VariantInv, VariantsTyped, VariantOk, Busy
<1> QED
  BY <1>1, <1>2, <1>3, <1>4, VariantInvSweep DEF NextVariants

-----------------------------------------------------------------------------
(* The age of a sidecar a run is at work on. *)

\* Every command has a limit, and a variant whose every stage takes as long as it may
\* is over before its sidecar is old enough to be swept.
RunsEndInTime ==
    /\ Timeout > 0
    /\ OrphanAfter > SetupTime + SetupTime + SetupTime + Commands * Timeout

\* How old a sidecar is at most when its variant enters each stage, and how long it
\* stays there.
AgeOk(r) ==
    /\ ~r.sweptBusy
    /\ ~crashed /\ r.at = "create" => r.spent <= SetupTime /\ r.age <= r.spent
    /\ ~crashed /\ r.at = "setup" => r.spent <= SetupTime /\ r.age <= SetupTime + r.spent
    /\ ~crashed /\ r.at = "patch" =>
          r.spent <= SetupTime /\ r.age <= SetupTime + SetupTime + r.spent
    /\ ~crashed /\ r.at = "command" =>
          /\ r.spent <= Timeout
          /\ r.age <= SetupTime + SetupTime + SetupTime + (r.cmd - 1) * Timeout + r.spent

VariantAges == \A v \in Variant : AgeOk(variant[v])

LEMMA VariantAgesInit == VariantAssumption /\ InitVariants => VariantAges
  BY DEF InitVariants, VariantAges, AgeOk

LEMMA AgesMove ==
    ASSUME VariantAges, VariantInv, NEW v \in Variant, NEW r, Set(v, r), Same, AgeOk(r)
    PROVE  VariantAges'
  BY DEF VariantAges, VariantInv, VariantsTyped, Set, Same, AgeOk

\* Who is at work has a young sidecar.
LEMMA BusyIsYoung ==
    ASSUME VariantAssumption, RunsEndInTime, VariantInv, VariantAges, ~crashed,
           NEW v \in Variant, v \in Busy, variant[v].at # "delete"
    PROVE  v \notin Orphans
<1> DEFINE r == variant[v]
<1>1. r \in VariantRec /\ AgeOk(r)
  BY DEF VariantInv, VariantsTyped, VariantAges
<1>2. /\ SetupTime \in Nat /\ Timeout \in Nat /\ Commands \in Nat /\ OrphanAfter \in Nat
      /\ r.age \in Nat /\ r.spent \in Nat /\ r.cmd \in 1..Commands
  BY <1>1, VariantsTimed DEF VariantAssumption, VariantRec
<1>3. (r.cmd - 1) * Timeout + Timeout <= Commands * Timeout /\ 0 <= Commands * Timeout
  <2> HIDE DEF r
  <2>1. /\ r.cmd * Timeout = (r.cmd - 1) * Timeout + Timeout
        /\ Commands * Timeout = r.cmd * Timeout + (Commands - r.cmd) * Timeout
    BY <1>2
  <2>2. 0 <= (Commands - r.cmd) * Timeout /\ 0 <= Commands * Timeout
    BY <1>2
  <2>3. /\ (r.cmd - 1) * Timeout \in Int /\ r.cmd * Timeout \in Int
        /\ (Commands - r.cmd) * Timeout \in Int /\ Commands * Timeout \in Int
    BY <1>2
  <2> QED
    BY <1>2, <2>1, <2>2, <2>3
<1>4. r.age < OrphanAfter
  <2>1. (r.cmd - 1) * Timeout \in Int /\ Commands * Timeout \in Int
    BY <1>2
  <2> QED
    BY <1>1, <1>2, <1>3, <2>1 DEF AgeOk, Busy, RunsEndInTime
<1> QED
  BY <1>2, <1>4 DEF Orphans

\* A variant that has ended or is about to has no age to keep to.
LEMMA AgesEnded ==
    ASSUME VariantAssumption, VariantAges, VariantInv, NEW v \in Variant,
           NEW to \in {"delete", "done"}, NEW result \in VariantResult, Same,
           \/ Set(v, VariantEnds(v, to, result))
           \/ \E ran \in VariantRan : Set(v, [VariantEnds(v, to, result) EXCEPT !.ran = ran])
           \/ Set(v, [VariantEnds(v, to, result) EXCEPT !.box = "live", !.unheard = TRUE])
    PROVE  VariantAges'
<1> DEFINE e == VariantEnds(v, to, result)
<1>1. to \in VariantStage
  BY VariantValues
<1>2. variant[v] \in VariantRec /\ ~variant[v].sweptBusy
  BY DEF VariantInv, VariantsTyped, VariantAges, AgeOk
<1>3. e \in VariantRec /\ e.at = to /\ ~e.sweptBusy
  BY <1>1, <1>2, VariantEnded
<1>4. PICK r : /\ Set(v, r)
               /\ \/ r = e
                  \/ \E ran \in VariantRan : r = [e EXCEPT !.ran = ran]
                  \/ r = [e EXCEPT !.box = "live", !.unheard = TRUE]
  OBVIOUS
<1> HIDE DEF e
<1>5. r.at = to /\ ~r.sweptBusy
  BY <1>3, <1>4 DEF VariantRec
<1>6. AgeOk(r)
  BY <1>5 DEF AgeOk
<1> QED
  BY <1>4, <1>6, AgesMove

LEMMA VariantAgesTaken ==
    ASSUME VariantAssumption, VariantInv, VariantAges, NEW v \in Variant,
           TakeSlot(v) \/ CancelQueued(v) \/ Create(v)
    PROVE  VariantAges'
<1>1. variant[v] \in VariantRec /\ AgeOk(variant[v])
  BY DEF VariantInv, VariantsTyped, VariantAges
<1>2. CASE TakeSlot(v)
  <2> DEFINE g == Goes(v, "create")
  <2>1. g \in VariantRec /\ g.at = "create" /\ g.spent = 0 /\ g.sweptBusy = variant[v].sweptBusy
    BY <1>1, VariantWent, VariantValues
  <2>2. Set(v, [g EXCEPT !.age = 0]) /\ Same
    BY <1>2 DEF TakeSlot, Stamp
  <2> HIDE DEF g
  <2>3. AgeOk([g EXCEPT !.age = 0])
    BY <1>1, <2>1 DEF AgeOk, VariantRec, VariantAssumption
  <2> QED
    BY <2>2, <2>3, AgesMove
<1>3. CASE CancelQueued(v)
  BY <1>3, AgesEnded, VariantValues DEF CancelQueued
<1>4. CASE Create(v)
  <2> DEFINE g == Goes(v, "setup")
  <2>1. /\ g \in VariantRec /\ g.at = "setup" /\ g.spent = 0 /\ g.age = variant[v].age
        /\ g.sweptBusy = variant[v].sweptBusy
    BY <1>1, VariantWent, VariantValues
  <2>2. /\ Same /\ At(v, "create")
        /\ \/ Set(v, [g EXCEPT !.box = "live"])
           \/ Set(v, [VariantEnds(v, "done", "error") EXCEPT !.box = "live", !.unheard = TRUE])
           \/ Set(v, VariantEnds(v, "done", "error"))
    BY <1>4 DEF Create
  <2>3. SetupTime \in Nat /\ variant[v].age \in Nat /\ variant[v].spent \in Nat
    BY <1>1, VariantsTimed DEF VariantRec, VariantAssumption
  <2> HIDE DEF g
  <2>4. AgeOk([g EXCEPT !.box = "live"])
    BY <1>1, <2>1, <2>2, <2>3 DEF AgeOk, VariantRec, At
  <2> QED
    BY <2>2, <2>4, AgesMove, AgesEnded, VariantValues
<1> QED
  BY <1>2, <1>3, <1>4

LEMMA VariantAgesSync ==
    ASSUME VariantAssumption, VariantInv, VariantAges, NEW v \in Variant, SyncVariant(v)
    PROVE  VariantAges'
<1> DEFINE g == Goes(v, "patch")
<1>1. variant[v] \in VariantRec /\ AgeOk(variant[v])
  BY DEF VariantInv, VariantsTyped, VariantAges
<1>2. /\ g \in VariantRec /\ g.at = "patch" /\ g.spent = 0 /\ g.age = variant[v].age
      /\ g.sweptBusy = variant[v].sweptBusy
  BY <1>1, VariantWent, VariantValues
<1>3. Same /\ At(v, "setup") /\ (Set(v, g) \/ Set(v, VariantEnds(v, "delete", "error")))
  BY DEF SyncVariant
<1>4. SetupTime \in Nat /\ variant[v].age \in Nat /\ variant[v].spent \in Nat
  BY <1>1, VariantsTimed DEF VariantRec, VariantAssumption
<1> HIDE DEF g
<1>5. AgeOk(g)
  BY <1>1, <1>2, <1>3, <1>4 DEF AgeOk, At
<1> QED
  BY <1>3, <1>5, AgesMove, AgesEnded, VariantValues

LEMMA VariantAgesPatch ==
    ASSUME VariantAssumption, VariantInv, VariantAges, NEW v \in Variant, ApplyPatch(v)
    PROVE  VariantAges'
<1> DEFINE g == Goes(v, "command")
<1>1. variant[v] \in VariantRec /\ AgeOk(variant[v])
  BY DEF VariantInv, VariantsTyped, VariantAges
<1>2. /\ g \in VariantRec /\ g.at = "command" /\ g.spent = 0 /\ g.age = variant[v].age
      /\ g.sweptBusy = variant[v].sweptBusy /\ g.cmd = variant[v].cmd
  BY <1>1, VariantWent, VariantValues
<1>3. /\ Same /\ At(v, "patch")
      /\ Set(v, [g EXCEPT !.applied = TRUE]) \/ Set(v, VariantEnds(v, "delete", "error"))
  BY DEF ApplyPatch
<1>4. /\ SetupTime \in Nat /\ variant[v].age \in Nat /\ variant[v].spent \in Nat
      /\ Timeout \in Nat /\ variant[v].cmd \in 1..Commands
  BY <1>1, VariantsTimed DEF VariantRec, VariantAssumption
<1>5. 0 <= (variant[v].cmd - 1) * Timeout /\ (variant[v].cmd - 1) * Timeout \in Int
  BY <1>4
<1> HIDE DEF g
<1>6. AgeOk([g EXCEPT !.applied = TRUE])
  <2> DEFINE h == [g EXCEPT !.applied = TRUE]
  <2>1. /\ h.at = "command" /\ h.spent = 0 /\ h.age = variant[v].age /\ h.cmd = variant[v].cmd
        /\ h.sweptBusy = variant[v].sweptBusy
    BY <1>2 DEF VariantRec
  <2> HIDE DEF h
  <2>2. AgeOk(h)
    BY <1>1, <1>3, <1>4, <1>5, <2>1 DEF AgeOk, At
  <2> QED
    BY <2>2 DEF h
<1> QED
  BY <1>3, <1>6, AgesMove, AgesEnded, VariantValues

LEMMA VariantAgesCommand ==
    ASSUME VariantAssumption, VariantInv, VariantAges, NEW v \in Variant, RunVariantCommand(v)
    PROVE  VariantAges'
<1> DEFINE g == Goes(v, "command")
<1>1. variant[v] \in VariantRec /\ AgeOk(variant[v])
  BY DEF VariantInv, VariantsTyped, VariantAges
<1>2. /\ g \in VariantRec /\ g.at = "command" /\ g.spent = 0 /\ g.age = variant[v].age
      /\ g.sweptBusy = variant[v].sweptBusy /\ g.cmd = variant[v].cmd
  BY <1>1, VariantWent, VariantValues
<1>3. /\ Same /\ At(v, "command")
      /\ \/ Set(v, [g EXCEPT !.cmd = @ + 1])
         \/ Set(v, VariantEnds(v, "delete", "error"))
         \/ \E ran \in VariantRan, result \in VariantResult :
               Set(v, [VariantEnds(v, "delete", result) EXCEPT !.ran = ran])
  BY DEF RunVariantCommand, VariantRan, VariantResult
<1>4. /\ SetupTime \in Nat /\ variant[v].age \in Nat /\ variant[v].spent \in Nat
      /\ Timeout \in Nat /\ variant[v].cmd \in 1..Commands
  BY <1>1, VariantsTimed DEF VariantRec, VariantAssumption
<1>5. /\ (variant[v].cmd + 1 - 1) * Timeout = (variant[v].cmd - 1) * Timeout + Timeout
      /\ (variant[v].cmd - 1) * Timeout \in Int
  BY <1>4
<1> HIDE DEF g
<1>6. AgeOk([g EXCEPT !.cmd = @ + 1])
  <2> DEFINE h == [g EXCEPT !.cmd = @ + 1]
  <2>1. /\ h.at = "command" /\ h.spent = 0 /\ h.age = variant[v].age
        /\ h.cmd = variant[v].cmd + 1 /\ h.sweptBusy = variant[v].sweptBusy
    BY <1>2 DEF VariantRec
  <2> HIDE DEF h
  <2>2. AgeOk(h)
    BY <1>1, <1>3, <1>4, <1>5, <2>1 DEF AgeOk, At
  <2> QED
    BY <2>2 DEF h
<1> QED
  BY <1>3, <1>6, AgesMove, AgesEnded, VariantValues

LEMMA VariantAgesDelete ==
    ASSUME VariantAssumption, VariantInv, VariantAges, NEW v \in Variant, Delete(v)
    PROVE  VariantAges'
<1> DEFINE g == Goes(v, "done")
<1>1. variant[v] \in VariantRec /\ AgeOk(variant[v])
  BY DEF VariantInv, VariantsTyped, VariantAges
<1>2. g \in VariantRec /\ g.at = "done" /\ g.sweptBusy = variant[v].sweptBusy
  BY <1>1, VariantWent, VariantValues
<1>3. /\ Same
      /\ Set(v, [g EXCEPT !.box = "gone"]) \/ Set(v, [g EXCEPT !.refused = TRUE])
  BY DEF Delete, AskDelete
<1> HIDE DEF g
<1>4. AgeOk([g EXCEPT !.box = "gone"]) /\ AgeOk([g EXCEPT !.refused = TRUE])
  BY <1>1, <1>2 DEF AgeOk, VariantRec
<1> QED
  BY <1>3, <1>4, AgesMove

LEMMA VariantAgesSweep ==
    ASSUME VariantAssumption, RunsEndInTime, VariantInv, VariantAges, Sweep
    PROVE  VariantAges'
<1>1. PICK swept \in SUBSET Orphans :
        variant' = [v \in Variant |->
             IF v \notin swept THEN variant[v]
             ELSE [variant[v] EXCEPT !.box = "gone",
                      !.sweptBusy = ~crashed /\ v \in Busy /\ variant[v].at # "delete"]]
  BY DEF Sweep
<1>2. ASSUME NEW v \in Variant PROVE AgeOk(variant'[v])
  <2> DEFINE r == variant[v]
             b == ~crashed /\ v \in Busy /\ variant[v].at # "delete"
  <2>1. r \in VariantRec /\ AgeOk(r)
    BY DEF VariantInv, VariantsTyped, VariantAges
  <2>2. CASE v \notin swept
    BY <1>1, <2>1, <2>2
  <2>3. CASE v \in swept
    <3>1. b = FALSE
      BY <2>3, BusyIsYoung
    <3>2. variant'[v] = [r EXCEPT !.box = "gone", !.sweptBusy = b]
      BY <1>1, <2>3
    <3> HIDE DEF r, b
    <3>3. /\ variant'[v].at = r.at /\ variant'[v].spent = r.spent /\ variant'[v].age = r.age
          /\ variant'[v].cmd = r.cmd /\ ~variant'[v].sweptBusy
      BY <2>1, <3>1, <3>2 DEF VariantRec
    <3> QED
      BY <2>1, <3>3 DEF AgeOk
  <2> QED
    BY <2>2, <2>3
<1>3. crashed' = crashed
  BY DEF Sweep, Same
<1> QED
  BY <1>2, <1>3 DEF VariantAges, AgeOk

LEMMA VariantAgesTime ==
    ASSUME VariantAssumption, RunsEndInTime, VariantInv, VariantAges, TimePasses
    PROVE  VariantAges'
<1>1. ASSUME NEW v \in Variant PROVE AgeOk(variant'[v])
  <2> DEFINE r == variant[v]
             p == variant'[v]
  <2>1. r \in VariantRec /\ AgeOk(r)
    BY DEF VariantInv, VariantsTyped, VariantAges
  <2>2. /\ p \in VariantRec /\ p.at = r.at /\ p.cmd = r.cmd /\ p.sweptBusy = r.sweptBusy
        /\ p.age \in {r.age, r.age + 1}
        /\ r.at \in {"create", "setup", "patch", "command"} /\ r.spent < Longest
             => p.spent = r.spent + 1
    BY VariantGrows
  <2>3. /\ ~crashed /\ r.at \in {"create", "setup", "patch"} => r.spent < SetupTime
        /\ ~crashed /\ r.at = "command" => r.spent < Timeout
    BY DEF TimePasses, RunsEndInTime
  <2>4. /\ SetupTime \in Nat /\ Timeout \in Nat /\ Longest \in Nat
        /\ SetupTime <= Longest /\ Timeout <= Longest
        /\ r.age \in Nat /\ r.spent \in Nat /\ r.cmd \in Nat
    BY <2>1, VariantsTimed DEF VariantRec, VariantAssumption
  <2> HIDE DEF r, p
  <2>5. (r.cmd - 1) * Timeout \in Int
    BY <2>4
  <2>6. AgeOk(p)
    BY <2>1, <2>2, <2>3, <2>4, <2>5 DEF AgeOk
  <2> QED
    BY <2>6 DEF p
<1> QED
  BY <1>1 DEF VariantAges, AgeOk, TimePasses

LEMMA VariantAgesNext ==
    ASSUME VariantAssumption, RunsEndInTime, VariantInv, VariantAges, [NextVariants]_variantVars
    PROVE  VariantAges'
<1>1. ASSUME NEW v \in Variant,
             \/ TakeSlot(v) \/ CancelQueued(v) \/ Create(v) \/ SyncVariant(v) \/ ApplyPatch(v)
             \/ RunVariantCommand(v) \/ Delete(v)
      PROVE  VariantAges'
  BY <1>1, VariantAgesTaken, VariantAgesSync, VariantAgesPatch, VariantAgesCommand,
     VariantAgesDelete
<1>2. CASE InterruptVariants \/ CrashVariants
  BY <1>2 DEF InterruptVariants, CrashVariants, VariantAges, AgeOk
<1>3. CASE UNCHANGED variantVars
  BY <1>3 DEF variantVars, VariantAges, AgeOk
<1> QED
  BY <1>1, <1>2, <1>3, VariantAgesSweep, VariantAgesTime DEF NextVariants

\* What the runs check, from the two invariants.
LEMMA VariantsHonest == VariantInv => VariantsTypeOK /\ NothingStranded /\ AssessedHonest
<1> SUFFICES ASSUME VariantInv PROVE VariantsTypeOK /\ NothingStranded /\ AssessedHonest
  OBVIOUS
<1>1. variant \in [Variant -> VariantRec] /\ \A v \in Variant : VariantOk(variant[v])
  BY DEF VariantInv, VariantsTyped
<1>2. VariantsTypeOK
  <2>1. ASSUME NEW v \in Variant
        PROVE  /\ variant[v].at \in VariantStage /\ variant[v].cmd \in 1..Commands
               /\ variant[v].spent \in 0..Longest /\ variant[v].age \in 0..OrphanAfter
               /\ variant[v].result \in VariantResult
    BY <1>1, Zenon DEF VariantRec
  <2> QED
    BY <2>1 DEF VariantInv, VariantsTyped, VariantsTypeOK, VariantStage, VariantResult
<1> QED
  BY <1>1, <1>2 DEF NothingStranded, AssessedHonest, VariantOk

\* Of a variant's result and sidecar, what is kept is known at every stage (Run,
\* runVariant).
THEOREM VariantTypes == ASSUME VariantAssumption PROVE SpecVariants => []VariantsTypeOK
<1>1. InitVariants => VariantInv
  BY VariantInvInit
<1>2. VariantInv /\ [NextVariants]_variantVars => VariantInv'
  BY VariantInvNext
<1>3. VariantInv => VariantsTypeOK
  BY VariantsHonest
<1> QED
  BY <1>1, <1>2, <1>3, PTL DEF SpecVariants

\* Killed and survived are said of patched trees, and of all commands; and a run that
\* ends has asked for every sidecar it knew of to be deleted (runVariant, commands).
THEOREM VariantsAssessed ==
    ASSUME VariantAssumption PROVE SpecVariants => [](AssessedHonest /\ NothingStranded)
<1>1. InitVariants => VariantInv
  BY VariantInvInit
<1>2. VariantInv /\ [NextVariants]_variantVars => VariantInv'
  BY VariantInvNext
<1>3. VariantInv => AssessedHonest /\ NothingStranded
  BY VariantsHonest
<1> QED
  BY <1>1, <1>2, <1>3, PTL DEF SpecVariants

\* As long as a variant cannot take longer than the age a sidecar is swept from,
\* no sweep takes one that is at work (SweepOrphans, orphanAfter).
THEOREM SweepsSpare ==
    ASSUME VariantAssumption, RunsEndInTime PROVE SpecVariants => []SweepSpares
<1>1. InitVariants => VariantInv /\ VariantAges
  BY VariantInvInit, VariantAgesInit
<1>2. VariantInv /\ VariantAges /\ [NextVariants]_variantVars => VariantInv' /\ VariantAges'
  BY VariantInvNext, VariantAgesNext
<1>3. VariantAges => SweepSpares
  BY DEF VariantAges, AgeOk, SweepSpares
<1> QED
  BY <1>1, <1>2, <1>3, PTL DEF SpecVariants

-----------------------------------------------------------------------------
(***************************************************************************)
(* SidecarRecords: a sidecar has one file, and a reaper whose picture of   *)
(* the files is true spares what it must, for any processes and sidecars.  *)
(***************************************************************************)

(* What an actor remembers between its steps. *)

RecordOrg == Orgs \cup {NoOrg}
RecordFile == [ids : SUBSET Sidecars, org : RecordOrg, cold : BOOLEAN]

WriteStep == [op : {"write"}, ids : (SUBSET Sidecars) \ {{}}, org : RecordOrg]
PruneStep == [op : {"prune"}, key : Keys, ids : SUBSET Sidecars]
RemoveStep == [op : {"remove"}, id : Sidecars]
ListStep == [op : {"list"}, org : Orgs, seen : [Keys -> RecordFile]]
ReapStep ==
    [op : {"reap"}, org : Orgs, seen : [Keys -> RecordFile], current : Keys,
     live : SUBSET Sidecars, todo : SUBSET Keys]

RecordStep == {NoStep} \cup WriteStep \cup PruneStep \cup RemoveStep \cup ListStep \cup ReapStep

RecordsTyped ==
    /\ cloud \in [Sidecars -> {"unused", "live", "gone"}]
    /\ owner \in [Sidecars -> Orgs]
    /\ file \in [Keys -> RecordFile]
    /\ \A k \in Keys : file[k].ids = {} => file[k] = NoState
    /\ at \in [Actors -> Keys]
    /\ step \in [Actors -> RecordStep]
    /\ ops \in 0..MaxOps

\* Two files name one sidecar only while whoever wrote one of them is about to remove
\* the other.
OneFileOwed ==
    \A j, k \in Keys, s \in Sidecars :
        j # k /\ s \in Names(j) /\ s \in Names(k) =>
            \E a \in Actors :
                step[a].op = "prune" /\ step[a].key \in {j, k} /\ s \in step[a].ids

RecordsInv == RecordsTyped /\ OneFileOwed

-----------------------------------------------------------------------------
LEMMA RecordSteps ==
    ASSUME NEW r \in RecordStep
    PROVE  /\ r.op \in {"idle", "write", "prune", "remove", "list", "reap"}
           /\ r.op = "write" => r \in WriteStep
           /\ r.op = "prune" => r \in PruneStep
           /\ r.op = "remove" => r \in RemoveStep
           /\ r.op = "list" => r \in ListStep
           /\ r.op = "reap" => r \in ReapStep
<1>1. CASE r = NoStep
  BY <1>1 DEF NoStep
<1>2. CASE r \in WriteStep
  BY <1>2 DEF WriteStep
<1>3. CASE r \in PruneStep
  BY <1>3 DEF PruneStep
<1>4. CASE r \in RemoveStep
  BY <1>4 DEF RemoveStep
<1>5. CASE r \in ListStep
  BY <1>5 DEF ListStep
<1>6. CASE r \in ReapStep
  BY <1>6 DEF ReapStep
<1> QED
  BY <1>1, <1>2, <1>3, <1>4, <1>5, <1>6 DEF RecordStep

LEMMA NoStateTyped == NoState \in RecordFile /\ NoState.ids = {}
  BY DEF NoState, RecordFile, RecordOrg

\* Edits of one actor's step and of one file.
LEMMA StepTyped ==
    ASSUME step \in [Actors -> RecordStep], NEW a \in Actors, NEW r \in RecordStep,
           step' = [step EXCEPT ![a] = r]
    PROVE  /\ step' \in [Actors -> RecordStep]
           /\ step'[a] = r /\ \A b \in Actors : b # a => step'[b] = step[b]
  OBVIOUS

LEMMA FileTyped ==
    ASSUME file \in [Keys -> RecordFile],
           \A k \in Keys : file[k].ids = {} => file[k] = NoState,
           NEW j \in Keys, NEW f \in RecordFile, f.ids = {} => f = NoState,
           file' = [file EXCEPT ![j] = f]
    PROVE  /\ file' \in [Keys -> RecordFile]
           /\ \A k \in Keys : file'[k].ids = {} => file'[k] = NoState
           /\ file'[j] = f /\ \A k \in Keys : k # j => file'[k] = file[k]
  OBVIOUS

\* What takes nothing into a file, and leaves those at work, keeps the debt.
LEMMA ShrinksKeeps ==
    ASSUME OneFileOwed,
           \A k \in Keys : file'[k].ids \subseteq file[k].ids,
           \A a \in Actors : step[a].op = "prune" => step'[a] = step[a]
    PROVE  OneFileOwed'
<1> SUFFICES ASSUME NEW j \in Keys, NEW k \in Keys, NEW s \in Sidecars, j # k,
                    s \in file'[j].ids, s \in file'[k].ids
             PROVE  \E a \in Actors : /\ step'[a].op = "prune" /\ step'[a].key \in {j, k}
                                      /\ s \in step'[a].ids
  BY DEF OneFileOwed, Names
<1>1. PICK a \in Actors : step[a].op = "prune" /\ step[a].key \in {j, k} /\ s \in step[a].ids
  BY DEF OneFileOwed, Names
<1> QED
  BY <1>1

LEMMA RecordsInvInit == RecordsAssumption /\ InitRecords => RecordsInv
<1> SUFFICES ASSUME RecordsAssumption, InitRecords PROVE RecordsInv
  OBVIOUS
<1>1. /\ cloud \in [Sidecars -> {"unused", "live", "gone"}] /\ owner \in [Sidecars -> Orgs]
      /\ at \in [Actors -> Keys]
  BY DEF InitRecords
<1>2. file \in [Keys -> RecordFile] /\ \A k \in Keys : file[k] = NoState
  BY NoStateTyped DEF InitRecords
<1>3. step \in [Actors -> RecordStep]
  BY DEF InitRecords, RecordStep
<1>4. OneFileOwed
  BY <1>2, NoStateTyped DEF OneFileOwed, Names
<1> QED
  BY <1>1, <1>2, <1>3, <1>4 DEF RecordsInv, RecordsTyped, InitRecords, RecordsAssumption

\* A step that leaves the files, and takes an actor to another that is no removal.
LEMMA FilesStay ==
    ASSUME RecordsInv, RecordsAssumption, NEW a \in Actors, NEW r \in RecordStep, step[a].op # "prune",
           step' = [step EXCEPT ![a] = r], ops' \in 0..MaxOps,
           cloud' \in [Sidecars -> {"unused", "live", "gone"}],
           UNCHANGED <<owner, file, at>>
    PROVE  RecordsInv'
<1>1. /\ step' \in [Actors -> RecordStep]
      /\ \A b \in Actors : b # a => step'[b] = step[b]
  BY StepTyped DEF RecordsInv, RecordsTyped
<1>2. RecordsTyped'
  BY <1>1 DEF RecordsInv, RecordsTyped
<1>3. OneFileOwed'
  BY <1>1, ShrinksKeeps DEF RecordsInv
<1> QED
  BY <1>2, <1>3 DEF RecordsInv

\* A step that leaves who is at what, and takes from the files.
LEMMA StepsStay ==
    ASSUME RecordsInv, UNCHANGED <<owner, at, step, ops>>,
           cloud' \in [Sidecars -> {"unused", "live", "gone"}],
           file' \in [Keys -> RecordFile],
           \A k \in Keys : file'[k].ids = {} => file'[k] = NoState,
           \A k \in Keys : file'[k].ids \subseteq file[k].ids
    PROVE  RecordsInv'
<1>1. RecordsTyped'
  BY DEF RecordsInv, RecordsTyped
<1>2. OneFileOwed'
  BY ShrinksKeeps DEF RecordsInv
<1> QED
  BY <1>1, <1>2 DEF RecordsInv

LEMMA SavingTyped ==
    ASSUME NEW ids \in SUBSET Sidecars, ids # {}, NEW org \in RecordOrg
    PROVE  Saving(ids, org) \in RecordStep /\ Saving(ids, org).op = "write"
<1>1. Saving(ids, org) \in WriteStep
  BY DEF Saving, WriteStep
<1> QED
  BY <1>1 DEF Saving, RecordStep

LEMMA BeginKeeps ==
    ASSUME RecordsInv, RecordsAssumption, NEW a \in Actors, NEW r \in RecordStep, Begin(a, r),
           cloud' \in [Sidecars -> {"unused", "live", "gone"}],
           UNCHANGED <<owner, file, at>>
    PROVE  RecordsInv'
<1>1. step[a].op # "prune" /\ step' = [step EXCEPT ![a] = r]
  BY DEF Begin, NoStep
<1>2. ops' \in 0..MaxOps
  BY DEF Begin, RecordsInv, RecordsTyped, RecordsAssumption
<1> QED
  BY <1>1, <1>2, FilesStay

LEMMA CloudEdit ==
    ASSUME cloud \in [Sidecars -> {"unused", "live", "gone"}], NEW S \in SUBSET Sidecars,
           NEW c \in {"live", "gone"}
    PROVE  [s \in Sidecars |-> IF s \in S THEN c ELSE cloud[s]]
              \in [Sidecars -> {"unused", "live", "gone"}]
  OBVIOUS

LEMMA CreateKeeps ==
    ASSUME RecordsInv, RecordsAssumption, NEW a \in Actors, NEW s \in Sidecars, CreateSidecar(a, s)
    PROVE  RecordsInv'
<1>1. Saving({s}, owner[s]) \in RecordStep
  BY SavingTyped DEF RecordsInv, RecordsTyped, RecordOrg
<1>2. cloud' \in [Sidecars -> {"unused", "live", "gone"}]
  BY DEF CreateSidecar, RecordsInv, RecordsTyped
<1> QED
  BY <1>1, <1>2, BeginKeeps DEF CreateSidecar

LEMMA UseKeeps ==
    ASSUME RecordsInv, RecordsAssumption, NEW a \in Actors, NEW s \in Sidecars, Use(a, s)
    PROVE  RecordsInv'
<1>1. Saving({s}, NoOrg) \in RecordStep
  BY SavingTyped DEF RecordOrg
<1> QED
  BY <1>1, BeginKeeps DEF Use, RecordsInv, RecordsTyped

LEMMA SavePoolKeeps ==
    ASSUME RecordsInv, RecordsAssumption, NEW a \in Actors, SaveActivePoolState(a)
    PROVE  RecordsInv'
<1>1. file[at[a]] \in RecordFile
  BY DEF RecordsInv, RecordsTyped
<1>2. Names(at[a]) \in SUBSET Sidecars /\ file[at[a]].org \in RecordOrg
  BY <1>1 DEF RecordFile, Names
<1>3. PICK out \in {{}} \cup {{s} : s \in Names(at[a])},
           new \in {{}} \cup {{s} : s \in {t \in Sidecars : cloud[t] = "unused"}} :
          /\ (Names(at[a]) \ out) \cup new # {}
          /\ cloud' = [s \in Sidecars |-> IF s \in new THEN "live" ELSE cloud[s]]
          /\ Begin(a, Saving((Names(at[a]) \ out) \cup new, file[at[a]].org))
  BY DEF SaveActivePoolState
<1>4. new \in SUBSET Sidecars
  BY <1>3
<1>5. Saving((Names(at[a]) \ out) \cup new, file[at[a]].org) \in RecordStep
  BY <1>2, <1>3, <1>4, SavingTyped
<1>6. cloud' \in [Sidecars -> {"unused", "live", "gone"}]
  BY <1>3, <1>4, CloudEdit DEF RecordsInv, RecordsTyped
<1> QED
  BY <1>3, <1>5, <1>6, BeginKeeps DEF SaveActivePoolState

LEMMA DeleteKeeps ==
    ASSUME RecordsInv, RecordsAssumption, NEW a \in Actors, NEW s \in Sidecars, DeleteSidecar(a, s)
    PROVE  RecordsInv'
<1>1. [op |-> "remove", id |-> s] \in RecordStep
  BY DEF RecordStep, RemoveStep
<1>2. cloud' \in [Sidecars -> {"unused", "live", "gone"}]
  BY DEF DeleteSidecar, RecordsInv, RecordsTyped
<1> QED
  BY <1>1, <1>2, BeginKeeps DEF DeleteSidecar

LEMMA LoadKeeps ==
    ASSUME RecordsInv, RecordsAssumption, NEW a \in Actors, NEW o \in Orgs, LoadEntries(a, o)
    PROVE  RecordsInv'
<1>1. [op |-> "list", org |-> o, seen |-> file] \in RecordStep
  BY DEF RecordStep, ListStep, RecordsInv, RecordsTyped
<1> QED
  BY <1>1, BeginKeeps DEF LoadEntries, RecordsInv, RecordsTyped

LEMMA ListKeeps ==
    ASSUME RecordsInv, RecordsAssumption, NEW a \in Actors, ListSidecars(a)
    PROVE  RecordsInv'
<1> DEFINE r == [op |-> "reap", org |-> step[a].org, seen |-> step[a].seen,
                 current |-> at[a],
                 live |-> {s \in Sidecars : cloud[s] = "live" /\ owner[s] = step[a].org},
                 todo |-> {k \in Keys : step[a].seen[k] # NoState}]
<1>1. step[a] \in ListStep
  BY RecordSteps DEF ListSidecars, RecordsInv, RecordsTyped
<1>2. r \in ReapStep
  BY <1>1 DEF ListStep, ReapStep, RecordsInv, RecordsTyped
<1>3. r \in RecordStep /\ step' = [step EXCEPT ![a] = r] /\ ops' = ops
  BY <1>2 DEF RecordStep, ListSidecars, Then
<1> HIDE DEF r
<1> QED
  BY <1>3, FilesStay DEF ListSidecars, RecordsInv, RecordsTyped

LEMMA CheckoutKeeps ==
    ASSUME RecordsInv, NEW a \in Actors, NEW k \in Keys, CheckoutKey(a, k)
    PROVE  RecordsInv'
<1>1. RecordsTyped'
  BY DEF CheckoutKey, RecordsInv, RecordsTyped
<1>2. OneFileOwed'
  BY ShrinksKeeps DEF CheckoutKey, RecordsInv
<1> QED
  BY <1>1, <1>2 DEF RecordsInv

\* Whoever writes a file owes the removal of the others that name its sidecars.
LEMMA WriteKeeps ==
    ASSUME RecordsInv, NEW a \in Actors, Write(a)
    PROVE  RecordsInv'
<1> DEFINE r == [op |-> "prune", key |-> at[a], ids |-> step[a].ids]
           f == [ids |-> step[a].ids, org |-> step[a].org, cold |-> FALSE]
<1>1. step[a] \in WriteStep
  BY RecordSteps DEF Write, RecordsInv, RecordsTyped
<1>2. at[a] \in Keys
  BY DEF RecordsInv, RecordsTyped
<1>3. r \in PruneStep /\ f \in RecordFile /\ f.ids # {}
  BY <1>1, <1>2 DEF WriteStep, PruneStep, RecordFile
<1>4. r \in RecordStep /\ r.op = "prune" /\ r.key = at[a] /\ r.ids = step[a].ids
      /\ f.ids = step[a].ids
  BY <1>3 DEF RecordStep
<1>5. step' = [step EXCEPT ![a] = r] /\ file' = [file EXCEPT ![at[a]] = f] /\ ops' = ops
  BY DEF Write, Then
<1> HIDE DEF r, f
<1>6. /\ step' \in [Actors -> RecordStep]
      /\ step'[a] = r /\ \A b \in Actors : b # a => step'[b] = step[b]
  BY <1>4, <1>5, StepTyped DEF RecordsInv, RecordsTyped
<1>7. /\ file' \in [Keys -> RecordFile]
      /\ \A k \in Keys : file'[k].ids = {} => file'[k] = NoState
      /\ file'[at[a]] = f /\ \A k \in Keys : k # at[a] => file'[k] = file[k]
  BY <1>2, <1>3, <1>5, FileTyped DEF RecordsInv, RecordsTyped
<1>8. RecordsTyped'
  BY <1>5, <1>6, <1>7 DEF Write, RecordsInv, RecordsTyped
<1>9. OneFileOwed'
  <2> SUFFICES ASSUME NEW j \in Keys, NEW k \in Keys, NEW s \in Sidecars, j # k,
                      s \in file'[j].ids, s \in file'[k].ids
               PROVE  \E b \in Actors : /\ step'[b].op = "prune" /\ step'[b].key \in {j, k}
                                        /\ s \in step'[b].ids
    BY DEF OneFileOwed, Names
  <2>1. CASE at[a] \in {j, k}
    BY <2>1, <1>4, <1>6, <1>7
  <2>2. CASE at[a] \notin {j, k}
    <3>1. s \in Names(j) /\ s \in Names(k)
      BY <2>2, <1>7 DEF Names
    <3>2. PICK b \in Actors : step[b].op = "prune" /\ step[b].key \in {j, k} /\ s \in step[b].ids
      BY <3>1 DEF OneFileOwed, RecordsInv
    <3>3. b # a
      BY <3>2 DEF Write
    <3> QED
      BY <3>2, <3>3, <1>6
  <2> QED
    BY <2>1, <2>2
<1> QED
  BY <1>8, <1>9 DEF RecordsInv

\* Then it removes them.
LEMMA PruneKeeps ==
    ASSUME RecordsInv, NEW a \in Actors, Prune(a)
    PROVE  RecordsInv'
<1> DEFINE old == Rekeyed(step[a].key, step[a].ids)
<1>1. NoStep \in RecordStep /\ NoStep.op = "idle"
  BY DEF RecordStep, NoStep
<1>2. /\ step' = [step EXCEPT ![a] = NoStep] /\ ops' = ops
      /\ file' = [k \in Keys |-> IF k \in old THEN NoState ELSE file[k]]
  BY DEF Prune, Then
<1>3. /\ step' \in [Actors -> RecordStep]
      /\ step'[a] = NoStep /\ \A b \in Actors : b # a => step'[b] = step[b]
  BY <1>1, <1>2, StepTyped DEF RecordsInv, RecordsTyped
<1>4. /\ file' \in [Keys -> RecordFile]
      /\ \A k \in Keys : file'[k].ids = {} => file'[k] = NoState
      /\ \A k \in Keys : file'[k] = IF k \in old THEN NoState ELSE file[k]
  <2> HIDE DEF old
  <2> QED
    BY <1>2, NoStateTyped DEF RecordsInv, RecordsTyped
<1>5. RecordsTyped'
  BY <1>2, <1>3, <1>4 DEF Prune, RecordsInv, RecordsTyped
<1>6. OneFileOwed'
  <2> SUFFICES ASSUME NEW j \in Keys, NEW k \in Keys, NEW s \in Sidecars, j # k,
                      s \in file'[j].ids, s \in file'[k].ids
               PROVE  \E b \in Actors : /\ step'[b].op = "prune" /\ step'[b].key \in {j, k}
                                        /\ s \in step'[b].ids
    BY DEF OneFileOwed, Names
  <2>1. j \notin old /\ k \notin old /\ s \in Names(j) /\ s \in Names(k)
    <3> HIDE DEF old
    <3> QED
      BY <1>4, NoStateTyped DEF Names
  <2>2. PICK b \in Actors : step[b].op = "prune" /\ step[b].key \in {j, k} /\ s \in step[b].ids
    BY <2>1 DEF OneFileOwed, RecordsInv
  <2>3. b # a
    BY <2>1, <2>2 DEF Rekeyed
  <2> QED
    BY <2>2, <2>3, <1>3
<1> QED
  BY <1>5, <1>6 DEF RecordsInv

LEMMA RemoveKeeps ==
    ASSUME RecordsInv, RecordsAssumption, NEW a \in Actors, RemoveActiveSidecar(a)
    PROVE  RecordsInv'
<1> DEFINE left == Names(at[a]) \ {step[a].id}
<1>1. at[a] \in Keys /\ ops \in 0..MaxOps /\ cloud \in [Sidecars -> {"unused", "live", "gone"}]
      /\ step[a].op # "prune"
  BY DEF RecordsInv, RecordsTyped, RemoveActiveSidecar
<1>2. file[at[a]] \in RecordFile
  BY <1>1 DEF RecordsInv, RecordsTyped
<1>3. NoStep \in RecordStep
  BY DEF RecordStep
<1>4. CASE Then(a, NoStep) /\ UNCHANGED file
  BY <1>1, <1>3, <1>4, FilesStay DEF RemoveActiveSidecar, Then
<1>5. CASE file' = [file EXCEPT ![at[a]] = NoState] /\ Then(a, NoStep)
  <2>1. /\ file' \in [Keys -> RecordFile]
        /\ \A k \in Keys : file'[k].ids = {} => file'[k] = NoState
        /\ file'[at[a]] = NoState /\ \A k \in Keys : k # at[a] => file'[k] = file[k]
    BY <1>1, <1>5, NoStateTyped, FileTyped DEF RecordsInv, RecordsTyped
  <2>2. \A k \in Keys : file'[k].ids \subseteq file[k].ids
    BY <2>1, NoStateTyped
  <2>3. /\ step' \in [Actors -> RecordStep]
        /\ \A b \in Actors : b # a => step'[b] = step[b]
    BY <1>3, <1>5, StepTyped DEF RecordsInv, RecordsTyped, Then
  <2>4. OneFileOwed'
    BY <1>1, <2>2, <2>3, ShrinksKeeps DEF RecordsInv
  <2> QED
    BY <1>5, <2>1, <2>3, <2>4 DEF RecordsInv, RecordsTyped, RemoveActiveSidecar, Then
<1>6. CASE left # {} /\ Then(a, Saving(left, file[at[a]].org)) /\ UNCHANGED file
  <2>1. left \in SUBSET Sidecars /\ file[at[a]].org \in RecordOrg
    BY <1>2 DEF RecordFile, Names
  <2>2. Saving(left, file[at[a]].org) \in RecordStep
    BY <1>6, <2>1, SavingTyped
  <2> QED
    BY <1>1, <1>6, <2>2, FilesStay DEF RemoveActiveSidecar, Then
<1> QED
  BY <1>4, <1>5, <1>6 DEF RemoveActiveSidecar

LEMMA ForgetKeeps ==
    ASSUME RecordsInv, NEW a \in Actors, ForgetSidecars(a)
    PROVE  RecordsInv'
<1>1. at[a] \in Keys
  BY DEF RecordsInv, RecordsTyped
<1>2. /\ file' \in [Keys -> RecordFile]
      /\ \A k \in Keys : file'[k].ids = {} => file'[k] = NoState
      /\ file'[at[a]] = NoState /\ \A k \in Keys : k # at[a] => file'[k] = file[k]
  BY <1>1, NoStateTyped, FileTyped DEF RecordsInv, RecordsTyped, ForgetSidecars
<1>3. \A k \in Keys : file'[k].ids \subseteq file[k].ids
  BY <1>2, NoStateTyped
<1> QED
  BY <1>2, <1>3, StepsStay DEF ForgetSidecars, RecordsInv, RecordsTyped

LEMMA ClearKeeps ==
    ASSUME RecordsInv, NEW o \in Orgs, ClearActiveByOrg(o)
    PROVE  RecordsInv'
<1>1. /\ file' \in [Keys -> RecordFile]
      /\ \A k \in Keys : file'[k] \in {file[k], NoState}
  BY NoStateTyped DEF RecordsInv, RecordsTyped, ClearActiveByOrg
<1>2. \A k \in Keys : /\ file'[k].ids = {} => file'[k] = NoState
                      /\ file'[k].ids \subseteq file[k].ids
  BY <1>1, NoStateTyped DEF RecordsInv, RecordsTyped
<1> QED
  BY <1>1, <1>2, StepsStay DEF ClearActiveByOrg, RecordsInv, RecordsTyped

LEMMA CoolKeeps ==
    ASSUME RecordsInv, NEW k \in Keys, Cool(k)
    PROVE  RecordsInv'
<1> DEFINE f == [file[k] EXCEPT !.cold = TRUE]
<1>1. f \in RecordFile /\ f.ids = file[k].ids /\ f.ids # {}
  BY DEF RecordsInv, RecordsTyped, RecordFile, Cool
<1>2. file' = [file EXCEPT ![k] = f]
  BY DEF Cool
<1> HIDE DEF f
<1>3. /\ file' \in [Keys -> RecordFile]
      /\ \A j \in Keys : file'[j].ids = {} => file'[j] = NoState
      /\ file'[k] = f /\ \A j \in Keys : j # k => file'[j] = file[j]
  BY <1>1, <1>2, FileTyped DEF RecordsInv, RecordsTyped
<1>4. \A j \in Keys : file'[j].ids \subseteq file[j].ids
  BY <1>1, <1>3
<1> QED
  BY <1>3, <1>4, StepsStay DEF Cool, RecordsInv, RecordsTyped

LEMMA ExpireKeeps ==
    ASSUME RecordsInv, NEW s \in Sidecars, Expire(s)
    PROVE  RecordsInv'
<1>1. cloud' \in [Sidecars -> {"unused", "live", "gone"}]
  BY DEF Expire, RecordsInv, RecordsTyped
<1> QED
  BY <1>1, StepsStay DEF Expire, RecordsInv, RecordsTyped

LEMMA ReapKeeps ==
    ASSUME RecordsInv, NEW a \in Actors, NEW k \in Keys, ReapFile(a, k)
    PROVE  RecordsInv'
<1> DEFINE rest == step[a].todo \ {k}
           r == IF rest = {} THEN NoStep ELSE [step[a] EXCEPT !.todo = rest]
<1>1. step[a] \in ReapStep
  BY RecordSteps DEF ReapFile, RecordsInv, RecordsTyped
<1>2. [step[a] EXCEPT !.todo = rest] \in ReapStep
  BY <1>1 DEF ReapStep
<1>3. r \in RecordStep
  BY <1>2 DEF RecordStep
<1>4. step' = [step EXCEPT ![a] = r] /\ ops' = ops
  BY DEF ReapFile, Then
<1> HIDE DEF r
<1>5. /\ step' \in [Actors -> RecordStep]
      /\ \A b \in Actors : b # a => step'[b] = step[b]
  BY <1>3, <1>4, StepTyped DEF RecordsInv, RecordsTyped
<1>6. cloud' \in [Sidecars -> {"unused", "live", "gone"}]
  <2>1. PICK refused \in SUBSET Condemned(step[a], k) :
            cloud' = [s \in Sidecars |->
                        IF s \in Condemned(step[a], k) \ refused THEN "gone" ELSE cloud[s]]
    BY DEF ReapFile
  <2> QED
    BY <2>1 DEF RecordsInv, RecordsTyped
<1>7. /\ file' \in [Keys -> RecordFile]
      /\ \A j \in Keys : file'[j] \in {file[j], NoState}
  <2>1. CASE file' = file
    BY <2>1 DEF RecordsInv, RecordsTyped
  <2>2. CASE file' = [file EXCEPT ![k] = NoState]
    BY <2>2, NoStateTyped DEF RecordsInv, RecordsTyped
  <2> QED
    BY <2>1, <2>2 DEF ReapFile
<1>8. \A j \in Keys : /\ file'[j].ids = {} => file'[j] = NoState
                      /\ file'[j].ids \subseteq file[j].ids
  BY <1>7, NoStateTyped DEF RecordsInv, RecordsTyped
<1>9. RecordsTyped'
  BY <1>4, <1>5, <1>6, <1>7, <1>8 DEF ReapFile, RecordsInv, RecordsTyped
<1>10. OneFileOwed'
  BY <1>5, <1>8, ShrinksKeeps DEF ReapFile, RecordsInv
<1> QED
  BY <1>9, <1>10 DEF RecordsInv

LEMMA RecordsInvNext == RecordsAssumption /\ RecordsInv /\ [NextRecords]_recordVars => RecordsInv'
<1> SUFFICES ASSUME RecordsAssumption, RecordsInv, [NextRecords]_recordVars PROVE RecordsInv'
  OBVIOUS
<1>1. CASE UNCHANGED recordVars
  BY <1>1 DEF recordVars, RecordsInv, RecordsTyped, OneFileOwed, Names
<1>2. ASSUME NEW a \in Actors,
             \/ Write(a) \/ Prune(a) \/ RemoveActiveSidecar(a) \/ ListSidecars(a)
             \/ SaveActivePoolState(a) \/ ForgetSidecars(a)
      PROVE  RecordsInv'
  BY <1>2, WriteKeeps, PruneKeeps, RemoveKeeps, ListKeeps, SavePoolKeeps, ForgetKeeps
<1>3. ASSUME NEW a \in Actors, NEW s \in Sidecars,
             CreateSidecar(a, s) \/ Use(a, s) \/ DeleteSidecar(a, s)
      PROVE  RecordsInv'
  BY <1>3, CreateKeeps, UseKeeps, DeleteKeeps
<1>4. ASSUME NEW a \in Actors, NEW k \in Keys, CheckoutKey(a, k) \/ ReapFile(a, k)
      PROVE  RecordsInv'
  BY <1>4, CheckoutKeeps, ReapKeeps
<1>5. ASSUME NEW a \in Actors, NEW o \in Orgs, LoadEntries(a, o)
      PROVE  RecordsInv'
  BY <1>5, LoadKeeps
<1>6. ASSUME NEW o \in Orgs, ClearActiveByOrg(o) PROVE RecordsInv'
  BY <1>6, ClearKeeps
<1>7. ASSUME NEW k \in Keys, Cool(k) PROVE RecordsInv'
  BY <1>7, CoolKeeps
<1>8. ASSUME NEW s \in Sidecars, Expire(s) PROVE RecordsInv'
  BY <1>8, ExpireKeeps
<1> QED
  BY <1>1, <1>2, <1>3, <1>4, <1>5, <1>6, <1>7, <1>8 DEF NextRecords

LEMMA RecordsInvHolds == RecordsInv => RecordsTypeOK /\ OneFilePerSidecar
<1> SUFFICES ASSUME RecordsInv PROVE RecordsTypeOK /\ OneFilePerSidecar
  OBVIOUS
<1>1. \A a \in Actors : step[a].op \in {"idle", "write", "prune", "remove", "list", "reap"}
  BY RecordSteps DEF RecordsInv, RecordsTyped
<1>2. RecordsTypeOK
  BY <1>1 DEF RecordsInv, RecordsTyped, RecordsTypeOK, RecordFile, RecordOrg
<1>3. OneFilePerSidecar
  <2> SUFFICES ASSUME Saved, NEW j \in Keys, NEW k \in Keys, j # k,
                      NEW s \in Names(j) \cap Names(k)
               PROVE  FALSE
    BY DEF OneFilePerSidecar
  <2>1. s \in Sidecars
    BY DEF RecordsInv, RecordsTyped, RecordFile, Names
  <2> QED
    BY <2>1 DEF RecordsInv, OneFileOwed, Saved
<1> QED
  BY <1>2, <1>3

LEMMA ReaperSpares ==
    ASSUME RecordsInv, NEW a \in Actors, NEW k \in Keys,
           ReapFile(a, k), Saved, file = step[a].seen,
           NEW s \in Sidecars, NEW j \in Keys, s \in Names(j), cloud[s] = "live",
           ~file[j].cold \/ j = step[a].current \/ OtherOrg(step[a], j)
    PROVE  cloud'[s] = "live"
<1>1. PICK refused \in SUBSET Condemned(step[a], k) :
          cloud' = [t \in Sidecars |->
                      IF t \in Condemned(step[a], k) \ refused THEN "gone" ELSE cloud[t]]
  BY DEF ReapFile
<1>2. SUFFICES ASSUME s \in Condemned(step[a], k) PROVE FALSE
  BY <1>1
<1>3. ~OtherOrg(step[a], k) /\ ~Spared(step[a], k) /\ s \in Names(k)
  BY <1>2 DEF Condemned, Names
<1>4. j = k
  BY <1>3, RecordsInvHolds DEF OneFilePerSidecar
<1> QED
  BY <1>3, <1>4 DEF Spared

-----------------------------------------------------------------------------
\* The files name sidecars the code knows, and at rest each sidecar in one file
\* (SaveActiveTo, pruneRekeyedState).
THEOREM RecordsKept ==
    ASSUME RecordsAssumption
    PROVE  SpecRecords => [](RecordsTypeOK /\ OneFilePerSidecar)
<1>1. InitRecords => RecordsInv
  BY RecordsInvInit
<1>2. RecordsInv /\ [NextRecords]_recordVars => RecordsInv'
  BY RecordsInvNext
<1>3. RecordsInv => RecordsTypeOK /\ OneFilePerSidecar
  BY RecordsInvHolds
<1> QED
  BY <1>1, <1>2, <1>3, PTL DEF SpecRecords

SparesUsed ==
    \A a \in Actors, k \in Keys :
        (ReapFile(a, k) /\ Saved /\ file = step[a].seen)
          => \A s \in Sidecars, j \in Keys :
               (/\ s \in Names(j) /\ cloud[s] = "live"
                /\ (~file[j].cold \/ j = step[a].current \/ OtherOrg(step[a], j)))
               => cloud'[s] = "live"

LEMMA SparesUsedHolds == RecordsInv => SparesUsed
  BY ReaperSpares DEF SparesUsed

\* A reaper whose picture is still true deletes nothing a file it must spare names
\* (Reap): what it condemns is in one file only.
THEOREM ReaperSparesUsed ==
    ASSUME RecordsAssumption
    PROVE  SpecRecords => ReapSparesUsed
<1>1. InitRecords => RecordsInv
  BY RecordsInvInit
<1>2. RecordsInv /\ [NextRecords]_recordVars => RecordsInv'
  BY RecordsInvNext
<1>3. RecordsInv => SparesUsed
  BY SparesUsedHolds
<1> QED
  BY <1>1, <1>2, <1>3, PTL DEF SpecRecords, ReapSparesUsed, SparesUsed

-----------------------------------------------------------------------------
(***************************************************************************)
(* WorkspaceMirror: a synced workspace is the tree, and a pull leaves      *)
(* tracked files alone, for any paths, contents and edits.                 *)
(***************************************************************************)

\* What a push has copied, and nobody touched, is as it is here.
PushExact ==
    transfer.op = "push" =>
        /\ transfer.at \in {"files", "git", "done"} =>
              /\ transfer.kept = Ignored
              /\ \A p \in Paths : p \notin transfer.todo \cup Ignored \cup touched => copy[p] = tree[p]
        /\ transfer.at \in {"git", "done"} => transfer.todo = {}
        /\ transfer.at = "done" => gitDir = "repo"

\* What a pull may move is never tracked and ignored.
PullSpares ==
    transfer.op = "pull" /\ transfer.at = "files" => Tracked \cap Ignored \subseteq transfer.kept

MirrorInv == MirrorTypeOK /\ PushExact /\ PullSpares /\ TrackedKept

MirrorTransfer ==
    [op : {"none", "push", "pull"}, todo : SUBSET Paths, kept : SUBSET Paths,
     at : {"rest", "rsync", "mkdir", "files", "git", "list", "done", "failed"}]

LEMMA MirrorInvInit == MirrorAssumption /\ InitMirror => MirrorInv
  BY DEF MirrorAssumption, InitMirror, MirrorInv, MirrorTypeOK, PushExact, PullSpares,
         TrackedKept, NoTransfer, Files, Workspaces

LEMMA EditTreeKeeps ==
    ASSUME MirrorAssumption, MirrorInv, NEW p \in Paths, NEW c \in 0..Contents, EditTree(p, c)
    PROVE  MirrorInv'
<1>1. MirrorTypeOK'
  BY DEF EditTree, MirrorAssumption, MirrorInv, MirrorTypeOK, Files
<1>2. tree \in Files /\ mine \in Files
  BY DEF MirrorInv, MirrorTypeOK
<1>3. /\ \A q \in Paths \ {p} : tree'[q] = tree[q] /\ mine'[q] = mine[q]
      /\ tree'[p] = c /\ mine'[p] = c
  BY <1>2 DEF EditTree, Files
<1>4. PushExact'
  BY <1>3 DEF EditTree, MirrorInv, PushExact
<1>5. PullSpares' /\ TrackedKept'
  BY <1>3 DEF EditTree, MirrorInv, PullSpares, TrackedKept, MirrorAssumption
<1> QED
  BY <1>1, <1>4, <1>5 DEF MirrorInv

LEMMA EditCopyKeeps ==
    ASSUME MirrorAssumption, MirrorInv, NEW p \in Paths, NEW c \in 0..Contents, EditCopy(p, c)
    PROVE  MirrorInv'
<1>1. MirrorTypeOK'
  BY DEF EditCopy, MirrorAssumption, MirrorInv, MirrorTypeOK, Files
<1>2. copy \in Files
  BY DEF MirrorInv, MirrorTypeOK
<1>3. \A q \in Paths \ {p} : copy'[q] = copy[q]
  BY <1>2 DEF EditCopy, Files
<1>4. PushExact'
  BY <1>3 DEF EditCopy, MirrorInv, PushExact
<1>5. PullSpares' /\ TrackedKept'
  BY DEF EditCopy, MirrorInv, PullSpares, TrackedKept
<1> QED
  BY <1>1, <1>4, <1>5 DEF MirrorInv

LEMMA BeginKeepsMirror ==
    ASSUME MirrorAssumption, MirrorInv,
           BeginPull \/ \E given, persist \in BOOLEAN : BeginPush(given, persist)
    PROVE  MirrorInv'
<1>1. /\ transfer' \in MirrorTransfer /\ transfer'.at \in {"rsync", "list"}
      /\ saved' \in Workspaces /\ transfers' \in 0..MaxTransfers /\ touched' = {}
      /\ UNCHANGED <<tree, copy, gitDir, mine, edits>>
  BY DEF BeginPull, BeginPush, Workspace, Workspaces, MirrorTransfer, MirrorInv,
         MirrorTypeOK, MirrorAssumption
<1>2. MirrorTypeOK'
  BY <1>1 DEF MirrorInv, MirrorTypeOK, MirrorTransfer
<1> QED
  BY <1>1, <1>2 DEF MirrorInv, PushExact, PullSpares, TrackedKept

\* A step that moves no file and no repository.
LEMMA ProceedKeeps ==
    ASSUME MirrorAssumption, MirrorInv,
           EnsureRemoteRsync \/ Mkdir \/ ListExcluded \/ BreakOff
    PROVE  MirrorInv'
<1>1. transfer \in MirrorTransfer /\ Ignored \subseteq Paths /\ Tracked \subseteq Paths
  BY DEF MirrorInv, MirrorTypeOK, MirrorTransfer, MirrorAssumption
<1>2. UNCHANGED <<tree, copy, gitDir, saved, touched, mine, edits, transfers>>
  BY DEF EnsureRemoteRsync, Mkdir, ListExcluded, BreakOff
<1>3. transfer' \in MirrorTransfer /\ transfer'.op = transfer.op
  BY <1>1 DEF EnsureRemoteRsync, Proceeds, Mkdir, ListExcluded, BreakOff, MirrorTransfer,
         IgnoredPaths, TrackedIgnoredPaths
<1>4. MirrorTypeOK' /\ TrackedKept'
  BY <1>2, <1>3 DEF MirrorInv, MirrorTypeOK, MirrorTransfer, TrackedKept
<1>5. PushExact' /\ PullSpares'
  <2>1. CASE EnsureRemoteRsync
    BY <1>1, <2>1 DEF EnsureRemoteRsync, Proceeds, PushExact, PullSpares, MirrorTransfer
  <2>2. CASE Mkdir
    BY <1>1, <2>2 DEF Mkdir, PushExact, PullSpares, MirrorTransfer
  <2>3. CASE ListExcluded
    BY <1>1, <2>3 DEF ListExcluded, PushExact, PullSpares, MirrorTransfer, TrackedIgnoredPaths
  <2>4. CASE BreakOff
    BY <1>1, <2>4 DEF BreakOff, PushExact, PullSpares, MirrorTransfer
  <2> QED
    BY <2>1, <2>2, <2>3, <2>4
<1> QED
  BY <1>4, <1>5 DEF MirrorInv

LEMMA RestKeeps ==
    ASSUME NEW p \in Paths, transfer \in MirrorTransfer, transfer.at = "files", Rest(p)
    PROVE  /\ transfer' \in MirrorTransfer
           /\ transfer'.op = transfer.op /\ transfer'.kept = transfer.kept
           /\ transfer'.todo = transfer.todo \ {p}
           /\ \/ transfer'.at = "files"
              \/ transfer'.todo = {} /\ transfer'.at = AfterFiles
<1> DEFINE left == transfer.todo \ {p}
           x == IF left = {} THEN AfterFiles ELSE transfer.at
<1>1. transfer' = [transfer EXCEPT !.todo = left, !.at = x]
  BY DEF Rest
<1>2. x \in {"files", "git", "done"} /\ (x = "files" \/ (left = {} /\ x = AfterFiles))
  BY DEF AfterFiles
<1>3. left \subseteq Paths
  BY DEF MirrorTransfer
<1> HIDE DEF left, x
<1>4. transfer'.todo = left /\ transfer'.at = x
  BY <1>1 DEF MirrorTransfer
<1> QED
  BY <1>1, <1>2, <1>3, <1>4 DEF MirrorTransfer, left

LEMMA PushKeeps ==
    ASSUME MirrorAssumption, MirrorInv, NEW p \in Paths, PushFile(p)
    PROVE  MirrorInv'
<1>1. transfer \in MirrorTransfer /\ copy \in Files /\ tree \in Files
  BY DEF MirrorInv, MirrorTypeOK, MirrorTransfer
<1>2. /\ transfer' \in MirrorTransfer
      /\ transfer'.op = transfer.op /\ transfer'.kept = transfer.kept
      /\ transfer'.todo = transfer.todo \ {p}
      /\ \/ transfer'.at = "files"
         \/ transfer'.todo = {} /\ transfer'.at = AfterFiles
  BY <1>1, RestKeeps DEF PushFile
<1>3. /\ copy' \in Files /\ \A q \in Paths \ {p} : copy'[q] = copy[q]
      /\ p \notin transfer.kept => copy'[p] = tree[p]
  BY <1>1 DEF PushFile, Files, Moves
<1>4. gitDir' \in {"none", "pointer", "repo"}
  BY DEF PushFile, MirrorInv, MirrorTypeOK
<1>5. MirrorTypeOK'
  BY <1>2, <1>3, <1>4 DEF PushFile, MirrorInv, MirrorTypeOK, MirrorTransfer
<1>6. PushExact'
  <2>1. transfer.kept = Ignored
        /\ \A q \in Paths : q \notin transfer.todo \cup Ignored \cup touched => copy[q] = tree[q]
    BY DEF PushFile, MirrorInv, PushExact
  <2>2. \A q \in Paths : q \notin transfer'.todo \cup Ignored \cup touched' => copy'[q] = tree'[q]
    BY <1>2, <1>3, <2>1 DEF PushFile
  <2>3. transfer'.at \in {"git", "done"} => transfer'.todo = {}
    BY <1>2
  <2>4. transfer'.at = "done" => gitDir' = "repo"
    BY <1>2 DEF PushFile, AfterFiles
  <2> QED
    BY <1>2, <2>1, <2>2, <2>3, <2>4 DEF PushExact, PushFile
<1>7. PullSpares' /\ TrackedKept'
  BY <1>2 DEF PushFile, MirrorInv, PullSpares, TrackedKept
<1> QED
  BY <1>5, <1>6, <1>7 DEF MirrorInv

LEMMA PullKeeps ==
    ASSUME MirrorAssumption, MirrorInv, NEW p \in Paths, PullFile(p)
    PROVE  MirrorInv'
<1>1. transfer \in MirrorTransfer /\ copy \in Files /\ tree \in Files
  BY DEF MirrorInv, MirrorTypeOK, MirrorTransfer
<1>2. /\ transfer' \in MirrorTransfer
      /\ transfer'.op = transfer.op /\ transfer'.kept = transfer.kept
  BY <1>1, RestKeeps DEF PullFile
<1>3. /\ tree' \in Files /\ \A q \in Paths : q = p => p \notin transfer.kept \/ tree'[q] = tree[q]
      /\ \A q \in Paths \ {p} : tree'[q] = tree[q]
  BY <1>1 DEF PullFile, Files, Moves
<1>4. MirrorTypeOK'
  BY <1>2, <1>3 DEF PullFile, MirrorInv, MirrorTypeOK, MirrorTransfer
<1>5. TrackedKept'
  BY <1>3 DEF PullFile, MirrorInv, PullSpares, TrackedKept, MirrorAssumption
<1>6. PushExact' /\ PullSpares'
  BY <1>2 DEF PullFile, PushExact, PullSpares, MirrorInv
<1> QED
  BY <1>4, <1>5, <1>6 DEF MirrorInv

LEMMA InitRepoKeeps ==
    ASSUME MirrorInv, InitWorktreeGitRepo
    PROVE  MirrorInv'
<1>1. transfer \in MirrorTransfer
  BY DEF MirrorInv, MirrorTypeOK, MirrorTransfer
<1>2. /\ transfer' \in MirrorTransfer /\ transfer.op = "push" /\ transfer.at = "git"
      /\ transfer'.op = transfer.op /\ transfer'.kept = transfer.kept
      /\ transfer'.todo = transfer.todo /\ transfer'.at = "done"
  BY <1>1 DEF InitWorktreeGitRepo, Proceeds, MirrorTransfer
<1>3. MirrorTypeOK' /\ TrackedKept'
  BY <1>2 DEF InitWorktreeGitRepo, MirrorInv, MirrorTypeOK, MirrorTransfer, TrackedKept
<1>4. PushExact' /\ PullSpares'
  BY <1>2 DEF InitWorktreeGitRepo, MirrorInv, PushExact, PullSpares
<1> QED
  BY <1>3, <1>4 DEF MirrorInv

LEMMA MirrorInvNext == MirrorAssumption /\ MirrorInv /\ [NextMirror]_mirrorVars => MirrorInv'
<1> SUFFICES ASSUME MirrorAssumption, MirrorInv, [NextMirror]_mirrorVars PROVE MirrorInv'
  OBVIOUS
<1>1. CASE UNCHANGED mirrorVars
  BY <1>1 DEF mirrorVars, MirrorInv, MirrorTypeOK, PushExact, PullSpares, TrackedKept
<1>2. ASSUME NEW p \in Paths, PushFile(p) \/ PullFile(p) PROVE MirrorInv'
  BY <1>2, PushKeeps, PullKeeps
<1>3. ASSUME NEW p \in Paths, NEW c \in 0..Contents, EditTree(p, c) \/ EditCopy(p, c)
      PROVE  MirrorInv'
  BY <1>3, EditTreeKeeps, EditCopyKeeps
<1>4. CASE BeginPull \/ \E given, persist \in BOOLEAN : BeginPush(given, persist)
  BY <1>4, BeginKeepsMirror
<1>5. CASE EnsureRemoteRsync \/ Mkdir \/ ListExcluded \/ BreakOff
  BY <1>5, ProceedKeeps
<1>6. CASE InitWorktreeGitRepo
  BY <1>6, InitRepoKeeps
<1> QED
  BY <1>1, <1>2, <1>3, <1>4, <1>5, <1>6 DEF NextMirror

LEMMA MirrorInvHolds == MirrorInv => MirrorTypeOK /\ SyncedIsExact /\ TrackedKept
  BY DEF MirrorInv, PushExact, SyncedIsExact

-----------------------------------------------------------------------------
\* A push that says Synced left an exact copy of what nobody edited and a repository
\* around it, and no pull touches what the tree tracks and git ignores, for any files,
\* edits, transfers and breaks (RsyncSync, RsyncPull).
THEOREM MirrorsExact ==
    ASSUME MirrorAssumption
    PROVE  SpecMirror => [](MirrorTypeOK /\ SyncedIsExact /\ TrackedKept)
<1>1. InitMirror => MirrorInv
  BY MirrorInvInit
<1>2. MirrorInv /\ [NextMirror]_mirrorVars => MirrorInv'
  BY MirrorInvNext
<1>3. MirrorInv => MirrorTypeOK /\ SyncedIsExact /\ TrackedKept
  BY MirrorInvHolds
<1> QED
  BY <1>1, <1>2, <1>3, PTL DEF SpecMirror

-----------------------------------------------------------------------------
(***************************************************************************)
(* ProjectSetup: a config keeps the commands the user asked for, and steps *)
(* run in the workspace, for any processes that take turns.                *)
(***************************************************************************)

(* What a command that runs by itself knows of the file it rewrites.       *)

Saves == {"save", "saveEnv", "saveMarks"}
Writes == {"write", "writeEnv", "writeMarks"}
Between == {"done", "resolve", "sync", "run"}

\* A body and a command have their fields, whatever is in those.
BodyShaped(b) ==
    b = [cmds |-> b.cmds, remote |-> b.remote, bad |-> b.bad, org |-> b.org, env |-> b.env]
CommandShaped(r) ==
    r = [op |-> r.op, pc |-> r.pc, cfg |-> r.cfg, env |-> r.env, id |-> r.id]

ProjectShaped ==
    /\ configDisk = [state |-> configDisk.state, body |-> configDisk.body]
    /\ BodyShaped(configDisk.body)
    /\ active = [id |-> active.id, ws |-> active.ws] /\ active.ws \in BOOLEAN
    /\ DOMAIN chunk = Procs /\ chunk = [p \in Procs |-> chunk[p]]
    /\ \A p \in Procs : CommandShaped(chunk[p]) /\ BodyShaped(chunk[p].cfg)
    /\ \A p \in Procs : chunk[p].pc \in Saves \cup Writes \cup Between

\* Nothing breaks the file, and one command runs at a time.
ProjectSound ==
    /\ configDisk.state \in {"absent", "ok", "torn"} /\ configDisk.body.bad = FALSE
    /\ \A p \in Procs : chunk[p].cfg.bad = FALSE
    /\ \A p, q \in Procs : chunk[p].pc # "done" /\ chunk[q].pc # "done" => p = q

\* The commands the user wants are in the file, but while one is about to write it, and
\* then they are in what it writes.
WantedThere ==
    /\ (\A p \in Procs : chunk[p].pc \in Between) =>
          /\ configDisk.state # "torn" /\ wanted \subseteq configDisk.body.cmds
          /\ configDisk.state = "absent" => wanted = {}
    /\ \A p \in Procs : chunk[p].pc # "done" => wanted \subseteq chunk[p].cfg.cmds

\* A setup that was given no sidecar and syncs has a record of the one it uses, and one that
\* runs steps has a record of its workspace.
RecordThere ==
    ~Explicit =>
        /\ \A p \in Procs : /\ chunk[p].pc = "sync" => active.id # None
                            /\ chunk[p].pc = "run" => active.ws = TRUE
        /\ \A i \in DOMAIN trail : trail[i].inside = TRUE

ProjectInv == ProjectShaped /\ ProjectSound /\ WantedThere /\ RecordThere

-----------------------------------------------------------------------------
\* Edits of one command.
LEMMA CommandEdit ==
    ASSUME ProjectShaped, NEW p \in Procs, NEW r, chunk' = [chunk EXCEPT ![p] = r]
    PROVE  /\ DOMAIN chunk' = Procs /\ chunk' = [q \in Procs |-> chunk'[q]]
           /\ chunk'[p] = r /\ \A q \in Procs \ {p} : chunk'[q] = chunk[q]
  BY DEF ProjectShaped

LEMMA CommandGoesTo ==
    ASSUME ProjectShaped, NEW p \in Procs, NEW pc, NEW cfg, CommandGoes(p, pc, cfg)
    PROVE  /\ DOMAIN chunk' = Procs /\ chunk' = [q \in Procs |-> chunk'[q]]
           /\ \A q \in Procs \ {p} : chunk'[q] = chunk[q]
           /\ CommandShaped(chunk'[p]) /\ chunk'[p].pc = pc /\ chunk'[p].cfg = cfg
           /\ chunk'[p].op = chunk[p].op
<1> DEFINE r == [op |-> chunk[p].op, pc |-> pc, cfg |-> cfg, env |-> chunk[p].env,
                 id |-> chunk[p].id]
<1>1. chunk[p] = [op |-> chunk[p].op, pc |-> chunk[p].pc, cfg |-> chunk[p].cfg,
                  env |-> chunk[p].env, id |-> chunk[p].id]
  BY DEF ProjectShaped, CommandShaped
<1>2. [chunk[p] EXCEPT !.pc = pc] =
        [op |-> chunk[p].op, pc |-> pc, cfg |-> chunk[p].cfg,
                  env |-> chunk[p].env, id |-> chunk[p].id]
  BY <1>1
<1>3. chunk' = [chunk EXCEPT ![p] = r]
  <2>1. DOMAIN chunk = Procs /\ chunk = [q \in Procs |-> chunk[q]]
    BY DEF ProjectShaped
  <2> DEFINE c == [chunk EXCEPT ![p].pc = pc]
  <2>2. /\ DOMAIN c = Procs /\ c = [q \in Procs |-> c[q]]
        /\ c[p] = [op |-> chunk[p].op, pc |-> pc, cfg |-> chunk[p].cfg,
                  env |-> chunk[p].env, id |-> chunk[p].id]
        /\ \A q \in Procs \ {p} : c[q] = chunk[q]
    BY <1>1, <2>1
  <2>3. chunk' = [c EXCEPT ![p].cfg = cfg]
    BY DEF CommandGoes
  <2> HIDE DEF c
  <2>4. [c[p] EXCEPT !.cfg = cfg] = r
    BY <2>2
  <2>5. chunk' = [c EXCEPT ![p] = [c[p] EXCEPT !.cfg = cfg]]
    BY <2>2, <2>3
  <2>6. chunk' = [c EXCEPT ![p] = r]
    BY <2>4, <2>5
  <2> QED
    BY <2>1, <2>2, <2>6
<1>4. CommandShaped(r) /\ r.pc = pc /\ r.cfg = cfg /\ r.op = chunk[p].op
  BY DEF CommandShaped
<1> HIDE DEF r
<1> QED
  BY <1>3, <1>4, CommandEdit

LEMMA CommandOver ==
    ASSUME ProjectShaped, NEW p \in Procs, CommandEnds(p)
    PROVE  /\ DOMAIN chunk' = Procs /\ chunk' = [q \in Procs |-> chunk'[q]]
           /\ \A q \in Procs \ {p} : chunk'[q] = chunk[q]
           /\ CommandShaped(chunk'[p]) /\ chunk'[p].pc = "done" /\ BodyShaped(chunk'[p].cfg)
           /\ chunk'[p].cfg.bad = FALSE
<1>1. chunk' = [chunk EXCEPT ![p] = NoCommand]
  BY DEF CommandEnds
<1>2. CommandShaped(NoCommand) /\ NoCommand.pc = "done" /\ BodyShaped(NoCommand.cfg)
      /\ NoCommand.cfg.bad = FALSE
  BY DEF CommandShaped, BodyShaped, NoCommand, FreshConfig
<1> QED
  BY <1>1, <1>2, CommandEdit

LEMMA FreshShaped ==
    /\ BodyShaped(FreshConfig) /\ FreshConfig.bad = FALSE /\ FreshConfig.cmds = {}
    /\ FreshConfig.env = <<>>
  BY DEF BodyShaped, FreshConfig

LEMMA ProjectInvInit == InitProjectSetup => ProjectInv
<1> SUFFICES ASSUME InitProjectSetup PROVE ProjectInv
  OBVIOUS
<1>1. /\ CommandShaped(NoCommand) /\ BodyShaped(NoCommand.cfg) /\ NoCommand.pc = "done"
      /\ NoCommand.cfg.bad = FALSE
  BY DEF NoCommand, CommandShaped, BodyShaped, FreshConfig
<1>2. ProjectShaped
  BY <1>1, FreshShaped DEF InitProjectSetup, ProjectShaped, NoRecord, Saves, Writes, Between
<1>3. ProjectSound
  BY <1>1, FreshShaped DEF InitProjectSetup, ProjectSound
<1>4. WantedThere
  BY <1>1 DEF InitProjectSetup, WantedThere
<1>5. RecordThere
  BY <1>1 DEF InitProjectSetup, RecordThere
<1> QED
  BY <1>2, <1>3, <1>4, <1>5 DEF ProjectInv

-----------------------------------------------------------------------------
\* A command that begins: with others at rest, the file holds what is wanted.
LEMMA TurnSettled ==
    ASSUME ProjectInv, Alone, Turn
    PROVE  /\ \A p \in Procs : chunk[p].pc = "done"
           /\ configDisk.state # "torn" /\ wanted \subseteq configDisk.body.cmds
           /\ configDisk.state = "absent" => wanted = {}
  BY DEF Turn, Quiet, ProjectInv, WantedThere, Between

LEMMA OrFreshHolds ==
    ASSUME ProjectInv, Alone, Turn
    PROVE  /\ BodyShaped(OrFresh) /\ OrFresh.bad = FALSE /\ wanted \subseteq OrFresh.cmds
           /\ BodyShaped(LoadedConfig) /\ LoadedConfig.bad = FALSE
           /\ Loads => wanted \subseteq LoadedConfig.cmds
           /\ ~Loads => wanted = {}
           /\ ~Loads => OrFresh = FreshConfig
           /\ Loads => OrFresh = LoadedConfig /\ LoadedConfig.cmds = configDisk.body.cmds
<1> DEFINE b == configDisk.body
           e == ForConfig(configDisk.body.env)
<1>1. b = [cmds |-> b.cmds, remote |-> b.remote, bad |-> b.bad, org |-> b.org, env |-> b.env]
  BY DEF ProjectInv, ProjectShaped, BodyShaped
<1>2. LoadedConfig = [cmds |-> b.cmds, remote |-> b.remote, bad |-> b.bad, org |-> b.org, env |-> e]
  <2>1. LoadedConfig = [configDisk.body EXCEPT !.env = e]
    BY DEF LoadedConfig
  <2> HIDE DEF e
  <2> QED
    BY <1>1, <2>1
<1> HIDE DEF e
<1>3. /\ BodyShaped(LoadedConfig) /\ LoadedConfig.bad = FALSE
      /\ LoadedConfig.cmds = configDisk.body.cmds
  BY <1>2 DEF BodyShaped, ProjectInv, ProjectSound
<1>4. ~Loads => wanted = {}
  <2> SUFFICES ASSUME ~Loads PROVE wanted = {}
    OBVIOUS
  <2>1. configDisk.state # "ok"
    BY DEF Loads, ProjectInv, ProjectSound
  <2> QED
    BY <2>1, TurnSettled DEF ProjectInv, ProjectSound
<1>5. wanted \subseteq configDisk.body.cmds
  BY TurnSettled
<1>6. CASE Loads
  BY <1>3, <1>5, <1>6 DEF OrFresh
<1>7. CASE ~Loads
  BY <1>3, <1>4, <1>7, FreshShaped DEF OrFresh
<1> QED
  BY <1>6, <1>7

\* A command that begins with a configuration that holds what is wanted keeps the
\* invariant, if the file is settled or is about to be written.
LEMMA BeginsKeeps ==
    ASSUME ProjectInv, Alone, Turn, NEW p \in Procs, NEW r, CommandShaped(r),
           BodyShaped(r.cfg), r.cfg.bad = FALSE, r.pc \in Saves \cup {"resolve"},
           wanted' \subseteq r.cfg.cmds,
           r.pc = "resolve" => wanted' = wanted,
           chunk' = [chunk EXCEPT ![p] = r],
           UNCHANGED <<configDisk, active, trail>>
    PROVE  ProjectInv'
<1>1. /\ DOMAIN chunk' = Procs /\ chunk' = [q \in Procs |-> chunk'[q]]
      /\ chunk'[p] = r /\ \A q \in Procs \ {p} : chunk'[q] = chunk[q]
  BY CommandEdit DEF ProjectInv
<1>2. /\ \A q \in Procs : chunk[q].pc = "done"
      /\ configDisk.state # "torn" /\ wanted \subseteq configDisk.body.cmds
      /\ configDisk.state = "absent" => wanted = {}
  BY TurnSettled
<1>3. ProjectShaped'
  BY <1>1 DEF ProjectInv, ProjectShaped, BodyShaped, CommandShaped, Saves, Between
<1>4. ProjectSound'
  BY <1>1, <1>2 DEF ProjectInv, ProjectSound
<1>5. r.pc \notin Between \/ r.pc = "resolve"
  BY DEF Saves, Between
<1>6. WantedThere'
  BY <1>1, <1>2, <1>5 DEF WantedThere
<1>7. RecordThere'
  BY <1>1 DEF ProjectInv, RecordThere, Saves
<1> QED
  BY <1>3, <1>4, <1>6, <1>7 DEF ProjectInv

LEMMA StartKeeps ==
    ASSUME ProjectInv, Alone, NEW p \in Procs, NEW op, NEW pc, NEW cfg, NEW more,
           CommandStarts(p, op, pc, cfg, more),
           BodyShaped(cfg), cfg.bad = FALSE, pc \in Saves \/ (pc = "resolve" /\ more = {}),
           Turn => wanted \cup more \subseteq cfg.cmds
    PROVE  ProjectInv'
<1> DEFINE r == [op |-> op, pc |-> pc, cfg |-> cfg, env |-> cfg.env, id |-> None]
<1>1. Turn /\ chunk' = [chunk EXCEPT ![p] = r] /\ wanted' = wanted \cup more
      /\ UNCHANGED <<configDisk, active, trail>>
  BY DEF CommandStarts
<1>2. CommandShaped(r) /\ r.cfg = cfg /\ r.pc = pc
  BY DEF CommandShaped
<1> HIDE DEF r
<1>3. r.pc \in Saves \cup {"resolve"} /\ (r.pc = "resolve" => wanted' = wanted)
  BY <1>1, <1>2 DEF Saves
<1>4. wanted' \subseteq r.cfg.cmds
  BY <1>1, <1>2
<1> QED
  BY <1>1, <1>2, <1>3, <1>4, BeginsKeeps

\* A configuration with other fields set has the same shape.
LEMMA BodyEdits ==
    ASSUME NEW b, BodyShaped(b), NEW v
    PROVE  /\ BodyShaped([b EXCEPT !.org = v]) /\ [b EXCEPT !.org = v].bad = b.bad
           /\ [b EXCEPT !.org = v].cmds = b.cmds
           /\ BodyShaped([b EXCEPT !.env = v]) /\ [b EXCEPT !.env = v].bad = b.bad
           /\ [b EXCEPT !.env = v].cmds = b.cmds
           /\ BodyShaped([b EXCEPT !.remote = v]) /\ [b EXCEPT !.remote = v].bad = b.bad
           /\ [b EXCEPT !.remote = v].cmds = b.cmds
<1>1. b = [cmds |-> b.cmds, remote |-> b.remote, bad |-> b.bad, org |-> b.org, env |-> b.env]
  BY DEF BodyShaped
<1>2. /\ [b EXCEPT !.org = v] = [cmds |-> b.cmds, remote |-> b.remote, bad |-> b.bad, org |-> v, env |-> b.env]
      /\ [b EXCEPT !.env = v] = [cmds |-> b.cmds, remote |-> b.remote, bad |-> b.bad, org |-> b.org, env |-> v]
      /\ [b EXCEPT !.remote = v] = [cmds |-> b.cmds, remote |-> v, bad |-> b.bad, org |-> b.org, env |-> b.env]
  BY <1>1
<1> QED
  BY <1>2 DEF BodyShaped

LEMMA CmdsEdited ==
    ASSUME NEW b, BodyShaped(b), NEW v
    PROVE  /\ BodyShaped([b EXCEPT !.cmds = v]) /\ [b EXCEPT !.cmds = v].bad = b.bad
           /\ [b EXCEPT !.cmds = v].cmds = v
<1>1. b = [cmds |-> b.cmds, remote |-> b.remote, bad |-> b.bad, org |-> b.org, env |-> b.env]
  BY DEF BodyShaped
<1>2. [b EXCEPT !.cmds = v]
         = [cmds |-> v, remote |-> b.remote, bad |-> b.bad, org |-> b.org, env |-> b.env]
  BY <1>1
<1> QED
  BY <1>2 DEF BodyShaped

LEMMA EditKeeps ==
    ASSUME ProjectInv, Alone, ~Breaks, EditConfig
    PROVE  ProjectInv'
<1>1. PICK cs, bad, state :
          /\ bad \in {b \in BOOLEAN : b => Breaks}
          /\ state \in {x \in {"ok", "broken"} : x = "broken" => Breaks}
          /\ configDisk' = [state |-> state,
                      body |-> [configDisk.body EXCEPT
                                  !.cmds = cs, !.remote = @ \cap cs, !.bad = bad,
                                  !.env = IF Len(@) > 0 THEN Detected ELSE @]]
          /\ wanted' = cs
  BY DEF EditConfig
<1> DEFINE rm == configDisk.body.remote \cap cs
           ev == IF Len(configDisk.body.env) > 0 THEN Detected ELSE configDisk.body.env
           nb == [configDisk.body EXCEPT !.cmds = cs, !.remote = rm, !.bad = bad, !.env = ev]
<1>2. bad = FALSE /\ state = "ok"
  BY <1>1
<1>3. configDisk' = [state |-> state, body |-> nb] /\ wanted' = cs
  BY <1>1
<1> HIDE DEF rm, ev
<1>4. BodyShaped(nb) /\ nb.cmds = cs /\ nb.bad = bad
  <2>1. BodyShaped(configDisk.body)
    BY DEF ProjectInv, ProjectShaped
  <2>2. nb = [cmds |-> cs, remote |-> rm, bad |-> bad, org |-> configDisk.body.org, env |-> ev]
    <3> DEFINE b == configDisk.body
               b1 == [cmds |-> cs, remote |-> b.remote, bad |-> b.bad, org |-> b.org, env |-> b.env]
               b2 == [cmds |-> cs, remote |-> rm, bad |-> b.bad, org |-> b.org, env |-> b.env]
               b3 == [cmds |-> cs, remote |-> rm, bad |-> bad, org |-> b.org, env |-> b.env]
               b4 == [cmds |-> cs, remote |-> rm, bad |-> bad, org |-> b.org, env |-> ev]
    <3>1. b = [cmds |-> b.cmds, remote |-> b.remote, bad |-> b.bad, org |-> b.org, env |-> b.env]
      BY <2>1 DEF BodyShaped
    <3>2. [b EXCEPT !.cmds = cs] = b1
      BY <3>1
    <3>3. [b1 EXCEPT !.remote = rm] = b2
      OBVIOUS
    <3>4. [b2 EXCEPT !.bad = bad] = b3
      OBVIOUS
    <3>5. [b3 EXCEPT !.env = ev] = b4
      OBVIOUS
    <3>6. nb = [[[[b EXCEPT !.cmds = cs] EXCEPT !.remote = rm] EXCEPT !.bad = bad] EXCEPT !.env = ev]
      OBVIOUS
    <3> HIDE DEF nb, b1, b2, b3, b4
    <3> QED
      BY <3>2, <3>3, <3>4, <3>5, <3>6 DEF b4
  <2> HIDE DEF nb
  <2> QED
    BY <2>2 DEF BodyShaped
<1> HIDE DEF nb
<1>5. UNCHANGED <<chunk, active, trail>> /\ Turn
  BY DEF EditConfig
<1>6. \A p \in Procs : chunk[p].pc = "done"
  BY <1>5, TurnSettled
<1>7. ProjectShaped'
  BY <1>3, <1>4, <1>5 DEF ProjectInv, ProjectShaped
<1>8. ProjectSound'
  BY <1>2, <1>3, <1>4, <1>5 DEF ProjectInv, ProjectSound
<1>9. WantedThere'
  <2>1. configDisk'.state = "ok" /\ configDisk'.body.cmds = wanted'
    BY <1>2, <1>3, <1>4
  <2>2. \A p \in Procs : chunk'[p].pc = "done"
    BY <1>5, <1>6
  <2> QED
    BY <2>1, <2>2 DEF WantedThere
<1>10. RecordThere'
  BY <1>5 DEF ProjectInv, RecordThere
<1> QED
  BY <1>7, <1>8, <1>9, <1>10 DEF ProjectInv

LEMMA ForgetRecordKeeps ==
    ASSUME ProjectInv, Alone, ForgetActive
    PROVE  ProjectInv'
<1>1. /\ UNCHANGED <<configDisk, wanted, chunk, trail>> /\ active' = NoRecord /\ Turn
      /\ active' = [id |-> None, ws |-> FALSE]
  BY DEF ForgetActive, NoRecord
<1>2. \A p \in Procs : chunk[p].pc = "done"
  BY <1>1, TurnSettled
<1>3. active' = [id |-> active'.id, ws |-> active'.ws] /\ active'.ws \in BOOLEAN
  BY <1>1
<1>4. ProjectShaped'
  BY <1>1, <1>3 DEF ProjectInv, ProjectShaped
<1>5. ProjectSound' /\ WantedThere'
  BY <1>1 DEF ProjectInv, ProjectSound, WantedThere
<1>6. RecordThere'
  BY <1>1, <1>2 DEF ProjectInv, RecordThere
<1> QED
  BY <1>4, <1>5, <1>6 DEF ProjectInv

\* A process at one of its steps is the only one.
LEMMA OnlyOne ==
    ASSUME ProjectInv, NEW p \in Procs, chunk[p].pc # "done"
    PROVE  \A q \in Procs \ {p} : chunk[q].pc = "done"
  BY DEF ProjectInv, ProjectSound

\* The file is torn while it is written, and then holds what is wanted.
LEMMA TruncateKeeps ==
    ASSUME ProjectInv, NEW p \in Procs, Truncate(p)
    PROVE  ProjectInv'
<1> DEFINE writes == [save |-> "write", saveEnv |-> "writeEnv", saveMarks |-> "writeMarks"]
           pc == writes[chunk[p].pc]
<1>1. chunk[p].pc \in Saves /\ pc \in Writes
  BY DEF Truncate, Saves, Writes
<1>2. /\ CommandGoes(p, pc, chunk[p].cfg) /\ UNCHANGED <<wanted, active, trail>>
      /\ configDisk' = [state |-> "torn", body |-> FreshConfig]
  BY DEF Truncate
<1> HIDE DEF pc
<1>3. /\ DOMAIN chunk' = Procs /\ chunk' = [q \in Procs |-> chunk'[q]]
      /\ \A q \in Procs \ {p} : chunk'[q] = chunk[q]
      /\ CommandShaped(chunk'[p]) /\ chunk'[p].pc = pc /\ chunk'[p].cfg = chunk[p].cfg
  BY <1>2, CommandGoesTo DEF ProjectInv
<1>4. ProjectShaped'
  BY <1>1, <1>2, <1>3, FreshShaped DEF ProjectInv, ProjectShaped
<1>5. /\ pc \notin Between /\ pc # "done" /\ chunk[p].pc # "done"
      /\ pc # "sync" /\ pc # "run"
  BY <1>1 DEF Writes, Saves, Between
<1>6. ProjectSound'
  BY <1>2, <1>3, <1>5, FreshShaped DEF ProjectInv, ProjectSound
<1>7. WantedThere'
  BY <1>2, <1>3, <1>5 DEF ProjectInv, WantedThere
<1>8. RecordThere'
  BY <1>2, <1>3, <1>5 DEF ProjectInv, RecordThere
<1> QED
  BY <1>4, <1>6, <1>7, <1>8 DEF ProjectInv

LEMMA WriteBodyKeeps ==
    ASSUME ProjectInv, NEW p \in Procs, WriteBody(p)
    PROVE  ProjectInv'
<1>1. /\ chunk[p].pc \in Writes /\ UNCHANGED <<wanted, active, trail>>
      /\ configDisk' = [state |-> "ok", body |-> chunk[p].cfg]
      /\ CommandGoes(p, "resolve", chunk[p].cfg) \/ CommandEnds(p)
  BY DEF WriteBody, Writes
<1>2. /\ BodyShaped(chunk[p].cfg) /\ chunk[p].cfg.bad = FALSE
      /\ chunk[p].pc # "done" /\ wanted \subseteq chunk[p].cfg.cmds
  BY <1>1 DEF ProjectInv, ProjectShaped, ProjectSound, WantedThere, Writes
<1>3. /\ DOMAIN chunk' = Procs /\ chunk' = [q \in Procs |-> chunk'[q]]
      /\ \A q \in Procs \ {p} : chunk'[q] = chunk[q]
      /\ CommandShaped(chunk'[p]) /\ chunk'[p].pc \in {"resolve", "done"}
      /\ BodyShaped(chunk'[p].cfg) /\ chunk'[p].cfg.bad = FALSE
      /\ chunk'[p].pc # "done" => chunk'[p].cfg = chunk[p].cfg
  <2>1. CASE CommandGoes(p, "resolve", chunk[p].cfg)
    BY <1>2, <2>1, CommandGoesTo DEF ProjectInv
  <2>2. CASE CommandEnds(p)
    BY <2>2, CommandOver DEF ProjectInv
  <2> QED
    BY <1>1, <2>1, <2>2
<1>4. \A q \in Procs \ {p} : chunk[q].pc = "done"
  BY <1>2, OnlyOne
<1>5. ProjectShaped'
  BY <1>1, <1>2, <1>3 DEF ProjectInv, ProjectShaped, Between
<1>6. ProjectSound'
  BY <1>1, <1>2, <1>3, <1>4 DEF ProjectInv, ProjectSound
<1>7. WantedThere'
  BY <1>1, <1>2, <1>3, <1>4 DEF ProjectInv, WantedThere
<1>8. RecordThere'
  BY <1>1, <1>3 DEF ProjectInv, RecordThere
<1> QED
  BY <1>5, <1>6, <1>7, <1>8 DEF ProjectInv

LEMMA SetKeeps ==
    ASSUME ProjectInv, Alone, NEW p \in Procs, ConfigSet(p) \/ PersistOrg(p)
    PROVE  ProjectInv'
<1> DEFINE cfg == [OrFresh EXCEPT !.org = TRUE]
<1>1. Turn /\ (CommandStarts(p, "set", "save", cfg, {}) \/ CommandStarts(p, "org", "save", cfg, {}))
  BY DEF ConfigSet, PersistOrg, CommandStarts
<1>2. BodyShaped(cfg) /\ cfg.bad = FALSE /\ wanted \cup {} \subseteq cfg.cmds
  <2>1. BodyShaped(OrFresh) /\ OrFresh.bad = FALSE /\ wanted \subseteq OrFresh.cmds
    BY <1>1, OrFreshHolds
  <2>2. BodyShaped(cfg) /\ cfg.bad = OrFresh.bad /\ cfg.cmds = OrFresh.cmds
    BY <2>1, BodyEdits
  <2> QED
    BY <2>1, <2>2
<1> HIDE DEF cfg
<1>3. "save" \in Saves
  BY DEF Saves
<1> QED
  BY <1>1, <1>2, <1>3, StartKeeps

LEMMA SaveCommandKeeps ==
    ASSUME ProjectInv, Alone, NEW p \in Procs, SaveCommand(p)
    PROVE  ProjectInv'
<1>1. PICK c \in Named :
          CommandStarts(p, "command", "save", [OrFresh EXCEPT !.cmds = OrFresh.cmds \cup {c}], {c})
  BY DEF SaveCommand
<1> DEFINE more == OrFresh.cmds \cup {c}
           cfg == [OrFresh EXCEPT !.cmds = more]
<1>2. Turn /\ CommandStarts(p, "command", "save", cfg, {c})
  BY <1>1 DEF CommandStarts
<1>3. BodyShaped(cfg) /\ cfg.bad = FALSE /\ wanted \cup {c} \subseteq cfg.cmds
  <2>1. BodyShaped(OrFresh) /\ OrFresh.bad = FALSE /\ wanted \subseteq OrFresh.cmds
    BY <1>2, OrFreshHolds
  <2>2. wanted \cup {c} \subseteq more
    BY <2>1
  <2> HIDE DEF more
  <2>3. BodyShaped(cfg) /\ cfg.bad = OrFresh.bad /\ cfg.cmds = more
    BY <2>1, CmdsEdited
  <2> QED
    BY <2>1, <2>2, <2>3
<1> HIDE DEF cfg
<1>4. "save" \in Saves
  BY DEF Saves
<1> QED
  BY <1>2, <1>3, <1>4, StartKeeps

LEMMA EnvKeeps ==
    ASSUME ProjectInv, Alone, NEW p \in Procs, SidecarEnv(p)
    PROVE  ProjectInv'
<1> DEFINE env == ForConfig(Detected)
           cfg == [OrFresh EXCEPT !.env = env]
<1>1. Turn /\ CommandStarts(p, "env", "saveEnv", cfg, {})
  BY DEF SidecarEnv, CommandStarts
<1>2. BodyShaped(cfg) /\ cfg.bad = FALSE /\ wanted \cup {} \subseteq cfg.cmds
  <2>1. BodyShaped(OrFresh) /\ OrFresh.bad = FALSE /\ wanted \subseteq OrFresh.cmds
    BY <1>1, OrFreshHolds
  <2> HIDE DEF env
  <2>2. BodyShaped(cfg) /\ cfg.bad = OrFresh.bad /\ cfg.cmds = OrFresh.cmds
    BY <2>1, BodyEdits
  <2> QED
    BY <2>1, <2>2
<1> HIDE DEF cfg
<1>3. "saveEnv" \in Saves
  BY DEF Saves
<1> QED
  BY <1>1, <1>2, <1>3, StartKeeps

LEMMA MarkKeeps ==
    ASSUME ProjectInv, Alone, NEW p \in Procs, MarkRemote(p)
    PROVE  ProjectInv'
<1>1. PICK c : CommandStarts(p, "mark", "save",
                      [LoadedConfig EXCEPT !.remote = LoadedConfig.remote \cup {c}], {})
  BY DEF MarkRemote
<1> DEFINE rm == LoadedConfig.remote \cup {c}
           cfg == [LoadedConfig EXCEPT !.remote = rm]
<1>2. Turn /\ Loads /\ CommandStarts(p, "mark", "save", cfg, {})
  BY <1>1 DEF CommandStarts, MarkRemote
<1>3. BodyShaped(cfg) /\ cfg.bad = FALSE /\ wanted \cup {} \subseteq cfg.cmds
  <2>1. BodyShaped(LoadedConfig) /\ LoadedConfig.bad = FALSE /\ wanted \subseteq LoadedConfig.cmds
    BY <1>2, OrFreshHolds
  <2> HIDE DEF rm
  <2>2. BodyShaped(cfg) /\ cfg.bad = LoadedConfig.bad /\ cfg.cmds = LoadedConfig.cmds
    BY <2>1, BodyEdits
  <2> QED
    BY <2>1, <2>2
<1> HIDE DEF cfg
<1>4. "save" \in Saves
  BY DEF Saves
<1> QED
  BY <1>2, <1>3, <1>4, StartKeeps

\* A plain init finds nothing that is wanted; a forced one starts from the file.
LEMMA InitKeeps ==
    ASSUME ProjectInv, Alone, NEW p \in Procs, InitProject(p)
    PROVE  ProjectInv'
<1>1. PICK force \in BOOLEAN, skip \in BOOLEAN :
        /\ HasData => force
        /\ LET cfg == IF skip THEN [Seed(force) EXCEPT !.org = TRUE]
                      ELSE [Seed(force) EXCEPT !.cmds = Found, !.remote = {}, !.org = TRUE]
           IN  /\ chunk[p].pc = "done" /\ Turn
               /\ chunk' = [chunk EXCEPT ![p] =
                     [op |-> IF force THEN "force" ELSE "init", pc |-> "save", cfg |-> cfg,
                      env |-> <<>>, id |-> None]]
               /\ wanted' = IF skip THEN wanted ELSE IF force THEN Found ELSE wanted \cup Found
  BY DEF InitProject
<1> DEFINE cfg == IF skip THEN [Seed(force) EXCEPT !.org = TRUE]
                  ELSE [Seed(force) EXCEPT !.cmds = Found, !.remote = {}, !.org = TRUE]
           op == IF force THEN "force" ELSE "init"
           r == [op |-> op, pc |-> "save", cfg |-> cfg, env |-> <<>>, id |-> None]
<1>2. Turn /\ chunk' = [chunk EXCEPT ![p] = r]
  BY <1>1
<1>3. /\ BodyShaped(Seed(force)) /\ Seed(force).bad = FALSE
      /\ wanted \subseteq Seed(force).cmds
  <2>1. CASE force /\ Loads
    BY <1>2, <2>1, OrFreshHolds DEF Seed
  <2>2. CASE ~(force /\ Loads)
    <3>1. Seed(force) = FreshConfig
      BY <2>2 DEF Seed
    <3>2. wanted = {}
      <4>1. CASE ~Loads
        BY <1>2, <4>1, OrFreshHolds
      <4>2. CASE Loads
        <5>1. configDisk.body.cmds = {}
          BY <1>1, <2>2, <4>2 DEF HasData
        <5> QED
          BY <1>2, <5>1, TurnSettled
      <4> QED
        BY <4>1, <4>2
    <3> QED
      BY <3>1, <3>2, FreshShaped
  <2> QED
    BY <2>1, <2>2
<1>4. BodyShaped(cfg) /\ cfg.bad = FALSE
      /\ (skip => cfg.cmds = Seed(force).cmds) /\ (~skip => cfg.cmds = Found)
  <2>1. CASE skip
    <3>1. cfg = [Seed(force) EXCEPT !.org = TRUE]
      BY <2>1
    <3> HIDE DEF cfg
    <3> QED
      BY <1>3, <2>1, <3>1, BodyEdits
  <2>2. CASE ~skip
    <3>1. cfg = [Seed(force) EXCEPT !.cmds = Found, !.remote = {}, !.org = TRUE]
      BY <2>2
    <3> HIDE DEF cfg
    <3> DEFINE b == Seed(force)
               nobody == {}
               yes == TRUE
    <3>2. BodyShaped(b) /\ b.bad = FALSE
      BY <1>3
    <3>3. cfg = [b EXCEPT !.cmds = Found, !.remote = nobody, !.org = yes]
      BY <3>1
    <3> HIDE DEF b, nobody, yes
    <3> DEFINE b1 == [b EXCEPT !.cmds = Found]
               b2 == [b1 EXCEPT !.remote = nobody]
    <3>4. cfg = [b2 EXCEPT !.org = yes]
      BY <3>3
    <3>5. BodyShaped(b1) /\ b1.bad = b.bad /\ b1.cmds = Found
      BY <3>2, CmdsEdited
    <3> HIDE DEF b1
    <3>6. BodyShaped(b2) /\ b2.bad = b1.bad /\ b2.cmds = b1.cmds
      BY <3>5, BodyEdits
    <3> HIDE DEF b2
    <3>7. BodyShaped(cfg) /\ cfg.bad = b2.bad /\ cfg.cmds = b2.cmds
      BY <3>4, <3>6, BodyEdits
    <3> QED
      BY <3>2, <3>5, <3>6, <3>7, <2>2
  <2> QED
    BY <2>1, <2>2
<1>5. wanted' \subseteq cfg.cmds
  <2>1. wanted \subseteq {} \/ force \/ wanted \subseteq {}
    <3>1. CASE ~force
      BY <1>3, <3>1, FreshShaped DEF Seed
    <3> QED
      BY <3>1
  <2> HIDE DEF cfg
  <2> QED
    BY <1>1, <1>3, <1>4, <2>1
<1> HIDE DEF cfg, op
<1>6. CommandShaped(r) /\ r.cfg = cfg /\ r.pc = "save"
  BY DEF CommandShaped
<1>7. r.pc \in Saves \cup {"resolve"} /\ r.pc # "resolve"
  BY <1>6 DEF Saves
<1> HIDE DEF r
<1> QED
  BY <1>2, <1>4, <1>5, <1>6, <1>7, BeginsKeeps DEF InitProject

LEMMA StartSetupKeeps ==
    ASSUME ProjectInv, Alone, NEW p \in Procs, StartSetup(p)
    PROVE  ProjectInv'
<1>1. CASE CommandStarts(p, "setup", "resolve", OrFresh, {})
  <2>1. Turn => BodyShaped(OrFresh) /\ OrFresh.bad = FALSE /\ wanted \cup {} \subseteq OrFresh.cmds
    BY OrFreshHolds
  <2>2. Turn
    BY <1>1 DEF CommandStarts
  <2> QED
    BY <1>1, <2>1, <2>2, StartKeeps
<1>2. CASE ~CommandStarts(p, "setup", "resolve", OrFresh, {})
  <2> DEFINE env == ForConfig(Detected)
             cfg == [OrFresh EXCEPT !.env = env]
             r == [op |-> "setup", pc |-> "saveEnv", env |-> Detected, id |-> None, cfg |-> cfg]
  <2>1. Turn /\ chunk' = [chunk EXCEPT ![p] = r] /\ UNCHANGED <<configDisk, wanted, active, trail>>
    BY <1>2 DEF StartSetup
  <2>2. BodyShaped(cfg) /\ cfg.bad = FALSE /\ wanted \subseteq cfg.cmds
    <3>1. BodyShaped(OrFresh) /\ OrFresh.bad = FALSE /\ wanted \subseteq OrFresh.cmds
      BY <2>1, OrFreshHolds
    <3> HIDE DEF env
    <3>2. BodyShaped(cfg) /\ cfg.bad = OrFresh.bad /\ cfg.cmds = OrFresh.cmds
      BY <3>1, BodyEdits
    <3> QED
      BY <3>1, <3>2
  <2> HIDE DEF cfg
  <2>3. CommandShaped(r) /\ r.cfg = cfg /\ r.pc = "saveEnv"
    BY DEF CommandShaped
  <2>4. r.pc \in Saves \cup {"resolve"} /\ r.pc # "resolve"
    BY <2>3 DEF Saves
  <2> HIDE DEF r
  <2> QED
    BY <2>1, <2>2, <2>3, <2>4, BeginsKeeps
<1> QED
  BY <1>1, <1>2

\* A setup that goes on between two saves, or ends.
LEMMA SetupMoves ==
    ASSUME ProjectInv, NEW p \in Procs, chunk[p].pc \in Between, chunk[p].pc # "done",
           UNCHANGED <<configDisk, wanted>>,
           DOMAIN chunk' = Procs, chunk' = [q \in Procs |-> chunk'[q]],
           \A q \in Procs \ {p} : chunk'[q] = chunk[q],
           CommandShaped(chunk'[p]), BodyShaped(chunk'[p].cfg), chunk'[p].cfg.bad = FALSE,
           chunk'[p].pc \in Between \cup {"saveMarks"},
           chunk'[p].pc # "done" => chunk'[p].cfg.cmds = chunk[p].cfg.cmds,
           active' = [id |-> active'.id, ws |-> active'.ws], active'.ws \in BOOLEAN,
           ~Explicit /\ chunk'[p].pc = "sync" => active'.id # None,
           ~Explicit /\ chunk'[p].pc = "run" => active'.ws = TRUE,
           ~Explicit => \A i \in DOMAIN trail' : trail'[i].inside = TRUE
    PROVE  ProjectInv'
<1>1. \A q \in Procs \ {p} : chunk[q].pc = "done"
  BY OnlyOne
<1>2. ProjectShaped'
  BY DEF ProjectInv, ProjectShaped, BodyShaped, Between, Saves
<1>3. ProjectSound'
  BY <1>1 DEF ProjectInv, ProjectSound
<1>4. \A q \in Procs : chunk[q].pc \in Between
  BY <1>1 DEF Between
<1>5. WantedThere'
  BY <1>1, <1>4 DEF ProjectInv, WantedThere
<1>6. RecordThere'
  BY <1>1 DEF RecordThere
<1> QED
  BY <1>2, <1>3, <1>5, <1>6 DEF ProjectInv

LEMMA ResolveKeeps ==
    ASSUME NamesAssumption, ProjectInv, NEW p \in Procs, ResolveSandbox(p)
    PROVE  ProjectInv'
<1>1. PICK s \in Sandboxes, given \in {g \in BOOLEAN : g => Explicit} :
          /\ given \/ active.id = s \/ (active.id = None /\ s \notin holders)
          /\ chunk' = [chunk EXCEPT ![p].pc = "sync", ![p].id = s]
          /\ active' = IF given \/ active.id = s THEN active ELSE [id |-> s, ws |-> FALSE]
  BY DEF ResolveSandbox
<1>2. active = [id |-> active.id, ws |-> active.ws] /\ active.ws \in BOOLEAN
  BY DEF ProjectInv, ProjectShaped
<1>3. active' = [id |-> active'.id, ws |-> active'.ws] /\ active'.ws \in BOOLEAN
  <2>1. CASE active' = active
    BY <1>2, <2>1
  <2>2. CASE active' = [id |-> s, ws |-> FALSE]
    BY <2>2
  <2> QED
    BY <1>1, <2>1, <2>2
<1>4. ~Explicit => active'.id # None
  <2> SUFFICES ASSUME ~Explicit PROVE active'.id = s
    BY DEF NamesAssumption
  <2>1. given = FALSE
    OBVIOUS
  <2> QED
    BY <1>1, <2>1
<1>5. /\ DOMAIN chunk' = Procs /\ chunk' = [q \in Procs |-> chunk'[q]]
      /\ \A q \in Procs \ {p} : chunk'[q] = chunk[q]
      /\ CommandShaped(chunk'[p]) /\ chunk'[p].pc = "sync" /\ chunk'[p].cfg = chunk[p].cfg
  <2> DEFINE c == chunk[p]
             c1 == [op |-> c.op, pc |-> "sync", cfg |-> c.cfg, env |-> c.env, id |-> c.id]
             c2 == [op |-> c.op, pc |-> "sync", cfg |-> c.cfg, env |-> c.env, id |-> s]
             d == [chunk EXCEPT ![p].pc = "sync"]
  <2>1. DOMAIN chunk = Procs /\ chunk = [q \in Procs |-> chunk[q]]
        /\ c = [op |-> c.op, pc |-> c.pc, cfg |-> c.cfg, env |-> c.env, id |-> c.id]
    BY DEF ProjectInv, ProjectShaped, CommandShaped
  <2>2. [c EXCEPT !.pc = "sync"] = c1
    BY <2>1
  <2>3. [c1 EXCEPT !.id = s] = c2
    OBVIOUS
  <2>4. chunk' = [d EXCEPT ![p].id = s]
    BY <1>1
  <2>5. d = [chunk EXCEPT ![p] = c1]
    BY <2>1, <2>2
  <2> HIDE DEF d, c1
  <2>6. /\ DOMAIN d = Procs /\ d = [q \in Procs |-> d[q]]
        /\ d[p] = c1 /\ \A q \in Procs \ {p} : d[q] = chunk[q]
    BY <2>1, <2>5
  <2>7. chunk' = [d EXCEPT ![p] = [d[p] EXCEPT !.id = s]]
    BY <2>4, <2>6
  <2> HIDE DEF c2
  <2>8. chunk' = [d EXCEPT ![p] = c2]
    BY <2>3, <2>6, <2>7
  <2>9. /\ DOMAIN chunk' = Procs /\ chunk' = [q \in Procs |-> chunk'[q]]
        /\ chunk'[p] = c2 /\ \A q \in Procs \ {p} : chunk'[q] = chunk[q]
    BY <2>6, <2>8
  <2>10. CommandShaped(c2) /\ c2.pc = "sync" /\ c2.cfg = chunk[p].cfg
    BY DEF c2, CommandShaped
  <2> QED
    BY <2>9, <2>10
<1>6. /\ chunk[p].pc \in Between /\ chunk[p].pc # "done"
      /\ BodyShaped(chunk[p].cfg) /\ chunk[p].cfg.bad = FALSE
      /\ chunk'[p].pc \in Between \cup {"saveMarks"} /\ chunk'[p].pc # "run"
  BY <1>5 DEF ResolveSandbox, Between, ProjectInv, ProjectShaped, ProjectSound
<1>7. UNCHANGED <<configDisk, wanted, trail>>
      /\ (~Explicit => \A i \in DOMAIN trail' : trail'[i].inside = TRUE)
  BY DEF ResolveSandbox, ProjectInv, RecordThere
<1> QED
  BY <1>3, <1>4, <1>5, <1>6, <1>7, SetupMoves

LEMMA SyncKeeps ==
    ASSUME ProjectInv, NEW p \in Procs, SyncSandbox(p)
    PROVE  ProjectInv'
<1>1. /\ chunk[p].pc = "sync" /\ CommandGoes(p, "run", chunk[p].cfg)
      /\ UNCHANGED <<configDisk, wanted, trail>> /\ active' = [active EXCEPT !.ws = active.id # None]
  BY DEF SyncSandbox, PersistWorkspace
<1>2. /\ DOMAIN chunk' = Procs /\ chunk' = [q \in Procs |-> chunk'[q]]
      /\ \A q \in Procs \ {p} : chunk'[q] = chunk[q]
      /\ CommandShaped(chunk'[p]) /\ chunk'[p].pc = "run" /\ chunk'[p].cfg = chunk[p].cfg
  BY <1>1, CommandGoesTo DEF ProjectInv
<1>3. /\ active' = [id |-> active'.id, ws |-> active'.ws] /\ active'.ws \in BOOLEAN
      /\ ~Explicit => active'.ws = TRUE
  <2>1. active = [id |-> active.id, ws |-> active.ws]
    BY DEF ProjectInv, ProjectShaped
  <2>2. ~Explicit => active.id # None
    BY <1>1 DEF ProjectInv, RecordThere
  <2> DEFINE v == active.id # None
  <2>3. v \in BOOLEAN /\ (~Explicit => v = TRUE)
    BY <2>2
  <2>4. active' = [active EXCEPT !.ws = v]
    BY <1>1
  <2> HIDE DEF v
  <2>5. active' = [id |-> active.id, ws |-> v]
    BY <2>1, <2>4
  <2> QED
    BY <2>3, <2>5
<1>4. /\ chunk[p].pc \in Between /\ chunk[p].pc # "done"
      /\ BodyShaped(chunk[p].cfg) /\ chunk[p].cfg.bad = FALSE
      /\ chunk'[p].pc \in Between \cup {"saveMarks"} /\ chunk'[p].pc # "sync"
  BY <1>1, <1>2 DEF Between, ProjectInv, ProjectShaped, ProjectSound
<1>5. ~Explicit => \A i \in DOMAIN trail' : trail'[i].inside = TRUE
  BY <1>1 DEF ProjectInv, RecordThere
<1> QED
  BY <1>1, <1>2, <1>3, <1>4, <1>5, SetupMoves

LEMMA FailKeeps ==
    ASSUME ProjectInv, NEW p \in Procs, FailSetup(p)
    PROVE  ProjectInv'
<1>1. /\ chunk[p].pc \in Between /\ chunk[p].pc # "done" /\ CommandEnds(p)
      /\ UNCHANGED <<configDisk, wanted, active, trail>>
  BY DEF FailSetup, Between
<1>2. /\ DOMAIN chunk' = Procs /\ chunk' = [q \in Procs |-> chunk'[q]]
      /\ \A q \in Procs \ {p} : chunk'[q] = chunk[q]
      /\ CommandShaped(chunk'[p]) /\ chunk'[p].pc = "done" /\ BodyShaped(chunk'[p].cfg)
      /\ chunk'[p].cfg.bad = FALSE
  BY <1>1, CommandOver DEF ProjectInv
<1>3. chunk'[p].pc \in Between \cup {"saveMarks"}
  BY <1>2 DEF Between
<1>4. ~Explicit => \A i \in DOMAIN trail' : trail'[i].inside = TRUE
  BY <1>1 DEF ProjectInv, RecordThere
<1>5. active' = [id |-> active'.id, ws |-> active'.ws] /\ active'.ws \in BOOLEAN
  BY <1>1 DEF ProjectInv, ProjectShaped
<1> QED
  BY <1>1, <1>2, <1>3, <1>4, <1>5, SetupMoves

LEMMA RunKeeps ==
    ASSUME ProjectInv, NEW p \in Procs, RunSteps(p)
    PROVE  ProjectInv'
<1> DEFINE marks == {c \in chunk[p].cfg.cmds : c \in Gates /\ c \notin Here} \ chunk[p].cfg.remote
           rm == chunk[p].cfg.remote \cup marks
           cfg == [chunk[p].cfg EXCEPT !.remote = rm]
<1>1. /\ chunk[p].pc = "run" /\ UNCHANGED <<configDisk, wanted, active>>
      /\ CommandEnds(p) \/ CommandGoes(p, "saveMarks", cfg)
  BY DEF RunSteps
<1>2. /\ chunk[p].pc \in Between /\ chunk[p].pc # "done"
      /\ BodyShaped(chunk[p].cfg) /\ chunk[p].cfg.bad = FALSE
  BY <1>1 DEF Between, ProjectInv, ProjectShaped, ProjectSound
<1> HIDE DEF rm
<1>3. BodyShaped(cfg) /\ cfg.bad = FALSE /\ cfg.cmds = chunk[p].cfg.cmds
  BY <1>2, BodyEdits
<1> HIDE DEF cfg
<1>4. /\ DOMAIN chunk' = Procs /\ chunk' = [q \in Procs |-> chunk'[q]]
      /\ \A q \in Procs \ {p} : chunk'[q] = chunk[q]
      /\ CommandShaped(chunk'[p]) /\ chunk'[p].pc \in {"done", "saveMarks"}
      /\ BodyShaped(chunk'[p].cfg) /\ chunk'[p].cfg.bad = FALSE
      /\ chunk'[p].pc # "done" => chunk'[p].cfg.cmds = chunk[p].cfg.cmds
  <2>1. CASE CommandEnds(p)
    BY <2>1, CommandOver DEF ProjectInv
  <2>2. CASE CommandGoes(p, "saveMarks", cfg)
    BY <1>3, <2>2, CommandGoesTo DEF ProjectInv
  <2> QED
    BY <1>1, <2>1, <2>2
<1>5. ~Explicit => \A i \in DOMAIN trail' : trail'[i].inside = TRUE
  <2> SUFFICES ASSUME ~Explicit PROVE \A i \in DOMAIN trail' : trail'[i].inside = TRUE
    OBVIOUS
  <2>1. active.ws = TRUE
    BY <1>1 DEF ProjectInv, RecordThere
  <2> DEFINE D == DOMAIN Steps(chunk[p].env)
             v == active.ws
  <2>2. trail' = [i \in D |-> [step |-> Steps(chunk[p].env)[i], inside |-> v,
                               on |-> chunk[p].id]]
    BY DEF RunSteps
  <2>3. v = TRUE
    BY <2>1
  <2> HIDE DEF D, v
  <2>4. \A i \in DOMAIN trail' : trail'[i].inside = v
    BY <2>2
  <2> QED
    BY <2>3, <2>4
<1>6. /\ active' = [id |-> active'.id, ws |-> active'.ws] /\ active'.ws \in BOOLEAN
      /\ chunk'[p].pc \in Between \cup {"saveMarks"} /\ chunk'[p].pc # "sync" /\ chunk'[p].pc # "run"
  BY <1>1, <1>4 DEF ProjectInv, ProjectShaped, Between
<1> QED
  BY <1>1, <1>2, <1>4, <1>5, <1>6, SetupMoves

LEMMA ProjectInvNext ==
    ASSUME NamesAssumption, Alone, ~Breaks, ProjectInv, [NextProject]_projectVars
    PROVE  ProjectInv'
<1>1. CASE UNCHANGED projectVars
  BY <1>1 DEF projectVars, ProjectInv, ProjectShaped, ProjectSound, WantedThere, RecordThere,
              BodyShaped, CommandShaped
<1>2. CASE EditConfig \/ ForgetActive
  BY <1>2, EditKeeps, ForgetRecordKeeps
<1>3. ASSUME NEW p \in Procs,
             \/ Truncate(p) \/ WriteBody(p) \/ ConfigSet(p) \/ SaveCommand(p)
             \/ PersistOrg(p) \/ SidecarEnv(p) \/ MarkRemote(p) \/ InitProject(p)
             \/ StartSetup(p) \/ ResolveSandbox(p) \/ SyncSandbox(p) \/ FailSetup(p) \/ RunSteps(p)
      PROVE  ProjectInv'
  BY <1>3, TruncateKeeps, WriteBodyKeeps, SetKeeps, SaveCommandKeeps, EnvKeeps, MarkKeeps,
     InitKeeps, StartSetupKeeps, ResolveKeeps, SyncKeeps, FailKeeps, RunKeeps
<1> QED
  BY <1>1, <1>2, <1>3 DEF NextProject

LEMMA ProjectInvHolds == ProjectInv => CommandsKept /\ (~Explicit => StepsInWorkspace)
<1> SUFFICES ASSUME ProjectInv PROVE CommandsKept /\ (~Explicit => StepsInWorkspace)
  OBVIOUS
<1>1. CommandsKept
  BY DEF ProjectInv, WantedThere, CommandsKept, Quiet, Between
<1>2. ~Explicit => StepsInWorkspace
  BY DEF ProjectInv, RecordThere, StepsInWorkspace
<1> QED
  BY <1>1, <1>2

-----------------------------------------------------------------------------
\* Whatever sequence of commands and edits rewrites the file, every command the user wrote
\* or asked for is in it when it is whole, if commands run one at a time and the user
\* leaves it valid (LoadProjectConfig, SaveProjectConfig, init, sidecar setup).
THEOREM ConfigKeepsCommands ==
    ASSUME NamesAssumption, Alone, ~Breaks
    PROVE  SpecProject => []CommandsKept
<1>1. InitProjectSetup => ProjectInv
  BY ProjectInvInit
<1>2. ProjectInv /\ [NextProject]_projectVars => ProjectInv'
  BY ProjectInvNext
<1>3. ProjectInv => CommandsKept
  BY ProjectInvHolds
<1> QED
  BY <1>1, <1>2, <1>3, PTL DEF SpecProject

\* And a setup that is given no sidecar runs its steps where it synced the files to
\* (sidecarSetupRunSetup).
THEOREM SetupStepsInPlace ==
    ASSUME NamesAssumption, Alone, ~Breaks, ~Explicit
    PROVE  SpecProject => []StepsInWorkspace
<1>1. InitProjectSetup => ProjectInv
  BY ProjectInvInit
<1>2. ProjectInv /\ [NextProject]_projectVars => ProjectInv'
  BY ProjectInvNext
<1>3. ProjectInv => StepsInWorkspace
  BY ProjectInvHolds
<1> QED
  BY <1>1, <1>2, <1>3, PTL DEF SpecProject

-----------------------------------------------------------------------------
(***************************************************************************)
(* HttpClient: a login elsewhere reaches every call that begins after it,  *)
(* for any calls, retries and logins.                                      *)
(***************************************************************************)

CallPlace == {"new", "sent", "rejected", "reload", "read", "swap", "resend", "done"}
CallResult == {"none", "ok", "failed", "rate limited", "deadline", "unauthorized"}
CallRec ==
    [at : CallPlace, token : Credential, second : BOOLEAN, elapsed : Nat, tries : 0..RetryMax,
     read : Credential, settled : BOOLEAN, result : CallResult]

HttpTyped ==
    /\ {authToken, stored, good} \subseteq Credential /\ reloadMu \in Call \cup {NoCall}
    /\ logins \in 0..MaxLogins
    /\ call \in [Call -> CallRec]
    /\ \A c \in Call : call[c].elapsed <= Deadline(c)

NewIsFresh ==
    \A c \in Call : call[c].at = "new" => call[c].second = FALSE /\ call[c].result = "none"

\* Whoever reads the store holds reloadMu.
OneReader == \A c \in Call : call[c].at \in {"read", "swap"} => reloadMu = c

\* What the client holds will do for a call: it is what the call was sent with, or it is
\* good; a call that was rejected was not sent a good one, and the second time it is.
WillDo(r, held) ==
    /\ r.result # "unauthorized" /\ r.at # "new"
    /\ r.second => r.token = good
    /\ r.at \in {"sent", "rejected", "reload", "read", "swap"} => held \in {r.token, good}
    /\ r.at \in {"rejected", "reload", "read", "swap"} => r.token # good /\ ~r.second
    /\ r.at = "resend" => held = good

\* While a good credential is stored, it is all that anybody reads.
GoodIsRead == stored = good /\ \A d \in Call : call[d].at = "swap" => call[d].read = good

HttpInv ==
    /\ HttpTyped /\ NewIsFresh /\ OneReader
    /\ \A c \in Call : call[c].settled => GoodIsRead /\ WillDo(call[c], authToken)

LEMMA HttpInitHolds == ASSUME HttpAssumption PROVE InitHttp => HttpInv
<1> SUFFICES ASSUME InitHttp PROVE HttpInv
  OBVIOUS
<1>1. authToken \in Credential
  BY DEF InitHttp, HttpAssumption
<1>2. \A c \in Call : call[c] \in CallRec /\ call[c].elapsed = 0 /\ call[c].at = "new"
                      /\ ~call[c].settled /\ ~call[c].second /\ call[c].result = "none"
  BY <1>1 DEF InitHttp, CallRec, CallPlace, CallResult, HttpAssumption
<1>3. \A c \in Call : 0 <= Deadline(c)
  BY DEF Deadline, HttpAssumption
<1>4. call \in [Call -> CallRec]
  BY <1>2 DEF InitHttp
<1> QED
  BY <1>1, <1>2, <1>3, <1>4 DEF InitHttp, HttpInv, HttpTyped, NewIsFresh, OneReader, HttpAssumption

\* A step of one call that leaves the client alone.
LEMMA CallMoves ==
    ASSUME HttpAssumption, HttpInv, Client, NEW c \in Call, NEW r \in CallRec, Update(c, r),
           r.elapsed <= Deadline(c), r.at \notin {"new", "read", "swap"},
           r.settled => GoodIsRead /\ WillDo(r, authToken)
    PROVE  HttpInv'
<1>1. call' \in [Call -> CallRec] /\ call'[c] = r /\ \A d \in Call \ {c} : call'[d] = call[d]
  BY DEF HttpInv, HttpTyped, Update
<1>2. HttpTyped'
  BY <1>1 DEF HttpInv, HttpTyped, Client, Deadline
<1>3. OneReader' /\ NewIsFresh'
  BY <1>1 DEF HttpInv, OneReader, NewIsFresh, Client
<1>4. GoodIsRead => GoodIsRead'
  BY <1>1 DEF GoodIsRead, Client
<1>5. \A d \in Call : WillDo(call'[d], authToken) => WillDo(call[d], authToken)'
  BY DEF WillDo, Client
<1>6. ASSUME NEW d \in Call, call'[d].settled PROVE GoodIsRead' /\ WillDo(call[d], authToken)'
  BY <1>1, <1>4, <1>5, <1>6 DEF HttpInv
<1> QED
  BY <1>2, <1>3, <1>6 DEF HttpInv

LEMMA CallEnds ==
    ASSUME HttpAssumption, HttpInv, Client, NEW c \in Call, call[c].at # "new",
           NEW result \in CallResult \ {"unauthorized"}, Update(c, Ended(c, result))
    PROVE  HttpInv'
<1> DEFINE r == Ended(c, result)
<1>1. call[c] \in CallRec /\ call[c].elapsed <= Deadline(c)
  BY DEF HttpInv, HttpTyped
<1>2. r \in CallRec /\ r.elapsed = call[c].elapsed /\ r.at = "done" /\ r.result = result
      /\ r.second = call[c].second /\ r.token = call[c].token /\ r.settled = call[c].settled
  BY <1>1 DEF Ended, CallRec, CallPlace
<1>3. r.settled => GoodIsRead /\ WillDo(r, authToken)
  BY <1>2 DEF HttpInv, WillDo
<1> QED
  BY <1>1, <1>2, <1>3, CallMoves

\* Sent again with what the client now holds.
LEMMA Resends ==
    ASSUME HttpAssumption, HttpInv, NEW c \in Call, call[c].at # "new",
           call[c].settled => authToken = good
    PROVE  /\ Resend(c) \in CallRec /\ Resend(c).elapsed <= Deadline(c)
           /\ Resend(c).at = "sent" /\ Resend(c).settled = call[c].settled
           /\ Resend(c).settled => GoodIsRead /\ WillDo(Resend(c), authToken)
<1>1. call[c] \in CallRec /\ call[c].elapsed <= Deadline(c) /\ authToken \in Credential
  BY DEF HttpInv, HttpTyped
<1> DEFINE r == Resend(c)
<1>2. r \in CallRec /\ r.elapsed = call[c].elapsed /\ r.at = "sent" /\ r.result = call[c].result
      /\ r.second = TRUE /\ r.token = authToken /\ r.settled = call[c].settled
  BY <1>1 DEF Resend, CallRec, CallPlace
<1>3. r.settled => GoodIsRead /\ WillDo(r, authToken)
  BY <1>2 DEF HttpInv, WillDo
<1> QED
  BY <1>1, <1>2, <1>3

\* A step of one call that may take reloadMu, give it back, or change what the client
\* holds to a good credential.
LEMMA CallTurns ==
    ASSUME HttpAssumption, HttpInv, NEW c \in Call, NEW r \in CallRec, Update(c, r),
           UNCHANGED <<stored, good, logins>>, reloadMu' \in {c, NoCall},
           authToken' \in Credential, authToken' # authToken => authToken' = call[c].read
                                                               /\ call[c].at = "swap",
           \A d \in Call \ {c} : call[d].at \notin {"read", "swap"},
           r.elapsed <= Deadline(c), r.at # "new",
           r.at \in {"read", "swap"} => reloadMu' = c,
           r.at = "swap" /\ stored = good => r.read = good,
           r.settled => call[c].settled /\ WillDo(r, authToken')
    PROVE  HttpInv'
<1>1. call' \in [Call -> CallRec] /\ call'[c] = r /\ \A d \in Call \ {c} : call'[d] = call[d]
  BY DEF HttpInv, HttpTyped, Update
<1>2. HttpTyped'
  BY <1>1 DEF HttpInv, HttpTyped, Deadline
<1>3. OneReader' /\ NewIsFresh'
  BY <1>1 DEF HttpInv, OneReader, NewIsFresh
<1>4. stored = good => GoodIsRead'
  BY <1>1 DEF GoodIsRead
<1>5. ASSUME NEW d \in Call, call'[d].settled PROVE GoodIsRead' /\ WillDo(call[d], authToken)'
  <2>1. CASE d = c
    BY <1>1, <1>4, <1>5, <2>1 DEF HttpInv, GoodIsRead, WillDo
  <2>2. CASE d # c
    <3>1. call'[d] = call[d] /\ GoodIsRead /\ WillDo(call[d], authToken)
      BY <1>1, <1>5, <2>2 DEF HttpInv
    <3>2. authToken' \in {authToken, good}
      BY <3>1 DEF GoodIsRead
    <3> QED
      BY <1>4, <3>1, <3>2 DEF GoodIsRead, WillDo
  <2> QED
    BY <2>1, <2>2
<1> QED
  BY <1>2, <1>3, <1>5 DEF HttpInv

\* Nobody else is at the store.
LEMMA NobodyReads ==
    ASSUME HttpInv, NEW c \in Call, HttpAssumption, reloadMu \in {c, NoCall}
    PROVE  \A d \in Call \ {c} : call[d].at \notin {"read", "swap"}
  BY DEF HttpInv, OneReader, HttpAssumption

LEMMA Reads ==
    ASSUME HttpAssumption, HttpInv, NEW c \in Call, LockReload(c), ~MovedOn(c) PROVE HttpInv'
<1> DEFINE r == [call[c] EXCEPT !.at = "read"]
<1>1. call[c] \in CallRec /\ call[c].elapsed <= Deadline(c) /\ authToken \in Credential
  BY DEF HttpInv, HttpTyped
<1>2. r \in CallRec /\ r.elapsed = call[c].elapsed /\ r.at = "read"
      /\ r.token = call[c].token /\ r.second = call[c].second
      /\ r.result = call[c].result /\ r.settled = call[c].settled
  BY <1>1 DEF CallRec, CallPlace
<1>3. r.settled => call[c].settled /\ WillDo(r, authToken')
  BY <1>2 DEF HttpInv, WillDo, LockReload, CallAt
<1>4. reloadMu = NoCall /\ reloadMu' = c /\ Update(c, r)
  BY DEF LockReload
<1>5. \A d \in Call \ {c} : call[d].at \notin {"read", "swap"}
  BY <1>4, NobodyReads
<1> QED
  BY <1>1, <1>2, <1>3, <1>4, <1>5, CallTurns DEF LockReload

LEMMA StoreIsRead ==
    ASSUME HttpAssumption, HttpInv, NEW c \in Call, ReadStore(c) PROVE HttpInv'
<1>1. call[c] \in CallRec /\ call[c].elapsed <= Deadline(c) /\ authToken \in Credential
      /\ stored \in Credential
  BY DEF HttpInv, HttpTyped
<1>2. reloadMu = c /\ \A d \in Call \ {c} : call[d].at \notin {"read", "swap"}
  BY NobodyReads DEF HttpInv, OneReader, ReadStore, CallAt
<1>3. CASE Update(c, [call[c] EXCEPT !.at = "swap", !.read = stored]) /\ UNCHANGED reloadMu
  <2> DEFINE r == [call[c] EXCEPT !.at = "swap", !.read = stored]
  <2>1. r \in CallRec /\ r.elapsed = call[c].elapsed /\ r.at = "swap" /\ r.read = stored
        /\ r.token = call[c].token /\ r.second = call[c].second
        /\ r.result = call[c].result /\ r.settled = call[c].settled
    BY <1>1 DEF CallRec, CallPlace
  <2>2. r.settled => call[c].settled /\ WillDo(r, authToken')
    BY <2>1 DEF HttpInv, WillDo, ReadStore, CallAt
  <2> QED
    BY <1>1, <1>2, <1>3, <2>1, <2>2, CallTurns DEF ReadStore
<1>4. CASE /\ Update(c, [Ended(c, "unauthorized") EXCEPT !.settled = FALSE])
           /\ reloadMu' = NoCall
  <2> DEFINE r == [Ended(c, "unauthorized") EXCEPT !.settled = FALSE]
  <2>1. r \in CallRec /\ r.elapsed = call[c].elapsed /\ r.at = "done" /\ r.settled = FALSE
    BY <1>1 DEF CallRec, CallPlace, CallResult, Ended
  <2> QED
    BY <1>1, <1>2, <1>4, <2>1, CallTurns DEF ReadStore
<1> QED
  BY <1>3, <1>4 DEF ReadStore

LEMMA Swaps ==
    ASSUME HttpAssumption, HttpInv, NEW c \in Call, SwapToken(c) PROVE HttpInv'
<1>1. call[c] \in CallRec /\ call[c].elapsed <= Deadline(c) /\ authToken \in Credential
      /\ call[c].read \in Credential
  BY DEF HttpInv, HttpTyped, CallRec
<1>2. call[c].at = "swap" /\ reloadMu = c /\ reloadMu' = NoCall
      /\ \A d \in Call \ {c} : call[d].at \notin {"read", "swap"}
  BY NobodyReads DEF HttpInv, OneReader, SwapToken, CallAt
<1>3. CASE call[c].read = call[c].token
  <2> DEFINE r == Ended(c, "unauthorized")
  <2>1. r \in CallRec /\ r.elapsed = call[c].elapsed /\ r.at = "done"
        /\ r.settled = call[c].settled
    BY <1>1 DEF CallRec, CallPlace, CallResult, Ended
  <2>2. ~call[c].settled
    BY <1>2, <1>3 DEF HttpInv, WillDo, GoodIsRead
  <2>3. Update(c, r) /\ UNCHANGED <<authToken, stored, good, logins>>
    BY <1>3 DEF SwapToken
  <2> QED
    BY <1>1, <1>2, <2>1, <2>2, <2>3, CallTurns
<1>4. CASE call[c].read # call[c].token
  <2> DEFINE r == [call[c] EXCEPT !.at = "resend"]
  <2>1. r \in CallRec /\ r.elapsed = call[c].elapsed /\ r.at = "resend"
        /\ r.token = call[c].token /\ r.second = call[c].second
        /\ r.result = call[c].result /\ r.settled = call[c].settled
    BY <1>1 DEF CallRec, CallPlace
  <2>2. Update(c, r) /\ authToken' = call[c].read /\ UNCHANGED <<stored, good, logins>>
    BY <1>4 DEF SwapToken
  <2>3. r.settled => call[c].settled /\ WillDo(r, authToken')
    BY <1>2, <2>1, <2>2 DEF HttpInv, WillDo, GoodIsRead
  <2> QED
    BY <1>1, <1>2, <2>1, <2>2, <2>3, CallTurns
<1> QED
  BY <1>3, <1>4

LEMMA HttpNextHolds ==
    ASSUME HttpAssumption, HttpInv, [NextHttp]_httpVars PROVE HttpInv'
<1>1. ASSUME NEW c \in Call, BeginCall(c) PROVE HttpInv'
  <2> DEFINE r == [call[c] EXCEPT !.at = "sent", !.token = authToken,
                                  !.settled = stored = good /\ reloadMu = NoCall]
  <2>1. call[c] \in CallRec /\ call[c].elapsed <= Deadline(c) /\ authToken \in Credential
    BY DEF HttpInv, HttpTyped
  <2>2. r \in CallRec /\ r.elapsed = call[c].elapsed /\ r.at = "sent" /\ r.token = authToken
        /\ r.result = call[c].result /\ r.second = call[c].second
        /\ r.settled = (stored = good /\ reloadMu = NoCall)
    BY <2>1 DEF CallRec, CallPlace
  <2>3. r.settled => GoodIsRead /\ WillDo(r, authToken)
    <3>1. r.settled => GoodIsRead
      BY <2>2 DEF GoodIsRead, HttpInv, OneReader, HttpAssumption
    <3> QED
      BY <1>1, <2>2, <3>1 DEF WillDo, HttpInv, NewIsFresh, BeginCall, CallAt
  <2> QED
    BY <1>1, <2>1, <2>2, <2>3, CallMoves DEF BeginCall
<1>2. ASSUME NEW c \in Call, Answered(c) PROVE HttpInv'
  <2>1. CASE call[c].token = good /\ Update(c, Ended(c, "ok"))
    BY <1>2, <2>1, CallEnds DEF Answered, CallAt, CallResult
  <2>2. CASE call[c].tries < RetryMax /\ Update(c, Again(c))
    <3>1. call[c] \in CallRec /\ call[c].elapsed <= Deadline(c)
      BY DEF HttpInv, HttpTyped
    <3>2. Again(c) \in CallRec /\ Again(c).elapsed = call[c].elapsed /\ Again(c).at = call[c].at
          /\ Again(c).token = call[c].token /\ Again(c).second = call[c].second
          /\ Again(c).result = call[c].result /\ Again(c).settled = call[c].settled
      BY <2>2, <3>1 DEF Again, CallRec, HttpAssumption
    <3>3. Again(c).settled => GoodIsRead /\ WillDo(Again(c), authToken)
      BY <3>2 DEF HttpInv, WillDo
    <3> QED
      BY <1>2, <2>2, <3>1, <3>2, <3>3, CallMoves DEF Answered, CallAt
  <2>3. CASE call[c].tries >= RetryMax /\ Update(c, Ended(c, "failed"))
    BY <1>2, <2>3, CallEnds DEF Answered, CallAt, CallResult
  <2> QED
    BY <1>2, <2>1, <2>2, <2>3 DEF Answered
<1>3. ASSUME NEW c \in Call, NEW n \in Nat, CallAt(c, "sent"), Client,
             call[c].elapsed + n <= Deadline(c),
             Update(c, [call[c] EXCEPT !.elapsed = @ + n])
      PROVE  HttpInv'
  <2> DEFINE r == [call[c] EXCEPT !.elapsed = @ + n]
  <2>1. call[c] \in CallRec
    BY DEF HttpInv, HttpTyped
  <2>2. r \in CallRec /\ r.elapsed = call[c].elapsed + n /\ r.at = call[c].at
        /\ r.token = call[c].token /\ r.second = call[c].second
        /\ r.result = call[c].result /\ r.settled = call[c].settled
    BY <2>1 DEF CallRec
  <2>3. r.settled => GoodIsRead /\ WillDo(r, authToken)
    BY <2>2 DEF HttpInv, WillDo
  <2> QED
    BY <1>3, <2>2, <2>3, CallMoves DEF CallAt
<1>4. ASSUME NEW c \in Call, RateLimited(c) PROVE HttpInv'
  <2>1. PICK after \in RetryAfter :
            IF call[c].elapsed + after > Budget THEN Update(c, Ended(c, "rate limited"))
            ELSE Update(c, [call[c] EXCEPT !.elapsed = @ + after])
    BY <1>4 DEF RateLimited
  <2>2. CASE call[c].elapsed + after > Budget
    BY <1>4, <2>1, <2>2, CallEnds DEF RateLimited, CallAt, CallResult
  <2>3. CASE ~(call[c].elapsed + after > Budget)
    <3>1. call[c].elapsed \in Nat /\ after \in Nat
      BY DEF HttpInv, HttpTyped, CallRec, HttpAssumption
    <3>2. call[c].elapsed + after <= Budget
      BY <2>3, <3>1 DEF HttpAssumption
    <3>3. Budget > 0 /\ Budget \in Nat /\ ClientTimeout \in Nat
      BY <1>4 DEF RateLimited, HttpAssumption
    <3>4. Deadline(c) = Budget + ClientTimeout
      BY <3>3 DEF Deadline
    <3>5. call[c].elapsed + after <= Deadline(c)
      BY <3>1, <3>2, <3>3, <3>4
    <3> QED
      BY <1>3, <1>4, <2>1, <2>3, <3>1, <3>5 DEF RateLimited
  <2> QED
    BY <2>2, <2>3
<1>5. ASSUME NEW c \in Call, TimedOut(c) PROVE HttpInv'
  BY <1>5, CallEnds DEF TimedOut, CallAt, CallResult
<1>6. ASSUME NEW c \in Call, Waits(c) PROVE HttpInv'
  <2>1. call[c].elapsed \in Nat /\ Deadline(c) \in Nat
    BY DEF HttpInv, HttpTyped, CallRec, HttpAssumption, Deadline
  <2>2. call[c].elapsed + 1 <= Deadline(c) /\ 1 \in Nat
    BY <1>6, <2>1 DEF Waits
  <2>3. Update(c, [call[c] EXCEPT !.elapsed = @ + 1])
    BY <1>6 DEF Waits
  <2> QED
    BY <1>3, <1>6, <2>2, <2>3 DEF Waits
<1>7. ASSUME NEW c \in Call, Unauthorized(c) PROVE HttpInv'
  <2>1. call[c] \in CallRec /\ call[c].elapsed <= Deadline(c)
    BY DEF HttpInv, HttpTyped
  <2>2. CASE call[c].second
    <3> DEFINE r == Ended(c, "unauthorized")
    <3>1. r \in CallRec /\ r.elapsed = call[c].elapsed /\ r.at = "done"
          /\ r.settled = call[c].settled
      BY <2>1 DEF Ended, CallRec, CallPlace, CallResult
    <3>2. ~call[c].settled
      BY <1>7, <2>2 DEF HttpInv, WillDo, Unauthorized
    <3> QED
      BY <1>7, <2>1, <2>2, <3>1, <3>2, CallMoves DEF Unauthorized
  <2>3. CASE ~call[c].second
    <3> DEFINE r == [call[c] EXCEPT !.at = "rejected",
                        !.tries = IF Budget > 0 /\ @ < RetryMax THEN @ + 1 ELSE @]
    <3> DEFINE n == IF Budget > 0 /\ call[c].tries < RetryMax THEN call[c].tries + 1
                    ELSE call[c].tries
    <3>0. n \in 0..RetryMax /\ r = [call[c] EXCEPT !.at = "rejected", !.tries = n]
      BY <2>1 DEF CallRec, HttpAssumption
    <3> HIDE DEF n
    <3>1. r \in CallRec /\ r.elapsed = call[c].elapsed /\ r.at = "rejected"
          /\ r.token = call[c].token /\ r.second = call[c].second
          /\ r.result = call[c].result /\ r.settled = call[c].settled
      BY <2>1, <3>0 DEF CallRec, CallPlace
    <3>2. r.settled => GoodIsRead /\ WillDo(r, authToken)
      BY <1>7, <2>3, <3>1 DEF HttpInv, WillDo, Unauthorized, CallAt
    <3> QED
      BY <1>7, <2>1, <2>3, <3>1, <3>2, CallMoves DEF Unauthorized
  <2> QED
    BY <2>2, <2>3
<1>8. ASSUME NEW c \in Call, CallAt(c, "rejected") \/ CallAt(c, "reload"), MovedOn(c), Client,
             Update(c, Resend(c))
      PROVE  HttpInv'
  <2>1. call[c].settled => authToken = good
    BY <1>8 DEF HttpInv, WillDo, CallAt, MovedOn
  <2> QED
    BY <1>8, <2>1, Resends, CallMoves DEF CallAt
<1>9. ASSUME NEW c \in Call, Rejected(c) PROVE HttpInv'
  <2>1. CASE MovedOn(c)
    BY <1>8, <1>9, <2>1 DEF Rejected
  <2>2. CASE ~MovedOn(c)
    <3> DEFINE r == [call[c] EXCEPT !.at = "reload"]
    <3>1. call[c] \in CallRec /\ call[c].elapsed <= Deadline(c)
      BY DEF HttpInv, HttpTyped
    <3>2. r \in CallRec /\ r.elapsed = call[c].elapsed /\ r.at = "reload"
          /\ r.token = call[c].token /\ r.second = call[c].second
          /\ r.result = call[c].result /\ r.settled = call[c].settled
      BY <3>1 DEF CallRec, CallPlace
    <3>3. r.settled => GoodIsRead /\ WillDo(r, authToken)
      BY <1>9, <3>2 DEF HttpInv, WillDo, Rejected, CallAt
    <3> QED
      BY <1>9, <2>2, <3>1, <3>2, <3>3, CallMoves DEF Rejected
  <2> QED
    BY <2>1, <2>2
<1>10. ASSUME NEW c \in Call, LockReload(c) PROVE HttpInv'
  <2>1. CASE MovedOn(c)
    BY <1>8, <1>10, <2>1 DEF LockReload, Client
  <2>2. CASE ~MovedOn(c)
    BY <1>10, <2>2, Reads DEF LockReload
  <2> QED
    BY <2>1, <2>2
<1>11. ASSUME NEW c \in Call, ReadStore(c) PROVE HttpInv'
  BY <1>11, StoreIsRead
<1>12. ASSUME NEW c \in Call, SwapToken(c) PROVE HttpInv'
  BY <1>12, Swaps
<1>13. ASSUME NEW c \in Call, SendSecond(c) PROVE HttpInv'
  <2>1. call[c].settled => authToken = good
    BY <1>13 DEF HttpInv, WillDo, CallAt, SendSecond
  <2> QED
    BY <1>13, <2>1, Resends, CallMoves DEF CallAt, SendSecond
<1>14. ASSUME Login PROVE HttpInv'
  <2>1. \A c \in Call : call'[c] = [call[c] EXCEPT !.settled = FALSE]
    BY <1>14 DEF Login
  <2>2. ASSUME NEW c \in Call
        PROVE  /\ call'[c] \in CallRec /\ call'[c].settled = FALSE /\ call'[c].at = call[c].at
               /\ call'[c].elapsed = call[c].elapsed /\ call'[c].second = call[c].second
               /\ call'[c].result = call[c].result
    <3>1. call[c] \in CallRec
      BY DEF HttpInv, HttpTyped
    <3>2. call'[c] = [call[c] EXCEPT !.settled = FALSE]
      BY <2>1
    <3> QED
      BY <3>1, <3>2 DEF CallRec
  <2>3. call' \in [Call -> CallRec]
    BY <1>14, <2>2 DEF Login
  <2>4. stored' \in Credential /\ good' \in Credential /\ logins' \in 0..MaxLogins
        /\ UNCHANGED <<authToken, reloadMu>>
    BY <1>14 DEF HttpInv, HttpTyped, Login, HttpAssumption
  <2>5. \A c \in Call : call'[c].elapsed <= Deadline(c)
    BY <2>2 DEF HttpInv, HttpTyped
  <2>6. HttpTyped'
    BY <2>3, <2>4, <2>5 DEF HttpInv, HttpTyped, Deadline
  <2> QED
    BY <2>2, <2>4, <2>6 DEF HttpInv, NewIsFresh, OneReader
<1>15. CASE UNCHANGED httpVars
  BY <1>15 DEF httpVars, HttpInv, HttpTyped, Deadline, NewIsFresh, OneReader, GoodIsRead, WillDo
<1> QED
  BY <1>1, <1>2, <1>4, <1>5, <1>6, <1>7, <1>9, <1>10, <1>11, <1>12, <1>13, <1>14, <1>15 DEF NextHttp

LEMMA HttpInvHolds == HttpInv => HttpTypeOK /\ LoginReaches
<1> SUFFICES ASSUME HttpInv PROVE HttpTypeOK /\ LoginReaches
  OBVIOUS
<1>1. HttpTypeOK
  BY DEF HttpInv, HttpTyped, HttpTypeOK, CallRec, CallPlace
<1>2. LoginReaches
  BY DEF HttpInv, WillDo, LoginReaches
<1> QED
  BY <1>1, <1>2

\* A login elsewhere reaches every call that begins after it, whatever the other
\* calls of the client are doing, for any number of calls, retries and logins
\* (client.go's reload).
THEOREM LoginsReach ==
    ASSUME HttpAssumption PROVE SpecHttp => [](HttpTypeOK /\ LoginReaches)
<1>1. InitHttp => HttpInv
  BY HttpInitHolds
<1>2. HttpInv /\ [NextHttp]_httpVars => HttpInv'
  BY HttpNextHolds
<1>3. HttpInv => HttpTypeOK /\ LoginReaches
  BY HttpInvHolds
<1> QED
  BY <1>1, <1>2, <1>3, PTL DEF SpecHttp

-----------------------------------------------------------------------------
(***************************************************************************)
(* Credentials: an account is on record only while a token resolves, for   *)
(* any tokens, kept anywhere, and commands that run one at a time.         *)
(***************************************************************************)

\* Commands that run one after the other.
OneProcess == \E q \in Proc : Proc = {q}

AnyToken == {NoToken} \cup UNION {Tokens[p] : p \in Provider}
Account == Tokens["circleci"] \cup {NoAccount}
ConfigRec == [tokens : [FileBacked -> AnyToken], account : Account]
CommandAt == {"idle", "validate", "save", "write", "identify", "forget", "told"}
CommandRec ==
    [at : CommandAt, p : Provider, token : AnyToken, insecure : BOOLEAN, account : Account,
     copy : ConfigRec, told : {"none", "nothing", "saved", "removed", "forgot"}]

\* A config that holds every provider's own.
Proper(cfg) == cfg \in ConfigRec /\ \A p \in FileBacked : cfg.tokens[p] \in Tokens[p] \cup {NoToken}

CredentialsTyped ==
    /\ Proper(config)
    /\ ring \in [Provider -> AnyToken] /\ \A p \in Provider : ring[p] \in Tokens[p] \cup {NoToken}
    /\ proc \in [Proc -> CommandRec] /\ \A q \in Proc : Proper(proc[q].copy)

\* A CircleCI token is found, in the environment, the file or the keychain.
ResolvesIn(cfg, rg) ==
    \/ InEnv["circleci"] # NoToken \/ cfg.tokens["circleci"] # NoToken
    \/ rg["circleci"] # NoToken

\* The command is about to look whether the account has to go, or has seen that it has.
Forgetting(r) ==
    \/ r.at = "forget" /\ r.p = "circleci"
    \/ r.at = "write" /\ r.told = "forgot"

\* The copy a command is about to write names an account only with a token that
\* resolves, unless the token was just removed and the account is looked at next.
CopySafe(r, rg) ==
    /\ r.copy.account # NoAccount =>
          ResolvesIn(r.copy, rg) \/ (r.told = "removed" /\ r.p = "circleci")
    /\ r.told = "saved" /\ r.account # NoAccount => ResolvesIn(r.copy, rg)
    /\ r.told = "forgot" => r.copy.account = NoAccount
    /\ r.told # "none"

CommandSafe(r, cfg, rg) ==
    /\ r.at \in {"validate", "save"} => r.token \in Tokens[r.p]
    /\ r.at = "save" /\ r.account # NoAccount => r.p = "circleci"
    /\ r.at = "identify" => ResolvesIn(cfg, rg) /\ r.told \in {"nothing", "saved"}
    /\ r.at = "write" => CopySafe(r, rg)
    /\ cfg.account # NoAccount => ResolvesIn(cfg, rg) \/ Forgetting(r)

CredentialsInv ==
    /\ CredentialsTyped
    /\ \A q \in Proc : CommandSafe(proc[q], config, ring)

LEMMA NothingStored ==
    /\ NoToken \in AnyToken
    /\ [p \in FileBacked |-> NoToken] \in [FileBacked -> AnyToken]
    /\ [p \in Provider |-> NoToken] \in [Provider -> AnyToken]
    /\ NoAccount \in Account
<1>1. NoToken \in AnyToken
  BY DEF AnyToken
<1> QED
  BY <1>1 DEF Account

LEMMA IdleIs ==
    ASSUME CredentialsAssumption
    PROVE  /\ Idle \in CommandRec /\ Proper(Idle.copy)
           /\ Idle.at = "idle" /\ Idle.account = NoAccount /\ Idle.told = "none"
<1>1. Idle.copy \in ConfigRec /\ Idle.copy.tokens = [p \in FileBacked |-> NoToken]
      /\ Idle.account = NoAccount /\ Idle.at = "idle" /\ Idle.told = "none"
  BY NothingStored DEF Idle, ConfigRec
<1>2. Idle \in CommandRec
  BY <1>1, NothingStored DEF Idle, CommandRec, CommandAt, Provider
<1> QED
  BY <1>1, <1>2 DEF Proper

LEMMA CredentialsInitHolds == ASSUME CredentialsAssumption PROVE InitCredentials => CredentialsInv
<1> SUFFICES ASSUME InitCredentials PROVE CredentialsInv
  OBVIOUS
<1>1. Proper(config) /\ config.account = NoAccount
  BY NothingStored DEF InitCredentials, Proper, ConfigRec
<1>2. CredentialsTyped
  BY <1>1, IdleIs, NothingStored DEF InitCredentials, CredentialsTyped
<1>3. \A q \in Proc : proc[q] = Idle
  BY DEF InitCredentials
<1> QED
  BY <1>1, <1>2, <1>3, IdleIs DEF CredentialsInv, CommandSafe

\* A step of the one command there is.
LEMMA CommandMoves ==
    ASSUME OneProcess, CredentialsInv, NEW q \in Proc, NEW r \in CommandRec, Becomes(q, r),
           Proper(r.copy), Proper(config'), ring' \in [Provider -> AnyToken],
           \A p \in Provider : ring'[p] \in Tokens[p] \cup {NoToken},
           CommandSafe(r, config', ring')
    PROVE  CredentialsInv'
<1>1. \A d \in Proc : d = q
  BY DEF OneProcess
<1>2. proc' \in [Proc -> CommandRec] /\ proc'[q] = r
  BY DEF CredentialsInv, CredentialsTyped, Becomes
<1>3. CredentialsTyped'
  BY <1>1, <1>2 DEF CredentialsTyped, Proper
<1>4. \A d \in Proc : CommandSafe(proc'[d], config', ring')
  BY <1>1, <1>2
<1> QED
  BY <1>3, <1>4 DEF CredentialsInv, CommandSafe, CopySafe, ResolvesIn

\* The same, for a step that stores nothing and has a copy of its own or none.
LEMMA CommandWaits ==
    ASSUME OneProcess, CredentialsInv, NEW q \in Proc, NEW r \in CommandRec, Becomes(q, r),
           Proper(r.copy), Stores, CommandSafe(r, config, ring)
    PROVE  CredentialsInv'
<1>1. config' = config /\ ring' = ring
  BY DEF Stores
<1>2. /\ Proper(config') /\ ring' \in [Provider -> AnyToken]
      /\ \A p \in Provider : ring'[p] \in Tokens[p] \cup {NoToken}
  BY <1>1 DEF CredentialsInv, CredentialsTyped
<1>3. CommandSafe(r, config', ring')
  BY <1>1
<1> QED
  BY <1>2, <1>3, CommandMoves

\* What resolves is found somewhere, and is one of the provider's.
LEMMA ResolvesSomewhere ==
    ASSUME CredentialsInv, CredentialsAssumption, NEW insecure \in BOOLEAN
    PROVE  /\ ResolveCircleCI(insecure) \in Tokens["circleci"] \cup {NoToken}
           /\ ResolveCircleCI(insecure) # NoToken => ResolvesIn(config, ring)
           /\ ResolveCircleCI(FALSE) # NoToken <=> ResolvesIn(config, ring)
<1>1. "circleci" \in Provider /\ "circleci" \in FileBacked
  BY DEF Provider, FileBacked
<1>2. /\ InEnv["circleci"] \in Tokens["circleci"] \cup {NoToken}
      /\ config.tokens["circleci"] \in Tokens["circleci"] \cup {NoToken}
      /\ ring["circleci"] \in Tokens["circleci"] \cup {NoToken}
  BY <1>1 DEF CredentialsInv, CredentialsTyped, Proper, CredentialsAssumption
<1>3. InFile("circleci") = config.tokens["circleci"]
  BY <1>1 DEF InFile
<1> QED
  BY <1>2, <1>3 DEF ResolveCircleCI, ResolvesIn

\* An idle command, or one that takes a credential, leaves what is stored as safe as
\* it was.
LEMMA SafeWhenIdle ==
    ASSUME CredentialsInv, NEW q \in Proc, ~Forgetting(proc[q])
    PROVE  config.account # NoAccount => ResolvesIn(config, ring)
  BY DEF CredentialsInv, CommandSafe

LEMMA BecomesIdle ==
    ASSUME OneProcess, CredentialsAssumption, CredentialsInv, NEW q \in Proc,
           ~Forgetting(proc[q]), Stores, Becomes(q, Idle)
    PROVE  CredentialsInv'
<1>1. CommandSafe(Idle, config, ring)
  BY IdleIs, SafeWhenIdle DEF CommandSafe
<1> QED
  BY <1>1, IdleIs, CommandWaits

LEMMA TakesHolds ==
    ASSUME OneProcess, CredentialsAssumption, CredentialsInv, NEW q \in Proc, In(q, "idle"),
           Stores, NEW p \in Provider, NEW insecure \in BOOLEAN,
           NEW next \in {"validate", "save"}, Takes(q, p, insecure, next)
    PROVE  CredentialsInv'
<1>1. PICK t \in Tokens[p] : Becomes(q, [Idle EXCEPT !.at = next, !.p = p, !.token = t,
                                                     !.insecure = insecure])
  BY DEF Takes
<1> DEFINE r == [Idle EXCEPT !.at = next, !.p = p, !.token = t, !.insecure = insecure]
<1>2. t \in AnyToken
  BY DEF AnyToken
<1>3. r \in CommandRec /\ r.copy = Idle.copy /\ r.account = NoAccount /\ r.at = next
      /\ r.p = p /\ r.token = t
  BY <1>2, IdleIs DEF CommandRec, CommandAt
<1>4. config.account # NoAccount => ResolvesIn(config, ring)
  BY SafeWhenIdle DEF In, Forgetting
<1>5. CommandSafe(r, config, ring)
  BY <1>3, <1>4 DEF CommandSafe
<1> QED
  BY <1>1, <1>3, <1>5, IdleIs, CommandWaits

LEMMA BackfillHolds ==
    ASSUME OneProcess, CredentialsAssumption, CredentialsInv, NEW q \in Proc, BackfillUserID(q)
    PROVE  CredentialsInv'
<1>1. PICK insecure \in BOOLEAN :
        /\ ResolveCircleCI(insecure) # NoToken
        /\ Becomes(q, [Idle EXCEPT !.at = "identify", !.p = "circleci",
                                   !.token = ResolveCircleCI(insecure),
                                   !.account = ResolveCircleCI(insecure), !.told = "nothing"])
  BY DEF BackfillUserID
<1> DEFINE t == ResolveCircleCI(insecure)
           r == [Idle EXCEPT !.at = "identify", !.p = "circleci", !.token = t, !.account = t,
                             !.told = "nothing"]
<1>2. t \in Tokens["circleci"] /\ ResolvesIn(config, ring)
  BY <1>1, ResolvesSomewhere
<1> HIDE DEF t
<1>3. t \in AnyToken /\ t \in Account
  BY <1>2 DEF AnyToken, Account, Provider
<1>4. r \in CommandRec /\ r.copy = Idle.copy /\ r.at = "identify"
  BY <1>3, IdleIs DEF CommandRec, CommandAt, Provider
<1>5. CommandSafe(r, config, ring)
  BY <1>2, <1>4 DEF CommandSafe
<1>6. Becomes(q, r) /\ Stores
  BY <1>1 DEF BackfillUserID, t
<1> QED
  BY <1>4, <1>5, <1>6, IdleIs, CommandWaits

LEMMA ValidateHolds ==
    ASSUME OneProcess, CredentialsAssumption, CredentialsInv, NEW q \in Proc, Validate(q)
    PROVE  CredentialsInv'
<1>1. proc[q] \in CommandRec /\ Proper(proc[q].copy) /\ proc[q].at = "validate"
      /\ proc[q].token \in Tokens[proc[q].p]
  BY DEF CredentialsInv, CredentialsTyped, CommandSafe, Validate, In
<1>2. CASE Becomes(q, Idle)
  BY <1>1, <1>2, BecomesIdle DEF Validate, Forgetting
<1>3. ASSUME NEW account \in IF proc[q].p = "circleci" THEN {proc[q].token, NoAccount}
                             ELSE {NoAccount},
             Becomes(q, [proc[q] EXCEPT !.at = "save", !.account = account])
      PROVE  CredentialsInv'
  <2> DEFINE r == [proc[q] EXCEPT !.at = "save", !.account = account]
  <2>1. account \in Account /\ (account # NoAccount => proc[q].p = "circleci")
    BY <1>1 DEF Account
  <2>2. r \in CommandRec /\ r.at = "save" /\ r.account = account /\ r.p = proc[q].p
        /\ r.token = proc[q].token /\ r.copy = proc[q].copy
    BY <1>1, <2>1 DEF CommandRec, CommandAt
  <2>3. config.account # NoAccount => ResolvesIn(config, ring)
    BY <1>1, SafeWhenIdle DEF Forgetting
  <2>4. CommandSafe(r, config, ring)
    BY <1>1, <2>1, <2>2, <2>3 DEF CommandSafe
  <2> QED
    BY <1>1, <1>3, <2>2, <2>4, CommandWaits DEF Validate
<1> QED
  BY <1>2, <1>3 DEF Validate

\* The file with one provider's token changed.
LEMMA NewConfig ==
    ASSUME Proper(config), NEW p \in Provider, NEW t \in AnyToken,
           t \in Tokens[p] \cup {NoToken}
    PROVE  LET new == [config EXCEPT !.tokens[p] = t] IN
           /\ Proper(new) /\ new.account = config.account
           /\ p = "circleci" => new.tokens["circleci"] = t
           /\ p # "circleci" => new.tokens["circleci"] = config.tokens["circleci"]
<1> DEFINE tokens == [config.tokens EXCEPT ![p] = t]
           new == [config EXCEPT !.tokens[p] = t]
<1>1. config \in ConfigRec /\ config.tokens \in [FileBacked -> AnyToken]
      /\ config.account \in Account
  BY DEF Proper, ConfigRec
<1>2. /\ tokens \in [FileBacked -> AnyToken]
      /\ \A f \in FileBacked : tokens[f] \in Tokens[f] \cup {NoToken}
      /\ "circleci" \in FileBacked
      /\ p = "circleci" => tokens["circleci"] = t
      /\ p # "circleci" => tokens["circleci"] = config.tokens["circleci"]
  BY <1>1 DEF Proper, FileBacked, Provider
<1>3. new = [config EXCEPT !.tokens = tokens]
  BY <1>1 DEF ConfigRec
<1> HIDE DEF tokens
<1>4. new \in ConfigRec /\ new.tokens = tokens /\ new.account = config.account
  BY <1>1, <1>2, <1>3 DEF ConfigRec
<1> HIDE DEF new
<1>5. Proper(new)
  BY <1>2, <1>4 DEF Proper
<1> QED
  BY <1>2, <1>4, <1>5 DEF new

LEMMA SaveHolds ==
    ASSUME OneProcess, CredentialsAssumption, CredentialsInv, NEW q \in Proc, Save(q)
    PROVE  CredentialsInv'
<1> DEFINE after == IF proc[q].account = NoAccount THEN "told" ELSE "identify"
<1>1. /\ proc[q] \in CommandRec /\ Proper(proc[q].copy) /\ proc[q].at = "save"
      /\ proc[q].token \in Tokens[proc[q].p] /\ proc[q].token # NoToken
      /\ proc[q].p \in Provider
      /\ proc[q].account # NoAccount => proc[q].p = "circleci"
      /\ config.account # NoAccount => ResolvesIn(config, ring)
  BY SafeWhenIdle DEF CredentialsInv, CredentialsTyped, CommandSafe, Save, In, Forgetting,
                      CommandRec, CredentialsAssumption
<1>2. Proper(config) /\ ring \in [Provider -> AnyToken]
      /\ \A p \in Provider : ring[p] \in Tokens[p] \cup {NoToken}
  BY DEF CredentialsInv, CredentialsTyped
<1>3. config' = config
  BY DEF Save
<1>4. CASE Becomes(q, Idle) /\ UNCHANGED ring
  BY <1>1, <1>3, <1>4, BecomesIdle DEF Forgetting, Stores
<1>5. CASE /\ ring' = [ring EXCEPT ![proc[q].p] = proc[q].token]
           /\ Becomes(q, [proc[q] EXCEPT !.at = after, !.told = "saved"])
  <2> DEFINE r == [proc[q] EXCEPT !.at = after, !.told = "saved"]
  <2>1. r \in CommandRec /\ r.at = after /\ r.copy = proc[q].copy
    BY <1>1 DEF CommandRec, CommandAt
  <2>2. proc[q].token \in AnyToken
    BY <1>1 DEF CommandRec
  <2>3. ring' \in [Provider -> AnyToken] /\ \A p \in Provider : ring'[p] \in Tokens[p] \cup {NoToken}
    BY <1>1, <1>2, <1>5, <2>2
  <2>4. ring'["circleci"] # NoToken \/ ring'["circleci"] = ring["circleci"]
    BY <1>1, <1>2, <1>5
  <2>5. config.account # NoAccount => ResolvesIn(config, ring')
    BY <1>1, <2>4 DEF ResolvesIn
  <2>6. proc[q].account # NoAccount => ResolvesIn(config, ring')
    BY <1>1, <1>2, <1>5 DEF ResolvesIn, Provider
  <2>7. CommandSafe(r, config, ring')
    BY <2>1, <2>5, <2>6 DEF CommandSafe
  <2> QED
    BY <1>1, <1>2, <1>3, <1>5, <2>1, <2>3, <2>7, CommandMoves
<1>6. CASE /\ UNCHANGED ring
           /\ Becomes(q, [proc[q] EXCEPT !.at = "write", !.told = "saved",
                              !.copy = [config EXCEPT !.tokens[proc[q].p] = proc[q].token]])
  <2> DEFINE new == [config EXCEPT !.tokens[proc[q].p] = proc[q].token]
             r == [proc[q] EXCEPT !.at = "write", !.told = "saved", !.copy = new]
  <2>1. proc[q].token \in AnyToken
    BY <1>1 DEF CommandRec
  <2>2. Proper(new) /\ new.account = config.account
        /\ (proc[q].p = "circleci" => new.tokens["circleci"] # NoToken)
        /\ (proc[q].p # "circleci" => new.tokens["circleci"] = config.tokens["circleci"])
    BY <1>1, <1>2, <2>1, NewConfig
  <2> HIDE DEF new
  <2>3. r \in CommandRec /\ r.at = "write" /\ r.told = "saved" /\ r.copy = new
        /\ r.account = proc[q].account
    BY <1>1, <2>2 DEF CommandRec, CommandAt, Proper
  <2>4. new.account # NoAccount => ResolvesIn(new, ring)
    BY <1>1, <2>2 DEF ResolvesIn
  <2>5. proc[q].account # NoAccount => ResolvesIn(new, ring)
    BY <1>1, <2>2 DEF ResolvesIn
  <2>6. CommandSafe(r, config, ring)
    BY <1>1, <2>3, <2>4, <2>5 DEF CommandSafe, CopySafe
  <2>7. Becomes(q, r)
    BY <1>6 DEF new
  <2> QED
    BY <1>3, <1>6, <2>2, <2>3, <2>6, <2>7, CommandWaits DEF Stores
<1> QED
  BY <1>4, <1>5, <1>6 DEF Save

LEMMA SaveUserIDHolds ==
    ASSUME OneProcess, CredentialsAssumption, CredentialsInv, NEW q \in Proc, SaveUserID(q)
    PROVE  CredentialsInv'
<1> DEFINE new == [config EXCEPT !.account = proc[q].account]
           r == [proc[q] EXCEPT !.at = "write", !.copy = new, !.account = NoAccount]
<1>1. /\ proc[q] \in CommandRec /\ proc[q].account \in Account /\ Proper(config)
      /\ ResolvesIn(config, ring) /\ proc[q].at = "identify"
  BY DEF CredentialsInv, CredentialsTyped, CommandSafe, SaveUserID, In, CommandRec
<1>2. Proper(new) /\ new.tokens = config.tokens
  BY <1>1 DEF Proper, ConfigRec
<1>3. ResolvesIn(new, ring)
  BY <1>1, <1>2 DEF ResolvesIn
<1> HIDE DEF new
<1>4. r \in CommandRec /\ r.at = "write" /\ r.copy = new /\ r.account = NoAccount
      /\ r.told = proc[q].told
  BY <1>1, <1>2, NothingStored DEF CommandRec, CommandAt, Proper
<1>5. proc[q].told \in {"nothing", "saved"}
  BY <1>1 DEF CredentialsInv, CommandSafe
<1>6. CommandSafe(r, config, ring)
  BY <1>1, <1>3, <1>4, <1>5 DEF CommandSafe, CopySafe
<1>7. Becomes(q, r) /\ Stores
  BY DEF SaveUserID, new
<1> QED
  BY <1>2, <1>4, <1>6, <1>7, CommandWaits

LEMMA WriteHolds ==
    ASSUME OneProcess, CredentialsAssumption, CredentialsInv, NEW q \in Proc, WriteConfig(q)
    PROVE  CredentialsInv'
<1> DEFINE c == proc[q]
           r == AfterWrite(q)
<1>1. /\ c \in CommandRec /\ Proper(c.copy) /\ c.at = "write" /\ CopySafe(c, ring)
      /\ config' = c.copy /\ ring' = ring /\ Becomes(q, r)
  BY DEF CredentialsInv, CredentialsTyped, CommandSafe, WriteConfig, In
<1>2. ring \in [Provider -> AnyToken]
      /\ \A p \in Provider : ring[p] \in Tokens[p] \cup {NoToken}
  BY DEF CredentialsInv, CredentialsTyped
<1>3. r \in CommandRec /\ Proper(r.copy)
  BY <1>1, IdleIs DEF AfterWrite, CommandRec, CommandAt
<1>4. CommandSafe(r, c.copy, ring)
  <2>1. CASE c.told = "nothing"
    BY <1>1, <2>1, IdleIs DEF AfterWrite, CopySafe, CommandSafe
  <2>2. CASE c.told = "removed"
    <3>1. r.at = "forget" /\ r.p = c.p
      BY <1>1, <2>2 DEF AfterWrite, CommandRec
    <3> QED
      BY <1>1, <2>2, <3>1 DEF CopySafe, CommandSafe, Forgetting
  <2>3. CASE c.told = "forgot"
    <3>1. r.at = "told"
      BY <1>1, <2>3 DEF AfterWrite, CommandRec
    <3> QED
      BY <1>1, <2>3, <3>1 DEF CopySafe, CommandSafe
  <2>4. CASE c.told = "saved"
    <3>1. r.at = (IF c.account = NoAccount THEN "told" ELSE "identify") /\ r.told = c.told
      BY <1>1, <2>4 DEF AfterWrite, CommandRec
    <3> QED
      BY <1>1, <2>4, <3>1 DEF CopySafe, CommandSafe
  <2> QED
    BY <1>1, <2>1, <2>2, <2>3, <2>4 DEF CommandRec, CopySafe
<1> QED
  BY <1>1, <1>2, <1>3, <1>4, CommandMoves

LEMMA RemoveHolds ==
    ASSUME OneProcess, CredentialsAssumption, CredentialsInv, NEW q \in Proc,
           NEW p \in Provider, NEW insecure \in BOOLEAN, NEW next \in {"forget", "told"},
           p = "circleci" => next = "forget", RemoveStored(q, p, insecure, next)
    PROVE  CredentialsInv'
<1> DEFINE r == [Idle EXCEPT !.p = p, !.insecure = insecure, !.told = "removed"]
<1>1. /\ Proper(config) /\ ring \in [Provider -> AnyToken]
      /\ \A x \in Provider : ring[x] \in Tokens[x] \cup {NoToken}
      /\ config.account # NoAccount => ResolvesIn(config, ring)
      /\ config' = config
  BY SafeWhenIdle DEF CredentialsInv, CredentialsTyped, RemoveStored, In, Forgetting
<1>2. r \in CommandRec /\ r.p = p /\ r.told = "removed" /\ r.copy = Idle.copy
      /\ r.account = NoAccount
  BY IdleIs DEF CommandRec
<1> HIDE DEF r
<1>3. CASE insecure
  <2> DEFINE new == [config EXCEPT !.tokens[p] = NoToken]
             w == [r EXCEPT !.at = "write", !.copy = new]
  <2>1. Proper(new) /\ new.account = config.account
        /\ (p # "circleci" => new.tokens["circleci"] = config.tokens["circleci"])
    BY <1>1, NothingStored, NewConfig
  <2>2. Becomes(q, w) /\ Stores
    BY <1>3 DEF RemoveStored, r, Stores
  <2> HIDE DEF new
  <2>3. w \in CommandRec /\ w.at = "write" /\ w.told = "removed" /\ w.copy = new
        /\ w.p = p /\ w.account = NoAccount
    BY <1>2, <2>1 DEF CommandRec, CommandAt, Proper
  <2>4. CopySafe(w, ring)
    BY <1>1, <2>1, <2>3 DEF CopySafe, ResolvesIn
  <2>5. CommandSafe(w, config, ring)
    BY <1>1, <2>3, <2>4 DEF CommandSafe
  <2> QED
    BY <2>1, <2>2, <2>3, <2>5, CommandWaits
<1>4. CASE ~insecure
  <2> DEFINE w == [r EXCEPT !.at = next]
  <2>1. w \in CommandRec /\ w.at = next /\ w.p = p /\ w.copy = Idle.copy
        /\ w.account = NoAccount
    BY <1>2 DEF CommandRec, CommandAt
  <2>2. ring' = [ring EXCEPT ![p] = NoToken] /\ Becomes(q, w)
    BY <1>4 DEF RemoveStored, r
  <2>3. /\ ring' \in [Provider -> AnyToken]
        /\ \A x \in Provider : ring'[x] \in Tokens[x] \cup {NoToken}
        /\ (p # "circleci" => ring'["circleci"] = ring["circleci"])
    BY <1>1, <2>2, NothingStored DEF Provider
  <2>4. CommandSafe(w, config, ring')
    BY <1>1, <2>1, <2>3 DEF CommandSafe, ResolvesIn, Forgetting
  <2> QED
    BY <1>1, <2>1, <2>2, <2>3, <2>4, IdleIs, CommandMoves
<1> QED
  BY <1>3, <1>4

LEMMA ClearHolds ==
    ASSUME OneProcess, CredentialsAssumption, CredentialsInv, NEW q \in Proc, ClearUserID(q)
    PROVE  CredentialsInv'
<1>1. /\ proc[q] \in CommandRec /\ Proper(proc[q].copy) /\ Proper(config)
      /\ proc[q].at = "forget" /\ Stores
      /\ config.account # NoAccount => ResolvesIn(config, ring) \/ proc[q].p = "circleci"
  BY DEF CredentialsInv, CredentialsTyped, CommandSafe, ClearUserID, In, Forgetting
<1>2. Forgets(q) <=> ~ResolvesIn(config, ring)
  BY ResolvesSomewhere DEF Forgets
<1>3. CASE proc[q].p = "circleci" /\ Forgets(q)
  <2> DEFINE new == [config EXCEPT !.account = NoAccount]
             r == [proc[q] EXCEPT !.at = "write", !.told = "forgot", !.copy = new]
  <2>1. Becomes(q, r)
    BY <1>3 DEF ClearUserID
  <2>2. Proper(new) /\ new.account = NoAccount
    BY <1>1, NothingStored DEF Proper, ConfigRec
  <2> HIDE DEF new
  <2>3. r \in CommandRec /\ r.at = "write" /\ r.told = "forgot" /\ r.copy = new
    BY <1>1, <2>2 DEF CommandRec, CommandAt, Proper
  <2>4. CommandSafe(r, config, ring)
    BY <2>2, <2>3 DEF CommandSafe, CopySafe, Forgetting
  <2> QED
    BY <1>1, <2>1, <2>2, <2>3, <2>4, CommandWaits
<1>4. CASE ~(proc[q].p = "circleci" /\ Forgets(q))
  <2> DEFINE r == [proc[q] EXCEPT !.at = "told"]
  <2>1. r \in CommandRec /\ r.at = "told" /\ r.copy = proc[q].copy
    BY <1>1 DEF CommandRec, CommandAt
  <2>2. CommandSafe(r, config, ring)
    BY <1>1, <1>2, <1>4, <2>1 DEF CommandSafe
  <2>3. Becomes(q, r)
    BY <1>4 DEF ClearUserID
  <2> QED
    BY <1>1, <2>1, <2>2, <2>3, CommandWaits
<1> QED
  BY <1>3, <1>4

LEMMA CredentialsNextHolds ==
    ASSUME OneProcess, CredentialsAssumption, CredentialsInv, [NextCredentials]_credentialVars
    PROVE  CredentialsInv'
<1>1. ASSUME NEW q \in Proc,
             \/ SetCircleCI(q) \/ SetAnthropic(q) \/ SetGitHub(q) \/ AuthLogin(q)
             \/ EnsureCircleCI(q) \/ EnsureAnthropic(q) \/ EnsureGitHub(q)
      PROVE  CredentialsInv'
  <2>1. PICK p \in Provider, insecure \in BOOLEAN :
            In(q, "idle") /\ Stores /\ Takes(q, p, insecure, "validate")
    BY <1>1 DEF SetCircleCI, SetAnthropic, SetGitHub, AuthLogin, EnsureCircleCI,
                EnsureAnthropic, EnsureGitHub, Provider
  <2> QED
    BY <2>1, TakesHolds
<1>2. ASSUME NEW q \in Proc, SetAnthropicOAuth(q) PROVE CredentialsInv'
  <2>1. "oauth" \in Provider /\ In(q, "idle") /\ Stores /\ Takes(q, "oauth", FALSE, "save")
    BY <1>2 DEF SetAnthropicOAuth, Provider
  <2> QED
    BY <2>1, TakesHolds
<1>3. ASSUME NEW q \in Proc,
             RemoveCircleCI(q) \/ RemoveAnthropic(q) \/ RemoveGitHub(q)
             \/ RemoveAnthropicOAuth(q)
      PROVE  CredentialsInv'
  <2>1. PICK p \in Provider, insecure \in BOOLEAN, next \in {"forget", "told"} :
            (p = "circleci" => next = "forget") /\ RemoveStored(q, p, insecure, next)
    BY <1>3 DEF RemoveCircleCI, RemoveAnthropic, RemoveGitHub, RemoveAnthropicOAuth, Provider
  <2> QED
    BY <2>1, RemoveHolds
<1>4. ASSUME NEW q \in Proc, Leave(q) PROVE CredentialsInv'
  BY <1>4, BecomesIdle DEF Leave, In, Forgetting
<1>5. CASE UNCHANGED credentialVars
  BY <1>5 DEF credentialVars, CredentialsInv, CredentialsTyped, Proper, CommandSafe, CopySafe,
              ResolvesIn
<1> QED
  BY <1>1, <1>2, <1>3, <1>4, <1>5, BackfillHolds, ValidateHolds, SaveHolds, SaveUserIDHolds,
     WriteHolds, ClearHolds DEF NextCredentials

LEMMA CredentialsInvHolds ==
    ASSUME OneProcess, CredentialsAssumption, CredentialsInv
    PROVE  CredentialsTypeOK /\ LoggedOutIsAnonymous
<1>1. CredentialsTypeOK
  <2>1. \A q \in Proc : proc[q].at \in CommandAt
    BY DEF CredentialsInv, CredentialsTyped, CommandRec
  <2>2. config.account \in Account
    BY DEF CredentialsInv, CredentialsTyped, Proper, ConfigRec
  <2> QED
    BY <2>1, <2>2 DEF CredentialsInv, CredentialsTyped, Proper, CommandAt, Account,
                      CredentialsTypeOK
<1>2. LoggedOutIsAnonymous
  <2>1. PICK q \in Proc : TRUE
    BY DEF OneProcess
  <2>2. ASSUME AtRest, config.account # NoAccount PROVE ResolveCircleCI(FALSE) # NoToken
    <3>1. ResolvesIn(config, ring)
      BY <2>2, SafeWhenIdle DEF AtRest, In, Forgetting
    <3> QED
      BY <3>1, ResolvesSomewhere
  <2> QED
    BY <2>2 DEF LoggedOutIsAnonymous
<1> QED
  BY <1>1, <1>2

\* Between commands an account is on record only while a CircleCI token resolves,
\* wherever each token was kept, for any tokens and any environment, as long as one
\* command runs at a time (ClearUserID, SaveUserID).
THEOREM LoggedOutStaysAnonymous ==
    ASSUME CredentialsAssumption, OneProcess
    PROVE  SpecCredentials => [](CredentialsTypeOK /\ LoggedOutIsAnonymous)
<1>1. InitCredentials => CredentialsInv
  BY CredentialsInitHolds
<1>2. CredentialsInv /\ [NextCredentials]_credentialVars => CredentialsInv'
  BY CredentialsNextHolds
<1>3. CredentialsInv => CredentialsTypeOK /\ LoggedOutIsAnonymous
  BY CredentialsInvHolds
<1> QED
  BY <1>1, <1>2, <1>3, PTL DEF SpecCredentials

-----------------------------------------------------------------------------
(***************************************************************************)
(* EventLog: the daemon takes the events in their order and none twice,    *)
(* for any processes that append and trim, and any lengths.                *)
(***************************************************************************)

\* The events of s come in the order they were written in, and e is the last that was.
Ordered(s, e) ==
    /\ s \in Seq(Nat)
    /\ \A i \in 1..Len(s) : s[i] <= e
    /\ \A i, j \in 1..Len(s) : i < j => s[i] < s[j]

\* They are no fewer than their places say: the log has never more lines than events.
Placed(s) == \A i \in 1..Len(s) : i <= s[i]

Ids(n) == {<<w, m>> : w \in Writer, m \in 0..n}

WriterShaped ==
    writer = [w \in Writer |-> [at |-> writer[w].at, lines |-> writer[w].lines,
                                pending |-> writer[w].pending]]

\* What a process read of a long log may be older than the log.
ReadsOrdered ==
    \A w \in Writer :
        /\ writer[w].at \in {"closed", "trim", "open"}
        /\ writer[w].at = "trim" => /\ Ordered(writer[w].lines, events)
                                    /\ Placed(writer[w].lines)
                                    /\ Len(writer[w].lines) > MaxLogLines

\* A log that was never trimmed holds every event; one that was is never shorter than
\* what is left of it.  So what the daemon has not yet read is newer than what it keeps.
TailBehind ==
    /\ tail = [offset |-> tail.offset, kept |-> tail.kept]
    /\ tail.offset \in 0..events
    /\ Ordered(tail.kept, events) /\ Len(tail.kept) <= RecentEvents
    /\ Len(log) < TrimToLines => events = Len(log)
    /\ tail.offset < TrimToLines => \A j \in 1..Len(tail.kept) : tail.kept[j] <= tail.offset
    /\ \A i \in 1..Len(log), j \in 1..Len(tail.kept) :
           i > tail.offset => tail.kept[j] < log[i]

\* An id is written once: the one a process holds has not been, and no other holds it.
StampedOnce ==
    /\ stamped \in Seq(Ids(events))
    /\ \A i, j \in 1..Len(stamped) : i < j => stamped[i] # stamped[j]
    /\ \A w \in Writer :
        \/ writer[w].pending = <<>>
        \/ \E m \in 0..(events + 1) :
              /\ writer[w].pending = <<w, m>>
              /\ \A i \in 1..Len(stamped) : stamped[i] # <<w, m>>

LogInv ==
    /\ events \in 0..MaxEvents /\ Ordered(log, events) /\ Placed(log)
    /\ WriterShaped /\ ReadsOrdered /\ TailBehind /\ StampedOnce

-----------------------------------------------------------------------------
(* Sequences of events. *)

LEMMA LastOfIs ==
    ASSUME NEW S, NEW s \in Seq(S), NEW n \in Nat
    PROVE  /\ LastOf(s, n) \in Seq(S)
           /\ Len(LastOf(s, n)) = IF Len(s) > n THEN n ELSE Len(s)
           /\ \A i \in 1..Len(LastOf(s, n)) :
                 LastOf(s, n)[i] = s[IF Len(s) > n THEN Len(s) - n + i ELSE i]
<1> DEFINE m == IF Len(s) > n THEN Len(s) - n + 1 ELSE 1
<1>1. Len(s) \in Nat /\ m \in 1..(Len(s) + 1)
  BY LenProperties
<1>2. LastOf(s, n) = SubSeq(s, m, Len(s))
  BY DEF LastOf
<1>3. /\ SubSeq(s, m, Len(s)) \in Seq(S)
      /\ Len(SubSeq(s, m, Len(s))) = IF m <= Len(s) THEN Len(s) - m + 1 ELSE 0
      /\ \A i \in 1..(Len(s) - m + 1) : SubSeq(s, m, Len(s))[i] = s[m + i - 1]
  <2>1. m..Len(s) \subseteq 1..Len(s)
    BY <1>1
  <2>2. \A i \in m..Len(s) : s[i] \in S
    BY <2>1, ElementOfSeq
  <2> HIDE DEF m
  <2> QED
    BY <1>1, <2>1, <2>2, SubSeqProperties
<1> DEFINE t == SubSeq(s, m, Len(s))
<1>4. CASE Len(s) > n
  <2>1. m = Len(s) - n + 1 /\ Len(s) - m + 1 = n
    BY <1>1, <1>4
  <2> HIDE DEF m
  <2>2. /\ t \in Seq(S) /\ Len(t) = IF m <= Len(s) THEN n ELSE 0
        /\ \A i \in 1..n : t[i] = s[m + i - 1]
    BY <1>3, <2>1
  <2> HIDE DEF t
  <2>3. Len(t) = n /\ \A i \in 1..n : t[i] = s[Len(s) - n + i]
    <3>1. \A i \in 1..n : m + i - 1 = Len(s) - n + i
      BY <1>1, <2>1
    <3> QED
      BY <1>1, <1>4, <2>1, <2>2, <3>1
  <2> QED
    BY <1>2, <1>4, <2>2, <2>3 DEF t
<1>5. CASE ~(Len(s) > n)
  <2>1. m = 1 /\ Len(s) - m + 1 = Len(s)
    BY <1>1, <1>5
  <2> HIDE DEF m
  <2>2. /\ t \in Seq(S) /\ Len(t) = IF m <= Len(s) THEN Len(s) ELSE 0
        /\ \A i \in 1..Len(s) : t[i] = s[m + i - 1]
    BY <1>3, <2>1
  <2> HIDE DEF t
  <2>3. Len(t) = Len(s) /\ \A i \in 1..Len(s) : t[i] = s[i]
    <3>1. \A i \in 1..Len(s) : m + i - 1 = i
      BY <1>1, <2>1
    <3> QED
      BY <1>1, <1>5, <2>1, <2>2, <3>1
  <2> QED
    BY <1>2, <1>5, <2>2, <2>3 DEF t
<1> QED
  BY <1>4, <1>5

LEMMA LastOfOrdered ==
    ASSUME NEW s, NEW e \in Nat, Ordered(s, e), NEW n \in Nat
    PROVE  /\ Ordered(LastOf(s, n), e)
           /\ Placed(s) => Placed(LastOf(s, n))
           /\ Len(LastOf(s, n)) = IF Len(s) > n THEN n ELSE Len(s)
<1> DEFINE t == LastOf(s, n)
           d == IF Len(s) > n THEN Len(s) - n ELSE 0
<1>1. /\ s \in Seq(Nat) /\ t \in Seq(Nat) /\ Len(s) \in Nat /\ Len(t) \in Nat
      /\ Len(t) = IF Len(s) > n THEN n ELSE Len(s)
      /\ \A i \in 1..Len(t) : t[i] = s[IF Len(s) > n THEN Len(s) - n + i ELSE i]
  BY LastOfIs, LenProperties DEF Ordered
<1>2. d \in Nat /\ d + Len(t) = Len(s)
  BY <1>1
<1>3. \A i \in 1..Len(t) : t[i] = s[d + i] /\ d + i \in 1..Len(s)
  BY <1>1
<1>4. /\ \A i \in 1..Len(s) : s[i] \in Nat /\ s[i] <= e
      /\ \A i, j \in 1..Len(s) : i < j => s[i] < s[j]
  BY <1>1, ElementOfSeq DEF Ordered
<1> HIDE DEF d, t
<1>5. Ordered(t, e)
  <2>1. \A i \in 1..Len(t) : t[i] <= e
    BY <1>3, <1>4
  <2>2. ASSUME NEW i \in 1..Len(t), NEW j \in 1..Len(t), i < j
        PROVE  t[i] < t[j]
    <3>1. d + i < d + j
      BY <1>1, <1>2, <2>2
    <3> QED
      BY <1>3, <1>4, <2>2, <3>1
  <2> QED
    BY <1>1, <2>1, <2>2 DEF Ordered
<1>6. Placed(s) => Placed(t)
  <2> SUFFICES ASSUME Placed(s), NEW i \in 1..Len(t)
               PROVE  i <= t[i]
    BY DEF Placed
  <2>1. t[i] = s[d + i] /\ d + i \in 1..Len(s) /\ s[d + i] \in Nat
    BY <1>3, <1>4
  <2>2. d + i <= s[d + i]
    BY <2>1 DEF Placed
  <2> QED
    BY <1>1, <1>2, <2>1, <2>2
<1> QED
  BY <1>1, <1>5, <1>6 DEF t

LEMMA AppendOrdered ==
    ASSUME NEW s, NEW e \in Nat, Ordered(s, e), Placed(s)
    PROVE  /\ Ordered(Append(s, e + 1), e + 1) /\ Placed(Append(s, e + 1))
           /\ Len(Append(s, e + 1)) = Len(s) + 1
           /\ Append(s, e + 1)[Len(s) + 1] = e + 1
           /\ \A i \in 1..Len(s) : Append(s, e + 1)[i] = s[i]
           /\ Len(s) <= e
<1> DEFINE t == Append(s, e + 1)
<1>1. /\ s \in Seq(Nat) /\ t \in Seq(Nat) /\ Len(s) \in Nat /\ Len(t) = Len(s) + 1
      /\ \A i \in 1..Len(s) : t[i] = s[i]
      /\ t[Len(s) + 1] = e + 1
  BY AppendProperties, LenProperties DEF Ordered
<1>2. \A i \in 1..Len(s) : s[i] \in Nat /\ s[i] <= e
  BY <1>1, ElementOfSeq DEF Ordered
<1>3. Len(s) <= e
  BY <1>1, <1>2 DEF Placed
<1> HIDE DEF t
<1>4. Ordered(t, e + 1)
  <2>1. \A i, j \in 1..Len(s) : i < j => s[i] < s[j]
    BY DEF Ordered
  <2>2. ASSUME NEW i \in 1..Len(t) PROVE t[i] \in Nat /\ t[i] <= e + 1
    <3>1. CASE i = Len(s) + 1
      BY <1>1, <3>1
    <3>2. CASE i # Len(s) + 1
      <4>1. i \in 1..Len(s)
        BY <1>1, <3>2
      <4>2. t[i] = s[i] /\ s[i] \in Nat /\ s[i] <= e
        BY <1>1, <1>2, <4>1
      <4> QED
        BY <4>2
    <3> QED
      BY <3>1, <3>2
  <2>3. ASSUME NEW i \in 1..Len(t), NEW j \in 1..Len(t), i < j PROVE t[i] < t[j]
    <3>1. i \in 1..Len(s) /\ t[i] = s[i]
      BY <1>1, <2>3
    <3>2. CASE j = Len(s) + 1
      BY <1>1, <1>2, <3>1, <3>2
    <3>3. CASE j # Len(s) + 1
      <4>1. j \in 1..Len(s) /\ t[j] = s[j]
        BY <1>1, <3>3
      <4> QED
        BY <2>1, <2>3, <3>1, <4>1
    <3> QED
      BY <3>2, <3>3
  <2> QED
    BY <1>1, <2>2, <2>3 DEF Ordered
<1>5. Placed(t)
  BY <1>1, <1>2, <1>3 DEF Placed
<1> QED
  BY <1>1, <1>3, <1>4, <1>5 DEF t

\* More events do not disorder a sequence.
LEMMA OrderedLater ==
    ASSUME NEW s, NEW e \in Nat, Ordered(s, e)
    PROVE  Ordered(s, e + 1)
<1>1. \A i \in 1..Len(s) : s[i] \in Nat
  BY ElementOfSeq DEF Ordered
<1> QED
  BY <1>1 DEF Ordered

\* What is read after what is kept is in order.
LEMMA JoinOrdered ==
    ASSUME NEW s, NEW t, NEW e \in Nat, Ordered(s, e), Ordered(t, e),
           \A i \in 1..Len(s), j \in 1..Len(t) : s[i] < t[j]
    PROVE  Ordered(s \o t, e)
<1>1. /\ s \in Seq(Nat) /\ t \in Seq(Nat) /\ Len(s) \in Nat /\ Len(t) \in Nat
      /\ s \o t \in Seq(Nat) /\ Len(s \o t) = Len(s) + Len(t)
  BY ConcatProperties, LenProperties DEF Ordered
<1>2. \A i \in 1..Len(s \o t) : (s \o t)[i] = IF i <= Len(s) THEN s[i] ELSE t[i - Len(s)]
  BY <1>1, ConcatProperties
<1> DEFINE u == s \o t
<1> HIDE DEF u
<1>3. \A i \in 1..Len(u) : u[i] = IF i <= Len(s) THEN s[i] ELSE t[i - Len(s)]
  BY <1>2 DEF u
<1>4. Len(u) = Len(s) + Len(t) /\ u \in Seq(Nat)
  BY <1>1 DEF u
<1>5. /\ \A i \in 1..Len(s) : s[i] \in Nat /\ s[i] <= e
      /\ \A i, j \in 1..Len(s) : i < j => s[i] < s[j]
      /\ \A i \in 1..Len(t) : t[i] \in Nat /\ t[i] <= e
      /\ \A i, j \in 1..Len(t) : i < j => t[i] < t[j]
  BY <1>1, ElementOfSeq DEF Ordered
<1>6. ASSUME NEW i \in 1..Len(u)
      PROVE  \/ i \in 1..Len(s) /\ u[i] = s[i]
             \/ i > Len(s) /\ i - Len(s) \in 1..Len(t) /\ u[i] = t[i - Len(s)]
  BY <1>1, <1>3, <1>4
<1>7. \A i \in 1..Len(u) : u[i] <= e
  BY <1>5, <1>6
<1>8. ASSUME NEW i \in 1..Len(u), NEW j \in 1..Len(u), i < j
      PROVE  u[i] < u[j]
  <2>1. CASE j \in 1..Len(s) /\ u[j] = s[j]
    <3>1. i \in 1..Len(s)
      BY <1>1, <1>4, <1>8, <2>1
    <3>2. ~(i > Len(s))
      BY <1>1, <3>1
    <3>3. u[i] = s[i]
      BY <1>6, <3>2
    <3> QED
      BY <1>5, <1>8, <2>1, <3>1, <3>3
  <2>2. CASE j > Len(s) /\ j - Len(s) \in 1..Len(t) /\ u[j] = t[j - Len(s)]
    <3>1. CASE i \in 1..Len(s) /\ u[i] = s[i]
      BY <2>2, <3>1
    <3>2. CASE i > Len(s) /\ i - Len(s) \in 1..Len(t) /\ u[i] = t[i - Len(s)]
      <4>1. i - Len(s) < j - Len(s)
        BY <1>1, <1>8
      <4> QED
        BY <1>5, <2>2, <3>2, <4>1
    <3> QED
      BY <1>6, <3>1, <3>2
  <2> QED
    BY <1>6, <2>1, <2>2
<1> QED
  BY <1>4, <1>7, <1>8 DEF Ordered, u
LEMMA TypeOfLog ==
    ASSUME LogAssumption, LogInv
    PROVE  LogTypeOK
<1>1. events \in 0..MaxEvents /\ MaxEvents \in Nat /\ tail.offset \in 0..events
  BY DEF LogAssumption, LogInv, TailBehind
<1>2. tail.offset \in 0..MaxEvents
  BY <1>1
<1> QED
  BY <1>1, <1>2 DEF LogTypeOK, LogInv, TailBehind, ReadsOrdered

-----------------------------------------------------------------------------
(* The steps. *)

LEMMA LogInit ==
    ASSUME LogAssumption, InitLog
    PROVE  LogInv
<1>1. <<>> \in Seq(Nat) /\ Len(<<>>) = 0 /\ <<>> \in Seq(Ids(0))
  BY EmptySeq
<1>2. Ordered(<<>>, 0) /\ Placed(<<>>)
  BY <1>1 DEF Ordered, Placed
<1>3. Opened = [at |-> "open", lines |-> <<>>, pending |-> <<>>]
      /\ [Opened EXCEPT !.at = "closed"] = [at |-> "closed", lines |-> <<>>, pending |-> <<>>]
  BY DEF Opened
<1>4. WriterShaped /\ ReadsOrdered /\ \A w \in Writer : writer[w].pending = <<>>
  BY <1>3 DEF InitLog, WriterShaped, ReadsOrdered
<1>5. StampedOnce
  BY <1>1, <1>4 DEF InitLog, StampedOnce
<1>6. TailBehind
  BY <1>1, <1>2 DEF InitLog, TailBehind, LogAssumption
<1> QED
  BY <1>2, <1>4, <1>5, <1>6 DEF InitLog, LogInv, LogAssumption

\* The process that moves is the only one whose state changes.
LEMMA WriterMoves ==
    ASSUME WriterShaped, NEW w \in Writer, NEW r, writer' = [writer EXCEPT ![w] = r],
           r = [at |-> r.at, lines |-> r.lines, pending |-> r.pending]
    PROVE  WriterShaped' /\ writer'[w] = r /\ \A v \in Writer : v # w => writer'[v] = writer[v]
<1>1. writer = [v \in Writer |-> writer[v]]
  BY DEF WriterShaped
<1>2. writer' = [v \in Writer |-> IF v = w THEN r ELSE writer[v]]
  BY <1>1
<1>3. \A v \in Writer : writer'[v] = [at |-> writer'[v].at, lines |-> writer'[v].lines,
                                     pending |-> writer'[v].pending]
  BY <1>2 DEF WriterShaped
<1> QED
  BY <1>2, <1>3 DEF WriterShaped

\* A step that writes no event and leaves the ids as they were, or fewer.
LEMMA NothingWritten ==
    ASSUME LogInv, UNCHANGED <<events, stamped>>, NEW w \in Writer,
           \A v \in Writer : v # w => writer'[v] = writer[v],
           writer'[w].pending \in {<<>>, writer[w].pending},
           WriterShaped', writer'[w].at \in {"closed", "trim", "open"},
           writer'[w].at = "trim" => /\ Ordered(writer'[w].lines, events)
                                     /\ Placed(writer'[w].lines)
                                     /\ Len(writer'[w].lines) > MaxLogLines
    PROVE  ReadsOrdered' /\ StampedOnce'
<1>1. ReadsOrdered'
  BY DEF LogInv, ReadsOrdered
<1>2. \A v \in Writer : writer'[v].pending \in {<<>>, writer[v].pending}
  OBVIOUS
<1>3. StampedOnce'
  <2>1. /\ stamped' \in Seq(Ids(events'))
        /\ \A i, j \in 1..Len(stamped') : i < j => stamped'[i] # stamped'[j]
    BY DEF LogInv, StampedOnce
  <2>2. ASSUME NEW v \in Writer
        PROVE  \/ writer'[v].pending = <<>>
               \/ \E m \in 0..(events' + 1) :
                      /\ writer'[v].pending = <<v, m>>
                      /\ \A i \in 1..Len(stamped') : stamped'[i] # <<v, m>>
    <3>1. CASE writer'[v].pending = <<>>
      BY <3>1
    <3>2. CASE writer'[v].pending = writer[v].pending /\ writer[v].pending # <<>>
      <4>1. PICK m \in 0..(events + 1) :
                /\ writer[v].pending = <<v, m>>
                /\ \A i \in 1..Len(stamped) : stamped[i] # <<v, m>>
        BY <3>2 DEF LogInv, StampedOnce
      <4>2. writer'[v].pending = <<v, m>> /\ m \in 0..(events' + 1)
        BY <3>2, <4>1
      <4>3. \A i \in 1..Len(stamped') : stamped'[i] # <<v, m>>
        BY <4>1
      <4> QED
        BY <4>2, <4>3
    <3> QED
      BY <1>2, <3>1, <3>2
  <2> QED
    BY <2>1, <2>2 DEF StampedOnce
<1> QED
  BY <1>1, <1>3

LEMMA OpenKeeps ==
    ASSUME LogAssumption, LogInv, NEW w \in Writer, OpenLog(w)
    PROVE  LogInv'
<1>1. UNCHANGED <<log, events, tail, stamped>> /\ WriterShaped
  BY DEF OpenLog, LogInv
<1>2. CASE Len(log) > MaxLogLines
  <2> DEFINE r0 == writer[w]
             trim == "trim"
             r1 == [at |-> trim, lines |-> r0.lines, pending |-> r0.pending]
             r == [at |-> trim, lines |-> log, pending |-> r0.pending]
  <2>1. writer' = [writer EXCEPT ![w] = [r0 EXCEPT !.at = trim, !.lines = log]]
    BY <1>2 DEF OpenLog
  <2>2. r0 = [at |-> r0.at, lines |-> r0.lines, pending |-> r0.pending]
    BY <1>1 DEF WriterShaped
  <2>3. /\ r.at = "trim" /\ r.lines = log /\ r.pending = writer[w].pending
        /\ r = [at |-> r.at, lines |-> r.lines, pending |-> r.pending]
    OBVIOUS
  <2> HIDE DEF r0, trim
  <2>4. [r0 EXCEPT !.at = trim] = r1
    BY <2>2
  <2>5. [r1 EXCEPT !.lines = log] = r
    OBVIOUS
  <2>6. [r0 EXCEPT !.at = trim, !.lines = log] = [[r0 EXCEPT !.at = trim] EXCEPT !.lines = log]
    OBVIOUS
  <2> HIDE DEF r1, r
  <2>7. writer' = [writer EXCEPT ![w] = r]
    BY <2>1, <2>4, <2>5, <2>6
  <2>8. WriterShaped' /\ writer'[w] = r /\ \A v \in Writer : v # w => writer'[v] = writer[v]
    BY <1>1, <2>3, <2>7, WriterMoves
  <2>9. ReadsOrdered' /\ StampedOnce'
    BY <1>1, <1>2, <2>3, <2>8, NothingWritten DEF LogInv
  <2> QED
    BY <1>1, <2>8, <2>9 DEF LogInv, TailBehind
<1>3. CASE ~(Len(log) > MaxLogLines)
  <2>1. writer' = [writer EXCEPT ![w] = Opened]
    BY <1>3 DEF OpenLog
  <2>2. /\ Opened = [at |-> Opened.at, lines |-> Opened.lines, pending |-> Opened.pending]
        /\ Opened.at = "open" /\ Opened.pending = <<>>
    BY DEF Opened
  <2>3. /\ WriterShaped' /\ writer'[w] = Opened
        /\ \A v \in Writer : v # w => writer'[v] = writer[v]
    BY <1>1, <2>1, <2>2, WriterMoves
  <2>4. ReadsOrdered' /\ StampedOnce'
    BY <1>1, <2>2, <2>3, NothingWritten
  <2> QED
    BY <1>1, <2>3, <2>4 DEF LogInv, TailBehind
<1> QED
  BY <1>2, <1>3

LEMMA CloseKeeps ==
    ASSUME LogInv, NEW w \in Writer, CloseLog(w)
    PROVE  LogInv'
<1> DEFINE r == [Opened EXCEPT !.at = "closed"]
<1>1. UNCHANGED <<log, events, tail, stamped>> /\ WriterShaped /\ writer' = [writer EXCEPT ![w] = r]
  BY DEF CloseLog, LogInv
<1>2. /\ r = [at |-> r.at, lines |-> r.lines, pending |-> r.pending]
      /\ r.at = "closed" /\ r.pending = <<>>
  BY DEF Opened
<1> HIDE DEF r
<1>3. WriterShaped' /\ writer'[w] = r /\ \A v \in Writer : v # w => writer'[v] = writer[v]
  BY <1>1, <1>2, WriterMoves
<1>4. ReadsOrdered' /\ StampedOnce'
  BY <1>1, <1>2, <1>3, NothingWritten
<1> QED
  BY <1>1, <1>3, <1>4 DEF LogInv, TailBehind

\* What another process wrote since is gone: none of it is lost to the daemon's order.
LEMMA TrimKeeps ==
    ASSUME LogAssumption, LogInv, NEW w \in Writer, Trim(w)
    PROVE  LogInv'
<1>1. /\ writer' = [writer EXCEPT ![w] = Opened]
      /\ log' = LastOf(writer[w].lines, TrimToLines)
      /\ UNCHANGED <<events, tail, stamped>> /\ writer[w].at = "trim" /\ WriterShaped
  BY DEF Trim, LogInv
<1>2. /\ WriterShaped' /\ writer'[w].at = "open" /\ writer'[w].pending = <<>>
      /\ \A v \in Writer : v # w => writer'[v] = writer[v]
  <2>1. /\ Opened = [at |-> Opened.at, lines |-> Opened.lines, pending |-> Opened.pending]
        /\ Opened.at = "open" /\ Opened.pending = <<>>
    BY DEF Opened
  <2> QED
    BY <1>1, <2>1, WriterMoves
<1>3. ReadsOrdered' /\ StampedOnce'
  BY <1>1, <1>2, NothingWritten
<1>4. /\ Ordered(writer[w].lines, events) /\ Placed(writer[w].lines)
      /\ Len(writer[w].lines) > MaxLogLines
      /\ events \in Nat /\ TrimToLines \in Nat /\ TrimToLines <= MaxLogLines /\ MaxLogLines \in Nat
  BY <1>1 DEF LogInv, ReadsOrdered, LogAssumption
<1>5. Ordered(log', events) /\ Placed(log') /\ Len(log') = TrimToLines
  <2>1. Len(writer[w].lines) \in Nat
    BY <1>4, LenProperties DEF Ordered
  <2> QED
    BY <1>1, <1>4, <2>1, LastOfOrdered
<1>6. TailBehind'
  <2>1. /\ tail.offset \in Nat /\ TailBehind
        /\ \A j \in 1..Len(tail.kept) : tail.kept[j] \in Nat
        /\ \A i \in 1..Len(log') : log'[i] \in Nat /\ i <= log'[i]
    BY <1>4, <1>5, ElementOfSeq DEF LogInv, TailBehind, Ordered, Placed
  <2>2. ASSUME NEW i \in 1..Len(log'), NEW j \in 1..Len(tail.kept), i > tail.offset
        PROVE  tail.kept[j] < log'[i]
    <3>1. tail.offset < TrimToLines
      BY <1>4, <1>5, <2>1, <2>2
    <3>2. tail.kept[j] <= tail.offset
      BY <2>1, <3>1 DEF TailBehind
    <3> QED
      BY <2>1, <2>2, <3>2
  <2>3. ~(Len(log') < TrimToLines)
    BY <1>4, <1>5
  <2> QED
    BY <1>1, <2>1, <2>2, <2>3 DEF TailBehind
<1> QED
  BY <1>1, <1>2, <1>3, <1>5, <1>6 DEF LogInv

\* A process's id changes, and nothing else of it.
LEMMA PendingMoves ==
    ASSUME WriterShaped, NEW w \in Writer, NEW p, writer' = [writer EXCEPT ![w].pending = p]
    PROVE  /\ WriterShaped'
           /\ writer'[w].at = writer[w].at /\ writer'[w].lines = writer[w].lines
           /\ writer'[w].pending = p
           /\ \A v \in Writer : v # w => writer'[v] = writer[v]
<1> DEFINE r0 == writer[w]
           r == [at |-> r0.at, lines |-> r0.lines, pending |-> p]
<1>1. r0 = [at |-> r0.at, lines |-> r0.lines, pending |-> r0.pending]
  BY DEF WriterShaped
<1>2. writer' = [writer EXCEPT ![w] = [r0 EXCEPT !.pending = p]]
  BY DEF WriterShaped
<1>3. /\ r = [at |-> r.at, lines |-> r.lines, pending |-> r.pending]
      /\ r.at = writer[w].at /\ r.lines = writer[w].lines /\ r.pending = p
  OBVIOUS
<1> HIDE DEF r0
<1>4. [r0 EXCEPT !.pending = p] = r
  BY <1>1
<1> HIDE DEF r
<1>5. writer' = [writer EXCEPT ![w] = r]
  BY <1>2, <1>4
<1>6. WriterShaped' /\ writer'[w] = r /\ \A v \in Writer : v # w => writer'[v] = writer[v]
  BY <1>3, <1>5, WriterMoves
<1> QED
  BY <1>3, <1>6

LEMMA IdsDiffer ==
    ASSUME NEW w, NEW v, NEW m, NEW n, <<w, m>> = <<v, n>>
    PROVE  w = v /\ m = n
  OBVIOUS

\* The id of the next event is a new one.
LEMMA CommandIDKeeps ==
    ASSUME LogInv, NEW w \in Writer, SetCommandID(w)
    PROVE  LogInv'
<1> DEFINE p == <<w, events + 1>>
<1>1. UNCHANGED <<log, events, tail, stamped>> /\ writer' = [writer EXCEPT ![w].pending = p]
  BY DEF SetCommandID
<1>2. events \in Nat /\ WriterShaped /\ ReadsOrdered /\ StampedOnce
  BY DEF LogInv
<1>3. \A i \in 1..Len(stamped) : stamped[i] # p
  <2> SUFFICES ASSUME NEW i \in 1..Len(stamped), stamped[i] = p
               PROVE  FALSE
    OBVIOUS
  <2>1. stamped[i] \in Ids(events)
    BY <1>2, ElementOfSeq DEF StampedOnce
  <2>2. PICK v \in Writer, n \in 0..events : stamped[i] = <<v, n>>
    BY <2>1 DEF Ids
  <2>3. n = events + 1
    BY <2>2, IdsDiffer
  <2> QED
    BY <1>2, <2>2, <2>3
<1> HIDE DEF p
<1>4. /\ WriterShaped'
      /\ writer'[w].at = writer[w].at /\ writer'[w].lines = writer[w].lines
      /\ writer'[w].pending = p
      /\ \A v \in Writer : v # w => writer'[v] = writer[v]
  BY <1>1, <1>2, PendingMoves
<1>5. ReadsOrdered'
  BY <1>1, <1>2, <1>4 DEF ReadsOrdered
<1>6. StampedOnce'
  <2>1. /\ stamped' \in Seq(Ids(events'))
        /\ \A i, j \in 1..Len(stamped') : i < j => stamped'[i] # stamped'[j]
    BY <1>1, <1>2 DEF StampedOnce
  <2>2. ASSUME NEW v \in Writer
        PROVE  \/ writer'[v].pending = <<>>
               \/ \E m \in 0..(events' + 1) :
                      /\ writer'[v].pending = <<v, m>>
                      /\ \A i \in 1..Len(stamped') : stamped'[i] # <<v, m>>
    <3>1. CASE v = w
      <4>1. events + 1 \in 0..(events + 1)
        BY <1>2
      <4> QED
        BY <1>1, <1>3, <1>4, <3>1, <4>1 DEF p
    <3>2. CASE v # w
      BY <1>1, <1>2, <1>4, <3>2 DEF StampedOnce
    <3> QED
      BY <3>1, <3>2
  <2> QED
    BY <2>1, <2>2 DEF StampedOnce
<1> QED
  BY <1>1, <1>4, <1>5, <1>6 DEF LogInv, TailBehind

\* An event that ends a command is stamped with its id, which no other event was.
LEMMA StampOnce ==
    ASSUME LogInv, NEW w \in Writer, NEW t \in BOOLEAN, Record(w, t), WriterShaped',
           writer'[w].pending = IF t THEN <<>> ELSE writer[w].pending,
           \A v \in Writer : v # w => writer'[v] = writer[v]
    PROVE  StampedOnce'
<1> DEFINE p == writer[w].pending
<1>1. events \in Nat /\ events' = events + 1 /\ StampedOnce
  BY DEF LogInv, Record
<1>2. stamped \in Seq(Ids(events + 1)) /\ Len(stamped) \in Nat
  <2>1. Ids(events) \subseteq Ids(events + 1)
    <3>1. 0..events \subseteq 0..(events + 1)
      BY <1>1
    <3> QED
      BY <3>1 DEF Ids
  <2>2. stamped \in Seq(Ids(events)) /\ Len(stamped) \in Nat
    BY <1>1, LenProperties DEF StampedOnce
  <2>3. \A i \in 1..Len(stamped) : stamped[i] \in Ids(events + 1)
    BY <2>1, <2>2, ElementOfSeq
  <2>4. stamped = [i \in 1..Len(stamped) |-> stamped[i]]
    BY <2>2, SeqDef
  <2> QED
    BY <2>2, <2>3, <2>4, SeqDef
<1>3. CASE ~(t /\ p # <<>>)
  <2>1. stamped' = stamped
    BY <1>3 DEF Record
  <2>2. ASSUME NEW v \in Writer
        PROVE  \/ writer'[v].pending = <<>>
               \/ \E m \in 0..(events' + 1) :
                      /\ writer'[v].pending = <<v, m>>
                      /\ \A i \in 1..Len(stamped') : stamped'[i] # <<v, m>>
    <3>1. CASE writer'[v].pending = <<>>
      BY <3>1
    <3>2. CASE writer'[v].pending # <<>>
      <4>1. writer'[v].pending = writer[v].pending
        BY <1>3, <3>2
      <4>2. PICK m \in 0..(events + 1) :
                /\ writer[v].pending = <<v, m>>
                /\ \A i \in 1..Len(stamped) : stamped[i] # <<v, m>>
        BY <1>1, <3>2, <4>1 DEF StampedOnce
      <4>3. m \in 0..(events' + 1)
        BY <1>1
      <4> QED
        BY <2>1, <4>1, <4>2, <4>3
    <3> QED
      BY <3>1, <3>2
  <2> QED
    BY <1>1, <1>2, <2>1, <2>2 DEF StampedOnce
<1>4. CASE t /\ p # <<>>
  <2>1. stamped' = Append(stamped, p) /\ writer'[w].pending = <<>>
    BY <1>4 DEF Record
  <2>2. PICK m \in 0..(events + 1) :
            p = <<w, m>> /\ \A i \in 1..Len(stamped) : stamped[i] # <<w, m>>
    BY <1>1, <1>4 DEF StampedOnce
  <2>3. p \in Ids(events + 1)
    BY <2>2 DEF Ids
  <2> HIDE DEF p
  <2>4. /\ stamped' \in Seq(Ids(events')) /\ Len(stamped') = Len(stamped) + 1
        /\ \A i \in 1..Len(stamped) : stamped'[i] = stamped[i]
        /\ stamped'[Len(stamped) + 1] = p
    BY <1>1, <1>2, <2>1, <2>3, AppendProperties
  <2>5. ASSUME NEW i \in 1..Len(stamped'), NEW j \in 1..Len(stamped'), i < j
        PROVE  stamped'[i] # stamped'[j]
    <3>1. i \in 1..Len(stamped) /\ stamped'[i] = stamped[i]
      BY <1>2, <2>4, <2>5
    <3>2. CASE j = Len(stamped) + 1
      BY <2>2, <2>4, <3>1, <3>2
    <3>3. CASE j # Len(stamped) + 1
      <4>1. j \in 1..Len(stamped) /\ stamped'[j] = stamped[j]
        BY <1>2, <2>4, <3>3
      <4> QED
        BY <1>1, <2>5, <3>1, <4>1 DEF StampedOnce
    <3> QED
      BY <3>2, <3>3
  <2>6. ASSUME NEW v \in Writer
        PROVE  \/ writer'[v].pending = <<>>
               \/ \E n \in 0..(events' + 1) :
                      /\ writer'[v].pending = <<v, n>>
                      /\ \A i \in 1..Len(stamped') : stamped'[i] # <<v, n>>
    <3>1. CASE writer'[v].pending = <<>>
      BY <3>1
    <3>2. CASE writer'[v].pending # <<>>
      <4>1. v # w /\ writer'[v].pending = writer[v].pending
        BY <2>1, <3>2
      <4>2. PICK n \in 0..(events + 1) :
                /\ writer[v].pending = <<v, n>>
                /\ \A i \in 1..Len(stamped) : stamped[i] # <<v, n>>
        BY <1>1, <3>2, <4>1 DEF StampedOnce
      <4>3. p # <<v, n>>
        BY <2>2, <4>1, IdsDiffer
      <4>4. \A i \in 1..Len(stamped') : stamped'[i] # <<v, n>>
        <5>1. \A i \in 1..Len(stamped') : i = Len(stamped) + 1 \/ i \in 1..Len(stamped)
          BY <1>2, <2>4
        <5> QED
          BY <2>4, <4>2, <4>3, <5>1
      <4>5. n \in 0..(events' + 1)
        BY <1>1
      <4> QED
        BY <4>1, <4>2, <4>4, <4>5
    <3> QED
      BY <3>1, <3>2
  <2> QED
    BY <2>4, <2>5, <2>6 DEF StampedOnce
<1> QED
  BY <1>3, <1>4

LEMMA RecordKeeps ==
    ASSUME LogAssumption, LogInv, NEW w \in Writer, NEW t \in BOOLEAN, Record(w, t)
    PROVE  LogInv'
<1> DEFINE q == IF t THEN <<>> ELSE writer[w].pending
<1>1. /\ events \in Nat /\ events' = events + 1 /\ events' \in 0..MaxEvents
      /\ log' = Append(log, events + 1) /\ UNCHANGED tail /\ WriterShaped /\ ReadsOrdered
      /\ writer' = [writer EXCEPT ![w].pending = q]
  BY DEF LogInv, Record, WriterShaped, LogAssumption
<1> HIDE DEF q
<1>2. /\ WriterShaped'
      /\ writer'[w].at = writer[w].at /\ writer'[w].lines = writer[w].lines
      /\ writer'[w].pending = q
      /\ \A v \in Writer : v # w => writer'[v] = writer[v]
  BY <1>1, PendingMoves
<1>3. StampedOnce'
  BY <1>2, StampOnce DEF q
<1>4. ReadsOrdered'
  BY <1>1, <1>2, OrderedLater DEF ReadsOrdered
<1>5. /\ Ordered(log', events') /\ Placed(log') /\ Len(log') = Len(log) + 1 /\ Len(log) \in Nat
      /\ log'[Len(log) + 1] = events + 1
      /\ \A i \in 1..Len(log) : log'[i] = log[i]
  BY <1>1, AppendOrdered, LenProperties DEF LogInv, Ordered
<1>6. TailBehind'
  <2>1. /\ TailBehind /\ Ordered(tail.kept, events) /\ tail.offset \in 0..events
        /\ \A j \in 1..Len(tail.kept) : tail.kept[j] \in Nat /\ tail.kept[j] <= events
    BY ElementOfSeq DEF LogInv, TailBehind, Ordered
  <2>2. Ordered(tail.kept, events') /\ tail.offset \in 0..events'
    BY <1>1, <2>1, OrderedLater
  <2>3. Len(log') < TrimToLines => events' = Len(log')
    BY <1>1, <1>5, <2>1 DEF TailBehind, LogAssumption
  <2>4. ASSUME NEW i \in 1..Len(log'), NEW j \in 1..Len(tail.kept), i > tail.offset
        PROVE  tail.kept[j] < log'[i]
    <3>1. CASE i = Len(log) + 1
      BY <1>1, <1>5, <2>1, <3>1
    <3>2. CASE i # Len(log) + 1
      <4>1. i \in 1..Len(log) /\ log'[i] = log[i]
        BY <1>5, <3>2
      <4> QED
        BY <2>1, <2>4, <4>1 DEF TailBehind
    <3> QED
      BY <3>1, <3>2
  <2> QED
    BY <1>1, <2>1, <2>2, <2>3, <2>4 DEF TailBehind
<1> QED
  BY <1>1, <1>2, <1>3, <1>4, <1>5, <1>6 DEF LogInv

\* The daemon takes what is past its offset, and keeps the end of it.
LEMMA TailKeeps ==
    ASSUME LogAssumption, LogInv, TailFrom
    PROVE  LogInv'
<1> DEFINE new == NewLines
           o == tail.offset
<1>1. /\ UNCHANGED <<log, events, writer, stamped>> /\ new # <<>> /\ TailBehind
      /\ tail' = [offset |-> Len(log), kept |-> LastOf(tail.kept \o new, RecentEvents)]
      /\ log \in Seq(Nat) /\ Len(log) \in Nat /\ events \in Nat /\ o \in Nat /\ Ordered(log, events)
      /\ RecentEvents \in Nat /\ TrimToLines \in Nat
  BY LenProperties DEF TailFrom, LogInv, TailBehind, Ordered, LogAssumption
<1>2. /\ \A i \in 1..Len(log) : log[i] \in Nat /\ i <= log[i] /\ log[i] <= events
      /\ \A i, j \in 1..Len(log) : i < j => log[i] < log[j]
  BY <1>1, ElementOfSeq DEF LogInv, Ordered, Placed
<1>3. /\ new \in Seq(Nat)
      /\ Len(new) = IF o + 1 <= Len(log) THEN Len(log) - o ELSE 0
      /\ \A i \in 1..(Len(log) - o) : new[i] = log[o + i]
  <2>1. \A i \in (o + 1)..Len(log) : log[i] \in Nat
    BY <1>1, <1>2
  <2>2. o + 1 \in Int /\ Len(log) \in Int /\ Len(log) - (o + 1) + 1 = Len(log) - o
    BY <1>1
  <2>3. \A i \in 1..(Len(log) - o) : o + 1 + i - 1 = o + i
    BY <1>1
  <2>4. new = SubSeq(log, o + 1, Len(log))
    BY DEF NewLines
  <2>5. /\ SubSeq(log, o + 1, Len(log)) \in Seq(Nat)
        /\ Len(SubSeq(log, o + 1, Len(log))) = IF o + 1 <= Len(log) THEN Len(log) - (o + 1) + 1 ELSE 0
        /\ \A i \in 1..(Len(log) - (o + 1) + 1) : SubSeq(log, o + 1, Len(log))[i] = log[o + 1 + i - 1]
    <3> DEFINE m == o + 1
    <3>1. m \in Int /\ \A i \in m..Len(log) : log[i] \in Nat
      BY <1>1, <2>1
    <3> HIDE DEF m
    <3>2. /\ SubSeq(log, m, Len(log)) \in Seq(Nat)
          /\ Len(SubSeq(log, m, Len(log))) = IF m <= Len(log) THEN Len(log) - m + 1 ELSE 0
          /\ \A i \in 1..(Len(log) - m + 1) : SubSeq(log, m, Len(log))[i] = log[m + i - 1]
      BY <1>1, <3>1, SubSeqProperties
    <3> QED
      BY <3>2 DEF m
  <2> HIDE DEF new, o
  <2> QED
    BY <1>1, <2>2, <2>3, <2>4, <2>5
<1> HIDE DEF new
<1>4. o + 1 <= Len(log)
  <2>1. Len(new) # 0
    BY <1>1, <1>3, EmptySeq
  <2> QED
    BY <1>3, <2>1
<1>5. Ordered(new, events)
  <2>1. Len(new) = Len(log) - o
    BY <1>3, <1>4
  <2>2. ASSUME NEW i \in 1..Len(new)
        PROVE  new[i] = log[o + i] /\ o + i \in 1..Len(log)
    <3> HIDE DEF o
    <3>1. i \in 1..(Len(log) - o) /\ o + i \in 1..Len(log)
      BY <1>1, <1>4, <2>1
    <3> QED
      BY <1>3, <3>1
  <2>3. ASSUME NEW i \in 1..Len(new), NEW j \in 1..Len(new), i < j
        PROVE  new[i] < new[j]
    <3>1. o + i < o + j
      BY <1>1, <2>3
    <3> QED
      BY <1>2, <2>2, <3>1
  <2> QED
    BY <1>2, <1>3, <2>2, <2>3 DEF Ordered
<1>6. Ordered(tail.kept \o new, events)
  <2>1. ASSUME NEW i \in 1..Len(tail.kept), NEW j \in 1..Len(new)
        PROVE  tail.kept[i] < new[j]
    <3>1. o + j \in 1..Len(log) /\ o + j > tail.offset /\ new[j] = log[o + j]
      <4>1. o = tail.offset
        OBVIOUS
      <4> HIDE DEF o
      <4>2. j \in 1..(Len(log) - o) /\ o + j \in 1..Len(log) /\ o + j > o
        BY <1>1, <1>3, <1>4
      <4> QED
        BY <1>3, <4>1, <4>2
    <3> QED
      BY <1>1, <3>1 DEF TailBehind
  <2> QED
    BY <1>1, <1>5, <2>1, JoinOrdered DEF TailBehind
<1> DEFINE kept == LastOf(tail.kept \o new, RecentEvents)
<1>7. Ordered(kept, events) /\ Len(kept) <= RecentEvents
  <2>1. Len(tail.kept \o new) \in Nat
    BY <1>6, LenProperties DEF Ordered
  <2> DEFINE joined == tail.kept \o new
  <2> HIDE DEF joined
  <2>2. Ordered(joined, events) /\ Len(joined) \in Nat
    BY <1>6, <2>1 DEF joined
  <2>3. Ordered(LastOf(joined, RecentEvents), events)
        /\ Len(LastOf(joined, RecentEvents)) <= RecentEvents
    BY <1>1, <2>2, LastOfOrdered
  <2> QED
    BY <2>3 DEF joined
<1> HIDE DEF kept
<1>8. /\ tail' = [offset |-> Len(log), kept |-> kept]
      /\ tail'.offset = Len(log) /\ tail'.kept = kept
  BY <1>1 DEF kept
<1>9. Len(log) \in 0..events
  <2>1. CASE Len(log) = 0
    BY <1>1, <2>1
  <2>2. CASE Len(log) # 0
    <3>1. Len(log) \in 1..Len(log)
      BY <1>1, <2>2
    <3> QED
      BY <1>1, <1>2, <3>1
  <2> QED
    BY <2>1, <2>2
<1>10. TailBehind'
  <2>1. Len(log) < TrimToLines => \A j \in 1..Len(kept) : kept[j] <= Len(log)
    BY <1>1, <1>7 DEF Ordered, TailBehind
  <2>2. \A i \in 1..Len(log) : ~(i > Len(log))
    BY <1>1
  <2> QED
    BY <1>1, <1>7, <1>8, <1>9, <2>1, <2>2 DEF TailBehind
<1> QED
  BY <1>1, <1>10 DEF LogInv, WriterShaped, ReadsOrdered, StampedOnce

LEMMA LogNext ==
    ASSUME LogAssumption, LogInv, [NextLog]_logVars
    PROVE  LogInv'
<1>1. ASSUME NEW w \in Writer, OpenLog(w) \/ Trim(w) \/ SetCommandID(w) \/ CloseLog(w)
      PROVE  LogInv'
  BY <1>1, OpenKeeps, TrimKeeps, CommandIDKeeps, CloseKeeps
<1>2. ASSUME NEW w \in Writer, NEW t \in BOOLEAN, Record(w, t)
      PROVE  LogInv'
  BY <1>2, RecordKeeps
<1>3. CASE TailFrom
  BY <1>3, TailKeeps
<1>4. CASE UNCHANGED logVars
  BY <1>4 DEF logVars, LogInv, WriterShaped, ReadsOrdered, StampedOnce, TailBehind
<1> QED
  BY <1>1, <1>2, <1>3, <1>4 DEF NextLog

LEMMA TailIsInOrder ==
    ASSUME LogInv
    PROVE  TailInOrder
<1>1. Ordered(tail.kept, events) /\ StampedOnce /\ Len(tail.kept) \in Nat /\ Len(stamped) \in Nat
  BY LenProperties DEF LogInv, TailBehind, Ordered, StampedOnce
<1>2. ASSUME NEW i \in 1..(Len(tail.kept) - 1)
      PROVE  tail.kept[i] < tail.kept[i + 1]
  <2>1. i \in 1..Len(tail.kept) /\ i + 1 \in 1..Len(tail.kept) /\ i < i + 1
    BY <1>1
  <2> QED
    BY <1>1, <2>1 DEF Ordered
<1>3. ASSUME NEW i \in 1..(Len(stamped) - 1), NEW j \in 2..Len(stamped), i < j
      PROVE  stamped[i] # stamped[j]
  <2>1. i \in 1..Len(stamped) /\ j \in 1..Len(stamped)
    BY <1>1
  <2> QED
    BY <1>1, <1>3, <2>1 DEF StampedOnce
<1> QED
  BY <1>2, <1>3 DEF TailInOrder

\* The daemon takes no event twice and none before an older one, and no command's id is
\* written twice (TailFrom, Record), for any processes that append to the log and trim it
\* under each other, and any lengths of the log.
THEOREM EventsInOrder ==
    ASSUME LogAssumption
    PROVE  SpecLog => [](LogTypeOK /\ TailInOrder)
<1>1. InitLog => LogInv
  BY LogInit
<1>2. LogInv /\ [NextLog]_logVars => LogInv'
  BY LogNext
<1>3. LogInv => LogTypeOK /\ TailInOrder
  BY TypeOfLog, TailIsInOrder
<1> QED
  BY <1>1, <1>2, <1>3, PTL DEF SpecLog

-----------------------------------------------------------------------------
(***************************************************************************)
(* BranchWatch: a report is true of the commits it names, for any branches.*)
(***************************************************************************)

\* What a check that fails publishes claims nothing.
LEMMA UnavailableTrue ==
    ASSUME NEW b, report' = Unavailable(b)
    PROVE  ReportTrue'
<1>1. report'.known = FALSE
  BY DEF Unavailable
<1> QED
  BY <1>1 DEF ReportTrue

LEMMA PreviewTrue ==
    ASSUME ReportTrue, Preview
    PROVE  ReportTrue'
<1>1. CASE report' = Unavailable(check.branch)
  BY <1>1, UnavailableTrue
<1>2. CASE /\ report'.conflicted = IF SamePair THEN report.conflicted
                                   ELSE Clash(check.head, check.target)
           /\ report'.head = check.head /\ report'.target = check.target
  <2>1. CASE SamePair
    BY <1>2, <2>1 DEF SamePair, ReportTrue
  <2>2. CASE ~SamePair
    BY <1>2, <2>2 DEF ReportTrue
  <2> QED
    BY <2>1, <2>2
<1>3. \/ report' = Unavailable(check.branch)
      \/ report' = [known |-> TRUE, branch |-> IF SamePair THEN report.branch ELSE check.branch,
                    head |-> check.head, target |-> check.target, stale |-> check.stale,
                    conflicted |-> IF SamePair THEN report.conflicted
                                   ELSE Clash(check.head, check.target)]
  BY DEF Preview, Publishes
<1> QED
  BY <1>1, <1>2, <1>3

LEMMA ReportInit == InitBranch => ReportTrue
  BY DEF InitBranch, ReportTrue, Unavailable

LEMMA ReportNext ==
    ASSUME ReportTrue, [NextBranch]_branchVars
    PROVE  ReportTrue'
<1>1. CASE ReadBranch
  BY <1>1, UnavailableTrue DEF ReadBranch, Publishes, ReportTrue
<1>2. CASE ReadHead
  BY <1>2, UnavailableTrue DEF ReadHead, Publishes, ReportTrue
<1>3. CASE Preview
  BY <1>3, PreviewTrue
<1>4. CASE UNCHANGED report
  BY <1>4 DEF ReportTrue
<1> QED
  BY <1>1, <1>2, <1>3, <1>4
     DEF NextBranch, Checkout, Commit, Push, IntervalOver, FetchTarget, ReadTarget, RefreshPR,
         FetchedPR, branchVars, checkVars

\* A report that is published is true of the two commits it names, for any branches and
\* commits and whatever moves while a check runs (evaluateConflict).
THEOREM ReportsTrue == SpecBranch => []ReportTrue
  BY ReportInit, ReportNext, PTL DEF SpecBranch

-----------------------------------------------------------------------------
(***************************************************************************)
(* DashboardRows: the cursor is drawn, no room is wasted over it, and it   *)
(* stays on its sidecar, for any sidecars, rows and terminals.             *)
(***************************************************************************)

\* The rows are sidecars, each once, and the cursor is on one of them.
ListShaped ==
    /\ Len(rows) \in Nat /\ rows \in Injection(1..Len(rows), Row)
    /\ selIdx \in Nat /\ (selIdx = 0 \/ selIdx < Len(rows))
    /\ scroll \in Nat
    /\ selID = IDAt(rows, selIdx)

RowsInv == ListShaped /\ SelectedDrawn /\ NoRoomWasted

-----------------------------------------------------------------------------
(* Where the pane is scrolled to. *)

LEMMA LeastRow ==
    ASSUME NEW S \in SUBSET Nat, S # {}
    PROVE  /\ (CHOOSE i \in S : \A j \in S : i <= j) \in S
           /\ \A j \in S : (CHOOSE i \in S : \A k \in S : i <= k) <= j
<1>1. PICK m \in S : \A t \in S : ~(t < m)
  BY Least
<1>2. \A t \in S : m <= t
  BY <1>1
<1> QED
  BY <1>2

\* A pane ends within the rows, or holds them all.
LEMMA EndOfPane ==
    ASSUME NEW list, Len(list) \in Nat, NEW first \in Nat, NEW lines
    PROVE  PaneEnd(list, first, lines) = Len(list) \/ PaneEnd(list, first, lines) < Len(list)
<1> DEFINE used[i \in first - 1 .. Len(list) - 1] ==
              IF i < first THEN IF first > 0 THEN 3 ELSE 2
              ELSE used[i - 1] + Lines(list, first, i)
           budget(i) == IF i < Len(list) - 1 THEN lines - 1 ELSE lines
           over == {i \in first .. Len(list) - 1 : used[i] > budget(i)}
           pick == CHOOSE i \in over : \A j \in over : i <= j
<1>1. PaneEnd(list, first, lines) = IF over = {} THEN Len(list) ELSE pick
  BY DEF PaneEnd
<1>2. over \subseteq first .. Len(list) - 1
  OBVIOUS
<1> HIDE DEF over, used
<1>3. over # {} => pick \in first .. Len(list) - 1
  <2>1. over \in SUBSET Nat
    BY <1>2
  <2> QED
    BY <1>2, <2>1, LeastRow
<1> HIDE DEF pick
<1> QED
  BY <1>1, <1>3

\* Down to the first row from which the selected one is drawn.
LEMMA DownDraws ==
    ASSUME NEW list, NEW sel \in Nat, NEW lines, NEW from \in 0..sel
    PROVE  /\ Down(list, sel, lines, from) \in from..sel
           /\ \/ Down(list, sel, lines, from) = sel
              \/ sel < PaneEnd(list, Down(list, sel, lines, from), lines)
<1> DEFINE stop == {o \in from .. sel : o = sel \/ sel < PaneEnd(list, o, lines)}
           pick == CHOOSE o \in stop : \A p \in stop : o <= p
<1>1. stop \in SUBSET Nat /\ sel \in stop
  OBVIOUS
<1>2. pick \in stop
  <2> HIDE DEF stop
  <2> QED
    BY <1>1, LeastRow
<1>3. Down(list, sel, lines, from) = pick
  BY DEF Down
<1> HIDE DEF pick
<1> QED
  BY <1>2, <1>3

\* Up to the first row from which on everything is drawn.
LEMMA UpFills ==
    ASSUME NEW list, NEW lines, NEW from \in Nat
    PROVE  LET to == Up(list, lines, from) IN
           /\ to \in 0..from
           /\ \A p \in to .. from - 1 : PaneEnd(list, p, lines) = Len(list)
           /\ to > 0 => PaneEnd(list, to - 1, lines) # Len(list)
<1> DEFINE full == {o \in 0 .. from : \A p \in o .. from - 1 : PaneEnd(list, p, lines) = Len(list)}
           to == CHOOSE o \in full : \A p \in full : o <= p
<1>1. full \in SUBSET Nat /\ from \in full
  OBVIOUS
<1>2. to \in full /\ \A p \in full : to <= p
  <2> HIDE DEF full
  <2> QED
    BY <1>1, LeastRow
<1>3. Up(list, lines, from) = to
  BY DEF Up
<1> HIDE DEF to
<1>4. ASSUME to > 0, PaneEnd(list, to - 1, lines) = Len(list)
      PROVE  FALSE
  <2>1. to \in 0..from /\ \A p \in to .. from - 1 : PaneEnd(list, p, lines) = Len(list)
    BY <1>2
  <2>2. to - 1 \in 0..from
    BY <1>4, <2>1
  <2>3. \A p \in to - 1 .. from - 1 : p = to - 1 \/ p \in to .. from - 1
    BY <2>1
  <2>4. to - 1 \in full
    BY <1>4, <2>1, <2>2, <2>3
  <2> HIDE DEF full
  <2> QED
    BY <1>2, <2>1, <2>4
<1>5. to \in 0..from /\ \A p \in to .. from - 1 : PaneEnd(list, p, lines) = Len(list)
  BY <1>2
<1> QED
  BY <1>3, <1>4, <1>5

\* Wherever the pane was scrolled to, the cursor is drawn then, and no room is left over it.
LEMMA ScrollShows ==
    ASSUME NEW list, Len(list) \in Nat, NEW sel \in Nat, sel = 0 \/ sel < Len(list), NEW lines,
           NEW offset \in Nat
    PROVE  LET to == Scrolled(list, sel, lines, offset) IN
           /\ to \in Nat
           /\ to = sel \/ sel < PaneEnd(list, to, lines)
           /\ to > 0 => PaneEnd(list, to - 1, lines) < Len(list)
<1> DEFINE from == IF sel < offset THEN sel ELSE offset
           down == Down(list, sel, lines, from)
           to == Up(list, lines, down)
<1>1. from \in 0..sel
  OBVIOUS
<1>2. Scrolled(list, sel, lines, offset) = to
  BY DEF Scrolled
<1> HIDE DEF from
<1>3. down \in from..sel /\ (down = sel \/ sel < PaneEnd(list, down, lines))
  BY <1>1, DownDraws
<1>4. down \in Nat /\ down <= sel
  BY <1>1, <1>3
<1> HIDE DEF down
<1>5. /\ to \in 0..down
      /\ \A p \in to .. down - 1 : PaneEnd(list, p, lines) = Len(list)
      /\ to > 0 => PaneEnd(list, to - 1, lines) # Len(list)
  BY <1>4, UpFills
<1> HIDE DEF to
<1>6. to = sel \/ sel < PaneEnd(list, to, lines)
  <2>1. CASE to = down
    BY <1>3, <2>1
  <2>2. CASE to # down
    <3>1. to \in to .. down - 1 /\ sel > 0
      BY <1>4, <1>5, <2>2
    <3> QED
      BY <1>5, <3>1
  <2> QED
    BY <2>1, <2>2
<1>7. to > 0 => PaneEnd(list, to - 1, lines) < Len(list)
  <2> SUFFICES ASSUME to > 0
               PROVE  PaneEnd(list, to - 1, lines) < Len(list)
    OBVIOUS
  <2>1. to - 1 \in Nat
    BY <1>4, <1>5
  <2>2. PaneEnd(list, to - 1, lines) = Len(list) \/ PaneEnd(list, to - 1, lines) < Len(list)
    BY <2>1, EndOfPane
  <2> QED
    BY <1>5, <2>2
<1> QED
  BY <1>2, <1>4, <1>5, <1>6, <1>7

-----------------------------------------------------------------------------
(* The steps. *)

\* The pane is scrolled after everything that moves a row or the cursor.
LEMMA ScrollKeeps ==
    ASSUME ListShaped, Len(rows') \in Nat, rows' \in Injection(1..Len(rows'), Row),
           selIdx' \in Nat, selIdx' = 0 \/ selIdx' < Len(rows'), selID' = IDAt(rows', selIdx'),
           scroll' = Scrolled(rows', selIdx', ContentHeight(height', failed'), scroll)
    PROVE  RowsInv'
<1> DEFINE lines == ContentHeight(height', failed')
<1>1. scroll \in Nat
  BY DEF ListShaped
<1> HIDE DEF lines
<1>2. scroll' = Scrolled(rows', selIdx', lines, scroll)
  BY DEF lines
<1>3. /\ scroll' \in Nat
      /\ scroll' = selIdx' \/ selIdx' < PaneEnd(rows', scroll', lines)
      /\ scroll' > 0 => PaneEnd(rows', scroll' - 1, lines) < Len(rows')
  BY <1>1, <1>2, ScrollShows
<1> QED
  BY <1>3 DEF RowsInv, ListShaped, SelectedDrawn, NoRoomWasted, lines

\* A listing names each sidecar that is listed once.
LEMMA SortedLists ==
    ASSUME RowsAssumption, NEW lines, NEW listed \in SUBSET Row, NEW list \in Sorted(lines, listed)
    PROVE  Len(list) \in Nat /\ list \in Injection(1..Len(list), Row)
<1>1. Cardinality(listed) \in Nat
  <2>1. IsFiniteSet(listed)
    BY FS_Subset DEF RowsAssumption
  <2> QED
    BY <2>1, FS_CardinalityType
<1>2. list \in [1..Cardinality(listed) -> listed] /\ IsInjective(list)
  BY DEF Sorted, Injection
<1>3. Len(list) = Cardinality(listed)
  BY <1>1, <1>2
<1> QED
  BY <1>1, <1>2, <1>3 DEF Injection

\* A row that is listed is found at its index.
LEMMA IndexFound ==
    ASSUME NEW list, NEW n \in Nat, list \in [1..n -> Row], n = Len(list), NEW s
    PROVE  /\ IndexOf(list, s) \in Nat
           /\ IndexOf(list, s) = 0 \/ IndexOf(list, s) < Len(list)
           /\ s \in Range(list) => IDAt(list, IndexOf(list, s)) = s
<1> DEFINE found == {i \in DOMAIN list : list[i] = s}
           pick == CHOOSE i \in found : TRUE
<1>1. IndexOf(list, s) = IF found = {} THEN 0 ELSE pick - 1
  BY DEF IndexOf
<1>2. found # {} => pick \in 1..n /\ list[pick] = s
  BY DEF found
<1>3. s \in Range(list) => found # {}
  BY DEF Range
<1> HIDE DEF found, pick
<1>4. ASSUME found # {}
      PROVE  /\ IndexOf(list, s) = pick - 1 /\ pick - 1 \in Nat /\ pick - 1 < n
             /\ IDAt(list, pick - 1) = s
  <2>1. pick \in DOMAIN list /\ pick - 1 + 1 = pick
    BY <1>2, <1>4
  <2> QED
    BY <1>1, <1>2, <1>4, <2>1 DEF IDAt
<1> QED
  BY <1>1, <1>3, <1>4

LEMMA PollKeeps ==
    ASSUME RowsAssumption, RowsInv, NEW lines, NEW listed \in SUBSET Row, Polled(lines, listed)
    PROVE  RowsInv' /\ (selID \in Range(rows') => selID' = selID)
<1>1. Len(rows') \in Nat /\ rows' \in Injection(1..Len(rows'), Row)
  BY SortedLists DEF Polled
<1>2. /\ selIdx' \in Nat /\ (selIdx' = 0 \/ selIdx' < Len(rows'))
      /\ selID \in Range(rows') => IDAt(rows', selIdx') = selID
  <2> DEFINE n == Len(rows')
             list == rows'
  <2>1. list \in [1..n -> Row] /\ n = Len(list) /\ n \in Nat
    BY <1>1 DEF Injection
  <2>2. selIdx' = IndexOf(list, selID)
    BY DEF Polled
  <2> HIDE DEF n, list
  <2>3. /\ IndexOf(list, selID) \in Nat
        /\ IndexOf(list, selID) = 0 \/ IndexOf(list, selID) < Len(list)
        /\ selID \in Range(list) => IDAt(list, IndexOf(list, selID)) = selID
    BY <2>1, IndexFound
  <2> QED
    BY <2>2, <2>3 DEF list
<1>3. /\ selID' = IDAt(rows', selIdx') /\ failed' = FALSE /\ height' = height
      /\ scroll' = Scrolled(rows', selIdx', ContentHeight(height', failed'), scroll)
  BY DEF Polled
<1>4. RowsInv'
  BY <1>1, <1>2, <1>3, ScrollKeeps DEF RowsInv
<1> QED
  BY <1>2, <1>3, <1>4

LEMMA SelectKeeps ==
    ASSUME RowsInv, NEW to \in Int, Select(to)
    PROVE  RowsInv'
<1>1. /\ rows' = rows /\ selID' = IDAt(rows', selIdx')
      /\ selIdx' = IF to \in 0 .. Len(rows) - 1 THEN to ELSE selIdx
      /\ scroll' = Scrolled(rows', selIdx', ContentHeight(height', failed'), scroll)
  BY DEF Select
<1>2. selIdx' \in Nat /\ (selIdx' = 0 \/ selIdx' < Len(rows'))
  BY <1>1 DEF RowsInv, ListShaped
<1> QED
  BY <1>1, <1>2, ScrollKeeps DEF RowsInv, ListShaped

LEMMA RowsInit == InitRows => RowsInv
<1> SUFFICES ASSUME InitRows PROVE RowsInv
  OBVIOUS
<1>1. rows = <<>> /\ selIdx = 0 /\ selID = NoRow /\ scroll = 0 /\ Len(rows) = 0
  BY DEF InitRows
<1>2. rows \in Injection(1..Len(rows), Row) /\ DOMAIN rows = {}
  BY <1>1 DEF Injection, IsInjective
<1>3. ListShaped
  BY <1>1, <1>2 DEF ListShaped, IDAt
<1> QED
  BY <1>1, <1>3 DEF RowsInv, SelectedDrawn, NoRoomWasted

SelectionStep == rows' # rows /\ selID \in Range(rows') => selID' = selID

\* The steps that move a row, the cursor or the edge of the pane.
RowsMoves ==
    \/ Data \/ PollFailed \/ Resize \/ Select(selIdx + 1) \/ Select(selIdx - 1)
    \/ UNCHANGED <<rows, selIdx, selID, scroll, height, failed>>

LEMMA RowsMove ==
    ASSUME RowsAssumption, RowsInv, RowsMoves
    PROVE  RowsInv' /\ SelectionStep
<1>1. ASSUME NEW listed \in SUBSET Row, NEW lines, Polled(lines, listed)
      PROVE  RowsInv' /\ SelectionStep
  BY <1>1, PollKeeps DEF SelectionStep
<1>2. CASE PollFailed \/ Resize
  <2>1. /\ UNCHANGED <<rows, selIdx, selID>>
        /\ scroll' = Scrolled(rows', selIdx', ContentHeight(height', failed'), scroll)
    BY <1>2 DEF PollFailed, Resize
  <2>2. RowsInv'
    BY <2>1, ScrollKeeps DEF RowsInv, ListShaped
  <2> QED
    BY <2>1, <2>2 DEF SelectionStep
<1>3. ASSUME NEW to \in Int, Select(to)
      PROVE  RowsInv' /\ SelectionStep
  <2>1. rows' = rows
    BY <1>3 DEF Select
  <2> QED
    BY <1>3, <2>1, SelectKeeps DEF SelectionStep
<1>4. CASE UNCHANGED <<rows, selIdx, selID, scroll, height, failed>>
  BY <1>4 DEF RowsInv, ListShaped, SelectedDrawn, NoRoomWasted, SelectionStep
<1>5. CASE Data
  BY <1>1, <1>5 DEF Data
<1>6. selIdx + 1 \in Int /\ selIdx - 1 \in Int
  BY DEF RowsInv, ListShaped
<1> QED
  BY <1>2, <1>3, <1>4, <1>5, <1>6 DEF RowsMoves

LEMMA RowsNext ==
    ASSUME RowsAssumption, RowsInv, [NextRows]_rowsVars
    PROVE  RowsInv' /\ SelectionStep
<1>1. RowsMoves
  BY DEF NextRows, Focus, Toggle, MoveRight, Click, rowsVars, RowsMoves
<1> QED
  BY <1>1, RowsMove

\* The row under the cursor is drawn in full and no row is hidden above it while there is
\* room (adjustLeftScroll), for any sidecars, rows of any height and any terminal.
THEOREM CursorDrawn ==
    ASSUME RowsAssumption
    PROVE  SpecRows => [](SelectedDrawn /\ NoRoomWasted)
<1>1. RowsInv => SelectedDrawn /\ NoRoomWasted
  BY DEF RowsInv
<1> QED
  BY <1>1, RowsInit, RowsNext, PTL DEF SpecRows

\* A poll that reorders the rows leaves the selection on the sidecar it was on, as long as
\* that is listed, for any sidecars and any order of them (dataMsg).
THEOREM SelectionStays ==
    ASSUME RowsAssumption
    PROVE  SpecRows => SelectionKept
<1>1. RowsInv /\ [NextRows]_rowsVars => RowsInv' /\ SelectionStep
  BY RowsNext
<1>2. SpecRows => []RowsInv /\ [][NextRows]_rowsVars
  BY <1>1, RowsInit, PTL DEF SpecRows
<1> QED
  BY <1>1, <1>2, PTL DEF SelectionKept, SelectionStep

-----------------------------------------------------------------------------
(***************************************************************************)
(* SessionView: one chain of spins, and a cancel is of the session that was*)
(* pressed for twice, for any sessions.                                    *)
(***************************************************************************)

\* There is a chain of spins exactly while the dashboard thinks there is, and while
\* anything runs.
TimersInv ==
    /\ spins \in {0, 1}
    /\ spinning = TRUE \/ spinning = FALSE
    /\ hasSpinner = TRUE \/ hasSpinner = FALSE
    /\ spinning = TRUE => spins = 1
    /\ spinning = FALSE => spins = 0
    /\ hasSpinner = TRUE => spins = 1

\* What is polled is sessions, and a press that waits for its second was of the session
\* it names.
KeysInv ==
    /\ \A i \in DOMAIN sessions : sessions[i].id \in Review
    /\ view = [open |-> view.open, sel |-> view.sel, confirm |-> view.confirm]
    /\ view.confirm # NoSession => pressed = [key |-> "x", id |-> view.confirm]

ViewInv == TimersInv /\ KeysInv

-----------------------------------------------------------------------------
(* The timers. *)

LEMMA LoadedSpins ==
    ASSUME TimersInv, Loaded
    PROVE  TimersInv'
<1>1. hasSpinner' = TRUE \/ hasSpinner' = FALSE
  <2> DEFINE anyRuns == sidecarRuns' \/ \E i \in DOMAIN sessions' : sessions'[i].state = "running"
  <2>1. hasSpinner' = anyRuns
    BY DEF Loaded
  <2>2. anyRuns = TRUE \/ anyRuns = FALSE
    OBVIOUS
  <2> QED
    BY <2>1, <2>2
<1>2. CASE hasSpinner' = TRUE /\ spinning = FALSE
  <2>1. StartsChain
    BY <1>2 DEF StartsChain
  <2>2. spins' = spins + 1 /\ spinning' = TRUE
    BY <2>1 DEF Loaded
  <2> QED
    BY <1>2, <2>2 DEF TimersInv
<1>3. CASE ~(hasSpinner' = TRUE /\ spinning = FALSE)
  <2>1. ~StartsChain
    BY <1>1, <1>3 DEF StartsChain, TimersInv
  <2>2. spins' = spins /\ spinning' = spinning
    BY <2>1 DEF Loaded, TimersInv
  <2> QED
    BY <1>1, <1>3, <2>2 DEF TimersInv
<1> QED
  BY <1>2, <1>3

LEMMA SpinSpins ==
    ASSUME TimersInv, Spin
    PROVE  TimersInv'
<1>1. CASE hasSpinner = TRUE
  <2>1. spins' = spins /\ hasSpinner' = TRUE /\ spinning = TRUE
    BY <1>1 DEF Spin, TimersInv
  <2>2. spinning' = TRUE
    BY <1>1, <2>1 DEF Spin
  <2> QED
    BY <1>1, <2>1, <2>2 DEF TimersInv
<1>2. CASE hasSpinner = FALSE
  <2>1. spins' = spins - 1 /\ hasSpinner' = FALSE /\ spins = 1
    BY <1>2 DEF Spin, TimersInv
  <2>2. spinning' = FALSE
    BY <1>2 DEF Spin
  <2> QED
    BY <2>1, <2>2 DEF TimersInv
<1> QED
  BY <1>1, <1>2 DEF TimersInv

LEMMA TimersNext ==
    ASSUME TimersInv, [NextView]_viewVars
    PROVE  TimersInv'
<1>1. CASE Loaded
  BY <1>1, LoadedSpins
<1>2. CASE Spin
  BY <1>2, SpinSpins
<1>3. CASE UNCHANGED <<spins, spinning, hasSpinner>>
  BY <1>3 DEF TimersInv
<1>4. Loaded \/ Spin \/ UNCHANGED <<spins, spinning, hasSpinner>>
  BY DEF NextView, Daemon, Served, LoadFails, TickFires, OpenView, CloseView, Move, Resume,
         CancelReview, viewVars, timerVars
<1> QED
  BY <1>1, <1>2, <1>3, <1>4

-----------------------------------------------------------------------------
(* The keys. *)

\* What the daemon lists are sessions.
LEMMA CollectedListed ==
    ASSUME NEW list \in Collected, NEW i \in DOMAIN list
    PROVE  list[i].id \in Review
<1> DEFINE listed == {[id |-> r, state |-> truth[r]] :
                        r \in {x \in Review : truth[x] \notin {"none", "lost"}}}
<1>1. list \in [1..Cardinality(listed) -> listed]
  BY DEF Collected
<1> HIDE DEF listed
<1>2. list[i] \in listed
  BY <1>1
<1> QED
  BY <1>2 DEF listed

LEMMA ViewEdits ==
    ASSUME NEW v, v = [open |-> v.open, sel |-> v.sel, confirm |-> v.confirm], NEW x
    PROVE  /\ [v EXCEPT !.sel = x] = [open |-> v.open, sel |-> x, confirm |-> v.confirm]
           /\ [v EXCEPT !.confirm = x] = [open |-> v.open, sel |-> v.sel, confirm |-> x]
           /\ [v EXCEPT !.open = x] = [open |-> x, sel |-> v.sel, confirm |-> v.confirm]
  OBVIOUS

LEMMA KeysNext ==
    ASSUME KeysInv, [NextView]_viewVars
    PROVE  KeysInv'
<1>1. CASE Loaded
  <2>1. \A i \in DOMAIN sessions' : sessions'[i].id \in Review
    BY <1>1, CollectedListed DEF Loaded
  <2>2. /\ view' = [open |-> view'.open, sel |-> view'.sel, confirm |-> view'.confirm]
        /\ view'.confirm = view.confirm
    BY <1>1, ViewEdits DEF Loaded, KeysInv
  <2>3. pressed' = pressed
    BY <1>1 DEF Loaded
  <2> QED
    BY <2>1, <2>2, <2>3 DEF KeysInv
<1>2. CASE OpenView
  <2>1. view' = [open |-> TRUE, sel |-> 0, confirm |-> NoSession] /\ sessions' = sessions
    BY <1>2 DEF OpenView, NoView
  <2> QED
    BY <2>1 DEF KeysInv
<1>3. CASE CloseView
  <2>1. view' = [open |-> FALSE, sel |-> 0, confirm |-> NoSession] /\ sessions' = sessions
    BY <1>3 DEF CloseView, NoView
  <2> QED
    BY <2>1 DEF KeysInv
<1>4. ASSUME NEW to, Move(to)
      PROVE  KeysInv'
  <2> DEFINE x == IF to \in 0 .. Len(sessions) - 1 THEN to ELSE view.sel
             v1 == [view EXCEPT !.sel = x]
  <2>1. view' = [v1 EXCEPT !.confirm = NoSession] /\ sessions' = sessions
    BY <1>4 DEF Move, KeysInv
  <2> HIDE DEF x
  <2>2. v1 = [open |-> v1.open, sel |-> v1.sel, confirm |-> v1.confirm]
    BY ViewEdits DEF KeysInv
  <2> HIDE DEF v1
  <2>3. view' = [open |-> v1.open, sel |-> v1.sel, confirm |-> NoSession]
    BY <2>1, <2>2, ViewEdits
  <2> QED
    BY <2>1, <2>3 DEF KeysInv
<1>5. CASE Resume
  <2>1. view' = [open |-> view.open, sel |-> view.sel, confirm |-> NoSession]
        /\ sessions' = sessions
    BY <1>5, ViewEdits DEF Resume, KeysInv
  <2> QED
    BY <2>1 DEF KeysInv
<1>6. CASE CancelReview
  <2>1. /\ sessions' = sessions /\ pressed' = [key |-> "x", id |-> Selected.id]
        /\ \/ view' = [view EXCEPT !.confirm = NoSession]
           \/ view' = [view EXCEPT !.confirm = Selected.id]
    BY <1>6 DEF CancelReview
  <2>2. \/ view' = [open |-> view.open, sel |-> view.sel, confirm |-> NoSession]
        \/ view' = [open |-> view.open, sel |-> view.sel, confirm |-> Selected.id]
    BY <2>1, ViewEdits DEF KeysInv
  <2> QED
    BY <2>1, <2>2 DEF KeysInv
<1>7. CASE UNCHANGED <<sessions, view, pressed>>
  BY <1>7 DEF KeysInv
<1>8. \/ Loaded \/ OpenView \/ CloseView \/ Resume \/ CancelReview
      \/ Move(view.sel + 1) \/ Move(view.sel - 1)
      \/ UNCHANGED <<sessions, view, pressed>>
  BY DEF NextView, Daemon, Served, LoadFails, TickFires, Spin, viewVars
<1> QED
  BY <1>1, <1>2, <1>3, <1>4, <1>5, <1>6, <1>7, <1>8

LEMMA ViewInvInit == InitView => ViewInv
<1>1. DOMAIN <<>> = {}
  OBVIOUS
<1> QED
  BY <1>1 DEF InitView, ViewInv, TimersInv, KeysInv, NoView, NoSession

LEMMA ViewInvNext ==
    ASSUME ViewInv, [NextView]_viewVars
    PROVE  ViewInv'
  BY TimersNext, KeysNext DEF ViewInv

-----------------------------------------------------------------------------
(* What follows. *)

LEMMA SpinnerHolds ==
    ASSUME ViewInv
    PROVE  OneSpinner
<1>1. spins <= 1
  BY DEF ViewInv, TimersInv
<1>2. hasSpinner => spins = 1
  BY DEF ViewInv, TimersInv
<1> QED
  BY <1>1, <1>2 DEF OneSpinner

CancelStep ==
    \A q \in requests' \ requests :
        q.act = "cancel" => pressed = [key |-> "x", id |-> q.id] /\ pressed' = pressed

LEMMA CancelHolds ==
    ASSUME ViewAssumption, ViewInv, [NextView]_viewVars
    PROVE  CancelStep
<1>1. SUFFICES ASSUME NEW q \in requests' \ requests, q.act = "cancel"
               PROVE  pressed = [key |-> "x", id |-> q.id] /\ pressed' = pressed
  BY DEF CancelStep
<1>2. Resume \/ CancelReview
  BY <1>1 DEF NextView, Daemon, Served, Loaded, LoadFails, TickFires, Spin, OpenView, CloseView,
              Move, viewVars
<1>3. CASE Resume
  <2>1. q = [act |-> "resume", id |-> Selected.id]
    BY <1>1, <1>3 DEF Resume, Request
  <2> QED
    BY <1>1, <2>1
<1>4. CASE CancelReview
  <2>1. /\ Live(Selected.state) /\ Confirmed /\ q = [act |-> "cancel", id |-> Selected.id]
        /\ pressed' = [key |-> "x", id |-> Selected.id]
    BY <1>1, <1>4 DEF CancelReview, Request
  <2>2. q.id = Selected.id /\ view.confirm = Selected.id
    BY <2>1 DEF Confirmed
  <2>3. Selected.id # NoSession
    <3>1. ~Live("none")
      BY DEF Live
    <3>2. view.open /\ view.sel + 1 \in DOMAIN sessions /\ Selected = sessions[view.sel + 1]
      BY <2>1, <3>1 DEF Selected
    <3> QED
      BY <3>2 DEF ViewInv, KeysInv, ViewAssumption, NoSession
  <2> QED
    BY <2>1, <2>2, <2>3 DEF ViewInv, KeysInv
<1> QED
  BY <1>2, <1>3, <1>4

\* Polls that find something running after a quiet spell never start a second chain of
\* spins next to one that has not stopped, and never leave none, for any sessions.
THEOREM OneSpinnerAtATime == SpecView => []OneSpinner
  BY ViewInvInit, ViewInvNext, SpinnerHolds, PTL DEF SpecView

\* A cancel goes out only for the session that was under the cursor at both presses of x
\* (requestSessionCancel), for any sessions and however polls move the list.
THEOREM CancelsAreConfirmed ==
    ASSUME ViewAssumption
    PROVE  SpecView => CancelConfirmed
<1>1. ViewInv /\ [NextView]_viewVars => CancelStep
  BY CancelHolds
<1>2. SpecView => []ViewInv /\ [][NextView]_viewVars
  BY ViewInvInit, ViewInvNext, PTL DEF SpecView
<1> QED
  BY <1>1, <1>2, PTL DEF CancelConfirmed, CancelStep
=============================================================================
