------------------------- MODULE SidecarPoolProofs -------------------------
(* Theorems about SidecarPool, for every number of tasks, of sidecars to reuse *)
(* and of sidecars to create.                                                  *)
EXTENDS SidecarPool, TLAPS, FiniteSetTheorems

-----------------------------------------------------------------------------
(* Lemmas on data. *)

LEMMA Counts == Cardinality(Existing) \in Nat /\ NewCount \in Nat
<1>1. Cardinality(Existing) \in Nat
  BY SizeAssumption, FS_CardinalityType
<1> QED
  BY <1>1, SizeAssumption DEF NewCount

LEMMA NoIdApart == NoId \notin Id
  BY ProcessAssumption DEF NoId, Id

LEMMA NextId ==
    ASSUME made \in 0..MaxMade, made < MaxMade
    PROVE  made + 1 \in Id /\ made + 1 \in 0..MaxMade
  BY BoundsAssumption DEF Id

LEMMA FailedCount ==
    ASSUME NEW S \in SUBSET Id
    PROVE  Cardinality(S) \in Nat
<1>1. IsFiniteSet(1..MaxMade)
  BY BoundsAssumption, FS_Interval
<1>2. IsFiniteSet(Id)
  BY <1>1, SizeAssumption, FS_Union DEF Id
<1> QED
  BY <1>2, FS_Subset, FS_CardinalityType

-----------------------------------------------------------------------------
(* Types. *)

\* A goroutine has a replacement, which is a sidecar, exactly while it is to put it in
\* an entry's place.
FreshMade == \A p \in Proc :
                /\ pc[p] \in {"swap", "rebuilt"} => fresh[p] \in Id
                /\ pc[p] \notin {"swap", "rebuilt"} => fresh[p] = NoId

TypeInv == TypeOK /\ FreshMade

LEMMA HandTypes ==
    ASSUME TypeOK, NEW p \in Proc, NEW id \in Id \cup {NoId}
    PROVE  /\ [hand EXCEPT ![p] = id] \in [Proc -> Id \cup {NoId}]
           /\ [fresh EXCEPT ![p] = id] \in [Proc -> Id \cup {NoId}]
  BY DEF TypeOK

LEMMA NoIdType == NoId \in Id \cup {NoId}
  OBVIOUS

LEMMA HandType ==
    ASSUME TypeOK, NEW p \in Proc
    PROVE  hand[p] \in Id \cup {NoId} /\ fresh[p] \in Id \cup {NoId}
  BY DEF TypeOK

LEMMA PutType ==
    ASSUME TypeOK, NEW id, Put(id)
    PROVE  free' \in [Id -> Nat]
<1>1. \A i \in Id : free[i] + 1 \in Nat /\ free[i] \in Nat
  BY DEF TypeOK
<1> QED
  BY <1>1 DEF TypeOK, Put

LEMMA CheckInType == TypeOK => CheckIn \in Nat
  BY DEF TypeOK, CheckIn

LEMMA OneLessType == \A n \in Nat : OneLess(n) \in Nat
  BY DEF OneLess

LEMMA InitTypes == Init => TypeOK
<1> SUFFICES ASSUME Init PROVE TypeOK
  OBVIOUS
<1>1. free \in [Id -> Nat]
  BY DEF Init
<1>2. made \in 0..MaxMade /\ (NewCount = 1 => Seed \in Id)
  BY BoundsAssumption DEF Init, Seed, Id
<1>3. entries \in SUBSET Id /\ remote \in SUBSET Id
  BY <1>2, BoundsAssumption DEF Init, Id, Seed
<1>4. pendingSyncs \in Nat /\ pendingCreates \in Nat
  BY Counts DEF Init
<1>5. pc \in [Proc -> Place]
  BY DEF Init, Place, TaskPlace, SyncPlace, OwnerPlace
<1>6. hand \in [Proc -> Id \cup {NoId}]
  BY DEF Init, Id
<1>7. errands \in [Proc -> Seq(Errand)]
  BY DEF Init
<1>8. ids \in SUBSET Id /\ file \in SUBSET Id /\ creating \in Nat
  BY <1>3, <1>4 DEF Init
<1>9. token \in 0..1 /\ checkedOut \in Nat /\ bad \in Nat /\ gone \in 0..MaxGone
        /\ undeleted \in 0..MaxUndeleted
  BY BoundsAssumption DEF Init
<1>10. snap \in [Proc -> SUBSET Id] /\ fresh \in [Proc -> Id \cup {NoId}]
  BY DEF Init
<1>11. concurrent \in BOOLEAN
  BY BoundsAssumption DEF Init
<1> QED
  BY <1>1, <1>2, <1>3, <1>4, <1>5, <1>6, <1>7, <1>8, <1>9, <1>10, <1>11 DEF Init, TypeOK

\* What a step that moves one goroutine does to the two functions it changes.
LEMMA GoesTypes ==
    ASSUME TypeOK, NEW p \in Proc, NEW place \in Place, NEW todo \in Seq(Errand),
           Goes(p, place, todo)
    PROVE  pc' \in [Proc -> Place] /\ errands' \in [Proc -> Seq(Errand)]
  BY DEF TypeOK, Goes

LEMMA ErrandLists ==
    /\ <<>> \in Seq(Errand)
    /\ <<"tell">> \in Seq(Errand)
    /\ <<"drop", "tell">> \in Seq(Errand)
    /\ <<"tell", "save">> \in Seq(Errand)
    /\ <<"save", "tell">> \in Seq(Errand)
  BY DEF Errand

LEMMA RemoteTypes ==
    ASSUME TypeOK, NEW S
    PROVE  /\ Deleted(S) => remote' \in SUBSET Id /\ undeleted' \in 0..MaxUndeleted
           /\ Rebuilt(S) => /\ remote' \in SUBSET Id /\ undeleted' \in 0..MaxUndeleted
                            /\ made' \in 0..MaxMade /\ made + 1 \in Id
           /\ NotRebuilt(S) => /\ remote' \in SUBSET Id /\ undeleted' \in 0..MaxUndeleted
                               /\ made' \in 0..MaxMade
<1> USE BoundsAssumption DEF TypeOK
<1>1. \A T : Deleted(T) => remote' \in SUBSET Id /\ undeleted' \in 0..MaxUndeleted
  BY DEF Deleted
<1>2. Rebuilt(S) => /\ remote' \in SUBSET Id /\ undeleted' \in 0..MaxUndeleted
                    /\ made' \in 0..MaxMade /\ made + 1 \in Id
  BY NextId DEF Rebuilt
<1>3. NotRebuilt(S) => /\ remote' \in SUBSET Id /\ undeleted' \in 0..MaxUndeleted
                       /\ made' \in 0..MaxMade
  <2>1. ASSUME NEW kept \in SUBSET ({S} \cap remote), made < MaxMade, made' = made + 1,
               remote' = (remote \ ({S} \ kept)) \cup {made + 1},
               undeleted' = undeleted + 1 + Cardinality(kept), undeleted' <= MaxUndeleted
        PROVE  /\ remote' \in SUBSET Id /\ undeleted' \in 0..MaxUndeleted
               /\ made' \in 0..MaxMade
    <3>1. Cardinality(kept) \in Nat
      BY <2>1, FailedCount
    <3> QED
      BY <2>1, <3>1, NextId
  <2> QED
    BY <1>1, <2>1 DEF NotRebuilt
<1> QED
  BY <1>1, <1>2, <1>3

\* A task keeps the types.
LEMMA TaskTypes ==
    ASSUME TypeInv, NEW t \in Task, Acts(t)
    PROVE  TypeOK'
<1> USE DEF poolVars, runVars, createVars, remoteVars, fileVars, TypeInv
<1>0. t \in Proc /\ TaskPlace \subseteq Place
  BY DEF Proc, Place
<1>1. CASE Ask(t)
  <2>1. pc' \in [Proc -> Place] /\ errands' \in [Proc -> Seq(Errand)]
    BY <1>0, <1>1, GoesTypes, ErrandLists DEF Ask, TaskPlace
  <2> QED
    BY <1>1, <2>1 DEF Ask, TypeOK
<1>2. CASE Refused(t)
  <2>1. pc' \in [Proc -> Place] /\ errands' \in [Proc -> Seq(Errand)]
    BY <1>0, <1>2, GoesTypes, ErrandLists DEF Refused, TaskPlace
  <2> QED
    BY <1>2, <2>1 DEF Refused, TypeOK
<1>3. CASE Acquire(t)
  <2>1. pc' \in [Proc -> Place] /\ errands' \in [Proc -> Seq(Errand)]
    BY <1>0, <1>3, GoesTypes, ErrandLists DEF Acquire, TaskPlace
  <2>2. PICK id \in Id : Available(id) /\ free' = Taken(id) /\ hand' = [hand EXCEPT ![t] = id]
    BY <1>3 DEF Acquire
  <2>3. free[id] - 1 \in Nat
    BY <2>2 DEF Available, TypeOK
  <2>4. free' \in [Id -> Nat]
    BY <2>2, <2>3 DEF Taken, TypeOK
  <2>5. hand' \in [Proc -> Id \cup {NoId}]
    BY <1>0, <2>2, HandTypes
  <2> QED
    BY <1>3, <2>1, <2>4, <2>5 DEF Acquire, TypeOK
<1>4. CASE FindsNone(t)
  <2>1. pc' \in [Proc -> Place] /\ errands' \in [Proc -> Seq(Errand)]
    BY <1>0, <1>4, GoesTypes, ErrandLists DEF FindsNone, TaskPlace
  <2> QED
    BY <1>4, <2>1 DEF FindsNone, TypeOK
<1>5. CASE Wake(t)
  <2>1. pc' \in [Proc -> Place] /\ errands' \in [Proc -> Seq(Errand)]
    BY <1>0, <1>5, GoesTypes, ErrandLists DEF Wake, TaskPlace
  <2> QED
    BY <1>5, <2>1 DEF Wake, TypeOK
<1>6. CASE GiveUp(t)
  <2>1. pc' \in [Proc -> Place] /\ errands' \in [Proc -> Seq(Errand)]
    BY <1>0, <1>6, GoesTypes, ErrandLists DEF GiveUp, TaskPlace
  <2> QED
    BY <1>6, <2>1 DEF GiveUp, TypeOK
<1>7. CASE Release(t)
  <2>1. pc' \in [Proc -> Place] /\ errands' \in [Proc -> Seq(Errand)]
    BY <1>0, <1>7, GoesTypes, ErrandLists DEF Release, TaskPlace
  <2>2. free' \in [Id -> Nat]
    BY <1>7, PutType DEF Release, TypeOK
  <2>3. hand' \in [Proc -> Id \cup {NoId}]
    BY <1>0, <1>7, HandTypes, NoIdType DEF Release, TypeOK
  <2>4. checkedOut' \in Nat
    BY <1>7, CheckInType DEF Release
  <2> QED
    BY <1>7, <2>1, <2>2, <2>3, <2>4 DEF Release, TypeOK
<1>8. CASE Rebuild(t)
  <2>1. pc' \in [Proc -> Place] /\ errands' \in [Proc -> Seq(Errand)]
    BY <1>0, <1>8, GoesTypes, ErrandLists DEF Rebuild, TaskPlace
  <2>2. fresh' \in [Proc -> Id \cup {NoId}]
    BY <1>8, RemoteTypes DEF Rebuild, TypeOK
  <2>3. remote' \in SUBSET Id /\ undeleted' \in 0..MaxUndeleted /\ made' \in 0..MaxMade
    BY <1>8, RemoteTypes DEF Rebuild
  <2> QED
    BY <1>8, <2>1, <2>2, <2>3 DEF Rebuild, TypeOK
<1>9. CASE CannotRebuild(t)
  <2>1. pc' \in [Proc -> Place] /\ errands' \in [Proc -> Seq(Errand)]
    BY <1>0, <1>9, GoesTypes, ErrandLists DEF CannotRebuild, TaskPlace
  <2>2. remote' \in SUBSET Id /\ undeleted' \in 0..MaxUndeleted /\ made' \in 0..MaxMade
    BY <1>9, RemoteTypes DEF CannotRebuild
  <2> QED
    BY <1>9, <2>1, <2>2 DEF CannotRebuild, TypeOK
<1>10. CASE Swap(t)
  <2>1. pc' \in [Proc -> Place] /\ errands' \in [Proc -> Seq(Errand)]
    BY <1>0, <1>10, GoesTypes, ErrandLists DEF Swap, TaskPlace
  <2>2. free' \in [Id -> Nat]
    BY <1>10, PutType DEF Swap
  <2>3. hand' \in [Proc -> Id \cup {NoId}] /\ fresh' \in [Proc -> Id \cup {NoId}]
    BY <1>0, <1>10, HandTypes, NoIdType DEF Swap
  <2>4. checkedOut' \in Nat
    BY <1>10, CheckInType DEF Swap
  <2>5. fresh[t] \in Id
    BY <1>0, <1>10 DEF Swap, FreshMade
  <2>6. entries' \in SUBSET Id /\ ids' \in SUBSET Id
    BY <1>10, <2>5 DEF Swap, InPlaceOf, TypeOK
  <2> QED
    BY <1>10, <2>1, <2>2, <2>3, <2>4, <2>6 DEF Swap, TypeOK
<1>11. CASE Retire(t)
  <2>1. pc' \in [Proc -> Place] /\ errands' \in [Proc -> Seq(Errand)]
    BY <1>0, <1>11, GoesTypes, ErrandLists DEF Retire, TaskPlace
  <2>2. hand' \in [Proc -> Id \cup {NoId}]
    BY <1>0, <1>11, HandTypes, NoIdType DEF Retire
  <2>3. checkedOut' \in Nat
    BY <1>11, CheckInType DEF Retire
  <2> QED
    BY <1>11, <2>1, <2>2, <2>3 DEF Retire, TypeOK
<1> QED
  BY <1>1, <1>2, <1>3, <1>4, <1>5, <1>6, <1>7, <1>8, <1>9, <1>10, <1>11 DEF Acts

\* A sync keeps the types.
LEMMA SyncTypes ==
    ASSUME TypeInv, NEW s \in Existing, Syncs(s)
    PROVE  TypeOK'
<1> USE DEF poolVars, runVars, createVars, remoteVars, fileVars, TypeInv
<1>0. s \in Proc /\ SyncPlace \subseteq Place
  BY DEF Proc, Place
<1>1. CASE SyncStale(s)
  <2>1. pc' \in [Proc -> Place] /\ errands' \in [Proc -> Seq(Errand)]
    BY <1>0, <1>1, GoesTypes, ErrandLists DEF SyncStale, SyncPlace
  <2>2. fresh' \in [Proc -> Id \cup {NoId}]
    BY <1>0, <1>1, RemoteTypes, HandTypes DEF SyncStale
  <2>3. remote' \in SUBSET Id /\ undeleted' \in 0..MaxUndeleted /\ made' \in 0..MaxMade
    BY <1>1, RemoteTypes DEF SyncStale
  <2> QED
    BY <1>1, <2>1, <2>2, <2>3 DEF SyncStale, TypeOK
<1>2. CASE Install(s)
  <2>1. pc' \in [Proc -> Place] /\ errands' \in [Proc -> Seq(Errand)]
    BY <1>0, <1>2, GoesTypes, ErrandLists DEF Install, SyncPlace
  <2>2. fresh[s] \in Id
    BY <1>0, <1>2 DEF Install, FreshMade
  <2>3. hand' \in [Proc -> Id \cup {NoId}] /\ fresh' \in [Proc -> Id \cup {NoId}]
    BY <1>0, <1>2, <2>2, HandTypes, NoIdType DEF Install
  <2>4. entries' \in SUBSET Id /\ ids' \in SUBSET Id
    BY <1>2, <2>2 DEF Install, InPlaceOf, TypeOK
  <2> QED
    BY <1>2, <2>1, <2>3, <2>4 DEF Install, TypeOK
<1>3. CASE Synced(s)
  <2>1. pc' \in [Proc -> Place] /\ errands' \in [Proc -> Seq(Errand)]
    BY <1>0, <1>3, GoesTypes, ErrandLists DEF Synced, SyncPlace
  <2>2. free' \in [Id -> Nat]
    BY <1>3, PutType DEF Synced, TypeOK
  <2>3. hand' \in [Proc -> Id \cup {NoId}]
    BY <1>0, <1>3, HandTypes, NoIdType DEF Synced, TypeOK
  <2>4. pendingSyncs' \in Nat
    BY <1>3, OneLessType DEF Synced, TypeOK
  <2> QED
    BY <1>3, <2>1, <2>2, <2>3, <2>4 DEF Synced, TypeOK
<1>4. CASE SyncFails(s)
  <2>1. pc' \in [Proc -> Place] /\ errands' \in [Proc -> Seq(Errand)]
    BY <1>0, <1>4, GoesTypes, ErrandLists DEF SyncFails, SyncPlace
  <2>2. remote' \in SUBSET Id /\ undeleted' \in 0..MaxUndeleted /\ made' \in 0..MaxMade
    BY <1>4, RemoteTypes DEF SyncFails, TypeOK
  <2>3. hand' \in [Proc -> Id \cup {NoId}]
    BY <1>0, <1>4, HandTypes, NoIdType DEF SyncFails
  <2>4. pendingSyncs' \in Nat
    BY <1>4, OneLessType DEF SyncFails, TypeOK
  <2> QED
    BY <1>4, <2>1, <2>2, <2>3, <2>4 DEF SyncFails, TypeOK
<1> QED
  BY <1>1, <1>2, <1>3, <1>4 DEF Syncs

\* An errand keeps the types.
LEMMA ErrandTypes ==
    ASSUME TypeInv, NEW p \in Proc, Errands(p)
    PROVE  TypeOK'
<1> USE DEF poolVars, runVars, createVars, remoteVars, fileVars, TypeInv
<1> DEFINE left == errands[p]
<1>1. left \in Seq(Errand)
  BY DEF TypeOK
<1>2. left # <<>>
  BY DEF Errands, Tell, Save, Write, Drop, Ready
<1>3. Tail(left) \in Seq(Errand)
  BY <1>1, <1>2
<1>4. <<"write">> \o Tail(left) \in Seq(Errand)
  BY <1>3 DEF Errand
<1>5. \A list \in Seq(Errand) : [errands EXCEPT ![p] = list] \in [Proc -> Seq(Errand)]
  BY DEF TypeOK
<1>6. \A S \in SUBSET Id : [snap EXCEPT ![p] = S] \in [Proc -> SUBSET Id]
  BY DEF TypeOK
<1>7. CASE Tell(p)
  <2>1. errands' \in [Proc -> Seq(Errand)]
    BY <1>3, <1>5, <1>7 DEF Tell
  <2>2. token' \in 0..1
    BY <1>7 DEF Tell, Told
  <2> QED
    BY <1>7, <2>1, <2>2 DEF Tell, TypeOK
<1>8. CASE Save(p)
  <2>1. errands' \in [Proc -> Seq(Errand)]
    BY <1>4, <1>5, <1>8 DEF Save
  <2>2. snap' \in [Proc -> SUBSET Id]
    BY <1>6, <1>8 DEF Save, TypeOK
  <2> QED
    BY <1>8, <2>1, <2>2 DEF Save, TypeOK
<1>9. CASE Write(p)
  <2>1. errands' \in [Proc -> Seq(Errand)]
    BY <1>3, <1>5, <1>9 DEF Write
  <2>2. snap' \in [Proc -> SUBSET Id]
    BY <1>6, <1>9 DEF Write
  <2>3. file' \in SUBSET Id
    BY <1>9 DEF Write, TypeOK
  <2> QED
    BY <1>9, <2>1, <2>2, <2>3 DEF Write, TypeOK
<1>10. CASE Drop(p)
  <2>1. errands' \in [Proc -> Seq(Errand)]
    BY <1>3, <1>5, <1>10 DEF Drop
  <2>2. remote' \in SUBSET Id /\ undeleted' \in 0..MaxUndeleted
    BY <1>10, RemoteTypes DEF Drop
  <2>3. hand' \in [Proc -> Id \cup {NoId}]
    BY <1>10, HandTypes, NoIdType DEF Drop
  <2> QED
    BY <1>10, <2>1, <2>2, <2>3 DEF Drop, TypeOK
<1> QED
  BY <1>7, <1>8, <1>9, <1>10 DEF Errands

\* The creation of clones keeps the types.
LEMMA CloneTypes == TypeInv /\ Clones => TypeOK'
<1> SUFFICES ASSUME TypeInv, Clones PROVE TypeOK'
  OBVIOUS
<1> USE DEF poolVars, runVars, remoteVars, fileVars, procVars, TypeInv
<1>0. Collector \in Proc /\ {"collect", "done"} \subseteq Place
  BY DEF Proc, Place, SyncPlace
<1>1. CASE CloneLands
  <2>1. made + 1 \in Id /\ made' \in 0..MaxMade
    BY <1>1, NextId DEF CloneLands, TypeOK
  <2>2. creating' \in Nat /\ remote' \in SUBSET Id /\ landed' \in SUBSET Id
    BY <1>1, <2>1 DEF CloneLands, TypeOK
  <2> QED
    BY <1>1, <2>1, <2>2 DEF CloneLands, TypeOK
<1>2. CASE CloneFails
  <2>1. made < MaxMade => made + 1 \in Id /\ made + 1 \in 0..MaxMade
    BY NextId DEF TypeOK
  <2>2. made' \in 0..MaxMade /\ remote' \in SUBSET Id /\ orphans' \in SUBSET Id
    BY <1>2, <2>1 DEF CloneFails, TypeOK
  <2>3. creating' \in Nat /\ bad' \in Nat
    BY <1>2 DEF CloneFails, TypeOK
  <2> QED
    BY <1>2, <2>2, <2>3 DEF CloneFails, TypeOK
<1>3. CASE CollectClone
  <2>1. PICK id \in landed :
            /\ landed' = landed \ {id}
            /\ \/ /\ closed
                  /\ hand' = [hand EXCEPT ![Collector] = id]
                  /\ Goes(Collector, "collect", <<"drop", "tell">>)
                  /\ UNCHANGED <<free, ids, entries>>
               \/ /\ ~closed
                  /\ ids' = ids \cup {id} /\ entries' = entries \cup {id}
                  /\ Put(id)
                  /\ Goes(Collector, "collect", <<"save", "tell">>)
                  /\ UNCHANGED hand
    BY <1>3 DEF CollectClone
  <2>2. id \in Id
    BY <2>1 DEF TypeOK
  <2>3. pc' \in [Proc -> Place] /\ errands' \in [Proc -> Seq(Errand)]
    BY <1>0, <2>1, GoesTypes, ErrandLists
  <2>4. free' \in [Id -> Nat]
    BY <2>1, PutType DEF TypeOK
  <2>5. hand' \in [Proc -> Id \cup {NoId}]
    BY <1>0, <2>1, <2>2, HandTypes DEF TypeOK
  <2>6. ids' \in SUBSET Id /\ entries' \in SUBSET Id /\ landed' \in SUBSET Id
    BY <2>1, <2>2 DEF TypeOK
  <2>7. pendingCreates' \in Nat
    BY <1>3, OneLessType DEF CollectClone, TypeOK
  <2> QED
    BY <1>3, <2>3, <2>4, <2>5, <2>6, <2>7 DEF CollectClone, TypeOK
<1>4. CASE CollectFailure
  <2>1. pc' \in [Proc -> Place] /\ errands' \in [Proc -> Seq(Errand)]
    BY <1>0, <1>4, GoesTypes, ErrandLists DEF CollectFailure
  <2>2. landed' \subseteq landed /\ (bad' = bad \/ (bad > 0 /\ bad' = bad - 1))
    BY <1>4 DEF CollectFailure
  <2>5. landed' \in SUBSET Id /\ bad' \in Nat
    BY <2>2 DEF TypeOK
  <2>3. remote' \in SUBSET Id /\ undeleted' \in 0..MaxUndeleted
    BY <1>4, RemoteTypes DEF CollectFailure, TypeOK
  <2>4. pendingCreates' \in Nat
    BY <1>4, OneLessType DEF CollectFailure, TypeOK
  <2> QED
    BY <1>4, <2>1, <2>3, <2>4, <2>5 DEF CollectFailure, TypeOK
<1>5. CASE EndCollect
  <2>1. pc' \in [Proc -> Place] /\ errands' \in [Proc -> Seq(Errand)]
    BY <1>0, <1>5, GoesTypes, ErrandLists DEF EndCollect
  <2>2. remote' \in SUBSET Id /\ undeleted' \in 0..MaxUndeleted
    BY <1>5, RemoteTypes DEF EndCollect
  <2> QED
    BY <1>5, <2>1, <2>2 DEF EndCollect, createVars, TypeOK
<1> QED
  BY <1>1, <1>2, <1>3, <1>4, <1>5 DEF Clones

\* The owner keeps the types.
LEMMA OwnerTypes == TypeInv /\ Owns => TypeOK'
<1> SUFFICES ASSUME TypeInv, Owns PROVE TypeOK'
  OBVIOUS
<1> USE DEF poolVars, runVars, createVars, remoteVars, fileVars, TypeInv
<1>0. Owner \in Proc /\ OwnerPlace \subseteq Place
  BY DEF Proc, Place
<1>1. CASE Destroy
  <2>1. pc' \in [Proc -> Place] /\ errands' \in [Proc -> Seq(Errand)]
    BY <1>0, <1>1, GoesTypes, ErrandLists DEF Destroy, OwnerPlace
  <2> QED
    BY <1>1, <2>1 DEF Destroy, TypeOK
<1>2. CASE DeleteMembers
  <2>1. PICK failed \in SUBSET (ids \cap remote) :
            /\ undeleted' = undeleted + Cardinality(failed) /\ undeleted' <= MaxUndeleted
            /\ remote' = remote \ (ids \ failed)
            /\ \/ file' = {} /\ UNCHANGED ids /\ Goes(Owner, "destroyed", <<"tell">>)
               \/ ids' = failed /\ UNCHANGED file /\ Goes(Owner, "destroyed", <<"tell", "save">>)
    BY <1>2 DEF DeleteMembers
  <2>2. pc' \in [Proc -> Place] /\ errands' \in [Proc -> Seq(Errand)]
    BY <1>0, <2>1, GoesTypes, ErrandLists DEF OwnerPlace
  <2>3. failed \in SUBSET Id
    BY <2>1 DEF TypeOK
  <2>4. Cardinality(failed) \in Nat
    BY <2>3, FailedCount
  <2>5. undeleted' \in 0..MaxUndeleted
    BY <2>1, <2>4, BoundsAssumption DEF TypeOK
  <2>6. file' \in SUBSET Id /\ ids' \in SUBSET Id /\ remote' \in SUBSET Id
    BY <2>1, <2>3 DEF TypeOK
  <2> QED
    BY <1>2, <2>2, <2>5, <2>6 DEF DeleteMembers, TypeOK
<1>3. CASE Close
  <2>1. pc' \in [Proc -> Place] /\ errands' \in [Proc -> Seq(Errand)]
    BY <1>0, <1>3, GoesTypes, ErrandLists DEF Close, OwnerPlace
  <2> QED
    BY <1>3, <2>1 DEF Close, TypeOK
<1>4. CASE Kept
  <2>1. pc' \in [Proc -> Place] /\ errands' \in [Proc -> Seq(Errand)]
    BY <1>0, <1>4, GoesTypes, ErrandLists DEF Kept, OwnerPlace
  <2> QED
    BY <1>4, <2>1 DEF Kept, TypeOK
<1> QED
  BY <1>1, <1>2, <1>3, <1>4 DEF Owns

LEMMA OtherTypes == TypeInv /\ (EndSync \/ Vanish \/ Interrupt) => TypeOK'
<1> SUFFICES ASSUME TypeInv PROVE EndSync \/ Vanish \/ Interrupt => TypeOK'
  OBVIOUS
<1> USE DEF poolVars, runVars, createVars, remoteVars, fileVars, procVars, TypeInv
<1>1. CASE EndSync
  <2>1. Closer \in Proc /\ "done" \in Place
    BY DEF Proc, Place, SyncPlace
  <2>2. pc' \in [Proc -> Place] /\ errands' \in [Proc -> Seq(Errand)]
    BY <1>1, <2>1, GoesTypes, ErrandLists DEF EndSync
  <2> QED
    BY <1>1, <2>2 DEF EndSync, TypeOK
<1>2. CASE Vanish
  <2>1. gone' \in 0..MaxGone /\ remote' \in SUBSET Id
    BY <1>2, BoundsAssumption DEF Vanish, TypeOK
  <2> QED
    BY <1>2, <2>1 DEF Vanish, TypeOK
<1>3. CASE Interrupt
  BY <1>3 DEF Interrupt, TypeOK
<1> QED
  BY <1>1, <1>2, <1>3

-----------------------------------------------------------------------------
(* A replacement that is to take an entry's place is a sidecar. *)

LEMMA FreshKept ==
    ASSUME TypeInv, NEW p \in Proc, NEW place, place \notin {"swap", "rebuilt"},
           pc' = [pc EXCEPT ![p] = place],
           \/ fresh' = [fresh EXCEPT ![p] = NoId]
           \/ UNCHANGED fresh /\ pc[p] \notin {"swap", "rebuilt"}
    PROVE  FreshMade'
<1> SUFFICES ASSUME NEW q \in Proc
             PROVE  /\ pc'[q] \in {"swap", "rebuilt"} => fresh'[q] \in Id
                    /\ pc'[q] \notin {"swap", "rebuilt"} => fresh'[q] = NoId
  BY DEF FreshMade
<1>1. CASE q = p
  BY <1>1 DEF TypeInv, TypeOK, FreshMade
<1>2. CASE q # p
  <2>1. pc'[q] = pc[q] /\ fresh'[q] = fresh[q]
    BY <1>2 DEF TypeInv, TypeOK
  <2> QED
    BY <2>1 DEF TypeInv, FreshMade
<1> QED
  BY <1>1, <1>2

LEMMA FreshSame == TypeInv /\ UNCHANGED <<pc, fresh>> => FreshMade'
  BY DEF TypeInv, FreshMade

LEMMA FreshBorn ==
    ASSUME TypeInv, NEW p \in Proc, NEW place \in {"swap", "rebuilt"}, made + 1 \in Id,
           pc' = [pc EXCEPT ![p] = place], fresh' = [fresh EXCEPT ![p] = made + 1]
    PROVE  FreshMade'
<1> SUFFICES ASSUME NEW q \in Proc
             PROVE  /\ pc'[q] \in {"swap", "rebuilt"} => fresh'[q] \in Id
                    /\ pc'[q] \notin {"swap", "rebuilt"} => fresh'[q] = NoId
  BY DEF FreshMade
<1>1. CASE q = p
  BY <1>1 DEF TypeInv, TypeOK
<1>2. CASE q # p
  <2>1. pc'[q] = pc[q] /\ fresh'[q] = fresh[q]
    BY <1>2 DEF TypeInv, TypeOK
  <2> QED
    BY <2>1 DEF TypeInv, FreshMade
<1> QED
  BY <1>1, <1>2

LEMMA FreshNext == TypeInv /\ [Next]_vars => FreshMade'
<1> SUFFICES ASSUME TypeInv, [Next]_vars PROVE FreshMade'
  OBVIOUS
<1> USE DEF Goes
<1>0. Task \cup Existing \cup {Collector, Closer, Owner} = Proc
  BY DEF Proc
<1>1. ASSUME NEW t \in Task, Acts(t) PROVE FreshMade'
  <2>1. CASE Rebuild(t)
    <3>1. made + 1 \in Id
      BY <2>1, RemoteTypes DEF Rebuild, TypeInv
    <3> QED
      BY <1>0, <2>1, <3>1, FreshBorn DEF Rebuild
  <2>2. CASE Swap(t)
    BY <1>0, <2>2, FreshKept DEF Swap
  <2>3. CASE Ask(t) \/ Refused(t) \/ Acquire(t) \/ FindsNone(t)
    BY <1>0, <2>3, FreshKept DEF Ask, Refused, Acquire, FindsNone
  <2>4. CASE Wake(t) \/ GiveUp(t) \/ Release(t) \/ CannotRebuild(t) \/ Retire(t)
    BY <1>0, <2>4, FreshKept DEF Wake, GiveUp, Release, CannotRebuild, Retire
  <2> QED
    BY <1>1, <2>1, <2>2, <2>3, <2>4 DEF Acts
<1>2. ASSUME NEW s \in Existing, Syncs(s) PROVE FreshMade'
  <2>1. CASE SyncStale(s)
    <3>1. made + 1 \in Id
      BY <2>1, RemoteTypes DEF SyncStale, TypeInv
    <3> QED
      BY <1>0, <2>1, <3>1, FreshBorn DEF SyncStale
  <2>2. CASE Install(s)
    BY <1>0, <2>2, FreshKept DEF Install
  <2>3. CASE Synced(s) \/ SyncFails(s)
    BY <1>0, <2>3, FreshKept DEF Synced, SyncFails
  <2> QED
    BY <1>2, <2>1, <2>2, <2>3 DEF Syncs
<1>3. ASSUME NEW p \in Proc, Errands(p) PROVE FreshMade'
  BY <1>3, FreshSame DEF Errands, Tell, Save, Write, Drop
<1>4. CASE EndSync
  BY <1>0, <1>4, FreshKept DEF EndSync
<1>5. CASE CloneLands \/ CloneFails \/ Vanish \/ Interrupt
  BY <1>5, FreshSame DEF CloneLands, CloneFails, Vanish, Interrupt, procVars
<1>6. CASE CollectClone
  BY <1>0, <1>6, FreshKept DEF CollectClone
<1>7. CASE CollectFailure \/ EndCollect
  BY <1>0, <1>7, FreshKept DEF CollectFailure, EndCollect
<1>8. CASE Destroy \/ Close \/ Kept
  BY <1>0, <1>8, FreshKept DEF Destroy, Close, Kept
<1>9. CASE DeleteMembers
  BY <1>0, <1>9, FreshKept DEF DeleteMembers
<1>10. CASE UNCHANGED vars
  BY <1>10, FreshSame DEF vars, procVars
<1> QED
  BY <1>1, <1>2, <1>3, <1>4, <1>5, <1>6, <1>7, <1>8, <1>9, <1>10 DEF Next, Clones, Owns

-----------------------------------------------------------------------------
(* Type correctness. *)

LEMMA TypesNext == TypeInv /\ [Next]_vars => TypeOK'
<1> SUFFICES ASSUME TypeInv, [Next]_vars PROVE TypeOK'
  OBVIOUS
<1>1. CASE UNCHANGED vars
  BY <1>1 DEF vars, poolVars, runVars, createVars, remoteVars, fileVars, procVars, TypeInv, TypeOK
<1> QED
  BY <1>1, TaskTypes, SyncTypes, ErrandTypes, CloneTypes, OwnerTypes, OtherTypes DEF Next

\* The pool's state is always of its type: no counter below zero, nobody's hand on
\* what is not a sidecar (TypeOK of SidecarPool).
THEOREM PoolTypes == Spec => []TypeOK
<1>1. Init => TypeInv
  <2>1. Init => FreshMade
    BY DEF Init, FreshMade
  <2> QED
    BY <2>1, InitTypes DEF TypeInv
<1>2. TypeInv /\ [Next]_vars => TypeInv'
  BY TypesNext, FreshNext DEF TypeInv
<1>3. TypeInv => TypeOK
  BY DEF TypeInv
<1> QED
  BY <1>1, <1>2, <1>3, PTL DEF Spec

-----------------------------------------------------------------------------
(* One owner.  A sidecar is free, in somebody's hands, or landed and not yet     *)
(* collected; and one that was not created yet is none of these.                 *)

Unowned(i) == free[i] = 0 /\ i \notin landed /\ \A p \in Proc : ~Has(p, i)

LandedApart == \A i \in landed : free[i] = 0 /\ \A p \in Proc : ~Has(p, i)
Unborn == \A i \in Id : i \in Nat /\ i > made => Unowned(i)

OwnInv == OneOwner /\ LandedApart /\ Unborn

\* Steps that only let go of sidecars.
LEMMA LetGo ==
    ASSUME TypeOK, OwnInv, UNCHANGED free, landed' \subseteq landed,
           made' \in Nat, made <= made',
           \A p \in Proc, i \in Id : Has(p, i)' => Has(p, i)
    PROVE  OwnInv'
<1>1. OneOwner'
  BY DEF OwnInv, OneOwner, TypeOK
<1>2. LandedApart'
  BY DEF OwnInv, LandedApart, TypeOK
<1>3. Unborn'
  BY DEF OwnInv, Unborn, Unowned, TypeOK
<1> QED
  BY <1>1, <1>2, <1>3 DEF OwnInv

\* Steps that put a sidecar into the channel, which its owner lets go of.
LEMMA PutFree ==
    ASSUME TypeOK, OwnInv, NEW id, Put(id), id \in Id => free[id] = 0,
           id \in Id /\ id \in Nat => id <= made,
           landed' \subseteq landed \ {id}, UNCHANGED made,
           \A p \in Proc, i \in Id : Has(p, i)' => Has(p, i) /\ i # id
    PROVE  OwnInv'
<1>1. \A i \in Id : free'[i] = IF i = id THEN 1 ELSE free[i]
  BY DEF Put, TypeOK
<1>2. OneOwner'
  BY <1>1 DEF OwnInv, OneOwner
<1>3. LandedApart'
  BY <1>1 DEF OwnInv, LandedApart, TypeOK
<1>4. Unborn'
  BY <1>1 DEF OwnInv, Unborn, Unowned, TypeOK
<1> QED
  BY <1>2, <1>3, <1>4 DEF OwnInv

\* Steps that put a sidecar into q's hands.
LEMMA TakeInHand ==
    ASSUME TypeOK, OwnInv, NEW q \in Proc, NEW id \in Id,
           \A i \in Id : free'[i] = IF i = id THEN 0 ELSE free[i],
           landed' \subseteq landed \ {id}, UNCHANGED made,
           id \in Nat => id <= made,
           \A p \in Proc : Has(p, id) => p = q,
           \A p \in Proc, i \in Id : Has(p, i)' => Has(p, i) \/ (p = q /\ i = id)
    PROVE  OwnInv'
<1>1. OneOwner'
  BY DEF OwnInv, OneOwner, TypeOK
<1>2. LandedApart'
  BY DEF OwnInv, LandedApart, TypeOK
<1>3. Unborn'
  BY DEF OwnInv, Unborn, Unowned, TypeOK
<1> QED
  BY <1>1, <1>2, <1>3 DEF OwnInv

\* Steps that create a sidecar for q.
LEMMA Born ==
    ASSUME TypeOK, OwnInv, NEW q \in Proc, made + 1 \in Id, made' = made + 1,
           UNCHANGED <<free, landed>>,
           \A p \in Proc, i \in Id : Has(p, i)' => Has(p, i) \/ (p = q /\ i = made + 1)
    PROVE  OwnInv'
<1>0. made + 1 \in Nat /\ made + 1 > made /\ \A i \in Nat : i > made + 1 => i > made
  BY DEF TypeOK
<1>1. Unowned(made + 1)
  BY <1>0 DEF OwnInv, Unborn
<1>2. OneOwner'
  BY <1>1 DEF OwnInv, OneOwner, Unowned
<1>3. LandedApart'
  BY <1>1 DEF OwnInv, LandedApart, Unowned, TypeOK
<1>4. Unborn'
  <2> SUFFICES ASSUME NEW i \in Id, i \in Nat, i > made + 1 PROVE Unowned(i)'
    BY DEF Unborn
  <2>1. Unowned(i) /\ i # made + 1
    BY <1>0 DEF OwnInv, Unborn
  <2> QED
    BY <2>1 DEF Unowned
<1> QED
  BY <1>2, <1>3, <1>4 DEF OwnInv

\* What a change of one goroutine's hands does to who has what.
LEMMA HandSet ==
    ASSUME TypeOK, NEW q \in Proc, NEW id \in Id \cup {NoId},
           hand' = [hand EXCEPT ![q] = id], UNCHANGED fresh
    PROVE  \A p \in Proc, i \in Id : Has(p, i)' => Has(p, i) \/ (p = q /\ i = id)
  BY DEF TypeOK, Has

LEMMA HandsEmpty ==
    ASSUME TypeOK, NEW q \in Proc, hand' = [hand EXCEPT ![q] = NoId],
           \/ fresh' = [fresh EXCEPT ![q] = NoId]
           \/ UNCHANGED fresh /\ fresh[q] = NoId
    PROVE  \A p \in Proc, i \in Id : Has(p, i)' => Has(p, i) /\ p # q
<1>1. \A p \in Proc : p # q => hand'[p] = hand[p] /\ fresh'[p] = fresh[p]
  BY DEF TypeOK
<1>2. hand'[q] = NoId /\ fresh'[q] = NoId
  BY DEF TypeOK
<1> QED
  BY <1>1, <1>2, NoIdApart DEF Has

\* A goroutine puts what it had in its hands into the channel.
LEMMA GivesBack ==
    ASSUME TypeOK, OwnInv, NEW q \in Proc, NEW id, id = hand[q] \/ id = fresh[q],
           Put(id), hand' = [hand EXCEPT ![q] = NoId],
           \/ fresh' = [fresh EXCEPT ![q] = NoId]
           \/ UNCHANGED fresh /\ fresh[q] = NoId,
           UNCHANGED <<landed, made>>
    PROVE  OwnInv'
<1>1. id \in Id => Has(q, id)
  BY DEF Has
<1>2. \A p \in Proc, i \in Id : Has(p, i)' => Has(p, i) /\ i # id
  <2>1. \A p \in Proc, i \in Id : Has(p, i)' => Has(p, i) /\ p # q
    BY HandsEmpty
  <2>2. \A p \in Proc, i \in Id : Has(p, i) /\ p # q => i # id
    BY <1>1 DEF OwnInv, OneOwner
  <2> QED
    BY <2>1, <2>2
<1>3. id \in Id => free[id] = 0
  BY <1>1 DEF OwnInv, OneOwner
<1>4. id \in Id /\ id \in Nat => id <= made
  BY <1>1 DEF OwnInv, Unborn, Unowned, TypeOK
<1>5. id \notin landed
  BY <1>1 DEF OwnInv, LandedApart, TypeOK
<1>6. landed' \subseteq landed \ {id}
  BY <1>5
<1> QED
  BY <1>2, <1>3, <1>4, <1>6, PutFree

LEMMA OwnTask ==
    ASSUME TypeInv, OwnInv, NEW t \in Task, Acts(t)
    PROVE  OwnInv'
<1> USE DEF TypeInv, poolVars, runVars, createVars, remoteVars, fileVars
<1>0. t \in Proc
  BY DEF Proc
<1>1. CASE Ask(t) \/ Refused(t) \/ FindsNone(t) \/ Wake(t) \/ GiveUp(t)
  <2>1. UNCHANGED <<free, landed, made, hand, fresh>>
    BY <1>1 DEF Ask, Refused, FindsNone, Wake, GiveUp
  <2> QED
    BY <2>1, LetGo DEF Has, TypeOK
<1>2. CASE CannotRebuild(t)
  <2>1. UNCHANGED <<free, landed, hand, fresh>>
    BY <1>2 DEF CannotRebuild
  <2>2. made' \in Nat /\ made <= made'
    BY <1>2 DEF CannotRebuild, NotRebuilt, TypeOK
  <2> QED
    BY <2>1, <2>2, LetGo DEF Has
<1>3. CASE Acquire(t)
  <2>1. PICK id \in Id : Available(id) /\ free' = Taken(id) /\ hand' = [hand EXCEPT ![t] = id]
    BY <1>3 DEF Acquire
  <2>2. UNCHANGED <<landed, made, fresh>>
    BY <1>3 DEF Acquire
  <2>3. free[id] = 1
    BY <2>1 DEF Available, OwnInv, OneOwner, TypeOK
  <2>4. \A i \in Id : free'[i] = IF i = id THEN 0 ELSE free[i]
    BY <2>1, <2>3 DEF Taken, TypeOK
  <2>5. \A p \in Proc : ~Has(p, id)
    BY <2>3 DEF OwnInv, OneOwner
  <2>6. id \notin landed
    BY <2>3 DEF OwnInv, LandedApart
  <2>7. id \in Nat => id <= made
    BY <2>3 DEF OwnInv, Unborn, Unowned, TypeOK
  <2>8. \A p \in Proc, i \in Id : Has(p, i)' => Has(p, i) \/ (p = t /\ i = id)
    BY <1>0, <2>1, <2>2, HandSet
  <2>9. landed' \subseteq landed \ {id}
    BY <2>2, <2>6
  <2> QED
    BY <1>0, <2>2, <2>4, <2>5, <2>7, <2>8, <2>9, TakeInHand
<1>4. CASE Release(t)
  <2>1. UNCHANGED <<landed, made, fresh>>
    BY <1>4 DEF Release
  <2>2. CASE closed
    <3>1. UNCHANGED <<free, hand>>
      BY <1>4, <2>2 DEF Release
    <3> QED
      BY <2>1, <3>1, LetGo DEF Has, TypeOK
  <2>3. CASE ~closed
    <3>1. Put(hand[t]) /\ hand' = [hand EXCEPT ![t] = NoId]
      BY <1>4, <2>3 DEF Release
    <3>2. fresh[t] = NoId
      BY <1>0, <1>4 DEF Release, FreshMade
    <3> QED
      BY <1>0, <2>1, <3>1, <3>2, GivesBack
  <2> QED
    BY <2>2, <2>3
<1>5. CASE Rebuild(t)
  <2>1. made + 1 \in Id /\ made' = made + 1
    BY <1>5, RemoteTypes DEF Rebuild, Rebuilt
  <2>2. UNCHANGED <<free, landed, hand>> /\ fresh' = [fresh EXCEPT ![t] = made + 1]
    BY <1>5 DEF Rebuild
  <2>3. \A p \in Proc, i \in Id : Has(p, i)' => Has(p, i) \/ (p = t /\ i = made + 1)
    BY <2>2 DEF Has, TypeOK
  <2> QED
    BY <1>0, <2>1, <2>2, <2>3, Born
<1>6. CASE Swap(t)
  <2>1. /\ Put(fresh[t]) /\ hand' = [hand EXCEPT ![t] = NoId]
        /\ fresh' = [fresh EXCEPT ![t] = NoId] /\ UNCHANGED <<landed, made>>
    BY <1>6 DEF Swap
  <2> QED
    BY <1>0, <2>1, GivesBack
<1>7. CASE Retire(t)
  <2>1. UNCHANGED <<free, landed, made, fresh>> /\ hand' = [hand EXCEPT ![t] = NoId]
    BY <1>7 DEF Retire
  <2>2. fresh[t] = NoId
    BY <1>0, <1>7 DEF Retire, FreshMade
  <2>3. \A p \in Proc, i \in Id : Has(p, i)' => Has(p, i)
    BY <1>0, <2>1, <2>2, HandsEmpty
  <2> QED
    BY <2>1, <2>3, LetGo DEF TypeOK
<1> QED
  BY <1>1, <1>2, <1>3, <1>4, <1>5, <1>6, <1>7 DEF Acts

LEMMA OwnSync ==
    ASSUME TypeInv, OwnInv, NEW s \in Existing, Syncs(s)
    PROVE  OwnInv'
<1> USE DEF TypeInv, poolVars, runVars, createVars, remoteVars, fileVars
<1>0. s \in Proc
  BY DEF Proc
<1>1. CASE SyncStale(s)
  <2>1. made + 1 \in Id /\ made' = made + 1
    BY <1>1, RemoteTypes DEF SyncStale, Rebuilt
  <2>2. UNCHANGED <<free, landed, hand>> /\ fresh' = [fresh EXCEPT ![s] = made + 1]
    BY <1>1 DEF SyncStale
  <2>3. \A p \in Proc, i \in Id : Has(p, i)' => Has(p, i) \/ (p = s /\ i = made + 1)
    BY <2>2 DEF Has, TypeOK
  <2> QED
    BY <1>0, <2>1, <2>2, <2>3, Born
<1>2. CASE Install(s)
  <2>1. /\ hand' = [hand EXCEPT ![s] = fresh[s]] /\ fresh' = [fresh EXCEPT ![s] = NoId]
        /\ UNCHANGED <<free, landed, made>>
    BY <1>2 DEF Install
  <2>2. \A p \in Proc, i \in Id : Has(p, i)' => Has(p, i)
    BY <2>1, NoIdApart DEF Has, TypeOK
  <2> QED
    BY <2>1, <2>2, LetGo DEF TypeOK
<1>3. CASE Synced(s)
  <2>1. UNCHANGED <<landed, made, fresh>>
    BY <1>3 DEF Synced
  <2>2. CASE closed
    <3>1. UNCHANGED <<free, hand>>
      BY <1>3, <2>2 DEF Synced
    <3> QED
      BY <2>1, <3>1, LetGo DEF Has, TypeOK
  <2>3. CASE ~closed
    <3>1. Put(hand[s]) /\ hand' = [hand EXCEPT ![s] = NoId]
      BY <1>3, <2>3 DEF Synced
    <3>2. fresh[s] = NoId
      BY <1>0, <1>3 DEF Synced, FreshMade
    <3> QED
      BY <1>0, <2>1, <3>1, <3>2, GivesBack
  <2> QED
    BY <2>2, <2>3
<1>4. CASE SyncFails(s)
  <2>1. UNCHANGED <<free, landed, fresh>> /\ hand' = [hand EXCEPT ![s] = NoId]
    BY <1>4 DEF SyncFails
  <2>2. fresh[s] = NoId
    BY <1>0, <1>4 DEF SyncFails, FreshMade
  <2>3. \A p \in Proc, i \in Id : Has(p, i)' => Has(p, i)
    BY <1>0, <2>1, <2>2, HandsEmpty
  <2>4. made' \in Nat /\ made <= made'
    BY <1>4 DEF SyncFails, NotRebuilt, TypeOK
  <2> QED
    BY <2>1, <2>3, <2>4, LetGo
<1> QED
  BY <1>1, <1>2, <1>3, <1>4 DEF Syncs

LEMMA OwnErrand ==
    ASSUME TypeInv, OwnInv, NEW p \in Proc, Errands(p)
    PROVE  OwnInv'
<1> USE DEF TypeInv, poolVars, runVars, createVars, remoteVars, fileVars
<1>1. CASE Tell(p) \/ Save(p) \/ Write(p)
  <2>1. UNCHANGED <<free, landed, made, hand, fresh>>
    BY <1>1 DEF Tell, Save, Write
  <2> QED
    BY <2>1, LetGo DEF Has, TypeOK
<1>2. CASE Drop(p)
  <2>1. UNCHANGED <<free, landed, made, fresh>> /\ hand' = [hand EXCEPT ![p] = NoId]
    BY <1>2 DEF Drop
  <2>2. \A q \in Proc, i \in Id : Has(q, i)' => Has(q, i)
    BY <2>1, NoIdApart DEF Has, TypeOK
  <2> QED
    BY <2>1, <2>2, LetGo DEF TypeOK
<1> QED
  BY <1>1, <1>2 DEF Errands

\* A clone that lands is new.
LEMMA Lands ==
    ASSUME TypeOK, OwnInv, CloneLands
    PROVE  OwnInv'
<1> USE DEF poolVars, runVars, remoteVars, fileVars, procVars
<1>0. /\ made + 1 \in Id /\ made' = made + 1 /\ landed' = landed \cup {made + 1}
      /\ UNCHANGED <<free, hand, fresh>>
  <2>1. made + 1 \in 1..MaxMade
    BY BoundsAssumption DEF CloneLands, TypeOK
  <2> QED
    BY <2>1 DEF CloneLands, Id
<1>1. \A p \in Proc, i \in Id : Has(p, i)' <=> Has(p, i)
  BY <1>0 DEF Has
<1>2. made + 1 \in Nat /\ made + 1 > made /\ \A i \in Nat : i > made + 1 => i > made
  BY DEF TypeOK
<1>3. Unowned(made + 1)
  BY <1>0, <1>2 DEF OwnInv, Unborn
<1>4. OneOwner'
  BY <1>0, <1>1 DEF OwnInv, OneOwner
<1>5. LandedApart'
  BY <1>0, <1>1, <1>3 DEF OwnInv, LandedApart, Unowned, TypeOK
<1>6. Unborn'
  <2> SUFFICES ASSUME NEW i \in Id, i \in Nat, i > made + 1 PROVE Unowned(i)'
    BY <1>0 DEF Unborn
  <2>1. Unowned(i) /\ i # made + 1
    BY <1>2 DEF OwnInv, Unborn
  <2> QED
    BY <1>0, <1>1, <2>1 DEF Unowned
<1> QED
  BY <1>4, <1>5, <1>6 DEF OwnInv

LEMMA OwnClones ==
    ASSUME TypeInv, OwnInv, Clones
    PROVE  OwnInv'
<1> USE DEF TypeInv, poolVars, runVars, createVars, remoteVars, fileVars, procVars
<1>0. Collector \in Proc
  BY DEF Proc
<1>1. CASE CloneLands
  BY <1>1, Lands
<1>2. CASE CloneFails
  <2>1. UNCHANGED <<free, landed, hand, fresh>> /\ made' \in Nat /\ made <= made'
    BY <1>2 DEF CloneFails, TypeOK
  <2> QED
    BY <2>1, LetGo DEF Has
<1>3. CASE CollectClone
  <2>1. PICK id \in landed :
          /\ landed' = landed \ {id}
          /\ IF closed THEN hand' = [hand EXCEPT ![Collector] = id] /\ UNCHANGED free
                       ELSE Put(id) /\ UNCHANGED hand
    BY <1>3 DEF CollectClone
  <2>2. UNCHANGED <<made, fresh>>
    BY <1>3 DEF CollectClone
  <2>3. id \in Id /\ free[id] = 0 /\ \A p \in Proc : ~Has(p, id)
    BY <2>1 DEF OwnInv, LandedApart, TypeOK
  <2>4. id \in Nat => id <= made
    BY <2>1, <2>3 DEF OwnInv, Unborn, Unowned, TypeOK
  <2>5. landed' \subseteq landed \ {id}
    BY <2>1
  <2>6. CASE closed
    <3>1. \A i \in Id : free'[i] = IF i = id THEN 0 ELSE free[i]
      BY <2>1, <2>3, <2>6
    <3>2. hand' = [hand EXCEPT ![Collector] = id]
      BY <2>1, <2>6
    <3>3. \A p \in Proc, i \in Id : Has(p, i)' => Has(p, i) \/ (p = Collector /\ i = id)
      BY <1>0, <2>2, <2>3, <3>2, HandSet
    <3> QED
      BY <1>0, <2>2, <2>3, <2>4, <2>5, <3>1, <3>3, TakeInHand
  <2>7. CASE ~closed
    <3>1. \A p \in Proc, i \in Id : Has(p, i)' => Has(p, i) /\ i # id
      BY <2>1, <2>2, <2>3, <2>7 DEF Has
    <3> QED
      BY <2>1, <2>2, <2>3, <2>4, <2>5, <2>7, <3>1, PutFree
  <2> QED
    BY <2>6, <2>7
<1>4. CASE CollectFailure
  <2>1. UNCHANGED <<free, made, hand, fresh>> /\ landed' \subseteq landed
    BY <1>4 DEF CollectFailure
  <2> QED
    BY <2>1, LetGo DEF Has, TypeOK
<1>5. CASE EndCollect
  <2>1. UNCHANGED <<free, landed, made, hand, fresh>>
    BY <1>5 DEF EndCollect
  <2> QED
    BY <2>1, LetGo DEF Has, TypeOK
<1> QED
  BY <1>1, <1>2, <1>3, <1>4, <1>5 DEF Clones

LEMMA OwnOthers ==
    ASSUME TypeInv, OwnInv, EndSync \/ Owns \/ Vanish \/ Interrupt \/ UNCHANGED vars
    PROVE  OwnInv'
<1> USE DEF TypeInv, poolVars, runVars, createVars, remoteVars, fileVars, procVars
<1>1. UNCHANGED <<free, landed, made, hand, fresh>>
  <2>1. CASE EndSync \/ Vanish \/ Interrupt \/ UNCHANGED vars
    BY <2>1 DEF EndSync, Vanish, Interrupt, vars
  <2>2. CASE Owns
    BY <2>2 DEF Owns, Destroy, DeleteMembers, Close, Kept
  <2> QED
    BY <2>1, <2>2
<1> QED
  BY <1>1, LetGo DEF Has, TypeOK

\* At the start each sync has its own sidecar, and a lone new one is free.
LEMMA OwnInit == Init => OwnInv
<1> SUFFICES ASSUME Init PROVE OwnInv
  OBVIOUS
<1>1. \A p \in Proc, i \in Id : Has(p, i) => p = i /\ i \in Existing
  BY NoIdApart DEF Init, Has
<1>2. \A i \in Id : free[i] = IF NewCount = 1 /\ i = Seed THEN 1 ELSE 0
  BY DEF Init
<1>3. Seed \in Nat /\ Existing \cap Nat = {}
  BY ProcessAssumption DEF Seed
<1>4. OneOwner
  BY <1>1, <1>2, <1>3 DEF OneOwner
<1>5. LandedApart
  BY DEF Init, LandedApart
<1>6. Unborn
  <2> SUFFICES ASSUME NEW i \in Id, i \in Nat, i > made PROVE Unowned(i)
    BY DEF Unborn
  <2>1. NewCount = 1 => i # Seed
    BY DEF Init, Seed
  <2>2. landed = {}
    BY DEF Init
  <2> QED
    BY <1>1, <1>2, <1>3, <2>1, <2>2 DEF Unowned
<1> QED
  BY <1>4, <1>5, <1>6 DEF OwnInv

LEMMA OwnNext == TypeInv /\ OwnInv /\ [Next]_vars => OwnInv'
  BY OwnTask, OwnSync, OwnErrand, OwnClones, OwnOthers DEF Next

\* A sidecar is never free and in somebody's hands, nor in the hands of two
\* goroutines, whatever the syncs, the clone collector, the tasks and the owner do
\* in which order (OneOwner of SidecarPool).
THEOREM OneOwnerAlways == Spec => []OneOwner
<1>1. Init => TypeInv /\ OwnInv
  <2>1. Init => FreshMade
    BY DEF Init, FreshMade
  <2> QED
    BY <2>1, InitTypes, OwnInit DEF TypeInv
<1>2. TypeInv /\ OwnInv /\ [Next]_vars => TypeInv' /\ OwnInv'
  BY TypesNext, FreshNext, OwnNext DEF TypeInv
<1>3. OwnInv => OneOwner
  BY DEF OwnInv
<1> QED
  BY <1>1, <1>2, <1>3, PTL DEF Spec

-----------------------------------------------------------------------------
(* checkedOut.  It is decremented only when it is positive, so the proof also    *)
(* shows that no decrement is ever skipped.                                      *)

Holding == {t \in Task : Holds(t)}
HeldPlace == {"held", "swap", "retire"}

LEMMA HoldingFinite == IsFiniteSet(Holding) /\ Cardinality(Holding) \in Nat
  BY ProcessAssumption, FS_Subset, FS_CardinalityType DEF Holding

\* t moves on from a place to another.
LEMMA HoldingMoves ==
    ASSUME TypeOK, NEW t \in Task, NEW place, pc' = [pc EXCEPT ![t] = place]
    PROVE  Holding' = IF place \in HeldPlace THEN Holding \cup {t} ELSE Holding \ {t}
<1>1. t \in Proc /\ Task \subseteq Proc
  BY DEF Proc
<1>2. \A u \in Task : pc'[u] = IF u = t THEN place ELSE pc[u]
  BY <1>1 DEF TypeOK
<1> QED
  BY <1>2 DEF Holding, Holds, HeldPlace

\* A step of a goroutine that is no task.
LEMMA HoldingKept ==
    ASSUME TypeOK, Counted, NEW p \in Proc \ Task, NEW place,
           pc' = [pc EXCEPT ![p] = place], UNCHANGED checkedOut
    PROVE  Counted'
<1>1. \A u \in Task : pc'[u] = pc[u]
  BY DEF TypeOK, Proc
<1>2. Holding' = Holding
  BY <1>1 DEF Holding, Holds
<1> QED
  BY <1>2 DEF Counted, Holding

LEMMA HoldingSame == Counted /\ UNCHANGED <<pc, checkedOut>> => Counted'
<1> SUFFICES ASSUME Counted, UNCHANGED <<pc, checkedOut>> PROVE Counted'
  OBVIOUS
<1>1. Holding' = Holding
  BY DEF Holding, Holds
<1> QED
  BY <1>1 DEF Counted, Holding

LEMMA Enters ==
    ASSUME TypeOK, Counted, NEW t \in Task, ~Holds(t), checkedOut' = checkedOut + 1,
           NEW place \in HeldPlace, pc' = [pc EXCEPT ![t] = place]
    PROVE  Counted'
<1>1. Holding' = Holding \cup {t} /\ t \notin Holding
  BY HoldingMoves DEF Holding
<1>2. Cardinality(Holding \cup {t}) = Cardinality(Holding) + 1
  BY <1>1, HoldingFinite, FS_AddElement
<1> QED
  BY <1>1, <1>2 DEF Counted, Holding

LEMMA Leaves ==
    ASSUME TypeOK, Counted, NEW t \in Task, Holds(t), checkedOut' = CheckIn,
           pc' = [pc EXCEPT ![t] = "over"]
    PROVE  Counted'
<1>1. Holding' = Holding \ {t} /\ t \in Holding
  BY HoldingMoves DEF Holding, HeldPlace
<1>2. Cardinality(Holding \ {t}) = Cardinality(Holding) - 1
  BY <1>1, HoldingFinite, FS_RemoveElement
<1>3. Cardinality(Holding \ {t}) \in Nat
  BY HoldingFinite, FS_Subset, FS_CardinalityType
<1>4. checkedOut = Cardinality(Holding) /\ Cardinality(Holding) \in Nat
  BY HoldingFinite DEF Counted, Holding
<1>5. checkedOut > 0
  BY <1>2, <1>3, <1>4
<1>6. checkedOut' = Cardinality(Holding')
  BY <1>1, <1>2, <1>4, <1>5 DEF CheckIn
<1> QED
  BY <1>6 DEF Counted, Holding

LEMMA Stays ==
    ASSUME TypeOK, Counted, NEW t \in Task, NEW place, Holds(t) <=> place \in HeldPlace,
           UNCHANGED checkedOut, pc' = [pc EXCEPT ![t] = place]
    PROVE  Counted'
<1>1. Holding' = Holding
  BY HoldingMoves DEF Holding
<1> QED
  BY <1>1 DEF Counted, Holding

LEMMA CountNext == TypeOK /\ Counted /\ [Next]_vars => Counted'
<1> SUFFICES ASSUME TypeOK, Counted, [Next]_vars PROVE Counted'
  OBVIOUS
<1> USE DEF Goes, poolVars, runVars
<1>0. Existing \cup {Collector, Closer, Owner} \subseteq Proc \ Task
  BY ProcessAssumption DEF Proc
<1>1. ASSUME NEW t \in Task, Acts(t) PROVE Counted'
  <2>1. CASE Ask(t) \/ Refused(t) \/ FindsNone(t) \/ Wake(t) \/ GiveUp(t)
    <3>1. ~Holds(t) /\ UNCHANGED checkedOut
      BY <2>1 DEF Ask, Refused, FindsNone, Wake, GiveUp, Holds
    <3>2. PICK place \in {"look", "wait", "refused"} : pc' = [pc EXCEPT ![t] = place]
      BY <2>1 DEF Ask, Refused, FindsNone, Wake, GiveUp
    <3> QED
      BY <3>1, <3>2, Stays DEF HeldPlace
  <2>2. CASE Acquire(t)
    <3>1. ~Holds(t) /\ checkedOut' = checkedOut + 1 /\ pc' = [pc EXCEPT ![t] = "held"]
      BY <2>2 DEF Acquire, Holds
    <3> QED
      BY <3>1, Enters DEF HeldPlace
  <2>3. CASE Release(t) \/ Swap(t) \/ Retire(t)
    <3>1. Holds(t) /\ checkedOut' = CheckIn /\ pc' = [pc EXCEPT ![t] = "over"]
      BY <2>3 DEF Release, Swap, Retire, Holds
    <3> QED
      BY <3>1, Leaves
  <2>4. CASE Rebuild(t) \/ CannotRebuild(t)
    <3>1. Holds(t) /\ UNCHANGED checkedOut
      BY <2>4 DEF Rebuild, CannotRebuild, Holds
    <3>2. PICK place \in {"swap", "retire"} : pc' = [pc EXCEPT ![t] = place]
      BY <2>4 DEF Rebuild, CannotRebuild
    <3> QED
      BY <3>1, <3>2, Stays DEF HeldPlace
  <2> QED
    BY <1>1, <2>1, <2>2, <2>3, <2>4 DEF Acts
<1>2. ASSUME NEW s \in Existing, Syncs(s) PROVE Counted'
  BY <1>0, <1>2, HoldingKept DEF Syncs, SyncStale, Install, Synced, SyncFails
<1>3. ASSUME NEW p \in Proc, Errands(p) PROVE Counted'
  BY <1>3, HoldingSame DEF Errands, Tell, Save, Write, Drop
<1>4. CASE EndSync
  BY <1>0, <1>4, HoldingKept DEF EndSync
<1>5. CASE CloneLands \/ CloneFails \/ Vanish \/ Interrupt
  BY <1>5, HoldingSame DEF CloneLands, CloneFails, Vanish, Interrupt, procVars
<1>6. CASE CollectClone
  BY <1>0, <1>6, HoldingKept DEF CollectClone
<1>7. CASE CollectFailure \/ EndCollect
  BY <1>0, <1>7, HoldingKept DEF CollectFailure, EndCollect
<1>8. CASE Destroy \/ Close \/ Kept
  BY <1>0, <1>8, HoldingKept DEF Destroy, Close, Kept
<1>9. CASE DeleteMembers
  BY <1>0, <1>9, HoldingKept DEF DeleteMembers
<1>10. CASE UNCHANGED vars
  BY <1>10, HoldingSame DEF vars, procVars
<1> QED
  BY <1>1, <1>2, <1>3, <1>4, <1>5, <1>6, <1>7, <1>8, <1>9, <1>10 DEF Next, Clones, Owns

\* Acquire's count of the entries checked out is the number of tasks that have one,
\* so its sync error is never reported while a task has an entry to give back
\* (Counted of SidecarPool).
THEOREM CountedAlways == Spec => []Counted
<1>1. Init => TypeInv /\ Counted
  <2>1. Init => FreshMade
    BY DEF Init, FreshMade
  <2>2. Init => Counted
    <3> SUFFICES ASSUME Init PROVE Counted
      OBVIOUS
    <3>1. {t \in Task : Holds(t)} = {}
      BY DEF Init, Holds, Proc
    <3> QED
      BY <3>1, FS_EmptySet DEF Init, Counted
  <2> QED
    BY <2>1, <2>2, InitTypes DEF TypeInv
<1>2. TypeInv /\ Counted /\ [Next]_vars => TypeInv' /\ Counted'
  BY TypesNext, FreshNext, CountNext DEF TypeInv
<1> QED
  BY <1>1, <1>2, PTL DEF Spec

-----------------------------------------------------------------------------
(* What is still to come: the two counts Acquire reads before it gives up.     *)

\* The syncs that have not reported, and the creations not collected.
Syncing == {s \in Existing : pc[s] \in {"sync", "rebuilt", "finish"}}
SyncsOwed == pendingSyncs = Cardinality(Syncing)
ClonesOwed == pendingCreates = creating + Cardinality(landed) + bad

LEMMA IdFinite == IsFiniteSet(Id)
<1>1. IsFiniteSet(1..MaxMade)
  BY BoundsAssumption, FS_Interval
<1> QED
  BY <1>1, SizeAssumption, FS_Union DEF Id

LEMMA LandedFinite == TypeOK => IsFiniteSet(landed) /\ Cardinality(landed) \in Nat
  BY IdFinite, FS_Subset, FS_CardinalityType DEF TypeOK

LEMMA SyncingFinite == IsFiniteSet(Syncing) /\ Cardinality(Syncing) \in Nat
  BY SizeAssumption, FS_Subset, FS_CardinalityType DEF Syncing

\* Steps of a goroutine that is no sync, and of a sync that goes on.
LEMMA SyncsOwedKept ==
    ASSUME SyncsOwed, UNCHANGED pendingSyncs,
           \A s \in Existing : s \in Syncing' <=> s \in Syncing
    PROVE  SyncsOwed'
<1>1. Syncing' = Syncing
  BY DEF Syncing
<1> QED
  BY <1>1 DEF SyncsOwed

\* A sync reports: its count was positive.
LEMMA SyncReports ==
    ASSUME SyncsOwed, NEW s \in Syncing, pendingSyncs' = OneLess(pendingSyncs),
           Syncing' = Syncing \ {s}
    PROVE  SyncsOwed'
<1>1. Cardinality(Syncing \ {s}) = Cardinality(Syncing) - 1
  BY SyncingFinite, FS_RemoveElement
<1>2. Cardinality(Syncing \ {s}) \in Nat
  BY SyncingFinite, FS_Subset, FS_CardinalityType
<1>3. pendingSyncs > 0 /\ pendingSyncs = Cardinality(Syncing)
  BY <1>1, <1>2, SyncingFinite DEF SyncsOwed
<1>4. pendingSyncs' = Cardinality(Syncing \ {s})
  BY <1>1, <1>3 DEF OneLess
<1> QED
  BY <1>4 DEF SyncsOwed

LEMMA SyncsOwedNext == TypeOK /\ SyncsOwed /\ [Next]_vars => SyncsOwed'
<1> SUFFICES ASSUME TypeOK, SyncsOwed, [Next]_vars PROVE SyncsOwed'
  OBVIOUS
<1> USE DEF Goes, poolVars, runVars
<1>0. Existing \subseteq Proc /\ Task \cap Existing = {}
      /\ Existing \cap {Collector, Closer, Owner} = {}
  BY ProcessAssumption DEF Proc
<1>a. ASSUME NEW p \in Proc \ Existing, NEW place, pc' = [pc EXCEPT ![p] = place],
             UNCHANGED pendingSyncs
      PROVE  SyncsOwed'
  <2>1. \A s \in Existing : pc'[s] = pc[s]
    BY <1>0, <1>a DEF TypeOK
  <2> QED
    BY <1>a, <2>1, SyncsOwedKept DEF Syncing
<1>b. ASSUME UNCHANGED <<pc, pendingSyncs>> PROVE SyncsOwed'
  BY <1>b, SyncsOwedKept DEF Syncing
<1>1. ASSUME NEW t \in Task, Acts(t) PROVE SyncsOwed'
  <2>1. t \in Proc \ Existing
    BY <1>0 DEF Proc
  <2>2. UNCHANGED pendingSyncs /\ \E place : pc' = [pc EXCEPT ![t] = place]
    <3>1. CASE Ask(t) \/ Refused(t) \/ Acquire(t) \/ FindsNone(t) \/ Wake(t) \/ GiveUp(t)
      BY <3>1 DEF Ask, Refused, Acquire, FindsNone, Wake, GiveUp
    <3>2. CASE Release(t)
      BY <3>2 DEF Release
    <3>3. CASE Rebuild(t) \/ CannotRebuild(t) \/ Swap(t) \/ Retire(t)
      BY <3>3 DEF Rebuild, CannotRebuild, Swap, Retire
    <3> QED
      BY <1>1, <3>1, <3>2, <3>3 DEF Acts
  <2> QED
    BY <1>a, <2>1, <2>2
<1>2. ASSUME NEW s \in Existing, Syncs(s) PROVE SyncsOwed'
  <2>1. \A place : pc' = [pc EXCEPT ![s] = place] =>
           \A u \in Existing : pc'[u] = IF u = s THEN place ELSE pc[u]
    BY <1>0 DEF TypeOK
  <2>2. CASE SyncStale(s) \/ Install(s)
    <3>1. UNCHANGED pendingSyncs /\ s \in Syncing
      BY <2>2 DEF SyncStale, Install, Syncing
    <3>2. PICK place \in {"rebuilt", "finish"} : pc' = [pc EXCEPT ![s] = place]
      BY <2>2 DEF SyncStale, Install
    <3> QED
      BY <2>1, <3>1, <3>2, SyncsOwedKept DEF Syncing
  <2>3. CASE Synced(s) \/ SyncFails(s)
    <3>1. /\ pendingSyncs' = OneLess(pendingSyncs) /\ s \in Syncing
          /\ pc' = [pc EXCEPT ![s] = "done"]
      BY <2>3 DEF Synced, SyncFails, Syncing
    <3>2. \A u \in Existing : pc'[u] = IF u = s THEN "done" ELSE pc[u]
      BY <2>1, <3>1
    <3>3. Syncing' = Syncing \ {s}
      BY <3>1, <3>2 DEF Syncing
    <3> QED
      BY <3>1, <3>3, SyncReports
  <2> QED
    BY <1>2, <2>2, <2>3 DEF Syncs
<1>3. ASSUME NEW p \in Proc, Errands(p) PROVE SyncsOwed'
  BY <1>3, <1>b DEF Errands, Tell, Save, Write, Drop
<1>4. CASE EndSync \/ Clones
  <2>1. {Closer, Collector} \subseteq Proc \ Existing
    BY <1>0 DEF Proc
  <2>2. CASE EndSync
    BY <1>a, <2>1, <2>2 DEF EndSync
  <2>3. CASE CloneLands \/ CloneFails
    BY <1>b, <2>3 DEF CloneLands, CloneFails, procVars
  <2>4. CASE CollectClone
    BY <1>a, <2>1, <2>4 DEF CollectClone
  <2>5. CASE CollectFailure \/ EndCollect
    BY <1>a, <2>1, <2>5 DEF CollectFailure, EndCollect
  <2> QED
    BY <1>4, <2>2, <2>3, <2>4, <2>5 DEF Clones
<1>5. CASE Owns
  <2>1. Owner \in Proc \ Existing
    BY <1>0 DEF Proc
  <2>2. UNCHANGED pendingSyncs /\ \E place : pc' = [pc EXCEPT ![Owner] = place]
    BY <1>5 DEF Owns, Destroy, DeleteMembers, Close, Kept
  <2> QED
    BY <1>a, <2>1, <2>2
<1>6. CASE Vanish \/ Interrupt \/ UNCHANGED vars
  BY <1>6, <1>b DEF Vanish, Interrupt, vars, procVars
<1> QED
  BY <1>1, <1>2, <1>3, <1>4, <1>5, <1>6 DEF Next

\* A creation is collected: its count was positive.
LEMMA CloneReports ==
    ASSUME TypeOK, ClonesOwed, pendingCreates' = OneLess(pendingCreates), UNCHANGED creating,
           \/ UNCHANGED landed /\ bad > 0 /\ bad' = bad - 1
           \/ UNCHANGED bad /\ \E id \in landed : landed' = landed \ {id}
    PROVE  ClonesOwed' /\ pendingCreates > 0 /\ pendingCreates' = pendingCreates - 1
<1> DEFINE n == Cardinality(landed)
<1>1. n \in Nat /\ creating \in Nat /\ bad \in Nat
  BY LandedFinite DEF TypeOK
<1>2. CASE UNCHANGED landed /\ bad > 0 /\ bad' = bad - 1
  <2>1. pendingCreates = creating + n + bad
    BY DEF ClonesOwed
  <2> HIDE DEF n
  <2>2. /\ pendingCreates > 0 /\ pendingCreates' = pendingCreates - 1
        /\ pendingCreates' = creating' + n + bad'
    BY <1>1, <1>2, <2>1 DEF OneLess
  <2> QED
    BY <1>2, <2>2 DEF ClonesOwed, n
<1>3. ASSUME UNCHANGED bad, NEW id \in landed, landed' = landed \ {id}
      PROVE  ClonesOwed' /\ pendingCreates > 0 /\ pendingCreates' = pendingCreates - 1
  <2> DEFINE m == Cardinality(landed \ {id})
  <2>1. m = n - 1 /\ m \in Nat
    BY <1>3, LandedFinite, FS_RemoveElement, FS_Subset, FS_CardinalityType
  <2>2. pendingCreates = creating + n + bad
    BY DEF ClonesOwed
  <2> HIDE DEF n, m
  <2>3. /\ pendingCreates > 0 /\ pendingCreates' = pendingCreates - 1
        /\ pendingCreates' = creating' + m + bad'
    BY <1>1, <1>3, <2>1, <2>2 DEF OneLess
  <2> QED
    BY <1>3, <2>3 DEF ClonesOwed, m
<1> QED
  BY <1>2, <1>3

LEMMA ClonesOwedNext == TypeOK /\ OwnInv /\ ClonesOwed /\ [Next]_vars => ClonesOwed'
<1> SUFFICES ASSUME TypeOK, OwnInv, ClonesOwed, [Next]_vars PROVE ClonesOwed'
  OBVIOUS
<1> USE DEF poolVars, createVars
<1>a. ASSUME UNCHANGED <<pendingCreates, createVars>> PROVE ClonesOwed'
  BY <1>a DEF ClonesOwed
<1>1. ASSUME NEW t \in Task, Acts(t) PROVE ClonesOwed'
  <2>1. CASE Ask(t) \/ Refused(t) \/ Acquire(t) \/ FindsNone(t) \/ Wake(t) \/ GiveUp(t)
    BY <1>a, <2>1 DEF Ask, Refused, Acquire, FindsNone, Wake, GiveUp
  <2>2. CASE Release(t) \/ Rebuild(t) \/ CannotRebuild(t) \/ Swap(t) \/ Retire(t)
    BY <1>a, <2>2 DEF Release, Rebuild, CannotRebuild, Swap, Retire
  <2> QED
    BY <1>1, <2>1, <2>2 DEF Acts
<1>2. ASSUME NEW s \in Existing, Syncs(s) PROVE ClonesOwed'
  BY <1>2, <1>a DEF Syncs, SyncStale, Install, Synced, SyncFails
<1>3. ASSUME NEW p \in Proc, Errands(p) PROVE ClonesOwed'
  BY <1>3, <1>a DEF Errands, Tell, Save, Write, Drop
<1>4. CASE CloneLands
  <2>1. made + 1 \in Id /\ made + 1 \in Nat /\ made + 1 > made
    BY <1>4, NextId, BoundsAssumption DEF CloneLands, TypeOK
  <2>2. made + 1 \notin landed
    BY <2>1 DEF OwnInv, Unborn, Unowned
  <2> DEFINE n == Cardinality(landed)
  <2>3. Cardinality(landed') = n + 1
    BY <1>4, <2>2, LandedFinite, FS_AddElement DEF CloneLands
  <2>4. n \in Nat /\ creating \in Nat /\ bad \in Nat /\ creating' = creating - 1
        /\ UNCHANGED <<bad, pendingCreates>>
    BY <1>4, LandedFinite DEF CloneLands, TypeOK
  <2>5. pendingCreates = creating + n + bad
    BY DEF ClonesOwed
  <2> HIDE DEF n
  <2>6. pendingCreates' = creating' + (n + 1) + bad'
    BY <2>4, <2>5
  <2> QED
    BY <2>3, <2>6 DEF ClonesOwed
<1>5. CASE CloneFails
  <2> DEFINE n == Cardinality(landed)
  <2>1. n \in Nat /\ creating \in Nat /\ bad \in Nat /\ creating' = creating - 1
        /\ bad' = bad + 1 /\ UNCHANGED <<landed, pendingCreates>>
    BY <1>5, LandedFinite DEF CloneFails, TypeOK
  <2>2. pendingCreates = creating + n + bad
    BY DEF ClonesOwed
  <2> HIDE DEF n
  <2>3. pendingCreates' = creating' + n + bad'
    BY <2>1, <2>2
  <2> QED
    BY <2>1, <2>3 DEF ClonesOwed, n
<1>6. CASE CollectClone
  BY <1>6, CloneReports DEF CollectClone
<1>7. CASE CollectFailure
  BY <1>7, CloneReports DEF CollectFailure
<1>8. CASE EndCollect \/ EndSync \/ Vanish \/ Interrupt \/ UNCHANGED vars
  BY <1>8, <1>a DEF EndCollect, EndSync, Vanish, Interrupt, vars
<1>9. CASE Owns
  BY <1>9, <1>a DEF Owns, Destroy, DeleteMembers, Close, Kept
<1> QED
  BY <1>1, <1>2, <1>3, <1>4, <1>5, <1>6, <1>7, <1>8, <1>9 DEF Next, Clones

LEMMA ThreeApart == Collector # Closer /\ Collector # Owner /\ Closer # Owner
<1>1. \A a, b : Cardinality({a, b}) <= 2
  <2> TAKE a, b
  <2>1. IsFiniteSet({b}) /\ Cardinality({b}) = 1
    BY FS_Singleton
  <2>2. {a, b} = {b} \cup {a}
    OBVIOUS
  <2> QED
    BY <2>1, <2>2, FS_AddElement
<1>2. /\ Collector = Closer => {Collector, Closer, Owner} = {Closer, Owner}
      /\ Collector = Owner => {Collector, Closer, Owner} = {Closer, Owner}
      /\ Closer = Owner => {Collector, Closer, Owner} = {Collector, Owner}
  OBVIOUS
<1>3. Cardinality({Collector, Closer, Owner}) = 3
  BY ProcessAssumption
<1>4. Cardinality({Closer, Owner}) <= 2 /\ Cardinality({Collector, Owner}) <= 2
  BY <1>1
<1> QED
  BY <1>2, <1>3, <1>4

-----------------------------------------------------------------------------
(* Errands come last: whoever has some has reached its last place, the clone    *)
(* collector excepted, which waits for them between two clones.                 *)

Working(p) == \/ p \in Task /\ pc[p] # "over"
              \/ p \in Existing /\ pc[p] # "done"
              \/ p = Closer /\ pc[p] # "done"
              \/ p = Owner /\ pc[p] # "destroyed"

Idle == \A p \in Proc : Working(p) => Ready(p)

LEMMA IdleMoves ==
    ASSUME TypeOK, Idle, NEW p \in Proc, NEW place, NEW todo, Goes(p, place, todo),
           \/ todo = <<>>
           \/ p \in Task /\ place = "over"
           \/ p \in Existing /\ place = "done"
           \/ p = Closer /\ place = "done"
           \/ p = Owner /\ place = "destroyed"
           \/ p = Collector
    PROVE  Idle'
<1>1. \A q \in Proc : q # p => pc'[q] = pc[q] /\ errands'[q] = errands[q]
  BY DEF Goes, TypeOK
<1>2. pc'[p] = place /\ errands'[p] = todo
  BY DEF Goes, TypeOK
<1>3. todo # <<>> => ~Working(p)'
  BY <1>2, ProcessAssumption, ThreeApart DEF Working
<1> QED
  BY <1>1, <1>2, <1>3 DEF Idle, Working, Ready

LEMMA IdleNext == TypeOK /\ Idle /\ [Next]_vars => Idle'
<1> SUFFICES ASSUME TypeOK, Idle, [Next]_vars PROVE Idle'
  OBVIOUS
<1>0. Task \subseteq Proc /\ Existing \subseteq Proc /\ {Collector, Closer, Owner} \subseteq Proc
  BY DEF Proc
<1>1. ASSUME NEW t \in Task, Acts(t) PROVE Idle'
  <2>1. CASE Ask(t) \/ Refused(t) \/ FindsNone(t) \/ Wake(t) \/ GiveUp(t)
    BY <1>0, <2>1, IdleMoves DEF Ask, Refused, FindsNone, Wake, GiveUp
  <2>2. CASE Acquire(t) \/ Rebuild(t) \/ CannotRebuild(t)
    BY <1>0, <2>2, IdleMoves DEF Acquire, Rebuild, CannotRebuild
  <2>3. CASE Release(t)
    BY <1>0, <2>3, IdleMoves DEF Release
  <2>4. CASE Swap(t) \/ Retire(t)
    BY <1>0, <2>4, IdleMoves DEF Swap, Retire
  <2> QED
    BY <1>1, <2>1, <2>2, <2>3, <2>4 DEF Acts
<1>2. ASSUME NEW s \in Existing, Syncs(s) PROVE Idle'
  <2>1. CASE SyncStale(s) \/ Install(s) \/ SyncFails(s)
    BY <1>0, <2>1, IdleMoves DEF SyncStale, Install, SyncFails
  <2>2. CASE Synced(s)
    BY <1>0, <2>2, IdleMoves DEF Synced
  <2> QED
    BY <1>2, <2>1, <2>2 DEF Syncs
<1>3. ASSUME NEW p \in Proc, Errands(p) PROVE Idle'
  <2>1. ~Working(p) /\ UNCHANGED pc
    BY <1>3 DEF Idle, Errands, Tell, Save, Write, Drop
  <2>2. PICK left : errands' = [errands EXCEPT ![p] = left]
    BY <1>3 DEF Errands, Tell, Save, Write, Drop
  <2>3. \A q \in Proc : q # p => errands'[q] = errands[q]
    BY <2>2 DEF TypeOK
  <2> QED
    BY <2>1, <2>3 DEF Idle, Working, Ready
<1>4. CASE EndSync \/ CollectFailure \/ EndCollect
  BY <1>0, <1>4, IdleMoves DEF EndSync, CollectFailure, EndCollect
<1>5. CASE CollectClone
  BY <1>0, <1>5, IdleMoves DEF CollectClone
<1>6. CASE CloneLands \/ CloneFails \/ Vanish \/ Interrupt \/ UNCHANGED vars
  BY <1>6 DEF CloneLands, CloneFails, Vanish, Interrupt, vars, procVars, Idle, Working, Ready
<1>7. CASE Destroy \/ Close \/ Kept
  BY <1>0, <1>7, IdleMoves DEF Destroy, Close, Kept
<1>8. CASE DeleteMembers
  BY <1>0, <1>8, IdleMoves DEF DeleteMembers
<1> QED
  BY <1>1, <1>2, <1>3, <1>4, <1>5, <1>6, <1>7, <1>8 DEF Next, Clones, Owns

\* What every pool keeps.
PoolInv == TypeInv /\ OwnInv /\ Counted /\ SyncsOwed /\ ClonesOwed /\ Idle

LEMMA PoolInit == Init => PoolInv
<1> SUFFICES ASSUME Init PROVE PoolInv
  OBVIOUS
<1>1. FreshMade
  BY DEF Init, FreshMade
<1>2. {t \in Task : Holds(t)} = {}
  BY DEF Init, Holds, Proc
<1>3. Counted
  BY <1>2, FS_EmptySet DEF Init, Counted
<1>4. Syncing = Existing
  BY ProcessAssumption DEF Init, Syncing, Proc
<1>5. landed = {} /\ bad = 0 /\ creating = pendingCreates /\ pendingCreates \in Nat
  BY Counts DEF Init
<1>6. ClonesOwed
  BY <1>5, FS_EmptySet DEF ClonesOwed
<1>7. SyncsOwed
  BY <1>4 DEF Init, SyncsOwed
<1>8. Idle
  BY DEF Init, Idle, Ready
<1> QED
  BY <1>1, <1>3, <1>6, <1>7, <1>8, InitTypes, OwnInit DEF PoolInv, TypeInv

LEMMA PoolNext == PoolInv /\ [Next]_vars => PoolInv'
  BY TypesNext, FreshNext, OwnNext, CountNext, SyncsOwedNext, ClonesOwedNext, IdleNext
  DEF PoolInv, TypeInv

-----------------------------------------------------------------------------
(* The members, and the room for them.                                         *)

\* A task or a sync has an entry that is, or is about to be, a member.
InUse(p) == \/ p \in Task /\ Holds(p)
            \/ p \in Existing /\ pc[p] \in {"sync", "rebuilt", "finish"}

RoomLeft == Cardinality(entries) + pendingCreates <= Size
FreeInPlace == \A i \in Id : free[i] > 0 => i \in entries
UsedInPlace == \A p \in Proc : InUse(p) => hand[p] \in entries

LEMMA InPlaceParts == MembersInPlace <=> RoomLeft /\ FreeInPlace /\ UsedInPlace
<1>1. Task \subseteq Proc /\ Existing \subseteq Proc
  BY DEF Proc
<1> QED
  BY <1>1 DEF MembersInPlace, RoomLeft, FreeInPlace, UsedInPlace, InUse

LEMMA EntriesFinite == TypeOK => IsFiniteSet(entries) /\ Cardinality(entries) \in Nat
  BY IdFinite, FS_Subset, FS_CardinalityType DEF TypeOK

\* Steps that leave the members alone.
LEMMA PlacesKept ==
    ASSUME TypeOK, MembersInPlace, UNCHANGED entries,
           pendingCreates' \in Nat, pendingCreates' <= pendingCreates,
           \A i \in Id : free'[i] > 0 => i \in entries,
           \A p \in Proc : InUse(p)' => hand'[p] \in entries
    PROVE  MembersInPlace'
<1>1. Cardinality(entries) \in Nat /\ pendingCreates \in Nat /\ Size \in Nat
  BY EntriesFinite, SizeAssumption DEF TypeOK
<1>2. Cardinality(entries') = Cardinality(entries)
  OBVIOUS
<1>3. RoomLeft'
  BY <1>1, <1>2, InPlaceParts DEF RoomLeft
<1>4. FreeInPlace' /\ UsedInPlace'
  BY DEF FreeInPlace, UsedInPlace
<1> QED
  BY <1>3, <1>4, InPlaceParts, PTL

\* p's replacement takes the place of its entry, which nobody else has.
LEMMA PlaceTaken ==
    ASSUME TypeOK, OneOwner, MembersInPlace, NEW p \in Proc, InUse(p),
           fresh[p] \in Id, entries' = InPlaceOf(entries, hand[p], fresh[p]),
           UNCHANGED pendingCreates,
           \A q \in Proc : InUse(q)' =>
               \/ q # p /\ InUse(q) /\ hand'[q] = hand[q]
               \/ hand'[q] = fresh[p],
           \A i \in Id : free'[i] > 0 => free[i] > 0 \/ i = fresh[p]
    PROVE  MembersInPlace'
<1> DEFINE h == hand[p]
           rest == entries \ {h}
<1>1. h \in entries /\ h \in Id
  BY InPlaceParts DEF UsedInPlace, TypeOK
<1>2. RoomLeft'
  <2>1. IsFiniteSet(rest) /\ Cardinality(rest) = Cardinality(entries) - 1
    BY <1>1, EntriesFinite, FS_RemoveElement
  <2>2. Cardinality(rest) \in Nat
    BY <2>1, FS_CardinalityType
  <2>3. \/ Cardinality(rest \cup {fresh[p]}) = Cardinality(rest)
        \/ Cardinality(rest \cup {fresh[p]}) = Cardinality(rest) + 1
    BY <2>1, FS_AddElement
  <2>4. entries' = rest \cup {fresh[p]}
    BY DEF InPlaceOf
  <2>5. Cardinality(entries) \in Nat /\ pendingCreates \in Nat /\ Size \in Nat
    BY EntriesFinite, SizeAssumption DEF TypeOK
  <2>6. Cardinality(entries) + pendingCreates <= Size
    BY InPlaceParts DEF RoomLeft
  <2> HIDE DEF rest
  <2>7. Cardinality(rest \cup {fresh[p]}) <= Cardinality(entries)
        /\ Cardinality(rest \cup {fresh[p]}) \in Nat
    BY <2>1, <2>2, <2>3, <2>5
  <2> QED
    BY <2>4, <2>5, <2>6, <2>7 DEF RoomLeft
<1>3. \A q \in Proc : q # p /\ InUse(q) => hand[q] # h
  BY <1>1 DEF OneOwner, Has
<1>4. free[h] = 0
  BY <1>1 DEF OneOwner, Has
<1>5. FreeInPlace'
  BY <1>4, InPlaceParts DEF FreeInPlace, InPlaceOf
<1>6. UsedInPlace'
  BY <1>3, InPlaceParts DEF UsedInPlace, InPlaceOf
<1> QED
  BY <1>2, <1>5, <1>6, InPlaceParts, PTL

\* A step of p that leaves members, clones and other goroutines alone, after which
\* p has no entry, or the one it had; what p makes free is the entry it had.
LEMMA PlaceLeft ==
    ASSUME PoolInv, MembersInPlace, NEW p \in Proc,
           UNCHANGED <<entries, pendingCreates>>,
           \A q \in Proc : q # p => (InUse(q)' => InUse(q)) /\ hand'[q] = hand[q],
           InUse(p)' => InUse(p) /\ hand'[p] = hand[p],
           \A i \in Id : free'[i] > 0 => free[i] > 0 \/ (InUse(p) /\ i = hand[p])
    PROVE  MembersInPlace'
<1>1. pendingCreates' \in Nat /\ pendingCreates' <= pendingCreates
  BY DEF PoolInv, TypeInv, TypeOK
<1>2. \A i \in Id : free'[i] > 0 => i \in entries
  BY InPlaceParts DEF FreeInPlace, UsedInPlace
<1>3. \A q \in Proc : InUse(q)' => hand'[q] \in entries
  BY InPlaceParts DEF UsedInPlace
<1> QED
  BY <1>1, <1>2, <1>3, PlacesKept DEF PoolInv, TypeInv

\* A step of p moves no other goroutine.
LEMMA OthersStay ==
    ASSUME TypeOK, NEW p \in Proc, NEW place, pc' = [pc EXCEPT ![p] = place],
           \/ UNCHANGED hand
           \/ \E id : hand' = [hand EXCEPT ![p] = id]
    PROVE  /\ \A q \in Proc : q # p => (InUse(q)' => InUse(q)) /\ hand'[q] = hand[q]
           /\ pc'[p] = place
<1>1. \A q \in Proc : q # p => pc'[q] = pc[q] /\ hand'[q] = hand[q]
  BY DEF TypeOK
<1>2. pc'[p] = place
  BY DEF TypeOK
<1> QED
  BY <1>1, <1>2 DEF InUse, Holds

LEMMA PutPlaces ==
    ASSUME TypeOK, NEW id, Put(id)
    PROVE  \A i \in Id : free'[i] > 0 => free[i] > 0 \/ i = id
  BY DEF TypeOK, Put

LEMMA PlacesTask ==
    ASSUME PoolInv, MembersInPlace, NEW t \in Task, Acts(t)
    PROVE  MembersInPlace'
<1> USE DEF Goes, poolVars, runVars, createVars
<1>0. t \in Proc /\ t \notin Existing /\ TypeOK /\ TypeInv /\ OneOwner
  BY ProcessAssumption DEF Proc, PoolInv, TypeInv, OwnInv
<1>1. CASE Ask(t) \/ Refused(t) \/ FindsNone(t) \/ Wake(t) \/ GiveUp(t)
  <2>1. UNCHANGED <<entries, pendingCreates, hand, free>>
    BY <1>1 DEF Ask, Refused, FindsNone, Wake, GiveUp
  <2>2. PICK place \in {"look", "wait", "refused"} : pc' = [pc EXCEPT ![t] = place]
    BY <1>1 DEF Ask, Refused, FindsNone, Wake, GiveUp
  <2>3. ~InUse(t)'
    BY <1>0, <2>1, <2>2, OthersStay DEF InUse, Holds
  <2> QED
    BY <1>0, <2>1, <2>2, <2>3, OthersStay, PlaceLeft
<1>2. CASE Acquire(t)
  <2>1. PICK id \in Id : free[id] > 0 /\ free' = Taken(id) /\ hand' = [hand EXCEPT ![t] = id]
    BY <1>2 DEF Acquire, Available
  <2>2. UNCHANGED <<entries, pendingCreates>> /\ pc' = [pc EXCEPT ![t] = "held"]
    BY <1>2 DEF Acquire
  <2>3. pendingCreates' \in Nat /\ pendingCreates' <= pendingCreates
    BY <1>0, <2>2 DEF TypeOK
  <2>4. \A i \in Id : free'[i] > 0 => i \in entries
    BY <1>0, <2>1, InPlaceParts DEF Taken, TypeOK, FreeInPlace
  <2>5. hand'[t] \in entries
    BY <1>0, <2>1, InPlaceParts DEF TypeOK, FreeInPlace
  <2>6. \A q \in Proc : q # t => (InUse(q)' => InUse(q)) /\ hand'[q] = hand[q]
    BY <1>0, <2>1, <2>2, OthersStay
  <2>7. \A q \in Proc : InUse(q)' => hand'[q] \in entries
    BY <2>5, <2>6, InPlaceParts DEF UsedInPlace
  <2> QED
    BY <1>0, <2>2, <2>3, <2>4, <2>7, PlacesKept
<1>3. CASE Release(t)
  <2>1. InUse(t) /\ UNCHANGED <<entries, pendingCreates>> /\ pc' = [pc EXCEPT ![t] = "over"]
    BY <1>3 DEF Release, InUse, Holds
  <2>2. \/ UNCHANGED hand /\ UNCHANGED free
        \/ hand' = [hand EXCEPT ![t] = NoId] /\ Put(hand[t])
    BY <1>3 DEF Release
  <2>3. \A q \in Proc : q # t => (InUse(q)' => InUse(q)) /\ hand'[q] = hand[q]
    BY <1>0, <2>1, <2>2, OthersStay
  <2>4. ~InUse(t)'
    BY <1>0, <2>1, <2>2, OthersStay DEF InUse, Holds
  <2>5. \A i \in Id : free'[i] > 0 => free[i] > 0 \/ i = hand[t]
    BY <1>0, <2>2, PutPlaces
  <2> QED
    BY <1>0, <2>1, <2>3, <2>4, <2>5, PlaceLeft
<1>4. CASE Rebuild(t) \/ CannotRebuild(t)
  <2>1. InUse(t) /\ UNCHANGED <<entries, pendingCreates, hand, free>>
    BY <1>4 DEF Rebuild, CannotRebuild, InUse, Holds
  <2>2. PICK place \in {"swap", "retire"} : pc' = [pc EXCEPT ![t] = place]
    BY <1>4 DEF Rebuild, CannotRebuild
  <2>3. \A q \in Proc : q # t => (InUse(q)' => InUse(q)) /\ hand'[q] = hand[q]
    BY <1>0, <2>1, <2>2, OthersStay
  <2> QED
    BY <1>0, <2>1, <2>3, PlaceLeft
<1>5. CASE Swap(t)
  <2>1. /\ InUse(t) /\ UNCHANGED pendingCreates /\ pc' = [pc EXCEPT ![t] = "over"]
        /\ entries' = InPlaceOf(entries, hand[t], fresh[t])
        /\ hand' = [hand EXCEPT ![t] = NoId] /\ Put(fresh[t])
    BY <1>5 DEF Swap, InUse, Holds
  <2>2. fresh[t] \in Id
    BY <1>0, <1>5 DEF Swap, TypeInv, FreshMade
  <2>3. \A q \in Proc : q # t => (InUse(q)' => InUse(q)) /\ hand'[q] = hand[q]
    BY <1>0, <2>1, OthersStay
  <2>4. ~InUse(t)'
    BY <1>0, <2>1, OthersStay DEF InUse, Holds
  <2>5. \A i \in Id : free'[i] > 0 => free[i] > 0 \/ i = fresh[t]
    BY <1>0, <2>1, PutPlaces
  <2> QED
    BY <1>0, <2>1, <2>2, <2>3, <2>4, <2>5, PlaceTaken
<1>6. CASE Retire(t)
  <2>1. /\ InUse(t) /\ UNCHANGED <<free, pendingCreates>>
        /\ pc' = [pc EXCEPT ![t] = "over"]
        /\ entries' = entries \ {hand[t]} /\ hand' = [hand EXCEPT ![t] = NoId]
    BY <1>6 DEF Retire, InUse, Holds
  <2>2. \A q \in Proc : q # t => (InUse(q)' => InUse(q)) /\ hand'[q] = hand[q]
    BY <1>0, <2>1, OthersStay
  <2>3. ~InUse(t)'
    BY <1>0, <2>1, OthersStay DEF InUse, Holds
  <2>4. hand[t] \in Id
    BY <1>0, <2>1, InPlaceParts DEF UsedInPlace, TypeOK
  <2>5. free[hand[t]] = 0 /\ \A q \in Proc : q # t => hand[q] # hand[t]
    BY <1>0, <2>4 DEF OneOwner, Has
  <2>6. FreeInPlace'
    BY <2>1, <2>5, InPlaceParts DEF FreeInPlace
  <2>7. UsedInPlace'
    BY <2>1, <2>2, <2>3, <2>5, InPlaceParts DEF UsedInPlace
  <2>8. RoomLeft'
    <3>1. Cardinality(entries') <= Cardinality(entries) /\ Cardinality(entries') \in Nat
      BY <1>0, <2>1, EntriesFinite, FS_Subset, FS_CardinalityType
    <3>2. Cardinality(entries) \in Nat /\ pendingCreates \in Nat /\ Size \in Nat
      BY <1>0, EntriesFinite, SizeAssumption DEF TypeOK
    <3> QED
      BY <2>1, <3>1, <3>2, InPlaceParts DEF RoomLeft
  <2> QED
    BY <2>6, <2>7, <2>8, InPlaceParts, PTL
<1> QED
  BY <1>1, <1>2, <1>3, <1>4, <1>5, <1>6 DEF Acts

LEMMA PlacesSync ==
    ASSUME PoolInv, MembersInPlace, NEW s \in Existing, Syncs(s)
    PROVE  MembersInPlace'
<1> USE DEF Goes, poolVars, runVars, createVars
<1>0. s \in Proc /\ s \notin Task /\ TypeOK /\ TypeInv /\ OneOwner
  BY ProcessAssumption DEF Proc, PoolInv, TypeInv, OwnInv
<1>1. CASE SyncStale(s)
  <2>1. /\ InUse(s) /\ UNCHANGED <<entries, pendingCreates, hand, free>>
        /\ pc' = [pc EXCEPT ![s] = "rebuilt"]
    BY <1>1 DEF SyncStale, InUse
  <2>2. \A q \in Proc : q # s => (InUse(q)' => InUse(q)) /\ hand'[q] = hand[q]
    BY <1>0, <2>1, OthersStay
  <2> QED
    BY <1>0, <2>1, <2>2, PlaceLeft
<1>2. CASE Install(s)
  <2>1. /\ InUse(s) /\ UNCHANGED <<free, pendingCreates>> /\ pc' = [pc EXCEPT ![s] = "finish"]
        /\ entries' = InPlaceOf(entries, hand[s], fresh[s])
        /\ hand' = [hand EXCEPT ![s] = fresh[s]]
    BY <1>2 DEF Install, InUse
  <2>2. fresh[s] \in Id
    BY <1>0, <1>2 DEF Install, TypeInv, FreshMade
  <2>3. \A q \in Proc : q # s => (InUse(q)' => InUse(q)) /\ hand'[q] = hand[q]
    BY <1>0, <2>1, OthersStay
  <2>4. hand'[s] = fresh[s]
    BY <1>0, <2>1 DEF TypeOK
  <2> QED
    BY <1>0, <2>1, <2>2, <2>3, <2>4, PlaceTaken
<1>3. CASE Synced(s) \/ SyncFails(s)
  <2>1. /\ InUse(s) /\ UNCHANGED <<entries, pendingCreates>>
        /\ pc' = [pc EXCEPT ![s] = "done"]
    BY <1>3 DEF Synced, SyncFails, InUse
  <2>2. \/ UNCHANGED hand /\ UNCHANGED free
        \/ hand' = [hand EXCEPT ![s] = NoId] /\ (Put(hand[s]) \/ UNCHANGED free)
    BY <1>3 DEF Synced, SyncFails
  <2>3. \A q \in Proc : q # s => (InUse(q)' => InUse(q)) /\ hand'[q] = hand[q]
    BY <1>0, <2>1, <2>2, OthersStay
  <2>4. ~InUse(s)'
    <3>1. pc'[s] = "done"
      BY <1>0, <2>1 DEF TypeOK
    <3> QED
      BY <1>0, <3>1 DEF InUse
  <2>5. \A i \in Id : free'[i] > 0 => free[i] > 0 \/ i = hand[s]
    BY <1>0, <2>2, PutPlaces
  <2> QED
    BY <1>0, <2>1, <2>3, <2>4, <2>5, PlaceLeft
<1> QED
  BY <1>1, <1>2, <1>3 DEF Syncs

\* Steps of the others: none of them has an entry.
LEMMA PlacesOthers ==
    ASSUME PoolInv, MembersInPlace, NEW p \in {Collector, Closer, Owner},
           UNCHANGED <<entries, free>>, pendingCreates' \in Nat,
           pendingCreates' <= pendingCreates,
           NEW place, pc' = [pc EXCEPT ![p] = place],
           \/ UNCHANGED hand
           \/ \E id : hand' = [hand EXCEPT ![p] = id]
    PROVE  MembersInPlace'
<1>0. p \in Proc /\ TypeOK /\ ~InUse(p)'
  BY ProcessAssumption DEF Proc, PoolInv, TypeInv, InUse
<1>1. \A q \in Proc : q # p => (InUse(q)' => InUse(q)) /\ hand'[q] = hand[q]
  BY <1>0, OthersStay
<1> QED
  BY <1>0, <1>1, PlacesKept, InPlaceParts DEF FreeInPlace, UsedInPlace

LEMMA PlacesSame ==
    ASSUME PoolInv, MembersInPlace, UNCHANGED <<entries, free, pendingCreates, pc, hand>>
    PROVE  MembersInPlace'
  BY DEF MembersInPlace, Holds

LEMMA PlacesClones ==
    ASSUME PoolInv, MembersInPlace, Clones
    PROVE  MembersInPlace'
<1> USE DEF Goes, poolVars, runVars, createVars, procVars
<1>0. Collector \in Proc /\ TypeOK /\ OneOwner /\ ClonesOwed
  BY DEF Proc, PoolInv, TypeInv, OwnInv
<1>1. CASE CloneLands \/ CloneFails
  BY <1>1, PlacesSame DEF CloneLands, CloneFails
<1>2. CASE CollectClone
  <2>1. PICK id \in landed :
          /\ landed' = landed \ {id}
          /\ \/ /\ hand' = [hand EXCEPT ![Collector] = id]
                /\ UNCHANGED <<free, entries>>
             \/ /\ entries' = entries \cup {id} /\ Put(id) /\ UNCHANGED hand
    BY <1>2 DEF CollectClone
  <2>2. pc' = [pc EXCEPT ![Collector] = "collect"]
    BY <1>2 DEF CollectClone
  <2>3. pendingCreates > 0 /\ pendingCreates' = pendingCreates - 1
    BY <1>0, <1>2, CloneReports DEF CollectClone
  <2>4. pendingCreates \in Nat /\ pendingCreates' \in Nat /\ pendingCreates' <= pendingCreates
    BY <1>0, <2>3 DEF TypeOK
  <2>5. CASE UNCHANGED <<free, entries>> /\ hand' = [hand EXCEPT ![Collector] = id]
    BY <2>2, <2>4, <2>5, PlacesOthers
  <2>6. CASE entries' = entries \cup {id} /\ Put(id) /\ UNCHANGED hand
    <3>1. FreeInPlace'
      BY <1>0, <2>6, PutPlaces, InPlaceParts DEF FreeInPlace
    <3>2. \A q \in Proc : InUse(q)' => InUse(q)
      <4>1. ~InUse(Collector)'
        BY ProcessAssumption DEF InUse
      <4> QED
        BY <1>0, <2>2, <2>6, <4>1, OthersStay
    <3>3. UsedInPlace'
      BY <2>6, <3>2, InPlaceParts DEF UsedInPlace
    <3>4. RoomLeft'
      <4>1. \/ Cardinality(entries \cup {id}) = Cardinality(entries)
            \/ Cardinality(entries \cup {id}) = Cardinality(entries) + 1
        BY <1>0, EntriesFinite, FS_AddElement
      <4>2. Cardinality(entries) \in Nat /\ Size \in Nat
        BY <1>0, EntriesFinite, SizeAssumption
      <4> QED
        BY <2>3, <2>4, <2>6, <4>1, <4>2, InPlaceParts DEF RoomLeft
    <3> QED
      BY <3>1, <3>3, <3>4, InPlaceParts, PTL
  <2> QED
    BY <2>1, <2>5, <2>6
<1>3. CASE CollectFailure
  <2>1. pendingCreates > 0 /\ pendingCreates' = pendingCreates - 1
    BY <1>0, <1>3, CloneReports DEF CollectFailure
  <2>2. pendingCreates' \in Nat /\ pendingCreates' <= pendingCreates
    BY <1>0, <2>1 DEF TypeOK
  <2> QED
    BY <1>3, <2>2, PlacesOthers DEF CollectFailure
<1>4. CASE EndCollect
  <2>1. pendingCreates' \in Nat /\ pendingCreates' <= pendingCreates
    BY <1>0, <1>4 DEF EndCollect, TypeOK
  <2> QED
    BY <1>4, <2>1, PlacesOthers DEF EndCollect
<1> QED
  BY <1>1, <1>2, <1>3, <1>4 DEF Clones

LEMMA PlacesErrand ==
    ASSUME PoolInv, MembersInPlace, NEW p \in Proc, Errands(p)
    PROVE  MembersInPlace'
<1> USE DEF poolVars
<1>1. CASE Tell(p) \/ Save(p) \/ Write(p)
  BY <1>1, PlacesSame DEF Tell, Save, Write
<1>2. CASE Drop(p)
  <2>1. UNCHANGED <<entries, free, pendingCreates, pc>> /\ ~Ready(p)
        /\ hand' = [hand EXCEPT ![p] = NoId]
    BY <1>2 DEF Drop
  <2>2. ~InUse(p)
    BY <2>1 DEF PoolInv, Idle, Working, InUse, Holds
  <2>3. \A q \in Proc : q # p => hand'[q] = hand[q]
    BY <2>1 DEF PoolInv, TypeInv, TypeOK
  <2>4. \A q \in Proc : InUse(q)' <=> InUse(q)
    BY <2>1 DEF InUse, Holds
  <2>5. \A i \in Id : free'[i] > 0 => free[i] > 0
    BY <2>1
  <2> QED
    BY <2>1, <2>2, <2>3, <2>4, <2>5, PlaceLeft
<1> QED
  BY <1>1, <1>2 DEF Errands

LEMMA PlacesInit == Init => MembersInPlace
<1> SUFFICES ASSUME Init PROVE MembersInPlace
  OBVIOUS
<1>1. FreeInPlace
  BY DEF Init, FreeInPlace
<1>2. \A p \in Proc : InUse(p) => p \in Existing
  BY DEF Init, InUse, Holds, Proc
<1>3. UsedInPlace
  BY <1>2 DEF Init, UsedInPlace
<1>4. RoomLeft
  <2>1. Seed \notin Existing
    BY ProcessAssumption DEF Seed
  <2>2. Cardinality(Existing \cup {Seed}) = Cardinality(Existing) + 1
    BY <2>1, SizeAssumption, FS_AddElement
  <2>3. Existing \cup {} = Existing
    OBVIOUS
  <2>4. /\ NewCount = 1 => entries = Existing \cup {Seed} /\ pendingCreates = 0
        /\ NewCount # 1 => entries = Existing
                          /\ pendingCreates = IF NewCount > 1 THEN NewCount ELSE 0
    BY <2>3 DEF Init, Cloning
  <2>5. Cardinality(Existing) \in Nat /\ Size \in Nat /\ NewCount \in Nat
        /\ NewCount = Size - Cardinality(Existing)
    BY Counts, SizeAssumption DEF NewCount
  <2>6. CASE NewCount = 1
    <3>1. Cardinality(entries) = Cardinality(Existing) + 1 /\ pendingCreates = 0
      BY <2>2, <2>4, <2>6
    <3> QED
      BY <2>5, <2>6, <3>1 DEF RoomLeft
  <2>7. CASE NewCount # 1
    BY <2>4, <2>5, <2>7 DEF RoomLeft
  <2> QED
    BY <2>6, <2>7
<1> QED
  BY <1>1, <1>3, <1>4, InPlaceParts

LEMMA PlacesNext == PoolInv /\ MembersInPlace /\ [Next]_vars => MembersInPlace'
<1> SUFFICES ASSUME PoolInv, MembersInPlace, [Next]_vars PROVE MembersInPlace'
  OBVIOUS
<1> USE DEF poolVars, procVars
<1>0. pendingCreates \in Nat /\ pendingCreates <= pendingCreates
  BY DEF PoolInv, TypeInv, TypeOK
<1>1. CASE EndSync
  BY <1>0, <1>1, PlacesOthers DEF EndSync, Goes
<1>2. CASE Owns
  BY <1>0, <1>2, PlacesOthers DEF Owns, Destroy, DeleteMembers, Close, Kept, Goes
<1>3. CASE Vanish \/ Interrupt \/ UNCHANGED vars
  BY <1>3, PlacesSame DEF Vanish, Interrupt, vars
<1> QED
  BY <1>1, <1>2, <1>3, PlacesTask, PlacesSync, PlacesErrand, PlacesClones DEF Next

\* A send on the channel of free entries, made holding the pool's lock, never blocks:
\* what is free, in use or to come is a member or has room to become one, for any
\* mix of syncs, replacements, failed ones and clones (MembersInPlace of SidecarPool).
THEOREM SendsHaveRoom == Spec => []MembersInPlace
<1>1. Init => PoolInv /\ MembersInPlace
  BY PoolInit, PlacesInit
<1>2. PoolInv /\ MembersInPlace /\ [Next]_vars => PoolInv' /\ MembersInPlace'
  BY PoolNext, PlacesNext
<1> QED
  BY <1>1, <1>2, PTL DEF Spec

-----------------------------------------------------------------------------
(* Acquire's sync error.                                                       *)

LEMMA EmptySets == \A S : IsFiniteSet(S) /\ Cardinality(S) = 0 => S = {}
  BY FS_EmptySet

\* When Acquire reports the error, nobody has an entry and none is to come.
LEMMA NobodyIsLeft ==
    ASSUME PoolInv, Terminal
    PROVE  /\ \A t \in Task : ~Holds(t)
           /\ \A s \in Existing : pc[s] \notin {"sync", "rebuilt", "finish"}
           /\ creating = 0 /\ landed = {} /\ bad = 0
<1>1. Holding = {}
  BY HoldingFinite, EmptySets DEF PoolInv, Counted, Terminal, Holding
<1>2. Syncing = {}
  BY SyncingFinite, EmptySets DEF PoolInv, SyncsOwed, Terminal
<1>3. creating = 0 /\ Cardinality(landed) = 0 /\ bad = 0
  <2>1. creating \in Nat /\ Cardinality(landed) \in Nat /\ bad \in Nat
    BY LandedFinite DEF PoolInv, TypeInv, TypeOK
  <2>2. creating + Cardinality(landed) + bad = 0
    BY DEF PoolInv, ClonesOwed, Terminal
  <2> QED
    BY <2>1, <2>2
<1>4. landed = {}
  BY <1>3, LandedFinite, EmptySets DEF PoolInv, TypeInv
<1> QED
  BY <1>1, <1>2, <1>3, <1>4 DEF Holding, Syncing

LEMMA TerminalStep == PoolInv /\ [Next]_vars => (Terminal => Terminal')
<1> SUFFICES ASSUME PoolInv, [Next]_vars, Terminal PROVE Terminal'
  OBVIOUS
<1> USE DEF poolVars
<1>a. ASSUME UNCHANGED <<free, pendingSyncs, pendingCreates, checkedOut, syncErr>>
      PROVE  Terminal'
  BY <1>a DEF Terminal
<1>1. ASSUME NEW t \in Task, Acts(t) PROVE Terminal'
  <2>1. ~Holds(t) /\ \A i \in Id : free[i] = 0
    BY NobodyIsLeft DEF Terminal
  <2>2. ~(Acquire(t) \/ Release(t) \/ Rebuild(t) \/ CannotRebuild(t) \/ Swap(t) \/ Retire(t))
    BY <2>1 DEF Acquire, Available, Release, Rebuild, CannotRebuild, Swap, Retire, Holds
  <2>3. Ask(t) \/ Refused(t) \/ FindsNone(t) \/ Wake(t) \/ GiveUp(t)
    BY <1>1, <2>2 DEF Acts
  <2> QED
    BY <1>a, <2>3 DEF Ask, Refused, FindsNone, Wake, GiveUp
<1>2. ASSUME NEW s \in Existing, Syncs(s) PROVE FALSE
  BY <1>2, NobodyIsLeft DEF Syncs, SyncStale, Install, Synced, SyncFails
<1>3. ASSUME NEW p \in Proc, Errands(p) PROVE Terminal'
  BY <1>3, <1>a DEF Errands, Tell, Save, Write, Drop
<1>4. CASE Clones
  <2>1. ~(CloneLands \/ CloneFails \/ CollectClone \/ CollectFailure)
    <3>1. ~(creating > 0) /\ ~(bad > 0) /\ ~\E id \in landed : TRUE
      BY NobodyIsLeft
    <3>2. ~CloneLands /\ ~CloneFails
      BY <3>1 DEF CloneLands, CloneFails
    <3>3. ~CollectClone
      BY <3>1 DEF CollectClone
    <3>4. ~CollectFailure
      BY <3>1 DEF CollectFailure
    <3> QED
      BY <3>2, <3>3, <3>4
  <2> QED
    BY <1>4, <1>a, <2>1 DEF Clones, EndCollect
<1>5. CASE Owns
  BY <1>5, <1>a DEF Owns, Destroy, DeleteMembers, Close, Kept
<1>6. CASE EndSync \/ Vanish \/ Interrupt \/ UNCHANGED vars
  BY <1>6, <1>a DEF EndSync, Vanish, Interrupt, vars
<1> QED
  BY <1>1, <1>2, <1>3, <1>4, <1>5, <1>6 DEF Next

\* Once Acquire may report the sync error, it may for ever: no task is told that there
\* is no sidecar while one is checked out, syncing, or being created, even by a
\* goroutine that has not reported yet (TerminalIsFinal of SidecarPool).
THEOREM ErrorIsFinal == Spec => TerminalIsFinal
<1>1. Init => PoolInv
  BY PoolInit
<1>2. PoolInv /\ [Next]_vars => PoolInv'
  BY PoolNext
<1>3. PoolInv /\ [Next]_vars => [Terminal => Terminal']_vars
  BY TerminalStep
<1> QED
  BY <1>1, <1>2, <1>3, PTL DEF Spec, TerminalIsFinal

-----------------------------------------------------------------------------
(* The state file, of a pool that reuses no sidecar.                            *)

Owes(p, e) == \E n \in DOMAIN errands[p] : errands[p][n] = e

LEMMA SavingIsOwed == Saving <=> \E p \in Proc : Owes(p, "save") \/ Owes(p, "write")
  BY DEF Saving, Owes

\* A goroutine that is to write does so next, and has the lock of the file.
WriteFirst == \A p \in Proc : \A n \in DOMAIN errands[p] :
                errands[p][n] = "write" => n = 1 /\ stateMu = p

\* What is to be written is the members, or they will be saved again.
SnapGood == pc[Owner] # "destroyed" =>
                \A p \in Proc : Owes(p, "write") /\ snap[p] # ids =>
                                  \E q \in Proc : Owes(q, "save")

Recorded == pc[Owner] # "destroyed" /\ file # ids => Saving

RecordInv == WriteFirst /\ SnapGood /\ Recorded

\* Of a list of errands, the first is done.
LEMMA ListTail ==
    ASSUME NEW s \in Seq(Errand), s # <<>>
    PROVE  /\ s[1] = Head(s)
           /\ \A n \in DOMAIN Tail(s) : n + 1 \in DOMAIN s /\ Tail(s)[n] = s[n + 1] /\ n + 1 # 1
           /\ \A n \in DOMAIN s : n # 1 => n - 1 \in DOMAIN Tail(s) /\ Tail(s)[n - 1] = s[n]
<1>1. Len(s) \in Nat /\ Len(s) > 0 /\ DOMAIN s = 1..Len(s)
  OBVIOUS
<1>2. Tail(s) \in Seq(Errand) /\ Len(Tail(s)) = Len(s) - 1 /\ DOMAIN Tail(s) = 1..(Len(s) - 1)
  BY <1>1
<1>3. \A n \in 1..(Len(s) - 1) : Tail(s)[n] = s[n + 1]
  BY <1>1
<1> QED
  BY <1>1, <1>2, <1>3

LEMMA ListCons ==
    ASSUME NEW s \in Seq(Errand), NEW e \in Errand
    PROVE  /\ 1 \in DOMAIN (<<e>> \o s) /\ (<<e>> \o s)[1] = e
           /\ \A n \in DOMAIN (<<e>> \o s) : n # 1 => n - 1 \in DOMAIN s /\ (<<e>> \o s)[n] = s[n - 1]
           /\ \A n \in DOMAIN s : n + 1 \in DOMAIN (<<e>> \o s) /\ (<<e>> \o s)[n + 1] = s[n]
  OBVIOUS

\* p has done the first of its errands.
LEMMA OwesLess ==
    ASSUME TypeOK, NEW p \in Proc, ~Ready(p), errands' = [errands EXCEPT ![p] = Tail(@)]
    PROVE  /\ \A q \in Proc : \A e : q # p \/ e # Head(errands[p]) => (Owes(q, e)' <=> Owes(q, e))
           /\ WriteFirst => ~Owes(p, "write")'
<1> DEFINE s == errands[p]
<1>1. s \in Seq(Errand) /\ s # <<>>
  BY DEF TypeOK, Ready
<1>2. errands'[p] = Tail(s) /\ \A q \in Proc : q # p => errands'[q] = errands[q]
  BY DEF TypeOK
<1>3. \A q \in Proc : \A e : q # p => (Owes(q, e)' <=> Owes(q, e))
  BY <1>2 DEF Owes
<1>4. \A e : e # Head(s) => (Owes(p, e)' <=> Owes(p, e))
  <2>1. \A e : Owes(p, e)' => Owes(p, e)
    BY <1>1, <1>2, ListTail DEF Owes
  <2>2. ASSUME NEW e, Owes(p, e), e # Head(s) PROVE Owes(p, e)'
    <3>1. PICK n \in DOMAIN s : s[n] = e
      BY <2>2 DEF Owes
    <3>2. n # 1
      BY <1>1, <2>2, <3>1, ListTail
    <3>3. n - 1 \in DOMAIN Tail(s) /\ Tail(s)[n - 1] = e
      BY <1>1, <3>1, <3>2, ListTail
    <3> QED
      BY <1>2, <3>3 DEF Owes
  <2> QED
    BY <2>1, <2>2
<1>5. WriteFirst => ~Owes(p, "write")'
  <2> SUFFICES ASSUME WriteFirst, NEW n \in DOMAIN Tail(s), Tail(s)[n] = "write" PROVE FALSE
    BY <1>2 DEF Owes
  <2>1. n + 1 \in DOMAIN s /\ s[n + 1] = "write" /\ n + 1 # 1
    BY <1>1, ListTail
  <2> QED
    BY <2>1 DEF WriteFirst
<1> QED
  BY <1>3, <1>4, <1>5

\* p starts on errands once it has none left.
LEMMA OwesMore ==
    ASSUME TypeOK, NEW p \in Proc, Ready(p), NEW place, NEW todo, Goes(p, place, todo)
    PROVE  /\ \A q \in Proc : \A e : Owes(q, e) => Owes(q, e)'
           /\ \A q \in Proc : \A e : q # p => (Owes(q, e)' <=> Owes(q, e))
           /\ \A e : Owes(p, e)' <=> \E n \in DOMAIN todo : todo[n] = e
<1>1. errands'[p] = todo /\ \A q \in Proc : q # p => errands'[q] = errands[q]
  BY DEF TypeOK, Goes
<1>2. \A e : ~Owes(p, e)
  BY DEF Owes, Ready
<1> QED
  BY <1>1, <1>2 DEF Owes

LEMMA RecordGoes ==
    ASSUME TypeOK, RecordInv, NEW p \in Proc, Ready(p), NEW place, NEW todo,
           Goes(p, place, todo), \A n \in DOMAIN todo : todo[n] # "write",
           UNCHANGED <<stateMu, snap>>,
           pc'[Owner] # "destroyed" => pc[Owner] # "destroyed",
           \/ pc'[Owner] = "destroyed"
           \/ UNCHANGED <<ids, file>>
           \/ \E n \in DOMAIN todo : todo[n] = "save"
    PROVE  RecordInv'
<1>1. /\ \A q \in Proc : \A e : Owes(q, e) => Owes(q, e)'
      /\ \A q \in Proc : Owes(q, "write")' => q # p /\ Owes(q, "write")
  BY OwesMore
<1>2. WriteFirst'
  <2> SUFFICES ASSUME NEW q \in Proc, NEW n \in DOMAIN errands'[q], errands'[q][n] = "write"
               PROVE  n = 1 /\ stateMu' = q
    BY DEF WriteFirst
  <2>1. q # p
    BY <1>1 DEF Owes
  <2>2. errands'[q] = errands[q]
    BY <2>1 DEF Goes, TypeOK
  <2> QED
    BY <2>2 DEF RecordInv, WriteFirst
<1>3. CASE pc'[Owner] = "destroyed"
  BY <1>2, <1>3 DEF RecordInv, SnapGood, Recorded
<1>4. CASE \E n \in DOMAIN todo : todo[n] = "save"
  <2>1. Owes(p, "save")'
    BY <1>4, OwesMore
  <2>2. Saving'
    BY <2>1 DEF Saving, Owes
  <2> QED
    BY <1>2, <2>1, <2>2 DEF RecordInv, SnapGood, Recorded
<1>5. CASE pc'[Owner] # "destroyed" /\ UNCHANGED <<ids, file>>
  <2>1. ASSUME Saving PROVE Saving'
    <3>1. PICK q \in Proc : Owes(q, "save") \/ Owes(q, "write")
      BY <2>1, SavingIsOwed
    <3>2. Owes(q, "save")' \/ Owes(q, "write")'
      BY <1>1, <3>1
    <3> QED
      BY <3>2 DEF Saving, Owes
  <2>2. SnapGood'
    BY <1>1, <1>5 DEF RecordInv, SnapGood
  <2> QED
    BY <1>2, <1>5, <2>1, <2>2 DEF RecordInv, Recorded
<1> QED
  BY <1>3, <1>4, <1>5

LEMMA RecordSame ==
    ASSUME RecordInv, UNCHANGED <<ids, file, stateMu, snap, pc, errands>>
    PROVE  RecordInv'
  BY DEF RecordInv, WriteFirst, SnapGood, Recorded, Owes, Saving

\* An errand that is not about the file.
LEMMA RecordErrand ==
    ASSUME TypeOK, RecordInv, NEW p \in Proc, Tell(p) \/ Drop(p)
    PROVE  RecordInv'
<1>1. /\ ~Ready(p) /\ Head(errands[p]) \in {"tell", "drop"}
      /\ errands' = [errands EXCEPT ![p] = Tail(@)]
      /\ UNCHANGED <<ids, file, stateMu, snap, pc>>
  BY DEF Tell, Drop, poolVars, fileVars
<1>2. \A q \in Proc : \A e \in {"save", "write"} : Owes(q, e)' <=> Owes(q, e)
  BY <1>1, OwesLess
<1>3. ~Owes(p, "write")'
  BY <1>1, OwesLess DEF RecordInv
<1>4. WriteFirst'
  <2> SUFFICES ASSUME NEW q \in Proc, NEW n \in DOMAIN errands'[q], errands'[q][n] = "write"
               PROVE  n = 1 /\ stateMu' = q
    BY DEF WriteFirst
  <2>1. q # p
    BY <1>3 DEF Owes
  <2>2. errands'[q] = errands[q]
    BY <1>1, <2>1 DEF TypeOK
  <2> QED
    BY <1>1, <2>2 DEF RecordInv, WriteFirst
<1>5. SnapGood'
  BY <1>1, <1>2 DEF RecordInv, SnapGood
<1>6. Saving => Saving'
  BY <1>2 DEF Saving, Owes
<1>7. Recorded'
  BY <1>1, <1>6 DEF RecordInv, Recorded
<1> QED
  BY <1>4, <1>5, <1>7 DEF RecordInv

LEMMA RecordSave ==
    ASSUME TypeOK, RecordInv, NEW p \in Proc, Save(p)
    PROVE  RecordInv'
<1> DEFINE t == Tail(errands[p])
<1>1. ~Ready(p) /\ stateMu = Nobody /\ stateMu' = p /\ UNCHANGED <<ids, file, pc>>
  BY DEF Save, StateMuFree, poolVars
<1>2. /\ errands'[p] = <<"write">> \o t /\ snap'[p] = ids
      /\ \A q \in Proc : q # p => errands'[q] = errands[q]
  BY DEF Save, TypeOK
<1>3. Nobody \notin Proc
  BY ProcessAssumption DEF Proc
<1>4. \A q \in Proc : ~Owes(q, "write")
  BY <1>1, <1>3 DEF RecordInv, WriteFirst, Owes
<1>5. t \in Seq(Errand) /\ errands[p] \in Seq(Errand) /\ errands[p] # <<>>
  BY <1>1 DEF TypeOK, Ready
<1>6. \A n \in DOMAIN t : t[n] # "write"
  BY <1>4, <1>5, ListTail DEF Owes
<1>7. "write" \in Errand
  BY DEF Errand
<1>8. WriteFirst'
  <2> SUFFICES ASSUME NEW q \in Proc, NEW n \in DOMAIN errands'[q], errands'[q][n] = "write"
               PROVE  n = 1 /\ stateMu' = q
    BY DEF WriteFirst
  <2>1. q = p
    BY <1>2, <1>4 DEF Owes
  <2>2. ASSUME n # 1 PROVE FALSE
    <3>1. n \in DOMAIN (<<"write">> \o t) /\ (<<"write">> \o t)[n] = "write"
      BY <1>2, <2>1
    <3> HIDE DEF t
    <3>2. n - 1 \in DOMAIN t /\ t[n - 1] = "write"
      BY <1>5, <1>7, <2>2, <3>1, ListCons
    <3> QED
      BY <1>6, <3>2
  <2> QED
    BY <1>1, <2>1, <2>2
<1>9. \A q \in Proc : Owes(q, "write")' => q = p
  BY <1>2, <1>4 DEF Owes
<1>10. SnapGood'
  BY <1>1, <1>2, <1>9 DEF SnapGood
<1>11. Owes(p, "write")'
  BY <1>2, <1>5, <1>7, ListCons DEF Owes
<1>12. Recorded'
  BY <1>11 DEF Recorded, Saving, Owes
<1> QED
  BY <1>8, <1>10, <1>12 DEF RecordInv

LEMMA RecordWrite ==
    ASSUME TypeOK, RecordInv, NEW p \in Proc, Write(p)
    PROVE  RecordInv'
<1>1. /\ ~Ready(p) /\ Head(errands[p]) = "write" /\ file' = snap[p]
      /\ errands' = [errands EXCEPT ![p] = Tail(@)]
      /\ UNCHANGED <<ids, pc>>
  BY DEF Write, poolVars
<1>2. /\ \A q \in Proc : Owes(q, "save")' <=> Owes(q, "save")
      /\ \A q \in Proc : q # p => (Owes(q, "write")' <=> Owes(q, "write"))
      /\ ~Owes(p, "write")'
  BY <1>1, OwesLess DEF RecordInv
<1>3. Owes(p, "write") /\ stateMu = p
  <2>1. errands[p] \in Seq(Errand) /\ errands[p] # <<>>
    BY <1>1 DEF TypeOK, Ready
  <2>2. 1 \in DOMAIN errands[p] /\ errands[p][1] = "write"
    BY <1>1, <2>1
  <2> QED
    BY <2>2 DEF RecordInv, WriteFirst, Owes
<1>4. \A q \in Proc : ~Owes(q, "write")'
  BY <1>2, <1>3 DEF RecordInv, WriteFirst, Owes
<1>5. WriteFirst' /\ SnapGood'
  BY <1>4 DEF WriteFirst, SnapGood, Owes
<1>6. Recorded'
  <2> SUFFICES ASSUME pc[Owner] # "destroyed", snap[p] # ids PROVE Saving'
    BY <1>1 DEF Recorded
  <2>1. \E q \in Proc : Owes(q, "save")
    BY <1>3 DEF RecordInv, SnapGood
  <2> QED
    BY <1>2, <2>1 DEF Saving, Owes
<1> QED
  BY <1>5, <1>6 DEF RecordInv

LEMMA RecordNext ==
    ASSUME Existing = {}, TypeOK, Idle, RecordInv, [Next]_vars
    PROVE  RecordInv'
<1> USE DEF poolVars, fileVars
<1>0. Task \subseteq Proc /\ {Collector, Closer, Owner} \subseteq Proc
  BY DEF Proc
<1>a. ASSUME NEW p \in Proc \ {Owner}, NEW place, NEW todo, Goes(p, place, todo)
      PROVE  pc'[Owner] = pc[Owner]
  BY <1>0, <1>a DEF Goes, TypeOK
<1>b. /\ \A n \in DOMAIN <<>> : FALSE
      /\ \A n \in DOMAIN <<"tell">> : <<"tell">>[n] # "write"
      /\ \A n \in DOMAIN <<"drop", "tell">> : <<"drop", "tell">>[n] # "write"
      /\ \A n \in DOMAIN <<"tell", "save">> : <<"tell", "save">>[n] # "write"
      /\ \A n \in DOMAIN <<"save", "tell">> : <<"save", "tell">>[n] # "write"
      /\ \E n \in DOMAIN <<"save", "tell">> : <<"save", "tell">>[n] = "save"
      /\ \E n \in DOMAIN <<"tell", "save">> : <<"tell", "save">>[n] = "save"
  OBVIOUS
<1>1. ASSUME NEW t \in Task, Acts(t) PROVE RecordInv'
  <2>0. t \in Proc \ {Owner} /\ t # Owner
    BY <1>0, ProcessAssumption
  <2>1. UNCHANGED <<file, stateMu, snap>>
    <3>1. CASE Ask(t) \/ Refused(t) \/ FindsNone(t) \/ Wake(t) \/ GiveUp(t) \/ Acquire(t)
      BY <3>1 DEF Ask, Refused, FindsNone, Wake, GiveUp, Acquire
    <3>2. CASE Release(t) \/ Rebuild(t) \/ CannotRebuild(t) \/ Swap(t) \/ Retire(t)
      BY <3>2 DEF Release, Rebuild, CannotRebuild, Swap, Retire
    <3> QED
      BY <1>1, <3>1, <3>2 DEF Acts
  <2>2. Ready(t)
    <3>1. pc[t] # "over"
      <4>1. CASE Ask(t) \/ Refused(t) \/ FindsNone(t) \/ Wake(t) \/ GiveUp(t) \/ Acquire(t)
        BY <4>1 DEF Ask, Refused, FindsNone, Wake, GiveUp, Acquire
      <4>2. CASE Release(t) \/ Rebuild(t) \/ CannotRebuild(t) \/ Swap(t) \/ Retire(t)
        BY <4>2 DEF Release, Rebuild, CannotRebuild, Swap, Retire
      <4> QED
        BY <1>1, <4>1, <4>2 DEF Acts
    <3> QED
      BY <2>0, <3>1 DEF Idle, Working
  <2>3. ASSUME NEW place, NEW todo, Goes(t, place, todo), \A n \in DOMAIN todo : todo[n] # "write",
               UNCHANGED ids \/ \E n \in DOMAIN todo : todo[n] = "save"
        PROVE  RecordInv'
    <3>1. pc'[Owner] = pc[Owner]
      BY <1>a, <2>0, <2>3
    <3> QED
      BY <2>0, <2>1, <2>2, <2>3, <3>1, RecordGoes
  <2>4. CASE Ask(t) \/ Refused(t) \/ FindsNone(t) \/ Wake(t) \/ GiveUp(t) \/ Acquire(t)
    BY <1>b, <2>3, <2>4 DEF Ask, Refused, FindsNone, Wake, GiveUp, Acquire
  <2>5. CASE Release(t) \/ Rebuild(t) \/ CannotRebuild(t)
    BY <1>b, <2>3, <2>5 DEF Release, Rebuild, CannotRebuild
  <2>6. CASE Swap(t) \/ Retire(t)
    BY <1>b, <2>3, <2>6 DEF Swap, Retire
  <2> QED
    BY <1>1, <2>4, <2>5, <2>6 DEF Acts
<1>2. ASSUME NEW p \in Proc, Errands(p) PROVE RecordInv'
  BY <1>2, RecordErrand, RecordSave, RecordWrite DEF Errands
<1>3. CASE EndSync \/ CollectClone \/ CollectFailure \/ EndCollect
  <2>0. {Closer, Collector} \subseteq Proc \ {Owner}
    BY <1>0, ThreeApart
  <2>1. UNCHANGED <<file, stateMu, snap>>
    BY <1>3 DEF EndSync, CollectClone, CollectFailure, EndCollect
  <2>2. ASSUME NEW p \in {Closer, Collector}, Ready(p), NEW place, NEW todo, Goes(p, place, todo),
               \A n \in DOMAIN todo : todo[n] # "write",
               UNCHANGED ids \/ \E n \in DOMAIN todo : todo[n] = "save"
        PROVE  RecordInv'
    <3>1. pc'[Owner] = pc[Owner]
      BY <1>a, <2>0, <2>2
    <3> QED
      BY <2>0, <2>1, <2>2, <3>1, RecordGoes
  <2>3. CASE EndSync
    <3>1. Ready(Closer)
      BY <1>0, <2>3 DEF EndSync, Idle, Working
    <3>2. PICK todo \in {<<"save", "tell">>, <<"tell">>} : Goes(Closer, "done", todo)
      BY <2>3 DEF EndSync
    <3>3. UNCHANGED ids
      BY <2>3 DEF EndSync
    <3> QED
      BY <1>b, <2>2, <3>1, <3>2, <3>3
  <2>4. CASE CollectClone
    <3>1. Ready(Collector)
      BY <2>4 DEF CollectClone
    <3>2. CASE UNCHANGED ids /\ Goes(Collector, "collect", <<"drop", "tell">>)
      BY <1>b, <2>2, <3>1, <3>2
    <3>3. CASE Goes(Collector, "collect", <<"save", "tell">>)
      BY <1>b, <2>2, <3>1, <3>3
    <3> QED
      BY <2>4, <3>2, <3>3 DEF CollectClone
  <2>5. CASE CollectFailure \/ EndCollect
    BY <1>b, <2>2, <2>5 DEF CollectFailure, EndCollect
  <2> QED
    BY <1>3, <2>3, <2>4, <2>5
<1>4. CASE CloneLands \/ CloneFails \/ Vanish \/ Interrupt \/ UNCHANGED vars
  BY <1>4, RecordSame DEF CloneLands, CloneFails, Vanish, Interrupt, vars, procVars
<1>5. CASE Owns
  <2>1. UNCHANGED <<stateMu, snap>> /\ pc[Owner] # "destroyed" /\ Ready(Owner)
    BY <1>0, <1>5 DEF Owns, Destroy, DeleteMembers, Close, Kept, Idle, Working
  <2>2. CASE Destroy \/ Close \/ Kept
    <3>1. PICK place : Goes(Owner, place, <<>>)
      BY <2>2 DEF Destroy, Close, Kept
    <3>2. UNCHANGED <<ids, file>>
      BY <2>2 DEF Destroy, Close, Kept
    <3> QED
      BY <1>0, <1>b, <2>1, <3>1, <3>2, RecordGoes
  <2>3. CASE DeleteMembers
    <3>1. PICK todo \in {<<"tell">>, <<"tell", "save">>} : Goes(Owner, "destroyed", todo)
      BY <2>3 DEF DeleteMembers
    <3>2. pc'[Owner] = "destroyed"
      BY <1>0, <3>1 DEF Goes, TypeOK
    <3> QED
      BY <1>0, <1>b, <2>1, <3>1, <3>2, RecordGoes
  <2> QED
    BY <1>5, <2>2, <2>3 DEF Owns
<1> QED
  BY <1>1, <1>2, <1>3, <1>4, <1>5 DEF Next, Clones

\* Of a pool that reuses no sidecar the state file has the members whenever nothing is
\* left to be saved, in whatever order the tasks, the clone collector and the
\* owner read the members and write the file (RecordUpToDate of SidecarPool).
THEOREM RecordIsUpToDate ==
    ASSUME Existing = {}
    PROVE  Spec => []RecordUpToDate
<1>1. Init => TypeInv /\ Idle /\ RecordInv
  <2>1. Init => RecordInv
    BY DEF Init, RecordInv, WriteFirst, SnapGood, Recorded, Owes
  <2> QED
    BY <2>1, PoolInit DEF PoolInv
<1>2. TypeInv /\ Idle /\ RecordInv /\ [Next]_vars => TypeInv' /\ Idle' /\ RecordInv'
  BY TypesNext, FreshNext, IdleNext, RecordNext DEF TypeInv
<1>3. RecordInv => RecordUpToDate
  BY DEF RecordInv, Recorded, RecordUpToDate
<1> QED
  BY <1>1, <1>2, <1>3, PTL DEF Spec

-----------------------------------------------------------------------------
(* Destroy.                                                                    *)

\* p alone moves.
Alone(p) == \A q \in Proc : q # p =>
                /\ pc'[q] = pc[q] /\ errands'[q] = errands[q]
                /\ hand'[q] = hand[q] /\ fresh'[q] = fresh[q]

LEMMA GoesAlone ==
    ASSUME TypeOK, NEW p \in Proc, NEW place, NEW todo, Goes(p, place, todo),
           UNCHANGED hand \/ \E id : hand' = [hand EXCEPT ![p] = id],
           UNCHANGED fresh \/ \E id : fresh' = [fresh EXCEPT ![p] = id]
    PROVE  Alone(p) /\ pc'[p] = place /\ errands'[p] = todo
  BY DEF Alone, Goes, TypeOK

LEMMA TaskAlone ==
    ASSUME TypeOK, NEW t \in Task, Acts(t)
    PROVE  Alone(t) /\ UNCHANGED <<closed, creating, landed, bad, orphans, cancelled>>
<1> USE DEF poolVars, runVars, createVars, remoteVars
<1>0. t \in Proc
  BY DEF Proc
<1>1. CASE Ask(t) \/ Refused(t) \/ FindsNone(t) \/ Wake(t) \/ GiveUp(t)
  BY <1>0, <1>1, GoesAlone DEF Ask, Refused, FindsNone, Wake, GiveUp
<1>2. CASE Acquire(t)
  BY <1>0, <1>2, GoesAlone DEF Acquire
<1>3. CASE Release(t)
  BY <1>0, <1>3, GoesAlone DEF Release
<1>4. CASE Rebuild(t) \/ CannotRebuild(t)
  BY <1>0, <1>4, GoesAlone DEF Rebuild, CannotRebuild
<1>5. CASE Swap(t) \/ Retire(t)
  BY <1>0, <1>5, GoesAlone DEF Swap, Retire
<1> QED
  BY <1>1, <1>2, <1>3, <1>4, <1>5 DEF Acts

LEMMA SyncAlone ==
    ASSUME TypeOK, NEW s \in Existing, Syncs(s)
    PROVE  Alone(s) /\ UNCHANGED <<closed, creating, landed, bad, orphans, cancelled>>
<1> USE DEF poolVars, runVars, createVars, remoteVars
<1>0. s \in Proc
  BY DEF Proc
<1>1. CASE SyncStale(s) \/ Install(s)
  BY <1>0, <1>1, GoesAlone DEF SyncStale, Install
<1>2. CASE Synced(s)
  BY <1>0, <1>2, GoesAlone DEF Synced
<1>3. CASE SyncFails(s)
  BY <1>0, <1>3, GoesAlone DEF SyncFails
<1> QED
  BY <1>1, <1>2, <1>3 DEF Syncs

LEMMA ErrandAlone ==
    ASSUME TypeOK, NEW p \in Proc, Errands(p)
    PROVE  /\ Alone(p) /\ ~Ready(p)
           /\ UNCHANGED <<closed, creating, landed, bad, orphans, cancelled, ids, pc, fresh, made>>
<1> USE DEF poolVars, runVars, createVars, remoteVars
<1>1. CASE Tell(p) \/ Save(p) \/ Write(p)
  BY <1>1 DEF Tell, Save, Write, Alone, TypeOK
<1>2. CASE Drop(p)
  BY <1>2 DEF Drop, Alone, TypeOK
<1> QED
  BY <1>1, <1>2 DEF Errands

LEMMA CollectorAlone ==
    ASSUME TypeOK, CollectClone \/ CollectFailure \/ EndCollect
    PROVE  Alone(Collector) /\ Ready(Collector) /\ UNCHANGED <<closed, orphans, fresh, made>>
<1> USE DEF poolVars, runVars, createVars, remoteVars
<1>0. Collector \in Proc
  BY DEF Proc
<1>1. CASE CollectClone
  <2>1. PICK todo : Goes(Collector, "collect", todo)
    BY <1>1 DEF CollectClone
  <2>2. UNCHANGED fresh /\ (UNCHANGED hand \/ \E id : hand' = [hand EXCEPT ![Collector] = id])
    BY <1>1 DEF CollectClone
  <2>3. Ready(Collector) /\ UNCHANGED <<closed, orphans, made>>
    BY <1>1 DEF CollectClone
  <2> QED
    BY <1>0, <2>1, <2>2, <2>3, GoesAlone
<1>2. CASE CollectFailure
  BY <1>0, <1>2, GoesAlone DEF CollectFailure
<1>3. CASE EndCollect
  BY <1>0, <1>3, GoesAlone DEF EndCollect
<1> QED
  BY <1>1, <1>2, <1>3

LEMMA CloserAlone ==
    ASSUME TypeOK, EndSync
    PROVE  /\ Alone(Closer) /\ pc'[Closer] = "done"
           /\ UNCHANGED <<closed, creating, landed, bad, orphans, remote, ids, hand, fresh, made>>
<1>0. Closer \in Proc
  BY DEF Proc
<1>1. PICK todo : Goes(Closer, "done", todo)
  BY DEF EndSync
<1>2. UNCHANGED <<closed, creating, landed, bad, orphans, remote, ids, hand, fresh, made>>
  BY DEF EndSync, poolVars, createVars, remoteVars
<1> QED
  BY <1>0, <1>1, <1>2, GoesAlone

LEMMA OwnerAlone ==
    ASSUME TypeOK, Owns
    PROVE  Alone(Owner) /\ UNCHANGED <<creating, landed, bad, orphans, hand, fresh, made>>
<1> USE DEF poolVars, runVars, createVars, remoteVars
<1>0. Owner \in Proc
  BY DEF Proc
<1>1. CASE Destroy \/ Close \/ Kept
  BY <1>0, <1>1, GoesAlone DEF Destroy, Close, Kept
<1>2. CASE DeleteMembers
  <2>1. PICK todo : Goes(Owner, "destroyed", todo)
    BY <1>2 DEF DeleteMembers
  <2>2. UNCHANGED <<creating, landed, bad, orphans, hand, fresh, made>>
    BY <1>2 DEF DeleteMembers
  <2> QED
    BY <1>0, <2>1, <2>2, GoesAlone
<1> QED
  BY <1>1, <1>2 DEF Owns

\* Steps of no goroutine of the pool.
LEMMA NoneMoves ==
    ASSUME CloneLands \/ CloneFails \/ Vanish \/ Interrupt \/ UNCHANGED vars
    PROVE  UNCHANGED <<closed, ids, pc, hand, fresh, errands>>
  BY DEF CloneLands, CloneFails, Vanish, Interrupt, vars, procVars, poolVars

-----------------------------------------------------------------------------

\* The owner is past the start of Destroy only in a closed pool, where no Replace runs.
ClosedInv == /\ pc[Owner] \in {"closing", "destroyed"} => closed
             /\ closed => \A t \in Task : pc[t] \notin {"swap", "retire"}
             /\ \A t \in Task : pc[t] # "rebuilt"

LEMMA ClosedNext == TypeOK /\ ClosedInv /\ [Next]_vars => ClosedInv'
<1> SUFFICES ASSUME TypeOK, ClosedInv, [Next]_vars PROVE ClosedInv'
  OBVIOUS
<1>0. /\ Task \subseteq Proc /\ Existing \subseteq Proc /\ {Collector, Closer, Owner} \subseteq Proc
      /\ Owner \notin Task \cup Existing /\ Task \cap Existing = {}
      /\ Collector \notin Task /\ Closer \notin Task
  BY ProcessAssumption DEF Proc
<1>a. ASSUME NEW p \in Proc \ (Task \cup {Owner}), Alone(p), UNCHANGED closed PROVE ClosedInv'
  BY <1>0, <1>a DEF Alone, ClosedInv
<1>1. ASSUME NEW t \in Task, Acts(t) PROVE ClosedInv'
  <2>1. Alone(t) /\ UNCHANGED closed
    BY <1>1, TaskAlone
  <2>2. pc'[t] # "rebuilt" /\ (closed => pc'[t] \notin {"swap", "retire"})
    <3>1. CASE Ask(t) \/ Refused(t) \/ FindsNone(t) \/ Wake(t) \/ GiveUp(t) \/ Acquire(t)
      BY <1>0, <3>1 DEF Ask, Refused, FindsNone, Wake, GiveUp, Acquire, Goes, TypeOK
    <3>2. CASE Release(t) \/ Swap(t) \/ Retire(t)
      BY <1>0, <3>2 DEF Release, Swap, Retire, Goes, TypeOK
    <3>3. CASE Rebuild(t) \/ CannotRebuild(t)
      BY <1>0, <3>3 DEF Rebuild, CannotRebuild, Goes, TypeOK
    <3> QED
      BY <1>1, <3>1, <3>2, <3>3 DEF Acts
  <2> QED
    BY <1>0, <2>1, <2>2 DEF Alone, ClosedInv
<1>2. ASSUME NEW s \in Existing, Syncs(s) PROVE ClosedInv'
  BY <1>0, <1>2, <1>a, SyncAlone
<1>3. ASSUME NEW p \in Proc, Errands(p) PROVE ClosedInv'
  BY <1>3, ErrandAlone DEF ClosedInv
<1>4. CASE EndSync
  BY <1>0, <1>4, <1>a, CloserAlone, ThreeApart
<1>5. CASE CollectClone \/ CollectFailure \/ EndCollect
  BY <1>0, <1>5, <1>a, CollectorAlone, ThreeApart
<1>6. CASE Owns
  <2>1. Alone(Owner)
    BY <1>6, OwnerAlone
  <2>2. CASE Destroy
    BY <1>0, <2>1, <2>2 DEF Destroy, Alone, ClosedInv
  <2>3. CASE DeleteMembers
    <3>1. closed /\ closed'
      BY <2>3 DEF DeleteMembers, ClosedInv
    <3> QED
      BY <1>0, <2>1, <3>1 DEF Alone, ClosedInv
  <2>4. CASE Close \/ Kept
    <3>1. UNCHANGED closed /\ pc'[Owner] \in {"keeping", "kept"}
      BY <1>0, <2>4 DEF Close, Kept, Goes, TypeOK, poolVars
    <3> QED
      BY <1>0, <2>1, <3>1 DEF Alone, ClosedInv
  <2> QED
    BY <1>6, <2>2, <2>3, <2>4 DEF Owns
<1>7. CASE CloneLands \/ CloneFails \/ Vanish \/ Interrupt \/ UNCHANGED vars
  BY <1>7, NoneMoves DEF ClosedInv
<1> QED
  BY <1>1, <1>2, <1>3, <1>4, <1>5, <1>6, <1>7 DEF Next, Clones

\* The collector and the closer end when what they wait for is over; the collector has
\* a sidecar in its hand only to delete it.
BackInv == /\ pc[Collector] \in {"collect", "done"}
           /\ pc[Collector] = "done" => AllCollected
           /\ pc[Closer] = "done" => SyncsOver
           /\ hand[Collector] # NoId => Owes(Collector, "drop")

LEMMA SaveDropApart ==
    ASSUME TypeOK, NEW p \in Proc, Save(p)
    PROVE  Owes(p, "drop") => Owes(p, "drop")'
<1> DEFINE t == Tail(errands[p])
<1>1. errands[p] \in Seq(Errand) /\ errands[p] # <<>> /\ Head(errands[p]) = "save"
      /\ errands'[p] = <<"write">> \o t
  BY DEF Save, TypeOK, Ready
<1>2. t \in Seq(Errand) /\ "write" \in Errand
  BY <1>1 DEF Errand
<1> SUFFICES ASSUME NEW n \in DOMAIN errands[p], errands[p][n] = "drop" PROVE Owes(p, "drop")'
  BY DEF Owes
<1>3. n # 1
  BY <1>1, ListTail
<1>4. n - 1 \in DOMAIN t /\ t[n - 1] = "drop"
  BY <1>1, <1>3, ListTail
<1> HIDE DEF t
<1>5. (n - 1) + 1 \in DOMAIN (<<"write">> \o t) /\ (<<"write">> \o t)[(n - 1) + 1] = "drop"
  BY <1>2, <1>4, ListCons
<1> QED
  BY <1>1, <1>5 DEF Owes

LEMMA BackAlone ==
    ASSUME TypeOK, BackInv, NEW p \in Proc \ (Existing \cup {Collector, Closer}), Alone(p),
           UNCHANGED <<creating, landed, bad>>
    PROVE  BackInv'
<1>0. {Collector, Closer} \subseteq Proc /\ Existing \subseteq Proc
  BY DEF Proc
<1>1. /\ pc'[Collector] = pc[Collector] /\ pc'[Closer] = pc[Closer]
      /\ hand'[Collector] = hand[Collector] /\ errands'[Collector] = errands[Collector]
      /\ \A s \in Existing : pc'[s] = pc[s] /\ errands'[s] = errands[s]
  BY <1>0 DEF Alone
<1> QED
  BY <1>1 DEF BackInv, AllCollected, SyncsOver, Ready, Owes

LEMMA BackNext == TypeOK /\ BackInv /\ [Next]_vars => BackInv'
<1> SUFFICES ASSUME TypeOK, BackInv, [Next]_vars PROVE BackInv'
  OBVIOUS
<1> USE DEF poolVars, runVars, createVars
<1>0. /\ Task \subseteq Proc /\ Existing \subseteq Proc /\ {Collector, Closer, Owner} \subseteq Proc
      /\ Existing \cap {Collector, Closer, Owner} = {} /\ Task \cap {Collector, Closer, Owner} = {}
      /\ Task \cap Existing = {}
  BY ProcessAssumption DEF Proc
<1>1. ASSUME NEW t \in Task, Acts(t) PROVE BackInv'
  BY <1>0, <1>1, TaskAlone, BackAlone
<1>2. ASSUME NEW s \in Existing, Syncs(s) PROVE BackInv'
  <2>1. pc[s] # "done"
    BY <1>2 DEF Syncs, SyncStale, Install, Synced, SyncFails
  <2>2. pc[Closer] # "done"
    BY <2>1 DEF BackInv, SyncsOver
  <2>3. /\ pc'[Collector] = pc[Collector] /\ pc'[Closer] = pc[Closer]
        /\ hand'[Collector] = hand[Collector] /\ errands'[Collector] = errands[Collector]
        /\ UNCHANGED <<creating, landed, bad>>
    BY <1>0, <1>2, SyncAlone DEF Alone
  <2> QED
    BY <2>2, <2>3 DEF BackInv, AllCollected, Owes
<1>3. ASSUME NEW p \in Proc, Errands(p) PROVE BackInv'
  <2>1. Alone(p) /\ ~Ready(p) /\ UNCHANGED <<creating, landed, bad, pc>>
    BY <1>3, ErrandAlone
  <2>2. pc[Closer] = "done" => p \notin Existing
    BY <2>1 DEF BackInv, SyncsOver
  <2>3. pc[Closer] = "done" => SyncsOver'
    BY <1>0, <2>1, <2>2 DEF BackInv, SyncsOver, Ready, Alone
  <2>4. CASE p # Collector
    <3>1. hand'[Collector] = hand[Collector] /\ errands'[Collector] = errands[Collector]
      BY <1>0, <2>1, <2>4 DEF Alone
    <3> QED
      BY <2>1, <2>3, <3>1 DEF BackInv, AllCollected, Owes
  <2>5. CASE p = Collector
    <3>1. hand'[Collector] # NoId => Owes(Collector, "drop")'
      <4>1. CASE Tell(p) \/ Write(p)
        <5>1. /\ Head(errands[p]) # "drop" /\ errands' = [errands EXCEPT ![p] = Tail(@)]
              /\ UNCHANGED hand
          BY <4>1 DEF Tell, Write
        <5>2. Owes(p, "drop")' <=> Owes(p, "drop")
          BY <2>1, <5>1, OwesLess
        <5> QED
          BY <2>5, <5>1, <5>2 DEF BackInv
      <4>2. CASE Save(p)
        BY <2>5, <4>2, SaveDropApart DEF BackInv, Save
      <4>3. CASE Drop(p)
        BY <2>5, <4>3 DEF Drop, TypeOK
      <4> QED
        BY <1>3, <4>1, <4>2, <4>3 DEF Errands
    <3> QED
      BY <2>1, <2>3, <3>1 DEF BackInv, AllCollected
  <2> QED
    BY <2>4, <2>5
<1>4. CASE EndSync
  <2>1. Alone(Closer) /\ UNCHANGED <<creating, landed, bad, hand>> /\ SyncsOver
    BY <1>4, CloserAlone DEF EndSync
  <2>2. SyncsOver'
    BY <1>0, <2>1, ThreeApart DEF SyncsOver, Ready, Alone
  <2>3. /\ pc'[Collector] = pc[Collector] /\ errands'[Collector] = errands[Collector]
        /\ hand'[Collector] = hand[Collector]
    BY <1>0, <2>1, ThreeApart DEF Alone
  <2> QED
    BY <2>1, <2>2, <2>3 DEF BackInv, AllCollected, Owes
<1>5. CASE CollectClone \/ CollectFailure \/ EndCollect
  <2>1. Alone(Collector) /\ Ready(Collector)
    BY <1>5, CollectorAlone
  <2>2. pc[Closer] = "done" => SyncsOver'
    BY <1>0, <2>1 DEF Alone, BackInv, SyncsOver, Ready
  <2>3. pc'[Closer] = pc[Closer]
    BY <1>0, <2>1, ThreeApart DEF Alone
  <2>4. hand[Collector] = NoId
    BY <2>1 DEF BackInv, Owes, Ready
  <2>5. CASE CollectClone
    <3>1. PICK id, todo : /\ Goes(Collector, "collect", todo)
                         /\ \/ hand' = [hand EXCEPT ![Collector] = id] /\ todo = <<"drop", "tell">>
                            \/ UNCHANGED hand
      BY <2>5 DEF CollectClone
    <3>2. pc'[Collector] = "collect" /\ errands'[Collector] = todo
      BY <1>0, <3>1 DEF Goes, TypeOK
    <3>3. hand'[Collector] # NoId => Owes(Collector, "drop")'
      <4>1. <<"drop", "tell">>[1] = "drop" /\ 1 \in DOMAIN <<"drop", "tell">>
        OBVIOUS
      <4> QED
        BY <2>4, <3>1, <3>2, <4>1 DEF Owes
    <3> QED
      BY <2>2, <2>3, <3>2, <3>3 DEF BackInv
  <2>6. CASE CollectFailure
    <3>1. UNCHANGED hand /\ Goes(Collector, "collect", <<"tell">>)
      BY <2>6 DEF CollectFailure
    <3>2. pc'[Collector] = "collect"
      BY <1>0, <3>1 DEF Goes, TypeOK
    <3> QED
      BY <2>2, <2>3, <2>4, <3>1, <3>2 DEF BackInv
  <2>7. CASE EndCollect
    <3>1. UNCHANGED <<hand, creating, landed, bad>> /\ Goes(Collector, "done", <<>>) /\ AllCollected
      BY <2>7 DEF EndCollect
    <3>2. pc'[Collector] = "done" /\ AllCollected'
      BY <1>0, <3>1 DEF Goes, TypeOK, AllCollected
    <3> QED
      BY <2>2, <2>3, <2>4, <3>1, <3>2 DEF BackInv
  <2> QED
    BY <1>5, <2>5, <2>6, <2>7
<1>6. CASE Owns
  BY <1>0, <1>6, OwnerAlone, BackAlone, ThreeApart
<1>7. CASE CloneLands \/ CloneFails
  <2>1. UNCHANGED <<pc, hand, errands>> /\ ~AllCollected
    BY <1>7, NoneMoves DEF CloneLands, CloneFails, AllCollected
  <2> QED
    BY <2>1 DEF BackInv, SyncsOver, Ready, Owes
<1>8. CASE Vanish \/ Interrupt \/ UNCHANGED vars
  <2>1. UNCHANGED <<pc, hand, errands, creating, landed, bad>>
    BY <1>8 DEF Vanish, Interrupt, vars, procVars
  <2> QED
    BY <2>1 DEF BackInv, AllCollected, SyncsOver, Ready, Owes
<1> QED
  BY <1>1, <1>2, <1>3, <1>4, <1>5, <1>6, <1>7, <1>8 DEF Next, Clones

-----------------------------------------------------------------------------
(* What is left on the server, of a pool whose deletions do not fail.           *)

\* A sidecar whose place a replacement is to take has been deleted.
DeadGone == \A p \in Proc : pc[p] \in {"swap", "retire", "rebuilt"} => hand[p] \notin remote

\* The pool knows of sidecar i: it is a member, or was created for it and is in
\* somebody's hands, to be collected, or the seed the clones are made from.
Accounted(i) ==
    \/ i \in ids \cup orphans \cup landed
    \/ \E p \in Proc : fresh[p] = i
    \/ hand[Collector] = i
    \/ pc[Collector] = "collect" /\ i = Seed

Accounts == pc[Owner] # "destroyed" => \A i \in remote : Accounted(i)
Cleaned == pc[Owner] = "destroyed" => BackgroundDone /\ remote \subseteq orphans

LEMMA DeletionsWork ==
    ASSUME MaxUndeleted = 0, TypeOK, NEW S, NEW d
    PROVE  /\ Deleted(S) => remote' = remote \ S
           /\ Rebuilt(d) => /\ remote' = (remote \ {d}) \cup {made + 1}
                            /\ made < MaxMade /\ made' = made + 1
           /\ NotRebuilt(d) => remote' = remote \ {d}
<1>1. undeleted = 0
  BY DEF TypeOK
<1>2. \A T : Deleted(T) => remote' = remote \ T
  BY <1>1 DEF Deleted
<1>3. Rebuilt(d) => /\ remote' = (remote \ {d}) \cup {made + 1}
                    /\ made < MaxMade /\ made' = made + 1
  BY <1>1 DEF Rebuilt
<1>4. NotRebuilt(d) => remote' = remote \ {d}
  <2>1. ASSUME NEW kept \in SUBSET ({d} \cap remote),
               undeleted' = undeleted + 1 + Cardinality(kept), undeleted' <= MaxUndeleted
        PROVE  FALSE
    <3>1. Cardinality(kept) \in Nat
      BY <2>1, FailedCount DEF TypeOK
    <3> QED
      BY <1>1, <2>1, <3>1
  <2> QED
    BY <1>2, <2>1 DEF NotRebuilt
<1> QED
  BY <1>2, <1>3, <1>4

\* The next sidecar is in nobody's hands.
LEMMA NextApart ==
    ASSUME TypeOK, OwnInv, made < MaxMade
    PROVE  made + 1 \in Id /\ \A p \in Proc : hand[p] # made + 1 /\ fresh[p] # made + 1
<1>1. made + 1 \in Id /\ made + 1 \in Nat /\ made + 1 > made
  BY NextId, BoundsAssumption DEF TypeOK
<1>2. Unowned(made + 1)
  BY <1>1 DEF OwnInv, Unborn
<1> QED
  BY <1>1, <1>2 DEF Unowned, Has

\* What a step may add to the server is the next sidecar.
LEMMA DeadKept ==
    ASSUME TypeOK, OwnInv, DeadGone, NEW p \in Proc, Alone(p),
           remote' \subseteq remote \/ (made < MaxMade /\ remote' \subseteq remote \cup {made + 1}),
           pc'[p] \in {"swap", "retire", "rebuilt"} => hand'[p] \notin remote'
    PROVE  DeadGone'
<1>1. \A q \in Proc : hand[q] \notin remote => hand[q] \notin remote'
  BY NextApart
<1> QED
  BY <1>1 DEF DeadGone, Alone

LEMMA DeadNext ==
    ASSUME MaxUndeleted = 0, TypeInv, OwnInv, Idle, BackInv, DeadGone, [Next]_vars
    PROVE  DeadGone'
<1> USE DEF poolVars, runVars, createVars, remoteVars
<1>0. /\ Task \subseteq Proc /\ Existing \subseteq Proc /\ {Collector, Closer, Owner} \subseteq Proc
      /\ TypeOK
  BY DEF Proc, TypeInv
<1>1. ASSUME NEW t \in Task, Acts(t) PROVE DeadGone'
  <2>0. t \in Proc /\ Alone(t)
    BY <1>0, <1>1, TaskAlone
  <2>1. CASE Ask(t) \/ Refused(t) \/ FindsNone(t) \/ Wake(t) \/ GiveUp(t) \/ Acquire(t)
    <3>1. UNCHANGED remote /\ pc'[t] \notin {"swap", "retire", "rebuilt"}
      BY <1>0, <2>0, <2>1 DEF Ask, Refused, FindsNone, Wake, GiveUp, Acquire, Goes, TypeOK
    <3> QED
      BY <1>0, <2>0, <3>1, DeadKept
  <2>2. CASE Release(t) \/ Swap(t) \/ Retire(t)
    <3>1. UNCHANGED remote /\ pc'[t] \notin {"swap", "retire", "rebuilt"}
      BY <1>0, <2>0, <2>2 DEF Release, Swap, Retire, Goes, TypeOK
    <3> QED
      BY <1>0, <2>0, <3>1, DeadKept
  <2>3. CASE Rebuild(t)
    <3>1. remote' = (remote \ {hand[t]}) \cup {made + 1} /\ made < MaxMade /\ UNCHANGED hand
      BY <1>0, <2>3, DeletionsWork DEF Rebuild
    <3>2. hand[t] # made + 1
      BY <1>0, <2>0, <3>1, NextApart
    <3> QED
      BY <1>0, <2>0, <3>1, <3>2, DeadKept
  <2>4. CASE CannotRebuild(t)
    <3>1. remote' = remote \ {hand[t]} /\ UNCHANGED hand
      BY <1>0, <2>4, DeletionsWork DEF CannotRebuild
    <3> QED
      BY <1>0, <2>0, <3>1, DeadKept
  <2> QED
    BY <1>1, <2>1, <2>2, <2>3, <2>4 DEF Acts
<1>2. ASSUME NEW s \in Existing, Syncs(s) PROVE DeadGone'
  <2>0. s \in Proc /\ Alone(s)
    BY <1>0, <1>2, SyncAlone
  <2>1. CASE SyncStale(s)
    <3>1. remote' = (remote \ {hand[s]}) \cup {made + 1} /\ made < MaxMade /\ UNCHANGED hand
      BY <1>0, <2>1, DeletionsWork DEF SyncStale
    <3>2. hand[s] # made + 1
      BY <1>0, <2>0, <3>1, NextApart
    <3> QED
      BY <1>0, <2>0, <3>1, <3>2, DeadKept
  <2>2. CASE Install(s) \/ Synced(s)
    <3>1. UNCHANGED remote /\ pc'[s] \notin {"swap", "retire", "rebuilt"}
      BY <1>0, <2>0, <2>2 DEF Install, Synced, Goes, TypeOK
    <3> QED
      BY <1>0, <2>0, <3>1, DeadKept
  <2>3. CASE SyncFails(s)
    <3>1. remote' \subseteq remote
      BY <1>0, <2>3, DeletionsWork DEF SyncFails
    <3>2. pc'[s] \notin {"swap", "retire", "rebuilt"}
      BY <1>0, <2>0, <2>3 DEF SyncFails, Goes, TypeOK
    <3> QED
      BY <1>0, <2>0, <3>1, <3>2, DeadKept
  <2> QED
    BY <1>2, <2>1, <2>2, <2>3 DEF Syncs
<1>3. ASSUME NEW p \in Proc, Errands(p) PROVE DeadGone'
  <2>0. Alone(p) /\ ~Ready(p) /\ UNCHANGED pc
    BY <1>0, <1>3, ErrandAlone
  <2>1. CASE Tell(p) \/ Save(p) \/ Write(p)
    <3>1. UNCHANGED <<remote, hand>>
      BY <2>1 DEF Tell, Save, Write
    <3> QED
      BY <2>0, <3>1 DEF DeadGone
  <2>2. CASE Drop(p)
    <3>1. remote' = remote \ {hand[p]} /\ hand' = [hand EXCEPT ![p] = NoId]
      BY <1>0, <2>2, DeletionsWork DEF Drop
    <3>2. hand'[p] = NoId /\ NoId \notin remote
      BY <1>0, <3>1, NoIdApart DEF TypeOK
    <3> QED
      BY <1>0, <2>0, <3>1, <3>2, DeadKept
  <2> QED
    BY <1>3, <2>1, <2>2 DEF Errands
<1>4. CASE EndSync
  <2>1. Alone(Closer) /\ pc'[Closer] = "done" /\ UNCHANGED remote
    BY <1>0, <1>4, CloserAlone
  <2> QED
    BY <1>0, <2>1, DeadKept
<1>5. CASE CollectClone \/ CollectFailure \/ EndCollect
  <2>1. Alone(Collector)
    BY <1>0, <1>5, CollectorAlone
  <2>2. pc'[Collector] \in {"collect", "done"}
    BY <1>0, <1>5 DEF CollectClone, CollectFailure, EndCollect, Goes, TypeOK
  <2>3. remote' \subseteq remote
    BY <1>5 DEF CollectClone, CollectFailure, EndCollect, Deleted
  <2> QED
    BY <1>0, <2>1, <2>2, <2>3, DeadKept
<1>6. CASE Owns
  <2>1. Alone(Owner)
    BY <1>0, <1>6, OwnerAlone
  <2>2. CASE Destroy \/ Close \/ Kept
    <3>1. UNCHANGED remote /\ pc'[Owner] \notin {"swap", "retire", "rebuilt"}
      BY <1>0, <2>2 DEF Destroy, Close, Kept, Goes, TypeOK
    <3> QED
      BY <1>0, <2>1, <3>1, DeadKept
  <2>3. CASE DeleteMembers
    <3>1. remote' \subseteq remote
      BY <2>3 DEF DeleteMembers
    <3>2. PICK todo : Goes(Owner, "destroyed", todo)
      BY <2>3 DEF DeleteMembers
    <3>3. pc'[Owner] = "destroyed"
      BY <1>0, <3>2 DEF Goes, TypeOK
    <3> QED
      BY <1>0, <2>1, <3>1, <3>3, DeadKept
  <2> QED
    BY <1>6, <2>2, <2>3 DEF Owns
<1>7. CASE CloneLands \/ CloneFails
  <2>1. UNCHANGED <<pc, hand, errands, fresh>>
    BY <1>7, NoneMoves
  <2>2. remote' \subseteq remote \/ (made < MaxMade /\ remote' \subseteq remote \cup {made + 1})
    BY <1>7 DEF CloneLands, CloneFails
  <2>3. Alone(Owner) /\ (pc'[Owner] \in {"swap", "retire", "rebuilt"} => hand'[Owner] \notin remote')
    BY <1>0, <2>1, <2>2, NextApart DEF Alone, DeadGone
  <2> QED
    BY <1>0, <2>2, <2>3, DeadKept
<1>8. CASE Vanish \/ Interrupt \/ UNCHANGED vars
  <2>1. UNCHANGED <<pc, hand>> /\ remote' \subseteq remote
    BY <1>8 DEF Vanish, Interrupt, vars, procVars
  <2> QED
    BY <2>1 DEF DeadGone
<1> QED
  BY <1>1, <1>2, <1>3, <1>4, <1>5, <1>6, <1>7, <1>8 DEF Next, Clones

\* A step of a goroutine other than the collector.
LEMMA AccountsMove ==
    ASSUME Accounts, pc[Owner] # "destroyed", NEW p \in Proc, p # Collector, Alone(p),
           orphans \subseteq orphans', landed \subseteq landed',
           \A i \in remote' : i \in remote \cup orphans' \cup landed' \/ fresh'[p] = i,
           \A i \in remote' : i \in remote /\ i \in ids => i \in ids',
           fresh[p] \in remote' => fresh[p] \in ids' \/ fresh'[p] = fresh[p]
    PROVE  Accounts'
<1> SUFFICES ASSUME NEW i \in remote' PROVE Accounted(i)'
  BY DEF Accounts
<1>0. Collector \in Proc /\ hand'[Collector] = hand[Collector] /\ pc'[Collector] = pc[Collector]
  BY DEF Proc, Alone
<1>1. CASE i \in orphans' \cup landed' \/ fresh'[p] = i
  BY <1>1 DEF Accounted
<1>2. CASE i \in remote
  <2>1. Accounted(i)
    BY <1>2 DEF Accounts
  <2>2. CASE i \in ids \cup orphans \cup landed
    BY <1>2, <2>2 DEF Accounted
  <2>3. ASSUME NEW q \in Proc, fresh[q] = i PROVE Accounted(i)'
    <3>1. CASE q = p
      BY <2>3, <3>1 DEF Accounted
    <3>2. CASE q # p
      BY <2>3, <3>2 DEF Accounted, Alone
    <3> QED
      BY <3>1, <3>2
  <2>4. CASE hand[Collector] = i \/ (pc[Collector] = "collect" /\ i = Seed)
    BY <1>0, <2>4 DEF Accounted
  <2> QED
    BY <2>1, <2>2, <2>3, <2>4 DEF Accounted
<1> QED
  BY <1>1, <1>2

LEMMA AccountsNext ==
    ASSUME MaxUndeleted = 0, TypeInv, OwnInv, BackInv, DeadGone, Accounts,
           pc[Owner] # "destroyed", [Next]_vars
    PROVE  Accounts'
<1> USE DEF poolVars, runVars, createVars, remoteVars
<1>0. /\ Task \subseteq Proc /\ Existing \subseteq Proc /\ {Collector, Closer, Owner} \subseteq Proc
      /\ TypeOK /\ Collector \notin Task \cup Existing
  BY ProcessAssumption DEF Proc, TypeInv
<1>1. ASSUME NEW t \in Task, Acts(t) PROVE Accounts'
  <2>0. t \in Proc /\ t # Collector /\ Alone(t) /\ UNCHANGED <<orphans, landed>>
    BY <1>0, <1>1, TaskAlone
  <2>1. CASE Ask(t) \/ Refused(t) \/ FindsNone(t) \/ Wake(t) \/ GiveUp(t)
    <3>1. UNCHANGED <<remote, ids, fresh>>
      BY <2>1 DEF Ask, Refused, FindsNone, Wake, GiveUp
    <3> QED
      BY <2>0, <3>1, AccountsMove
  <2>2. CASE Acquire(t) \/ Release(t)
    <3>1. UNCHANGED <<remote, ids, fresh>>
      BY <2>2 DEF Acquire, Release
    <3> QED
      BY <2>0, <3>1, AccountsMove
  <2>3. CASE Rebuild(t)
    <3>1. remote' = (remote \ {hand[t]}) \cup {made + 1} /\ UNCHANGED ids
          /\ fresh' = [fresh EXCEPT ![t] = made + 1]
      BY <1>0, <2>3, DeletionsWork DEF Rebuild
    <3>2. fresh'[t] = made + 1
      BY <1>0, <2>0, <3>1 DEF TypeOK
    <3>3. fresh[t] = NoId /\ remote' \subseteq Id
      BY <1>0, <2>0, <2>3, RemoteTypes DEF Rebuild, TypeInv, FreshMade
    <3> QED
      BY <2>0, <3>1, <3>2, <3>3, NoIdApart, AccountsMove
  <2>4. CASE CannotRebuild(t)
    <3>1. remote' \subseteq remote /\ UNCHANGED <<ids, fresh>>
      BY <1>0, <2>4, DeletionsWork DEF CannotRebuild
    <3> QED
      BY <2>0, <3>1, AccountsMove
  <2>5. CASE Swap(t)
    <3>1. UNCHANGED remote /\ ids' = InPlaceOf(ids, hand[t], fresh[t]) /\ hand[t] \notin remote
      BY <2>0, <2>5 DEF Swap, DeadGone
    <3> QED
      BY <2>0, <3>1, AccountsMove DEF InPlaceOf
  <2>6. CASE Retire(t)
    <3>1. UNCHANGED <<remote, fresh>> /\ ids' = ids \ {hand[t]} /\ hand[t] \notin remote
      BY <2>0, <2>6 DEF Retire, DeadGone
    <3> QED
      BY <2>0, <3>1, AccountsMove
  <2> QED
    BY <1>1, <2>1, <2>2, <2>3, <2>4, <2>5, <2>6 DEF Acts
<1>2. ASSUME NEW s \in Existing, Syncs(s) PROVE Accounts'
  <2>0. s \in Proc /\ s # Collector /\ Alone(s) /\ UNCHANGED <<orphans, landed>>
    BY <1>0, <1>2, SyncAlone
  <2>1. CASE SyncStale(s)
    <3>1. remote' = (remote \ {hand[s]}) \cup {made + 1} /\ UNCHANGED ids
          /\ fresh' = [fresh EXCEPT ![s] = made + 1]
      BY <1>0, <2>1, DeletionsWork DEF SyncStale
    <3>2. fresh'[s] = made + 1
      BY <1>0, <2>0, <3>1 DEF TypeOK
    <3>3. fresh[s] = NoId /\ remote' \subseteq Id
      BY <1>0, <2>0, <2>1, RemoteTypes DEF SyncStale, TypeInv, FreshMade
    <3> QED
      BY <2>0, <3>1, <3>2, <3>3, NoIdApart, AccountsMove
  <2>2. CASE Install(s)
    <3>1. UNCHANGED remote /\ ids' = InPlaceOf(ids, hand[s], fresh[s]) /\ hand[s] \notin remote
      BY <2>0, <2>2 DEF Install, DeadGone
    <3> QED
      BY <2>0, <3>1, AccountsMove DEF InPlaceOf
  <2>3. CASE Synced(s)
    <3>1. UNCHANGED <<remote, ids, fresh>>
      BY <2>3 DEF Synced
    <3> QED
      BY <2>0, <3>1, AccountsMove
  <2>4. CASE SyncFails(s)
    <3>1. remote' \subseteq remote /\ UNCHANGED <<ids, fresh>>
      BY <1>0, <2>4, DeletionsWork DEF SyncFails
    <3> QED
      BY <2>0, <3>1, AccountsMove
  <2> QED
    BY <1>2, <2>1, <2>2, <2>3, <2>4 DEF Syncs
<1>3. ASSUME NEW p \in Proc, Errands(p) PROVE Accounts'
  <2>0. Alone(p) /\ UNCHANGED <<orphans, landed, ids, fresh, pc>>
    BY <1>0, <1>3, ErrandAlone
  <2>1. CASE Tell(p) \/ Save(p) \/ Write(p)
    <3>1. UNCHANGED <<remote, hand>>
      BY <2>1 DEF Tell, Save, Write
    <3> QED
      BY <2>0, <3>1 DEF Accounts, Accounted
  <2>2. CASE Drop(p)
    <3>1. remote' = remote \ {hand[p]}
      BY <1>0, <2>2, DeletionsWork DEF Drop
    <3>2. CASE p = Collector
      BY <2>0, <3>1, <3>2 DEF Accounts, Accounted
    <3>3. CASE p # Collector
      BY <2>0, <3>1, <3>3, AccountsMove
    <3> QED
      BY <3>2, <3>3
  <2> QED
    BY <1>3, <2>1, <2>2 DEF Errands
<1>4. CASE EndSync
  <2>1. Alone(Closer) /\ UNCHANGED <<orphans, landed, remote, ids, fresh>>
    BY <1>0, <1>4, CloserAlone
  <2> QED
    BY <1>0, <2>1, ThreeApart, AccountsMove
<1>5. CASE CollectClone \/ CollectFailure \/ EndCollect
  <2>1. Ready(Collector) /\ UNCHANGED <<orphans, fresh>> /\ pc[Collector] = "collect"
    BY <1>0, <1>5, CollectorAlone DEF CollectClone, CollectFailure, EndCollect
  <2>2. \A i \in remote : hand[Collector] # i
    BY <1>0, <2>1, NoIdApart DEF BackInv, Owes, Ready, TypeOK
  <2>3. \A i \in remote : i \in ids \cup orphans \cup landed \cup {Seed} \/ \E p \in Proc : fresh[p] = i
    BY <2>2 DEF Accounts, Accounted
  <2>4. CASE CollectClone
    <3>1. PICK id \in landed :
            /\ landed' = landed \ {id} /\ ids \subseteq ids'
            /\ hand' = [hand EXCEPT ![Collector] = id] \/ id \in ids'
      BY <2>4 DEF CollectClone
    <3>2. PICK todo : Goes(Collector, "collect", todo)
      BY <2>4 DEF CollectClone
    <3>3. pc'[Collector] = "collect" /\ UNCHANGED remote
      BY <1>0, <2>4, <3>2 DEF CollectClone, Goes, TypeOK
    <3>4. hand'[Collector] = id \/ id \in ids'
      BY <1>0, <3>1 DEF TypeOK
    <3> QED
      BY <2>1, <2>3, <3>1, <3>3, <3>4 DEF Accounts, Accounted
  <2>5. CASE CollectFailure
    <3>1. \/ UNCHANGED <<landed, remote>>
          \/ \E id \in landed : landed' = landed \ {id} /\ remote' = remote \ {id}
      BY <1>0, <2>5, DeletionsWork DEF CollectFailure
    <3>2. pc'[Collector] = "collect" /\ UNCHANGED ids
      BY <1>0, <2>5 DEF CollectFailure, Goes, TypeOK
    <3>3. \A i \in remote' : i \in remote /\ (i \in landed => i \in landed')
      BY <3>1
    <3> QED
      BY <2>1, <2>3, <3>2, <3>3 DEF Accounts, Accounted
  <2>6. CASE EndCollect
    <3>1. remote' = remote \ {Seed} /\ UNCHANGED <<ids, landed>>
      BY <1>0, <2>6, DeletionsWork DEF EndCollect
    <3> QED
      BY <2>1, <2>3, <3>1 DEF Accounts, Accounted
  <2> QED
    BY <1>5, <2>4, <2>5, <2>6
<1>6. CASE Owns
  <2>0. Alone(Owner) /\ UNCHANGED <<orphans, landed, fresh>> /\ Owner # Collector
    BY <1>0, <1>6, OwnerAlone, ThreeApart
  <2>1. CASE Destroy \/ Close \/ Kept
    <3>1. UNCHANGED <<remote, ids>>
      BY <2>1 DEF Destroy, Close, Kept
    <3> QED
      BY <1>0, <2>0, <3>1, AccountsMove
  <2>2. CASE DeleteMembers
    <3>1. PICK todo : Goes(Owner, "destroyed", todo)
      BY <2>2 DEF DeleteMembers
    <3>2. pc'[Owner] = "destroyed"
      BY <1>0, <3>1 DEF Goes, TypeOK
    <3> QED
      BY <3>2 DEF Accounts
  <2> QED
    BY <1>6, <2>1, <2>2 DEF Owns
<1>7. CASE CloneLands \/ CloneFails
  <2>1. UNCHANGED <<pc, hand, errands, fresh, ids>>
    BY <1>7, NoneMoves
  <2>2. orphans \subseteq orphans' /\ landed \subseteq landed'
        /\ \A i \in remote' : i \in remote \/ i \in orphans' \cup landed'
    BY <1>7 DEF CloneLands, CloneFails
  <2> QED
    BY <2>1, <2>2 DEF Accounts, Accounted
<1>8. CASE Vanish \/ Interrupt \/ UNCHANGED vars
  <2>1. UNCHANGED <<pc, hand, fresh, ids, orphans, landed>> /\ remote' \subseteq remote
    BY <1>8 DEF Vanish, Interrupt, vars, procVars
  <2> QED
    BY <2>1 DEF Accounts, Accounted
<1> QED
  BY <1>1, <1>2, <1>3, <1>4, <1>5, <1>6, <1>7, <1>8 DEF Next, Clones

\* Once the pool is destroyed nothing comes back.
LEMMA CleanedStays ==
    ASSUME TypeOK, ClosedInv, BackInv, Cleaned, pc[Owner] = "destroyed", [Next]_vars
    PROVE  Cleaned'
<1> USE DEF poolVars, runVars, createVars, remoteVars
<1>0. /\ Task \subseteq Proc /\ Existing \subseteq Proc /\ {Collector, Closer, Owner} \subseteq Proc
      /\ Task \cap {Collector, Closer, Owner} = {}
  BY ProcessAssumption DEF Proc
<1>1. /\ closed /\ BackgroundDone /\ remote \subseteq orphans /\ AllCollected
      /\ pc[Collector] = "done" /\ pc[Closer] = "done" /\ SyncsOver
  BY DEF ClosedInv, Cleaned, BackgroundDone, BackInv
<1>a. ASSUME NEW p \in Proc \ {Collector, Closer}, Alone(p), remote' \subseteq remote, UNCHANGED orphans
      PROVE  Cleaned'
  BY <1>0, <1>1, <1>a DEF Cleaned, BackgroundDone, Alone, Ready
<1>2. ASSUME NEW t \in Task, Acts(t) PROVE Cleaned'
  <2>1. remote' \subseteq remote
    <3>1. CASE Ask(t) \/ Refused(t) \/ FindsNone(t) \/ Wake(t) \/ GiveUp(t) \/ Acquire(t)
      BY <3>1 DEF Ask, Refused, FindsNone, Wake, GiveUp, Acquire
    <3>2. CASE Release(t) \/ Rebuild(t) \/ CannotRebuild(t) \/ Swap(t) \/ Retire(t)
      BY <1>1, <3>2 DEF Release, Rebuild, CannotRebuild, Swap, Retire
    <3> QED
      BY <1>2, <3>1, <3>2 DEF Acts
  <2> QED
    BY <1>0, <1>2, <1>a, <2>1, TaskAlone
<1>3. ASSUME NEW s \in Existing, Syncs(s) PROVE FALSE
  BY <1>1, <1>3 DEF SyncsOver, Syncs, SyncStale, Install, Synced, SyncFails
<1>4. ASSUME NEW p \in Proc, Errands(p) PROVE Cleaned'
  <2>1. Alone(p) /\ UNCHANGED orphans /\ p # Collector /\ p # Closer
    BY <1>1, <1>4, ErrandAlone DEF BackgroundDone
  <2>2. remote' \subseteq remote
    BY <1>4 DEF Errands, Tell, Save, Write, Drop, Deleted
  <2> QED
    BY <1>a, <2>1, <2>2
<1>5. ~EndSync
  BY <1>1 DEF EndSync
<1>6. ~Clones
  BY <1>1 DEF Clones, CloneLands, CloneFails, CollectClone, CollectFailure, EndCollect, AllCollected
<1>7. ~Owns
  BY DEF Owns, Destroy, DeleteMembers, Close, Kept
<1>8. CASE Vanish \/ Interrupt \/ UNCHANGED vars
  <2>1. UNCHANGED <<pc, errands, orphans>> /\ remote' \subseteq remote
    BY <1>8 DEF Vanish, Interrupt, vars, procVars
  <2> QED
    BY <1>1, <2>1 DEF Cleaned, BackgroundDone, Ready
<1> QED
  BY <1>2, <1>3, <1>4, <1>5, <1>6, <1>7, <1>8 DEF Next

\* When Destroy deletes the members, everything else is done with.
LEMMA DestroyCleans ==
    ASSUME MaxUndeleted = 0, CanTimeOut = FALSE, TypeInv, ClosedInv, BackInv, Accounts,
           DeleteMembers
    PROVE  Cleaned'
<1>0. {Collector, Closer, Owner} \subseteq Proc /\ TypeOK
  BY DEF Proc, TypeInv
<1>1. /\ closed /\ BackgroundDone /\ pc[Owner] = "closing"
      /\ pc[Collector] = "done" /\ Ready(Collector) /\ pc[Closer] = "done"
      /\ SyncsOver /\ AllCollected
  BY DEF DeleteMembers, MayDelete, ClosedInv, BackInv, BackgroundDone
<1>2. hand[Collector] = NoId
  BY <1>1 DEF BackInv, Owes, Ready
<1>3. \A p \in Proc : fresh[p] = NoId
  <2>1. \A p \in Proc : pc[p] \notin {"swap", "rebuilt"} => fresh[p] = NoId
    BY DEF TypeInv, FreshMade
  <2> QED
    BY <1>1, <2>1 DEF ClosedInv, SyncsOver, Proc
<1>4. remote \subseteq ids \cup orphans
  BY <1>1, <1>2, <1>3, NoIdApart, <1>0 DEF Accounts, Accounted, AllCollected, TypeOK
<1>5. remote' = remote \ ids /\ UNCHANGED orphans
  <2>1. PICK failed \in SUBSET (ids \cap remote) :
          /\ undeleted' = undeleted + Cardinality(failed) /\ undeleted' <= MaxUndeleted
          /\ remote' = remote \ (ids \ failed)
    BY DEF DeleteMembers
  <2>2. IsFiniteSet(failed) /\ Cardinality(failed) \in Nat /\ undeleted = 0
    BY <1>0, IdFinite, FS_Subset, FS_CardinalityType DEF TypeOK
  <2>3. failed = {}
    BY <2>1, <2>2, EmptySets
  <2> QED
    BY <2>1, <2>3 DEF DeleteMembers
<1>6. BackgroundDone'
  <2>1. Alone(Owner)
    BY <1>0, OwnerAlone DEF Owns
  <2> QED
    BY <1>0, <1>1, <2>1, ThreeApart DEF BackgroundDone, Ready, Alone
<1> QED
  BY <1>4, <1>5, <1>6 DEF Cleaned

\* Only DeleteMembers makes the pool a destroyed one, and it stays one.
LEMMA OwnerStays ==
    ASSUME TypeOK, [Next]_vars, ~DeleteMembers
    PROVE  pc'[Owner] = "destroyed" <=> pc[Owner] = "destroyed"
<1>0. /\ Owner \in Proc /\ Owner \notin Task \cup Existing /\ Task \subseteq Proc /\ Existing \subseteq Proc
      /\ Owner # Closer /\ Owner # Collector
  BY ProcessAssumption, ThreeApart DEF Proc
<1>1. ASSUME NEW t \in Task, Acts(t) PROVE pc'[Owner] = pc[Owner]
  BY <1>0, <1>1, TaskAlone DEF Alone
<1>2. ASSUME NEW s \in Existing, Syncs(s) PROVE pc'[Owner] = pc[Owner]
  BY <1>0, <1>2, SyncAlone DEF Alone
<1>3. ASSUME NEW p \in Proc, Errands(p) PROVE pc'[Owner] = pc[Owner]
  BY <1>3, ErrandAlone
<1>4. CASE EndSync
  BY <1>0, <1>4, CloserAlone DEF Alone
<1>5. CASE CollectClone \/ CollectFailure \/ EndCollect
  BY <1>0, <1>5, CollectorAlone DEF Alone
<1>6. CASE Destroy \/ Close \/ Kept
  BY <1>0, <1>6 DEF Destroy, Close, Kept, Goes, TypeOK
<1>7. CASE CloneLands \/ CloneFails \/ Vanish \/ Interrupt \/ UNCHANGED vars
  BY <1>7, NoneMoves
<1> QED
  BY <1>1, <1>2, <1>3, <1>4, <1>5, <1>6, <1>7 DEF Next, Clones, Owns

LEMMA CleanedNext ==
    ASSUME MaxUndeleted = 0, CanTimeOut = FALSE, TypeInv, OwnInv, ClosedInv, BackInv,
           DeadGone, Accounts, Cleaned, [Next]_vars
    PROVE  Accounts' /\ Cleaned'
<1>0. TypeOK /\ {Collector, Closer, Owner} \subseteq Proc /\ Task \subseteq Proc /\ Existing \subseteq Proc
  BY DEF Proc, TypeInv
<1>1. CASE pc[Owner] = "destroyed"
  <2>1. pc'[Owner] = "destroyed"
    BY <1>0, <1>1, OwnerStays DEF DeleteMembers
  <2>2. Cleaned'
    BY <1>0, <1>1, CleanedStays
  <2> QED
    BY <2>1, <2>2 DEF Accounts
<1>2. CASE pc[Owner] # "destroyed"
  <2>1. CASE DeleteMembers
    BY <1>2, <2>1, AccountsNext, DestroyCleans
  <2>2. CASE ~DeleteMembers
    <3>1. pc'[Owner] # "destroyed"
      BY <1>0, <1>2, <2>2, OwnerStays
    <3> QED
      BY <1>2, <3>1, AccountsNext DEF Cleaned
  <2> QED
    BY <2>1, <2>2
<1> QED
  BY <1>1, <1>2

\* When Destroy has returned and its wait for the background work did not run out, no
\* sidecar the pool learnt of is left, the clones and replacements that came while it
\* waited included; what stays is a creation that was cancelled and carried out all
\* the same (DestroyLeavesNone of SidecarPool).
THEOREM DestroyDeletesWhatItLearnt ==
    ASSUME MaxUndeleted = 0, CanTimeOut = FALSE
    PROVE  Spec => []DestroyLeavesNone
<1> DEFINE Inv == /\ TypeInv /\ OwnInv /\ Idle /\ ClosedInv /\ BackInv /\ DeadGone
                  /\ Accounts /\ Cleaned
<1>1. Init => Inv
  <2> SUFFICES ASSUME Init PROVE Inv
    OBVIOUS
  <2>1. TypeInv /\ OwnInv /\ Idle
    BY PoolInit DEF PoolInv
  <2>2. \A p \in Proc : pc[p] = IF p \in Task THEN "new"
                ELSE IF p \in Existing THEN "sync"
                ELSE IF p = Collector THEN (IF Cloning THEN "collect" ELSE "done")
                ELSE IF p = Closer THEN (IF Existing # {} THEN "await" ELSE "done")
                ELSE "open"
    BY DEF Init
  <2>3. /\ Task \subseteq Proc /\ Existing \subseteq Proc /\ {Collector, Closer, Owner} \subseteq Proc
        /\ {Collector, Closer, Owner} \cap (Task \cup Existing) = {}
    BY ProcessAssumption DEF Proc
  <2>4. /\ pc[Owner] = "open"
        /\ pc[Collector] = IF Cloning THEN "collect" ELSE "done"
        /\ pc[Closer] = IF Existing # {} THEN "await" ELSE "done"
    BY <2>2, <2>3, ThreeApart
  <2>5. ClosedInv
    BY <2>2, <2>3, <2>4 DEF Init, ClosedInv
  <2>6. DeadGone
    BY <2>2 DEF DeadGone
  <2>7. ~Cloning => AllCollected
    BY DEF Init, AllCollected
  <2>8. hand[Collector] = NoId
    BY <2>3 DEF Init
  <2>9. BackInv
    BY <2>4, <2>7, <2>8 DEF BackInv, SyncsOver
  <2>10. Accounts
    <3> SUFFICES ASSUME NEW i \in remote PROVE Accounted(i)
      BY DEF Accounts
    <3>1. NewCount \in Nat /\ made = (IF NewCount > 0 THEN 1 ELSE 0)
      BY Counts DEF Init
    <3>2. i \in Existing \/ (i = 1 /\ NewCount > 0)
      BY <3>1 DEF Init
    <3>3. CASE i \in Existing \/ NewCount = 1
      BY <3>2, <3>3 DEF Init, Accounted, Seed
    <3>4. CASE i = 1 /\ NewCount > 1
      BY <2>4, <3>4 DEF Accounted, Seed, Cloning
    <3> QED
      BY <3>1, <3>2, <3>3, <3>4
  <2>11. Cleaned
    BY <2>4 DEF Cleaned
  <2> QED
    BY <2>1, <2>5, <2>6, <2>9, <2>10, <2>11
<1>2. Inv /\ [Next]_vars => Inv'
  BY TypesNext, FreshNext, OwnNext, IdleNext, ClosedNext, BackNext, DeadNext, CleanedNext DEF TypeInv
<1>3. Inv => DestroyLeavesNone
  BY DEF Cleaned, DestroyLeavesNone
<1> QED
  BY <1>1, <1>2, <1>3, PTL DEF Spec
==============================================================================
