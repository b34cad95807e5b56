--------------------------- MODULE SessionProofs ---------------------------
(***************************************************************************)
(* Theorems about Session, for every number of files, sessions, rounds,    *)
(* edits, handlers and crashes.                                            *)
(***************************************************************************)
EXTENDS Session, WellFoundedInduction, FiniteSetTheorems, TLAPS

-----------------------------------------------------------------------------
(***************************************************************************)
(* Types, and where a loop is.                                             *)
(***************************************************************************)

(* The inductive invariant. *)

\* A round is open while the loop is inside runRound.
InRound == {"review", "fix", "verify", "save", "apply", "record"}
RoundOpen == \A s \in Sid : loop[s].pc \in InRound => Len(sess[s].rounds) > 0

\* The loop has looked at the tree once it is past its first look.
Looked == InRound \cup {"top", "paused", "adopt"}
HasLooked == \A s \in Sid : loop[s].pc \in Looked => loop[s].expected \in Tree

\* A handler serves a session that was started, and restores one that has a
\* restore point.
CallsKnown ==
    \A c \in Call : calls[c].op # "idle" =>
        /\ calls[c].sid \in 1..started
        /\ calls[c].op \in {"restore", "restoring"} => refs[calls[c].sid] \in Tree

\* A session that says it has a restore point has one.
PointSaved == \A s \in Sid : sess[s].restore # "none" => refs[s] \in Tree

TypeInv == TypeOK /\ RoundOpen /\ HasLooked /\ CallsKnown /\ PointSaved

-----------------------------------------------------------------------------
(* Lemmas on the operators. *)

LEMMA NextNumberType ==
    ASSUME sess \in [Sid -> Session], NEW s \in Sid
    PROVE  NextNumber(s) \in Nat
<1> DEFINE R == sess[s].rounds
           I == {i \in DOMAIN R : R[i].state # "superseded"}
<1>1. R \in Seq(Round)
  BY DEF Session
<1>2. IsFiniteSet(1..Len(R))
  BY <1>1, FS_Interval
<1>3. I \subseteq 1..Len(R)
  BY <1>1
<1>4. IsFiniteSet(I) /\ Cardinality(I) \in Nat
  BY <1>2, <1>3, FS_Subset, FS_CardinalityType
<1> QED
  BY <1>4 DEF NextNumber

\* Closing or changing the last round keeps the rounds a sequence of rounds, as
\* long as it was.
LEMMA EndRoundType ==
    ASSUME sess \in [Sid -> Session], NEW s \in Sid, Len(sess[s].rounds) > 0,
           NEW state \in RoundStates, NEW fix \in FixStates
    PROVE  /\ EndRound(s, state, fix) \in Seq(Round)
           /\ Len(EndRound(s, state, fix)) = Len(sess[s].rounds)
<1> DEFINE R == sess[s].rounds
<1>1. R \in Seq(Round) /\ Len(R) \in 1..Len(R)
  BY DEF Session
<1>2. R[Len(R)] \in Round
  BY <1>1
<1>3. [number |-> R[Len(R)].number, state |-> state, fix |-> fix] \in Round
  BY <1>2 DEF Round
<1> QED
  BY <1>1, <1>3 DEF EndRound, Last

LEMMA PatchedType ==
    ASSUME TypeOK, NEW s \in Sid, Len(sess[s].rounds) > 0, NEW Q \in SUBSET Path
    PROVE  Patched(s, Q) \in Tree
<1> DEFINE R == sess[s].rounds
<1>1. R \in Seq(Round) /\ Len(R) \in 1..Len(R)
  BY DEF TypeOK, Session
<1>2. R[Len(R)] \in Round
  BY <1>1
<1>2a. Last(s).number \in Nat
  BY <1>2 DEF Last, Round
<1>3. ASSUME NEW p \in Path
      PROVE  /\ tree[p] \in File
             /\ [user |-> tree[p].user, fix |-> tree[p].fix \cup {<<s, Last(s).number>>}] \in File
  BY <1>2a DEF TypeOK, Tree, File, Fix
<1> QED
  BY <1>3 DEF Patched, Tree

LEMMA PutBackType ==
    ASSUME TypeOK, NEW s \in Sid, refs[s] \in Tree, NEW Q \in SUBSET Path
    PROVE  PutBack(s, Q) \in Tree
BY DEF TypeOK, Tree, PutBack
-----------------------------------------------------------------------------
LEMMA NewType ==
    NewSession \in Session /\ NewLoop \in Loop /\ NewHistory \in History /\ Idle \in Served
BY BoundsAssumption
   DEF NewSession, Session, SessionStates, NewLoop, Loop, Positions, NewHistory, History,
       Idle, Served, Ops

LEMMA InitTypeInv == Init => TypeInv
<1> SUFFICES ASSUME Init PROVE TypeInv
  OBVIOUS
<1> USE BoundsAssumption
<1>1. EmptyTree \in Tree
  BY DEF EmptyTree, Tree, File
<1>2. NewSession \in Session /\ NewLoop \in Loop /\ NewHistory \in History /\ Idle \in Served
  BY NewType
<1>3. TypeOK
  <2>1. /\ tree \in Tree
        /\ refs \in [Sid -> Tree \cup {NoTree}]
        /\ sess \in [Sid -> Session]
        /\ loop \in [Sid -> Loop]
        /\ calls \in [Call -> Served]
        /\ hist \in [Sid -> History]
    BY <1>1, <1>2 DEF Init
  <2>2. edits \in 0..MaxEdits /\ crashes \in 0..MaxCrashes /\ spent \in 0..MaxCalls
    BY DEF Init
  <2>3. started \in 0..NSid /\ store \in SUBSET (1..started)
    BY DEF Init
  <2>4. stopping \in BOOLEAN
    BY DEF Init
  <2> QED
    BY <2>1, <2>2, <2>3, <2>4 DEF TypeOK
<1>4. RoundOpen /\ HasLooked /\ CallsKnown /\ PointSaved
  BY DEF Init, RoundOpen, HasLooked, CallsKnown, PointSaved, NewSession, NewLoop, Idle, InRound, Looked
<1> QED
  BY <1>3, <1>4 DEF TypeInv

\* What a step of the loop of session s does, to the session, its loop and its
\* history, and all that it may do to the rest.
LoopMoves(s, se, lo, hi) ==
    /\ sess' = [sess EXCEPT ![s] = se]
    /\ loop' = [loop EXCEPT ![s] = lo]
    /\ hist' = [hist EXCEPT ![s] = hi]
    /\ tree' \in Tree
    /\ refs' \in [Sid -> Tree \cup {NoTree}]
    /\ \A t \in Sid : refs[t] \in Tree => refs'[t] \in Tree
    /\ UNCHANGED outside
    /\ lo.pc \in InRound => Len(se.rounds) > 0
    /\ lo.pc \in Looked => lo.expected \in Tree
    /\ se.restore = sess[s].restore \/ refs'[s] \in Tree

LEMMA LoopUpdate ==
    ASSUME TypeInv, NEW s \in Sid, NEW se \in Session, NEW lo \in Loop, NEW hi \in History,
           LoopMoves(s, se, lo, hi)
    PROVE  TypeInv'
<1> USE DEF outside, LoopMoves
<1>1. TypeOK'
  BY DEF TypeInv, TypeOK
<1>2. RoundOpen'
  BY DEF TypeInv, TypeOK, RoundOpen
<1>3. HasLooked'
  BY DEF TypeInv, TypeOK, HasLooked
<1>4. CallsKnown'
  <2> SUFFICES ASSUME NEW c \in Call, calls[c].op # "idle"
               PROVE  /\ calls[c].sid \in 1..started
                      /\ calls[c].op \in {"restore", "restoring"} => refs'[calls[c].sid] \in Tree
    BY DEF CallsKnown
  <2>1. calls[c].sid \in 1..started /\ 1..started \subseteq Sid
    BY BoundsAssumption DEF TypeInv, TypeOK, CallsKnown, Sid
  <2> QED
    BY <2>1 DEF TypeInv, CallsKnown
<1>5. PointSaved'
  BY DEF TypeInv, TypeOK, PointSaved
<1> QED
  BY <1>1, <1>2, <1>3, <1>4, <1>5 DEF TypeInv

LEMMA LoopTypeInv ==
    ASSUME TypeInv, NEW s \in Sid, LoopStep(s)
    PROVE  TypeInv'
<1>a. /\ sess[s] \in Session /\ loop[s] \in Loop /\ hist[s] \in History
      /\ sess = [sess EXCEPT ![s] = sess[s]] /\ hist = [hist EXCEPT ![s] = hist[s]]
      /\ tree \in Tree /\ refs \in [Sid -> Tree \cup {NoTree}]
  BY DEF TypeInv, TypeOK
<1>b. loop[s].pc \in InRound => Len(sess[s].rounds) > 0
  BY DEF TypeInv, RoundOpen
<1>c. loop[s].pc \in Looked => loop[s].expected \in Tree
  BY DEF TypeInv, HasLooked
<1>d. ASSUME Len(sess[s].rounds) > 0, NEW state \in RoundStates, NEW fix \in FixStates
      PROVE  /\ EndRound(s, state, fix) \in Seq(Round)
             /\ Len(EndRound(s, state, fix)) > 0
  BY <1>d, EndRoundType DEF TypeInv, TypeOK
<1> USE DEF InRound, Looked
<1>1. CASE FirstLook(s)
  <2> DEFINE lo == [loop[s] EXCEPT !.pc = "top", !.expected = tree]
  <2>1. lo \in Loop
    BY <1>a DEF Loop, Positions
  <2>2. loop' = [loop EXCEPT ![s] = lo]
    BY <1>1, <1>a DEF FirstLook, TypeInv, TypeOK
  <2>3. /\ lo.pc \in InRound => Len(sess[s].rounds) > 0
        /\ lo.pc \in Looked => lo.expected \in Tree
    BY <1>1, <1>a, <1>b, <1>c DEF FirstLook, Session, Loop
  <2>m. LoopMoves(s, sess[s], lo, hist[s])
    <3> HIDE DEF lo
    <3> QED
      BY <1>1, <1>a, <2>1, <2>2, <2>3 DEF FirstLook, LoopMoves
  <2> HIDE DEF lo
  <2> QED
    BY <1>a, <2>1, <2>2, <2>3, <2>m, LoopUpdate
<1>2. CASE RoundsSpent(s)
  <2> DEFINE lo == [loop[s] EXCEPT !.pc = "settle"]
  <2>1. lo \in Loop
    BY <1>a DEF Loop, Positions
  <2>2. loop' = [loop EXCEPT ![s] = lo]
    BY <1>2, <1>a DEF RoundsSpent, Stops, TypeInv, TypeOK
  <2>3. /\ lo.pc \in InRound => Len(sess[s].rounds) > 0
        /\ lo.pc \in Looked => lo.expected \in Tree
    BY <1>2, <1>a, <1>b, <1>c DEF RoundsSpent, Session, Loop
  <2>m. LoopMoves(s, sess[s], lo, hist[s])
    <3> HIDE DEF lo
    <3> QED
      BY <1>2, <1>a, <2>1, <2>2, <2>3 DEF RoundsSpent, LoopMoves
  <2> HIDE DEF lo
  <2> QED
    BY <1>a, <2>1, <2>2, <2>3, <2>m, LoopUpdate
<1>3. CASE PauseBetweenRounds(s)
  <2> DEFINE se == [sess[s] EXCEPT !.state = "paused"]
  <2> DEFINE lo == [loop[s] EXCEPT !.pc = "paused"]
  <2> DEFINE hi == [hist[s] EXCEPT !.asked = FALSE]
  <2>1. se \in Session /\ lo \in Loop /\ hi \in History
    BY <1>a DEF Loop, Positions, Session, SessionStates, History
  <2>2. /\ sess' = [sess EXCEPT ![s] = se]
        /\ loop' = [loop EXCEPT ![s] = lo]
        /\ hist' = [hist EXCEPT ![s] = hi]
    BY <1>3, <1>a DEF PauseBetweenRounds, TypeInv, TypeOK
  <2>3. /\ lo.pc \in InRound => Len(se.rounds) > 0
        /\ lo.pc \in Looked => lo.expected \in Tree
        /\ se.restore = sess[s].restore \/ refs'[s] \in Tree
    BY <1>3, <1>a, <1>b, <1>c DEF PauseBetweenRounds, Session, Loop
  <2>m. LoopMoves(s, se, lo, hi)
    <3> HIDE DEF lo, se, hi
    <3> QED
      BY <1>3, <1>a, <2>1, <2>2, <2>3 DEF PauseBetweenRounds, LoopMoves
  <2> HIDE DEF lo, se, hi
  <2> QED
    BY <1>a, <2>1, <2>2, <2>3, <2>m, LoopUpdate
<1>4. CASE BeginRound(s)
  <2> DEFINE new == [number |-> NextNumber(s), state |-> "reviewing", fix |-> "none"]
  <2>1. new \in Round
    BY <1>a, NextNumberType DEF TypeInv, TypeOK, Round, RoundStates, FixStates
  <2>2. Append(sess[s].rounds, new) \in Seq(Round) /\ Len(Append(sess[s].rounds, new)) > 0
    BY <1>a, <2>1 DEF Session
  <2> DEFINE se == [sess[s] EXCEPT !.rounds = Append(sess[s].rounds, new)]
  <2> DEFINE lo == [loop[s] EXCEPT !.pc = "review"]
  <2>3. se \in Session /\ lo \in Loop
    BY <1>a, <2>2 DEF Loop, Positions, Session, SessionStates
  <2>4. /\ sess' = [sess EXCEPT ![s] = se]
        /\ loop' = [loop EXCEPT ![s] = lo]
    BY <1>4, <1>a DEF BeginRound, TypeInv, TypeOK
  <2>5. /\ lo.pc \in InRound => Len(se.rounds) > 0
        /\ lo.pc \in Looked => lo.expected \in Tree
        /\ se.restore = sess[s].restore \/ refs'[s] \in Tree
    BY <1>4, <1>a, <1>b, <1>c, <2>2 DEF BeginRound, Session, Loop
  <2>m. LoopMoves(s, se, lo, hist[s])
    <3> HIDE DEF lo, se
    <3> QED
      BY <1>4, <1>a, <2>3, <2>4, <2>5 DEF BeginRound, LoopMoves
  <2> HIDE DEF lo, se
  <2> QED
    BY <1>a, <2>3, <2>4, <2>5, <2>m, LoopUpdate
<1>5. CASE ReviewsFail(s)
  <2>1. PICK st \in {"reviewing", "failed"} :
          sess' = [sess EXCEPT ![s].rounds = EndRound(s, st, "none")]
    BY <1>5 DEF ReviewsFail
  <2> DEFINE rounds == EndRound(s, st, "none")
  <2>2. rounds \in Seq(Round) /\ Len(rounds) > 0
    BY <1>5, <1>b, <1>d, <2>1 DEF ReviewsFail, RoundStates, FixStates
  <2> DEFINE se == [sess[s] EXCEPT !.rounds = rounds]
  <2> DEFINE lo == [loop[s] EXCEPT !.pc = "settle", !.err = TRUE]
  <2>3. se \in Session /\ lo \in Loop
    BY <1>a, <2>1, <2>2 DEF Loop, Positions, Session, SessionStates
  <2>4. /\ sess' = [sess EXCEPT ![s] = se]
        /\ loop' = [loop EXCEPT ![s] = lo]
    BY <1>5, <1>a, <2>1 DEF ReviewsFail, Fails, TypeInv, TypeOK
  <2>5. /\ lo.pc \in InRound => Len(se.rounds) > 0
        /\ lo.pc \in Looked => lo.expected \in Tree
        /\ se.restore = sess[s].restore \/ refs'[s] \in Tree
    BY <1>5, <1>a, <1>b, <1>c, <2>1, <2>2 DEF ReviewsFail, Session, Loop
  <2>m. LoopMoves(s, se, lo, hist[s])
    <3> HIDE DEF lo, se
    <3> QED
      BY <1>5, <1>a, <2>3, <2>4, <2>5 DEF ReviewsFail, LoopMoves
  <2> HIDE DEF lo, se
  <2> QED
    BY <1>a, <2>3, <2>4, <2>5, <2>m, LoopUpdate
<1>6. CASE NothingWorthChanging(s)
  <2> DEFINE rounds == EndRound(s, "done", "none")
  <2>1. rounds \in Seq(Round) /\ Len(rounds) > 0
    BY <1>6, <1>b, <1>d DEF NothingWorthChanging, RoundStates, FixStates
  <2> DEFINE se == [sess[s] EXCEPT !.rounds = rounds]
  <2> DEFINE lo == [loop[s] EXCEPT !.pc = "settle"]
  <2>2. se \in Session /\ lo \in Loop
    BY <1>a, <2>1 DEF Loop, Positions, Session, SessionStates
  <2>3. /\ sess' = [sess EXCEPT ![s] = se]
        /\ loop' = [loop EXCEPT ![s] = lo]
    BY <1>6, <1>a DEF NothingWorthChanging, Stops, TypeInv, TypeOK
  <2>4. /\ lo.pc \in InRound => Len(se.rounds) > 0
        /\ lo.pc \in Looked => lo.expected \in Tree
        /\ se.restore = sess[s].restore \/ refs'[s] \in Tree
    BY <1>6, <1>a, <1>b, <1>c, <2>1 DEF NothingWorthChanging, Session, Loop
  <2>m. LoopMoves(s, se, lo, hist[s])
    <3> HIDE DEF lo, se
    <3> QED
      BY <1>6, <1>a, <2>2, <2>3, <2>4 DEF NothingWorthChanging, LoopMoves
  <2> HIDE DEF lo, se
  <2> QED
    BY <1>a, <2>2, <2>3, <2>4, <2>m, LoopUpdate
<1>7. CASE StartFix(s)
  <2> DEFINE rounds == EndRound(s, "fixing", "running")
  <2>1. rounds \in Seq(Round) /\ Len(rounds) > 0
    BY <1>7, <1>b, <1>d DEF StartFix, RoundStates, FixStates
  <2> DEFINE se == [sess[s] EXCEPT !.rounds = rounds]
  <2> DEFINE lo == [loop[s] EXCEPT !.pc = "fix"]
  <2>2. se \in Session /\ lo \in Loop
    BY <1>a, <2>1 DEF Loop, Positions, Session, SessionStates
  <2>3. /\ sess' = [sess EXCEPT ![s] = se]
        /\ loop' = [loop EXCEPT ![s] = lo]
    BY <1>7, <1>a DEF StartFix, TypeInv, TypeOK
  <2>4. /\ lo.pc \in InRound => Len(se.rounds) > 0
        /\ lo.pc \in Looked => lo.expected \in Tree
        /\ se.restore = sess[s].restore \/ refs'[s] \in Tree
    BY <1>7, <1>a, <1>b, <1>c, <2>1 DEF StartFix, Session, Loop
  <2>m. LoopMoves(s, se, lo, hist[s])
    <3> HIDE DEF lo, se
    <3> QED
      BY <1>7, <1>a, <2>2, <2>3, <2>4 DEF StartFix, LoopMoves
  <2> HIDE DEF lo, se
  <2> QED
    BY <1>a, <2>2, <2>3, <2>4, <2>m, LoopUpdate
<1>8. CASE FixFails(s)
  <2> DEFINE rounds == EndRound(s, "fixing", "failed")
  <2>1. rounds \in Seq(Round) /\ Len(rounds) > 0
    BY <1>8, <1>b, <1>d DEF FixFails, RoundStates, FixStates
  <2> DEFINE se == [sess[s] EXCEPT !.rounds = rounds]
  <2> DEFINE lo == [loop[s] EXCEPT !.pc = "settle", !.err = TRUE]
  <2>2. se \in Session /\ lo \in Loop
    BY <1>a, <2>1 DEF Loop, Positions, Session, SessionStates
  <2>3. /\ sess' = [sess EXCEPT ![s] = se]
        /\ loop' = [loop EXCEPT ![s] = lo]
    BY <1>8, <1>a DEF FixFails, Fails, TypeInv, TypeOK
  <2>4. /\ lo.pc \in InRound => Len(se.rounds) > 0
        /\ lo.pc \in Looked => lo.expected \in Tree
        /\ se.restore = sess[s].restore \/ refs'[s] \in Tree
    BY <1>8, <1>a, <1>b, <1>c, <2>1 DEF FixFails, Session, Loop
  <2>m. LoopMoves(s, se, lo, hist[s])
    <3> HIDE DEF lo, se
    <3> QED
      BY <1>8, <1>a, <2>2, <2>3, <2>4 DEF FixFails, LoopMoves
  <2> HIDE DEF lo, se
  <2> QED
    BY <1>a, <2>2, <2>3, <2>4, <2>m, LoopUpdate
<1>9. CASE FixIsEmpty(s)
  <2> DEFINE rounds == EndRound(s, "done", "empty")
  <2>1. rounds \in Seq(Round) /\ Len(rounds) > 0
    BY <1>9, <1>b, <1>d DEF FixIsEmpty, RoundStates, FixStates
  <2> DEFINE se == [sess[s] EXCEPT !.rounds = rounds]
  <2> DEFINE lo == [loop[s] EXCEPT !.pc = "settle"]
  <2>2. se \in Session /\ lo \in Loop
    BY <1>a, <2>1 DEF Loop, Positions, Session, SessionStates
  <2>3. /\ sess' = [sess EXCEPT ![s] = se]
        /\ loop' = [loop EXCEPT ![s] = lo]
    BY <1>9, <1>a DEF FixIsEmpty, Stops, TypeInv, TypeOK
  <2>4. /\ lo.pc \in InRound => Len(se.rounds) > 0
        /\ lo.pc \in Looked => lo.expected \in Tree
        /\ se.restore = sess[s].restore \/ refs'[s] \in Tree
    BY <1>9, <1>a, <1>b, <1>c, <2>1 DEF FixIsEmpty, Session, Loop
  <2>m. LoopMoves(s, se, lo, hist[s])
    <3> HIDE DEF lo, se
    <3> QED
      BY <1>9, <1>a, <2>2, <2>3, <2>4 DEF FixIsEmpty, LoopMoves
  <2> HIDE DEF lo, se
  <2> QED
    BY <1>a, <2>2, <2>3, <2>4, <2>m, LoopUpdate
<1>10. CASE FixMade(s)
  <2>1. PICK Q \in SUBSET Path : loop' = [loop EXCEPT ![s].pc = "verify", ![s].patch = Q]
    BY <1>10 DEF FixMade
  <2> DEFINE lo == [loop[s] EXCEPT !.pc = "verify", !.patch = Q]
  <2>2. lo \in Loop
    BY <1>a, <2>1 DEF Loop, Positions
  <2>3. loop' = [loop EXCEPT ![s] = lo]
    BY <1>10, <1>a, <2>1 DEF FixMade, TypeInv, TypeOK
  <2>4. /\ lo.pc \in InRound => Len(sess[s].rounds) > 0
        /\ lo.pc \in Looked => lo.expected \in Tree
    BY <1>10, <1>a, <1>b, <1>c, <2>1 DEF FixMade, Session, Loop
  <2>m. LoopMoves(s, sess[s], lo, hist[s])
    <3> HIDE DEF lo
    <3> QED
      BY <1>10, <1>a, <2>2, <2>3, <2>4 DEF FixMade, LoopMoves
  <2> HIDE DEF lo
  <2> QED
    BY <1>a, <2>2, <2>3, <2>4, <2>m, LoopUpdate
<1>11. CASE Supersede(s)
  <2> DEFINE rounds == EndRound(s, "superseded", "failed")
  <2>1. rounds \in Seq(Round) /\ Len(rounds) > 0
    BY <1>11, <1>b, <1>d DEF Supersede, RoundStates, FixStates
  <2> DEFINE se == [sess[s] EXCEPT !.rounds = rounds, !.state = "paused"]
  <2> DEFINE lo == [loop[s] EXCEPT !.pc = "paused"]
  <2> DEFINE hi == [hist[s] EXCEPT !.asked = FALSE]
  <2>2. se \in Session /\ lo \in Loop /\ hi \in History
    BY <1>a, <2>1 DEF Loop, Positions, Session, SessionStates, History
  <2>3. /\ sess' = [sess EXCEPT ![s] = se]
        /\ loop' = [loop EXCEPT ![s] = lo]
        /\ hist' = [hist EXCEPT ![s] = hi]
    BY <1>11, <1>a DEF Supersede, TypeInv, TypeOK
  <2>4. /\ lo.pc \in InRound => Len(se.rounds) > 0
        /\ lo.pc \in Looked => lo.expected \in Tree
        /\ se.restore = sess[s].restore \/ refs'[s] \in Tree
    BY <1>11, <1>a, <1>b, <1>c, <2>1 DEF Supersede, Session, Loop
  <2>m. LoopMoves(s, se, lo, hi)
    <3> HIDE DEF lo, se, hi
    <3> QED
      BY <1>11, <1>a, <2>2, <2>3, <2>4 DEF Supersede, LoopMoves
  <2> HIDE DEF lo, se, hi
  <2> QED
    BY <1>a, <2>2, <2>3, <2>4, <2>m, LoopUpdate
<1>12. CASE VerifyTree(s)
  <2> DEFINE rounds == EndRound(s, "applying", "running")
  <2>1. rounds \in Seq(Round) /\ Len(rounds) > 0
    BY <1>12, <1>b, <1>d DEF VerifyTree, RoundStates, FixStates
  <2> DEFINE se == [sess[s] EXCEPT !.rounds = rounds]
  <2> DEFINE lo == [loop[s] EXCEPT !.pc = "save"]
  <2>2. se \in Session /\ lo \in Loop
    BY <1>a, <2>1 DEF Loop, Positions, Session, SessionStates
  <2>3. /\ sess' = [sess EXCEPT ![s] = se]
        /\ loop' = [loop EXCEPT ![s] = lo]
    BY <1>12, <1>a DEF VerifyTree, TypeInv, TypeOK
  <2>4. /\ lo.pc \in InRound => Len(se.rounds) > 0
        /\ lo.pc \in Looked => lo.expected \in Tree
        /\ se.restore = sess[s].restore \/ refs'[s] \in Tree
    BY <1>12, <1>a, <1>b, <1>c, <2>1 DEF VerifyTree, Session, Loop
  <2>m. LoopMoves(s, se, lo, hist[s])
    <3> HIDE DEF lo, se
    <3> QED
      BY <1>12, <1>a, <2>2, <2>3, <2>4 DEF VerifyTree, LoopMoves
  <2> HIDE DEF lo, se
  <2> QED
    BY <1>a, <2>2, <2>3, <2>4, <2>m, LoopUpdate
<1>13. CASE SaveRestorePoint(s)
  <2> DEFINE se == IF sess[s].restore = "none" THEN [sess[s] EXCEPT !.restore = "saved"] ELSE sess[s]
  <2> DEFINE lo == [loop[s] EXCEPT !.pc = "apply"]
  <2>1. se \in Session /\ lo \in Loop
    BY <1>a DEF Loop, Positions, Session, SessionStates
  <2>2. /\ sess' = [sess EXCEPT ![s] = se]
        /\ loop' = [loop EXCEPT ![s] = lo]
    BY <1>13, <1>a DEF SaveRestorePoint, TypeInv, TypeOK
  <2>3. /\ lo.pc \in InRound => Len(se.rounds) > 0
        /\ lo.pc \in Looked => lo.expected \in Tree
        /\ se.restore = sess[s].restore \/ refs'[s] \in Tree
    BY <1>13, <1>a, <1>b, <1>c DEF SaveRestorePoint, Session, Loop
  <2>4. /\ refs' \in [Sid -> Tree \cup {NoTree}]
        /\ \A t \in Sid : refs[t] \in Tree => refs'[t] \in Tree
    BY <1>13, <1>a, <1>c DEF SaveRestorePoint
  <2>m. LoopMoves(s, se, lo, hist[s])
    <3> HIDE DEF lo, se
    <3> QED
      BY <1>13, <1>a, <2>1, <2>2, <2>3, <2>4 DEF SaveRestorePoint, LoopMoves
  <2> HIDE DEF lo, se
  <2> QED
    BY <1>a, <2>1, <2>2, <2>3, <2>4, <2>m, LoopUpdate
<1>14. CASE ApplyRefused(s)
  <2> DEFINE rounds == EndRound(s, "applying", "failed")
  <2>1. rounds \in Seq(Round) /\ Len(rounds) > 0
    BY <1>14, <1>b, <1>d DEF ApplyRefused, RoundStates, FixStates
  <2> DEFINE se == [sess[s] EXCEPT !.rounds = rounds]
  <2> DEFINE lo == [loop[s] EXCEPT !.pc = "settle", !.err = TRUE]
  <2>2. se \in Session /\ lo \in Loop
    BY <1>a, <2>1 DEF Loop, Positions, Session, SessionStates
  <2>3. /\ sess' = [sess EXCEPT ![s] = se]
        /\ loop' = [loop EXCEPT ![s] = lo]
    BY <1>14, <1>a DEF ApplyRefused, Fails, TypeInv, TypeOK
  <2>4. /\ lo.pc \in InRound => Len(se.rounds) > 0
        /\ lo.pc \in Looked => lo.expected \in Tree
        /\ se.restore = sess[s].restore \/ refs'[s] \in Tree
    BY <1>14, <1>a, <1>b, <1>c, <2>1 DEF ApplyRefused, Session, Loop
  <2>m. LoopMoves(s, se, lo, hist[s])
    <3> HIDE DEF lo, se
    <3> QED
      BY <1>14, <1>a, <2>2, <2>3, <2>4 DEF ApplyRefused, LoopMoves
  <2> HIDE DEF lo, se
  <2> QED
    BY <1>a, <2>2, <2>3, <2>4, <2>m, LoopUpdate
<1>15. CASE ApplyPatch(s)
  <2>1. loop[s].patch \in SUBSET Path
    BY <1>a DEF Loop
  <2>2. tree' \in Tree
    BY <1>15, <1>b, <2>1, PatchedType DEF ApplyPatch, TypeInv
  <2> DEFINE lo == [loop[s] EXCEPT !.pc = "record", !.touched = @ \cup loop[s].patch]
  <2> DEFINE hi == [hist[s] EXCEPT !.wrote = @ \cup loop[s].patch]
  <2>3. lo \in Loop /\ hi \in History
    BY <1>a, <2>1 DEF Loop, Positions, History
  <2>4. /\ loop' = [loop EXCEPT ![s] = lo]
        /\ hist' = [hist EXCEPT ![s] = hi]
    BY <1>15, <1>a DEF ApplyPatch, TypeInv, TypeOK
  <2>5. /\ lo.pc \in InRound => Len(sess[s].rounds) > 0
        /\ lo.pc \in Looked => lo.expected \in Tree
    BY <1>15, <1>a, <1>b, <1>c, <2>1 DEF ApplyPatch, Session, Loop
  <2>m. LoopMoves(s, sess[s], lo, hi)
    <3> HIDE DEF lo, hi
    <3> QED
      BY <1>15, <1>a, <2>3, <2>4, <2>5, <2>2 DEF ApplyPatch, LoopMoves
  <2> HIDE DEF lo, hi
  <2> QED
    BY <1>a, <2>3, <2>4, <2>5, <2>2, <2>m, LoopUpdate
<1>16. CASE ApplyCut(s)
  <2>1. PICK Q \in SUBSET loop[s].patch :
          /\ tree' = Patched(s, Q)
          /\ hist' = [hist EXCEPT ![s].wrote = @ \cup Q, ![s].torn = TRUE]
    BY <1>16 DEF ApplyCut
  <2>2. Q \in SUBSET Path
    BY <1>a DEF Loop
  <2>3. tree' \in Tree
    BY <1>16, <1>b, <2>1, <2>2, PatchedType DEF ApplyCut, TypeInv
  <2> DEFINE rounds == EndRound(s, "applying", "failed")
  <2>4. rounds \in Seq(Round) /\ Len(rounds) > 0
    BY <1>16, <1>b, <1>d DEF ApplyCut, RoundStates, FixStates
  <2> DEFINE se == [sess[s] EXCEPT !.rounds = rounds]
  <2> DEFINE lo == [loop[s] EXCEPT !.pc = "settle", !.err = TRUE]
  <2> DEFINE hi == [hist[s] EXCEPT !.wrote = @ \cup Q, !.torn = TRUE]
  <2>5. se \in Session /\ lo \in Loop /\ hi \in History
    BY <1>a, <2>1, <2>2, <2>4 DEF Loop, Positions, Session, SessionStates, History
  <2>6. /\ sess' = [sess EXCEPT ![s] = se]
        /\ loop' = [loop EXCEPT ![s] = lo]
        /\ hist' = [hist EXCEPT ![s] = hi]
    BY <1>16, <1>a, <2>1 DEF ApplyCut, Fails, TypeInv, TypeOK
  <2>7. /\ lo.pc \in InRound => Len(se.rounds) > 0
        /\ lo.pc \in Looked => lo.expected \in Tree
        /\ se.restore = sess[s].restore \/ refs'[s] \in Tree
    BY <1>16, <1>a, <1>b, <1>c, <2>1, <2>2, <2>4 DEF ApplyCut, Session, Loop
  <2>m. LoopMoves(s, se, lo, hi)
    <3> HIDE DEF lo, se, hi
    <3> QED
      BY <1>16, <1>a, <2>5, <2>6, <2>7, <2>3 DEF ApplyCut, LoopMoves
  <2> HIDE DEF lo, se, hi
  <2> QED
    BY <1>a, <2>5, <2>6, <2>7, <2>3, <2>m, LoopUpdate
<1>17. CASE RecordFix(s)
  <2> DEFINE rounds == EndRound(s, "done", "applied")
  <2>1. rounds \in Seq(Round) /\ Len(rounds) > 0
    BY <1>17, <1>b, <1>d DEF RecordFix, RoundStates, FixStates
  <2> DEFINE se == [sess[s] EXCEPT !.rounds = rounds, !.left = tree, !.paths = Recorded(s)]
  <2> DEFINE done == loop[s].done + 1
  <2> DEFINE lo == [loop[s] EXCEPT !.pc = "top", !.expected = tree, !.done = done]
  <2> DEFINE hi == [hist[s] EXCEPT !.leftAt = edits]
  <2>2. se \in Session /\ lo \in Loop /\ hi \in History
    <3>1. Recorded(s) \in SUBSET Path
      BY <1>a DEF Recorded, Loop
    <3>2. se \in Session
      BY <1>a, <2>1, <3>1 DEF Session
    <3>3. lo \in Loop
      <4>1. done \in Nat
        BY <1>a DEF Loop
      <4> HIDE DEF done
      <4> QED
        BY <1>a, <4>1 DEF Loop, Positions
    <3>4. hi \in History
      BY <1>a DEF TypeInv, TypeOK, History
    <3> QED
      BY <3>2, <3>3, <3>4
  <2>3. /\ sess' = [sess EXCEPT ![s] = se]
        /\ loop' = [loop EXCEPT ![s] = lo]
        /\ hist' = [hist EXCEPT ![s] = hi]
    BY <1>17, <1>a DEF RecordFix, TypeInv, TypeOK
  <2>4. /\ lo.pc \in InRound => Len(se.rounds) > 0
        /\ lo.pc \in Looked => lo.expected \in Tree
        /\ se.restore = sess[s].restore \/ refs'[s] \in Tree
    BY <1>17, <1>a, <1>b, <1>c, <2>1 DEF RecordFix, Session, Loop
  <2>m. LoopMoves(s, se, lo, hi)
    <3> HIDE DEF lo, se, hi
    <3> QED
      BY <1>17, <1>a, <2>2, <2>3, <2>4 DEF RecordFix, LoopMoves
  <2> HIDE DEF lo, se, hi
  <2> QED
    BY <1>a, <2>2, <2>3, <2>4, <2>m, LoopUpdate
<1>18. CASE RecordFails(s)
  <2> DEFINE rounds == EndRound(s, "applying", "failed")
  <2>1. rounds \in Seq(Round) /\ Len(rounds) > 0
    BY <1>18, <1>b, <1>d DEF RecordFails, RoundStates, FixStates
  <2> DEFINE se == [sess[s] EXCEPT !.rounds = rounds]
  <2> DEFINE lo == [loop[s] EXCEPT !.pc = "settle", !.err = TRUE]
  <2> DEFINE hi == [hist[s] EXCEPT !.torn = TRUE]
  <2>2. se \in Session /\ lo \in Loop /\ hi \in History
    BY <1>a, <2>1 DEF Loop, Positions, Session, SessionStates, History
  <2>3. /\ sess' = [sess EXCEPT ![s] = se]
        /\ loop' = [loop EXCEPT ![s] = lo]
        /\ hist' = [hist EXCEPT ![s] = hi]
    BY <1>18, <1>a DEF RecordFails, Fails, TypeInv, TypeOK
  <2>4. /\ lo.pc \in InRound => Len(se.rounds) > 0
        /\ lo.pc \in Looked => lo.expected \in Tree
        /\ se.restore = sess[s].restore \/ refs'[s] \in Tree
    BY <1>18, <1>a, <1>b, <1>c, <2>1 DEF RecordFails, Session, Loop
  <2>m. LoopMoves(s, se, lo, hi)
    <3> HIDE DEF lo, se, hi
    <3> QED
      BY <1>18, <1>a, <2>2, <2>3, <2>4 DEF RecordFails, LoopMoves
  <2> HIDE DEF lo, se, hi
  <2> QED
    BY <1>a, <2>2, <2>3, <2>4, <2>m, LoopUpdate
<1>19. CASE LookFails(s)
  <2> DEFINE lo == [loop[s] EXCEPT !.pc = "settle", !.err = TRUE]
  <2>1. lo \in Loop
    BY <1>a DEF Loop, Positions
  <2>2. loop' = [loop EXCEPT ![s] = lo]
    BY <1>19, <1>a DEF LookFails, Fails, TypeInv, TypeOK
  <2>3. /\ lo.pc \in InRound => Len(sess[s].rounds) > 0
        /\ lo.pc \in Looked => lo.expected \in Tree
    BY <1>19, <1>a, <1>b, <1>c DEF LookFails, Session, Loop
  <2>m. LoopMoves(s, sess[s], lo, hist[s])
    <3> HIDE DEF lo
    <3> QED
      BY <1>19, <1>a, <2>1, <2>2, <2>3 DEF LookFails, LoopMoves
  <2> HIDE DEF lo
  <2> QED
    BY <1>a, <2>1, <2>2, <2>3, <2>m, LoopUpdate
<1>20. CASE Woken(s)
  <2> DEFINE se == [sess[s] EXCEPT !.resume = 0]
  <2> DEFINE lo == [loop[s] EXCEPT !.pc = "adopt"]
  <2>1. se \in Session /\ lo \in Loop
    <3>1. se \in Session
      BY <1>a DEF Session
    <3>2. lo \in Loop
      BY <1>a DEF Loop, Positions
    <3> QED
      BY <3>1, <3>2
  <2>2. /\ sess' = [sess EXCEPT ![s] = se]
        /\ loop' = [loop EXCEPT ![s] = lo]
    BY <1>20, <1>a DEF Woken, TypeInv, TypeOK
  <2>3. /\ lo.pc \in InRound => Len(se.rounds) > 0
        /\ lo.pc \in Looked => lo.expected \in Tree
        /\ se.restore = sess[s].restore \/ refs'[s] \in Tree
    BY <1>20, <1>a, <1>b, <1>c DEF Woken, Session, Loop
  <2>m. LoopMoves(s, se, lo, hist[s])
    <3> HIDE DEF lo, se
    <3> QED
      BY <1>20, <1>a, <2>1, <2>2, <2>3 DEF Woken, LoopMoves
  <2> HIDE DEF lo, se
  <2> QED
    BY <1>a, <2>1, <2>2, <2>3, <2>m, LoopUpdate
<1>21. CASE PauseCancelled(s)
  <2> DEFINE lo == [loop[s] EXCEPT !.pc = "settle", !.err = TRUE]
  <2>1. lo \in Loop
    BY <1>a DEF Loop, Positions
  <2>2. loop' = [loop EXCEPT ![s] = lo]
    BY <1>21, <1>a DEF PauseCancelled, Fails, TypeInv, TypeOK
  <2>3. /\ lo.pc \in InRound => Len(sess[s].rounds) > 0
        /\ lo.pc \in Looked => lo.expected \in Tree
    BY <1>21, <1>a, <1>b, <1>c DEF PauseCancelled, Session, Loop
  <2>m. LoopMoves(s, sess[s], lo, hist[s])
    <3> HIDE DEF lo
    <3> QED
      BY <1>21, <1>a, <2>1, <2>2, <2>3 DEF PauseCancelled, LoopMoves
  <2> HIDE DEF lo
  <2> QED
    BY <1>a, <2>1, <2>2, <2>3, <2>m, LoopUpdate
<1>22. CASE Adopt(s)
  <2> DEFINE kept == [p \in Path |-> IF p \in loop[s].touched
             THEN hist[s].adopted[p] \cup (tree[p].user \ loop[s].expected[p].user)
             ELSE hist[s].adopted[p]]
  <2>1. kept \in [Path -> SUBSET Edit]
    BY <1>a DEF History, Tree, File
  <2> DEFINE se == [sess[s] EXCEPT !.state = "running"]
  <2> DEFINE lo == [loop[s] EXCEPT !.pc = "top", !.expected = tree]
  <2> DEFINE wakes == hist[s].wakes + 1
  <2> DEFINE hi == [hist[s] EXCEPT !.wakes = wakes, !.adopted = kept]
  <2>2. se \in Session /\ lo \in Loop /\ hi \in History
    <3>1. se \in Session
      BY <1>a DEF Session, SessionStates
    <3>2. lo \in Loop
      BY <1>a DEF Loop, Positions
    <3>3. hi \in History
      <4>1. wakes \in Nat
        BY <1>a DEF History
      <4> HIDE DEF kept, wakes
      <4> QED
        BY <1>a, <2>1, <4>1 DEF History
    <3> QED
      BY <3>1, <3>2, <3>3
  <2>3. /\ sess' = [sess EXCEPT ![s] = se]
        /\ loop' = [loop EXCEPT ![s] = lo]
        /\ hist' = [hist EXCEPT ![s] = hi]
    BY <1>22, <1>a DEF Adopt, TypeInv, TypeOK
  <2>4. /\ lo.pc \in InRound => Len(se.rounds) > 0
        /\ lo.pc \in Looked => lo.expected \in Tree
        /\ se.restore = sess[s].restore \/ refs'[s] \in Tree
    BY <1>22, <1>a, <1>b, <1>c, <2>1 DEF Adopt, Session, Loop
  <2>m. LoopMoves(s, se, lo, hi)
    <3> HIDE DEF lo, se, hi
    <3> QED
      BY <1>22, <1>a, <2>2, <2>3, <2>4 DEF Adopt, LoopMoves
  <2> HIDE DEF lo, se, hi
  <2> QED
    BY <1>a, <2>2, <2>3, <2>4, <2>m, LoopUpdate
<1>23. CASE Settle(s)
  <2> DEFINE R == [i \in DOMAIN sess[s].rounds |-> Closed(sess[s].rounds[i])]
  <2>1. \A r \in Round : Closed(r) \in Round
    BY DEF Closed, Round, RoundStates
  <2>2. R \in Seq(Round)
    BY <1>a, <2>1 DEF Session
  <2>3. Verdict(s) \in SessionStates
    BY DEF Verdict, SessionStates
  <2> DEFINE se == [sess[s] EXCEPT !.state = Verdict(s), !.rounds = R, !.ctxDone = TRUE]
  <2> DEFINE lo == [loop[s] EXCEPT !.pc = "over"]
  <2>4. se \in Session /\ lo \in Loop
    BY <1>a, <2>2, <2>3 DEF Loop, Positions, Session, SessionStates
  <2>5. /\ sess' = [sess EXCEPT ![s] = se]
        /\ loop' = [loop EXCEPT ![s] = lo]
    BY <1>23, <1>a DEF Settle, TypeInv, TypeOK
  <2>6. /\ lo.pc \in InRound => Len(se.rounds) > 0
        /\ lo.pc \in Looked => lo.expected \in Tree
        /\ se.restore = sess[s].restore \/ refs'[s] \in Tree
    BY <1>23, <1>a, <1>b, <1>c, <2>2, <2>3 DEF Settle, Session, Loop
  <2>m. LoopMoves(s, se, lo, hist[s])
    <3> HIDE DEF lo, se
    <3> QED
      BY <1>23, <1>a, <2>4, <2>5, <2>6 DEF Settle, LoopMoves
  <2> HIDE DEF lo, se
  <2> QED
    BY <1>a, <2>4, <2>5, <2>6, <2>m, LoopUpdate
<1> QED
  BY <1>1, <1>2, <1>3, <1>4, <1>5, <1>6, <1>7, <1>8, <1>9, <1>10, <1>11, <1>12, <1>13, <1>14, <1>15, <1>16, <1>17, <1>18, <1>19, <1>20, <1>21, <1>22, <1>23 DEF LoopStep

\* Starting a session makes room for it, and touches no other.
LEMMA StartTypeInv == TypeInv /\ StartSession => TypeInv'
<1> SUFFICES ASSUME TypeInv, StartSession PROVE TypeInv'
  OBVIOUS
<1> USE BoundsAssumption
<1> DEFINE n == started + 1
<1>1. n \in Sid /\ started' = n /\ n \in 0..NSid /\ 1..started \subseteq 1..n /\ n \in 1..n
  BY DEF StartSession, TypeInv, TypeOK, Sid
<1> DEFINE new == [NewSession EXCEPT !.state = "running", !.ctxDone = stopping]
           lo == [loop[n] EXCEPT !.pc = "start"]
<1>2. new \in Session
  BY NewType DEF Session, SessionStates, TypeInv, TypeOK
<1>3. lo \in Loop
  BY <1>1 DEF Loop, Positions, TypeInv, TypeOK
<1>4. /\ sess' = [sess EXCEPT ![n] = new]
      /\ loop' = [loop EXCEPT ![n] = lo]
      /\ sess \in [Sid -> Session] /\ loop \in [Sid -> Loop]
  BY DEF StartSession, TypeInv, TypeOK
<1>5. lo.pc = "start"
  BY <1>1 DEF TypeInv, TypeOK, Loop
<1>5a. new.restore = "none"
  BY DEF NewSession
<1> HIDE DEF n, new, lo
<1>6. sess' \in [Sid -> Session] /\ loop' \in [Sid -> Loop]
  BY <1>1, <1>2, <1>3, <1>4
<1>7. store' \in SUBSET (1..n)
  <2>1. store' \subseteq store \cup {n}
    BY DEF StartSession, n
  <2> QED
    BY <2>1, <1>1 DEF TypeInv, TypeOK
<1>8. TypeOK'
  BY <1>1, <1>6, <1>7 DEF StartSession, TypeInv, TypeOK
<1>9. RoundOpen' /\ HasLooked'
  BY <1>1, <1>4, <1>5 DEF TypeInv, RoundOpen, HasLooked, InRound, Looked
<1>10. CallsKnown'
  BY <1>1 DEF StartSession, TypeInv, CallsKnown
<1>11. PointSaved'
  BY <1>1, <1>2, <1>4, <1>5a DEF StartSession, TypeInv, PointSaved
<1> QED
  BY <1>8, <1>9, <1>10, <1>11 DEF TypeInv


\* What a step of a handler may do: the call itself, and of session s only what the
\* loop does not keep.
CallMoves(c, s, call, se) ==
    /\ calls' = [calls EXCEPT ![c] = call]
    /\ sess' = [sess EXCEPT ![s] = se]
    /\ tree' \in Tree
    /\ hist' \in [Sid -> History]
    /\ spent' \in 0..MaxCalls
    /\ UNCHANGED <<edits, refs, stopping, crashes, started, store, loop>>
    /\ call.op # "idle" =>
         /\ call.sid \in 1..started
         /\ call.op \in {"restore", "restoring"} => refs[call.sid] \in Tree
    /\ se.rounds = sess[s].rounds
    /\ se.restore = sess[s].restore \/ refs[s] \in Tree

LEMMA CallUpdate ==
    ASSUME TypeInv, NEW c \in Call, NEW s \in Sid, NEW call \in Served, NEW se \in Session,
           CallMoves(c, s, call, se)
    PROVE  TypeInv'
<1>1. TypeOK'
  BY DEF CallMoves, TypeInv, TypeOK
<1>2. RoundOpen' /\ HasLooked' /\ PointSaved'
  BY DEF CallMoves, TypeInv, TypeOK, RoundOpen, HasLooked, PointSaved
<1>3. CallsKnown'
  BY DEF CallMoves, TypeInv, TypeOK, CallsKnown
<1> QED
  BY <1>1, <1>2, <1>3 DEF TypeInv

\* A call is taken up on a session that was started.
LEMMA TakesType ==
    ASSUME TypeInv, NEW c \in Call, NEW s \in Sid, NEW op \in Ops, NEW force \in BOOLEAN,
           Takes(c, s, op, force)
    PROVE  /\ [op |-> op, sid |-> s, force |-> force] \in Served
           /\ s \in 1..started
           /\ spent' \in 0..MaxCalls
BY BoundsAssumption DEF Takes, Served, TypeInv, TypeOK

LEMMA CallTypeInv ==
    ASSUME TypeInv, NEW c \in Call,
           CallStep(c) \/ \E s \in Sid :
             ResumeAccepted(c, s) \/ CancelAccepted(c, s) \/ RestoreAccepted(c, s)
    PROVE  TypeInv'
<1> USE BoundsAssumption
<1>a. /\ sess \in [Sid -> Session] /\ calls \in [Call -> Served] /\ hist \in [Sid -> History]
      /\ tree \in Tree /\ spent \in 0..MaxCalls /\ Idle \in Served /\ Idle.op = "idle"
  BY DEF TypeInv, TypeOK, Idle, Served, Ops
<1>b. \A s \in Sid : sess[s] \in Session /\ sess = [sess EXCEPT ![s] = sess[s]]
  BY <1>a
<1>c. \A s \in Sid : sess[s].restore # "none" => refs[s] \in Tree
  BY DEF TypeInv, PointSaved
<1>d. ASSUME calls[c].op # "idle"
      PROVE  /\ calls[c].sid \in 1..started /\ calls[c].sid \in Sid
             /\ calls[c].op \in {"restore", "restoring"} => refs[calls[c].sid] \in Tree
  BY <1>d DEF TypeInv, TypeOK, CallsKnown, Sid
<1>1. ASSUME NEW s \in Sid, ResumeAccepted(c, s) PROVE TypeInv'
  <2> DEFINE call == [op |-> "resume", sid |-> s, force |-> FALSE]
  <2>1. call \in Served /\ s \in 1..started /\ spent' \in 0..MaxCalls
    BY <1>1, TakesType DEF ResumeAccepted, Ops
  <2>2. hist' \in [Sid -> History]
    <3> DEFINE asks == hist[s].asks + 1
    <3>1. asks \in Nat /\ hist[s] \in History
      BY <1>a DEF History
    <3>2. hist' = [hist EXCEPT ![s].asked = TRUE, ![s].asks = asks]
      BY <1>1 DEF ResumeAccepted
    <3> HIDE DEF asks
    <3> QED
      BY <1>a, <3>1, <3>2 DEF History
  <2>3. CallMoves(c, s, call, sess[s])
    BY <1>1, <1>a, <1>b, <2>1, <2>2 DEF ResumeAccepted, Takes, CallMoves
  <2> HIDE DEF call
  <2> QED
    BY <1>b, <2>1, <2>3, CallUpdate
<1>2. ASSUME NEW s \in Sid, CancelAccepted(c, s) PROVE TypeInv'
  <2> DEFINE call == [op |-> "cancel", sid |-> s, force |-> FALSE]
             se == [sess[s] EXCEPT !.cancelled = TRUE]
  <2>1. call \in Served /\ s \in 1..started /\ spent' \in 0..MaxCalls
    BY <1>2, TakesType DEF CancelAccepted, Ops
  <2>2. se \in Session /\ se.rounds = sess[s].rounds /\ se.restore = sess[s].restore
    BY <1>b DEF Session
  <2>3. sess' = [sess EXCEPT ![s] = se]
    BY <1>2, <1>a DEF CancelAccepted
  <2>4. CallMoves(c, s, call, se)
    <3> HIDE DEF se
    <3> QED
      BY <1>2, <1>a, <2>1, <2>2, <2>3 DEF CancelAccepted, Takes, CallMoves
  <2> HIDE DEF call, se
  <2> QED
    BY <2>1, <2>2, <2>4, CallUpdate
<1>3. ASSUME NEW s \in Sid, RestoreAccepted(c, s) PROVE TypeInv'
  <2>1. PICK force \in BOOLEAN : Takes(c, s, IF force THEN "restoring" ELSE "restore", force)
    BY <1>3 DEF RestoreAccepted
  <2> DEFINE op == IF force THEN "restoring" ELSE "restore"
             call == [op |-> op, sid |-> s, force |-> force]
  <2>2. op \in Ops
    BY DEF Ops
  <2>3. call \in Served /\ s \in 1..started /\ spent' \in 0..MaxCalls
    <3> HIDE DEF op
    <3> QED
      BY <2>1, <2>2, TakesType DEF op
  <2>4. refs[s] \in Tree
    BY <1>3, <1>c DEF RestoreAccepted
  <2>5. CallMoves(c, s, call, sess[s])
    BY <1>3, <1>a, <1>b, <2>1, <2>3, <2>4 DEF RestoreAccepted, Takes, CallMoves
  <2> HIDE DEF call
  <2> QED
    BY <1>b, <2>3, <2>5, CallUpdate
<1> DEFINE s == calls[c].sid
<1>4. CASE SendResume(c)
  <2> DEFINE se == [sess[s] EXCEPT !.resume = 1]
  <2>1. s \in Sid
    BY <1>4, <1>d DEF SendResume
  <2>2. se \in Session /\ se.rounds = sess[s].rounds /\ se.restore = sess[s].restore
    BY <1>b, <2>1 DEF Session
  <2>3. sess' = [sess EXCEPT ![s] = se]
    BY <1>4, <1>a, <2>1 DEF SendResume
  <2>4. CallMoves(c, s, Idle, se)
    <3> HIDE DEF se, s
    <3> QED
      BY <1>4, <1>a, <2>2, <2>3 DEF SendResume, Answers, CallMoves
  <2> HIDE DEF se, s
  <2> QED
    BY <1>a, <2>1, <2>2, <2>4, CallUpdate
<1>5. CASE EndContext(c)
  <2> DEFINE se == [sess[s] EXCEPT !.ctxDone = TRUE]
  <2>1. s \in Sid
    BY <1>5, <1>d DEF EndContext
  <2>2. se \in Session /\ se.rounds = sess[s].rounds /\ se.restore = sess[s].restore
    BY <1>b, <2>1 DEF Session
  <2>3. sess' = [sess EXCEPT ![s] = se]
    BY <1>5, <1>a, <2>1 DEF EndContext
  <2>4. CallMoves(c, s, Idle, se)
    <3> HIDE DEF se, s
    <3> QED
      BY <1>5, <1>a, <2>2, <2>3 DEF EndContext, Answers, CallMoves
  <2> HIDE DEF se, s
  <2> QED
    BY <1>a, <2>1, <2>2, <2>4, CallUpdate
<1>6. CASE CheckUnedited(c)
  <2> DEFINE call == [calls[c] EXCEPT !.op = "restoring"]
  <2>1. s \in Sid /\ s \in 1..started /\ refs[s] \in Tree
    BY <1>6, <1>d DEF CheckUnedited
  <2>2. call \in Served /\ call.sid = s
    BY <1>a DEF Served, Ops
  <2>3. calls' = [calls EXCEPT ![c] = call]
    BY <1>6, <1>a DEF CheckUnedited
  <2>4. CallMoves(c, s, call, sess[s])
    <3> HIDE DEF call, s
    <3> QED
      BY <1>6, <1>a, <1>b, <2>1, <2>2, <2>3 DEF CheckUnedited, CallMoves
  <2> HIDE DEF call, s
  <2> QED
    BY <1>b, <2>1, <2>2, <2>4, CallUpdate
<1>7. CASE RestoreRefused(c)
  <2>1. s \in Sid
    BY <1>7, <1>d DEF RestoreRefused
  <2>2. CallMoves(c, s, Idle, sess[s])
    BY <1>7, <1>a, <1>b, <2>1 DEF RestoreRefused, Answers, CallMoves
  <2> HIDE DEF s
  <2> QED
    BY <1>a, <1>b, <2>1, <2>2, CallUpdate
<1>8. CASE PutFilesBack(c)
  <2> DEFINE se == [sess[s] EXCEPT !.restore = "restored"]
  <2>1. s \in Sid /\ refs[s] \in Tree
    BY <1>8, <1>d DEF PutFilesBack
  <2>2. se \in Session /\ se.rounds = sess[s].rounds
    BY <1>b, <2>1 DEF Session
  <2>3. sess' = [sess EXCEPT ![s] = se]
    BY <1>8, <1>a, <2>1 DEF PutFilesBack
  <2>4. tree' \in Tree
    <3>1. sess[s].paths \in SUBSET Path
      BY <1>b, <2>1 DEF Session
    <3> QED
      BY <1>8, <2>1, <3>1, PutBackType DEF PutFilesBack, TypeInv
  <2>5. CallMoves(c, s, Idle, se)
    <3> HIDE DEF se
    <3> QED
      BY <1>8, <1>a, <2>1, <2>2, <2>3, <2>4 DEF PutFilesBack, Answers, CallMoves
  <2> HIDE DEF se, s
  <2> QED
    BY <1>a, <2>1, <2>2, <2>5, CallUpdate
<1>9. CASE RestoreCut(c)
  <2>1. s \in Sid /\ refs[s] \in Tree
    BY <1>9, <1>d DEF RestoreCut
  <2>2. tree' \in Tree
    <3>1. PICK Q \in SUBSET sess[s].paths : tree' = PutBack(s, Q)
      BY <1>9 DEF RestoreCut
    <3>2. Q \in SUBSET Path
      BY <1>b, <2>1, <3>1 DEF Session
    <3> QED
      BY <2>1, <3>1, <3>2, PutBackType DEF TypeInv
  <2>3. CallMoves(c, s, Idle, sess[s])
    BY <1>9, <1>a, <1>b, <2>1, <2>2 DEF RestoreCut, Answers, CallMoves
  <2> HIDE DEF s
  <2> QED
    BY <1>a, <1>b, <2>1, <2>3, CallUpdate
<1> QED
  BY <1>1, <1>2, <1>3, <1>4, <1>5, <1>6, <1>7, <1>8, <1>9 DEF CallStep

LEMMA UserEditTypeInv ==
    ASSUME TypeInv, NEW p \in Path, UserEdit(p)
    PROVE  TypeInv'
<1> USE BoundsAssumption
<1>1. tree \in Tree /\ tree[p] \in File /\ edits \in 0..MaxEdits /\ edits + 1 \in Edit
      /\ edits' = edits + 1 /\ edits + 1 \in 0..MaxEdits
  BY DEF TypeInv, TypeOK, Tree, UserEdit, Edit
<1>2. PICK user \in {tree[p].user \cup {edits + 1}, {}}, fix \in {tree[p].fix, {}} :
         tree' = [tree EXCEPT ![p] = [user |-> user, fix |-> fix]]
  BY DEF UserEdit
<1>3. user \in SUBSET Edit /\ fix \in SUBSET Fix
  BY <1>1 DEF File
<1>4. [user |-> user, fix |-> fix] \in File
  BY <1>3 DEF File
<1>5. tree' \in Tree
  BY <1>1, <1>2, <1>4 DEF Tree
<1>6. TypeOK'
  BY <1>1, <1>5 DEF UserEdit, TypeInv, TypeOK
<1> QED
  BY <1>6 DEF UserEdit, TypeInv, RoundOpen, HasLooked, CallsKnown, PointSaved

LEMMA StopTypeInv == TypeInv /\ Stop => TypeInv'
<1> SUFFICES ASSUME TypeInv, Stop PROVE TypeInv'
  OBVIOUS
<1>1. ASSUME NEW s \in Sid
      PROVE  /\ sess'[s] \in Session
             /\ sess'[s].rounds = sess[s].rounds /\ sess'[s].restore = sess[s].restore
  BY ZenonT(40) DEF Stop, TypeInv, TypeOK, Session
<1>2. sess' \in [Sid -> Session]
  BY <1>1 DEF Stop
<1>3. TypeOK'
  BY <1>2 DEF Stop, TypeInv, TypeOK
<1>4. RoundOpen' /\ PointSaved'
  BY <1>1 DEF Stop, TypeInv, RoundOpen, PointSaved
<1> QED
  BY <1>3, <1>4 DEF Stop, TypeInv, HasLooked, CallsKnown

LEMMA CrashTypeInv == TypeInv /\ Crash => TypeInv'
<1> SUFFICES ASSUME TypeInv, Crash PROVE TypeInv'
  OBVIOUS
<1> USE BoundsAssumption
<1> DEFINE gone == [NewSession EXCEPT !.state = "lost"]
           over == [NewLoop EXCEPT !.pc = "over"]
<1>1. gone \in Session /\ over \in Loop /\ Idle \in Served
  <2>1. gone \in Session
    BY NewType DEF Session, SessionStates
  <2>2. over \in Loop
    BY NewType DEF Loop, Positions
  <2> QED
    BY <2>1, <2>2, NewType
<1>1a. over.pc = "over" /\ gone.restore = "none"
  BY DEF NewLoop, NewSession
<1> HIDE DEF gone, over
<1>2. /\ sess' = [s \in Sid |-> IF s <= started THEN gone ELSE sess[s]]
      /\ loop' = [s \in Sid |-> IF s <= started THEN over ELSE loop[s]]
      /\ calls' = [c \in Call |-> Idle]
      /\ refs' = refs /\ store' = {} /\ stopping' = FALSE
      /\ edits' = edits /\ started' = started /\ spent' = spent
  BY DEF Crash, RefsOnDisk, gone, over
<1>3. /\ sess' \in [Sid -> Session] /\ loop' \in [Sid -> Loop] /\ calls' \in [Call -> Served]
  BY <1>1, <1>2 DEF TypeInv, TypeOK
<1>4. tree' \in Tree /\ hist' \in [Sid -> History]
  <2>1. CASE UNCHANGED <<tree, hist>>
    BY <2>1 DEF TypeInv, TypeOK
  <2>2. CASE \E s \in Sid : \E Q \in SUBSET loop[s].patch :
            /\ loop[s].pc = "apply"
            /\ tree' = Patched(s, Q)
            /\ hist' = [hist EXCEPT ![s].wrote = @ \cup Q, ![s].torn = TRUE]
    <3>0. PICK s \in Sid : \E Q \in SUBSET loop[s].patch :
            /\ loop[s].pc = "apply"
            /\ tree' = Patched(s, Q)
            /\ hist' = [hist EXCEPT ![s].wrote = @ \cup Q, ![s].torn = TRUE]
      BY <2>2
    <3>1. PICK Q \in SUBSET loop[s].patch :
            /\ loop[s].pc = "apply"
            /\ tree' = Patched(s, Q)
            /\ hist' = [hist EXCEPT ![s].wrote = @ \cup Q, ![s].torn = TRUE]
      BY <3>0
    <3>2. Q \in SUBSET Path
      BY <3>1 DEF TypeInv, TypeOK, Loop
    <3>3. Len(sess[s].rounds) > 0
      BY <3>1 DEF TypeInv, RoundOpen, InRound
    <3>4. tree' \in Tree
      BY <3>1, <3>2, <3>3, PatchedType DEF TypeInv
    <3>5. [hist[s] EXCEPT !.wrote = @ \cup Q, !.torn = TRUE] \in History
      BY <3>2 DEF TypeInv, TypeOK, History
    <3> QED
      BY <3>1, <3>4, <3>5 DEF TypeInv, TypeOK
  <2> QED
    BY <2>1, <2>2 DEF Crash
<1>5. TypeOK'
  <2>1. crashes' \in 0..MaxCrashes
    BY DEF Crash, TypeInv, TypeOK
  <2> QED
    BY <1>2, <1>3, <1>4, <2>1 DEF TypeInv, TypeOK
<1>6. RoundOpen' /\ HasLooked'
  BY <1>1a, <1>2 DEF TypeInv, RoundOpen, HasLooked, InRound, Looked
<1>7. CallsKnown' /\ PointSaved'
  BY <1>1a, <1>2 DEF TypeInv, CallsKnown, PointSaved, Idle
<1> QED
  BY <1>5, <1>6, <1>7 DEF TypeInv

LEMMA NextTypeInv == TypeInv /\ [Next]_vars => TypeInv'
<1> SUFFICES ASSUME TypeInv, [Next]_vars PROVE TypeInv'
  OBVIOUS
<1>1. CASE UNCHANGED vars
  BY <1>1 DEF vars, TypeInv, TypeOK, RoundOpen, HasLooked, CallsKnown, PointSaved
<1>2. CASE Next
  BY <1>2, StartTypeInv, LoopTypeInv, CallTypeInv, UserEditTypeInv, StopTypeInv, CrashTypeInv
     DEF Next
<1> QED
  BY <1>1, <1>2

\* Every variable keeps its type: the rounds of a session stay a sequence of
\* rounds, a loop between its first look and its end has a tree to compare with,
\* the store holds sessions that were started, and the resume channel holds at most
\* one resume.
THEOREM TypeCorrect == Spec => []TypeOK
<1>1. TypeInv => TypeOK
  BY DEF TypeInv
<1> QED
  BY InitTypeInv, NextTypeInv, <1>1, PTL DEF Spec

-----------------------------------------------------------------------------
(***************************************************************************)
(* One active session at a time, the restore point, and the promise of     *)
(* ReviewSessions.                                                         *)
(***************************************************************************)

(* The inductive invariant. *)

\* A session not started yet is untouched.
Untouched ==
    \A s \in Sid : s > started => sess[s] = NewSession /\ loop[s] = NewLoop

\* A loop that has not ended belongs to a session that has not ended.
LoopActive == \A s \in Sid : loop[s].pc \notin {"idle", "over"} => Active(s)

ActiveStored == \A s \in Sid : Active(s) => s \in store

ActiveInv == TypeInv /\ Untouched /\ LoopActive /\ ActiveStored /\ OneActive

\* No file of t holds a fix of s.
Clean(t, s) == \A p \in Path : \A f \in t[p].fix : f[1] # s

\* As long as a session wrote nothing, its fixes are nowhere: not in the working
\* tree, in no restore point, and in no tree a loop will save.
NoTrace ==
    \A s \in Sid : hist[s].wrote = {} =>
        /\ Clean(tree, s)
        /\ \A t \in Sid : refs[t] \in Tree => Clean(refs[t], s)
        /\ \A t \in Sid : loop[t].expected \in Tree => Clean(loop[t].expected, s)

\* The session writes only once it has a restore point.
PointFirst == \A s \in Sid : loop[s].pc = "apply" => sess[s].restore # "none"

\* A restore point holds none of the session's own fixes.
PointClean == \A s \in Sid : refs[s] \in Tree => Clean(refs[s], s)

WriterHasPoint ==
    \A s \in Sid : hist[s].wrote # {} =>
        /\ refs[s] \in Tree
        /\ sess[s].state # "lost" => sess[s].restore # "none"

PointInv == ActiveInv /\ NoTrace /\ PointFirst /\ PointClean /\ WriterHasPoint

-----------------------------------------------------------------------------
(* What the loop's steps have in common. *)

\* All of a step but the three that write something: the tree, the restore points
\* and what was written stay, and the loop looks at the tree at most.
Quiet(s) ==
    /\ tree' = tree /\ refs' = refs
    /\ \A t \in Sid : hist'[t].wrote = hist[t].wrote
    /\ sess'[s].restore = sess[s].restore
    /\ loop'[s].expected \in {loop[s].expected, tree}
    /\ loop'[s].pc # "apply"

\* A step of s starts from a live position, ends as over only with the session
\* ended, and leaves the other sessions alone.
Frame(s) ==
    /\ loop[s].pc \notin {"idle", "over"}
    /\ loop'[s].pc # "idle"
    /\ sess'[s].state \in {"running", "paused"} \/ sess'[s].state = sess[s].state \/ loop'[s].pc = "over"
    /\ \A t \in Sid \ {s} : sess'[t] = sess[t] /\ loop'[t] = loop[t]
    /\ started' = started /\ store' = store

LEMMA LoopFrame ==
    ASSUME TypeInv, NEW s \in Sid, LoopStep(s)
    PROVE  Frame(s)
<1>1. sess \in [Sid -> Session] /\ loop \in [Sid -> Loop]
  BY DEF TypeInv, TypeOK
<1>2. sess[s] \in Session /\ loop[s] \in Loop
  BY <1>1
<1> USE <1>1, <1>2 DEF Frame, outside, Fails, Stops, Session, Loop
<1>a. CASE FirstLook(s) \/ RoundsSpent(s) \/ PauseBetweenRounds(s) \/ BeginRound(s)
  BY <1>a DEF FirstLook, RoundsSpent, PauseBetweenRounds, BeginRound
<1>b. CASE ReviewsFail(s) \/ NothingWorthChanging(s) \/ StartFix(s)
  BY <1>b DEF ReviewsFail, NothingWorthChanging, StartFix
<1>c. CASE FixFails(s) \/ FixIsEmpty(s) \/ FixMade(s)
  BY <1>c DEF FixFails, FixIsEmpty, FixMade
<1>d. CASE Supersede(s) \/ VerifyTree(s)
  BY <1>d DEF Supersede, VerifyTree
<1>e. CASE SaveRestorePoint(s) \/ ApplyRefused(s) \/ ApplyPatch(s) \/ ApplyCut(s)
  BY <1>e DEF SaveRestorePoint, ApplyRefused, ApplyPatch, ApplyCut
<1>f. CASE RecordFix(s) \/ RecordFails(s) \/ LookFails(s)
  BY <1>f DEF RecordFix, RecordFails, LookFails
<1>g. CASE Woken(s) \/ PauseCancelled(s) \/ Adopt(s)
  BY <1>g DEF Woken, PauseCancelled, Adopt
<1>h. CASE Settle(s)
  BY <1>h DEF Settle
<1> QED
  BY <1>a, <1>b, <1>c, <1>d, <1>e, <1>f, <1>g, <1>h DEF LoopStep

LEMMA LoopQuiet ==
    ASSUME TypeInv, NEW s \in Sid, LoopStep(s),
           ~SaveRestorePoint(s), ~ApplyPatch(s), ~ApplyCut(s)
    PROVE  Quiet(s)
<1>1. sess \in [Sid -> Session] /\ loop \in [Sid -> Loop] /\ hist \in [Sid -> History]
  BY DEF TypeInv, TypeOK
<1>2. sess[s] \in Session /\ loop[s] \in Loop /\ hist[s] \in History
  BY <1>1
<1>3. ASSUME \A t \in Sid : hist'[t].wrote = hist[t].wrote,
             tree' = tree, refs' = refs, sess'[s].restore = sess[s].restore,
             loop'[s].expected \in {loop[s].expected, tree}, loop'[s].pc # "apply"
      PROVE  Quiet(s)
  BY <1>3 DEF Quiet
<1> USE <1>1, <1>2 DEF Fails, Stops, Session, Loop, History
<1>4. CASE FirstLook(s)
  <2>1. \A t \in Sid : hist'[t].wrote = hist[t].wrote
    BY <1>4 DEF FirstLook
  <2> QED
    BY <1>4, <1>3, <2>1 DEF FirstLook
<1>5. CASE RoundsSpent(s)
  <2>1. \A t \in Sid : hist'[t].wrote = hist[t].wrote
    BY <1>5 DEF RoundsSpent
  <2> QED
    BY <1>5, <1>3, <2>1 DEF RoundsSpent
<1>6. CASE PauseBetweenRounds(s)
  <2>1. \A t \in Sid : hist'[t].wrote = hist[t].wrote
    BY <1>6 DEF PauseBetweenRounds
  <2> QED
    BY <1>6, <1>3, <2>1 DEF PauseBetweenRounds
<1>7. CASE BeginRound(s)
  <2>1. \A t \in Sid : hist'[t].wrote = hist[t].wrote
    BY <1>7 DEF BeginRound
  <2> QED
    BY <1>7, <1>3, <2>1 DEF BeginRound
<1>8. CASE ReviewsFail(s)
  <2>1. \A t \in Sid : hist'[t].wrote = hist[t].wrote
    BY <1>8 DEF ReviewsFail
  <2> QED
    BY <1>8, <1>3, <2>1 DEF ReviewsFail
<1>9. CASE NothingWorthChanging(s)
  <2>1. \A t \in Sid : hist'[t].wrote = hist[t].wrote
    BY <1>9 DEF NothingWorthChanging
  <2> QED
    BY <1>9, <1>3, <2>1 DEF NothingWorthChanging
<1>10. CASE StartFix(s)
  <2>1. \A t \in Sid : hist'[t].wrote = hist[t].wrote
    BY <1>10 DEF StartFix
  <2> QED
    BY <1>10, <1>3, <2>1 DEF StartFix
<1>11. CASE FixFails(s)
  <2>1. \A t \in Sid : hist'[t].wrote = hist[t].wrote
    BY <1>11 DEF FixFails
  <2> QED
    BY <1>11, <1>3, <2>1 DEF FixFails
<1>12. CASE FixIsEmpty(s)
  <2>1. \A t \in Sid : hist'[t].wrote = hist[t].wrote
    BY <1>12 DEF FixIsEmpty
  <2> QED
    BY <1>12, <1>3, <2>1 DEF FixIsEmpty
<1>13. CASE FixMade(s)
  <2>1. \A t \in Sid : hist'[t].wrote = hist[t].wrote
    BY <1>13 DEF FixMade
  <2> QED
    BY <1>13, <1>3, <2>1 DEF FixMade
<1>14. CASE Supersede(s)
  <2>1. \A t \in Sid : hist'[t].wrote = hist[t].wrote
    BY <1>14 DEF Supersede
  <2> QED
    BY <1>14, <1>3, <2>1 DEF Supersede
<1>15. CASE VerifyTree(s)
  <2>1. \A t \in Sid : hist'[t].wrote = hist[t].wrote
    BY <1>15 DEF VerifyTree
  <2> QED
    BY <1>15, <1>3, <2>1 DEF VerifyTree
<1>16. CASE ApplyRefused(s)
  <2>1. \A t \in Sid : hist'[t].wrote = hist[t].wrote
    BY <1>16 DEF ApplyRefused
  <2> QED
    BY <1>16, <1>3, <2>1 DEF ApplyRefused
<1>17. CASE RecordFix(s)
  <2>1. \A t \in Sid : hist'[t].wrote = hist[t].wrote
    BY <1>17 DEF RecordFix
  <2> QED
    BY <1>17, <1>3, <2>1 DEF RecordFix
<1>18. CASE RecordFails(s)
  <2>1. \A t \in Sid : hist'[t].wrote = hist[t].wrote
    BY <1>18 DEF RecordFails
  <2> QED
    BY <1>18, <1>3, <2>1 DEF RecordFails
<1>19. CASE LookFails(s)
  <2>1. \A t \in Sid : hist'[t].wrote = hist[t].wrote
    BY <1>19 DEF LookFails
  <2> QED
    BY <1>19, <1>3, <2>1 DEF LookFails
<1>20. CASE Woken(s)
  <2>1. \A t \in Sid : hist'[t].wrote = hist[t].wrote
    BY <1>20 DEF Woken
  <2> QED
    BY <1>20, <1>3, <2>1 DEF Woken
<1>21. CASE PauseCancelled(s)
  <2>1. \A t \in Sid : hist'[t].wrote = hist[t].wrote
    BY <1>21 DEF PauseCancelled
  <2> QED
    BY <1>21, <1>3, <2>1 DEF PauseCancelled
<1>22. CASE Adopt(s)
  <2>1. \A t \in Sid : hist'[t].wrote = hist[t].wrote
    BY <1>22 DEF Adopt
  <2> QED
    BY <1>22, <1>3, <2>1 DEF Adopt
<1>23. CASE Settle(s)
  <2>1. \A t \in Sid : hist'[t].wrote = hist[t].wrote
    BY <1>23 DEF Settle
  <2> QED
    BY <1>23, <1>3, <2>1 DEF Settle
<1> QED
  BY <1>4, <1>5, <1>6, <1>7, <1>8, <1>9, <1>10, <1>11, <1>12, <1>13, <1>14, <1>15, <1>16, <1>17, <1>18, <1>19, <1>20, <1>21, <1>22, <1>23 DEF LoopStep

-----------------------------------------------------------------------------
(* One session at a time. *)

LEMMA InitActiveInv == Init => ActiveInv
<1> SUFFICES ASSUME Init PROVE ActiveInv
  OBVIOUS
<1>1. TypeInv
  BY InitTypeInv
<1>2. Untouched /\ LoopActive /\ ActiveStored /\ OneActive
  BY DEF Init, Untouched, LoopActive, ActiveStored, OneActive, Active, NewSession, NewLoop
<1> QED
  BY <1>1, <1>2 DEF ActiveInv

LEMMA StartActiveInv == ActiveInv /\ StartSession => ActiveInv'
<1> SUFFICES ASSUME ActiveInv, StartSession PROVE ActiveInv'
  OBVIOUS
<1> DEFINE n == started + 1
<1>1. TypeInv'
  BY StartTypeInv DEF ActiveInv
<1>2. /\ n \in Sid /\ started' = n /\ started \in Nat
      /\ sess \in [Sid -> Session] /\ loop \in [Sid -> Loop]
      /\ store \subseteq 1..started /\ n \notin store /\ Sid \subseteq Nat
  BY BoundsAssumption DEF ActiveInv, TypeInv, TypeOK, StartSession, Sid
<1>3. /\ \A t \in Sid \ {n} : sess'[t] = sess[t] /\ loop'[t] = loop[t]
      /\ sess'[n].state = "running"
  BY <1>2 DEF StartSession, NewSession
<1>4. \A t \in Sid : ~Active(t)
  BY DEF StartSession, ActiveInv, ActiveStored, Busy
<1>5. n \in store'
  <2>1. ~Finished(n)
    BY <1>2 DEF ActiveInv, Untouched, NewSession, Finished
  <2>2. store' = (store \cup {n}) \ Evicted(store \cup {n})
    BY DEF StartSession
  <2>3. n \notin Evicted(store \cup {n})
    BY <2>1 DEF Evicted
  <2> QED
    BY <2>2, <2>3
<1> HIDE DEF n
<1>6. \A t \in Sid : Active(t)' => t = n
  BY <1>3, <1>4 DEF Active
<1>7. Untouched'
  BY <1>2, <1>3 DEF ActiveInv, Untouched, n
<1>8. LoopActive'
  BY <1>2, <1>3, <1>4 DEF ActiveInv, LoopActive, Active
<1>9. ActiveStored' /\ OneActive'
  BY <1>5, <1>6 DEF ActiveStored, OneActive
<1> QED
  BY <1>1, <1>7, <1>8, <1>9 DEF ActiveInv

LEMMA LoopActiveInv ==
    ASSUME ActiveInv, NEW s \in Sid, LoopStep(s)
    PROVE  ActiveInv'
<1>1. TypeInv' /\ Frame(s)
  BY LoopTypeInv, LoopFrame DEF ActiveInv
<1>2. Active(s)
  BY <1>1 DEF Frame, ActiveInv, LoopActive
<1>3. \A t \in Sid \ {s} : Active(t)' <=> Active(t)
  BY <1>1 DEF Frame, Active
<1>4. Untouched'
  <2>1. loop[s] # NewLoop
    BY <1>1 DEF Frame, NewLoop
  <2> QED
    BY <1>1, <2>1 DEF Frame, ActiveInv, Untouched
<1>5. LoopActive'
  BY <1>1, <1>2, <1>3 DEF Frame, ActiveInv, LoopActive, Active
<1>6. ActiveStored' /\ OneActive'
  BY <1>1, <1>2, <1>3 DEF Frame, ActiveInv, ActiveStored, OneActive
<1> QED
  BY <1>1, <1>4, <1>5, <1>6 DEF ActiveInv

\* A handler's step leaves the state of every session, and the loops, alone, and
\* changes only sessions that were started.
HandlerFrame ==
    /\ loop' = loop /\ started' = started /\ store' = store
    /\ \A s \in Sid : /\ sess'[s].state = sess[s].state
                      /\ s > started => sess'[s] = sess[s]

LEMMA CallFrame ==
    ASSUME TypeInv, NEW c \in Call,
           CallStep(c) \/ \E s \in Sid :
             ResumeAccepted(c, s) \/ CancelAccepted(c, s) \/ RestoreAccepted(c, s)
    PROVE  HandlerFrame
<1>1. sess \in [Sid -> Session] /\ store \subseteq 1..started
  BY DEF TypeInv, TypeOK
<1>2. calls[c].op # "idle" => calls[c].sid \in 1..started
  BY DEF TypeInv, CallsKnown
<1>3. \A s \in Sid : s \in Nat /\ started \in Nat
  BY BoundsAssumption DEF Sid, TypeInv, TypeOK
<1> USE <1>1, <1>2, <1>3 DEF HandlerFrame, Session
<1>4. ASSUME NEW s \in Sid, ResumeAccepted(c, s) \/ CancelAccepted(c, s) \/ RestoreAccepted(c, s)
      PROVE  HandlerFrame
  <2>1. s \in 1..started /\ sess[s] \in Session
    BY <1>4 DEF ResumeAccepted, CancelAccepted, RestoreAccepted, Takes
  <2>2. sess' = sess \/ sess' = [sess EXCEPT ![s].cancelled = TRUE]
    BY <1>4 DEF ResumeAccepted, CancelAccepted, RestoreAccepted
  <2>3. loop' = loop /\ started' = started /\ store' = store
    BY <1>4 DEF ResumeAccepted, CancelAccepted, RestoreAccepted
  <2>4. \A t \in Sid : sess'[t].state = sess[t].state
    BY <2>1, <2>2
  <2>5. \A t \in Sid : t > started => sess'[t] = sess[t]
    <3>1. \A t \in Sid \ {s} : sess'[t] = sess[t]
      BY <2>2
    <3>2. ~(s > started)
      BY <2>1
    <3> QED
      BY <3>1, <3>2
  <2> QED
    BY <2>3, <2>4, <2>5
<1>5. CASE SendResume(c) \/ EndContext(c) \/ PutFilesBack(c)
  BY <1>5, SMTT(30) DEF SendResume, EndContext, PutFilesBack
<1>6. CASE CheckUnedited(c) \/ RestoreRefused(c) \/ RestoreCut(c)
  BY <1>6 DEF CheckUnedited, RestoreRefused, RestoreCut
<1> QED
  BY <1>4, <1>5, <1>6 DEF CallStep

LEMMA HandlerActiveInv ==
    ASSUME ActiveInv, HandlerFrame, TypeInv'
    PROVE  ActiveInv'
<1>1. \A s \in Sid : Active(s)' <=> Active(s)
  BY DEF HandlerFrame, Active
<1>2. Untouched'
  BY DEF HandlerFrame, ActiveInv, Untouched
<1>3. LoopActive' /\ ActiveStored' /\ OneActive'
  BY <1>1 DEF HandlerFrame, ActiveInv, LoopActive, ActiveStored, OneActive
<1> QED
  BY <1>2, <1>3 DEF ActiveInv

LEMMA StopFrame == ActiveInv /\ Stop => HandlerFrame
<1> SUFFICES ASSUME ActiveInv, Stop, NEW s \in Sid
             PROVE  /\ sess'[s].state = sess[s].state
                    /\ s > started => sess'[s] = sess[s]
  BY DEF Stop, HandlerFrame
<1>1. sess[s] \in Session
  BY DEF ActiveInv, TypeInv, TypeOK
<1>2. s > started => ~Active(s)
  BY DEF ActiveInv, Untouched, Active, NewSession
<1> QED
  BY <1>1, <1>2 DEF Stop, Session

LEMMA CrashActiveInv == ActiveInv /\ Crash => ActiveInv'
<1> SUFFICES ASSUME ActiveInv, Crash PROVE ActiveInv'
  OBVIOUS
<1>1. TypeInv'
  BY CrashTypeInv DEF ActiveInv
<1>2. started' = started
  BY DEF Crash
<1>3. ASSUME NEW s \in Sid
      PROVE  /\ s > started => sess'[s] = sess[s] /\ loop'[s] = loop[s]
             /\ sess'[s].state \in {"lost", "none"}
             /\ loop'[s].pc \in {"over", "idle"}
  <2>1. started \in Nat /\ s \in Nat
    BY BoundsAssumption DEF ActiveInv, TypeInv, TypeOK, Sid
  <2>2. CASE s <= started
    BY <2>1, <2>2 DEF Crash, NewSession, NewLoop
  <2>3. CASE s > started
    BY <2>1, <2>3 DEF Crash, ActiveInv, Untouched, NewSession, NewLoop
  <2> QED
    BY <2>1, <2>2, <2>3
<1>4. Untouched'
  BY <1>2, <1>3 DEF ActiveInv, Untouched
<1>5. LoopActive' /\ ActiveStored' /\ OneActive'
  BY <1>3 DEF LoopActive, ActiveStored, OneActive, Active
<1> QED
  BY <1>1, <1>4, <1>5 DEF ActiveInv

LEMMA NextActiveInv == ActiveInv /\ [Next]_vars => ActiveInv'
<1> SUFFICES ASSUME ActiveInv, [Next]_vars PROVE ActiveInv'
  OBVIOUS
<1>1. TypeInv /\ TypeInv'
  BY NextTypeInv DEF ActiveInv
<1>2. CASE StartSession
  BY <1>2, StartActiveInv
<1>3. CASE \E s \in Sid : LoopStep(s)
  BY <1>3, LoopActiveInv
<1>4. CASE \E c \in Call : CallStep(c) \/ \E s \in Sid :
             ResumeAccepted(c, s) \/ CancelAccepted(c, s) \/ RestoreAccepted(c, s)
  BY <1>1, <1>4, CallFrame, HandlerActiveInv
<1>5. CASE \E p \in Path : UserEdit(p)
  BY <1>1, <1>5, HandlerActiveInv DEF UserEdit, HandlerFrame
<1>6. CASE Stop
  BY <1>1, <1>6, StopFrame, HandlerActiveInv
<1>7. CASE Crash
  BY <1>7, CrashActiveInv
<1>8. CASE UNCHANGED vars
  BY <1>1, <1>8, HandlerActiveInv DEF vars, HandlerFrame
<1> QED
  BY <1>2, <1>3, <1>4, <1>5, <1>6, <1>7, <1>8 DEF Next

\* At most one session of the project is running or paused, whatever the handlers,
\* crashes and evictions do in between: the store forgets only sessions that ended.
THEOREM OneAtATime == Spec => []OneActive
<1>1. ActiveInv => OneActive
  BY DEF ActiveInv
<1> QED
  BY InitActiveInv, NextActiveInv, <1>1, PTL DEF Spec

-----------------------------------------------------------------------------
(* Nothing is written without a restore point. *)

\* No session loses its restore point, unless the daemon loses the session, and
\* none gets to the write but by saving its restore point.
PointsStay ==
    \A t \in Sid :
        /\ sess[t].restore # "none" \/ sess[t].state = "lost"
             => sess'[t].restore # "none" \/ sess'[t].state = "lost"
        /\ loop'[t].pc = "apply" => loop[t].pc = "apply" /\ sess'[t].restore # "none"

LEMMA InitPointInv == Init => PointInv
<1> SUFFICES ASSUME Init PROVE PointInv
  OBVIOUS
<1>1. ActiveInv
  BY InitActiveInv
<1>3. NoTrace
  BY NoTreeAssumption DEF Init, NoTrace, NewLoop, Clean, EmptyTree
<1>4. PointFirst /\ PointClean /\ WriterHasPoint
  BY NoTreeAssumption DEF Init, PointFirst, PointClean, WriterHasPoint, NewLoop, NewHistory
<1> QED
  BY <1>1, <1>3, <1>4 DEF PointInv

\* A step that writes nothing of any session into the tree keeps the invariant.
LEMMA PointKept ==
    ASSUME PointInv, ActiveInv', PointsStay, refs' = refs,
           \A t \in Sid : hist'[t].wrote = hist[t].wrote,
           \A t \in Sid : hist[t].wrote = {} => Clean(tree', t),
           \A t \in Sid : loop'[t].expected \in {loop[t].expected, tree, NoTree}
    PROVE  PointInv'
<1>1. NoTrace'
  BY NoTreeAssumption DEF PointInv, NoTrace, Clean
<1>2. PointFirst' /\ PointClean' /\ WriterHasPoint'
  BY DEF PointInv, PointsStay, PointFirst, PointClean, WriterHasPoint, Clean
<1> QED
  BY <1>1, <1>2 DEF PointInv

\* A write of s, whole or cut short, by a session that has its restore point.
LEMMA PointWritten ==
    ASSUME PointInv, ActiveInv', PointsStay, refs' = refs,
           NEW s \in Sid, NEW Q \in SUBSET Path, loop[s].pc = "apply",
           tree' = Patched(s, Q),
           hist'[s].wrote = hist[s].wrote \cup Q,
           \A t \in Sid \ {s} : hist'[t].wrote = hist[t].wrote,
           \A t \in Sid : loop'[t].expected \in {loop[t].expected, NoTree}
    PROVE  PointInv'
<1>1. sess[s].restore # "none" /\ refs[s] \in Tree
  BY DEF PointInv, PointFirst, ActiveInv, TypeInv, PointSaved
<1>2. \A t \in Sid : hist'[t].wrote = {} => Clean(tree', t)
  <2> SUFFICES ASSUME NEW t \in Sid, hist'[t].wrote = {},
                      NEW p \in Path, NEW f \in tree'[p].fix
               PROVE  f[1] # t
    BY DEF Clean
  <2>1. hist[t].wrote = {} /\ (t = s => Q = {})
    OBVIOUS
  <2>2. \A g \in tree[p].fix : g[1] # t
    BY <2>1 DEF PointInv, NoTrace, Clean
  <2>3. tree'[p] = IF p \in Q
                   THEN [user |-> tree[p].user, fix |-> tree[p].fix \cup {<<s, Last(s).number>>}]
                   ELSE tree[p]
    BY DEF Patched
  <2>4. CASE p \in Q
    BY <2>1, <2>2, <2>3, <2>4
  <2>5. CASE p \notin Q
    BY <2>2, <2>3, <2>5
  <2> QED
    BY <2>4, <2>5
<1>3. \A t \in Sid : hist'[t].wrote = {} => hist[t].wrote = {}
  OBVIOUS
<1>4. NoTrace'
  BY <1>2, <1>3, NoTreeAssumption DEF PointInv, NoTrace, Clean
<1>5. PointFirst' /\ PointClean'
  BY DEF PointInv, PointsStay, PointFirst, PointClean, Clean
<1>6. WriterHasPoint'
  BY <1>1 DEF PointInv, PointsStay, WriterHasPoint
<1> QED
  BY <1>4, <1>5, <1>6 DEF PointInv

LEMMA SavePointInv ==
    ASSUME PointInv, ActiveInv', NEW s \in Sid, SaveRestorePoint(s)
    PROVE  PointInv'
<1>1. /\ sess \in [Sid -> Session] /\ loop \in [Sid -> Loop] /\ refs \in [Sid -> Tree \cup {NoTree}]
      /\ loop[s].expected \in Tree
  BY DEF PointInv, ActiveInv, TypeInv, TypeOK, HasLooked, Looked, InRound, SaveRestorePoint
<1>2. /\ tree' = tree /\ hist' = hist
      /\ \A t \in Sid \ {s} : sess'[t] = sess[t] /\ loop'[t] = loop[t] /\ refs'[t] = refs[t]
      /\ loop'[s].expected = loop[s].expected
      /\ sess'[s].restore # "none"
  BY <1>1 DEF SaveRestorePoint, Session, Loop
<1>3. Active(s)
  BY DEF SaveRestorePoint, PointInv, ActiveInv, LoopActive
<1>4. CASE sess[s].restore = "none"
  <2>1. refs'[s] = loop[s].expected
    BY <1>1, <1>4 DEF SaveRestorePoint
  <2>2. hist[s].wrote = {}
    BY <1>3, <1>4 DEF PointInv, WriterHasPoint, Active
  <2>3. Clean(refs'[s], s)
    BY <1>1, <2>1, <2>2 DEF PointInv, NoTrace
  <2>4. NoTrace'
    BY <1>1, <1>2, <2>1 DEF PointInv, NoTrace, Clean
  <2>5. PointClean'
    BY <1>2, <2>3 DEF PointInv, PointClean, Clean
  <2>6. PointFirst' /\ WriterHasPoint'
    BY <1>1, <1>2, <2>1 DEF PointInv, PointFirst, WriterHasPoint
  <2> QED
    BY <2>4, <2>5, <2>6 DEF PointInv
<1>5. CASE sess[s].restore # "none"
  <2>1. refs' = refs /\ sess' = sess
    BY <1>5 DEF SaveRestorePoint
  <2>2. NoTrace' /\ PointClean'
    BY <1>2, <2>1 DEF PointInv, NoTrace, PointClean, Clean
  <2>3. PointFirst' /\ WriterHasPoint'
    BY <1>2, <2>1 DEF PointInv, PointFirst, WriterHasPoint
  <2> QED
    BY <2>2, <2>3 DEF PointInv
<1> QED
  BY <1>4, <1>5

LEMMA LoopPointInv ==
    ASSUME PointInv, ActiveInv', NEW s \in Sid, LoopStep(s)
    PROVE  PointInv'
<1>1. Frame(s) /\ TypeInv
  BY LoopFrame DEF PointInv, ActiveInv
<1>2. /\ sess \in [Sid -> Session] /\ loop \in [Sid -> Loop] /\ hist \in [Sid -> History]
      /\ loop[s].patch \in SUBSET Path
  BY <1>1 DEF TypeInv, TypeOK, Loop
<1>3. CASE SaveRestorePoint(s)
  BY <1>3, SavePointInv
<1>4. CASE ApplyPatch(s)
  <2>1. /\ loop[s].pc = "apply" /\ refs' = refs /\ tree' = Patched(s, loop[s].patch)
        /\ hist'[s].wrote = hist[s].wrote \cup loop[s].patch
        /\ \A t \in Sid \ {s} : hist'[t].wrote = hist[t].wrote
    BY <1>2, <1>4 DEF ApplyPatch, History
  <2>2. /\ sess' = sess /\ loop'[s].expected = loop[s].expected /\ loop'[s].pc = "record"
        /\ \A t \in Sid \ {s} : loop'[t] = loop[t]
    BY <1>2, <1>4 DEF ApplyPatch, Loop
  <2>3. PointsStay
    BY <2>2 DEF PointsStay, PointInv, PointFirst
  <2> QED
    BY <1>2, <2>1, <2>2, <2>3, PointWritten
<1>5. CASE ApplyCut(s)
  <2>1. PICK Q \in SUBSET loop[s].patch :
          /\ tree' = Patched(s, Q)
          /\ hist' = [hist EXCEPT ![s].wrote = @ \cup Q, ![s].torn = TRUE]
    BY <1>5 DEF ApplyCut
  <2>2. /\ loop[s].pc = "apply" /\ refs' = refs /\ Q \in SUBSET Path
        /\ hist'[s].wrote = hist[s].wrote \cup Q
        /\ \A t \in Sid \ {s} : hist'[t].wrote = hist[t].wrote
    BY <1>2, <1>5, <2>1 DEF ApplyCut, History
  <2>3. /\ sess'[s].restore = sess[s].restore /\ sess'[s].state = sess[s].state
        /\ \A t \in Sid \ {s} : sess'[t] = sess[t]
    BY <1>2, <1>5 DEF ApplyCut, Session
  <2>4. /\ loop'[s].expected = loop[s].expected /\ loop'[s].pc = "settle"
        /\ \A t \in Sid \ {s} : loop'[t] = loop[t]
    BY <1>2, <1>5 DEF ApplyCut, Fails, Loop
  <2>5. PointsStay
    BY <2>3, <2>4 DEF PointsStay, PointInv, PointFirst
  <2> QED
    BY <2>1, <2>2, <2>4, <2>5, PointWritten
<1>6. CASE ~SaveRestorePoint(s) /\ ~ApplyPatch(s) /\ ~ApplyCut(s)
  <2>1. Quiet(s)
    BY <1>1, <1>6, LoopQuiet
  <2>2. Active(s)
    BY <1>1 DEF Frame, PointInv, ActiveInv, LoopActive
  <2>3. PointsStay
    BY <1>1, <2>1, <2>2 DEF Frame, Quiet, PointsStay, PointInv, PointFirst, Active
  <2>4. \A t \in Sid : loop'[t].expected \in {loop[t].expected, tree, NoTree}
    BY <1>1, <2>1 DEF Frame, Quiet
  <2>5. \A t \in Sid : hist[t].wrote = {} => Clean(tree', t)
    BY <2>1 DEF Quiet, PointInv, NoTrace
  <2> QED
    BY <2>1, <2>3, <2>4, <2>5, PointKept DEF Quiet
<1> QED
  BY <1>3, <1>4, <1>5, <1>6

\* The handlers change the tree only by putting back files of a restore point.
LEMMA CallPoints ==
    ASSUME PointInv, NEW c \in Call,
           CallStep(c) \/ \E s \in Sid :
             ResumeAccepted(c, s) \/ CancelAccepted(c, s) \/ RestoreAccepted(c, s)
    PROVE  /\ PointsStay /\ refs' = refs /\ loop' = loop
           /\ \A t \in Sid : hist'[t].wrote = hist[t].wrote
           /\ tree' = tree \/ \E s \in Sid, Q \in SUBSET Path :
                                refs[s] \in Tree /\ tree' = PutBack(s, Q)
<1>1. /\ sess \in [Sid -> Session] /\ hist \in [Sid -> History]
      /\ calls[c].op # "idle" => calls[c].sid \in Sid
      /\ calls[c].op = "restoring" => refs[calls[c].sid] \in Tree
      /\ \A s \in Sid : sess[s].paths \in SUBSET Path
  BY BoundsAssumption DEF PointInv, ActiveInv, TypeInv, TypeOK, CallsKnown, Sid, Session
<1>2. ASSUME sess' = sess, loop' = loop PROVE PointsStay
  BY <1>2 DEF PointsStay, PointInv, PointFirst
<1>3. ASSUME NEW s \in Sid, loop' = loop,
             \A t \in Sid \ {s} : sess'[t] = sess[t],
             sess'[s].restore \in {sess[s].restore, "restored"}, sess'[s].state = sess[s].state
      PROVE  PointsStay
  BY <1>3 DEF PointsStay, PointInv, PointFirst
<1>4. ASSUME NEW s \in Sid, ResumeAccepted(c, s)
      PROVE  /\ PointsStay /\ refs' = refs /\ loop' = loop /\ tree' = tree
             /\ \A t \in Sid : hist'[t].wrote = hist[t].wrote
  <2>1. /\ refs' = refs /\ loop' = loop /\ tree' = tree /\ sess' = sess
        /\ \A t \in Sid : hist'[t].wrote = hist[t].wrote
    BY <1>1, <1>4 DEF ResumeAccepted, History
  <2> QED
    BY <1>2, <2>1
<1>5. ASSUME NEW s \in Sid, CancelAccepted(c, s)
      PROVE  /\ PointsStay /\ refs' = refs /\ loop' = loop /\ tree' = tree /\ hist' = hist
  <2>1. /\ refs' = refs /\ loop' = loop /\ tree' = tree /\ hist' = hist
        /\ sess'[s].restore = sess[s].restore /\ sess'[s].state = sess[s].state
        /\ \A t \in Sid \ {s} : sess'[t] = sess[t]
    BY <1>1, <1>5 DEF CancelAccepted, Session
  <2> QED
    BY <1>3, <2>1
<1>6. ASSUME NEW s \in Sid, RestoreAccepted(c, s)
      PROVE  /\ PointsStay /\ refs' = refs /\ loop' = loop /\ tree' = tree /\ hist' = hist
  BY <1>2, <1>6 DEF RestoreAccepted
<1> DEFINE s == calls[c].sid
<1>7. ASSUME SendResume(c) \/ EndContext(c)
      PROVE  /\ PointsStay /\ refs' = refs /\ loop' = loop /\ tree' = tree /\ hist' = hist
  <2>1. s \in Sid
    BY <1>1, <1>7 DEF SendResume, EndContext
  <2>2. /\ refs' = refs /\ loop' = loop /\ tree' = tree /\ hist' = hist
        /\ sess'[s].restore = sess[s].restore /\ sess'[s].state = sess[s].state
        /\ \A t \in Sid \ {s} : sess'[t] = sess[t]
    BY <1>1, <1>7, <2>1, SMTT(30) DEF SendResume, EndContext, Session
  <2> QED
    BY <1>3, <2>1, <2>2
<1>8. ASSUME CheckUnedited(c) \/ RestoreRefused(c)
      PROVE  /\ PointsStay /\ refs' = refs /\ loop' = loop /\ tree' = tree /\ hist' = hist
  BY <1>2, <1>8 DEF CheckUnedited, RestoreRefused
<1>9. ASSUME PutFilesBack(c)
      PROVE  /\ PointsStay /\ refs' = refs /\ loop' = loop /\ hist' = hist
             /\ s \in Sid /\ refs[s] \in Tree /\ tree' = PutBack(s, sess[s].paths)
  <2>1. s \in Sid /\ refs[s] \in Tree
    BY <1>1, <1>9 DEF PutFilesBack
  <2>2. /\ refs' = refs /\ loop' = loop /\ hist' = hist /\ tree' = PutBack(s, sess[s].paths)
        /\ sess'[s].restore = "restored" /\ sess'[s].state = sess[s].state
        /\ \A t \in Sid \ {s} : sess'[t] = sess[t]
    BY <1>1, <1>9, <2>1 DEF PutFilesBack, Session
  <2> QED
    BY <1>3, <2>1, <2>2
<1>10. ASSUME RestoreCut(c)
       PROVE  /\ PointsStay /\ refs' = refs /\ loop' = loop /\ hist' = hist
              /\ s \in Sid /\ refs[s] \in Tree
              /\ \E Q \in SUBSET sess[s].paths : tree' = PutBack(s, Q)
  BY <1>1, <1>2, <1>10 DEF RestoreCut
<1> HIDE DEF s
<1>11. CASE CallStep(c)
  BY <1>1, <1>7, <1>8, <1>9, <1>10, <1>11 DEF CallStep
<1>12. CASE \E r \in Sid : ResumeAccepted(c, r) \/ CancelAccepted(c, r) \/ RestoreAccepted(c, r)
  BY <1>4, <1>5, <1>6, <1>12
<1> QED
  BY <1>11, <1>12

LEMMA CallPointInv ==
    ASSUME PointInv, ActiveInv', NEW c \in Call,
           CallStep(c) \/ \E s \in Sid :
             ResumeAccepted(c, s) \/ CancelAccepted(c, s) \/ RestoreAccepted(c, s)
    PROVE  PointInv'
<1>1. /\ PointsStay /\ refs' = refs /\ loop' = loop
      /\ \A t \in Sid : hist'[t].wrote = hist[t].wrote
      /\ tree' = tree \/ \E s \in Sid, Q \in SUBSET Path :
                           refs[s] \in Tree /\ tree' = PutBack(s, Q)
  BY CallPoints
<1>2. ASSUME NEW t \in Sid, hist[t].wrote = {} PROVE Clean(tree', t)
  <2>1. CASE tree' = tree
    BY <1>2, <2>1 DEF PointInv, NoTrace
  <2>2. CASE \E s \in Sid, Q \in SUBSET Path : refs[s] \in Tree /\ tree' = PutBack(s, Q)
    BY <1>2, <2>2 DEF PointInv, NoTrace, Clean, PutBack
  <2> QED
    BY <1>1, <2>1, <2>2
<1> QED
  BY <1>1, <1>2, PointKept

LEMMA StartPointInv == PointInv /\ ActiveInv' /\ StartSession => PointInv'
<1> SUFFICES ASSUME PointInv, ActiveInv', StartSession PROVE PointInv'
  OBVIOUS
<1> DEFINE n == started + 1
<1>1. n \in Sid /\ sess[n] = NewSession /\ loop \in [Sid -> Loop] /\ sess \in [Sid -> Session]
  BY BoundsAssumption
     DEF PointInv, ActiveInv, TypeInv, TypeOK, Untouched, StartSession, Sid
<1>2. /\ tree' = tree /\ refs' = refs /\ hist' = hist
      /\ \A t \in Sid \ {n} : sess'[t] = sess[t] /\ loop'[t] = loop[t]
      /\ loop'[n].pc = "start" /\ loop'[n].expected = loop[n].expected
  BY <1>1 DEF StartSession, Loop
<1>3. sess[n].restore = "none" /\ sess[n].state = "none"
  BY <1>1 DEF NewSession
<1> HIDE DEF n
<1>4. PointsStay
  BY <1>1, <1>2, <1>3 DEF PointsStay, PointInv, PointFirst
<1>5. \A t \in Sid : hist[t].wrote = {} => Clean(tree', t)
  BY <1>2 DEF PointInv, NoTrace
<1> QED
  BY <1>1, <1>2, <1>4, <1>5, PointKept

LEMMA EditPointInv ==
    ASSUME PointInv, ActiveInv', NEW p \in Path, UserEdit(p)
    PROVE  PointInv'
<1>1. PointsStay /\ refs' = refs /\ loop' = loop /\ hist' = hist
  BY DEF UserEdit, PointsStay, PointInv, PointFirst
<1>2. ASSUME NEW t \in Sid, hist[t].wrote = {} PROVE Clean(tree', t)
  <2>1. PICK user \in {tree[p].user \cup {edits + 1}, {}}, fix \in {tree[p].fix, {}} :
           tree' = [tree EXCEPT ![p] = [user |-> user, fix |-> fix]]
    BY DEF UserEdit
  <2>2. tree \in Tree
    BY DEF PointInv, ActiveInv, TypeInv, TypeOK
  <2>3. \A q \in Path : tree'[q].fix = tree[q].fix \/ tree'[q].fix = {}
    BY <2>1, <2>2 DEF Tree
  <2> QED
    BY <1>2, <2>3 DEF PointInv, NoTrace, Clean
<1> QED
  BY <1>1, <1>2, PointKept

LEMMA StopPointInv == PointInv /\ ActiveInv' /\ Stop => PointInv'
<1> SUFFICES ASSUME PointInv, ActiveInv', Stop PROVE PointInv'
  OBVIOUS
<1>1. \A t \in Sid : sess'[t].restore = sess[t].restore /\ sess'[t].state = sess[t].state
  BY DEF Stop, PointInv, ActiveInv, TypeInv, TypeOK, Session
<1>2. PointsStay /\ refs' = refs /\ loop' = loop /\ hist' = hist /\ tree' = tree
  BY <1>1 DEF Stop, PointsStay, PointInv, PointFirst
<1>3. \A t \in Sid : hist[t].wrote = {} => Clean(tree', t)
  BY <1>2 DEF PointInv, NoTrace
<1> QED
  BY <1>2, <1>3, PointKept

LEMMA CrashPointInv == PointInv /\ ActiveInv' /\ Crash => PointInv'
<1> SUFFICES ASSUME PointInv, ActiveInv', Crash PROVE PointInv'
  OBVIOUS
<1>1. refs' = refs
  BY DEF Crash, RefsOnDisk
<1>2. ASSUME NEW t \in Sid
      PROVE  /\ sess'[t].state = "lost" \/ sess'[t] = sess[t]
             /\ loop'[t] = [NewLoop EXCEPT !.pc = "over"] \/ (loop'[t] = loop[t] /\ loop[t] = NewLoop)
  <2>1. started \in Nat /\ t \in Nat
    BY BoundsAssumption DEF PointInv, ActiveInv, TypeInv, TypeOK, Sid
  <2>2. CASE t <= started
    <3> DEFINE gone == [NewSession EXCEPT !.state = "lost"]
               over == [NewLoop EXCEPT !.pc = "over"]
    <3>1. sess'[t] = gone /\ loop'[t] = over
      BY <2>2 DEF Crash
    <3>2. gone.state = "lost"
      BY DEF NewSession
    <3> HIDE DEF gone
    <3> QED
      BY <3>1, <3>2
  <2>3. CASE t > started
    <3>1. sess'[t] = sess[t] /\ loop'[t] = loop[t]
      BY <2>1, <2>3 DEF Crash
    <3>2. loop[t] = NewLoop
      BY <2>3 DEF PointInv, ActiveInv, Untouched
    <3> QED
      BY <3>1, <3>2
  <2> QED
    BY <2>1, <2>2, <2>3
<1>3. \A t \in Sid : loop'[t].pc # "apply" /\ loop'[t].expected = NoTree
  BY <1>2 DEF NewLoop
<1>4. PointsStay
  BY <1>2, <1>3 DEF PointsStay
<1>5. CASE UNCHANGED <<tree, hist>>
  <2>1. \A t \in Sid : hist[t].wrote = {} => Clean(tree', t)
    BY <1>5 DEF PointInv, NoTrace
  <2> QED
    BY <1>1, <1>3, <1>4, <1>5, <2>1, PointKept
<1>6. CASE ~UNCHANGED <<tree, hist>>
  <2>1. PICK s \in Sid : \E Q \in SUBSET loop[s].patch :
            /\ loop[s].pc = "apply"
            /\ tree' = Patched(s, Q)
            /\ hist' = [hist EXCEPT ![s].wrote = @ \cup Q, ![s].torn = TRUE]
    BY <1>6 DEF Crash
  <2>2. PICK Q \in SUBSET loop[s].patch :
            /\ loop[s].pc = "apply"
            /\ tree' = Patched(s, Q)
            /\ hist' = [hist EXCEPT ![s].wrote = @ \cup Q, ![s].torn = TRUE]
    BY <2>1
  <2>3. Q \in SUBSET Path /\ hist \in [Sid -> History]
    BY DEF PointInv, ActiveInv, TypeInv, TypeOK, Loop
  <2>4. /\ hist'[s].wrote = hist[s].wrote \cup Q
        /\ \A t \in Sid \ {s} : hist'[t].wrote = hist[t].wrote
    BY <2>2, <2>3 DEF History
  <2> QED
    BY <1>1, <1>3, <1>4, <2>2, <2>3, <2>4, PointWritten
<1> QED
  BY <1>5, <1>6

LEMMA NextPointInv == PointInv /\ [Next]_vars => PointInv'
<1> SUFFICES ASSUME PointInv, [Next]_vars PROVE PointInv'
  OBVIOUS
<1>1. ActiveInv'
  BY NextActiveInv DEF PointInv
<1>2. CASE UNCHANGED vars
  BY <1>1, <1>2 DEF vars, PointInv, NoTrace, PointFirst, PointClean, WriterHasPoint, Clean
<1>3. CASE Next
  BY <1>1, <1>3, StartPointInv, LoopPointInv, CallPointInv, EditPointInv, StopPointInv,
     CrashPointInv DEF Next
<1> QED
  BY <1>2, <1>3

\* Whatever is interrupted, and however often the daemon dies, a session that has
\* written to the user's files has a restore point in the repository, and that
\* restore point holds the files as they were before the session's first fix.
THEOREM RestorePointKept == Spec => []RestorePointDurable
<1>1. PointInv => RestorePointDurable
  BY NoTreeAssumption DEF PointInv, WriterHasPoint, PointClean, Clean, RestorePointDurable
<1> QED
  BY InitPointInv, NextPointInv, <1>1, PTL DEF Spec

-----------------------------------------------------------------------------
(* The refinement: what the mapping rests on. *)

\* Where a loop is says whether its session waits or runs; at its end it may do both.
StateFits ==
    \A s \in Sid :
        /\ loop[s].pc \in {"paused", "adopt"} => sess[s].state = "paused"
        /\ loop[s].pc \in InRound \cup {"start", "top"} => sess[s].state = "running"

\* What has not begun has no history, and what has begun is known to have.
Begun ==
    \A s \in Sid : /\ s > started => hist[s] = NewHistory
                   /\ s <= started => sess[s].state # "none"

\* The handlers that were told a resume is accepted, and have not sent it.
Sending(s) == {c \in Call : calls[c].op = "resume" /\ calls[c].sid = s}

\* The loop has taken a resume out of the channel, and its pause is not over yet.
Woke(s) ==
    IF \/ loop[s].pc = "adopt"
       \/ loop[s].pc = "settle" /\ sess[s].state = "paused" /\ ~sess[s].ctxDone
    THEN 1 ELSE 0

\* Every resume on its way, in a handler, in the channel or in the loop, was accepted,
\* and has ended no pause yet.
ResumesOwed(s) ==
    /\ IsFiniteSet(Sending(s))
    /\ hist[s].wakes + sess[s].resume + Cardinality(Sending(s)) + Woke(s) <= hist[s].asks

PromiseInv == ActiveInv /\ StateFits /\ Begun /\ \A s \in Sid : ResumesOwed(s)

-----------------------------------------------------------------------------
(* What the loop's steps have in common. *)

\* What a step of the loop of s does for its session's pauses: it runs on or pauses,
\* takes a resume, gives up, goes on with a resume that it took, or ends.
Ends(s) ==
    /\ loop[s].pc = "settle" /\ loop'[s].pc = "over"
    /\ sess'[s].state \in {"done", "failed", "cancelled"}
    /\ sess'[s].resume = sess[s].resume
    /\ hist'[s].wakes = hist[s].wakes
RunsOn(s) ==
    /\ loop[s].pc \in InRound \cup {"start", "top"}
    /\ sess'[s].resume = sess[s].resume /\ sess'[s].ctxDone = sess[s].ctxDone
    /\ hist'[s].wakes = hist[s].wakes
    /\ \/ /\ loop'[s].pc \in InRound \cup {"start", "top", "settle"}
          /\ sess'[s].state = sess[s].state
       \/ loop'[s].pc = "paused" /\ sess'[s].state = "paused"
Wakes(s) ==
    /\ loop[s].pc = "paused" /\ loop'[s].pc = "adopt"
    /\ sess[s].resume = 1 /\ sess'[s].resume = 0
    /\ sess'[s].ctxDone = sess[s].ctxDone /\ sess'[s].state = sess[s].state
    /\ hist'[s].wakes = hist[s].wakes
GivesUp(s) ==
    /\ loop[s].pc = "adopt" \/ (loop[s].pc = "paused" /\ sess[s].ctxDone)
    /\ loop'[s].pc = "settle"
    /\ sess' = sess
    /\ hist'[s].wakes = hist[s].wakes
GoesOn(s) ==
    /\ loop[s].pc = "adopt" /\ loop'[s].pc = "top"
    /\ sess'[s].resume = sess[s].resume /\ sess'[s].ctxDone = sess[s].ctxDone
    /\ sess'[s].state = "running"
    /\ hist'[s].wakes = hist[s].wakes + 1

\* The loop of s changes nothing of another session, nor of the handlers.
Alone(s) ==
    /\ \A t \in Sid \ {s} : sess'[t] = sess[t] /\ loop'[t] = loop[t] /\ hist'[t] = hist[t]
    /\ UNCHANGED outside
    /\ hist'[s].asks = hist[s].asks

LEMMA LoopAlone ==
    ASSUME TypeInv, NEW s \in Sid, LoopStep(s)
    PROVE  Alone(s) /\ (Ends(s) \/ RunsOn(s) \/ Wakes(s) \/ GivesUp(s) \/ GoesOn(s))
<1>1. sess \in [Sid -> Session] /\ loop \in [Sid -> Loop] /\ hist \in [Sid -> History]
  BY DEF TypeInv, TypeOK
<1>2. sess[s] \in Session /\ loop[s] \in Loop /\ hist[s] \in History
  BY <1>1
<1> USE <1>1, <1>2 DEF Alone, outside, Fails, Stops, Session, Loop, History, InRound
<1>a. CASE FirstLook(s) \/ RoundsSpent(s) \/ PauseBetweenRounds(s) \/ BeginRound(s)
  BY <1>a DEF FirstLook, RoundsSpent, PauseBetweenRounds, BeginRound, RunsOn
<1>b. CASE ReviewsFail(s) \/ NothingWorthChanging(s) \/ StartFix(s)
  BY <1>b DEF ReviewsFail, NothingWorthChanging, StartFix, RunsOn
<1>c. CASE FixFails(s) \/ FixIsEmpty(s) \/ FixMade(s)
  BY <1>c DEF FixFails, FixIsEmpty, FixMade, RunsOn
<1>d. CASE Supersede(s) \/ VerifyTree(s)
  BY <1>d DEF Supersede, VerifyTree, RunsOn
<1>e. CASE SaveRestorePoint(s) \/ ApplyRefused(s) \/ ApplyPatch(s) \/ ApplyCut(s)
  <2>1. CASE SaveRestorePoint(s)
    BY <2>1 DEF SaveRestorePoint, RunsOn
  <2>2. CASE ApplyRefused(s)
    BY <2>2 DEF ApplyRefused, RunsOn
  <2>3. CASE ApplyPatch(s)
    BY <2>3 DEF ApplyPatch, RunsOn
  <2>4. CASE ApplyCut(s)
    <3>1. PICK Q \in SUBSET Path :
            hist' = [hist EXCEPT ![s].wrote = @ \cup Q, ![s].torn = TRUE]
      BY <2>4 DEF ApplyCut
    <3> QED
      BY <2>4, <3>1 DEF ApplyCut, RunsOn
  <2> QED
    BY <1>e, <2>1, <2>2, <2>3, <2>4
<1>f. CASE RecordFix(s) \/ RecordFails(s) \/ LookFails(s)
  <2>1. CASE RecordFix(s) \/ RecordFails(s)
    BY <2>1 DEF RecordFix, RecordFails, RunsOn
  <2>2. CASE LookFails(s)
    BY <2>2 DEF LookFails, RunsOn, GivesUp
  <2> QED
    BY <1>f, <2>1, <2>2
<1>g. CASE Woken(s) \/ PauseCancelled(s) \/ Adopt(s)
  BY <1>g DEF Woken, PauseCancelled, Adopt, Wakes, GivesUp, GoesOn
<1>h. CASE Settle(s)
  BY <1>h DEF Settle, Verdict, Ends
<1> QED
  BY <1>a, <1>b, <1>c, <1>d, <1>e, <1>f, <1>g, <1>h DEF LoopStep

\* A step of a loop keeps what its place says of the session, and takes or uses up a
\* resume only if one is on its way.
LEMMA LoopPromiseInv ==
    ASSUME PromiseInv, ActiveInv', NEW s \in Sid, LoopStep(s)
    PROVE  PromiseInv'
<1>1. Alone(s) /\ (Ends(s) \/ RunsOn(s) \/ Wakes(s) \/ GivesUp(s) \/ GoesOn(s))
  BY LoopAlone DEF PromiseInv, ActiveInv
<1>2. /\ sess \in [Sid -> Session] /\ hist \in [Sid -> History] /\ started \in Nat
      /\ sess[s] \in Session /\ hist[s] \in History
      /\ \A t \in Sid : t \in Nat
  BY BoundsAssumption DEF PromiseInv, ActiveInv, TypeInv, TypeOK, Sid
<1>3. s <= started
  <2>1. loop[s] # NewLoop
    BY <1>1 DEF Ends, RunsOn, Wakes, GivesUp, GoesOn, NewLoop, InRound
  <2> QED
    BY <1>2, <2>1 DEF PromiseInv, ActiveInv, Untouched
<1>4. StateFits'
  <2>1. \A t \in Sid \ {s} : sess'[t] = sess[t] /\ loop'[t] = loop[t]
    BY <1>1 DEF Alone
  <2>2. /\ loop'[s].pc \in {"paused", "adopt"} => sess'[s].state = "paused"
        /\ loop'[s].pc \in InRound \cup {"start", "top"} => sess'[s].state = "running"
    BY <1>1 DEF PromiseInv, StateFits, Ends, RunsOn, Wakes, GivesUp, GoesOn, InRound
  <2> QED
    BY <2>1, <2>2 DEF PromiseInv, StateFits
<1>5. Begun'
  <2>1. sess'[s].state # "none"
    BY <1>1, <1>2, <1>3 DEF PromiseInv, Begun, Ends, RunsOn, Wakes, GivesUp, GoesOn
  <2> QED
    BY <1>1, <1>2, <1>3, <2>1 DEF PromiseInv, Begun, Alone, outside
<1>6. \A t \in Sid : Sending(t)' = Sending(t)
  BY <1>1 DEF Alone, outside, Sending
<1>7. \A t \in Sid \ {s} : ResumesOwed(t)'
  BY <1>1, <1>6 DEF PromiseInv, ResumesOwed, Woke, Alone
<1>8. ResumesOwed(s)'
  <2>1. /\ IsFiniteSet(Sending(s)) /\ Cardinality(Sending(s)) \in Nat
        /\ hist[s].wakes + sess[s].resume + Cardinality(Sending(s)) + Woke(s) <= hist[s].asks
        /\ hist'[s].asks = hist[s].asks
    BY <1>1, FS_CardinalityType DEF PromiseInv, ResumesOwed, Alone
  <2>2. /\ hist[s].wakes \in Nat /\ sess[s].resume \in 0..1 /\ hist[s].asks \in Nat
    BY <1>2 DEF Session, History
  <2>3. /\ hist'[s].wakes + sess'[s].resume + Woke(s)'
             <= hist[s].wakes + sess[s].resume + Woke(s)
        /\ hist'[s].wakes \in Nat /\ sess'[s].resume \in 0..1
        /\ Woke(s) \in 0..1 /\ Woke(s)' \in 0..1
    <3>1. CASE Ends(s)
      BY <2>2, <3>1 DEF Ends, Woke
    <3>2. CASE RunsOn(s)
      BY <2>2, <3>2 DEF RunsOn, Woke, InRound, PromiseInv, StateFits
    <3>3. CASE Wakes(s)
      BY <2>2, <3>3 DEF Wakes, Woke
    <3>4. CASE GivesUp(s)
      BY <2>2, <3>4 DEF GivesUp, Woke
    <3>5. CASE GoesOn(s)
      BY <2>2, <3>5 DEF GoesOn, Woke
    <3> QED
      BY <1>1, <3>1, <3>2, <3>3, <3>4, <3>5
  <2>4. Sending(s)' = Sending(s)
    BY <1>6
  <2> HIDE DEF Woke
  <2> QED
    BY <2>1, <2>2, <2>3, <2>4 DEF ResumesOwed
<1> QED
  BY <1>4, <1>5, <1>7, <1>8 DEF PromiseInv

-----------------------------------------------------------------------------
(* The handlers, and the rest. *)

\* What leaves the places of the sessions alone keeps the invariant if it owes the
\* resumes on their way.
LEMMA HandlerPromiseInv ==
    ASSUME PromiseInv, ActiveInv', HandlerFrame,
           \A s \in Sid : s > started => hist'[s] = hist[s],
           \A s \in Sid : ResumesOwed(s)'
    PROVE  PromiseInv'
<1>1. StateFits'
  BY DEF HandlerFrame, PromiseInv, StateFits
<1>2. Begun'
  BY DEF HandlerFrame, PromiseInv, Begun
<1> QED
  BY <1>1, <1>2 DEF PromiseInv

\* A session of which neither the resumes nor the pauses change, although its context
\* may end.
LEMMA ResumesStay ==
    ASSUME PromiseInv, NEW s \in Sid, Sending(s)' = Sending(s),
           hist'[s].asks = hist[s].asks, hist'[s].wakes = hist[s].wakes,
           sess'[s].resume = sess[s].resume, sess'[s].state = sess[s].state,
           loop'[s] = loop[s], sess[s].ctxDone => sess'[s].ctxDone
    PROVE  ResumesOwed(s)'
<1>1. /\ IsFiniteSet(Sending(s)) /\ Cardinality(Sending(s)) \in Nat
      /\ hist[s].wakes + sess[s].resume + Cardinality(Sending(s)) + Woke(s) <= hist[s].asks
  BY FS_CardinalityType DEF PromiseInv, ResumesOwed
<1>2. /\ hist[s].wakes \in Nat /\ sess[s].resume \in 0..1 /\ hist[s].asks \in Nat
  BY DEF PromiseInv, ActiveInv, TypeInv, TypeOK, Session, History
<1>3. Woke(s) \in 0..1 /\ Woke(s)' \in 0..1 /\ Woke(s)' <= Woke(s)
  BY DEF Woke
<1> HIDE DEF Woke
<1> QED
  BY <1>1, <1>2, <1>3 DEF ResumesOwed

LEMMA AcceptPromiseInv ==
    ASSUME PromiseInv, ActiveInv', NEW c \in Call, NEW s \in Sid, ResumeAccepted(c, s)
    PROVE  PromiseInv'
<1>1. HandlerFrame
  BY CallFrame DEF PromiseInv, ActiveInv
<1>2. /\ hist \in [Sid -> History] /\ calls \in [Call -> Served] /\ started \in Nat
      /\ store \subseteq 1..started /\ hist[s] \in History /\ sess[s].resume \in 0..1
  BY DEF PromiseInv, ActiveInv, TypeInv, TypeOK, Session
<1>3. /\ calls[c].op = "idle" /\ sess' = sess /\ loop' = loop /\ started' = started
      /\ s \in 1..started
      /\ calls' = [calls EXCEPT ![c] = [op |-> "resume", sid |-> s, force |-> FALSE]]
      /\ hist' = [hist EXCEPT ![s].asked = TRUE, ![s].asks = @ + 1]
  BY <1>2 DEF ResumeAccepted, Takes, Idle
<1>4. \A t \in Sid \ {s} : Sending(t)' = Sending(t) /\ hist'[t] = hist[t]
  BY <1>2, <1>3 DEF Sending
<1>5. Sending(s)' = Sending(s) \cup {c} /\ c \notin Sending(s)
  BY <1>2, <1>3 DEF Sending
<1>6. \A t \in Sid \ {s} : ResumesOwed(t)'
  BY <1>3, <1>4, ResumesStay
<1>7. ResumesOwed(s)'
  <2>1. /\ IsFiniteSet(Sending(s)) /\ Cardinality(Sending(s)) \in Nat
        /\ hist[s].wakes + sess[s].resume + Cardinality(Sending(s)) + Woke(s) <= hist[s].asks
    BY FS_CardinalityType DEF PromiseInv, ResumesOwed
  <2>2. /\ IsFiniteSet(Sending(s)') /\ Cardinality(Sending(s)') = Cardinality(Sending(s)) + 1
    BY <1>5, <2>1, FS_AddElement
  <2>3. /\ hist'[s].asks = hist[s].asks + 1 /\ hist'[s].wakes = hist[s].wakes
        /\ hist[s].wakes \in Nat /\ hist[s].asks \in Nat
    BY <1>2, <1>3 DEF History
  <2>4. Woke(s) \in 0..1 /\ Woke(s)' = Woke(s)
    BY <1>3 DEF Woke
  <2> HIDE DEF Woke
  <2> QED
    BY <1>2, <1>3, <2>1, <2>2, <2>3, <2>4 DEF ResumesOwed
<1>8. \A t \in Sid : t > started => hist'[t] = hist[t]
  BY <1>2, <1>3, <1>4
<1> QED
  BY <1>1, <1>6, <1>7, <1>8, HandlerPromiseInv

LEMMA SendPromiseInv ==
    ASSUME PromiseInv, ActiveInv', NEW c \in Call, SendResume(c)
    PROVE  PromiseInv'
<1>1. HandlerFrame
  BY CallFrame DEF PromiseInv, ActiveInv, CallStep
<1>a. calls[c].sid \in Sid /\ calls[c].op = "resume"
  BY BoundsAssumption
     DEF PromiseInv, ActiveInv, TypeInv, TypeOK, CallsKnown, SendResume, Sid
<1>b. PICK s \in Sid : s = calls[c].sid
  BY <1>a
<1>2. /\ sess \in [Sid -> Session] /\ calls \in [Call -> Served] /\ hist[s] \in History
      /\ sess[s] \in Session
  BY DEF PromiseInv, ActiveInv, TypeInv, TypeOK
<1>3. /\ sess' = [sess EXCEPT ![s].resume = 1] /\ loop' = loop /\ hist' = hist
      /\ calls' = [calls EXCEPT ![c] = Idle]
  BY <1>b DEF SendResume, Answers
<1>4. \A t \in Sid \ {s} : Sending(t)' = Sending(t) /\ sess'[t] = sess[t]
  BY <1>a, <1>b, <1>2, <1>3 DEF Sending, Idle
<1>5. Sending(s)' = Sending(s) \ {c} /\ c \in Sending(s)
  BY <1>a, <1>b, <1>2, <1>3 DEF Sending, Idle
<1>6. \A t \in Sid \ {s} : ResumesOwed(t)'
  BY <1>3, <1>4, ResumesStay
<1>7. ResumesOwed(s)'
  <2>1. /\ IsFiniteSet(Sending(s)) /\ Cardinality(Sending(s)) \in Nat
        /\ hist[s].wakes + sess[s].resume + Cardinality(Sending(s)) + Woke(s) <= hist[s].asks
    BY <1>2, FS_CardinalityType DEF PromiseInv, ResumesOwed
  <2>2. /\ IsFiniteSet(Sending(s)') /\ Cardinality(Sending(s)') = Cardinality(Sending(s)) - 1
    BY <1>5, <2>1, FS_RemoveElement
  <2>3. /\ sess'[s].resume = 1 /\ sess[s].resume \in 0..1
        /\ sess'[s].state = sess[s].state /\ sess'[s].ctxDone = sess[s].ctxDone
        /\ hist[s].wakes \in Nat /\ hist[s].asks \in Nat
    BY <1>2, <1>3 DEF Session, History
  <2>4. Woke(s) \in 0..1 /\ Woke(s)' = Woke(s)
    BY <1>3, <2>3 DEF Woke
  <2> HIDE DEF Woke
  <2> QED
    BY <1>3, <2>1, <2>2, <2>3, <2>4 DEF ResumesOwed
<1> QED
  BY <1>1, <1>3, <1>6, <1>7, HandlerPromiseInv

\* A handler that neither accepts nor sends a resume.
LEMMA OtherCallPromiseInv ==
    ASSUME PromiseInv, ActiveInv', NEW c \in Call,
           \/ \E s \in Sid : CancelAccepted(c, s) \/ RestoreAccepted(c, s)
           \/ CallStep(c) /\ ~SendResume(c)
    PROVE  PromiseInv'
<1>1. HandlerFrame
  BY CallFrame DEF PromiseInv, ActiveInv
<1>2. /\ sess \in [Sid -> Session] /\ calls \in [Call -> Served]
      /\ \A t \in Sid : sess[t] \in Session
      /\ calls[c].op # "idle" => calls[c].sid \in Sid
  BY BoundsAssumption DEF PromiseInv, ActiveInv, TypeInv, TypeOK, CallsKnown, Sid
<1>3. /\ hist' = hist /\ loop' = loop
      /\ \A d \in Call \ {c} : calls'[d] = calls[d]
      /\ calls[c].op # "resume" /\ calls'[c].op # "resume"
      /\ \A t \in Sid : /\ sess'[t].resume = sess[t].resume /\ sess'[t].state = sess[t].state
                        /\ sess[t].ctxDone => sess'[t].ctxDone
  <2> USE <1>2 DEF Session, Served
  <2>1. ASSUME NEW s \in Sid, CancelAccepted(c, s) PROVE <1>3
    BY <2>1 DEF CancelAccepted, Takes, Idle
  <2>2. ASSUME NEW s \in Sid, RestoreAccepted(c, s) PROVE <1>3
    BY <2>2 DEF RestoreAccepted, Takes, Idle
  <2>3. CASE EndContext(c)
    BY <2>3 DEF EndContext, Answers, Idle
  <2>4. CASE CheckUnedited(c) \/ RestoreRefused(c) \/ RestoreCut(c)
    BY <2>4 DEF CheckUnedited, RestoreRefused, RestoreCut, Answers, Idle
  <2>5. CASE PutFilesBack(c)
    BY <2>5 DEF PutFilesBack, Answers, Idle
  <2> QED
    BY <2>1, <2>2, <2>3, <2>4, <2>5 DEF CallStep
<1>4. \A t \in Sid : Sending(t)' = Sending(t)
  BY <1>2, <1>3 DEF Sending
<1>5. \A t \in Sid : ResumesOwed(t)'
  BY <1>3, <1>4, ResumesStay
<1> QED
  BY <1>1, <1>3, <1>5, HandlerPromiseInv

LEMMA InitPromiseInv == Init => PromiseInv
<1> SUFFICES ASSUME Init PROVE PromiseInv
  OBVIOUS
<1>1. ActiveInv
  BY InitActiveInv
<1>2. StateFits
  BY DEF Init, StateFits, NewLoop, InRound
<1>3. Begun
  BY BoundsAssumption DEF Init, Begun, Sid
<1>4. ASSUME NEW s \in Sid PROVE ResumesOwed(s)
  <2>1. Sending(s) = {}
    BY DEF Init, Sending, Idle
  <2>2. Woke(s) = 0
    BY DEF Init, Woke, NewLoop
  <2>3. hist[s].wakes = 0 /\ hist[s].asks = 0 /\ sess[s].resume = 0
    BY DEF Init, NewHistory, NewSession
  <2> QED
    BY <2>1, <2>2, <2>3, FS_EmptySet DEF ResumesOwed
<1> QED
  BY <1>1, <1>2, <1>3, <1>4 DEF PromiseInv

LEMMA StartPromiseInv == PromiseInv /\ ActiveInv' /\ StartSession => PromiseInv'
<1> SUFFICES ASSUME PromiseInv, ActiveInv', StartSession PROVE PromiseInv'
  OBVIOUS
<1>1. started \in Nat /\ started + 1 \in Sid /\ \A t \in Sid : t \in Nat
  BY BoundsAssumption DEF PromiseInv, ActiveInv, TypeInv, TypeOK, StartSession, Sid
<1>2. PICK n \in Sid : n = started + 1
  BY <1>1
<1>3. /\ sess \in [Sid -> Session] /\ loop \in [Sid -> Loop] /\ loop[n] \in Loop
      /\ started' = n /\ hist' = hist /\ calls' = calls
      /\ sess' = [sess EXCEPT ![n] = [NewSession EXCEPT !.state = "running", !.ctxDone = stopping]]
      /\ loop' = [loop EXCEPT ![n].pc = "start"]
      /\ hist[n] = NewHistory
  BY <1>1, <1>2 DEF PromiseInv, Begun, ActiveInv, TypeInv, TypeOK, StartSession
<1>4. /\ \A t \in Sid \ {n} : sess'[t] = sess[t] /\ loop'[t] = loop[t]
      /\ sess'[n].state = "running" /\ sess'[n].resume = 0
      /\ loop'[n].pc = "start"
  BY <1>3 DEF NewSession, Loop
<1>5. StateFits'
  BY <1>4 DEF PromiseInv, StateFits, InRound
<1>6. Begun'
  BY <1>1, <1>2, <1>3, <1>4 DEF PromiseInv, Begun
<1>7. \A t \in Sid : Sending(t)' = Sending(t)
  BY <1>3 DEF Sending
<1>8. \A t \in Sid \ {n} : ResumesOwed(t)'
  BY <1>3, <1>4, <1>7, ResumesStay
<1>9. ResumesOwed(n)'
  <2>1. Sending(n) = {}
    BY <1>1, <1>2 DEF PromiseInv, ActiveInv, TypeInv, CallsKnown, Sending
  <2>2. Sending(n)' = {} /\ Woke(n)' = 0
    BY <1>4, <1>7, <2>1 DEF Woke
  <2>3. hist'[n].wakes = 0 /\ hist'[n].asks = 0
    BY <1>3 DEF NewHistory
  <2> QED
    BY <1>4, <2>2, <2>3, FS_EmptySet DEF ResumesOwed
<1> QED
  BY <1>5, <1>6, <1>8, <1>9 DEF PromiseInv

LEMMA EditPromiseInv ==
    ASSUME PromiseInv, ActiveInv', NEW p \in Path, UserEdit(p)
    PROVE  PromiseInv'
<1>1. HandlerFrame /\ UNCHANGED <<sess, loop, calls, hist>>
  BY DEF UserEdit, HandlerFrame
<1>2. \A s \in Sid : Sending(s)' = Sending(s)
  BY <1>1 DEF Sending
<1> QED
  BY <1>1, <1>2, ResumesStay, HandlerPromiseInv

LEMMA StopPromiseInv == PromiseInv /\ ActiveInv' /\ Stop => PromiseInv'
<1> SUFFICES ASSUME PromiseInv, ActiveInv', Stop PROVE PromiseInv'
  OBVIOUS
<1>1. HandlerFrame /\ loop' = loop /\ calls' = calls /\ hist' = hist
  BY StopFrame DEF PromiseInv, Stop
<1>2. \A s \in Sid : Sending(s)' = Sending(s)
  BY <1>1 DEF Sending
<1>3. \A s \in Sid :
        /\ sess'[s].resume = sess[s].resume /\ sess'[s].state = sess[s].state
        /\ sess[s].ctxDone => sess'[s].ctxDone
  BY DEF Stop, PromiseInv, ActiveInv, TypeInv, TypeOK, Session
<1>4. \A s \in Sid : ResumesOwed(s)'
  <2> TAKE s \in Sid
  <2>1. hist'[s] = hist[s] /\ loop'[s] = loop[s]
    BY <1>1
  <2>2. hist'[s].asks = hist[s].asks /\ hist'[s].wakes = hist[s].wakes
    BY <2>1
  <2> QED
    BY <1>2, <1>3, <2>1, <2>2, ResumesStay
<1> QED
  BY <1>1, <1>4, HandlerPromiseInv

LEMMA CrashPromiseInv == PromiseInv /\ ActiveInv' /\ Crash => PromiseInv'
<1> SUFFICES ASSUME PromiseInv, ActiveInv', Crash PROVE PromiseInv'
  OBVIOUS
<1>1. started \in Nat /\ started' = started /\ \A t \in Sid : t \in Nat
  BY BoundsAssumption DEF PromiseInv, ActiveInv, TypeInv, TypeOK, Sid, Crash
<1>2. ASSUME NEW s \in Sid, s <= started
      PROVE  sess'[s].state = "lost" /\ sess'[s].resume = 0 /\ loop'[s].pc = "over"
  BY <1>2 DEF Crash, NewSession, NewLoop
<1>3. ASSUME NEW s \in Sid, s > started
      PROVE  /\ sess'[s] = NewSession /\ loop'[s] = NewLoop
             /\ hist'[s] = hist[s] /\ hist[s] = NewHistory
  <2>1. sess'[s] = NewSession /\ loop'[s] = NewLoop
    BY <1>1, <1>3 DEF Crash, PromiseInv, ActiveInv, Untouched
  <2>2. hist[s] = NewHistory /\ loop[s] = NewLoop
    BY <1>3 DEF PromiseInv, Begun, ActiveInv, Untouched
  <2>3. hist'[s] = hist[s]
    <3>1. CASE UNCHANGED hist
      BY <3>1
    <3>2. ASSUME NEW t \in Sid, NEW Q, loop[t].pc = "apply",
                 hist' = [hist EXCEPT ![t].wrote = @ \cup Q, ![t].torn = TRUE]
          PROVE  hist'[s] = hist[s]
      <4>1. t # s
        BY <2>2, <3>2 DEF NewLoop
      <4> QED
        BY <3>2, <4>1 DEF PromiseInv, ActiveInv, TypeInv, TypeOK
    <3> QED
      BY <3>1, <3>2 DEF Crash
  <2> QED
    BY <2>1, <2>2, <2>3
<1>4. \A s \in Sid : hist'[s].asks = hist[s].asks /\ hist'[s].wakes = hist[s].wakes
  <2>1. hist \in [Sid -> History]
    BY DEF PromiseInv, ActiveInv, TypeInv, TypeOK
  <2>2. CASE UNCHANGED hist
    BY <2>2
  <2>3. ASSUME NEW t \in Sid, NEW Q,
               hist' = [hist EXCEPT ![t].wrote = @ \cup Q, ![t].torn = TRUE]
        PROVE  \A s \in Sid : hist'[s].asks = hist[s].asks /\ hist'[s].wakes = hist[s].wakes
    BY <2>1, <2>3 DEF History
  <2> QED
    BY <2>2, <2>3 DEF Crash
<1>5. StateFits' /\ Begun'
  BY <1>1, <1>2, <1>3 DEF StateFits, Begun, NewLoop, InRound
<1>6. ASSUME NEW s \in Sid PROVE ResumesOwed(s)'
  <2>1. Sending(s)' = {}
    BY DEF Crash, Sending, Idle
  <2>2. sess'[s].resume = 0 /\ Woke(s)' = 0
    BY <1>1, <1>2, <1>3 DEF Woke, NewSession, NewLoop
  <2>3. /\ hist[s].wakes + sess[s].resume + Cardinality(Sending(s)) + Woke(s) <= hist[s].asks
        /\ Cardinality(Sending(s)) \in Nat
    BY FS_CardinalityType DEF PromiseInv, ResumesOwed
  <2>4. /\ hist[s].wakes \in Nat /\ sess[s].resume \in 0..1 /\ hist[s].asks \in Nat
    BY DEF PromiseInv, ActiveInv, TypeInv, TypeOK, Session, History
  <2>5. Woke(s) \in 0..1
    BY DEF Woke
  <2> HIDE DEF Woke
  <2>6. hist'[s].wakes + 0 + 0 + 0 <= hist'[s].asks
    BY <1>4, <2>3, <2>4, <2>5
  <2> QED
    BY <2>1, <2>2, <2>6, FS_EmptySet DEF ResumesOwed
<1> QED
  BY <1>5, <1>6 DEF PromiseInv

LEMMA NextPromiseInv == PromiseInv /\ [Next]_vars => PromiseInv'
<1> SUFFICES ASSUME PromiseInv, [Next]_vars PROVE PromiseInv'
  OBVIOUS
<1>1. ActiveInv'
  BY NextActiveInv DEF PromiseInv
<1>2. CASE UNCHANGED vars
  <2>1. /\ HandlerFrame /\ hist' = hist /\ sess' = sess
        /\ \A s \in Sid : Sending(s)' = Sending(s)
    BY <1>2 DEF vars, HandlerFrame, Sending
  <2>2. \A s \in Sid : ResumesOwed(s)'
    BY <2>1, ResumesStay DEF HandlerFrame
  <2> QED
    BY <1>1, <2>1, <2>2, HandlerPromiseInv
<1>3. CASE Next
  <2>1. ASSUME NEW c \in Call, CallStep(c) PROVE PromiseInv'
    BY <1>1, <2>1, SendPromiseInv, OtherCallPromiseInv
  <2>2. ASSUME NEW c \in Call, NEW s \in Sid,
               ResumeAccepted(c, s) \/ CancelAccepted(c, s) \/ RestoreAccepted(c, s)
        PROVE  PromiseInv'
    BY <1>1, <2>2, AcceptPromiseInv, OtherCallPromiseInv
  <2> QED
    BY <1>1, <1>3, <2>1, <2>2, StartPromiseInv, LoopPromiseInv, EditPromiseInv,
       StopPromiseInv, CrashPromiseInv DEF Next
<1> QED
  BY <1>2, <1>3

-----------------------------------------------------------------------------
(* Every step keeps the promise. *)

\* A step that changes neither state, nor context, nor resumes of a session.
LEMMA SeenStays ==
    ASSUME \A s \in Sid : /\ sess'[s].state = sess[s].state
                          /\ Active(s) => sess'[s].ctxDone = sess[s].ctxDone
                          /\ hist'[s].asks = hist[s].asks /\ hist'[s].wakes = hist[s].wakes
    PROVE  UNCHANGED P!reviewVars
<1>1. \A s \in Sid : Finished(s)' = Finished(s) /\ Active(s)' = Active(s)
  BY DEF Finished, Active
<1>2. Seen' = Seen
  BY <1>1 DEF Seen
<1>3. ToldToStop' = ToldToStop
  BY <1>1 DEF ToldToStop
<1>4. Unanswered' = Unanswered
  BY <1>1 DEF Unanswered
<1> QED
  BY <1>2, <1>3, <1>4 DEF P!reviewVars

\* What a step changes of one session only, the clients see of that one only.
OthersStay(s) ==
    \A t \in Sid \ {s} :
        /\ sess'[t].state = sess[t].state
        /\ sess'[t].ctxDone = sess[t].ctxDone
        /\ hist'[t].asks = hist[t].asks /\ hist'[t].wakes = hist[t].wakes

LEMMA SeenAlone ==
    ASSUME NEW s \in Sid, OthersStay(s)
    PROVE  /\ Seen' = [Seen EXCEPT ![s] = IF Finished(s)' THEN "ended" ELSE sess'[s].state]
           /\ ToldToStop' = [ToldToStop EXCEPT ![s] = Active(s)' /\ sess'[s].ctxDone]
           /\ Unanswered' = [Unanswered EXCEPT ![s] =
                IF Active(s)' /\ ~sess'[s].ctxDone THEN hist'[s].asks - hist'[s].wakes ELSE 0]
<1>1. \A t \in Sid \ {s} : Finished(t)' = Finished(t) /\ Active(t)' = Active(t)
  BY DEF OthersStay, Finished, Active
<1>2. Seen' = [Seen EXCEPT ![s] = IF Finished(s)' THEN "ended" ELSE sess'[s].state]
  BY <1>1 DEF OthersStay, Seen
<1>3. ToldToStop' = [ToldToStop EXCEPT ![s] = Active(s)' /\ sess'[s].ctxDone]
  BY <1>1 DEF OthersStay, ToldToStop
<1>4. Unanswered' = [Unanswered EXCEPT ![s] =
        IF Active(s)' /\ ~sess'[s].ctxDone THEN hist'[s].asks - hist'[s].wakes ELSE 0]
  BY <1>1 DEF OthersStay, Unanswered
<1> QED
  BY <1>2, <1>3, <1>4

\* A pause that the loop is about to leave was asked to end, or told to.
LEMMA PauseOwed ==
    ASSUME PromiseInv, NEW s \in Sid, loop[s].pc \in {"adopt", "settle"}, sess[s].state = "paused"
    PROVE  Unanswered[s] > 0 \/ ToldToStop[s]
<1>1. /\ IsFiniteSet(Sending(s)) /\ Cardinality(Sending(s)) \in Nat
      /\ hist[s].wakes + sess[s].resume + Cardinality(Sending(s)) + Woke(s) <= hist[s].asks
  BY FS_CardinalityType DEF PromiseInv, ResumesOwed
<1>2. /\ hist[s].wakes \in Nat /\ sess[s].resume \in 0..1 /\ hist[s].asks \in Nat
  BY DEF PromiseInv, ActiveInv, TypeInv, TypeOK, Session, History
<1>3. CASE sess[s].ctxDone
  BY <1>3 DEF ToldToStop, Active
<1>4. CASE ~sess[s].ctxDone
  <2>1. Woke(s) = 1
    BY <1>4 DEF Woke
  <2>2. hist[s].asks - hist[s].wakes > 0
    BY <1>1, <1>2, <2>1
  <2> QED
    BY <1>4, <2>2 DEF Unanswered, Active
<1> QED
  BY <1>3, <1>4

LEMMA LoopPromised ==
    ASSUME PromiseInv, NEW s \in Sid, LoopStep(s)
    PROVE  [P!NextReviews]_(P!reviewVars)
<1>1. Alone(s) /\ (Ends(s) \/ RunsOn(s) \/ Wakes(s) \/ GivesUp(s) \/ GoesOn(s))
  BY LoopAlone DEF PromiseInv, ActiveInv
<1>2. OthersStay(s) /\ hist'[s].asks = hist[s].asks
  BY <1>1 DEF Alone, OthersStay
<1>3. CASE Ends(s)
  <2>1. Active(s) /\ Finished(s)' /\ ~Active(s)' /\ ~Finished(s)
    BY <1>3 DEF Ends, PromiseInv, ActiveInv, LoopActive, Active, Finished
  <2>2. Seen' = [Seen EXCEPT ![s] = "ended"]
    BY <1>2, <2>1, SeenAlone
  <2>3. ToldToStop' = [ToldToStop EXCEPT ![s] = FALSE]
    BY <1>2, <2>1, SeenAlone
  <2>4. Unanswered' = [Unanswered EXCEPT ![s] = 0]
    BY <1>2, <2>1, SeenAlone
  <2>5. Seen[s] = sess[s].state
    BY <2>1 DEF Seen
  <2>6. Seen[s] = "paused" => Unanswered[s] > 0 \/ ToldToStop[s]
    BY <1>3, <2>5, PauseOwed DEF Ends
  <2>7. P!Live(Seen[s])
    BY <2>1, <2>5 DEF P!Live, Active
  <2>8. P!Ends(s)
    BY <2>2, <2>3, <2>4, <2>6, <2>7 DEF P!Ends
  <2> QED
    BY <2>8 DEF P!NextReviews
<1>4. CASE RunsOn(s) /\ sess'[s].state = sess[s].state
  BY <1>2, <1>4, SeenStays DEF RunsOn, OthersStay
<1>5. CASE RunsOn(s) /\ sess'[s].state = "paused"
  <2>1. sess[s].state = "running"
    BY <1>5 DEF RunsOn, PromiseInv, StateFits
  <2>2. Seen[s] = "running" /\ Seen' = [Seen EXCEPT ![s] = "paused"]
    BY <1>2, <1>5, <2>1, SeenAlone DEF Seen, Finished
  <2>3. ToldToStop' = ToldToStop
    BY <1>2, <1>5, <2>1 DEF ToldToStop, OthersStay, RunsOn, Active
  <2>4. Unanswered' = Unanswered
    BY <1>2, <1>5, <2>1 DEF Unanswered, OthersStay, RunsOn, Active
  <2>5. P!Pauses(s)
    BY <2>2, <2>3, <2>4 DEF P!Pauses
  <2> QED
    BY <2>5 DEF P!NextReviews
<1>6. CASE Wakes(s) \/ GivesUp(s)
  <2>1. sess'[s].state = sess[s].state /\ sess'[s].ctxDone = sess[s].ctxDone
    BY <1>6 DEF Wakes, GivesUp
  <2> QED
    BY <1>2, <1>6, <2>1, SeenStays DEF Wakes, GivesUp, OthersStay
<1>7. CASE GoesOn(s)
  <2>1. sess[s].state = "paused" /\ sess'[s].state = "running"
    BY <1>7 DEF GoesOn, PromiseInv, StateFits
  <2>2. Seen[s] = "paused" /\ Seen' = [Seen EXCEPT ![s] = "running"]
    BY <1>2, <2>1, SeenAlone DEF Seen, Finished
  <2>3. ToldToStop' = ToldToStop
    BY <1>2, <1>7, <2>1 DEF ToldToStop, OthersStay, GoesOn, Active
  <2>4. Unanswered[s] > 0 \/ ToldToStop[s]
    BY <1>7, <2>1, PauseOwed DEF GoesOn
  <2>5. hist[s].asks - hist'[s].wakes = hist[s].asks - hist[s].wakes - 1
    BY <1>7 DEF GoesOn, PromiseInv, ActiveInv, TypeInv, TypeOK, History
  <2>6. Active(s) /\ Active(s)' /\ sess'[s].ctxDone = sess[s].ctxDone
    BY <1>7, <2>1 DEF Active, GoesOn
  <2>7. Unanswered' = [Unanswered EXCEPT ![s] = IF ToldToStop[s] THEN 0 ELSE @ - 1]
    <3>1. CASE sess[s].ctxDone
      BY <1>2, <2>6, <3>1, SeenAlone DEF ToldToStop
    <3>2. CASE ~sess[s].ctxDone
      <4>1. ~ToldToStop[s] /\ Unanswered[s] = hist[s].asks - hist[s].wakes
        BY <2>6, <3>2 DEF ToldToStop, Unanswered
      <4>2. hist'[s].asks - hist'[s].wakes = Unanswered[s] - 1
        BY <1>2, <2>5, <4>1
      <4>3. Unanswered' = [Unanswered EXCEPT ![s] = hist'[s].asks - hist'[s].wakes]
        BY <1>2, <2>6, <3>2, SeenAlone
      <4> QED
        BY <4>1, <4>2, <4>3
    <3> QED
      BY <3>1, <3>2
  <2>8. P!Resumes(s)
    BY <2>2, <2>3, <2>4, <2>7 DEF P!Resumes
  <2> QED
    BY <2>8 DEF P!NextReviews
<1> QED
  BY <1>1, <1>3, <1>4, <1>5, <1>6, <1>7 DEF RunsOn

LEMMA StartPromised ==
    ASSUME PromiseInv, StartSession
    PROVE  P!NextReviews
<1> DEFINE n == started + 1
<1>1. n \in Sid /\ started \in Nat /\ \A t \in Sid : t \in Nat
  BY BoundsAssumption DEF StartSession, PromiseInv, ActiveInv, TypeInv, TypeOK, Sid
<1>2. sess[n] = NewSession /\ hist[n] = NewHistory
  BY <1>1 DEF PromiseInv, Begun, ActiveInv, Untouched
<1>3. /\ hist' = hist /\ sess' = [sess EXCEPT ![n] =
                            [NewSession EXCEPT !.state = "running", !.ctxDone = stopping]]
      /\ sess \in [Sid -> Session] /\ stopping \in BOOLEAN
  BY DEF StartSession, PromiseInv, ActiveInv, TypeInv, TypeOK
<1> HIDE DEF n
<1>4. sess'[n].state = "running" /\ sess'[n].ctxDone = stopping /\ OthersStay(n)
  BY <1>1, <1>3 DEF OthersStay, NewSession
<1>5. \A t \in Sid : ~Active(t)
  BY DEF StartSession, Busy, PromiseInv, ActiveInv, ActiveStored
<1>6. Seen[n] = "none" /\ Unanswered[n] = 0
  BY <1>1, <1>2 DEF Seen, Unanswered, Finished, Active, NewSession
<1>7. \A q \in Sid : q < n => Seen[q] # "none"
  BY <1>1 DEF n, PromiseInv, Begun, Seen
<1>8. P!LiveReviews = {}
  BY <1>5 DEF P!LiveReviews, P!Live, Seen, Active, Finished
<1>9. Seen' = [Seen EXCEPT ![n] = "running"]
  BY <1>1, <1>4, SeenAlone DEF Finished
<1>10. ToldToStop' = [ToldToStop EXCEPT ![n] = stopping]
  BY <1>1, <1>3, <1>4, SeenAlone DEF Active
<1>11. Unanswered' = Unanswered
  <2>1. hist'[n].asks - hist'[n].wakes = 0
    BY <1>2, <1>3 DEF NewHistory
  <2>2. Unanswered' = [Unanswered EXCEPT ![n] = 0]
    BY <1>1, <1>4, <2>1, SeenAlone
  <2> QED
    BY <1>6, <2>2 DEF Unanswered
<1>12. P!Starts(n)
  BY <1>3, <1>6, <1>7, <1>8, <1>9, <1>10, <1>11 DEF P!Starts
<1> QED
  BY <1>1, <1>12 DEF P!NextReviews

\* An accepted resume counts unless the session is told to stop anyway.
LEMMA ResumePromised ==
    ASSUME PromiseInv, NEW c \in Call, NEW s \in Sid, ResumeAccepted(c, s)
    PROVE  [P!NextReviews]_(P!reviewVars)
<1>1. /\ sess' = sess /\ hist' = [hist EXCEPT ![s].asked = TRUE, ![s].asks = @ + 1]
      /\ sess[s].state = "paused" /\ hist \in [Sid -> History] /\ hist[s] \in History
  BY DEF ResumeAccepted, PromiseInv, ActiveInv, TypeInv, TypeOK
<1>2. OthersStay(s) /\ hist'[s].asks = hist[s].asks + 1 /\ hist'[s].wakes = hist[s].wakes
  BY <1>1 DEF OthersStay, History
<1>3. Seen' = Seen /\ ToldToStop' = ToldToStop
  BY <1>1 DEF Seen, ToldToStop, Finished, Active
<1>4. Active(s) /\ Active(s)' /\ ~Finished(s)
  BY <1>1 DEF Active, Finished
<1>5. CASE sess[s].ctxDone
  <2>1. Unanswered' = [Unanswered EXCEPT ![s] = 0]
    BY <1>1, <1>2, <1>5, SeenAlone
  <2>2. Unanswered' = Unanswered
    BY <1>5, <2>1 DEF Unanswered
  <2> QED
    BY <1>3, <2>2 DEF P!reviewVars
<1>6. CASE ~sess[s].ctxDone
  <2>1. Seen[s] = "paused" /\ ~ToldToStop[s]
    BY <1>1, <1>4, <1>6 DEF Seen, ToldToStop
  <2>2. Unanswered[s] = hist[s].asks - hist[s].wakes
    BY <1>4, <1>6 DEF Unanswered
  <2>3. hist'[s].asks - hist'[s].wakes = Unanswered[s] + 1
    BY <1>1, <1>2, <2>2 DEF History
  <2>4. Unanswered' = [Unanswered EXCEPT ![s] = hist'[s].asks - hist'[s].wakes]
    BY <1>1, <1>2, <1>4, <1>6, SeenAlone
  <2>5. Unanswered' = [Unanswered EXCEPT ![s] = @ + 1]
    BY <2>3, <2>4
  <2>6. P!Asks(s)
    BY <1>3, <2>1, <2>5 DEF P!Asks
  <2> QED
    BY <2>6 DEF P!NextReviews
<1> QED
  BY <1>5, <1>6

\* Whose context a step ends, those it tells to stop.
LEMMA StopPromised ==
    ASSUME NEW R \in SUBSET Sid, hist' = hist,
           \A s \in Sid : /\ sess'[s].state = sess[s].state
                          /\ Active(s) => (sess'[s].ctxDone <=> sess[s].ctxDone \/ s \in R)
    PROVE  P!NextReviews
<1> DEFINE Q == {s \in R : Active(s)}
<1>1. \A s \in Sid : Finished(s)' = Finished(s) /\ Active(s)' = Active(s)
  BY DEF Finished, Active
<1>2. Q \in SUBSET P!LiveReviews
  BY DEF P!LiveReviews, P!Live, Seen, Active, Finished
<1>3. Seen' = Seen
  BY <1>1 DEF Seen
<1>4. ToldToStop' = [s \in Sid |-> ToldToStop[s] \/ s \in Q]
  <2>1. \A s \in Sid : (Active(s)' /\ sess'[s].ctxDone) = (ToldToStop[s] \/ s \in Q)
    BY <1>1 DEF ToldToStop
  <2> QED
    BY <2>1 DEF ToldToStop
<1>5. Unanswered' = [s \in Sid |-> IF s \in Q THEN 0 ELSE Unanswered[s]]
  BY <1>1 DEF Unanswered
<1> HIDE DEF Q
<1>6. P!Stops(Q)
  BY <1>3, <1>4, <1>5 DEF P!Stops
<1> QED
  BY <1>2, <1>6 DEF P!NextReviews

LEMMA CrashPromised ==
    ASSUME PromiseInv, Crash
    PROVE  P!NextReviews
<1>1. /\ \A t \in Sid : t \in Nat /\ started \in Nat
      /\ sess' = [s \in Sid |-> IF s <= started THEN [NewSession EXCEPT !.state = "lost"]
                                                ELSE sess[s]]
  BY BoundsAssumption DEF PromiseInv, ActiveInv, TypeInv, TypeOK, Sid, Crash
<1>2. \A s \in Sid : sess'[s].state = IF s <= started THEN "lost" ELSE "none"
  BY <1>1 DEF NewSession, PromiseInv, ActiveInv, Untouched
<1>3. \A s \in Sid : sess[s].state = "none" <=> s > started
  BY <1>1 DEF PromiseInv, Begun, ActiveInv, Untouched, NewSession
<1>4. \A s \in Sid : ~Finished(s)' /\ ~Active(s)'
  BY <1>2 DEF Finished, Active
<1>5. Seen' = [s \in Sid |-> sess'[s].state]
  BY <1>4 DEF Seen
<1>6. \A s \in Sid : Seen[s] = "none" <=> s > started
  BY <1>3 DEF Seen, Finished
<1>7. Seen' = [s \in Sid |-> IF Seen[s] = "none" THEN "none" ELSE "lost"]
  BY <1>1, <1>2, <1>5, <1>6
<1>8. ToldToStop' = [s \in Sid |-> FALSE] /\ Unanswered' = [s \in Sid |-> 0]
  BY <1>4 DEF ToldToStop, Unanswered
<1>9. P!Dies
  BY <1>7, <1>8 DEF P!Dies
<1> QED
  BY <1>9 DEF P!NextReviews

LEMMA CallPromised ==
    ASSUME PromiseInv, NEW c \in Call, CallStep(c)
    PROVE  [P!NextReviews]_(P!reviewVars)
<1>1. calls[c].op # "idle" => calls[c].sid \in Sid
  BY BoundsAssumption DEF PromiseInv, ActiveInv, TypeInv, TypeOK, CallsKnown, Sid
<1>2. sess \in [Sid -> Session] /\ hist' = hist
  BY DEF PromiseInv, ActiveInv, TypeInv, TypeOK, CallStep, SendResume, EndContext,
         CheckUnedited, RestoreRefused, PutFilesBack, RestoreCut
<1>3. CASE EndContext(c)
  <2>1. PICK s \in Sid : sess' = [sess EXCEPT ![s].ctxDone = TRUE]
    BY <1>1, <1>3 DEF EndContext
  <2>2. \A t \in Sid : /\ sess'[t].state = sess[t].state
                       /\ sess'[t].ctxDone <=> sess[t].ctxDone \/ t \in {s}
    BY <1>2, <2>1 DEF Session
  <2>3. P!NextReviews
    BY <1>2, <2>2, StopPromised
  <2> QED
    BY <2>3
<1>4. CASE ~EndContext(c)
  <2>1. \/ sess' = sess
        \/ \E s \in Sid : \/ sess' = [sess EXCEPT ![s].resume = 1]
                          \/ sess' = [sess EXCEPT ![s].restore = "restored"]
    BY <1>1, <1>4 DEF CallStep, SendResume, CheckUnedited, RestoreRefused, PutFilesBack, RestoreCut
  <2>2. \A t \in Sid : sess'[t].state = sess[t].state /\ sess'[t].ctxDone = sess[t].ctxDone
    <3>1. ASSUME NEW s \in Sid, sess' = [sess EXCEPT ![s].resume = 1]
          PROVE  \A t \in Sid : sess'[t].state = sess[t].state /\ sess'[t].ctxDone = sess[t].ctxDone
      BY <1>2, <3>1 DEF Session
    <3>2. ASSUME NEW s \in Sid, sess' = [sess EXCEPT ![s].restore = "restored"]
          PROVE  \A t \in Sid : sess'[t].state = sess[t].state /\ sess'[t].ctxDone = sess[t].ctxDone
      BY <1>2, <3>2 DEF Session
    <3> QED
      BY <2>1, <3>1, <3>2
  <2> QED
    BY <1>2, <2>2, SeenStays
<1> QED
  BY <1>3, <1>4

LEMMA InitPromised == Init => P!InitReviews
<1> SUFFICES ASSUME Init PROVE P!InitReviews
  OBVIOUS
<1>1. \A s \in Sid : sess[s] = NewSession /\ ~Finished(s) /\ ~Active(s)
  BY DEF Init, NewSession, Finished, Active
<1>2. Seen = [s \in Sid |-> "none"]
  BY <1>1 DEF Seen, NewSession
<1>3. ToldToStop = [s \in Sid |-> FALSE] /\ Unanswered = [s \in Sid |-> 0]
  BY <1>1 DEF ToldToStop, Unanswered
<1> QED
  BY <1>2, <1>3 DEF P!InitReviews

LEMMA NextPromised ==
    PromiseInv /\ [Next]_vars => [P!NextReviews]_(P!reviewVars)
<1> SUFFICES ASSUME PromiseInv, [Next]_vars PROVE [P!NextReviews]_(P!reviewVars)
  OBVIOUS
<1>1. ASSUME sess' = sess, hist' = hist PROVE [P!NextReviews]_(P!reviewVars)
  BY <1>1, SeenStays
<1>2. CASE UNCHANGED vars
  BY <1>1, <1>2 DEF vars
<1>3. CASE Next
  <2>1. ASSUME NEW c \in Call, NEW s \in Sid, CancelAccepted(c, s) \/ RestoreAccepted(c, s)
        PROVE  [P!NextReviews]_(P!reviewVars)
    <3>1. hist' = hist /\ (sess' = sess \/ sess' = [sess EXCEPT ![s].cancelled = TRUE])
      BY <2>1 DEF CancelAccepted, RestoreAccepted
    <3>2. CASE sess' = sess
      BY <1>1, <3>1, <3>2
    <3>3. CASE sess' = [sess EXCEPT ![s].cancelled = TRUE]
      <4>1. \A t \in Sid : sess'[t].state = sess[t].state /\ sess'[t].ctxDone = sess[t].ctxDone
        BY <3>3 DEF PromiseInv, ActiveInv, TypeInv, TypeOK, Session
      <4> QED
        BY <3>1, <4>1, SeenStays
    <3> QED
      BY <3>1, <3>2, <3>3
  <2>2. ASSUME Stop PROVE P!NextReviews
    <3>1. /\ hist' = hist /\ sess \in [Sid -> Session]
          /\ sess' = [s \in Sid |->
                IF Active(s) THEN [sess[s] EXCEPT !.ctxDone = TRUE] ELSE sess[s]]
      BY <2>2 DEF Stop, PromiseInv, ActiveInv, TypeInv, TypeOK
    <3>2. \A s \in Sid : /\ sess'[s].state = sess[s].state
                         /\ Active(s) => (sess'[s].ctxDone <=> sess[s].ctxDone \/ s \in Sid)
      BY <3>1 DEF Session
    <3> QED
      BY <3>1, <3>2, StopPromised
  <2>3. ASSUME NEW p \in Path, UserEdit(p) PROVE [P!NextReviews]_(P!reviewVars)
    BY <1>1, <2>3 DEF UserEdit
  <2> QED
    BY <1>3, <2>1, <2>2, <2>3, LoopPromised, StartPromised, ResumePromised, CallPromised,
       CrashPromised DEF Next
<1> QED
  BY <1>2, <1>3

\* Session implements ReviewSessions: what the clients see of the sessions, one live at
\* a time, an end that lasts, a pause that ends because somebody asked, is what the
\* store, the loops and the handlers keep (session_store.go, session_loop.go).
THEOREM PromiseKept == Spec => Promise
<1>1. Init => PromiseInv
  BY InitPromiseInv
<1>2. PromiseInv /\ [Next]_vars => PromiseInv'
  BY NextPromiseInv
<1> QED
  BY <1>1, <1>2, InitPromised, NextPromised, PTL DEF Spec, Promise, P!SpecReviews

-----------------------------------------------------------------------------
(***************************************************************************)
(* What the records are worth: how a session ended, the files it wrote, the*)
(* numbers of its rounds, the cap of the store, and what a restore may     *)
(* overwrite and leaves behind.                                            *)
(***************************************************************************)

(* The inductive invariants. *)

\* The store holds no session that was never started, or was lost.
StoreKnown == \A s \in store : sess[s].state \notin {"none", "lost"}

StoreInv == StoreKnown /\ StoreCap

\* The loop remembers every file it wrote, and has recorded them all but for the write
\* it is about to record.
WroteKnown(s) ==
    /\ loop[s].pc # "over" => hist[s].wrote \subseteq loop[s].touched
    /\ loop[s].pc # "record" => hist[s].wrote \subseteq sess[s].paths

WroteInv == \A s \in Sid : ~hist[s].torn /\ sess[s].state # "lost" => WroteKnown(s)

\* Rounds that were not superseded, and the number a round has among them.
Counted(R) == {i \in DOMAIN R : R[i].state # "superseded"}
Before(R, i) == {j \in Counted(R) : j < i}
Numbered(R) == \A i \in DOMAIN R : R[i].number = 1 + Cardinality(Before(R, i))

\* The loop's own count is that of the rounds it may not retry: between rounds it is
\* theirs, and within a round one less.
RoundsFit(s) ==
    LET R == sess[s].rounds IN
    /\ Numbered(R)
    /\ Cardinality(Counted(R)) <= MaxRounds
    /\ loop[s].pc \in {"start", "top", "paused", "adopt"} =>
         Cardinality(Counted(R)) = loop[s].done
    /\ loop[s].pc \in InRound =>
         /\ Cardinality(Counted(R)) = loop[s].done + 1
         /\ Last(s).state # "superseded"

RoundsInv == \A s \in Sid : RoundsFit(s)

\* No file of t holds a user edit later than the n-th.
Past(t, n) == \A p \in Path : \A m \in t[p].user : m <= n

\* Nothing that was saved, or looked at, is later than it says.
PastInv ==
    /\ Past(tree, edits)
    /\ \A s \in Sid :
         /\ refs[s] \in Tree => Past(refs[s], edits)
         /\ loop[s].expected \in Tree => Past(loop[s].expected, edits)
         /\ sess[s].left \in Tree => Past(sess[s].left, hist[s].leftAt)

-----------------------------------------------------------------------------
(* Steps that change no record: a handler's, an edit, a shutdown. *)

Calm ==
    /\ loop' = loop /\ refs' = refs /\ store' = store
    /\ \A s \in Sid :
         /\ sess'[s].state = sess[s].state /\ sess'[s].rounds = sess[s].rounds
         /\ sess'[s].paths = sess[s].paths /\ sess'[s].left = sess[s].left
         /\ Finished(s) => sess'[s].cancelled = sess[s].cancelled
    /\ \A s \in Sid :
         /\ hist'[s].wrote = hist[s].wrote /\ hist'[s].torn = hist[s].torn
         /\ hist'[s].leftAt = hist[s].leftAt

LEMMA AcceptCalm ==
    ASSUME TypeInv, NEW c \in Call, NEW s \in Sid,
           ResumeAccepted(c, s) \/ CancelAccepted(c, s) \/ RestoreAccepted(c, s)
    PROVE  Calm
<1>1. sess \in [Sid -> Session] /\ hist \in [Sid -> History]
  BY DEF TypeInv, TypeOK
<1>2. loop' = loop /\ refs' = refs /\ store' = store
  BY DEF ResumeAccepted, CancelAccepted, RestoreAccepted
<1>3. CASE ResumeAccepted(c, s) \/ RestoreAccepted(c, s)
  <2>1. /\ sess' = sess
        /\ hist' = hist \/ hist' = [hist EXCEPT ![s].asked = TRUE, ![s].asks = @ + 1]
    BY <1>3 DEF ResumeAccepted, RestoreAccepted
  <2>2. \A t \in Sid : /\ hist'[t].wrote = hist[t].wrote /\ hist'[t].torn = hist[t].torn
                       /\ hist'[t].leftAt = hist[t].leftAt
    BY <1>1, <2>1 DEF History
  <2> QED
    BY <1>2, <2>1, <2>2 DEF Calm
<1>4. CASE CancelAccepted(c, s)
  <2>1. ~Finished(s) /\ hist' = hist /\ sess' = [sess EXCEPT ![s].cancelled = TRUE]
    BY <1>4 DEF CancelAccepted
  <2>2. \A t \in Sid :
          /\ sess'[t].state = sess[t].state /\ sess'[t].rounds = sess[t].rounds
          /\ sess'[t].paths = sess[t].paths /\ sess'[t].left = sess[t].left
          /\ Finished(t) => sess'[t].cancelled = sess[t].cancelled
    BY <1>1, <2>1 DEF Session
  <2> QED
    BY <1>2, <2>1, <2>2 DEF Calm
<1> QED
  BY <1>3, <1>4

LEMMA CallCalm ==
    ASSUME TypeInv, NEW c \in Call, CallStep(c)
    PROVE  Calm
<1>1. sess \in [Sid -> Session]
  BY DEF TypeInv, TypeOK
<1>2. loop' = loop /\ refs' = refs /\ store' = store /\ hist' = hist
  BY DEF CallStep, SendResume, EndContext, CheckUnedited, RestoreRefused, PutFilesBack, RestoreCut
<1>3. CASE sess' = sess
  BY <1>2, <1>3 DEF Calm
<1>4. ASSUME NEW s,
             \/ sess' = [sess EXCEPT ![s].resume = 1]
             \/ sess' = [sess EXCEPT ![s].ctxDone = TRUE]
             \/ sess' = [sess EXCEPT ![s].restore = "restored"]
      PROVE  Calm
  <2>1. \A t \in Sid :
          /\ sess'[t].state = sess[t].state /\ sess'[t].rounds = sess[t].rounds
          /\ sess'[t].paths = sess[t].paths /\ sess'[t].left = sess[t].left
          /\ sess'[t].cancelled = sess[t].cancelled
    BY <1>1, <1>4 DEF Session
  <2> QED
    BY <1>2, <2>1 DEF Calm
<1> QED
  BY <1>3, <1>4
     DEF CallStep, SendResume, EndContext, CheckUnedited, RestoreRefused, PutFilesBack, RestoreCut

LEMMA StopCalm == TypeInv /\ Stop => Calm
<1> SUFFICES ASSUME TypeInv, Stop PROVE Calm
  OBVIOUS
<1>1. /\ sess \in [Sid -> Session]
      /\ sess' = [s \in Sid |-> IF Active(s) THEN [sess[s] EXCEPT !.ctxDone = TRUE] ELSE sess[s]]
  BY DEF TypeInv, TypeOK, Stop
<1>2. \A t \in Sid :
        /\ sess'[t].state = sess[t].state /\ sess'[t].rounds = sess[t].rounds
        /\ sess'[t].paths = sess[t].paths /\ sess'[t].left = sess[t].left
        /\ sess'[t].cancelled = sess[t].cancelled
  BY <1>1 DEF Session
<1> QED
  BY <1>2 DEF Stop, Calm

\* A step of the system is a step of a loop, a start, a crash, or changes no record.
LEMMA NextKinds ==
    ASSUME TypeInv, [Next]_vars
    PROVE  StartSession \/ (\E s \in Sid : LoopStep(s)) \/ Crash \/ Calm
<1>1. CASE UNCHANGED vars
  BY <1>1 DEF vars, Calm
<1>2. ASSUME NEW p \in Path, UserEdit(p) PROVE Calm
  BY <1>2 DEF UserEdit, Calm
<1>3. ASSUME NEW c \in Call, NEW s \in Sid,
             ResumeAccepted(c, s) \/ CancelAccepted(c, s) \/ RestoreAccepted(c, s)
      PROVE  Calm
  BY <1>3, AcceptCalm
<1> QED
  BY <1>1, <1>2, <1>3, CallCalm, StopCalm DEF Next

\* What a crash leaves of a session, and of what it wrote.
LEMMA CrashFrame ==
    ASSUME PromiseInv, Crash, NEW s \in Sid
    PROVE  /\ s <= started => /\ sess'[s] = [NewSession EXCEPT !.state = "lost"]
                              /\ loop'[s] = [NewLoop EXCEPT !.pc = "over"]
           /\ s > started => /\ sess'[s] = NewSession /\ loop'[s] = NewLoop
                             /\ hist'[s] = NewHistory
<1>1. started \in Nat /\ \A t \in Sid : t \in Nat
  BY BoundsAssumption DEF PromiseInv, ActiveInv, TypeInv, TypeOK, Sid
<1>2. CASE s <= started
  BY <1>1, <1>2 DEF Crash
<1>3. CASE s > started
  <2>1. hist[s] = NewHistory /\ sess[s] = NewSession /\ loop[s] = NewLoop
    BY <1>3 DEF PromiseInv, Begun, ActiveInv, Untouched
  <2>2. sess'[s] = sess[s] /\ loop'[s] = loop[s]
    BY <1>1, <1>3 DEF Crash
  <2>3. hist'[s] = hist[s]
    <3>1. ASSUME NEW t \in Sid, NEW Q, loop[t].pc = "apply",
                 hist' = [hist EXCEPT ![t].wrote = @ \cup Q, ![t].torn = TRUE]
          PROVE  hist'[s] = hist[s]
      <4>1. t # s
        BY <2>1, <3>1 DEF NewLoop
      <4> QED
        BY <3>1, <4>1 DEF PromiseInv, ActiveInv, TypeInv, TypeOK
    <3> QED
      BY <3>1 DEF Crash
  <2> QED
    BY <1>1, <1>3, <2>1, <2>2, <2>3
<1> QED
  BY <1>1, <1>2, <1>3

\* What a start makes of a session.
LEMMA StartFrame ==
    ASSUME PromiseInv, StartSession
    PROVE  /\ started + 1 \in Sid /\ hist' = hist /\ refs' = refs
           /\ \A t \in Sid \ {started + 1} : sess'[t] = sess[t] /\ loop'[t] = loop[t]
           /\ hist[started + 1] = NewHistory
           /\ sess'[started + 1] = [NewSession EXCEPT !.state = "running", !.ctxDone = stopping]
           /\ loop'[started + 1] = [NewLoop EXCEPT !.pc = "start"]
<1> DEFINE n == started + 1
<1>1. n \in Sid /\ started \in Nat
  BY BoundsAssumption DEF StartSession, PromiseInv, ActiveInv, TypeInv, TypeOK, Sid
<1>2. hist[n] = NewHistory /\ loop[n] = NewLoop
  BY <1>1 DEF PromiseInv, Begun, ActiveInv, Untouched
<1>3. /\ sess' = [sess EXCEPT ![n] = [NewSession EXCEPT !.state = "running", !.ctxDone = stopping]]
      /\ loop' = [loop EXCEPT ![n].pc = "start"] /\ hist' = hist /\ refs' = refs
      /\ sess \in [Sid -> Session] /\ loop \in [Sid -> Loop]
  BY DEF StartSession, PromiseInv, ActiveInv, TypeInv, TypeOK
<1> HIDE DEF n
<1>4. /\ n \in Sid /\ hist' = hist /\ refs' = refs
      /\ \A t \in Sid \ {n} : sess'[t] = sess[t] /\ loop'[t] = loop[t]
      /\ hist[n] = NewHistory
      /\ sess'[n] = [NewSession EXCEPT !.state = "running", !.ctxDone = stopping]
      /\ loop'[n] = [NewLoop EXCEPT !.pc = "start"]
  BY <1>1, <1>2, <1>3
<1> QED
  BY <1>4 DEF n

-----------------------------------------------------------------------------
(* How a session ended. *)

\* Only settleSession ends a loop, and no step of a loop cancels its session.
LEMMA LoopSettles ==
    ASSUME TypeInv, NEW s \in Sid, LoopStep(s)
    PROVE  /\ loop'[s].pc = "over" => Settle(s)
           /\ sess'[s].cancelled = sess[s].cancelled
<1>1. sess \in [Sid -> Session] /\ loop \in [Sid -> Loop]
  BY DEF TypeInv, TypeOK
<1>2. sess[s] \in Session /\ loop[s] \in Loop
  BY <1>1
<1> USE <1>1, <1>2 DEF Fails, Stops, Session, Loop
<1>a. CASE FirstLook(s) \/ RoundsSpent(s) \/ PauseBetweenRounds(s) \/ BeginRound(s)
  BY <1>a DEF FirstLook, RoundsSpent, PauseBetweenRounds, BeginRound
<1>b. CASE ReviewsFail(s) \/ NothingWorthChanging(s) \/ StartFix(s)
  BY <1>b DEF ReviewsFail, NothingWorthChanging, StartFix
<1>c. CASE FixFails(s) \/ FixIsEmpty(s) \/ FixMade(s)
  BY <1>c DEF FixFails, FixIsEmpty, FixMade
<1>d. CASE Supersede(s) \/ VerifyTree(s)
  BY <1>d DEF Supersede, VerifyTree
<1>e. CASE SaveRestorePoint(s) \/ ApplyRefused(s) \/ ApplyPatch(s) \/ ApplyCut(s)
  BY <1>e DEF SaveRestorePoint, ApplyRefused, ApplyPatch, ApplyCut
<1>f. CASE RecordFix(s) \/ RecordFails(s) \/ LookFails(s)
  BY <1>f DEF RecordFix, RecordFails, LookFails
<1>g. CASE Woken(s) \/ PauseCancelled(s) \/ Adopt(s)
  BY <1>g DEF Woken, PauseCancelled, Adopt
<1>h. CASE Settle(s)
  BY <1>h DEF Settle
<1> QED
  BY <1>a, <1>b, <1>c, <1>d, <1>e, <1>f, <1>g, <1>h DEF LoopStep

\* A session that is over shows no round as still going, and is cancelled if and only if
\* it says so.
Honest(s) ==
    Finished(s) =>
        /\ \A i \in DOMAIN sess[s].rounds :
             sess[s].rounds[i].state \in {"done", "failed", "superseded"}
        /\ sess[s].cancelled <=> sess[s].state = "cancelled"

LEMMA SettleHonest ==
    ASSUME TypeInv, NEW s \in Sid, Settle(s)
    PROVE  Honest(s)'
<1>1. sess \in [Sid -> Session] /\ sess[s] \in Session /\ sess[s].rounds \in Seq(Round)
  BY DEF TypeInv, TypeOK, Session
<1>2. /\ sess'[s].state = Verdict(s) /\ sess'[s].cancelled = sess[s].cancelled
      /\ sess'[s].rounds = [i \in DOMAIN sess[s].rounds |-> Closed(sess[s].rounds[i])]
  BY <1>1 DEF Settle, Session
<1>3. \A r \in Round : Closed(r).state \in {"done", "failed", "superseded"}
  BY DEF Closed, Round
<1>4. \A i \in DOMAIN sess[s].rounds : sess[s].rounds[i] \in Round
  BY <1>1
<1>5. \A i \in DOMAIN sess'[s].rounds :
        sess'[s].rounds[i].state \in {"done", "failed", "superseded"}
  BY <1>2, <1>3, <1>4
<1>6. sess'[s].cancelled <=> sess'[s].state = "cancelled"
  BY <1>1, <1>2 DEF Verdict, Session
<1> QED
  BY <1>5, <1>6 DEF Honest

LEMMA NextHonest ==
    PromiseInv /\ (\A s \in Sid : Honest(s)) /\ [Next]_vars => (\A s \in Sid : Honest(s))'
<1> SUFFICES ASSUME PromiseInv, \A s \in Sid : Honest(s), [Next]_vars, NEW t \in Sid
             PROVE  Honest(t)'
  OBVIOUS
<1>1. TypeInv
  BY DEF PromiseInv, ActiveInv
<1>2. ASSUME NEW s \in Sid, LoopStep(s) PROVE Honest(t)'
  <2>1. Frame(s) /\ Active(s)
    BY <1>1, <1>2, LoopFrame DEF Frame, PromiseInv, ActiveInv, LoopActive
  <2>2. CASE t # s
    BY <2>1, <2>2 DEF Frame, Honest, Finished
  <2>3. CASE t = s /\ loop'[s].pc = "over"
    BY <1>1, <1>2, <2>3, LoopSettles, SettleHonest
  <2>4. CASE t = s /\ loop'[s].pc # "over"
    BY <2>1, <2>4 DEF Frame, Honest, Finished, Active
  <2> QED
    BY <2>2, <2>3, <2>4
<1>3. CASE StartSession
  <2>1. CASE t = started + 1
    <3>1. sess'[t].state = "running"
      BY <1>3, <2>1, StartFrame DEF NewSession
    <3> QED
      BY <3>1 DEF Honest, Finished
  <2>2. CASE t # started + 1
    BY <1>3, <2>2, StartFrame DEF Honest, Finished
  <2> QED
    BY <2>1, <2>2
<1>4. CASE Crash
  <2>1. sess'[t].state \in {"lost", "none"}
    <3>1. t <= started \/ t > started
      BY BoundsAssumption DEF PromiseInv, ActiveInv, TypeInv, TypeOK, Sid
    <3> QED
      BY <1>4, <3>1, CrashFrame DEF NewSession
  <2> QED
    BY <2>1 DEF Honest, Finished
<1>5. CASE Calm
  BY <1>5 DEF Calm, Honest, Finished
<1> QED
  BY <1>1, <1>2, <1>3, <1>4, <1>5, NextKinds

\* Wherever the loop was when it ended, a session that is over shows no round as still
\* going, and ends as cancelled exactly if a cancellation was accepted (settleSession,
\* cancelSession).
THEOREM EndIsHonest == Spec => []SettledHonestly
<1>1. Init => PromiseInv /\ \A s \in Sid : Honest(s)
  BY InitPromiseInv DEF Init, Honest, Finished, NewSession
<1>2. PromiseInv /\ (\A s \in Sid : Honest(s)) /\ [Next]_vars
        => (PromiseInv /\ \A s \in Sid : Honest(s))'
  BY NextPromiseInv, NextHonest
<1>3. (\A s \in Sid : Honest(s)) => SettledHonestly
  BY DEF Honest, SettledHonestly
<1> QED
  BY <1>1, <1>2, <1>3, PTL DEF Spec

-----------------------------------------------------------------------------
(* The cap of the store. *)

\* A set of numbers that is not empty has a least one.
LEMMA Least ==
    ASSUME NEW S \in SUBSET Nat, S # {}
    PROVE  \E m \in S : \A t \in S : ~(t < m)
<1>1. PICK m \in S : \A t \in S : ~(<<t, m>> \in OpToRel(<, Nat))
  BY NatLessThanWellFounded, WFMin
<1>2. \A t \in S : t \in Nat /\ m \in Nat
  OBVIOUS
<1> QED
  BY <1>1, <1>2 DEF OpToRel

\* Where every session but a new one has ended, the store is full or has room: if it is
\* full, its oldest session goes.
LEMMA EvictsEnough ==
    ASSUME PromiseInv, StoreInv, ~Busy
    PROVE  Cardinality((store \cup {started + 1}) \ Evicted(store \cup {started + 1})) <= MaxStored
<1> DEFINE n == started + 1
           S == store \cup {n}
<1>1. started \in Nat /\ store \subseteq 1..started /\ n \in Nat /\ n \notin store
  BY DEF PromiseInv, ActiveInv, TypeInv, TypeOK
<1>2. IsFiniteSet(store) /\ Cardinality(store) \in Nat /\ Cardinality(store) <= MaxStored
  <2>1. IsFiniteSet(1..started) /\ store \in SUBSET (1..started)
    BY <1>1, FS_Interval
  <2> QED
    BY <2>1, FS_Subset, FS_CardinalityType DEF StoreInv, StoreCap
<1>3. IsFiniteSet(S) /\ Cardinality(S) = Cardinality(store) + 1
  BY <1>1, <1>2, FS_AddElement
<1>4. MaxStored \in Nat /\ MaxStored # 0
  BY BoundsAssumption
<1>5. S \ Evicted(S) \subseteq S
  OBVIOUS
<1>6. CASE Cardinality(S) <= MaxStored
  <2>1. Cardinality(S \ Evicted(S)) <= Cardinality(S) /\ Cardinality(S \ Evicted(S)) \in Nat
    BY <1>3, <1>5, FS_Subset, FS_CardinalityType
  <2> QED
    BY <1>2, <1>3, <1>4, <1>6, <2>1
<1>7. CASE Cardinality(S) > MaxStored
  <2>1. Cardinality(S) - MaxStored = 1 /\ store # {}
    BY <1>2, <1>3, <1>4, <1>7, FS_EmptySet
  <2>2. store \subseteq Nat
    BY <1>1
  <2>3. PICK m \in store : \A t \in store : ~(t < m)
    BY <2>1, <2>2, Least
  <2>4. \A s \in store : Finished(s)
    <3> TAKE s \in store
    <3>1. s \in Sid /\ ~Active(s) /\ sess[s].state \notin {"none", "lost"}
      BY <1>1, BoundsAssumption DEF Busy, StoreInv, StoreKnown, PromiseInv, ActiveInv, TypeInv, TypeOK, Sid
    <3>2. sess[s].state \in SessionStates
      BY <3>1 DEF PromiseInv, ActiveInv, TypeInv, TypeOK, Session
    <3> QED
      BY <3>1, <3>2 DEF Finished, Active, SessionStates
  <2>5. {t \in {u \in S : Finished(u)} : t < m} = {}
    <3>1. m \in 1..started /\ ~(n < m)
      BY <1>1, <2>3
    <3> QED
      BY <2>3, <3>1
  <2>6. m \in Evicted(S)
    <3>1. Cardinality({t \in {u \in S : Finished(u)} : t < m}) < Cardinality(S) - MaxStored
      BY <2>1, <2>5, FS_EmptySet
    <3>2. m \in {u \in S : Finished(u)}
      BY <2>3, <2>4
    <3> HIDE DEF S
    <3> QED
      BY <3>1, <3>2 DEF Evicted
  <2>7. IsFiniteSet(S \ {m}) /\ Cardinality(S \ {m}) = MaxStored
    <3>1. m \in S
      BY <2>3
    <3>2. IsFiniteSet(S \ {m}) /\ Cardinality(S \ {m}) = Cardinality(S) - 1
      BY <1>3, <3>1, FS_RemoveElement
    <3> HIDE DEF S
    <3> QED
      BY <1>2, <1>3, <1>4, <2>1, <3>2
  <2>8. S \ Evicted(S) \subseteq S \ {m}
    BY <2>6
  <2>9. Cardinality(S \ Evicted(S)) <= MaxStored
    BY <2>7, <2>8, FS_Subset
  <2> QED
    BY <2>9
<1>8. Cardinality(S) \in Nat
  BY <1>2, <1>3
<1> QED
  BY <1>4, <1>6, <1>7, <1>8

LEMMA NextStoreInv == PromiseInv /\ StoreInv /\ [Next]_vars => StoreInv'
<1> SUFFICES ASSUME PromiseInv, StoreInv, [Next]_vars PROVE StoreInv'
  OBVIOUS
<1>1. TypeInv /\ started \in Nat /\ store \subseteq 1..started /\ 1..started \subseteq Sid
  BY BoundsAssumption DEF PromiseInv, ActiveInv, TypeInv, TypeOK, Sid
<1>2. ASSUME NEW s \in Sid, LoopStep(s) PROVE StoreInv'
  <2>1. Frame(s) /\ Active(s)
    BY <1>1, <1>2, LoopFrame DEF Frame, PromiseInv, ActiveInv, LoopActive
  <2>2. sess'[s].state \notin {"none", "lost"}
    <3>1. CASE loop'[s].pc = "over"
      <4>1. Settle(s) /\ sess \in [Sid -> Session]
        BY <1>1, <1>2, <3>1, LoopSettles DEF TypeInv, TypeOK
      <4>2. sess'[s].state = Verdict(s)
        BY <4>1 DEF Settle, Session
      <4> QED
        BY <4>2 DEF Verdict
    <3> QED
      BY <2>1, <3>1 DEF Frame, Active
  <2> QED
    BY <1>1, <2>1, <2>2 DEF Frame, StoreInv, StoreKnown, StoreCap
<1>3. CASE StartSession
  <2>1. /\ ~Busy
        /\ store' = (store \cup {started + 1}) \ Evicted(store \cup {started + 1})
    BY <1>3 DEF StartSession
  <2>2. StoreCap'
    BY <2>1, EvictsEnough DEF StoreCap
  <2>3. StoreKnown'
    <3>1. sess'[started + 1].state = "running"
      BY <1>3, StartFrame DEF NewSession
    <3>2. \A s \in store : sess'[s] = sess[s]
      BY <1>1, <1>3, StartFrame
    <3> QED
      BY <2>1, <3>1, <3>2 DEF StoreInv, StoreKnown
  <2> QED
    BY <2>2, <2>3 DEF StoreInv
<1>4. CASE Crash
  BY <1>4, FS_EmptySet, BoundsAssumption DEF Crash, StoreInv, StoreKnown, StoreCap
<1>5. CASE Calm
  BY <1>1, <1>5 DEF Calm, StoreInv, StoreKnown, StoreCap
<1> QED
  BY <1>1, <1>2, <1>3, <1>4, <1>5, NextKinds

\* The project never keeps more than MaxSessionsPerProject sessions, although the store
\* drops only what has ended (sessionStore.add, evictLocked).
THEOREM StoreWithinCap == Spec => []StoreCap
<1>1. Init => PromiseInv /\ StoreInv
  BY InitPromiseInv, FS_EmptySet, BoundsAssumption DEF Init, StoreInv, StoreKnown, StoreCap
<1>2. PromiseInv /\ StoreInv /\ [Next]_vars => (PromiseInv /\ StoreInv)'
  BY NextPromiseInv, NextStoreInv
<1>3. StoreInv => StoreCap
  BY DEF StoreInv
<1> QED
  BY <1>1, <1>2, <1>3, PTL DEF Spec

-----------------------------------------------------------------------------
(* The files a session wrote. *)

\* All of the loop's steps but the four that write, or record what was written.
WritesNothing(s) ==
    /\ hist'[s].wrote = hist[s].wrote /\ hist'[s].torn = hist[s].torn
    /\ loop'[s].touched = loop[s].touched /\ sess'[s].paths = sess[s].paths
    /\ loop[s].pc # "record" /\ loop'[s].pc # "record"

LEMMA LoopWrites ==
    ASSUME TypeInv, NEW s \in Sid, LoopStep(s),
           ~ApplyPatch(s), ~ApplyCut(s), ~RecordFix(s), ~RecordFails(s)
    PROVE  WritesNothing(s)
<1>1. sess \in [Sid -> Session] /\ loop \in [Sid -> Loop] /\ hist \in [Sid -> History]
  BY DEF TypeInv, TypeOK
<1>2. sess[s] \in Session /\ loop[s] \in Loop /\ hist[s] \in History
  BY <1>1
<1> USE <1>1, <1>2 DEF WritesNothing, Fails, Stops, Session, Loop, History
<1>a. CASE FirstLook(s) \/ RoundsSpent(s) \/ PauseBetweenRounds(s) \/ BeginRound(s)
  BY <1>a DEF FirstLook, RoundsSpent, PauseBetweenRounds, BeginRound
<1>b. CASE ReviewsFail(s) \/ NothingWorthChanging(s) \/ StartFix(s)
  BY <1>b DEF ReviewsFail, NothingWorthChanging, StartFix
<1>c. CASE FixFails(s) \/ FixIsEmpty(s) \/ FixMade(s)
  BY <1>c DEF FixFails, FixIsEmpty, FixMade
<1>d. CASE Supersede(s) \/ VerifyTree(s)
  BY <1>d DEF Supersede, VerifyTree
<1>e. CASE SaveRestorePoint(s) \/ ApplyRefused(s) \/ LookFails(s)
  BY <1>e DEF SaveRestorePoint, ApplyRefused, LookFails
<1>g. CASE Woken(s) \/ PauseCancelled(s) \/ Adopt(s)
  BY <1>g DEF Woken, PauseCancelled, Adopt
<1>h. CASE Settle(s)
  BY <1>h DEF Settle
<1> QED
  BY <1>a, <1>b, <1>c, <1>d, <1>e, <1>g, <1>h DEF LoopStep

LEMMA LoopWroteInv ==
    ASSUME PromiseInv, WroteInv, NEW s \in Sid, LoopStep(s)
    PROVE  WroteInv'
<1>1. TypeInv /\ Alone(s) /\ Frame(s)
  BY LoopAlone, LoopFrame DEF PromiseInv, ActiveInv
<1>2. /\ sess \in [Sid -> Session] /\ sess[s] \in Session
      /\ loop \in [Sid -> Loop] /\ loop[s] \in Loop
      /\ hist \in [Sid -> History] /\ hist[s] \in History
  BY <1>1 DEF TypeInv, TypeOK
<1>3. sess[s].state # "lost" /\ loop[s].pc # "over"
  BY <1>1 DEF Frame, PromiseInv, ActiveInv, LoopActive, Active
<1>4. ~hist'[s].torn => WroteKnown(s)'
  <2>1. ~hist[s].torn => WroteKnown(s)
    BY <1>3 DEF WroteInv
  <2>2. CASE ApplyPatch(s)
    <3>1. /\ loop[s].pc = "apply" /\ loop'[s].pc = "record"
          /\ loop'[s].touched = loop[s].touched \cup loop[s].patch
          /\ hist'[s].wrote = hist[s].wrote \cup loop[s].patch
          /\ hist'[s].torn = hist[s].torn
      BY <1>2, <2>2 DEF ApplyPatch, Loop, History
    <3> QED
      BY <1>3, <2>1, <3>1 DEF WroteKnown
  <2>3. CASE ApplyCut(s) \/ RecordFails(s)
    <3>1. \E Q : \/ hist' = [hist EXCEPT ![s].wrote = @ \cup Q, ![s].torn = TRUE]
                 \/ hist' = [hist EXCEPT ![s].torn = TRUE]
      BY <2>3 DEF ApplyCut, RecordFails
    <3>2. hist'[s].torn
      BY <1>2, <3>1 DEF History
    <3> QED
      BY <3>2
  <2>4. CASE RecordFix(s)
    <3>1. /\ loop'[s].pc = "top" /\ loop'[s].touched = loop[s].touched
          /\ sess'[s].paths = loop[s].touched
          /\ hist'[s].wrote = hist[s].wrote /\ hist'[s].torn = hist[s].torn
      BY <1>2, <2>4 DEF RecordFix, Recorded, Loop, History, Session
    <3> QED
      BY <1>3, <2>1, <3>1 DEF WroteKnown
  <2>5. CASE WritesNothing(s)
    BY <1>3, <2>1, <2>5 DEF WritesNothing, WroteKnown
  <2> QED
    BY <1>1, <2>2, <2>3, <2>4, <2>5, LoopWrites
<1> QED
  BY <1>1, <1>4 DEF Alone, WroteInv, WroteKnown

LEMMA NextWroteInv == PromiseInv /\ WroteInv /\ [Next]_vars => WroteInv'
<1> SUFFICES ASSUME PromiseInv, WroteInv, [Next]_vars PROVE WroteInv'
  OBVIOUS
<1>1. TypeInv /\ \A s \in Sid : s <= started \/ s > started
  BY BoundsAssumption DEF PromiseInv, ActiveInv, TypeInv, TypeOK, Sid
<1>2. CASE StartSession
  <2>0. PICK n \in Sid : n = started + 1
    BY <1>2, StartFrame
  <2>1. hist'[n].wrote = {} /\ hist' = hist
    BY <1>2, <2>0, StartFrame DEF NewHistory
  <2>2. \A t \in Sid \ {n} : sess'[t] = sess[t] /\ loop'[t] = loop[t]
    BY <1>2, <2>0, StartFrame
  <2>3. WroteKnown(n)'
    BY <2>1 DEF WroteKnown
  <2> QED
    BY <2>1, <2>2, <2>3 DEF WroteInv, WroteKnown
<1>3. CASE Crash
  <2> SUFFICES ASSUME NEW s \in Sid, sess'[s].state # "lost" PROVE WroteKnown(s)'
    BY DEF WroteInv
  <2>1. s > started
    BY <1>1, <1>3, CrashFrame DEF NewSession
  <2>2. hist'[s].wrote = {}
    BY <1>3, <2>1, CrashFrame DEF NewHistory
  <2> QED
    BY <2>2 DEF WroteKnown
<1>4. CASE Calm
  BY <1>4 DEF Calm, WroteInv, WroteKnown
<1> QED
  BY <1>1, <1>2, <1>3, <1>4, LoopWroteInv, NextKinds

\* Unless a write was cut short or could not be recorded, a session that is over lists
\* every file it wrote in any of its rounds, so a restore covers them all (recordFix).
THEOREM FixesAreRecorded == Spec => []FixesRecorded
<1>1. Init => PromiseInv /\ WroteInv
  BY InitPromiseInv DEF Init, WroteInv, WroteKnown, NewHistory
<1>2. PromiseInv /\ WroteInv /\ [Next]_vars => (PromiseInv /\ WroteInv)'
  BY NextPromiseInv, NextWroteInv
<1>3. PromiseInv /\ WroteInv => FixesRecorded
  <2> SUFFICES ASSUME PromiseInv, WroteInv, NEW s \in Sid, Finished(s), ~hist[s].torn
               PROVE  hist[s].wrote \subseteq sess[s].paths
    BY DEF FixesRecorded
  <2>1. ~Active(s) /\ sess[s].state # "lost"
    BY DEF Finished, Active
  <2>2. loop[s].pc # "record"
    BY <2>1 DEF PromiseInv, ActiveInv, LoopActive
  <2> QED
    BY <2>1, <2>2 DEF WroteInv, WroteKnown
<1> QED
  BY <1>1, <1>2, <1>3, PTL DEF Spec

-----------------------------------------------------------------------------
(* What a restore leaves behind. *)

\* Only a restore that put every file back counts as one.
LEMMA RestoredBy ==
    ASSUME TypeInv, [Next]_vars, NEW s \in Sid,
           sess[s].restore = "saved", sess'[s].restore = "restored"
    PROVE  \E c \in Call : PutFilesBack(c) /\ calls[c].sid = s
<1>1. sess \in [Sid -> Session] /\ loop \in [Sid -> Loop]
  BY DEF TypeInv, TypeOK
<1>2. sess' # sess
  OBVIOUS
<1>3. ASSUME NEW t \in Sid, LoopStep(t) PROVE FALSE
  <2>1. Frame(t)
    BY <1>3, LoopFrame
  <2>2. t = s
    BY <2>1 DEF Frame
  <2>3. sess'[t].restore = sess[t].restore \/ sess'[t].restore = "saved"
    <3>1. CASE SaveRestorePoint(t)
      BY <1>1, <3>1 DEF SaveRestorePoint, Session
    <3>2. CASE ApplyPatch(t) \/ ApplyCut(t)
      BY <1>1, <3>2 DEF ApplyPatch, ApplyCut, Session
    <3> QED
      BY <1>3, <3>1, <3>2, LoopQuiet DEF Quiet
  <2> QED
    BY <2>2, <2>3
<1>4. ASSUME StartSession PROVE FALSE
  <2>1. PICK n, b : sess' = [sess EXCEPT ![n] = [NewSession EXCEPT !.state = "running", !.ctxDone = b]]
    BY <1>4 DEF StartSession
  <2> QED
    BY <1>1, <2>1 DEF NewSession
<1>5. ASSUME NEW c \in Call, NEW t \in Sid,
             ResumeAccepted(c, t) \/ CancelAccepted(c, t) \/ RestoreAccepted(c, t)
      PROVE  FALSE
  <2>1. sess' = sess \/ sess' = [sess EXCEPT ![t].cancelled = TRUE]
    BY <1>5 DEF ResumeAccepted, CancelAccepted, RestoreAccepted
  <2> QED
    BY <1>1, <1>2, <2>1 DEF Session
<1>6. ASSUME NEW c \in Call, SendResume(c) \/ EndContext(c) PROVE FALSE
  <2>1. PICK t : \/ sess' = [sess EXCEPT ![t].resume = 1]
                 \/ sess' = [sess EXCEPT ![t].ctxDone = TRUE]
    BY <1>6 DEF SendResume, EndContext
  <2> QED
    BY <1>1, <2>1 DEF Session
<1>7. ASSUME NEW c \in Call, CheckUnedited(c) \/ RestoreRefused(c) \/ RestoreCut(c) PROVE FALSE
  BY <1>2, <1>7 DEF CheckUnedited, RestoreRefused, RestoreCut
<1>8. ASSUME NEW c \in Call, PutFilesBack(c) PROVE calls[c].sid = s
  <2>1. PICK t : t = calls[c].sid /\ sess' = [sess EXCEPT ![t].restore = "restored"]
    BY <1>8 DEF PutFilesBack
  <2> QED
    BY <1>1, <2>1
<1>9. ASSUME Stop PROVE FALSE
  <2>1. sess' = [t \in Sid |-> IF Active(t) THEN [sess[t] EXCEPT !.ctxDone = TRUE] ELSE sess[t]]
    BY <1>9 DEF Stop
  <2> QED
    BY <1>1, <2>1 DEF Session
<1>10. ASSUME Crash PROVE FALSE
  BY <1>1, <1>10 DEF Crash, NewSession
<1>11. Next
  BY <1>2 DEF vars
<1>12. ASSUME NEW p \in Path, UserEdit(p) PROVE FALSE
  BY <1>2, <1>12 DEF UserEdit
<1> QED
  BY <1>3, <1>4, <1>5, <1>6, <1>7, <1>8, <1>9, <1>10, <1>11, <1>12 DEF Next, CallStep

\* A restore leaves no fix of the session, of any round, in the files the session
\* recorded: what it puts back never held one (restoreFiles, saveRestorePoint).
THEOREM RestoreUndoes == Spec => RestoreUndoesFixes
<1> DEFINE Undoes ==
      \A s \in Sid :
        sess[s].restore = "saved" /\ sess'[s].restore = "restored" =>
            \A p \in sess[s].paths : \A f \in tree'[p].fix : f[1] # s
<1>1. Init => PointInv
  BY InitPointInv
<1>2. PointInv /\ [Next]_vars => PointInv'
  BY NextPointInv
<1>3. PointInv /\ [Next]_vars => Undoes
  <2> SUFFICES ASSUME PointInv, [Next]_vars, NEW s \in Sid,
                      sess[s].restore = "saved", sess'[s].restore = "restored",
                      NEW p \in sess[s].paths, NEW f \in tree'[p].fix
               PROVE  f[1] # s
    OBVIOUS
  <2>1. TypeInv /\ p \in Path
    BY DEF PointInv, ActiveInv, TypeInv, TypeOK, Session
  <2>2. PICK c \in Call : PutFilesBack(c) /\ calls[c].sid = s
    BY <2>1, RestoredBy
  <2>3. tree' = PutBack(s, sess[s].paths)
    BY <2>2 DEF PutFilesBack
  <2>4. tree'[p] = refs[s][p]
    BY <2>1, <2>3 DEF PutBack
  <2>5. refs[s] \in Tree
    BY <2>1 DEF TypeInv, PointSaved
  <2> QED
    BY <2>1, <2>4, <2>5 DEF PointInv, PointClean, Clean
<1> QED
  BY <1>1, <1>2, <1>3, PTL DEF Spec, RestoreUndoesFixes

-----------------------------------------------------------------------------
(* What a restore may overwrite. *)

\* What a loop's step makes of the trees: it remembers a tree it saw, saves the one it
\* expects, and its fixes are no user edits.
Looks(s) ==
    /\ \A p \in Path : tree'[p].user = tree[p].user
    /\ refs' = refs \/ refs' = [refs EXCEPT ![s] = loop[s].expected]
    /\ loop'[s].expected \in {loop[s].expected, tree}
    /\ \/ sess'[s].left = sess[s].left /\ hist'[s].leftAt = hist[s].leftAt
       \/ sess'[s].left = tree /\ hist'[s].leftAt = edits

LEMMA LoopLooks ==
    ASSUME TypeInv, NEW s \in Sid, LoopStep(s)
    PROVE  Looks(s)
<1>1. sess \in [Sid -> Session] /\ loop \in [Sid -> Loop] /\ hist \in [Sid -> History]
  BY DEF TypeInv, TypeOK
<1>2. sess[s] \in Session /\ loop[s] \in Loop /\ hist[s] \in History
  BY <1>1
<1>3. ASSUME NEW Q PROVE \A p \in Path : Patched(s, Q)[p].user = tree[p].user
  BY DEF Patched, TypeInv, TypeOK, Tree, File
<1> USE <1>1, <1>2 DEF Looks, Fails, Stops, Session, Loop, History
<1>a. CASE FirstLook(s) \/ RoundsSpent(s) \/ PauseBetweenRounds(s) \/ BeginRound(s)
  BY <1>a DEF FirstLook, RoundsSpent, PauseBetweenRounds, BeginRound
<1>b. CASE ReviewsFail(s) \/ NothingWorthChanging(s) \/ StartFix(s)
  BY <1>b DEF ReviewsFail, NothingWorthChanging, StartFix
<1>c. CASE FixFails(s) \/ FixIsEmpty(s) \/ FixMade(s)
  BY <1>c DEF FixFails, FixIsEmpty, FixMade
<1>d. CASE Supersede(s) \/ VerifyTree(s)
  BY <1>d DEF Supersede, VerifyTree
<1>e. CASE SaveRestorePoint(s) \/ ApplyRefused(s) \/ LookFails(s)
  BY <1>e DEF SaveRestorePoint, ApplyRefused, LookFails
<1>f. CASE ApplyPatch(s)
  BY <1>f, <1>3 DEF ApplyPatch
<1>i. CASE ApplyCut(s)
  <2>1. PICK Q : tree' = Patched(s, Q) /\ hist' = [hist EXCEPT ![s].wrote = @ \cup Q, ![s].torn = TRUE]
    BY <1>i DEF ApplyCut
  <2>2. \A p \in Path : tree'[p].user = tree[p].user
    BY <1>3, <2>1
  <2>3. hist'[s].leftAt = hist[s].leftAt
    BY <2>1
  <2> QED
    BY <1>i, <2>2, <2>3 DEF ApplyCut
<1>j. CASE RecordFix(s) \/ RecordFails(s)
  BY <1>j DEF RecordFix, RecordFails
<1>g. CASE Woken(s) \/ PauseCancelled(s) \/ Adopt(s)
  BY <1>g DEF Woken, PauseCancelled, Adopt
<1>h. CASE Settle(s)
  BY <1>h DEF Settle
<1> QED
  BY <1>a, <1>b, <1>c, <1>d, <1>e, <1>f, <1>i, <1>j, <1>g, <1>h DEF LoopStep

LEMMA LoopPastInv ==
    ASSUME PromiseInv, PastInv, NEW s \in Sid, LoopStep(s)
    PROVE  PastInv'
<1>1. Looks(s) /\ Alone(s) /\ refs \in [Sid -> Tree \cup {NoTree}]
  BY LoopLooks, LoopAlone DEF PromiseInv, ActiveInv, TypeInv, TypeOK
<1>2. edits' = edits
  BY <1>1 DEF Alone, outside
<1>3. Past(tree, edits)'
  BY <1>1, <1>2 DEF Looks, PastInv, Past
<1>4. ASSUME NEW t \in Sid, refs'[t] \in Tree PROVE Past(refs[t], edits)'
  <2>1. refs'[t] = refs[t] \/ (t = s /\ refs'[t] = loop[s].expected)
    BY <1>1 DEF Looks
  <2> QED
    BY <1>2, <1>4, <2>1 DEF PastInv, Past
<1>5. ASSUME NEW t \in Sid, loop'[t].expected \in Tree PROVE Past(loop[t].expected, edits)'
  <2>1. loop'[t].expected \in {loop[t].expected, tree}
    BY <1>1 DEF Looks, Alone
  <2> QED
    BY <1>2, <1>5, <2>1 DEF PastInv, Past
<1>6. ASSUME NEW t \in Sid, sess'[t].left \in Tree PROVE Past(sess[t].left, hist[t].leftAt)'
  <2>1. \/ sess'[t].left = sess[t].left /\ hist'[t].leftAt = hist[t].leftAt
        \/ sess'[t].left = tree /\ hist'[t].leftAt = edits
    BY <1>1 DEF Looks, Alone
  <2> QED
    BY <1>6, <2>1 DEF PastInv, Past
<1> QED
  BY <1>3, <1>4, <1>5, <1>6 DEF PastInv

\* A calm step that makes the tree of what it held and what was saved.
LEMMA CalmPastInv ==
    ASSUME PastInv, Calm, edits' = edits, Past(tree', edits)
    PROVE  PastInv'
<1>1. Past(tree, edits)'
  BY DEF Past
<1>2. ASSUME NEW t \in Sid
      PROVE  /\ refs'[t] \in Tree => Past(refs[t], edits)'
             /\ loop'[t].expected \in Tree => Past(loop[t].expected, edits)'
             /\ sess'[t].left \in Tree => Past(sess[t].left, hist[t].leftAt)'
  BY DEF PastInv, Past, Calm
<1> QED
  BY <1>1, <1>2 DEF PastInv

LEMMA EditPastInv ==
    ASSUME PromiseInv, PastInv, NEW p \in Path, UserEdit(p)
    PROVE  PastInv'
<1>1. edits \in Nat /\ tree \in Tree /\ edits' = edits + 1
  BY BoundsAssumption DEF UserEdit, PromiseInv, ActiveInv, TypeInv, TypeOK
<1>2. ASSUME NEW t \in Tree, Past(t, edits) PROVE Past(t, edits + 1)
  <2> SUFFICES ASSUME NEW q \in Path, NEW m \in t[q].user PROVE m <= edits + 1
    BY DEF Past
  <2>1. m \in Int
    BY DEF Tree, File, Edit
  <2> QED
    BY <1>1, <1>2, <2>1 DEF Past
<1>3. PICK user \in {tree[p].user \cup {edits + 1}, {}}, fix \in {tree[p].fix, {}} :
        tree' = [tree EXCEPT ![p] = [user |-> user, fix |-> fix]]
  BY DEF UserEdit
<1>4. Past(tree', edits + 1)
  <2> SUFFICES ASSUME NEW q \in Path, NEW m \in tree'[q].user PROVE m <= edits + 1
    BY DEF Past
  <2>1. CASE q # p
    <3>1. m \in tree[q].user
      BY <1>1, <1>3, <2>1 DEF Tree
    <3> QED
      BY <1>1, <1>2, <3>1 DEF PastInv, Past
  <2>2. CASE q = p
    <3>1. m \in tree[p].user \/ m = edits + 1
      BY <1>1, <1>3, <2>2 DEF Tree
    <3> QED
      BY <1>1, <1>2, <3>1 DEF PastInv, Past
  <2> QED
    BY <2>1, <2>2
<1>5. Past(tree, edits)'
  BY <1>1, <1>4 DEF Past
<1>6. UNCHANGED <<refs, loop, sess, hist>>
  BY DEF UserEdit
<1>7. ASSUME NEW t \in Sid
      PROVE  /\ refs'[t] \in Tree => Past(refs[t], edits)'
             /\ loop'[t].expected \in Tree => Past(loop[t].expected, edits)'
             /\ sess'[t].left \in Tree => Past(sess[t].left, hist[t].leftAt)'
  <2>1. refs[t] \in Tree => Past(refs[t], edits + 1)
    BY <1>2 DEF PastInv
  <2>2. loop[t].expected \in Tree => Past(loop[t].expected, edits + 1)
    BY <1>2 DEF PastInv
  <2> QED
    BY <1>1, <1>6, <2>1, <2>2 DEF PastInv, Past
<1> QED
  BY <1>5, <1>7 DEF PastInv

LEMMA CrashPastInv ==
    ASSUME PromiseInv, PastInv, Crash
    PROVE  PastInv'
<1>1. edits' = edits /\ refs' = refs /\ NoTree \notin Tree /\ tree \in Tree
      /\ \A t \in Sid : t <= started \/ t > started
  BY NoTreeAssumption, BoundsAssumption
     DEF Crash, RefsOnDisk, PromiseInv, ActiveInv, TypeInv, TypeOK, Sid
<1>2. \A p \in Path : tree'[p].user = tree[p].user
  <2>1. ASSUME NEW s, NEW Q, tree' = Patched(s, Q)
        PROVE  \A p \in Path : tree'[p].user = tree[p].user
    BY <1>1, <2>1 DEF Patched, Tree, File
  <2> QED
    BY <2>1 DEF Crash
<1>3. \A t \in Sid : sess'[t].left = NoTree /\ loop'[t].expected = NoTree
  BY <1>1, CrashFrame DEF NewSession, NewLoop
<1>4. Past(tree, edits)'
  BY <1>1, <1>2 DEF PastInv, Past
<1>5. \A t \in Sid : refs'[t] \in Tree => Past(refs[t], edits)'
  BY <1>1 DEF PastInv, Past
<1> QED
  BY <1>1, <1>3, <1>4, <1>5 DEF PastInv

LEMMA CallPastInv ==
    ASSUME PromiseInv, PastInv, NEW c \in Call, CallStep(c)
    PROVE  PastInv'
<1>1. TypeInv /\ edits' = edits
  BY DEF PromiseInv, ActiveInv, CallStep, SendResume, EndContext, CheckUnedited, RestoreRefused,
         PutFilesBack, RestoreCut
<1>2. ASSUME NEW s \in Sid, NEW Q, refs[s] \in Tree, tree' = PutBack(s, Q)
      PROVE  Past(tree', edits)
  BY <1>2 DEF PastInv, Past, PutBack
<1>3. CASE tree' = tree
  BY <1>1, <1>3, CallCalm, CalmPastInv DEF PastInv
<1>4. CASE PutFilesBack(c) \/ RestoreCut(c)
  <2>1. calls[c].sid \in Sid /\ refs[calls[c].sid] \in Tree
    BY <1>1, <1>4, BoundsAssumption DEF PutFilesBack, RestoreCut, TypeInv, TypeOK, CallsKnown, Sid
  <2>2. \E Q : tree' = PutBack(calls[c].sid, Q)
    BY <1>4 DEF PutFilesBack, RestoreCut
  <2>3. Past(tree', edits)
    BY <1>2, <2>1, <2>2
  <2> QED
    BY <1>1, <2>3, CallCalm, CalmPastInv
<1> QED
  BY <1>3, <1>4 DEF CallStep, SendResume, EndContext, CheckUnedited, RestoreRefused

LEMMA NextPastInv == PromiseInv /\ PastInv /\ [Next]_vars => PastInv'
<1> SUFFICES ASSUME PromiseInv, PastInv, [Next]_vars PROVE PastInv'
  OBVIOUS
<1>1. TypeInv /\ NoTree \notin Tree
  BY NoTreeAssumption DEF PromiseInv, ActiveInv
<1>2. ASSUME Calm, tree' = tree, edits' = edits PROVE PastInv'
  BY <1>2, CalmPastInv DEF PastInv
<1>3. CASE UNCHANGED vars
  BY <1>2, <1>3 DEF vars, Calm
<1>4. CASE StartSession
  <2>1. PICK n \in Sid : n = started + 1
    BY <1>4, StartFrame
  <2>2. /\ hist' = hist /\ refs' = refs /\ tree' = tree /\ edits' = edits
        /\ \A t \in Sid \ {n} : sess'[t] = sess[t] /\ loop'[t] = loop[t]
    BY <1>4, <2>1, StartFrame DEF StartSession
  <2>3. sess'[n].left = NoTree /\ loop'[n].expected = NoTree
    BY <1>4, <2>1, StartFrame DEF NewSession, NewLoop
  <2>4. Past(tree, edits)' /\ \A t \in Sid : refs'[t] \in Tree => Past(refs[t], edits)'
    BY <2>2 DEF PastInv, Past
  <2>5. ASSUME NEW t \in Sid
        PROVE  /\ loop'[t].expected \in Tree => Past(loop[t].expected, edits)'
               /\ sess'[t].left \in Tree => Past(sess[t].left, hist[t].leftAt)'
    BY <1>1, <2>2, <2>3 DEF PastInv, Past
  <2> QED
    BY <2>4, <2>5 DEF PastInv
<1>5. ASSUME NEW c \in Call, NEW s \in Sid,
             ResumeAccepted(c, s) \/ CancelAccepted(c, s) \/ RestoreAccepted(c, s)
      PROVE  PastInv'
  <2>1. tree' = tree /\ edits' = edits
    BY <1>5 DEF ResumeAccepted, CancelAccepted, RestoreAccepted
  <2> QED
    BY <1>1, <1>2, <1>5, <2>1, AcceptCalm
<1>6. CASE Stop
  BY <1>1, <1>2, <1>6, StopCalm DEF Stop
<1> QED
  BY <1>3, <1>4, <1>5, <1>6, LoopPastInv, CallPastInv, EditPastInv, CrashPastInv DEF Next

\* Only the look at the tree lets a restore that was not forced go ahead.
LEMMA CheckedBy ==
    ASSUME TypeInv, [Next]_vars, NEW c \in Call,
           calls[c].op = "restore", calls'[c].op = "restoring"
    PROVE  CheckUnedited(c)
<1>1. calls \in [Call -> Served] /\ calls' # calls
  BY DEF TypeInv, TypeOK
<1>2. ASSUME NEW d \in Call, NEW s \in Sid,
             ResumeAccepted(d, s) \/ CancelAccepted(d, s) \/ RestoreAccepted(d, s)
      PROVE  FALSE
  <2>1. calls[d] = Idle /\ \E v : calls' = [calls EXCEPT ![d] = v]
    BY <1>2 DEF ResumeAccepted, CancelAccepted, RestoreAccepted, Takes
  <2> QED
    BY <1>1, <2>1 DEF Idle
<1>3. ASSUME NEW d \in Call, CallStep(d) PROVE CheckUnedited(c)
  <2>1. ASSUME calls' = [calls EXCEPT ![d] = Idle] PROVE FALSE
    BY <1>1, <2>1 DEF Idle
  <2>2. ASSUME calls' = [calls EXCEPT ![d].op = "restoring"] PROVE d = c
    BY <1>1, <2>2
  <2> QED
    BY <1>3, <2>1, <2>2 DEF CallStep, Answers, SendResume, EndContext, CheckUnedited,
       RestoreRefused, PutFilesBack, RestoreCut
<1>4. ASSUME NEW s \in Sid, LoopStep(s) PROVE FALSE
  BY <1>1, <1>4, LoopAlone DEF Alone, outside
<1>5. ASSUME NEW p \in Path, UserEdit(p) PROVE FALSE
  BY <1>1, <1>5 DEF UserEdit
<1>6. ~StartSession /\ ~Stop /\ ~Crash
  BY <1>1 DEF StartSession, Stop, Crash, Idle
<1> QED
  BY <1>1, <1>2, <1>3, <1>4, <1>5, <1>6 DEF Next, vars

\* A restore that was not forced overwrites no file that holds a user edit newer than
\* the session's last look at the tree (restoreSession).
THEOREM RestoreSpares == Spec => RestoreOnlyUnedited
<1> DEFINE Spares ==
      \A c \in Call :
        calls[c].op = "restore" /\ calls'[c].op = "restoring" =>
            LET s == calls[c].sid IN
            \A p \in sess[s].paths : \A n \in tree[p].user : n <= hist[s].leftAt
<1>1. Init => PromiseInv /\ PastInv
  <2> SUFFICES ASSUME Init PROVE PastInv
    BY InitPromiseInv
  <2>1. Past(tree, edits)
    BY DEF Init, EmptyTree, Past
  <2>2. \A s \in Sid : refs[s] = NoTree /\ loop[s].expected = NoTree /\ sess[s].left = NoTree
    BY DEF Init, NewSession, NewLoop
  <2> QED
    BY <2>1, <2>2, NoTreeAssumption DEF PastInv
<1>2. PromiseInv /\ PastInv /\ [Next]_vars => (PromiseInv /\ PastInv)'
  BY NextPromiseInv, NextPastInv
<1>3. PromiseInv /\ PastInv /\ [Next]_vars => Spares
  <2> SUFFICES ASSUME PromiseInv, PastInv, [Next]_vars, NEW c \in Call,
                      calls[c].op = "restore", calls'[c].op = "restoring"
               PROVE  \A p \in sess[calls[c].sid].paths :
                        \A n \in tree[p].user : n <= hist[calls[c].sid].leftAt
    OBVIOUS
  <2>1. PICK s \in Sid : s = calls[c].sid
    BY BoundsAssumption DEF PromiseInv, ActiveInv, TypeInv, TypeOK, CallsKnown, Sid
  <2>2. sess[s].left # NoTree /\ Unedited(s)
    BY <2>1, CheckedBy DEF CheckUnedited, PromiseInv, ActiveInv
  <2>3. sess[s] \in Session
    BY DEF PromiseInv, ActiveInv, TypeInv, TypeOK
  <2>4. sess[s].left \in Tree /\ sess[s].paths \subseteq Path
    BY <2>2, <2>3 DEF Session
  <2>5. \A p \in sess[s].paths : tree[p] = sess[s].left[p]
    BY <2>2, <2>4 DEF Unedited, ChangedBetween
  <2>6. Past(sess[s].left, hist[s].leftAt)
    BY <2>4 DEF PastInv
  <2> QED
    BY <2>1, <2>4, <2>5, <2>6 DEF Past
<1> QED
  BY <1>1, <1>2, <1>3, PTL DEF Spec, RestoreOnlyUnedited

-----------------------------------------------------------------------------
(* The numbers of the rounds. *)

LEMMA CountedFinite ==
    ASSUME NEW R \in Seq(Round)
    PROVE  /\ IsFiniteSet(Counted(R)) /\ Cardinality(Counted(R)) \in Nat
           /\ \A i : IsFiniteSet(Before(R, i)) /\ Cardinality(Before(R, i)) \in Nat
<1>1. IsFiniteSet(1..Len(R)) /\ DOMAIN R = 1..Len(R)
  BY FS_Interval
<1>2. Counted(R) \in SUBSET (1..Len(R)) /\ \A i : Before(R, i) \in SUBSET (1..Len(R))
  BY <1>1 DEF Counted, Before
<1> QED
  BY <1>1, <1>2, FS_Subset, FS_CardinalityType

\* A new round has the number after those of the rounds that count, and counts.
LEMMA RoundAppended ==
    ASSUME NEW R \in Seq(Round), Numbered(R), NEW r \in Round,
           r.number = 1 + Cardinality(Counted(R)), r.state # "superseded"
    PROVE  /\ Numbered(Append(R, r))
           /\ Cardinality(Counted(Append(R, r))) = Cardinality(Counted(R)) + 1
<1> DEFINE S == Append(R, r)
           n == Len(R)
<1>1. /\ n \in Nat /\ DOMAIN R = 1..n /\ DOMAIN S = 1..(n + 1)
      /\ \A i \in 1..n : S[i] = R[i] /\ S[n + 1] = r
  OBVIOUS
<1>2. S[n + 1] = r
  OBVIOUS
<1> HIDE DEF S
<1>3. Counted(S) = Counted(R) \cup {n + 1}
  BY <1>1, <1>2 DEF Counted
<1>4. n + 1 \notin Counted(R)
  BY <1>1 DEF Counted
<1>5. Cardinality(Counted(S)) = Cardinality(Counted(R)) + 1
  BY <1>3, <1>4, CountedFinite, FS_AddElement
<1>6. \A i \in 1..n : Before(S, i) = Before(R, i)
  BY <1>1, <1>3 DEF Before
<1>7. Before(S, n + 1) = Counted(R)
  BY <1>1, <1>3 DEF Before, Counted
<1>8. Numbered(S)
  BY <1>1, <1>2, <1>6, <1>7 DEF Numbered
<1> QED
  BY <1>5, <1>8 DEF S

\* Replacing the last round's state changes no number; it still counts unless it is
\* superseded.
LEMMA RoundEnded ==
    ASSUME NEW R \in Seq(Round), Len(R) > 0, Numbered(R), R[Len(R)].state # "superseded",
           NEW S \in Seq(Round), Len(S) = Len(R), S[Len(R)].number = R[Len(R)].number,
           \A i \in 1..(Len(R) - 1) : S[i] = R[i]
    PROVE  /\ Numbered(S)
           /\ S[Len(R)].state # "superseded" =>
                Cardinality(Counted(S)) = Cardinality(Counted(R))
           /\ S[Len(R)].state = "superseded" =>
                Cardinality(Counted(S)) = Cardinality(Counted(R)) - 1
<1> DEFINE n == Len(R)
<1>1. n \in Nat \ {0} /\ DOMAIN R = 1..n /\ DOMAIN S = 1..n
  OBVIOUS
<1>1a. \A i \in 1..n : i # n => i \in 1..(n - 1) /\ S[i] = R[i]
  <2> SUFFICES ASSUME NEW i \in 1..n, i # n PROVE i \in 1..(n - 1)
    OBVIOUS
  <2> HIDE DEF n
  <2> QED
    BY <1>1
<1>2. \A i \in 1..n : Before(S, i) = Before(R, i)
  <2> SUFFICES ASSUME NEW i \in 1..n PROVE Before(S, i) = Before(R, i)
    OBVIOUS
  <2>1. \A j \in 1..n : j < i => S[j] = R[j]
    OBVIOUS
  <2> QED
    BY <1>1, <2>1 DEF Before, Counted
<1>3. \A i \in 1..n : S[i].number = R[i].number
  <2> SUFFICES ASSUME NEW i \in 1..n PROVE S[i].number = R[i].number
    OBVIOUS
  <2>1. CASE i = n
    BY <2>1
  <2>2. CASE i # n
    BY <1>1a, <2>2
  <2> QED
    BY <2>1, <2>2
<1>4. Numbered(S)
  BY <1>1, <1>2, <1>3 DEF Numbered
<1>5. n \in Counted(R) /\ IsFiniteSet(Counted(R))
  BY <1>1, CountedFinite DEF Counted
<1>6. CASE S[n].state # "superseded"
  <2>1. \A i \in 1..n : S[i].state # "superseded" <=> R[i].state # "superseded"
    <3> SUFFICES ASSUME NEW i \in 1..n
                 PROVE  S[i].state # "superseded" <=> R[i].state # "superseded"
      OBVIOUS
    <3>1. CASE i = n
      BY <1>6, <3>1
    <3>2. CASE i # n
      BY <1>1a, <3>2
    <3> QED
      BY <3>1, <3>2
  <2>2. Counted(S) = Counted(R)
    BY <1>1, <2>1 DEF Counted
  <2> QED
    BY <1>4, <1>6, <2>2
<1>7. CASE S[n].state = "superseded"
  <2>1. Counted(S) = Counted(R) \ {n}
    <3> SUFFICES ASSUME NEW i \in 1..n
                 PROVE  S[i].state # "superseded" <=> R[i].state # "superseded" /\ i # n
      BY <1>1 DEF Counted
    <3>1. CASE i = n
      BY <1>7, <3>1
    <3>2. CASE i # n
      BY <1>1a, <3>2
    <3> QED
      BY <3>1, <3>2
  <2> QED
    BY <1>4, <1>5, <1>7, <2>1, FS_RemoveElement
<1> QED
  BY <1>6, <1>7

\* Closing every round that is still going changes neither numbers nor what counts.
LEMMA RoundsClosed ==
    ASSUME NEW R \in Seq(Round), Numbered(R), NEW S, S = [i \in DOMAIN R |-> Closed(R[i])]
    PROVE  Numbered(S) /\ Counted(S) = Counted(R)
<1>1. DOMAIN S = DOMAIN R /\ \A i \in DOMAIN R : R[i] \in Round /\ S[i] = Closed(R[i])
  OBVIOUS
<1>2. \A r \in Round : /\ Closed(r).number = r.number
                       /\ Closed(r).state = "superseded" <=> r.state = "superseded"
  BY DEF Closed, Round
<1>3. Counted(S) = Counted(R)
  BY <1>1, <1>2 DEF Counted
<1>4. \A i : Before(S, i) = Before(R, i)
  BY <1>3 DEF Before
<1> QED
  BY <1>1, <1>2, <1>3, <1>4 DEF Numbered

\* EndRound on the rounds of a session whose last round counts.
LEMMA EndRoundCounts ==
    ASSUME TypeInv, NEW s \in Sid, loop[s].pc \in InRound, RoundsFit(s),
           NEW state \in RoundStates, NEW fix \in FixStates
    PROVE  LET S == EndRound(s, state, fix)
           IN  /\ S \in Seq(Round) /\ Len(S) = Len(sess[s].rounds) /\ Len(S) > 0
               /\ S[Len(S)].state = state /\ Numbered(S)
               /\ Cardinality(Counted(S)) =
                    IF state = "superseded" THEN loop[s].done ELSE loop[s].done + 1
<1> DEFINE R == sess[s].rounds
           S == EndRound(s, state, fix)
<1>1. R \in Seq(Round) /\ Len(R) > 0 /\ sess \in [Sid -> Session] /\ loop[s].done \in Nat
  BY DEF TypeInv, TypeOK, RoundOpen, Session, Loop
<1>2. S \in Seq(Round) /\ Len(S) = Len(R)
  BY <1>1, EndRoundType
<1>3. /\ S[Len(R)].state = state /\ S[Len(R)].number = R[Len(R)].number
      /\ \A i \in 1..(Len(R) - 1) : S[i] = R[i]
  <2>1. S = [R EXCEPT ![Len(R)] = [number |-> R[Len(R)].number, state |-> state, fix |-> fix]]
    BY DEF EndRound, Last
  <2>2. DOMAIN R = 1..Len(R) /\ Len(R) \in DOMAIN R
    BY <1>1
  <2> HIDE DEF S
  <2> QED
    BY <1>1, <2>1, <2>2
<1>4. /\ Numbered(R) /\ Cardinality(Counted(R)) = loop[s].done + 1
      /\ R[Len(R)].state # "superseded"
  BY DEF RoundsFit, Last
<1> HIDE DEF R, S
<1>5. /\ Numbered(S)
      /\ S[Len(R)].state # "superseded" => Cardinality(Counted(S)) = Cardinality(Counted(R))
      /\ S[Len(R)].state = "superseded" => Cardinality(Counted(S)) = Cardinality(Counted(R)) - 1
  BY <1>1, <1>2, <1>3, <1>4, RoundEnded
<1>6. Cardinality(Counted(S)) = IF state = "superseded" THEN loop[s].done ELSE loop[s].done + 1
  BY <1>1, <1>3, <1>4, <1>5
<1>7. /\ S \in Seq(Round) /\ Len(S) = Len(R) /\ Len(S) > 0 /\ S[Len(S)].state = state
  BY <1>1, <1>2, <1>3
<1> QED
  BY <1>5, <1>6, <1>7 DEF R, S

\* Where the loop is between two rounds.
Between == {"start", "top", "paused", "adopt"}

\* What a loop's step makes of the rounds: it begins one, changes the last one on the way
\* or at its end, gives it up, closes them all at the session's end, or leaves them.
Begins(s) ==
    /\ loop[s].pc = "top" /\ loop'[s].pc = "review"
    /\ loop[s].done < MaxRounds /\ loop'[s].done = loop[s].done
    /\ sess'[s].rounds =
         Append(sess[s].rounds, [number |-> NextNumber(s), state |-> "reviewing", fix |-> "none"])
Moves(s) ==
    /\ loop[s].pc \in InRound
    /\ \E state \in RoundStates \ {"superseded"}, fix \in FixStates :
         sess'[s].rounds = EndRound(s, state, fix)
    /\ \/ loop'[s].pc \in InRound \cup {"settle"} /\ loop'[s].done = loop[s].done
       \/ loop'[s].pc = "top" /\ loop'[s].done = loop[s].done + 1
Gives(s) ==
    /\ loop[s].pc \in InRound /\ loop'[s].pc = "paused" /\ loop'[s].done = loop[s].done
    /\ sess'[s].rounds = EndRound(s, "superseded", "failed")
Closes(s) ==
    /\ loop'[s].pc = "over"
    /\ sess'[s].rounds = [i \in DOMAIN sess[s].rounds |-> Closed(sess[s].rounds[i])]
Leaves(s) ==
    /\ sess'[s].rounds = sess[s].rounds /\ loop'[s].done = loop[s].done
    /\ \/ loop[s].pc \in Between /\ loop'[s].pc \in Between \cup {"settle"}
       \/ loop[s].pc \in InRound /\ loop'[s].pc \in InRound \cup {"settle"}

LEMMA LoopRounds ==
    ASSUME TypeInv, NEW s \in Sid, LoopStep(s)
    PROVE  Begins(s) \/ Moves(s) \/ Gives(s) \/ Closes(s) \/ Leaves(s)
<1>1. sess \in [Sid -> Session] /\ loop \in [Sid -> Loop]
  BY DEF TypeInv, TypeOK
<1>2. sess[s] \in Session /\ loop[s] \in Loop
  BY <1>1
<1> USE <1>1, <1>2 DEF Fails, Stops, Session, Loop
<1>a. CASE FirstLook(s) \/ RoundsSpent(s) \/ PauseBetweenRounds(s) \/ LookFails(s)
  BY <1>a DEF FirstLook, RoundsSpent, PauseBetweenRounds, LookFails, Leaves, Between, InRound
<1>b. CASE BeginRound(s)
  BY <1>b DEF BeginRound, Begins
<1>c. CASE FixMade(s) \/ SaveRestorePoint(s) \/ ApplyPatch(s)
  BY <1>c DEF FixMade, SaveRestorePoint, ApplyPatch, Leaves, InRound
<1>d. CASE Supersede(s)
  BY <1>d DEF Supersede, Gives, InRound
<1>e. ASSUME NEW state \in RoundStates \ {"superseded"}, NEW fix \in FixStates,
             loop[s].pc \in InRound,
             sess'[s].rounds = EndRound(s, state, fix),
             \/ loop'[s].pc \in InRound \cup {"settle"} /\ loop'[s].done = loop[s].done
             \/ loop'[s].pc = "top" /\ loop'[s].done = loop[s].done + 1
      PROVE  Moves(s)
  BY <1>e DEF Moves
<1>f. /\ {"reviewing", "fixing", "applying", "done", "failed"} \subseteq RoundStates \ {"superseded"}
      /\ {"none", "running", "applied", "empty", "failed"} \subseteq FixStates
  BY DEF RoundStates, FixStates
<1>g. CASE ReviewsFail(s)
  <2>1. PICK state \in {"reviewing", "failed"} :
          sess' = [sess EXCEPT ![s].rounds = EndRound(s, state, "none")]
    BY <1>g DEF ReviewsFail
  <2>2. sess'[s].rounds = EndRound(s, state, "none")
    BY <2>1
  <2>3. loop[s].pc \in InRound /\ loop'[s].pc = "settle" /\ loop'[s].done = loop[s].done
    BY <1>g DEF ReviewsFail, InRound
  <2>4. state \in RoundStates \ {"superseded"} /\ "none" \in FixStates
    BY <1>f, <2>1
  <2> QED
    BY <1>e, <2>2, <2>3, <2>4
<1>h. CASE NothingWorthChanging(s) \/ StartFix(s)
  <2>1. /\ loop[s].pc \in InRound /\ loop'[s].pc \in {"settle", "fix"} /\ loop'[s].done = loop[s].done
        /\ \/ sess'[s].rounds = EndRound(s, "done", "none")
           \/ sess'[s].rounds = EndRound(s, "fixing", "running")
    BY <1>h DEF NothingWorthChanging, StartFix, InRound
  <2>2. loop'[s].pc \in InRound \cup {"settle"}
    BY <2>1 DEF InRound
  <2> HIDE <1>1, <1>2 DEF Fails, Stops, Session, Loop
  <2>3. CASE sess'[s].rounds = EndRound(s, "done", "none")
    BY <1>e, <1>f, <2>1, <2>2, <2>3
  <2>4. CASE sess'[s].rounds = EndRound(s, "fixing", "running")
    BY <1>e, <1>f, <2>1, <2>2, <2>4
  <2> QED
    BY <2>1, <2>3, <2>4
<1>i. CASE FixFails(s) \/ FixIsEmpty(s)
  <2>1. /\ loop[s].pc \in InRound /\ loop'[s].pc = "settle" /\ loop'[s].done = loop[s].done
        /\ \/ sess'[s].rounds = EndRound(s, "fixing", "failed")
           \/ sess'[s].rounds = EndRound(s, "done", "empty")
    BY <1>i DEF FixFails, FixIsEmpty, InRound
  <2> HIDE <1>1, <1>2 DEF Fails, Stops, Session, Loop
  <2> QED
    BY <1>e, <1>f, <2>1 DEF InRound
<1>j. CASE VerifyTree(s)
  <2>1. /\ loop[s].pc \in InRound /\ loop'[s].pc = "save" /\ loop'[s].done = loop[s].done
        /\ sess'[s].rounds = EndRound(s, "applying", "running")
    BY <1>j DEF VerifyTree, InRound
  <2> HIDE <1>1, <1>2 DEF Fails, Stops, Session, Loop
  <2> QED
    BY <1>e, <1>f, <2>1 DEF InRound
<1>k. CASE ApplyRefused(s) \/ ApplyCut(s) \/ RecordFails(s)
  <2>1. /\ loop[s].pc \in InRound /\ loop'[s].pc = "settle" /\ loop'[s].done = loop[s].done
        /\ sess'[s].rounds = EndRound(s, "applying", "failed")
    BY <1>k DEF ApplyRefused, ApplyCut, RecordFails, InRound
  <2> HIDE <1>1, <1>2 DEF Fails, Stops, Session, Loop
  <2> QED
    BY <1>e, <1>f, <2>1 DEF InRound
<1>l. CASE RecordFix(s)
  <2>1. /\ loop[s].pc \in InRound /\ loop'[s].pc = "top" /\ loop'[s].done = loop[s].done + 1
        /\ sess'[s].rounds = EndRound(s, "done", "applied")
    BY <1>l DEF RecordFix, InRound
  <2> HIDE <1>1, <1>2 DEF Fails, Stops, Session, Loop
  <2> QED
    BY <1>e, <1>f, <2>1 DEF InRound
<1>m. CASE Woken(s) \/ PauseCancelled(s) \/ Adopt(s)
  BY <1>m DEF Woken, PauseCancelled, Adopt, Leaves, Between
<1>n. CASE Settle(s)
  BY <1>n DEF Settle, Closes
<1> QED
  BY <1>a, <1>b, <1>c, <1>d, <1>g, <1>h, <1>i, <1>j, <1>k, <1>l, <1>m, <1>n DEF LoopStep

LEMMA LoopRoundsInv ==
    ASSUME PromiseInv, RoundsInv, NEW s \in Sid, LoopStep(s)
    PROVE  RoundsInv'
<1> DEFINE R == sess[s].rounds
<1>1. TypeInv /\ Alone(s) /\ (Begins(s) \/ Moves(s) \/ Gives(s) \/ Closes(s) \/ Leaves(s))
  BY LoopRounds, LoopAlone DEF PromiseInv, ActiveInv
<1>2. R \in Seq(Round) /\ loop[s].done \in Nat /\ MaxRounds \in Nat
  BY <1>1, BoundsAssumption DEF TypeInv, TypeOK, Session, Loop
<1>3. RoundsFit(s)
  BY DEF RoundsInv
<1>4. Numbered(R) /\ Cardinality(Counted(R)) <= MaxRounds
  BY <1>3 DEF RoundsFit
<1>5. Between \cap InRound = {} /\ "settle" \notin Between \cup InRound /\ "over" \notin Between \cup InRound
      /\ "top" \in Between /\ "paused" \in Between /\ "review" \in InRound
  BY DEF Between, InRound
<1>6. ASSUME NEW S, S = sess'[s].rounds, Numbered(S), Cardinality(Counted(S)) <= MaxRounds,
             loop'[s].pc \in Between => Cardinality(Counted(S)) = loop'[s].done,
             loop'[s].pc \in InRound =>
               Cardinality(Counted(S)) = loop'[s].done + 1 /\ S[Len(S)].state # "superseded"
      PROVE  RoundsFit(s)'
  BY <1>6 DEF RoundsFit, Between, Last
<1>7. RoundsFit(s)'
  <2>1. CASE Begins(s)
    <3> DEFINE r == [number |-> NextNumber(s), state |-> "reviewing", fix |-> "none"]
               S == Append(R, r)
    <3>1. r.number = 1 + Cardinality(Counted(R)) /\ r.state # "superseded"
      BY DEF NextNumber, Counted
    <3>2. r \in Round
      BY <1>1, NextNumberType DEF TypeInv, TypeOK, Round, RoundStates, FixStates
    <3>3. Cardinality(Counted(R)) = loop[s].done
      BY <1>3, <2>1 DEF RoundsFit, Begins
    <3>4. S[Len(S)].state # "superseded"
      BY <1>2, <3>1, <3>2
    <3> HIDE DEF r
    <3>5. Numbered(S) /\ Cardinality(Counted(S)) = loop[s].done + 1
      BY <1>2, <1>4, <3>1, <3>2, <3>3, RoundAppended
    <3>6. S = sess'[s].rounds
      BY <2>1 DEF Begins, r
    <3> HIDE DEF S
    <3>7. loop'[s].pc \in InRound /\ loop'[s].pc \notin Between /\ loop'[s].done = loop[s].done
      BY <1>5, <2>1 DEF Begins
    <3>8. Cardinality(Counted(S)) <= MaxRounds
      BY <1>2, <2>1, <3>5 DEF Begins
    <3> QED
      BY <1>6, <3>4, <3>5, <3>6, <3>7, <3>8
  <2>2. CASE Moves(s)
    <3>1. PICK state \in RoundStates \ {"superseded"}, fix \in FixStates :
            sess'[s].rounds = EndRound(s, state, fix)
      BY <2>2 DEF Moves
    <3> DEFINE S == EndRound(s, state, fix)
    <3>2. /\ Numbered(S) /\ Cardinality(Counted(S)) = loop[s].done + 1
          /\ S[Len(S)].state # "superseded"
      BY <1>1, <1>3, <2>2, EndRoundCounts DEF Moves
    <3>3. Cardinality(Counted(S)) <= MaxRounds
      BY <1>3, <1>4, <2>2, <3>2 DEF RoundsFit, Moves
    <3> HIDE DEF S
    <3>4. S = sess'[s].rounds
      BY <3>1 DEF S
    <3> QED
      BY <1>5, <1>6, <2>2, <3>2, <3>3, <3>4 DEF Moves
  <2>3. CASE Gives(s)
    <3> DEFINE S == EndRound(s, "superseded", "failed")
    <3>1. "superseded" \in RoundStates /\ "failed" \in FixStates
      BY DEF RoundStates, FixStates
    <3>2. Numbered(S) /\ Cardinality(Counted(S)) = loop[s].done
      BY <1>1, <1>3, <2>3, <3>1, EndRoundCounts DEF Gives
    <3>3. Cardinality(Counted(R)) = loop[s].done + 1
      BY <1>3, <2>3 DEF RoundsFit, Gives
    <3>4. S = sess'[s].rounds
      BY <2>3 DEF Gives
    <3> HIDE DEF S
    <3>5. Cardinality(Counted(S)) <= MaxRounds
      BY <1>2, <1>4, <3>2, <3>3
    <3> QED
      BY <1>5, <1>6, <2>3, <3>2, <3>4, <3>5 DEF Gives
  <2>4. CASE Closes(s)
    <3> DEFINE S == [i \in DOMAIN R |-> Closed(R[i])]
    <3>1. S = sess'[s].rounds
      BY <2>4 DEF Closes
    <3> HIDE DEF S
    <3>2. Numbered(S) /\ Counted(S) = Counted(R)
      BY <1>2, <1>4, RoundsClosed DEF S
    <3> QED
      BY <1>4, <1>5, <1>6, <2>4, <3>1, <3>2 DEF Closes
  <2>5. CASE Leaves(s)
    <3>1. R = sess'[s].rounds
      BY <2>5 DEF Leaves
    <3>2. loop'[s].pc \in Between => Cardinality(Counted(R)) = loop'[s].done
      BY <1>3, <1>5, <2>5 DEF RoundsFit, Leaves, Between
    <3>3. loop'[s].pc \in InRound =>
            Cardinality(Counted(R)) = loop'[s].done + 1 /\ R[Len(R)].state # "superseded"
      BY <1>3, <1>5, <2>5 DEF RoundsFit, Leaves, Last
    <3> HIDE DEF R
    <3> QED
      BY <1>4, <1>6, <3>1, <3>2, <3>3
  <2> QED
    BY <1>1, <2>1, <2>2, <2>3, <2>4, <2>5
<1>8. ASSUME NEW t \in Sid, t # s PROVE RoundsFit(t)'
  <2>1. sess'[t] = sess[t] /\ loop'[t] = loop[t]
    BY <1>1, <1>8 DEF Alone
  <2> QED
    BY <2>1 DEF RoundsInv, RoundsFit, Last
<1> QED
  BY <1>7, <1>8 DEF RoundsInv

LEMMA NoRounds ==
    /\ Numbered(<< >>) /\ Counted(<< >>) = {} /\ Cardinality(Counted(<< >>)) = 0
    /\ MaxRounds \in Nat
  BY FS_EmptySet, BoundsAssumption DEF Numbered, Counted

LEMMA NextRoundsInv == PromiseInv /\ RoundsInv /\ [Next]_vars => RoundsInv'
<1> SUFFICES ASSUME PromiseInv, RoundsInv, [Next]_vars, NEW t \in Sid PROVE RoundsFit(t)'
  BY DEF RoundsInv
<1>1. TypeInv /\ \A s \in Sid : s <= started \/ s > started
  BY BoundsAssumption DEF PromiseInv, ActiveInv, TypeInv, TypeOK, Sid
<1>2. ASSUME NEW s \in Sid, LoopStep(s) PROVE RoundsFit(t)'
  BY <1>2, LoopRoundsInv DEF RoundsInv
<1>3. ASSUME sess'[t].rounds = << >>, loop'[t].done = 0, loop'[t].pc \notin InRound
      PROVE  RoundsFit(t)'
  BY <1>3, NoRounds DEF RoundsFit
<1>4. CASE StartSession
  <2>1. PICK n \in Sid : n = started + 1
    BY <1>4, StartFrame
  <2>2. CASE t = n
    BY <1>3, <1>4, <2>1, <2>2, StartFrame DEF NewSession, NewLoop, InRound
  <2>3. CASE t # n
    <3>1. sess'[t] = sess[t] /\ loop'[t] = loop[t]
      BY <1>4, <2>1, <2>3, StartFrame
    <3> QED
      BY <3>1 DEF RoundsInv, RoundsFit, Last
  <2> QED
    BY <2>2, <2>3
<1>5. CASE Crash
  BY <1>1, <1>3, <1>5, CrashFrame DEF NewSession, NewLoop, InRound
<1>6. CASE Calm
  <2>1. sess'[t].rounds = sess[t].rounds /\ loop' = loop
    BY <1>6 DEF Calm
  <2> QED
    BY <2>1 DEF RoundsInv, RoundsFit, Last
<1> QED
  BY <1>1, <1>2, <1>4, <1>5, <1>6, NextKinds

\* Rounds that were not superseded are numbered 1, 2, ... and never more than MaxRounds:
\* an abandoned round does not count, its successor takes its number (runLoop's done
\* against nextNumberLocked).
THEOREM RoundsAreCounted == Spec => []RoundsCounted
<1>1. Init => PromiseInv /\ RoundsInv
  <2> SUFFICES ASSUME Init, NEW s \in Sid PROVE RoundsFit(s)
    BY InitPromiseInv DEF RoundsInv
  <2>1. sess[s].rounds = << >> /\ loop[s].done = 0 /\ loop[s].pc \notin InRound
    BY DEF Init, NewSession, NewLoop, InRound
  <2> QED
    BY <2>1, NoRounds DEF RoundsFit
<1>2. PromiseInv /\ RoundsInv /\ [Next]_vars => (PromiseInv /\ RoundsInv)'
  BY NextPromiseInv, NextRoundsInv
<1>3. PromiseInv /\ RoundsInv => RoundsCounted
  <2> SUFFICES ASSUME PromiseInv, RoundsInv, NEW s \in Sid, NEW R, R = sess[s].rounds
               PROVE  /\ Cardinality(Counted(R)) <= MaxRounds
                      /\ \A i \in Counted(R) :
                           R[i].number = Cardinality({j \in Counted(R) : j <= i})
    BY ZenonT(40) DEF RoundsCounted, Counted
  <2>1. R \in Seq(Round) /\ DOMAIN R = 1..Len(R)
    BY DEF PromiseInv, ActiveInv, TypeInv, TypeOK, Session
  <2>2. Numbered(R) /\ Cardinality(Counted(R)) <= MaxRounds
    BY DEF RoundsInv, RoundsFit
  <2>3. ASSUME NEW i \in Counted(R)
        PROVE  R[i].number = Cardinality({j \in Counted(R) : j <= i})
    <3>1. i \in 1..Len(R) /\ Counted(R) \subseteq 1..Len(R)
      BY <2>1 DEF Counted
    <3>2. {j \in Counted(R) : j <= i} = Before(R, i) \cup {i} /\ i \notin Before(R, i)
      BY <3>1 DEF Before
    <3>3. Cardinality(Before(R, i) \cup {i}) = Cardinality(Before(R, i)) + 1
      BY <2>1, <3>2, CountedFinite, FS_AddElement
    <3>4. R[i].number = 1 + Cardinality(Before(R, i)) /\ Cardinality(Before(R, i)) \in Nat
      BY <2>1, <2>2, <3>1, CountedFinite DEF Numbered
    <3>5. Cardinality({j \in Counted(R) : j <= i}) = Cardinality(Before(R, i)) + 1
      BY <3>2, <3>3
    <3> QED
      BY <3>4, <3>5
  <2> QED
    BY <2>2, <2>3
<1> QED
  BY <1>1, <1>2, <1>3, PTL DEF Spec
=============================================================================
