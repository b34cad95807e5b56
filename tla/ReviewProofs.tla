---------------------------- MODULE ReviewProofs ----------------------------
(***************************************************************************)
(* Proofs about reviews: a pass over the prompts, a detached review on a   *)
(* sidecar, and the rounds of the factory.                                 *)
(***************************************************************************)
EXTENDS ReviewPass, DetachedReview, Factory, WellFoundedInduction, TLAPS

-----------------------------------------------------------------------------
(***************************************************************************)
(* ReviewPass: findings are merged without loss, and a pass that is over   *)
(* has every sidecar back, every row settled and a result that says what   *)
(* its prompts came to, for any prompts, sidecars and answers.             *)
(***************************************************************************)

(* What a loop over a sequence computes. *)

\* A set of numbers that is not empty has a least one.
LEMMA Least ==
    ASSUME NEW S \in SUBSET Nat, S # {}
    PROVE  \E m \in S : \A t \in S : ~(t < m)
<1>1. PICK m \in S : \A t \in S : ~(<<t, m>> \in OpToRel(<, Nat))
  BY NatLessThanWellFounded, WFMin
<1>2. \A t \in S : t \in Nat /\ m \in Nat
  OBVIOUS
<1> QED
  BY <1>1, <1>2 DEF OpToRel

\* What holds at 0 and is handed on from each number to the next holds up to N.
LEMMA UpTo ==
    ASSUME NEW N \in Nat, NEW T, 0 \in T,
           \A i \in 1..N : i - 1 \in T => i \in T
    PROVE  0..N \subseteq T
<1> SUFFICES ASSUME ~(0..N \subseteq T) PROVE FALSE
  OBVIOUS
<1> DEFINE S == {i \in 0..N : i \notin T}
<1>1. S # {} /\ S \subseteq Nat
  OBVIOUS
<1> HIDE DEF S
<1>2. PICK m \in S : \A t \in S : ~(t < m)
  BY <1>1, Least
<1>3. m \in 0..N /\ m \notin T
  BY <1>2 DEF S
<1>4. m # 0 /\ m \in 1..N /\ m - 1 \in Nat /\ m - 1 < m /\ m - 1 \in 0..N
  BY <1>3
<1>5. m - 1 \in S
  BY <1>3, <1>4 DEF S
<1> QED
  BY <1>2, <1>4, <1>5

\* g is the run of a loop of N steps from z, each a function F of the step and of what
\* there was.
Run(N, S, z, F, g) ==
    g \in [0..N -> S] /\ g[0] = z /\ \A i \in 1..N : g[i] = F[<<i, g[i - 1]>>]

\* Every such loop has one.
LEMMA LoopRuns ==
    ASSUME NEW N \in Nat, NEW S, NEW z \in S, NEW F \in [(1..N) \X S -> S]
    PROVE  \E g : Run(N, S, z, F, g)
<1> DEFINE P(n, g) == g \in [0..n -> S] /\ g[0] = z /\ \A i \in 1..n : g[i] = F[<<i, g[i - 1]>>]
           T == {n \in 0..N : \E g : P(n, g)}
<1>1. 0 \in T
  <2>1. P(0, [i \in 0..0 |-> z])
    OBVIOUS
  <2> HIDE DEF P
  <2> QED
    BY <2>1
<1>2. ASSUME NEW n \in 1..N, n - 1 \in T PROVE n \in T
  <2>1. PICK g : P(n - 1, g)
    BY <1>2
  <2> DEFINE h == [i \in 0..n |-> IF i = n THEN F[<<n, g[n - 1]>>] ELSE g[i]]
  <2>2. n \in 1..N /\ n - 1 \in 0..(n - 1) /\ g[n - 1] \in S
    BY <2>1
  <2>3. F[<<n, g[n - 1]>>] \in S
    BY <2>2
  <2>4. h \in [0..n -> S]
    BY <2>1, <2>3
  <2>5. h[0] = z
    BY <2>1, <2>2
  <2>6. ASSUME NEW i \in 1..n PROVE h[i] = F[<<i, h[i - 1]>>]
    <3>1. i - 1 \in 0..n /\ i \in 0..n /\ i - 1 # n
      OBVIOUS
    <3>2. h[i - 1] = g[i - 1]
      BY <3>1
    <3>3. CASE i = n
      BY <3>1, <3>2, <3>3
    <3>4. CASE i # n
      BY <2>1, <3>1, <3>2, <3>4
    <3> QED
      BY <3>3, <3>4
  <2> HIDE DEF h
  <2>7. P(n, h)
    BY <2>4, <2>5, <2>6
  <2> HIDE DEF P
  <2> QED
    BY <2>7
<1> HIDE DEF T
<1>3. 0..N \subseteq T
  BY <1>1, <1>2, UpTo
<1>4. N \in T
  BY <1>3
<1> QED
  BY <1>4 DEF T, Run

-----------------------------------------------------------------------------
(* Findings. *)

Finding == [place : {f.place : f \in RawFindings}, body : {f.body : f \in RawFindings},
            severity : DOMAIN Rank]

LEMMA RankType == DOMAIN Rank = {"high", "medium", "low", "info"}
    /\ Rank["high"] = 0 /\ Rank["medium"] = 1 /\ Rank["low"] = 2 /\ Rank["info"] = 3
BY DEF Rank

\* Whatever a review reports, what is kept of it are findings, and no more than there may be.
LEMMA CleanFindingsType ==
    ASSUME PassAssumption, NEW raw \in Seq(RawFindings)
    PROVE  CleanFindings(raw) \in Seq(Finding) /\ Len(CleanFindings(raw)) <= MaxFindings
<1> DEFINE N == Len(raw)
           Kept == {s \in Seq(Finding) : Len(s) <= MaxFindings}
           Step(s, f) == IF Len(s) < MaxFindings /\ Usable(f) THEN Append(s, Cleaned(f)) ELSE s
           F == [a \in (1..N) \X Kept |-> Step(a[2], raw[a[1]])]
           Out(out) == out = [i \in 0..N |->
               IF i = 0 THEN <<>> ELSE Step(out[i - 1], raw[i])]
<1>1. N \in Nat /\ MaxFindings \in Nat
  BY DEF PassAssumption
<1>2. <<>> \in Kept
  BY <1>1
<1>3. ASSUME NEW s \in Kept, NEW f \in RawFindings PROVE Step(s, f) \in Kept
  <2>1. Cleaned(f) \in Finding
    BY RankType DEF Cleaned, Severity, Finding
  <2>2. CASE Len(s) < MaxFindings
    BY <1>1, <2>1, <2>2
  <2>3. CASE ~(Len(s) < MaxFindings)
    BY <2>3
  <2> QED
    BY <2>2, <2>3
<1>4. \A i \in 1..N : raw[i] \in RawFindings
  OBVIOUS
<1> HIDE DEF N, Kept
<1>5. F \in [(1..N) \X Kept -> Kept]
  <2> HIDE DEF Step
  <2> QED
    BY <1>3, <1>4
<1>6. PICK g : Run(N, Kept, <<>>, F, g)
  <2> HIDE DEF F
  <2> QED
    BY <1>1, <1>2, <1>5, LoopRuns
<1>7. \A i \in 1..N : g[i] = Step(g[i - 1], raw[i])
  <2> TAKE i \in 1..N
  <2>1. i - 1 \in 0..N /\ g[i - 1] \in Kept
    BY <1>1, <1>6 DEF Run
  <2>2. F[<<i, g[i - 1]>>] = Step(g[i - 1], raw[i])
    BY <2>1
  <2> QED
    BY <1>6, <2>2 DEF Run
<1>8. Out(g)
  <2> HIDE DEF Step
  <2> DEFINE h == [i \in 0..N |-> IF i = 0 THEN <<>> ELSE Step(g[i - 1], raw[i])]
  <2>1. \A i \in 0..N : g[i] = h[i]
    BY <1>1, <1>6, <1>7 DEF Run
  <2>2. g = h
    BY <1>6, <2>1 DEF Run
  <2> QED
    BY <2>2
<1> DEFINE out == CHOOSE out : Out(out)
<1>9. Out(out)
  BY <1>8
<1>10. CleanFindings(raw) = out[N]
  BY DEF CleanFindings, N
<1> HIDE DEF out
<1>11. out[0] = <<>> /\ \A i \in 1..N : out[i] = Step(out[i - 1], raw[i])
  <2> HIDE DEF Step
  <2>1. 0 \in 0..N /\ \A i \in 1..N : i \in 0..N /\ i # 0
    BY <1>1
  <2> QED
    BY <1>9, <2>1
<1> HIDE DEF Out, Step, F
<1> DEFINE T == {i \in 0..N : out[i] \in Kept}
<1>12. 0..N \subseteq T
  <2>1. 0 \in T
    BY <1>1, <1>2, <1>11
  <2>2. \A i \in 1..N : i - 1 \in T => i \in T
    BY <1>1, <1>3, <1>4, <1>11
  <2> HIDE DEF T
  <2> QED
    BY <1>1, <2>1, <2>2, UpTo
<1>13. out[N] \in Kept
  BY <1>1, <1>12
<1> QED
  BY <1>10, <1>13 DEF Kept

\* What a pass reports in the end is a sequence of findings.
LEMMA ReportedType ==
    ASSUME PassAssumption, \A p \in Prompt : work[p].findings \in Seq(Finding)
    PROVE  AllFindings \in Seq(Finding)
<1> DEFINE S == Seq(Finding)
           Own(p) == IF work[p].result = "ok" THEN work[p].findings ELSE <<>>
           F == [a \in (1..Prompts) \X S |-> a[2] \o Own(a[1])]
           Part(part) == part = [p \in 0..Prompts |->
               IF p = 0 THEN <<>> ELSE part[p - 1] \o Own(p)]
<1>1. Prompts \in Nat
  BY DEF PassAssumption
<1>2. <<>> \in S
  OBVIOUS
<1>3. \A s \in S, p \in 1..Prompts : s \o Own(p) \in S
  BY DEF Prompt
<1> HIDE DEF S
<1>4. F \in [(1..Prompts) \X S -> S]
  <2> HIDE DEF Own
  <2> QED
    BY <1>3
<1>5. PICK g : Run(Prompts, S, <<>>, F, g)
  <2> HIDE DEF F
  <2> QED
    BY <1>1, <1>2, <1>4, LoopRuns
<1>6. \A i \in 1..Prompts : g[i] = g[i - 1] \o Own(i)
  <2> TAKE i \in 1..Prompts
  <2>1. i - 1 \in 0..Prompts /\ g[i - 1] \in S
    BY <1>1, <1>5 DEF Run
  <2> QED
    BY <1>5, <2>1 DEF Run
<1>7. Part(g)
  <2> HIDE DEF Own
  <2> DEFINE h == [p \in 0..Prompts |-> IF p = 0 THEN <<>> ELSE g[p - 1] \o Own(p)]
  <2>1. \A p \in 0..Prompts : g[p] = h[p]
    BY <1>1, <1>5, <1>6, SMTT(30) DEF Run
  <2>2. g = h
    BY <1>5, <2>1 DEF Run
  <2> QED
    BY <2>2
<1> DEFINE part == CHOOSE part : Part(part)
<1>8. Part(part)
  BY <1>7
<1>9. AllFindings = part[Prompts]
  BY DEF AllFindings
<1> HIDE DEF part
<1>10. part[0] = <<>> /\ \A i \in 1..Prompts : part[i] = part[i - 1] \o Own(i)
  <2> HIDE DEF Own
  <2>1. 0 \in 0..Prompts /\ \A i \in 1..Prompts : i \in 0..Prompts /\ i # 0
    BY <1>1
  <2> QED
    BY <1>8, <2>1
<1> HIDE DEF Part, Own, F
<1> DEFINE T == {i \in 0..Prompts : part[i] \in S}
<1>11. 0..Prompts \subseteq T
  <2>1. 0 \in T
    BY <1>1, <1>2, <1>10
  <2>2. ASSUME NEW i \in 1..Prompts, i - 1 \in T PROVE i \in T
    <3>1. part[i - 1] \in S /\ i \in 0..Prompts
      BY <1>1, <2>2
    <3>2. part[i - 1] \o Own(i) \in S
      BY <1>3, <3>1
    <3>3. part[i] = part[i - 1] \o Own(i)
      BY <1>10
    <3> QED
      BY <3>1, <3>2, <3>3
  <2> HIDE DEF T
  <2> QED
    BY <1>1, <2>1, <2>2, UpTo
<1> QED
  BY <1>1, <1>9, <1>11 DEF S

-----------------------------------------------------------------------------
(* The findings of all reviews, merged. *)

\* out is what the first n findings of fs come to: each is there, no less severe than it
\* was, nothing else is, and nothing twice.
Merges(out, fs, n) ==
    /\ out \in Seq(Finding)
    /\ \A k \in 1..n : \E i \in 1..Len(out) :
          SameFinding(out[i], fs[k]) /\ Rank[out[i].severity] <= Rank[fs[k].severity]
    /\ \A i \in 1..Len(out) : \E k \in 1..n : fs[k] = out[i]
    /\ \A i, j \in 1..Len(out) : i # j => ~SameFinding(out[i], out[j])

LEMMA RankNat == \A f \in Finding : Rank[f.severity] \in Nat
BY RankType DEF Finding

\* One that was there already makes its copy more severe or leaves it.
LEMMA MergedRepeat ==
    ASSUME NEW fs \in Seq(Finding), NEW n \in 1..Len(fs), NEW out, Merges(out, fs, n - 1),
           \E i \in DOMAIN out : SameFinding(out[i], fs[n])
    PROVE  Merges(Merged(out, fs[n]), fs, n)
<1> DEFINE f == fs[n]
           new == Merged(out, f)
<1>1. f \in Finding /\ out \in Seq(Finding) /\ DOMAIN out = 1..Len(out) /\ Len(out) \in Nat
  BY DEF Merges
<1>2. new = [i \in 1..Len(out) |-> IF SameFinding(out[i], f) /\ Worse(f, out[i])
                               THEN [out[i] EXCEPT !.severity = f.severity] ELSE out[i]]
  BY <1>1 DEF Merged
<1>3. \A i \in 1..Len(out) : out[i] \in Finding
  BY <1>1
<1> HIDE DEF new, f
<1>4. ASSUME NEW i \in 1..Len(out)
      PROVE  /\ new[i] \in Finding /\ SameFinding(new[i], out[i])
             /\ Rank[new[i].severity] <= Rank[out[i].severity]
             /\ new[i] \in {out[i], f}
             /\ SameFinding(out[i], f) => Rank[new[i].severity] <= Rank[f.severity]
  <2>1. CASE SameFinding(out[i], f) /\ Worse(f, out[i])
    <3>1. new[i] = [out[i] EXCEPT !.severity = f.severity]
      BY <1>2, <2>1
    <3>2. new[i] = f
      BY <1>1, <1>3, <2>1, <3>1 DEF Finding, SameFinding
    <3> QED
      BY <1>1, <1>3, <2>1, <3>2, RankNat DEF SameFinding, Worse
  <2>2. CASE ~(SameFinding(out[i], f) /\ Worse(f, out[i]))
    <3>1. new[i] = out[i]
      BY <1>2, <2>2
    <3> QED
      BY <1>1, <1>3, <2>2, <3>1, RankNat DEF SameFinding, Worse
  <2> QED
    BY <2>1, <2>2
<1>5. new \in Seq(Finding) /\ Len(new) = Len(out)
  <2>1. new \in [1..Len(out) -> Finding]
    BY <1>2, <1>4
  <2> QED
    BY <1>1, <2>1
<1>6. ASSUME NEW k \in 1..n
      PROVE  \E i \in 1..Len(new) :
                SameFinding(new[i], fs[k]) /\ Rank[new[i].severity] <= Rank[fs[k].severity]
  <2>1. fs[k] \in Finding
    OBVIOUS
  <2>2. CASE k = n
    <3>1. PICK i \in 1..Len(out) : SameFinding(out[i], f)
      BY <1>1 DEF f
    <3>2. SameFinding(new[i], f) /\ Rank[new[i].severity] <= Rank[f.severity]
      BY <1>4, <3>1 DEF SameFinding
    <3> QED
      BY <1>5, <2>2, <3>2 DEF f
  <2>3. CASE k # n
    <3>0. k \in 1..(n - 1)
      BY <2>3
    <3>1. PICK i \in 1..Len(out) :
             SameFinding(out[i], fs[k]) /\ Rank[out[i].severity] <= Rank[fs[k].severity]
      BY <3>0 DEF Merges
    <3>2. Rank[new[i].severity] \in Nat /\ Rank[out[i].severity] \in Nat /\ Rank[fs[k].severity] \in Nat
      BY <1>3, <1>4, <2>1, RankNat
    <3>3. SameFinding(new[i], fs[k]) /\ Rank[new[i].severity] <= Rank[fs[k].severity]
      BY <1>4, <3>1, <3>2, SMTT(30) DEF SameFinding
    <3> QED
      BY <1>5, <3>3
  <2> QED
    BY <2>2, <2>3
<1>7. \A i \in 1..Len(new) : \E k \in 1..n : fs[k] = new[i]
  <2> TAKE i \in 1..Len(new)
  <2>1. PICK k \in 1..(n - 1) : fs[k] = out[i]
    BY <1>5 DEF Merges
  <2>2. n \in 1..n /\ k \in 1..n
    OBVIOUS
  <2>3. new[i] = fs[k] \/ new[i] = fs[n]
    BY <1>4, <1>5, <2>1 DEF f
  <2> QED
    BY <2>2, <2>3
<1>8. ASSUME NEW i \in 1..Len(new), NEW j \in 1..Len(new), i # j
      PROVE  ~SameFinding(new[i], new[j])
  <2>1. i \in 1..Len(out) /\ j \in 1..Len(out)
    BY <1>5
  <2>2. SameFinding(new[i], out[i]) /\ SameFinding(new[j], out[j])
    BY <1>4, <2>1
  <2>3. ~SameFinding(out[i], out[j])
    BY <1>8, <2>1 DEF Merges
  <2> QED
    BY <2>2, <2>3 DEF SameFinding
<1> QED
  BY <1>5, <1>6, <1>7, <1>8 DEF Merges, new, f

\* One that was not there is added.
LEMMA MergedFirst ==
    ASSUME NEW fs \in Seq(Finding), NEW n \in 1..Len(fs), NEW out, Merges(out, fs, n - 1),
           ~\E i \in DOMAIN out : SameFinding(out[i], fs[n])
    PROVE  Merges(Merged(out, fs[n]), fs, n)
<1> DEFINE f == fs[n]
           new == Append(out, f)
           L == Len(out)
<1>1. f \in Finding /\ out \in Seq(Finding) /\ DOMAIN out = 1..L /\ L \in Nat
  BY DEF Merges
<1>2. new \in Seq(Finding) /\ Len(new) = L + 1 /\ new[L + 1] = f
      /\ \A i \in 1..L : new[i] = out[i]
  BY <1>1
<1>3. Merged(out, f) = new
  BY DEF Merged
<1>4. 1..Len(new) = 1..L \union {L + 1}
  BY <1>1, <1>2
<1> HIDE DEF new, L
<1>5. ASSUME NEW k \in 1..n
      PROVE  \E i \in 1..Len(new) :
                SameFinding(new[i], fs[k]) /\ Rank[new[i].severity] <= Rank[fs[k].severity]
  <2>1. CASE k = n
    <3>1. Rank[f.severity] \in Nat
      BY <1>1, RankNat
    <3> QED
      BY <1>2, <1>4, <2>1, <3>1 DEF SameFinding
  <2>2. CASE k # n
    <3>0. k \in 1..(n - 1)
      BY <2>2
    <3>1. PICK i \in 1..L :
             SameFinding(out[i], fs[k]) /\ Rank[out[i].severity] <= Rank[fs[k].severity]
      BY <3>0 DEF Merges, L
    <3> QED
      BY <1>2, <1>4, <3>1
  <2> QED
    BY <2>1, <2>2
<1>6. \A i \in 1..Len(new) : \E k \in 1..n : fs[k] = new[i]
  <2> TAKE i \in 1..Len(new)
  <2>1. CASE i = L + 1
    BY <1>2, <2>1
  <2>2. CASE i \in 1..L
    <3>1. PICK k \in 1..(n - 1) : fs[k] = out[i]
      BY <2>2 DEF Merges, L
    <3> QED
      BY <1>2, <2>2, <3>1
  <2> QED
    BY <1>4, <2>1, <2>2
<1>7. \A i, j \in 1..Len(new) : i # j => ~SameFinding(new[i], new[j])
  <2>1. \A i \in 1..L : ~SameFinding(out[i], f) /\ ~SameFinding(f, out[i])
    BY <1>1 DEF SameFinding
  <2>2. \A i, j \in 1..L : i # j => ~SameFinding(out[i], out[j])
    BY DEF Merges, L
  <2> HIDE DEF f
  <2> QED
    BY <1>2, <1>4, <2>1, <2>2
<1> QED
  BY <1>2, <1>3, <1>5, <1>6, <1>7 DEF Merges

\* Whatever was reported, merging loses none of it, makes up nothing and leaves no repeat.
LEMMA DedupeMerges ==
    ASSUME NEW fs \in Seq(Finding)
    PROVE  Merges(DedupeFindings(fs), fs, Len(fs))
<1> DEFINE N == Len(fs)
           S == Seq(Finding)
           F == [a \in (1..N) \X S |-> Merged(a[2], fs[a[1]])]
           Out(out) == out = [n \in 0..N |-> IF n = 0 THEN <<>> ELSE Merged(out[n - 1], fs[n])]
<1>1. N \in Nat /\ <<>> \in S
  OBVIOUS
<1>2. ASSUME NEW s \in S, NEW f \in Finding PROVE Merged(s, f) \in S
  <2>1. CASE \E i \in DOMAIN s : SameFinding(s[i], f)
    <3>1. \A x \in Finding : [x EXCEPT !.severity = f.severity] \in Finding
      BY DEF Finding
    <3>2. Merged(s, f) \in [1..Len(s) -> Finding]
      BY <2>1, <3>1 DEF Merged
    <3> QED
      BY <3>2
  <2>2. CASE ~\E i \in DOMAIN s : SameFinding(s[i], f)
    BY <2>2 DEF Merged
  <2> QED
    BY <2>1, <2>2
<1>3. \A n \in 1..N : fs[n] \in Finding
  OBVIOUS
<1> HIDE DEF N, S
<1>4. F \in [(1..N) \X S -> S]
  BY <1>2, <1>3
<1>5. PICK g : Run(N, S, <<>>, F, g)
  <2> HIDE DEF F
  <2> QED
    BY <1>1, <1>4, LoopRuns
<1>6. \A n \in 1..N : g[n] = Merged(g[n - 1], fs[n])
  <2> TAKE n \in 1..N
  <2>1. n - 1 \in 0..N /\ g[n - 1] \in S
    BY <1>1, <1>5 DEF Run
  <2> QED
    BY <1>5, <2>1 DEF Run
<1>7. Out(g)
  <2> DEFINE h == [n \in 0..N |-> IF n = 0 THEN <<>> ELSE Merged(g[n - 1], fs[n])]
  <2>1. \A n \in 0..N : g[n] = h[n]
    BY <1>1, <1>5, <1>6 DEF Run
  <2>2. g = h
    BY <1>5, <2>1 DEF Run
  <2> QED
    BY <2>2
<1> DEFINE out == CHOOSE out : Out(out)
<1>8. Out(out)
  BY <1>7
<1>9. DedupeFindings(fs) = out[N]
  BY DEF DedupeFindings, N
<1> HIDE DEF out
<1>10. out[0] = <<>> /\ \A n \in 1..N : out[n] = Merged(out[n - 1], fs[n])
  <2>1. 0 \in 0..N /\ \A n \in 1..N : n \in 0..N /\ n # 0
    BY <1>1
  <2> QED
    BY <1>8, <2>1
<1> HIDE DEF Out, F
<1> DEFINE T == {n \in 0..N : Merges(out[n], fs, n)}
<1>11. 0 \in T
  <2>1. Merges(<<>>, fs, 0)
    <3>1. 1..0 = {} /\ Len(<<>>) = 0 /\ <<>> \in Seq(Finding)
      OBVIOUS
    <3> QED
      BY <3>1 DEF Merges
  <2> QED
    BY <1>1, <1>10, <2>1
<1>12. ASSUME NEW n \in 1..N, n - 1 \in T PROVE n \in T
  <2>1. Merges(out[n - 1], fs, n - 1) /\ n \in 0..N
    BY <1>1, <1>12
  <2>2. Merges(Merged(out[n - 1], fs[n]), fs, n)
    BY <1>1, <2>1, MergedRepeat, MergedFirst DEF N
  <2> QED
    BY <1>10, <2>1, <2>2
<1>13. 0..N \subseteq T
  <2> HIDE DEF T
  <2> QED
    BY <1>1, <1>11, <1>12, UpTo
<1> QED
  BY <1>1, <1>9, <1>13 DEF N

-----------------------------------------------------------------------------
(* The invariant. *)

Work ==
    [at : {"none", "started", "running", "ran", "settled", "over"},
     on : Member \union {Nobody},
     result : {"none", "ok", "failed", "fatal", "cancelled"}, findings : Seq(Finding)]

PassTypes ==
    /\ main \in {"acquire", "wait", "over"} /\ nextUp \in 1..Prompts + 1
    /\ acquireErr \in BOOLEAN /\ fatalErr \in BOOLEAN
    /\ work \in [Prompt -> Work]
    /\ \A p \in Prompt : Len(work[p].findings) <= MaxFindings
    /\ freeMembers \subseteq Member
    /\ passCtx \in {"live", "fatal", "quit"}
    /\ runLog \in [Member -> {"open", "closed"}] /\ inFlight \in [Member -> 0..Prompts]
    /\ lines \in [Prompt -> {"queued", "running", "done", "failed"}]
    /\ passOutcome \in {"none", "fatal", "stopped", "failed", "passed"}

Holding(p) == work[p].at \in {"started", "running", "ran", "settled"}
Ended(p) == work[p].at \in {"settled", "over"}

\* A sidecar is in the pool or with one prompt.
PassMembers ==
    /\ \A p \in Prompt : Holding(p) => work[p].on \in Member /\ work[p].on \notin freeMembers
    /\ \A p, q \in Prompt : Holding(p) /\ Holding(q) /\ p # q => work[p].on # work[q].on
    /\ \A s \in Member : s \notin freeMembers => \E p \in Prompt : Holding(p) /\ work[p].on = s

\* A prompt has a result once it ran; those before nextUp were handed a sidecar.
PassWork ==
    /\ \A p \in Prompt : work[p].at \in {"none", "started", "running"} <=> work[p].result = "none"
    /\ \A p \in Prompt : work[p].at = "none" <=> p >= nextUp
    /\ main = "acquire" => acquireErr = FALSE
    /\ main \in {"wait", "over"} => acquireErr = TRUE \/ nextUp > Prompts
    /\ main = "over" => AllReturned

\* The pass is cancelled by a fatal error that is known, or by the user, and a review is
\* cut off by nothing else.
PassCancel ==
    /\ fatalErr = TRUE <=> \E p \in Prompt : Ended(p) /\ work[p].result = "fatal"
    /\ fatalErr = TRUE => passCtx # "live"
    /\ passCtx = "fatal" => fatalErr = TRUE
    /\ \A p \in Prompt : work[p].result = "cancelled" => passCtx # "live"
    /\ \A p \in Prompt : Ended(p) /\ work[p].result = "cancelled" => passCtx = "quit"

\* What is still open in the log or shown as in flight is at work, or ended with the fatal
\* error.
PassRows ==
    /\ main # "over" =>
         /\ \A s \in Member : runLog[s] = "open" =>
               /\ inFlight[s] # 0
               /\ \/ fatalErr = TRUE
                  \/ \E p \in Prompt : work[p].at \in {"running", "ran"} /\ work[p].on = s
         /\ \A p \in Prompt : lines[p] = "queued" => work[p].at \in {"none", "started"}
         /\ \A p \in Prompt : lines[p] = "running" =>
               \/ work[p].at \in {"running", "ran"}
               \/ Ended(p) /\ work[p].result = "fatal"
    /\ RowsSettled

\* What the command reports is what its prompts came to.
PassOutcome ==
    main = "over" =>
        passOutcome = IF Fatal THEN "fatal" ELSE IF acquireErr THEN "stopped"
                  ELSE IF FailedReviews # {} THEN "failed" ELSE "passed"

PassInv ==
    PassTypes /\ PassMembers /\ PassWork /\ PassCancel /\ PassRows /\ PassOutcome

\* A pass starts that way.
LEMMA PassInvInit == ASSUME PassAssumption, InitPass PROVE PassInv
<1>1. <<>> \in Seq(Finding) /\ Len(<<>>) = 0 /\ 0 <= MaxFindings
  BY DEF PassAssumption
<1>2. Job \in Work
  BY <1>1 DEF Job, Work
<1>3. PassTypes
  <2>1. work \in [Prompt -> Work] /\ \A p \in Prompt : Len(work[p].findings) <= MaxFindings
    BY <1>1, <1>2 DEF InitPass, Job
  <2> QED
    <3>1. nextUp \in 1..Prompts + 1 /\ inFlight \in [Member -> 0..Prompts]
      BY DEF InitPass, PassAssumption
    <3>2. runLog \in [Member -> {"open", "closed"}] /\ freeMembers \subseteq Member
      BY DEF InitPass
    <3>3. lines \in [Prompt -> {"queued", "running", "done", "failed"}]
      BY DEF InitPass
    <3> QED
      BY <2>1, <3>1, <3>2, <3>3 DEF InitPass, PassTypes
<1> QED
  BY <1>3, SMTT(30) DEF InitPass, PassInv, PassTypes, PassMembers, PassWork, PassCancel, PassRows,
        RowsSettled, PassOutcome, Holding, Ended, Job, Prompt, PassAssumption

\* A prompt that moves on stays well formed.
LEMMA Moved ==
    ASSUME NEW w \in Work, NEW at \in {"started", "running", "over"}
    PROVE  [w EXCEPT !.at = at] \in Work
  BY DEF Work

\* Whatever moves keeps its type.
LEMMA PassTypesNext ==
    ASSUME PassAssumption, PassTypes, PassMembers, [NextPass]_passVars
    PROVE  PassTypes'
<1>1. CASE Acquire
  <2>1. PICK s \in freeMembers :
          /\ freeMembers' = freeMembers \ {s}
          /\ work' = [work EXCEPT ![nextUp].at = "started", ![nextUp].on = s]
    BY <1>1 DEF Acquire
  <2>2. [work[nextUp] EXCEPT !.at = "started", !.on = s] \in Work
    <3>1. nextUp \in Prompt
      BY <1>1 DEF Acquire, PassTypes, Prompt, PassAssumption
    <3>2. work[nextUp] \in Work /\ s \in Member
      BY <2>1, <3>1 DEF PassTypes
    <3> QED
      BY <3>2 DEF Work
  <2>8. work' \in [Prompt -> Work]
    BY <2>1, <2>2 DEF PassTypes
  <2>9. \A q \in Prompt : Len(work'[q].findings) <= MaxFindings
    BY <1>1, <2>1 DEF Acquire, PassTypes, Work
  <2> QED
    BY <1>1, <2>8, <2>9, <2>1 DEF Acquire, PassTypes, PassAssumption
<1>2. CASE AcquireFails
  BY <1>2 DEF AcquireFails, PassTypes, Work, Prompt
<1>3. CASE AllStarted
  BY <1>3 DEF AllStarted, PassTypes, Work, Prompt
<1>4. CASE Quit
  BY <1>4 DEF Quit, PassTypes, Work, Prompt
<1>5. CASE PassEnds
  <2>1. \A p \in Prompt : lines'[p] \in {"queued", "running", "done", "failed"}
    BY <1>5 DEF PassEnds, PassTypes, Settled
  <2>2. \A s \in Member : runLog'[s] \in {"open", "closed"} /\ inFlight'[s] \in 0..Prompts
    BY <1>5 DEF PassEnds, PassTypes, PassAssumption
  <2>3. passOutcome' \in {"none", "fatal", "stopped", "failed", "passed"}
    BY <1>5 DEF PassEnds
  <2> QED
    BY <1>5, <2>1, <2>2, <2>3 DEF PassEnds, PassTypes, Prompt
<1>6. ASSUME NEW p \in Prompt, Begin(p) PROVE PassTypes'
  <2>8. work' \in [Prompt -> Work]
    <3>1. work[p] \in Work /\ work' = [work EXCEPT ![p] = [@ EXCEPT !.at = "running"]]
      BY <1>6 DEF Begin, PassTypes
    <3> QED
      BY <3>1, Moved DEF PassTypes
  <2>9. \A q \in Prompt : Len(work'[q].findings) <= MaxFindings
    BY <1>6 DEF Begin, PassTypes, Work
  <2>10. p \in 0..Prompts
    BY DEF Prompt
  <2>11. inFlight' \in [Member -> 0..Prompts] /\ runLog' \in [Member -> {"open", "closed"}]
    BY <1>6, <2>10 DEF Begin, PassTypes
  <2>12. lines' \in [Prompt -> {"queued", "running", "done", "failed"}]
    BY <1>6 DEF Begin, PassTypes
  <2> QED
    BY <1>6, <2>8, <2>9, <2>11, <2>12 DEF Begin, PassTypes
<1>7. ASSUME NEW p \in Prompt, RunOne(p) PROVE PassTypes'
  <2>1. PICK result \in {"ok", "failed", "fatal", "cancelled"}, raw \in Answers :
          work' = [work EXCEPT ![p].at = "ran", ![p].result = result,
                      ![p].findings = IF result = "ok" THEN CleanFindings(raw) ELSE <<>>]
    BY <1>7 DEF RunOne
  <2> DEFINE found == IF result = "ok" THEN CleanFindings(raw) ELSE <<>>
  <2>2. raw \in Seq(RawFindings) /\ MaxFindings \in Nat
    BY DEF PassAssumption
  <2>3. found \in Seq(Finding) /\ Len(found) <= MaxFindings
    BY <2>2, CleanFindingsType
  <2>4. work' = [work EXCEPT ![p].at = "ran", ![p].result = result, ![p].findings = found]
    BY <2>1
  <2> HIDE DEF found
  <2>8. work' \in [Prompt -> Work]
    <3>1. [work[p] EXCEPT !.at = "ran", !.result = result, !.findings = found] \in Work
      BY <2>3 DEF PassTypes, Work
    <3> QED
      BY <2>4, <3>1 DEF PassTypes
  <2>9. \A q \in Prompt : Len(work'[q].findings) <= MaxFindings
    BY <1>7, <2>3, <2>4 DEF RunOne, PassTypes, Work
  <2> QED
    BY <1>7, <2>8, <2>9, <2>3, <2>4 DEF RunOne, PassTypes, PassAssumption
<1>8. ASSUME NEW p \in Prompt, Settle(p) PROVE PassTypes'
  <2>1. Attributed(p) \in {"none", "ok", "failed", "fatal", "cancelled"}
    BY DEF PassTypes, Work, Attributed
  <2>2. work[p].on \in Member \union {Nobody}
    BY DEF PassTypes, Work
  <2> HIDE DEF Attributed
  <2>3. work' = [work EXCEPT ![p].at = "settled", ![p].result = Attributed(p)]
    BY <1>8 DEF Settle
  <2>8. work' \in [Prompt -> Work]
    <3>1. [work[p] EXCEPT !.at = "settled", !.result = Attributed(p)] \in Work
      BY <2>1 DEF PassTypes, Work
    <3> QED
      BY <2>3, <3>1 DEF PassTypes
  <2>9. \A q \in Prompt : Len(work'[q].findings) <= MaxFindings
    BY <2>3 DEF PassTypes, Work
  <2>10. fatalErr' \in BOOLEAN /\ passCtx' \in {"live", "fatal", "quit"}
    BY <1>8, <2>1 DEF Settle, PassTypes
  <2>11. lines' \in [Prompt -> {"queued", "running", "done", "failed"}]
    BY <1>8 DEF Settle, PassTypes
  <2>12. runLog' \in [Member -> {"open", "closed"}]
    BY <1>8 DEF Settle, PassTypes
  <2>13. inFlight' \in [Member -> 0..Prompts]
    <3>1. 0 \in 0..Prompts
      BY DEF PassAssumption
    <3>2. inFlight' = inFlight \/ inFlight' = [inFlight EXCEPT ![work[p].on] = 0]
      BY <1>8 DEF Settle
    <3> QED
      BY <3>1, <3>2 DEF PassTypes
  <2> QED
    BY <1>8, <2>8, <2>9, <2>10, <2>11, <2>12, <2>13 DEF Settle, PassTypes
<1>9. ASSUME NEW p \in Prompt, Release(p) PROVE PassTypes'
  <2>8. work' \in [Prompt -> Work]
    <3>1. work[p] \in Work /\ work' = [work EXCEPT ![p] = [@ EXCEPT !.at = "over"]]
      BY <1>9 DEF Release, PassTypes
    <3> QED
      BY <3>1, Moved DEF PassTypes
  <2>9. \A q \in Prompt : Len(work'[q].findings) <= MaxFindings
    BY <1>9 DEF Release, PassTypes, Work
  <2> QED
    <3>1. work[p].on \in Member
      BY <1>9 DEF Release, PassMembers, Holding
    <3> QED
      BY <1>9, <2>8, <2>9, <3>1 DEF Release, PassTypes
<1>10. CASE UNCHANGED passVars
  BY <1>10 DEF passVars, PassTypes, Work, Prompt
<1> QED
  BY <1>1, <1>2, <1>3, <1>4, <1>5, <1>6, <1>7, <1>8, <1>9, <1>10 DEF NextPass, HandsOut, Works

\* A sidecar is free or with one prompt.
LEMMA PassMembersNext ==
    ASSUME PassAssumption, PassTypes, PassMembers, PassWork, [NextPass]_passVars
    PROVE  PassMembers'
<1>1. CASE Acquire
  <2>1. PICK s \in freeMembers :
          /\ freeMembers' = freeMembers \ {s}
          /\ work' = [work EXCEPT ![nextUp].at = "started", ![nextUp].on = s]
    BY <1>1 DEF Acquire
  <2>2. nextUp \in Prompt /\ ~Holding(nextUp)
    BY <1>1 DEF Acquire, PassTypes, PassWork, Prompt, Holding, PassAssumption
  <2>3. /\ work'[nextUp].at = "started" /\ work'[nextUp].on = s
        /\ \A q \in Prompt : q # nextUp => work'[q] = work[q]
    BY <2>1, <2>2 DEF PassTypes, Work
  <2>4. \A q \in Prompt : work'[q].at \in {"started", "running", "ran", "settled"} =>
           q = nextUp \/ (Holding(q) /\ work'[q].on = work[q].on)
    <3> TAKE q \in Prompt
    <3>1. q # nextUp => work'[q].at = work[q].at /\ work'[q].on = work[q].on
      BY <2>3
    <3> QED
      BY <3>1 DEF Holding
  <2>5. \A q \in Prompt : work'[q].at \in {"started", "running", "ran", "settled"} =>
           work'[q].on \in Member /\ work'[q].on \notin freeMembers'
    BY <2>1, <2>3, <2>4 DEF PassTypes, PassMembers
  <2>6. \A q, r \in Prompt : 
           work'[q].at \in {"started", "running", "ran", "settled"}
           /\ work'[r].at \in {"started", "running", "ran", "settled"}
           /\ q # r => work'[q].on # work'[r].on
    BY <2>1, <2>3, <2>4 DEF PassTypes, PassMembers
  <2>7. \A t \in Member : t \notin freeMembers' => \E q \in Prompt :
           work'[q].at \in {"started", "running", "ran", "settled"} /\ work'[q].on = t
    <3> TAKE t \in Member
    <3>1. CASE t = s
      BY <2>2, <2>3, <3>1
    <3>2. CASE t # s
      <4>1. t \notin freeMembers' => \E q \in Prompt : Holding(q) /\ work[q].on = t
        BY <2>1, <3>2 DEF PassMembers
      <4> QED
        BY <2>2, <2>3, <4>1 DEF Holding
    <3> QED
      BY <3>1, <3>2
  <2> QED
    BY <2>5, <2>6, <2>7 DEF PassMembers, Holding
<1>2. CASE AcquireFails
  BY <1>2 DEF AcquireFails, PassTypes, Work, PassMembers, Holding, Prompt
<1>3. CASE AllStarted
  BY <1>3 DEF AllStarted, PassTypes, Work, PassMembers, Holding, Prompt
<1>4. CASE Quit
  BY <1>4 DEF Quit, PassTypes, Work, PassMembers, Holding, Prompt
<1>5. CASE PassEnds
  BY <1>5 DEF PassEnds, PassTypes, Work, PassMembers, Holding, Prompt
<1>6. ASSUME NEW p \in Prompt, Begin(p) PROVE PassMembers'
  BY <1>6 DEF Begin, PassTypes, Work, PassMembers, Holding, Prompt
<1>7. ASSUME NEW p \in Prompt, RunOne(p) PROVE PassMembers'
  <2>1. /\ work'[p].at = "ran" /\ work'[p].on = work[p].on /\ freeMembers' = freeMembers
        /\ \A q \in Prompt : q # p => work'[q] = work[q]
    BY <1>7 DEF RunOne, PassTypes, Work
  <2>2. work[p].at = "running"
    BY <1>7 DEF RunOne
  <2> QED
    BY <2>1, <2>2 DEF PassMembers, Holding
<1>8. ASSUME NEW p \in Prompt, Settle(p) PROVE PassMembers'
  <2>1. /\ work'[p].at = "settled" /\ work'[p].on = work[p].on /\ freeMembers' = freeMembers
        /\ \A q \in Prompt : q # p => work'[q] = work[q]
    BY <1>8 DEF Settle, PassTypes, Work
  <2>2. work[p].at = "ran"
    BY <1>8 DEF Settle
  <2> QED
    BY <2>1, <2>2 DEF PassMembers, Holding
<1>9. ASSUME NEW p \in Prompt, Release(p) PROVE PassMembers'
  BY <1>9 DEF Release, PassTypes, Work, PassMembers, Holding, Prompt
<1>10. CASE UNCHANGED passVars
  BY <1>10 DEF passVars, PassTypes, Work, PassMembers, Holding, Prompt
<1> QED
  BY <1>1, <1>2, <1>3, <1>4, <1>5, <1>6, <1>7, <1>8, <1>9, <1>10 DEF NextPass, HandsOut, Works

\* Where a prompt is goes with its result.
LEMMA PassWorkNext ==
    ASSUME PassAssumption, PassTypes, PassWork, [NextPass]_passVars
    PROVE  PassWork'
<1>1. CASE Acquire
  BY <1>1
     DEF Acquire, PassTypes, Work, PassWork, AllReturned, Attributed, Prompt, PassAssumption
<1>2. CASE AcquireFails
  BY <1>2
     DEF AcquireFails, PassTypes, Work, PassWork, AllReturned, Attributed, Prompt,
         PassAssumption
<1>3. CASE AllStarted
  BY <1>3
     DEF AllStarted, PassTypes, Work, PassWork, AllReturned, Attributed, Prompt, PassAssumption
<1>4. CASE Quit
  BY <1>4 DEF Quit, PassTypes, Work, PassWork, AllReturned, Attributed, Prompt, PassAssumption
<1>5. CASE PassEnds
  BY <1>5
     DEF PassEnds, PassTypes, Work, PassWork, AllReturned, Attributed, Prompt, PassAssumption
<1>6. ASSUME NEW p \in Prompt, Begin(p) PROVE PassWork'
  BY <1>6 DEF Begin, PassTypes, Work, PassWork, AllReturned, Attributed, Prompt, PassAssumption
<1>7. ASSUME NEW p \in Prompt, RunOne(p) PROVE PassWork'
  BY <1>7 DEF RunOne, PassTypes, Work, PassWork, AllReturned, Attributed, Prompt, PassAssumption
<1>8. ASSUME NEW p \in Prompt, Settle(p) PROVE PassWork'
  BY <1>8 DEF Settle, PassTypes, Work, PassWork, AllReturned, Attributed, Prompt, PassAssumption
<1>9. ASSUME NEW p \in Prompt, Release(p) PROVE PassWork'
  BY <1>9
     DEF Release, PassTypes, Work, PassWork, AllReturned, Attributed, Prompt, PassAssumption
<1>10. CASE UNCHANGED passVars
  BY <1>10
     DEF passVars, PassTypes, Work, PassWork, AllReturned, Attributed, Prompt, PassAssumption
<1> QED
  BY <1>1, <1>2, <1>3, <1>4, <1>5, <1>6, <1>7, <1>8, <1>9, <1>10 DEF NextPass, HandsOut, Works

\* Who cancelled the pass, and why.
LEMMA PassCancelNext ==
    ASSUME PassAssumption, PassTypes, PassWork, PassCancel, [NextPass]_passVars
    PROVE  PassCancel'
<1>1. CASE Acquire
  BY <1>1
     DEF Acquire, PassTypes, Work, PassWork, PassCancel, Ended, Attributed, Cancelled, Prompt
<1>2. CASE AcquireFails
  BY <1>2
     DEF AcquireFails, PassTypes, Work, PassWork, PassCancel, Ended, Attributed, Cancelled,
         Prompt
<1>3. CASE AllStarted
  BY <1>3
     DEF AllStarted, PassTypes, Work, PassWork, PassCancel, Ended, Attributed, Cancelled, Prompt
<1>4. CASE Quit
  BY <1>4 DEF Quit, PassTypes, Work, PassWork, PassCancel, Ended, Attributed, Cancelled, Prompt
<1>5. CASE PassEnds
  BY <1>5
     DEF PassEnds, PassTypes, Work, PassWork, PassCancel, Ended, Attributed, Cancelled, Prompt
<1>6. ASSUME NEW p \in Prompt, Begin(p) PROVE PassCancel'
  BY <1>6 DEF Begin, PassTypes, Work, PassWork, PassCancel, Ended, Attributed, Cancelled, Prompt
<1>7. ASSUME NEW p \in Prompt, RunOne(p) PROVE PassCancel'
  BY <1>7
     DEF RunOne, PassTypes, Work, PassWork, PassCancel, Ended, Attributed, Cancelled, Prompt
<1>8. ASSUME NEW p \in Prompt, Settle(p) PROVE PassCancel'
  <2> DEFINE result == Attributed(p)
  <2>1. /\ work[p].at = "ran"
        /\ work' = [work EXCEPT ![p].at = "settled", ![p].result = result]
        /\ fatalErr' = (fatalErr \/ result = "fatal")
        /\ passCtx' = IF result = "fatal" /\ passCtx = "live" THEN "fatal" ELSE passCtx
    BY <1>8 DEF Settle
  <2>2. /\ result = IF work[p].result = "cancelled" /\ fatalErr = TRUE
                    THEN "fatal" ELSE work[p].result
        /\ fatalErr \in BOOLEAN
    BY DEF Attributed, PassTypes
  <2>3. /\ work'[p].at = "settled" /\ work'[p].result = result
        /\ \A q \in Prompt : q # p => work'[q] = work[q]
    BY <2>1 DEF PassTypes, Work
  <2>4. /\ Ended(p)' /\ ~Ended(p)
        /\ \A q \in Prompt : q # p => (Ended(q)' <=> Ended(q))
    BY <2>1, <2>3 DEF Ended
  <2> HIDE DEF result
  <2>5. fatalErr' = TRUE <=> fatalErr = TRUE \/ result = "fatal"
    BY <2>1, <2>2
  <2>6. fatalErr' = TRUE <=> \E q \in Prompt : Ended(q)' /\ work'[q].result = "fatal"
    <3>1. fatalErr = TRUE <=> \E q \in Prompt : q # p /\ Ended(q) /\ work[q].result = "fatal"
      BY <2>4 DEF PassCancel
    <3> QED
      BY <2>3, <2>4, <2>5, <3>1
  <2>7. /\ fatalErr' = TRUE => passCtx' # "live"
        /\ passCtx' = "fatal" => fatalErr' = TRUE
        /\ passCtx # "live" => passCtx' = passCtx
    BY <2>1, <2>5 DEF PassCancel
  <2>8. \A q \in Prompt : work'[q].result = "cancelled" => passCtx' # "live"
    <3>1. result = "cancelled" => work[p].result = "cancelled"
      BY <2>2
    <3> QED
      BY <2>3, <2>7, <3>1 DEF PassCancel
  <2>9. \A q \in Prompt : Ended(q)' /\ work'[q].result = "cancelled" => passCtx' = "quit"
    <3>1. result = "cancelled" => work[p].result = "cancelled" /\ fatalErr # TRUE
      BY <2>2
    <3>2. result = "cancelled" => passCtx = "quit"
      BY <3>1 DEF PassCancel, PassTypes
    <3> QED
      BY <2>3, <2>4, <2>7, <3>2 DEF PassCancel
  <2> QED
    BY <2>6, <2>7, <2>8, <2>9 DEF PassCancel
<1>9. ASSUME NEW p \in Prompt, Release(p) PROVE PassCancel'
  BY <1>9
     DEF Release, PassTypes, Work, PassWork, PassCancel, Ended, Attributed, Cancelled, Prompt
<1>10. CASE UNCHANGED passVars
  BY <1>10
     DEF passVars, PassTypes, Work, PassWork, PassCancel, Ended, Attributed, Cancelled, Prompt
<1> QED
  BY <1>1, <1>2, <1>3, <1>4, <1>5, <1>6, <1>7, <1>8, <1>9, <1>10 DEF NextPass, HandsOut, Works

\* What is open in the log or shown as in flight is at work.
LEMMA PassRowsNext ==
    ASSUME PassAssumption, PassTypes, PassMembers, PassWork, PassCancel, PassRows, [NextPass]_passVars
    PROVE  PassRows'
<1>1. CASE Acquire
  BY <1>1
     DEF Acquire, PassTypes, Work, PassMembers, PassWork, PassCancel, PassRows, RowsSettled,
         Ended, Holding, Attributed, AllReturned, Settled, Fatal, Prompt
<1>2. CASE AcquireFails
  BY <1>2
     DEF AcquireFails, PassTypes, Work, PassMembers, PassWork, PassCancel, PassRows,
         RowsSettled, Ended, Holding, Attributed, AllReturned, Settled, Fatal, Prompt
<1>3. CASE AllStarted
  BY <1>3
     DEF AllStarted, PassTypes, Work, PassMembers, PassWork, PassCancel, PassRows, RowsSettled,
         Ended, Holding, Attributed, AllReturned, Settled, Fatal, Prompt
<1>4. CASE Quit
  BY <1>4
     DEF Quit, PassTypes, Work, PassMembers, PassWork, PassCancel, PassRows, RowsSettled,
         Ended, Holding, Attributed, AllReturned, Settled, Fatal, Prompt
<1>5. CASE PassEnds
  <2>1. \A p \in Prompt : work[p].at \in {"none", "over"}
    BY <1>5 DEF PassEnds, AllReturned
  <2>2. main # "over" /\ main' = "over"
    BY <1>5 DEF PassEnds
  <2>3. fatalErr = TRUE => Fatal
    BY DEF PassCancel, Fatal
  <2>4. \A s \in Member : runLog'[s] = "closed"
    <3> TAKE s \in Member
    <3>1. runLog[s] = "open" => inFlight[s] # 0 /\ Fatal
      BY <2>1, <2>2, <2>3 DEF PassRows
    <3> QED
      BY <1>5, <3>1 DEF PassEnds, PassTypes
  <2>5. \A p \in Prompt : lines'[p] \in {"done", "failed"}
    <3> TAKE p \in Prompt
    <3>1. lines'[p] = Settled(lines[p], Fatal \/ acquireErr)
      BY <1>5 DEF PassEnds
    <3>2. lines[p] \in {"queued", "running", "done", "failed"}
      BY DEF PassTypes
    <3>3. CASE Fatal \/ acquireErr
      BY <3>1, <3>2, <3>3 DEF Settled
    <3>4. CASE ~(Fatal \/ acquireErr)
      <4>1. nextUp > Prompts
        BY <1>5, <3>4 DEF PassEnds, PassWork
      <4>2. work[p].at = "over"
        BY <2>1, <4>1 DEF PassWork, PassTypes, Prompt, PassAssumption
      <4>3. lines[p] # "queued" /\ lines[p] # "running"
        BY <2>2, <3>4, <4>2 DEF PassRows, Fatal
      <4> QED
        BY <3>1, <3>2, <3>4, <4>3 DEF Settled
    <3> QED
      BY <3>3, <3>4
  <2> QED
    BY <2>2, <2>4, <2>5 DEF PassRows, RowsSettled
<1>6. ASSUME NEW p \in Prompt, Begin(p) PROVE PassRows'
  BY <1>6
     DEF Begin, PassTypes, Work, PassMembers, PassWork, PassCancel, PassRows, RowsSettled,
         Ended, Holding, Attributed, AllReturned, Settled, Fatal, Prompt
<1>7. ASSUME NEW p \in Prompt, RunOne(p) PROVE PassRows'
  <2>1. /\ work'[p].at = "ran" /\ work'[p].on = work[p].on
        /\ \A q \in Prompt : q # p => work'[q] = work[q]
    BY <1>7 DEF RunOne, PassTypes, Work
  <2>2. work[p].at = "running" /\ main # "over"
    BY <1>7 DEF RunOne, PassWork, AllReturned
  <2>3. UNCHANGED <<main, fatalErr, runLog, inFlight, lines>>
    BY <1>7 DEF RunOne
  <2>4. \A q \in Prompt : q # p => (Ended(q)' <=> Ended(q))
    BY <2>1 DEF Ended
  <2> QED
    BY <2>1, <2>2, <2>3, <2>4 DEF PassRows, RowsSettled, Ended
<1>8. ASSUME NEW p \in Prompt, Settle(p) PROVE PassRows'
  <2> DEFINE result == Attributed(p)
             s == work[p].on
  <2>1. /\ work'[p].at = "settled" /\ work'[p].on = work[p].on /\ work'[p].result = result
        /\ \A q \in Prompt : q # p => work'[q] = work[q]
    BY <1>8 DEF Settle, PassTypes, Work
  <2>2. work[p].at = "ran" /\ main # "over" /\ main' = main /\ s \in Member
    BY <1>8 DEF Settle, PassWork, AllReturned, PassMembers, Holding
  <2>3. fatalErr' = (fatalErr \/ result = "fatal")
    BY <1>8 DEF Settle
  <2>4. /\ result = "fatal" => UNCHANGED <<lines, runLog, inFlight>>
        /\ result # "fatal" =>
             /\ lines' = [lines EXCEPT ![p] = IF result = "ok" THEN "done" ELSE "failed"]
             /\ runLog' = [runLog EXCEPT ![s] = "closed"]
             /\ inFlight' = [inFlight EXCEPT ![s] = 0]
    BY <1>8 DEF Settle, PassTypes
  <2> HIDE DEF result
  <2>5. \A q \in Prompt : lines'[q] = "queued" => work'[q].at \in {"none", "started"}
    BY <2>1, <2>2, <2>4 DEF PassRows, PassTypes
  <2>6. \A q \in Prompt : lines'[q] = "running" =>
           \/ work'[q].at \in {"running", "ran"}
           \/ work'[q].at \in {"settled", "over"} /\ work'[q].result = "fatal"
    <3> TAKE q \in Prompt
    <3>1. CASE q = p
      BY <2>1, <2>2, <2>4, <3>1 DEF PassTypes
    <3>2. CASE q # p
      <4>1. lines'[q] = lines[q] /\ work'[q] = work[q]
        BY <2>1, <2>4, <3>2 DEF PassTypes
      <4>2. lines[q] = "running" =>
               \/ work[q].at \in {"running", "ran"}
               \/ work[q].at \in {"settled", "over"} /\ work[q].result = "fatal"
        BY <2>2 DEF PassRows, Ended
      <4> QED
        BY <4>1, <4>2
    <3> QED
      BY <3>1, <3>2
  <2>7. ASSUME NEW t \in Member, runLog'[t] = "open"
        PROVE  /\ inFlight'[t] # 0
               /\ \/ fatalErr' = TRUE
                  \/ \E q \in Prompt : work'[q].at \in {"running", "ran"} /\ work'[q].on = t
    <3>1. CASE result = "fatal"
      <4>1. fatalErr' = TRUE /\ runLog[t] = "open" /\ inFlight'[t] = inFlight[t]
        BY <2>3, <2>4, <2>7, <3>1
      <4> QED
        BY <2>2, <4>1 DEF PassRows
    <3>2. CASE result # "fatal"
      <4>1. t # s /\ runLog[t] = "open" /\ inFlight'[t] = inFlight[t]
        BY <2>2, <2>4, <2>7, <3>2 DEF PassTypes
      <4>2. inFlight[t] # 0 /\ (fatalErr = TRUE
               \/ \E q \in Prompt : work[q].at \in {"running", "ran"} /\ work[q].on = t)
        BY <2>2, <4>1 DEF PassRows
      <4> QED
        BY <2>1, <2>3, <4>1, <4>2
    <3> QED
      BY <3>1, <3>2
  <2> QED
    BY <2>2, <2>5, <2>6, <2>7 DEF PassRows, RowsSettled, Ended
<1>9. ASSUME NEW p \in Prompt, Release(p) PROVE PassRows'
  BY <1>9
     DEF Release, PassTypes, Work, PassMembers, PassWork, PassCancel, PassRows, RowsSettled,
         Ended, Holding, Attributed, AllReturned, Settled, Fatal, Prompt
<1>10. CASE UNCHANGED passVars
  BY <1>10
     DEF passVars, PassTypes, Work, PassMembers, PassWork, PassCancel, PassRows, RowsSettled,
         Ended, Holding, Attributed, AllReturned, Settled, Fatal, Prompt
<1> QED
  BY <1>1, <1>2, <1>3, <1>4, <1>5, <1>6, <1>7, <1>8, <1>9, <1>10 DEF NextPass, HandsOut, Works

\* What the pass ended with.
LEMMA PassOutcomeNext ==
    ASSUME PassAssumption, PassTypes, PassWork, PassOutcome, [NextPass]_passVars
    PROVE  PassOutcome'
<1>1. CASE Acquire
  BY <1>1
     DEF Acquire, PassTypes, Work, PassWork, PassOutcome, Fatal, FailedReviews, AllReturned,
         Prompt
<1>2. CASE AcquireFails
  BY <1>2
     DEF AcquireFails, PassTypes, Work, PassWork, PassOutcome, Fatal, FailedReviews,
         AllReturned, Prompt
<1>3. CASE AllStarted
  BY <1>3
     DEF AllStarted, PassTypes, Work, PassWork, PassOutcome, Fatal, FailedReviews, AllReturned,
         Prompt
<1>4. CASE Quit
  BY <1>4
     DEF Quit, PassTypes, Work, PassWork, PassOutcome, Fatal, FailedReviews, AllReturned, Prompt
<1>5. CASE PassEnds
  BY <1>5
     DEF PassEnds, PassTypes, Work, PassWork, PassOutcome, Fatal, FailedReviews, AllReturned,
         Prompt
<1>6. ASSUME NEW p \in Prompt, Begin(p) PROVE PassOutcome'
  BY <1>6
     DEF Begin, PassTypes, Work, PassWork, PassOutcome, Fatal, FailedReviews, AllReturned,
         Prompt
<1>7. ASSUME NEW p \in Prompt, RunOne(p) PROVE PassOutcome'
  BY <1>7
     DEF RunOne, PassTypes, Work, PassWork, PassOutcome, Fatal, FailedReviews, AllReturned,
         Prompt
<1>8. ASSUME NEW p \in Prompt, Settle(p) PROVE PassOutcome'
  BY <1>8
     DEF Settle, PassTypes, Work, PassWork, PassOutcome, Fatal, FailedReviews, AllReturned,
         Prompt
<1>9. ASSUME NEW p \in Prompt, Release(p) PROVE PassOutcome'
  BY <1>9
     DEF Release, PassTypes, Work, PassWork, PassOutcome, Fatal, FailedReviews, AllReturned,
         Prompt
<1>10. CASE UNCHANGED passVars
  BY <1>10
     DEF passVars, PassTypes, Work, PassWork, PassOutcome, Fatal, FailedReviews, AllReturned,
         Prompt
<1> QED
  BY <1>1, <1>2, <1>3, <1>4, <1>5, <1>6, <1>7, <1>8, <1>9, <1>10 DEF NextPass, HandsOut, Works


\* Every step keeps all of it.
LEMMA PassInvNext ==
    ASSUME PassAssumption, PassInv, [NextPass]_passVars
    PROVE  PassInv'
BY PassTypesNext, PassMembersNext, PassWorkNext, PassCancelNext, PassRowsNext, PassOutcomeNext
   DEF PassInv

\* A pass that is over waited for every goroutine: whatever it reports is what its prompts
\* came to, nobody was cut off but by the user, and no sidecar or row is left behind.
LEMMA PassHonest ==
    ASSUME PassAssumption, PassInv
    PROVE  PassTypeOK /\ NoSpuriousCancel /\ PassComplete /\ RowsSettled
<1>1. PassTypeOK
  BY DEF PassInv, PassTypes, PassTypeOK, Work
<1>2. NoSpuriousCancel
  BY DEF PassInv, PassTypes, PassWork, PassCancel, NoSpuriousCancel, AllReturned, Ended
<1>3. PassComplete
  <2> SUFFICES ASSUME main = "over" PROVE PassComplete
    BY DEF PassComplete
  <2>1. \A p \in Prompt : work[p].at \in {"none", "over"}
    BY DEF PassInv, PassWork, AllReturned
  <2>2. freeMembers = Member
    BY <2>1 DEF PassInv, PassTypes, PassMembers, Holding
  <2>3. acquireErr = FALSE => \A p \in Prompt : work[p].at = "over" /\ work[p].result # "none"
    BY <2>1 DEF PassInv, PassTypes, PassWork, Prompt, PassAssumption
  <2>4. fatalErr = TRUE <=> Fatal
    BY <2>1 DEF PassInv, PassCancel, PassWork, Ended, Fatal
  <2>5. passOutcome = IF Fatal THEN "fatal" ELSE IF acquireErr THEN "stopped"
                  ELSE IF FailedReviews # {} THEN "failed" ELSE "passed"
    BY DEF PassInv, PassOutcome
  <2>6. fatalErr <=> passOutcome = "fatal"
    BY <2>4, <2>5 DEF PassInv, PassTypes
  <2>7. passOutcome = "failed" => \A p \in Prompt : work[p].result # "none"
    BY <2>3, <2>5 DEF PassInv, PassTypes
  <2>8. passOutcome = "passed" => \A p \in Prompt : work[p].result = "ok"
    BY <2>3, <2>5 DEF PassInv, PassTypes, Work, Fatal, FailedReviews
  <2> QED
    BY <2>2, <2>6, <2>7, <2>8 DEF PassComplete
<1>4. RowsSettled
  BY DEF PassInv, PassRows
<1> QED
  BY <1>1, <1>2, <1>3, <1>4

LEMMA PassMerged == ASSUME PassAssumption, PassInv PROVE FindingsMerged
<1> DEFINE fs == AllFindings
           merged == DedupeFindings(AllFindings)
<1>1. fs \in Seq(Finding)
  BY ReportedType DEF PassInv, PassTypes, Work
<1>2. Merges(merged, fs, Len(fs))
  BY <1>1, DedupeMerges
<1>3. merged \in Seq(Finding) /\ DOMAIN merged = 1..Len(merged) /\ DOMAIN fs = 1..Len(fs)
  BY <1>1, <1>2 DEF Merges
<1> HIDE DEF fs, merged
<1>4. \A f \in Range(fs) : \E d \in Range(merged) :
         SameFinding(d, f) /\ Rank[d.severity] <= Rank[f.severity]
  <2> TAKE f \in Range(fs)
  <2>1. PICK k \in 1..Len(fs) : fs[k] = f
    BY <1>3 DEF Range
  <2>2. PICK i \in 1..Len(merged) :
           SameFinding(merged[i], f) /\ Rank[merged[i].severity] <= Rank[f.severity]
    BY <1>2, <2>1 DEF Merges
  <2>3. merged[i] \in Range(merged)
    BY <1>3 DEF Range
  <2> QED
    BY <2>2, <2>3
<1>5. \A d \in Range(merged) : \E f \in Range(fs) : f = d
  BY <1>2, <1>3 DEF Merges, Range
<1>6. \A i, j \in DOMAIN merged : i # j => ~SameFinding(merged[i], merged[j])
  BY <1>2, <1>3 DEF Merges
<1> QED
  BY <1>4, <1>5, <1>6 DEF FindingsMerged, fs, merged

\* The pass keeps its type: no review keeps more findings than it may (cleanFindings).
THEOREM PassTypesKept == ASSUME PassAssumption PROVE SpecPass => []PassTypeOK
<1>1. InitPass => PassInv
  BY PassInvInit
<1>2. PassInv /\ [NextPass]_passVars => PassInv'
  BY PassInvNext
<1>3. PassInv => PassTypeOK
  BY PassHonest
<1> QED
  BY <1>1, <1>2, <1>3, PTL DEF SpecPass

\* A pass that is over tells what its prompts came to (RunPass, runOne): every one ran and
\* succeeded if it passed, it ended with the fatal error exactly if there was one, and no
\* prompt reads as cancelled that the user did not cancel; every sidecar is back in the
\* pool, and no row and no sidecar still reads as busy.
THEOREM PassesHonest ==
    ASSUME PassAssumption
    PROVE  SpecPass => [](NoSpuriousCancel /\ PassComplete /\ RowsSettled)
<1>1. InitPass => PassInv
  BY PassInvInit
<1>2. PassInv /\ [NextPass]_passVars => PassInv'
  BY PassInvNext
<1>3. PassInv => NoSpuriousCancel /\ PassComplete /\ RowsSettled
  BY PassHonest
<1> QED
  BY <1>1, <1>2, <1>3, PTL DEF SpecPass

\* Of the findings of all reviews none is lost in merging them, whatever they are and
\* however many: each has a copy that is no less severe, nothing was made up, and no two
\* that are left say the same (dedupeFindings).
THEOREM MergingLosesNothing == ASSUME PassAssumption PROVE SpecPass => []FindingsMerged
<1>1. InitPass => PassInv
  BY PassInvInit
<1>2. PassInv /\ [NextPass]_passVars => PassInv'
  BY PassInvNext
<1>3. PassInv => FindingsMerged
  BY PassMerged
<1> QED
  BY <1>1, <1>2, <1>3, PTL DEF SpecPass

-----------------------------------------------------------------------------
(***************************************************************************)
(* DetachedReview: what the files of a run directory say of its process,   *)
(* for any number of callers, runs and restarts.                           *)
(***************************************************************************)

(* What the files of a run directory say of its process. *)

DetachTyped ==
    /\ detachRecord \in Runs \union {NoRun} /\ dir \in [Runs -> Dir]
    /\ starter \in [Caller -> [at : {"idle", "launch", "save"}, run : Runs \union {NoRun}]]
    /\ reader \in [at : {"idle", "exitfile", "pidfile", "told"}, run : Runs \union {NoRun},
                   status : {"none", "done", "died", "running"}]
    /\ restarts \in 0..Restarts

\* A run that is not there has no process, one with a PID had one, one with an exit
\* code has none any more.
DirsTrue ==
    \A r \in Runs : /\ ~dir[r].made => dir[r] = NoDir
                    /\ dir[r].pid => dir[r].proc # "none"
                    /\ dir[r].code => dir[r].proc = "ended"

\* What is read is a run, and what was said of its end was so.
ReaderTrue ==
    /\ reader.at # "idle" => reader.run \in Runs
    /\ reader.status # "none" => reader.at = "told"
    /\ reader.status \in {"done", "died"} => dir[reader.run].proc = "ended"

DetachInv ==
    /\ DetachTyped /\ DirsTrue /\ ReaderTrue
    /\ \A c \in Caller : starter[c].at = "save" => starter[c].run \in Runs

LEMMA RunsAreNot == NoRun \notin Runs
  BY DEF Runs, NoRun

LEMMA DetachInvTold == DetachInv => DetachTypeOK /\ ToldTruly
<1> SUFFICES ASSUME DetachInv PROVE DetachTypeOK /\ ToldTruly
  OBVIOUS
<1>1. DetachTypeOK
  BY DEF DetachInv, DetachTyped, DetachTypeOK
<1>2. ToldTruly
  BY DEF DetachInv, ReaderTrue, ToldTruly, Alive
<1> QED
  BY <1>1, <1>2

LEMMA DetachInvInit == DetachAssumption /\ InitDetach => DetachInv
  BY DEF DetachAssumption, InitDetach, DetachInv, DetachTyped, DirsTrue, ReaderTrue, NoDir, Dir,
     Idle, NotReading

\* The steps of a run's process, which never comes back once it ended.
LEMMA DetachInvDirs ==
    ASSUME DetachInv, dir' \in [Runs -> Dir], DirsTrue',
           \A r \in Runs : dir[r].proc = "ended" => dir'[r].proc = "ended",
           UNCHANGED <<detachRecord, starter, reader>>, restarts' \in 0..Restarts
    PROVE  DetachInv'
<1>1. DetachTyped'
  BY DEF DetachInv, DetachTyped
<1>2. reader.status \in {"done", "died"} => reader.run \in Runs
  BY DEF DetachInv, ReaderTrue
<1>3. ReaderTrue'
  BY <1>2 DEF DetachInv, ReaderTrue
<1> QED
  BY <1>1, <1>3 DEF DetachInv

\* A step that changes one directory.
LEMMA DetachInvOneDir ==
    ASSUME DetachInv, NEW r \in Runs, NEW d \in Dir, dir' = [dir EXCEPT ![r] = d],
           ~d.made => d = NoDir, d.pid => d.proc # "none", d.code => d.proc = "ended",
           dir[r].proc = "ended" => d.proc = "ended",
           UNCHANGED <<detachRecord, starter, reader, restarts>>
    PROVE  DetachInv'
<1>1. dir' \in [Runs -> Dir] /\ \A q \in Runs : dir'[q] = IF q = r THEN d ELSE dir[q]
  BY DEF DetachInv, DetachTyped
<1>2. DirsTrue'
  BY <1>1 DEF DetachInv, DirsTrue
<1> QED
  BY <1>1, <1>2, DetachInvDirs DEF DetachInv, DetachTyped

LEMMA DetachInvNext ==
    ASSUME DetachAssumption, DetachInv, [NextDetach]_detachVars
    PROVE  DetachInv'
<1>1. CASE UNCHANGED detachVars
  BY <1>1 DEF detachVars, DetachInv, DetachTyped, DirsTrue, ReaderTrue
<1>2. ASSUME NEW r \in Runs
      PROVE  /\ dir[r] \in Dir /\ (~dir[r].made => dir[r] = NoDir)
             /\ (dir[r].pid => dir[r].proc # "none") /\ (dir[r].code => dir[r].proc = "ended")
  BY DEF DetachInv, DetachTyped, DirsTrue
<1>a. ASSUME NEW r \in Runs, dir[r].proc \in {"shell", "review"}
      PROVE  dir[r].made = TRUE /\ dir[r].code = FALSE
  <2>1. dir[r].made /\ ~dir[r].code
    BY <1>2, <1>a DEF NoDir
  <2>2. dir[r].made \in BOOLEAN /\ dir[r].code \in BOOLEAN
    BY <1>2 DEF Dir
  <2> QED
    BY <2>1, <2>2
<1>3. ASSUME NEW r \in Runs, WritesPID(r) PROVE DetachInv'
  <2> DEFINE d == [dir[r] EXCEPT !.pid = TRUE, !.proc = "review"]
  <2>1. dir' = [dir EXCEPT ![r] = d] /\ dir[r].proc = "shell"
    BY <1>3 DEF WritesPID, DetachInv, DetachTyped
  <2>2. d \in Dir /\ d.made = TRUE /\ d.proc = "review" /\ d.code = FALSE
    BY <1>2, <1>a, <2>1 DEF Dir
  <2> HIDE DEF d
  <2> QED
    BY <1>2, <1>3, <2>1, <2>2, DetachInvOneDir DEF WritesPID
<1>4. ASSUME NEW r \in Runs, ReviewEnds(r) PROVE DetachInv'
  <2>1. PICK report \in BOOLEAN : dir' = [dir EXCEPT ![r].proc = "shell", ![r].report = report]
    BY <1>4 DEF ReviewEnds
  <2> DEFINE d == [dir[r] EXCEPT !.proc = "shell", !.report = report]
  <2>2. dir' = [dir EXCEPT ![r] = d] /\ dir[r].proc = "review"
    BY <1>4, <2>1 DEF ReviewEnds, DetachInv, DetachTyped
  <2>3. d \in Dir /\ d.made = TRUE /\ d.proc = "shell" /\ d.code = FALSE
    BY <1>2, <1>a, <2>2 DEF Dir
  <2> HIDE DEF d
  <2> QED
    BY <1>2, <1>4, <2>2, <2>3, DetachInvOneDir DEF ReviewEnds
<1>5. ASSUME NEW r \in Runs, WritesCode(r) PROVE DetachInv'
  <2> DEFINE d == [dir[r] EXCEPT !.proc = "ended", !.code = TRUE]
  <2>1. dir' = [dir EXCEPT ![r] = d] /\ dir[r].proc = "shell"
    BY <1>5 DEF WritesCode, DetachInv, DetachTyped
  <2>2. d \in Dir /\ d.made = TRUE /\ d.proc = "ended"
    BY <1>2, <1>a, <2>1 DEF Dir
  <2> HIDE DEF d
  <2> QED
    BY <1>2, <1>5, <2>1, <2>2, DetachInvOneDir DEF WritesCode
<1>6. CASE Restart
  <2>1. /\ restarts < Restarts /\ restarts' = restarts + 1
        /\ UNCHANGED <<detachRecord, starter, reader>>
        /\ dir' = [r \in Runs |-> IF Alive(r) THEN [dir[r] EXCEPT !.proc = "ended"] ELSE dir[r]]
    BY <1>6 DEF Restart
  <2>2. restarts' \in 0..Restarts
    BY <2>1 DEF DetachInv, DetachTyped, DetachAssumption
  <2>3. ASSUME NEW r \in Runs
        PROVE  /\ dir'[r] \in Dir /\ dir'[r].made = dir[r].made /\ dir'[r].pid = dir[r].pid
               /\ dir'[r].code = dir[r].code /\ (dir[r].proc = "ended" => dir'[r].proc = "ended")
               /\ IF Alive(r) THEN dir'[r].proc = "ended" ELSE dir'[r] = dir[r]
    BY <1>2, <2>1 DEF Dir
  <2>4. dir' \in [Runs -> Dir]
    BY <2>1, <2>3
  <2>5. DirsTrue'
    <3> SUFFICES ASSUME NEW r \in Runs
                 PROVE  /\ ~dir'[r].made => dir'[r] = NoDir
                        /\ dir'[r].pid => dir'[r].proc # "none"
                        /\ dir'[r].code => dir'[r].proc = "ended"
      BY DEF DirsTrue
    <3>1. ~dir[r].made => ~Alive(r)
      BY <1>2 DEF Alive, NoDir
    <3> QED
      BY <1>2, <2>3, <3>1
  <2> QED
    BY <2>1, <2>2, <2>3, <2>4, <2>5, DetachInvDirs
\* A caller that goes on, to a run that is there if it is to be saved.
<1>7. ASSUME NEW c \in Caller, NEW at \in {"idle", "launch", "save"},
             NEW r \in Runs \union {NoRun}, Goes(c, at, r), at = "save" => r \in Runs
      PROVE  /\ starter' \in [Caller -> [at : {"idle", "launch", "save"}, run : Runs \union {NoRun}]]
             /\ \A b \in Caller : starter'[b].at = "save" => starter'[b].run \in Runs
  <2> DEFINE s == [at |-> at, run |-> r]
  <2>1. s \in [at : {"idle", "launch", "save"}, run : Runs \union {NoRun}]
    OBVIOUS
  <2>2. starter' = [starter EXCEPT ![c] = s] /\ s.at = at /\ s.run = r
    BY <1>7 DEF Goes
  <2> HIDE DEF s
  <2> QED
    BY <1>7, <2>1, <2>2 DEF DetachInv, DetachTyped
<1>8. ASSUME NEW c \in Caller, CheckNoActiveRun(c) PROVE DetachInv'
  BY <1>7, <1>8 DEF CheckNoActiveRun, DetachInv, DetachTyped, DirsTrue, ReaderTrue
<1>9. ASSUME NEW c \in Caller, Launch(c) PROVE DetachInv'
  <2>1. PICK r \in Runs :
          /\ ~dir[r].made /\ dir' = [dir EXCEPT ![r].made = TRUE, ![r].proc = "shell"]
          /\ Goes(c, "save", r) \/ Goes(c, "idle", NoRun)
    BY <1>9 DEF Launch
  <2>2. UNCHANGED <<detachRecord, reader, restarts>>
    BY <1>9 DEF Launch
  <2> DEFINE d == [dir[r] EXCEPT !.made = TRUE, !.proc = "shell"]
  <2>3. dir' = [dir EXCEPT ![r] = d]
    BY <2>1 DEF DetachInv, DetachTyped
  <2>4. d \in Dir /\ d.made = TRUE /\ d.proc = "shell" /\ d.code = FALSE /\ dir[r].proc = "none"
    <3>1. dir[r] = NoDir
      BY <1>2, <2>1
    <3>2. dir[r].code = FALSE /\ dir[r].proc = "none" /\ dir[r] \in Dir
      BY <1>2, <3>1 DEF NoDir
    <3> QED
      BY <3>2 DEF Dir
  <2> HIDE DEF d
  <2>5. dir' \in [Runs -> Dir] /\ \A q \in Runs : dir'[q] = IF q = r THEN d ELSE dir[q]
    BY <2>3, <2>4 DEF DetachInv, DetachTyped
  <2>6. DirsTrue'
    BY <2>4, <2>5 DEF DetachInv, DirsTrue
  <2>7. reader.status \in {"done", "died"} => reader.run \in Runs /\ reader.run # r
    BY <2>4 DEF DetachInv, ReaderTrue
  <2>8. ReaderTrue'
    BY <2>2, <2>5, <2>7 DEF DetachInv, ReaderTrue
  <2> QED
    BY <1>7, <2>1, <2>2, <2>5, <2>6, <2>8 DEF DetachInv, DetachTyped
<1>10. ASSUME NEW c \in Caller, LaunchFails(c) PROVE DetachInv'
  BY <1>7, <1>10 DEF LaunchFails, DetachInv, DetachTyped, DirsTrue, ReaderTrue
<1>11. ASSUME NEW c \in Caller, Save(c) PROVE DetachInv'
  <2>1. detachRecord' \in Runs \union {NoRun}
    BY <1>11 DEF Save, DetachInv, DetachTyped
  <2> QED
    BY <1>7, <1>11, <2>1 DEF Save, DetachInv, DetachTyped, DirsTrue, ReaderTrue
<1>12. CASE LoadRecord
  BY <1>12, RunsAreNot DEF LoadRecord, DetachInv, DetachTyped, DirsTrue, ReaderTrue
<1>13. CASE LookForExit
  BY <1>13 DEF LookForExit, DetachInv, DetachTyped, DirsTrue, ReaderTrue
<1>14. CASE LookForProcess
  <2>1. reader.run \in Runs /\ UNCHANGED <<detachRecord, dir, starter, restarts>>
    BY <1>14 DEF LookForProcess, DetachInv, ReaderTrue
  <2>2. reader' = [reader EXCEPT !.at = "told", !.status =
                     IF Gone(reader.run) THEN "died" ELSE "running"]
    BY <1>14 DEF LookForProcess
  <2>3. Gone(reader.run) => dir[reader.run].proc = "ended"
    BY <1>2, <2>1 DEF Gone, Alive, Dir
  <2>4. /\ reader'.at = "told" /\ reader'.run = reader.run
        /\ reader'.status = IF Gone(reader.run) THEN "died" ELSE "running"
        /\ DetachTyped'
    BY <2>1, <2>2 DEF DetachInv, DetachTyped
  <2> QED
    BY <2>1, <2>3, <2>4 DEF DetachInv, DirsTrue, ReaderTrue
<1>15. CASE Told
  BY <1>15 DEF Told, NotReading, DetachInv, DetachTyped, DirsTrue, ReaderTrue
<1> QED
  BY <1>1, <1>3, <1>4, <1>5, <1>6, <1>8, <1>9, <1>10, <1>11, <1>12, <1>13, <1>14, <1>15
     DEF NextDetach

-----------------------------------------------------------------------------
(* One run at a time, for the one terminal whose requests are answered. *)

OneCaller == \A b, c \in Caller : b = c

\* Whoever is alive is the recorded run, or the one the terminal is about to record;
\* while the terminal starts one, nobody is.
OneDetached ==
    /\ detachRecord # NoRun => dir[detachRecord].made
    /\ \A r \in Runs : Alive(r) => r = detachRecord \/ \E c \in Caller : starter[c].at # "idle"
    /\ \A c \in Caller : starter[c].at = "launch" => \A r \in Runs : ~Alive(r)
    /\ \A c \in Caller : starter[c].at = "save" =>
          dir[starter[c].run].made /\ \A r \in Runs : Alive(r) => r = starter[c].run


LEMMA OneDetachedOne == DetachInv /\ OneDetached => OneRunAtATime
<1> SUFFICES ASSUME DetachInv, OneDetached, NEW q \in Runs, NEW r \in Runs, Alive(q), Alive(r)
             PROVE  q = r
  BY DEF OneRunAtATime
<1>1. CASE \E c \in Caller : starter[c].at # "idle"
  <2>1. PICK c \in Caller : starter[c].at # "idle"
    BY <1>1
  <2>2. starter[c].at = "save"
    BY <2>1 DEF OneDetached, DetachInv, DetachTyped
  <2> QED
    BY <2>2 DEF OneDetached
<1>2. CASE ~\E c \in Caller : starter[c].at # "idle"
  BY <1>2 DEF OneDetached
<1> QED
  BY <1>1, <1>2

LEMMA OneDetachedInit == DetachAssumption /\ InitDetach => OneDetached
  BY DEF InitDetach, OneDetached, Alive, NoDir, Idle

\* A step of which nobody is alive who was not, and that leaves records alone.
LEMMA OneDetachedFewer ==
    ASSUME OneDetached, DetachInv, dir' \in [Runs -> Dir], UNCHANGED <<detachRecord, starter>>,
           \A r \in Runs : (dir'[r].made <=> dir[r].made) /\ (Alive(r)' => Alive(r))
    PROVE  OneDetached'
  BY DEF OneDetached, DetachInv, DetachTyped

LEMMA OneDetachedNext ==
    ASSUME DetachAssumption, OneCaller, ~Lossy, DetachInv, OneDetached, [NextDetach]_detachVars
    PROVE  OneDetached'
<1>1. CASE UNCHANGED <<detachRecord, dir, starter>>
  BY <1>1 DEF OneDetached, Alive
<1>2. dir \in [Runs -> Dir] /\ \A r \in Runs : dir[r] \in Dir
  BY DEF DetachInv, DetachTyped
<1>3. ASSUME NEW r \in Runs, WritesPID(r) \/ ReviewEnds(r) \/ WritesCode(r) PROVE OneDetached'
  <2>1. Alive(r) /\ UNCHANGED <<detachRecord, starter>>
    BY <1>3 DEF WritesPID, ReviewEnds, WritesCode, Alive
  <2>2. /\ dir' \in [Runs -> Dir]
        /\ \A q \in Runs : (dir'[q].made <=> dir[q].made) /\ (q # r => dir'[q] = dir[q])
    <3>1. CASE WritesPID(r)
      <4>1. dir' = [dir EXCEPT ![r].pid = TRUE, ![r].proc = "review"]
        BY <3>1 DEF WritesPID
      <4> QED
        BY <1>2, <4>1 DEF Dir
    <3>2. CASE ReviewEnds(r)
      <4>1. PICK report \in BOOLEAN : dir' = [dir EXCEPT ![r].proc = "shell", ![r].report = report]
        BY <3>2 DEF ReviewEnds
      <4> QED
        BY <1>2, <4>1 DEF Dir
    <3>3. CASE WritesCode(r)
      <4>1. dir' = [dir EXCEPT ![r].proc = "ended", ![r].code = TRUE]
        BY <3>3 DEF WritesCode
      <4> QED
        BY <1>2, <4>1 DEF Dir
    <3> QED
      BY <1>3, <3>1, <3>2, <3>3
  <2>3. \A q \in Runs : Alive(q)' => Alive(q)
    BY <2>1, <2>2 DEF Alive
  <2> QED
    BY <2>1, <2>2, <2>3, OneDetachedFewer
<1>4. CASE Restart
  <2>1. /\ UNCHANGED <<detachRecord, starter>>
        /\ dir' = [r \in Runs |-> IF Alive(r) THEN [dir[r] EXCEPT !.proc = "ended"] ELSE dir[r]]
    BY <1>4 DEF Restart
  <2>2. \A r \in Runs : dir'[r] \in Dir /\ (dir'[r].made <=> dir[r].made) /\ (Alive(r)' => Alive(r))
    BY <1>2, <2>1 DEF Dir, Alive
  <2>3. dir' \in [Runs -> Dir]
    BY <2>1, <2>2
  <2> QED
    BY <2>1, <2>2, <2>3, OneDetachedFewer
<1>5. ASSUME NEW c \in Caller, NEW at, NEW r, Goes(c, at, r)
      PROVE  /\ starter'[c].at = at /\ starter'[c].run = r
             /\ \A b \in Caller : b = c
  BY <1>5 DEF Goes, DetachInv, DetachTyped, OneCaller
<1>6. ASSUME NEW c \in Caller, CheckNoActiveRun(c) PROVE OneDetached'
  <2>1. /\ starter[c].at = "idle" /\ NoActiveRun(detachRecord) /\ UNCHANGED <<detachRecord, dir>>
        /\ Goes(c, "launch", NoRun)
    BY <1>6 DEF CheckNoActiveRun
  <2>2. starter'[c].at = "launch" /\ \A b \in Caller : b = c
    BY <1>5, <2>1
  <2>3. ASSUME NEW r \in Runs, Alive(r) PROVE FALSE
    <3>1. r = detachRecord /\ detachRecord # NoRun
      BY <2>1, <2>2, <2>3, RunsAreNot DEF OneDetached
    <3>2. Status(detachRecord) # "running" /\ dir[detachRecord].made
      BY <2>1, <3>1 DEF NoActiveRun, OneDetached
    <3>3. dir[detachRecord].code => ~Alive(detachRecord)
      BY <3>1 DEF DetachInv, DirsTrue, Alive
    <3>4. dir[detachRecord].code \/ Gone(detachRecord)
      BY <3>2 DEF Status
    <3> QED
      BY <2>3, <3>1, <3>3, <3>4 DEF Gone
  <2> QED
    BY <2>1, <2>2, <2>3 DEF OneDetached, Alive
<1>7. ASSUME NEW c \in Caller, Launch(c) PROVE OneDetached'
  <2>1. PICK r \in Runs :
          /\ ~dir[r].made /\ dir' = [dir EXCEPT ![r].made = TRUE, ![r].proc = "shell"]
          /\ Goes(c, "save", r)
    BY <1>7 DEF Launch
  <2>2. starter[c].at = "launch" /\ UNCHANGED detachRecord
    BY <1>7 DEF Launch
  <2>3. /\ starter'[c].at = "save" /\ starter'[c].run = r /\ \A b \in Caller : b = c
    BY <1>5, <2>1
  <2>4. \A q \in Runs : ~Alive(q)
    BY <2>2 DEF OneDetached
  <2>5. dir'[r].made /\ \A q \in Runs : q # r => dir'[q] = dir[q]
    BY <1>2, <2>1 DEF Dir
  <2>6. \A q \in Runs : Alive(q)' => q = r
    BY <2>4, <2>5 DEF Alive
  <2>7. detachRecord # NoRun => detachRecord \in Runs /\ dir'[detachRecord].made
    BY <2>5 DEF OneDetached, DetachInv, DetachTyped
  <2> QED
    BY <2>2, <2>3, <2>5, <2>6, <2>7 DEF OneDetached
<1>8. ASSUME NEW c \in Caller, LaunchFails(c) PROVE OneDetached'
  <2>1. /\ starter[c].at = "launch" /\ UNCHANGED <<detachRecord, dir>> /\ starter'[c].at = "idle"
        /\ \A b \in Caller : b = c
    BY <1>5, <1>8 DEF LaunchFails
  <2> QED
    BY <2>1 DEF OneDetached, Alive
<1>9. ASSUME NEW c \in Caller, Save(c) PROVE OneDetached'
  <2>1. /\ starter[c].at = "save" /\ detachRecord' = starter[c].run /\ UNCHANGED dir
        /\ starter'[c].at = "idle" /\ \A b \in Caller : b = c
    BY <1>5, <1>9 DEF Save
  <2> QED
    BY <2>1 DEF OneDetached, Alive
<1> QED
  BY <1>1, <1>3, <1>4, <1>6, <1>7, <1>8, <1>9
     DEF NextDetach, detachVars, LoadRecord, LookForExit,
     LookForProcess, Told

\* The files of a run and what is read of them keep their types.
THEOREM DetachTypes ==
    ASSUME DetachAssumption
    PROVE  SpecDetach => []DetachTypeOK
<1>1. InitDetach => DetachInv
  BY DetachInvInit
<1>2. DetachInv /\ [NextDetach]_detachVars => DetachInv'
  BY DetachInvNext
<1>3. DetachInv => DetachTypeOK
  BY DetachInvTold
<1> QED
  BY <1>1, <1>2, <1>3, PTL DEF SpecDetach

\* A report of the end is the end, whatever is restarted and whatever is lost.
THEOREM EndsAreEnds ==
    ASSUME DetachAssumption
    PROVE  SpecDetach => []ToldTruly
<1>1. InitDetach => DetachInv
  BY DetachInvInit
<1>2. DetachInv /\ [NextDetach]_detachVars => DetachInv'
  BY DetachInvNext
<1>3. DetachInv => ToldTruly
  BY DetachInvTold
<1> QED
  BY <1>1, <1>2, <1>3, PTL DEF SpecDetach

\* One terminal that hears of the runs it starts never has two of them at once.
THEOREM OneDetachedRun ==
    ASSUME DetachAssumption, OneCaller, ~Lossy
    PROVE  SpecDetach => []OneRunAtATime
<1>1. InitDetach => DetachInv /\ OneDetached
  BY DetachInvInit, OneDetachedInit
<1>2. DetachInv /\ OneDetached /\ [NextDetach]_detachVars => (DetachInv /\ OneDetached)'
  BY DetachInvNext, OneDetachedNext
<1>3. DetachInv /\ OneDetached => OneRunAtATime
  BY OneDetachedOne
<1> QED
  BY <1>1, <1>2, <1>3, PTL DEF SpecDetach

-----------------------------------------------------------------------------
(***************************************************************************)
(* Factory: the checks of a round are of its change, and a run that is     *)
(* over has closed its rounds and kept its work, for any reviewers and     *)
(* attempts.                                                               *)
(***************************************************************************)

(* Where a run is decides what its trees, its checks and its record are. *)

Early == {"request", "worktree", "pool", "prepare"}
Working == {"implement", "collect", "pull", "kill", "push", "mark", "check", "judge"}
Late == {"lastpull", "commit", "close", "done"}

RoundsCounted ==
    /\ phase \in Early => round = 0 /\ change = Nothing
    /\ phase \in Working \cup {"lastpull", "commit"} => round >= 1
    /\ phase = "remove" => round = 0
    /\ factoryOutcome.result # "none" => phase \in Late /\ round >= 1
    /\ phase \in Early \cup Working => ~factoryOutcome.failed
    /\ phase \in Late \cup {"remove"} /\ round = 0 => factoryOutcome.failed

\* What is in the worktree, and what of it is committed.
WorktreeMade ==
    /\ phase \in {"request", "worktree"} => ~worktree.made
    /\ phase \in {"pool", "prepare", "lastpull", "commit", "close", "remove"} \cup Working =>
          worktree.made
    /\ phase = "done" => (worktree.made <=> round > 0)
    /\ phase \notin {"close", "done"} => worktree.commit = Nothing
    /\ worktree.commit # Nothing => worktree.commit = worktree.tree
    /\ round = 0 => worktree.commit = Nothing

\* The checks that are there judge what the worktree has, until the last pull.
WorktreeJudged ==
    /\ phase \in Early \/ round = 0 => validation = NotRun
    /\ validation.tree # Nothing =>
          \/ worktree.tree = validation.tree
          \/ phase \in {"commit", "close", "done"} /\ worktree.tree = impl

\* The change goes from the implementer to the worktree and on to the reviewers.
ChangeOnItsWay ==
    /\ phase \in {"pull", "kill", "push", "mark", "check", "judge"} => impl = change
    /\ phase \in {"kill", "push", "mark", "check", "judge"} => worktree.tree = change
    /\ phase = "push" => \A r \in Reviewers \ todo : reviewerTree[r] = change
    /\ phase \in {"mark", "check"} => \A r \in Reviewers : reviewerTree[r] = change
    /\ factoryOutcome.result = "passed" => impl = change /\ worktree.tree = change

AllOfChange == validation.tree = change /\ \A r \in Reviewers : about[r] = change

ChecksSoFar ==
    /\ phase \in {"kill", "push", "mark"} => about = Unseen /\ validation = NotRun
    /\ phase = "check" =>
         /\ \A r \in Reviewers : about[r] = IF r \in todo THEN Nothing ELSE change
         /\ IF validation.check = "none" THEN validation.tree = Nothing ELSE validation.tree = change
    /\ phase = "judge" => AllOfChange
    /\ phase \in {"implement", "collect"} /\ round > 1 => AllOfChange
    /\ factoryOutcome.result \in {"passed", "exhausted", "stuck"} => AllOfChange

\* The record of a round, and of those before and after it.
RecordInStep ==
    ~factoryOutcome.failed =>
      \A n \in 1..Attempts :
        /\ n > round => factoryRecord[n] = "none"
        /\ n < round => factoryRecord[n] = "done"
        /\ n = round =>
             factoryRecord[n] =
                 CASE phase \in {"implement", "collect"} -> "implementing"
                   [] phase \in {"pull", "kill", "push", "mark", "check"} -> "checking"
                   [] OTHER -> "done"

FactoryInv ==
    /\ FactoryTypeOK /\ RoundsCounted /\ WorktreeMade /\ RecordInStep

LEMMA FactoryInvInit == FactoryAssumption /\ InitFactory => FactoryInv
<1> SUFFICES ASSUME FactoryAssumption, InitFactory PROVE FactoryInv
  OBVIOUS
<1>1. FactoryTypeOK
  BY
     DEF InitFactory, FactoryAssumption, FactoryTypeOK, Trees, Nothing, Phases, Unchecked,
         Unseen,
     NotRun, Verdicts
<1>2. RoundsCounted
  BY DEF InitFactory, RoundsCounted, Early, Working, Late
<1>3. WorktreeMade
  BY DEF InitFactory, WorktreeMade, Working
<1>4. RecordInStep
  BY DEF InitFactory, RecordInStep
<1> QED
  BY <1>1, <1>2, <1>3, <1>4 DEF FactoryInv

\* Steps that give up keep the types.
LEMMA FailsTyped == ASSUME FactoryInv, Fails PROVE FactoryTypeOK'
<1>1. factoryOutcome' \in [result : {"none", "passed", "exhausted", "stuck", "no_change"},
                    rounds : 0..Attempts, failed : BOOLEAN]
  BY DEF Fails, FactoryInv, FactoryTypeOK
<1>2. factoryRecord' \in [1..Attempts -> {"none", "implementing", "checking", "done", "stopped"}]
  BY DEF Fails, FactoryInv, FactoryTypeOK
<1>3. phase' \in Phases
  BY DEF Fails, Phases
<1> QED
  BY <1>1, <1>2, <1>3 DEF Fails, FactoryInv, FactoryTypeOK, trees, checks

LEMMA EndsTyped ==
    ASSUME FactoryInv, NEW result \in {"passed", "exhausted", "stuck", "no_change"}, Ends(result)
    PROVE  /\ factoryOutcome' \in [result : {"none", "passed", "exhausted", "stuck", "no_change"},
                            rounds : 0..Attempts, failed : BOOLEAN]
           /\ factoryRecord' \in [1..Attempts -> {"none", "implementing", "checking", "done", "stopped"}]
           /\ phase' \in Phases
  BY DEF Ends, Noted, FactoryInv, FactoryTypeOK, Phases

LEMMA FactoryTyped ==
    ASSUME FactoryAssumption, FactoryInv, [NextFactory]_factoryVars
    PROVE  FactoryTypeOK'
<1>1. CASE StartFactory
  <2>1. factoryOutcome' = factoryOutcome \/ factoryOutcome' = [factoryOutcome EXCEPT !.failed = TRUE]
    BY <1>1 DEF StartFactory
  <2>2. factoryOutcome' \in [result : {"none", "passed", "exhausted", "stuck", "no_change"},
                            rounds : 0..Attempts, failed : BOOLEAN]
    BY <2>1 DEF FactoryInv, FactoryTypeOK
  <2>3. /\ phase' \in Phases
        /\ UNCHANGED <<trees, checks, round, feedback, change, todo, factoryRecord, members>>
    BY <1>1 DEF StartFactory, Phases
  <2> QED
    BY <2>2, <2>3 DEF FactoryInv, FactoryTypeOK, trees, checks
<1>2. CASE CreateWorktree
  <2>1. factoryOutcome' = factoryOutcome \/ factoryOutcome' = [factoryOutcome EXCEPT !.failed = TRUE]
    BY <1>2 DEF CreateWorktree
  <2>2. factoryOutcome' \in [result : {"none", "passed", "exhausted", "stuck", "no_change"},
                            rounds : 0..Attempts, failed : BOOLEAN]
    BY <2>1 DEF FactoryInv, FactoryTypeOK
  <2>3. worktree' = worktree \/ worktree' = [worktree EXCEPT !.made = TRUE]
    BY <1>2 DEF CreateWorktree
  <2>4. worktree' \in [made : BOOLEAN, tree : Trees, commit : Trees \cup {Nothing}]
    BY <2>3 DEF FactoryInv, FactoryTypeOK
  <2>5. /\ phase' \in Phases
        /\ UNCHANGED <<impl, reviewerTree, checks, round, feedback, change, todo, factoryRecord,
                       members>>
    BY <1>2 DEF CreateWorktree, Phases
  <2> QED
    BY <2>2, <2>4, <2>5 DEF FactoryInv, FactoryTypeOK, checks
<1>3. CASE NewPool
  <2>1. factoryOutcome' = factoryOutcome \/ factoryOutcome' = [factoryOutcome EXCEPT !.failed = TRUE]
    BY <1>3 DEF NewPool
  <2>2. factoryOutcome' \in [result : {"none", "passed", "exhausted", "stuck", "no_change"},
                            rounds : 0..Attempts, failed : BOOLEAN]
    BY <2>1 DEF FactoryInv, FactoryTypeOK
  <2>3. /\ phase' \in Phases /\ members' \in {"none", "running"}
        /\ UNCHANGED <<trees, checks, round, feedback, change, todo, factoryRecord>>
    BY <1>3 DEF NewPool, Phases
  <2> QED
    BY <2>2, <2>3 DEF FactoryInv, FactoryTypeOK, trees, checks
<1>4. CASE Prepare
  <2>1. CASE Fails
    BY <2>1, FailsTyped
  <2>2. CASE ~Fails
    <3>1. /\ phase' = "implement" /\ round' = 1
          /\ factoryRecord' = [factoryRecord EXCEPT ![1] = "implementing"]
          /\ UNCHANGED <<trees, checks, feedback, change, todo, factoryOutcome, members>>
      BY <1>4, <2>2 DEF Prepare
    <3>2. factoryRecord' \in [1..Attempts -> {"none", "implementing", "checking", "done", "stopped"}]
      BY <3>1 DEF FactoryInv, FactoryTypeOK
    <3>3. round' \in 0..Attempts
      BY <3>1 DEF FactoryAssumption
    <3> QED
      BY <3>1, <3>2, <3>3 DEF FactoryInv, FactoryTypeOK, Phases, trees, checks
  <2> QED
    BY <2>1, <2>2
<1>5. CASE Implement
  <2>1. CASE Fails
    BY <2>1, FailsTyped
  <2>2. CASE phase' = "collect"
    BY <1>5, <2>2 DEF Implement, Fails, FactoryInv, FactoryTypeOK, Phases, checks, loop
  <2>3. CASE ~Fails /\ phase' # "collect"
    <3>1. /\ impl' \in Trees /\ phase' = "lastpull"
          /\ factoryOutcome' = [factoryOutcome EXCEPT !.failed = TRUE]
          /\ factoryRecord' = [factoryRecord EXCEPT ![round] = "stopped"]
          /\ UNCHANGED <<reviewerTree, worktree, checks, round, feedback, change, todo, members>>
      BY <1>5, <2>3 DEF Implement
    <3>2. factoryOutcome' \in [result : {"none", "passed", "exhausted", "stuck", "no_change"},
                        rounds : 0..Attempts, failed : BOOLEAN]
      BY <3>1 DEF FactoryInv, FactoryTypeOK
    <3>3. factoryRecord' \in [1..Attempts -> {"none", "implementing", "checking", "done", "stopped"}]
      BY <3>1 DEF FactoryInv, FactoryTypeOK
    <3> QED
      BY <3>1, <3>2, <3>3 DEF FactoryInv, FactoryTypeOK, Phases, checks
  <2> QED
    BY <2>1, <2>2, <2>3
<1>6. CASE Collect
  <2>1. /\ UNCHANGED <<trees, checks, round, feedback, todo, members>>
        /\ change' \in Trees \cup {Nothing}
    BY <1>6 DEF Collect, FactoryInv, FactoryTypeOK, FactoryAssumption, Trees
  <2>2. \/ Ends("no_change") \/ Ends("stuck")
        \/ /\ phase' = "pull" /\ factoryRecord' = [factoryRecord EXCEPT ![round] = "checking"]
           /\ UNCHANGED factoryOutcome
    BY <1>6 DEF Collect
  <2>3. /\ factoryOutcome' \in [result : {"none", "passed", "exhausted", "stuck", "no_change"},
                        rounds : 0..Attempts, failed : BOOLEAN]
        /\ factoryRecord' \in [1..Attempts -> {"none", "implementing", "checking", "done", "stopped"}]
        /\ phase' \in Phases
    <3>1. CASE Ends("no_change")
      BY <3>1, EndsTyped
    <3>2. CASE Ends("stuck")
      BY <3>2, EndsTyped
    <3>3. CASE /\ phase' = "pull" /\ factoryRecord' = [factoryRecord EXCEPT ![round] = "checking"]
               /\ UNCHANGED factoryOutcome
      BY <3>3 DEF FactoryInv, FactoryTypeOK, Phases
    <3> QED
      BY <2>2, <3>1, <3>2, <3>3
  <2> QED
    BY <2>1, <2>3 DEF FactoryInv, FactoryTypeOK, trees, checks
<1>7. CASE CollectFails
  BY <1>7, FailsTyped DEF CollectFails
<1>8. CASE Pull
    BY <1>8 DEF Pull, Pulled, Unchecked, Unseen, NotRun, loop, FactoryInv, FactoryTypeOK,
     FactoryAssumption, Trees, Nothing, Phases, Verdicts, RoundsCounted, Working
<1>9. CASE PullFails
  BY <1>9, FailsTyped DEF PullFails
<1>10. CASE KillStrays
    BY <1>10 DEF KillStrays, trees, checks, loop, FactoryInv, FactoryTypeOK, FactoryAssumption,
     Trees, Nothing, Phases, Verdicts, RoundsCounted, Working
<1>11. CASE PushFails
  BY <1>11, FailsTyped DEF PushFails
<1>12. CASE MarkNew
  <2>1. CASE Fails
    BY <2>1, FailsTyped
  <2>2. CASE ~Fails
    BY <1>12, <2>2 DEF MarkNew, FactoryInv, FactoryTypeOK, Phases, trees, checks, loop
  <2> QED
    BY <2>1, <2>2
<1>13. CASE RunValidation
    BY <1>13 DEF RunValidation, loop, FactoryInv, FactoryTypeOK, FactoryAssumption, Trees,
     Nothing, Phases, Verdicts, RoundsCounted, Working
<1>14. CASE Checked
    BY <1>14 DEF Checked, trees, checks, FactoryInv, FactoryTypeOK, FactoryAssumption, Trees,
     Nothing, Phases, Verdicts, RoundsCounted, Working
<1>15. CASE ReviewsFail
  BY <1>15, FailsTyped DEF ReviewsFail
<1>16. CASE Judge
  <2>1. UNCHANGED <<trees, checks, change, todo, members>>
    BY <1>16 DEF Judge
  <2>2. round' \in 0..Attempts /\ feedback' \in BOOLEAN
    <3>1. round' = round \/ (round < Attempts /\ round' = round + 1)
      BY <1>16 DEF Judge, NextRound
    <3>2. feedback' = feedback \/ feedback' = Feedback
      BY <1>16, Zenon DEF Judge
    <3>3. Feedback \in BOOLEAN
      BY DEF Feedback
    <3> QED
      BY <3>1, <3>2, <3>3 DEF FactoryInv, FactoryTypeOK, FactoryAssumption
  <2>3. \/ Ends("passed") \/ Ends("exhausted")
        \/ /\ phase' \in {"implement", "pull"} /\ UNCHANGED factoryOutcome
           /\ \E x \in {"implementing", "checking"} :
                   factoryRecord' = [factoryRecord EXCEPT ![NextRound] = x]
    BY <1>16 DEF Judge
  <2>4. /\ factoryOutcome' \in [result : {"none", "passed", "exhausted", "stuck", "no_change"},
                        rounds : 0..Attempts, failed : BOOLEAN]
        /\ factoryRecord' \in [1..Attempts -> {"none", "implementing", "checking", "done", "stopped"}]
        /\ phase' \in Phases
    <3>1. CASE Ends("passed")
      BY <3>1, EndsTyped
    <3>2. CASE Ends("exhausted")
      BY <3>2, EndsTyped
    <3>3. CASE /\ phase' \in {"implement", "pull"} /\ UNCHANGED factoryOutcome
               /\ \E x \in {"implementing", "checking"} :
                       factoryRecord' = [factoryRecord EXCEPT ![NextRound] = x]
      BY <3>3 DEF FactoryInv, FactoryTypeOK, Phases
    <3> QED
      BY <2>3, <3>1, <3>2, <3>3
  <2> QED
    BY <2>1, <2>2, <2>4 DEF FactoryInv, FactoryTypeOK, trees, checks
<1>17. CASE LastPull
  <2>1. worktree' \in [made : BOOLEAN, tree : Trees, commit : Trees \cup {Nothing}]
    BY <1>17 DEF LastPull, Pulled, FactoryInv, FactoryTypeOK
  <2>2. phase' = "commit" /\ UNCHANGED <<impl, reviewerTree, checks, loop, todo, members>>
    BY <1>17 DEF LastPull
  <2> QED
    BY <2>1, <2>2 DEF FactoryInv, FactoryTypeOK, Phases, checks, loop
<1>18. CASE Commit
  <2>1. worktree' = worktree \/ worktree' = [worktree EXCEPT !.commit = worktree.tree]
    BY <1>18 DEF Commit
  <2>2. worktree' \in [made : BOOLEAN, tree : Trees, commit : Trees \cup {Nothing}]
    BY <2>1 DEF FactoryInv, FactoryTypeOK
  <2> QED
    BY <1>18, <2>2 DEF Commit, FactoryInv, FactoryTypeOK, Phases, checks, loop
<1>19. CASE ClosePool
    BY <1>19 DEF ClosePool, trees, checks, loop, FactoryInv, FactoryTypeOK, FactoryAssumption,
     Trees, Nothing, Phases, Verdicts, RoundsCounted, Working
<1>20. CASE RemoveWorktree
  <2>1. worktree' \in [made : BOOLEAN, tree : Trees, commit : Trees \cup {Nothing}]
    BY <1>20 DEF RemoveWorktree, FactoryInv, FactoryTypeOK
  <2>2. phase' = "done" /\ UNCHANGED <<impl, reviewerTree, checks, loop, todo, members>>
    BY <1>20 DEF RemoveWorktree
  <2> QED
    BY <2>1, <2>2 DEF FactoryInv, FactoryTypeOK, Phases, checks, loop
<1>21. ASSUME NEW r \in Reviewers, Push(r) PROVE FactoryTypeOK'
    BY <1>21 DEF Push, checks, loop, FactoryInv, FactoryTypeOK, FactoryAssumption, Trees,
     Nothing, Phases, Verdicts, RoundsCounted, Working
<1>22. ASSUME NEW r \in Reviewers, Review(r) PROVE FactoryTypeOK'
  <2>1. todo' \subseteq Reviewers
    BY <1>22 DEF Review, FactoryInv, FactoryTypeOK
  <2>2. verdict' \in [Reviewers -> Verdicts]
    BY <1>22 DEF Review, FromReview, FactoryInv, FactoryTypeOK, Verdicts
  <2>3. about' \in [Reviewers -> Trees \cup {Nothing}]
    BY <1>22 DEF Review, FactoryInv, FactoryTypeOK
  <2>4. UNCHANGED <<phase, trees, validation, loop, members>>
    BY <1>22 DEF Review
  <2> QED
    BY <2>1, <2>2, <2>3, <2>4 DEF FactoryInv, FactoryTypeOK, trees, loop
<1>23. CASE UNCHANGED factoryVars
    BY <1>23 DEF factoryVars, trees, checks, loop, FactoryInv, FactoryTypeOK
<1> QED
    BY <1>1, <1>2, <1>3, <1>4, <1>5, <1>6, <1>7, <1>8, <1>9, <1>10, <1>11, <1>12, <1>13, <1>14,
     <1>15, <1>16, <1>17, <1>18, <1>19, <1>20, <1>21, <1>22, <1>23 DEF NextFactory

LEMMA RoundsStayCounted ==
    ASSUME FactoryAssumption, FactoryInv, [NextFactory]_factoryVars
    PROVE  RoundsCounted'
<1>1. CASE StartFactory
    BY <1>1 DEF StartFactory, trees, checks, FactoryInv, FactoryTypeOK, FactoryAssumption,
     RoundsCounted, Working, Early, Late
<1>2. CASE CreateWorktree
    BY <1>2 DEF CreateWorktree, checks, FactoryInv, FactoryTypeOK, FactoryAssumption,
     RoundsCounted, Working, Early, Late
<1>3. CASE NewPool
    BY <1>3 DEF NewPool, trees, checks, FactoryInv, FactoryTypeOK, FactoryAssumption,
     RoundsCounted, Working, Early, Late
<1>4. CASE Prepare
    BY <1>4 DEF Prepare, Fails, Started, trees, checks, FactoryInv, FactoryTypeOK,
     FactoryAssumption, RoundsCounted, Working, Early, Late
<1>5. CASE Implement
    BY <1>5 DEF Implement, Fails, Started, trees, checks, loop, FactoryInv, FactoryTypeOK,
     FactoryAssumption, RoundsCounted, Working, Early, Late
<1>6. CASE Collect
    BY <1>6 DEF Collect, Ends, Noted, Stuck, trees, checks, FactoryInv, FactoryTypeOK,
     FactoryAssumption, RoundsCounted, Working, Early, Late
<1>7. CASE CollectFails
    BY <1>7 DEF CollectFails, Fails, Started, trees, checks, FactoryInv, FactoryTypeOK,
     FactoryAssumption, RoundsCounted, Working, Early, Late
<1>8. CASE Pull
    BY <1>8 DEF Pull, Pulled, Unchecked, Unseen, NotRun, loop, FactoryInv, FactoryTypeOK,
     FactoryAssumption, RoundsCounted, Working, Early, Late
<1>9. CASE PullFails
    BY <1>9 DEF PullFails, Fails, Started, trees, checks, FactoryInv, FactoryTypeOK,
     FactoryAssumption, RoundsCounted, Working, Early, Late
<1>10. CASE KillStrays
    BY <1>10 DEF KillStrays, trees, checks, loop, FactoryInv, FactoryTypeOK, FactoryAssumption,
     RoundsCounted, Working, Early, Late
<1>11. CASE PushFails
    BY <1>11 DEF PushFails, Fails, Started, trees, checks, FactoryInv, FactoryTypeOK,
     FactoryAssumption, RoundsCounted, Working, Early, Late
<1>12. CASE MarkNew
    BY <1>12 DEF MarkNew, Fails, Started, trees, checks, loop, FactoryInv, FactoryTypeOK,
     FactoryAssumption, RoundsCounted, Working, Early, Late
<1>13. CASE RunValidation
    BY <1>13 DEF RunValidation, loop, FactoryInv, FactoryTypeOK, FactoryAssumption,
     RoundsCounted, Working, Early, Late
<1>14. CASE Checked
    BY <1>14 DEF Checked, trees, checks, FactoryInv, FactoryTypeOK, FactoryAssumption,
     RoundsCounted, Working, Early, Late
<1>15. CASE ReviewsFail
    BY <1>15 DEF ReviewsFail, Fails, Started, trees, checks, FactoryInv, FactoryTypeOK,
     FactoryAssumption, RoundsCounted, Working, Early, Late
<1>16. CASE Judge
    BY <1>16 DEF Judge, Ends, Noted, NextRound, trees, checks, FactoryInv, FactoryTypeOK,
     FactoryAssumption, RoundsCounted, Working, Early, Late
<1>17. CASE LastPull
    BY <1>17 DEF LastPull, Pulled, checks, loop, FactoryInv, FactoryTypeOK, FactoryAssumption,
     RoundsCounted, Working, Early, Late
<1>18. CASE Commit
    BY <1>18 DEF Commit, checks, loop, FactoryInv, FactoryTypeOK, FactoryAssumption,
     RoundsCounted, Working, Early, Late
<1>19. CASE ClosePool
    BY <1>19 DEF ClosePool, trees, checks, loop, FactoryInv, FactoryTypeOK, FactoryAssumption,
     RoundsCounted, Working, Early, Late
<1>20. CASE RemoveWorktree
    BY <1>20 DEF RemoveWorktree, checks, loop, FactoryInv, FactoryTypeOK, FactoryAssumption,
     RoundsCounted, Working, Early, Late
<1>21. ASSUME NEW r \in Reviewers, Push(r) PROVE RoundsCounted'
    BY <1>21 DEF Push, checks, loop, FactoryInv, FactoryTypeOK, FactoryAssumption,
     RoundsCounted, Working, Early, Late
<1>22. ASSUME NEW r \in Reviewers, Review(r) PROVE RoundsCounted'
    BY <1>22 DEF Review, FromReview, trees, loop, FactoryInv, FactoryTypeOK, FactoryAssumption,
     RoundsCounted, Working, Early, Late
<1>23. CASE UNCHANGED factoryVars
    BY <1>23 DEF factoryVars, trees, checks, loop, FactoryInv, RoundsCounted
<1> QED
    BY <1>1, <1>2, <1>3, <1>4, <1>5, <1>6, <1>7, <1>8, <1>9, <1>10, <1>11, <1>12, <1>13, <1>14,
     <1>15, <1>16, <1>17, <1>18, <1>19, <1>20, <1>21, <1>22, <1>23 DEF NextFactory

LEMMA WorktreeStaysMade ==
    ASSUME FactoryAssumption, FactoryInv, [NextFactory]_factoryVars
    PROVE  WorktreeMade'
<1>1. CASE StartFactory
    BY <1>1 DEF StartFactory, trees, checks, FactoryInv, FactoryTypeOK, FactoryAssumption,
     RoundsCounted, WorktreeMade, Working, Early, Late
<1>2. CASE CreateWorktree
    BY <1>2 DEF CreateWorktree, checks, FactoryInv, FactoryTypeOK, FactoryAssumption,
     RoundsCounted, WorktreeMade, Working, Early, Late
<1>3. CASE NewPool
    BY <1>3 DEF NewPool, trees, checks, FactoryInv, FactoryTypeOK, FactoryAssumption,
     RoundsCounted, WorktreeMade, Working, Early, Late
<1>4. CASE Prepare
    BY <1>4 DEF Prepare, Fails, Started, trees, checks, FactoryInv, FactoryTypeOK,
     FactoryAssumption, RoundsCounted, WorktreeMade, Working, Early, Late
<1>5. CASE Implement
    BY <1>5 DEF Implement, Fails, Started, trees, checks, loop, FactoryInv, FactoryTypeOK,
     FactoryAssumption, RoundsCounted, WorktreeMade, Working, Early, Late
<1>6. CASE Collect
    BY <1>6 DEF Collect, Ends, Noted, Stuck, trees, checks, FactoryInv, FactoryTypeOK,
     FactoryAssumption, RoundsCounted, WorktreeMade, Working, Early, Late
<1>7. CASE CollectFails
    BY <1>7 DEF CollectFails, Fails, Started, trees, checks, FactoryInv, FactoryTypeOK,
     FactoryAssumption, RoundsCounted, WorktreeMade, Working, Early, Late
<1>8. CASE Pull
    BY <1>8 DEF Pull, Pulled, Unchecked, Unseen, NotRun, loop, FactoryInv, FactoryTypeOK,
     FactoryAssumption, RoundsCounted, WorktreeMade, Working, Early, Late
<1>9. CASE PullFails
    BY <1>9 DEF PullFails, Fails, Started, trees, checks, FactoryInv, FactoryTypeOK,
     FactoryAssumption, RoundsCounted, WorktreeMade, Working, Early, Late
<1>10. CASE KillStrays
    BY <1>10 DEF KillStrays, trees, checks, loop, FactoryInv, FactoryTypeOK, FactoryAssumption,
     RoundsCounted, WorktreeMade, Working, Early, Late
<1>11. CASE PushFails
    BY <1>11 DEF PushFails, Fails, Started, trees, checks, FactoryInv, FactoryTypeOK,
     FactoryAssumption, RoundsCounted, WorktreeMade, Working, Early, Late
<1>12. CASE MarkNew
    BY <1>12 DEF MarkNew, Fails, Started, trees, checks, loop, FactoryInv, FactoryTypeOK,
     FactoryAssumption, RoundsCounted, WorktreeMade, Working, Early, Late
<1>13. CASE RunValidation
    BY <1>13 DEF RunValidation, loop, FactoryInv, FactoryTypeOK, FactoryAssumption,
     RoundsCounted, WorktreeMade, Working, Early, Late
<1>14. CASE Checked
    BY <1>14 DEF Checked, trees, checks, FactoryInv, FactoryTypeOK, FactoryAssumption,
     RoundsCounted, WorktreeMade, Working, Early, Late
<1>15. CASE ReviewsFail
    BY <1>15 DEF ReviewsFail, Fails, Started, trees, checks, FactoryInv, FactoryTypeOK,
     FactoryAssumption, RoundsCounted, WorktreeMade, Working, Early, Late
<1>16. CASE Judge
    BY <1>16 DEF Judge, Ends, Noted, NextRound, trees, checks, FactoryInv, FactoryTypeOK,
     FactoryAssumption, RoundsCounted, WorktreeMade, Working, Early, Late
<1>17. CASE LastPull
    BY <1>17, SMTT(30) DEF LastPull, Pulled, checks, loop, FactoryInv, FactoryTypeOK, FactoryAssumption,
     RoundsCounted, WorktreeMade, Working, Early, Late
<1>18. CASE Commit
    BY <1>18, SMTT(30) DEF Commit, checks, loop, FactoryInv, FactoryTypeOK, FactoryAssumption,
     RoundsCounted, WorktreeMade, Working, Early, Late
<1>19. CASE ClosePool
  <2>1. /\ phase = "close" /\ phase' = (IF round = 0 THEN "remove" ELSE "done")
        /\ UNCHANGED <<worktree, round>> /\ round \in Nat
    BY <1>19 DEF ClosePool, FactoryInv, FactoryTypeOK, trees, loop
  <2>2. worktree.made /\ (worktree.commit # Nothing => worktree.commit = worktree.tree)
    BY <2>1 DEF FactoryInv, WorktreeMade
  <2>3. round = 0 => worktree.commit = Nothing
    BY <2>1 DEF FactoryInv, WorktreeMade
  <2> QED
    BY <2>1, <2>2, <2>3 DEF WorktreeMade, Working
<1>20. CASE RemoveWorktree
    BY <1>20 DEF RemoveWorktree, checks, loop, FactoryInv, FactoryTypeOK, FactoryAssumption,
     RoundsCounted, WorktreeMade, Working, Early, Late
<1>21. ASSUME NEW r \in Reviewers, Push(r) PROVE WorktreeMade'
    BY <1>21 DEF Push, checks, loop, FactoryInv, FactoryTypeOK, FactoryAssumption,
     RoundsCounted, WorktreeMade, Working, Early, Late
<1>22. ASSUME NEW r \in Reviewers, Review(r) PROVE WorktreeMade'
    BY <1>22 DEF Review, FromReview, trees, loop, FactoryInv, FactoryTypeOK, FactoryAssumption,
     RoundsCounted, WorktreeMade, Working, Early, Late
<1>23. CASE UNCHANGED factoryVars
    BY <1>23 DEF factoryVars, trees, checks, loop, FactoryInv, WorktreeMade
<1> QED
    BY <1>1, <1>2, <1>3, <1>4, <1>5, <1>6, <1>7, <1>8, <1>9, <1>10, <1>11, <1>12, <1>13, <1>14,
     <1>15, <1>16, <1>17, <1>18, <1>19, <1>20, <1>21, <1>22, <1>23 DEF NextFactory

LEMMA RecordStaysInStep ==
    ASSUME FactoryAssumption, FactoryInv, [NextFactory]_factoryVars
    PROVE  RecordInStep'
<1>1. CASE StartFactory
    BY <1>1 DEF StartFactory, trees, checks, FactoryInv, FactoryTypeOK, FactoryAssumption,
     RoundsCounted, RecordInStep, Working, Early, Late
<1>2. CASE CreateWorktree
    BY <1>2 DEF CreateWorktree, checks, FactoryInv, FactoryTypeOK, FactoryAssumption,
     RoundsCounted, RecordInStep, Working, Early, Late
<1>3. CASE NewPool
    BY <1>3 DEF NewPool, trees, checks, FactoryInv, FactoryTypeOK, FactoryAssumption,
     RoundsCounted, RecordInStep, Working, Early, Late
<1>4. CASE Prepare
    BY <1>4 DEF Prepare, Fails, Started, trees, checks, FactoryInv, FactoryTypeOK,
     FactoryAssumption, RoundsCounted, RecordInStep, Working, Early, Late
<1>5. CASE Implement
    BY <1>5 DEF Implement, Fails, Started, trees, checks, loop, FactoryInv, FactoryTypeOK,
     FactoryAssumption, RoundsCounted, RecordInStep, Working, Early, Late
<1>6. CASE Collect
    BY <1>6 DEF Collect, Ends, Noted, Stuck, trees, checks, FactoryInv, FactoryTypeOK,
     FactoryAssumption, RoundsCounted, RecordInStep, Working, Early, Late
<1>7. CASE CollectFails
    BY <1>7 DEF CollectFails, Fails, Started, trees, checks, FactoryInv, FactoryTypeOK,
     FactoryAssumption, RoundsCounted, RecordInStep, Working, Early, Late
<1>8. CASE Pull
    BY <1>8 DEF Pull, Pulled, Unchecked, Unseen, NotRun, loop, FactoryInv, FactoryTypeOK,
     FactoryAssumption, RoundsCounted, RecordInStep, Working, Early, Late
<1>9. CASE PullFails
    BY <1>9 DEF PullFails, Fails, Started, trees, checks, FactoryInv, FactoryTypeOK,
     FactoryAssumption, RoundsCounted, RecordInStep, Working, Early, Late
<1>10. CASE KillStrays
    BY <1>10 DEF KillStrays, trees, checks, loop, FactoryInv, FactoryTypeOK, FactoryAssumption,
     RoundsCounted, RecordInStep, Working, Early, Late
<1>11. CASE PushFails
    BY <1>11 DEF PushFails, Fails, Started, trees, checks, FactoryInv, FactoryTypeOK,
     FactoryAssumption, RoundsCounted, RecordInStep, Working, Early, Late
<1>12. CASE MarkNew
    BY <1>12 DEF MarkNew, Fails, Started, trees, checks, loop, FactoryInv, FactoryTypeOK,
     FactoryAssumption, RoundsCounted, RecordInStep, Working, Early, Late
<1>13. CASE RunValidation
    BY <1>13 DEF RunValidation, loop, FactoryInv, FactoryTypeOK, FactoryAssumption,
     RoundsCounted, RecordInStep, Working, Early, Late
<1>14. CASE Checked
    BY <1>14 DEF Checked, trees, checks, FactoryInv, FactoryTypeOK, FactoryAssumption,
     RoundsCounted, RecordInStep, Working, Early, Late
<1>15. CASE ReviewsFail
    BY <1>15 DEF ReviewsFail, Fails, Started, trees, checks, FactoryInv, FactoryTypeOK,
     FactoryAssumption, RoundsCounted, RecordInStep, Working, Early, Late
<1>16. CASE Judge
    BY <1>16 DEF Judge, Ends, Noted, NextRound, trees, checks, FactoryInv, FactoryTypeOK,
     FactoryAssumption, RoundsCounted, RecordInStep, Working, Early, Late
<1>17. CASE LastPull
    BY <1>17 DEF LastPull, Pulled, checks, loop, FactoryInv, FactoryTypeOK, FactoryAssumption,
     RoundsCounted, RecordInStep, Working, Early, Late
<1>18. CASE Commit
    BY <1>18 DEF Commit, checks, loop, FactoryInv, FactoryTypeOK, FactoryAssumption,
     RoundsCounted, RecordInStep, Working, Early, Late
<1>19. CASE ClosePool
    BY <1>19 DEF ClosePool, trees, checks, loop, FactoryInv, FactoryTypeOK, FactoryAssumption,
     RoundsCounted, RecordInStep, Working, Early, Late
<1>20. CASE RemoveWorktree
    BY <1>20 DEF RemoveWorktree, checks, loop, FactoryInv, FactoryTypeOK, FactoryAssumption,
     RoundsCounted, RecordInStep, Working, Early, Late
<1>21. ASSUME NEW r \in Reviewers, Push(r) PROVE RecordInStep'
    BY <1>21 DEF Push, checks, loop, FactoryInv, FactoryTypeOK, FactoryAssumption,
     RoundsCounted, RecordInStep, Working, Early, Late
<1>22. ASSUME NEW r \in Reviewers, Review(r) PROVE RecordInStep'
    BY <1>22 DEF Review, FromReview, trees, loop, FactoryInv, FactoryTypeOK, FactoryAssumption,
     RoundsCounted, RecordInStep, Working, Early, Late
<1>23. CASE UNCHANGED factoryVars
    BY <1>23 DEF factoryVars, trees, checks, loop, FactoryInv, RecordInStep
<1> QED
    BY <1>1, <1>2, <1>3, <1>4, <1>5, <1>6, <1>7, <1>8, <1>9, <1>10, <1>11, <1>12, <1>13, <1>14,
     <1>15, <1>16, <1>17, <1>18, <1>19, <1>20, <1>21, <1>22, <1>23 DEF NextFactory

LEMMA FactoryInvNext ==
    ASSUME FactoryAssumption, FactoryInv, [NextFactory]_factoryVars
    PROVE  FactoryInv'
  BY FactoryTyped, RoundsStayCounted, WorktreeStaysMade, RecordStaysInStep DEF FactoryInv

-----------------------------------------------------------------------------
(* What is judged, and what is kept of it, while no validation command writes. *)

FactoryHonest == FactoryInv /\ WorktreeJudged /\ ChangeOnItsWay /\ ChecksSoFar

LEMMA WorktreeStaysJudged ==
    ASSUME FactoryAssumption, ~Rewrites, FactoryHonest, [NextFactory]_factoryVars
    PROVE  WorktreeJudged'
<1>1. CASE StartFactory
    BY <1>1 DEF StartFactory, trees, checks, FactoryInv, FactoryTypeOK, FactoryAssumption,
     RoundsCounted, FactoryHonest, Working, Early, Late, Trees, Nothing, WorktreeJudged,
     ChangeOnItsWay, ChecksSoFar, AllOfChange, NotRun
<1>2. CASE CreateWorktree
    BY <1>2 DEF CreateWorktree, checks, FactoryInv, FactoryTypeOK, FactoryAssumption,
     RoundsCounted, FactoryHonest, Working, Early, Late, Trees, Nothing, WorktreeJudged,
     ChangeOnItsWay, ChecksSoFar, AllOfChange, NotRun
<1>3. CASE NewPool
    BY <1>3 DEF NewPool, trees, checks, FactoryInv, FactoryTypeOK, FactoryAssumption,
     RoundsCounted, FactoryHonest, Working, Early, Late, Trees, Nothing, WorktreeJudged,
     ChangeOnItsWay, ChecksSoFar, AllOfChange, NotRun
<1>4. CASE Prepare
    BY <1>4 DEF Prepare, Fails, Started, trees, checks, FactoryInv, FactoryTypeOK,
     FactoryAssumption, RoundsCounted, FactoryHonest, Working, Early, Late, Trees, Nothing,
     WorktreeJudged, ChangeOnItsWay, ChecksSoFar, AllOfChange, NotRun
<1>5. CASE Implement
    BY <1>5 DEF Implement, Fails, Started, trees, checks, loop, FactoryInv, FactoryTypeOK,
     FactoryAssumption, RoundsCounted, FactoryHonest, Working, Early, Late, Trees, Nothing,
     WorktreeJudged, ChangeOnItsWay, ChecksSoFar, AllOfChange, NotRun
<1>6. CASE Collect
    BY <1>6 DEF Collect, Ends, Noted, Stuck, trees, checks, FactoryInv, FactoryTypeOK,
     FactoryAssumption, RoundsCounted, FactoryHonest, Working, Early, Late, Trees, Nothing,
     WorktreeJudged, ChangeOnItsWay, ChecksSoFar, AllOfChange, NotRun
<1>7. CASE CollectFails
    BY <1>7 DEF CollectFails, Fails, Started, trees, checks, FactoryInv, FactoryTypeOK,
     FactoryAssumption, RoundsCounted, FactoryHonest, Working, Early, Late, Trees, Nothing,
     WorktreeJudged, ChangeOnItsWay, ChecksSoFar, AllOfChange, NotRun
<1>8. CASE Pull
    BY <1>8 DEF Pull, Pulled, Unchecked, Unseen, NotRun, loop, FactoryInv, FactoryTypeOK,
     FactoryAssumption, RoundsCounted, FactoryHonest, Working, Early, Late, Trees, Nothing,
     WorktreeJudged, ChangeOnItsWay, ChecksSoFar, AllOfChange, NotRun
<1>9. CASE PullFails
    BY <1>9 DEF PullFails, Fails, Started, trees, checks, FactoryInv, FactoryTypeOK,
     FactoryAssumption, RoundsCounted, FactoryHonest, Working, Early, Late, Trees, Nothing,
     WorktreeJudged, ChangeOnItsWay, ChecksSoFar, AllOfChange, NotRun
<1>10. CASE KillStrays
    BY <1>10 DEF KillStrays, trees, checks, loop, FactoryInv, FactoryTypeOK, FactoryAssumption,
     RoundsCounted, FactoryHonest, Working, Early, Late, Trees, Nothing, WorktreeJudged,
     ChangeOnItsWay, ChecksSoFar, AllOfChange, NotRun
<1>11. CASE PushFails
    BY <1>11 DEF PushFails, Fails, Started, trees, checks, FactoryInv, FactoryTypeOK,
     FactoryAssumption, RoundsCounted, FactoryHonest, Working, Early, Late, Trees, Nothing,
     WorktreeJudged, ChangeOnItsWay, ChecksSoFar, AllOfChange, NotRun
<1>12. CASE MarkNew
    BY <1>12 DEF MarkNew, Fails, Started, trees, checks, loop, FactoryInv, FactoryTypeOK,
     FactoryAssumption, RoundsCounted, FactoryHonest, Working, Early, Late, Trees, Nothing,
     WorktreeJudged, ChangeOnItsWay, ChecksSoFar, AllOfChange, NotRun
<1>13. CASE RunValidation
    BY <1>13 DEF RunValidation, loop, FactoryInv, FactoryTypeOK, FactoryAssumption,
     RoundsCounted, FactoryHonest, Working, Early, Late, Trees, Nothing, WorktreeJudged,
     ChangeOnItsWay, ChecksSoFar, AllOfChange, NotRun
<1>14. CASE Checked
    BY <1>14 DEF Checked, trees, checks, FactoryInv, FactoryTypeOK, FactoryAssumption,
     RoundsCounted, FactoryHonest, Working, Early, Late, Trees, Nothing, WorktreeJudged,
     ChangeOnItsWay, ChecksSoFar, AllOfChange, NotRun
<1>15. CASE ReviewsFail
    BY <1>15 DEF ReviewsFail, Fails, Started, trees, checks, FactoryInv, FactoryTypeOK,
     FactoryAssumption, RoundsCounted, FactoryHonest, Working, Early, Late, Trees, Nothing,
     WorktreeJudged, ChangeOnItsWay, ChecksSoFar, AllOfChange, NotRun
<1>16. CASE Judge
    BY <1>16 DEF Judge, Ends, Noted, NextRound, trees, checks, FactoryInv, FactoryTypeOK,
     FactoryAssumption, RoundsCounted, FactoryHonest, Working, Early, Late, Trees, Nothing,
     WorktreeJudged, ChangeOnItsWay, ChecksSoFar, AllOfChange, NotRun
<1>17. CASE LastPull
    BY <1>17 DEF LastPull, Pulled, checks, loop, FactoryInv, FactoryTypeOK, FactoryAssumption,
     RoundsCounted, FactoryHonest, Working, Early, Late, Trees, Nothing, WorktreeJudged,
     ChangeOnItsWay, ChecksSoFar, AllOfChange, NotRun
<1>18. CASE Commit
    BY <1>18 DEF Commit, checks, loop, FactoryInv, FactoryTypeOK, FactoryAssumption,
     RoundsCounted, FactoryHonest, Working, Early, Late, Trees, Nothing, WorktreeJudged,
     ChangeOnItsWay, ChecksSoFar, AllOfChange, NotRun
<1>19. CASE ClosePool
    BY <1>19 DEF ClosePool, trees, checks, loop, FactoryInv, FactoryTypeOK, FactoryAssumption,
     RoundsCounted, FactoryHonest, Working, Early, Late, Trees, Nothing, WorktreeJudged,
     ChangeOnItsWay, ChecksSoFar, AllOfChange, NotRun
<1>20. CASE RemoveWorktree
    BY <1>20 DEF RemoveWorktree, checks, loop, FactoryInv, FactoryTypeOK, FactoryAssumption,
     RoundsCounted, FactoryHonest, Working, Early, Late, Trees, Nothing, WorktreeJudged,
     ChangeOnItsWay, ChecksSoFar, AllOfChange, NotRun
<1>21. ASSUME NEW r \in Reviewers, Push(r) PROVE WorktreeJudged'
    BY <1>21 DEF Push, checks, loop, FactoryInv, FactoryTypeOK, FactoryAssumption,
     RoundsCounted, FactoryHonest, Working, Early, Late, Trees, Nothing, WorktreeJudged,
     ChangeOnItsWay, ChecksSoFar, AllOfChange, NotRun
<1>22. ASSUME NEW r \in Reviewers, Review(r) PROVE WorktreeJudged'
    BY <1>22 DEF Review, FromReview, trees, loop, FactoryInv, FactoryTypeOK, FactoryAssumption,
     RoundsCounted, FactoryHonest, Working, Early, Late, Trees, Nothing, WorktreeJudged,
     ChangeOnItsWay, ChecksSoFar, AllOfChange, NotRun
<1>23. CASE UNCHANGED factoryVars
    BY <1>23 DEF factoryVars, trees, checks, loop, FactoryHonest, WorktreeJudged
<1> QED
    BY <1>1, <1>2, <1>3, <1>4, <1>5, <1>6, <1>7, <1>8, <1>9, <1>10, <1>11, <1>12, <1>13, <1>14,
     <1>15, <1>16, <1>17, <1>18, <1>19, <1>20, <1>21, <1>22, <1>23 DEF NextFactory

LEMMA ChangeGoesOn ==
    ASSUME FactoryAssumption, ~Rewrites, FactoryHonest, [NextFactory]_factoryVars
    PROVE  ChangeOnItsWay'
<1>1. CASE StartFactory
    BY <1>1 DEF StartFactory, trees, checks, FactoryInv, FactoryTypeOK, FactoryAssumption,
     RoundsCounted, FactoryHonest, Working, Early, Late, Trees, Nothing, ChangeOnItsWay
<1>2. CASE CreateWorktree
    BY <1>2 DEF CreateWorktree, checks, FactoryInv, FactoryTypeOK, FactoryAssumption,
     RoundsCounted, FactoryHonest, Working, Early, Late, Trees, Nothing, ChangeOnItsWay
<1>3. CASE NewPool
    BY <1>3 DEF NewPool, trees, checks, FactoryInv, FactoryTypeOK, FactoryAssumption,
     RoundsCounted, FactoryHonest, Working, Early, Late, Trees, Nothing, ChangeOnItsWay
<1>4. CASE Prepare
    BY <1>4 DEF Prepare, Fails, Started, trees, checks, FactoryInv, FactoryTypeOK,
     FactoryAssumption, RoundsCounted, FactoryHonest, Working, Early, Late, Trees, Nothing,
     ChangeOnItsWay
<1>5. CASE Implement
    BY <1>5 DEF Implement, Fails, Started, trees, checks, loop, FactoryInv, FactoryTypeOK,
     FactoryAssumption, RoundsCounted, FactoryHonest, Working, Early, Late, Trees, Nothing,
     ChangeOnItsWay
<1>6. CASE Collect
    BY <1>6 DEF Collect, Ends, Noted, Stuck, trees, checks, FactoryInv, FactoryTypeOK,
     FactoryAssumption, RoundsCounted, FactoryHonest, Working, Early, Late, Trees, Nothing,
     ChangeOnItsWay
<1>7. CASE CollectFails
    BY <1>7 DEF CollectFails, Fails, Started, trees, checks, FactoryInv, FactoryTypeOK,
     FactoryAssumption, RoundsCounted, FactoryHonest, Working, Early, Late, Trees, Nothing,
     ChangeOnItsWay
<1>8. CASE Pull
    BY <1>8 DEF Pull, Pulled, Unchecked, Unseen, NotRun, loop, FactoryInv, FactoryTypeOK,
     FactoryAssumption, RoundsCounted, FactoryHonest, Working, Early, Late, Trees, Nothing,
     ChangeOnItsWay
<1>9. CASE PullFails
    BY <1>9 DEF PullFails, Fails, Started, trees, checks, FactoryInv, FactoryTypeOK,
     FactoryAssumption, RoundsCounted, FactoryHonest, Working, Early, Late, Trees, Nothing,
     ChangeOnItsWay
<1>10. CASE KillStrays
    BY <1>10 DEF KillStrays, trees, checks, loop, FactoryInv, FactoryTypeOK, FactoryAssumption,
     RoundsCounted, FactoryHonest, Working, Early, Late, Trees, Nothing, ChangeOnItsWay
<1>11. CASE PushFails
    BY <1>11 DEF PushFails, Fails, Started, trees, checks, FactoryInv, FactoryTypeOK,
     FactoryAssumption, RoundsCounted, FactoryHonest, Working, Early, Late, Trees, Nothing,
     ChangeOnItsWay
<1>12. CASE MarkNew
    BY <1>12 DEF MarkNew, Fails, Started, trees, checks, loop, FactoryInv, FactoryTypeOK,
     FactoryAssumption, RoundsCounted, FactoryHonest, Working, Early, Late, Trees, Nothing,
     ChangeOnItsWay
<1>13. CASE RunValidation
    BY <1>13 DEF RunValidation, loop, FactoryInv, FactoryTypeOK, FactoryAssumption,
     RoundsCounted, FactoryHonest, Working, Early, Late, Trees, Nothing, ChangeOnItsWay
<1>14. CASE Checked
    BY <1>14 DEF Checked, trees, checks, FactoryInv, FactoryTypeOK, FactoryAssumption,
     RoundsCounted, FactoryHonest, Working, Early, Late, Trees, Nothing, ChangeOnItsWay
<1>15. CASE ReviewsFail
    BY <1>15 DEF ReviewsFail, Fails, Started, trees, checks, FactoryInv, FactoryTypeOK,
     FactoryAssumption, RoundsCounted, FactoryHonest, Working, Early, Late, Trees, Nothing,
     ChangeOnItsWay
<1>16. CASE Judge
    BY <1>16 DEF Judge, Ends, Noted, NextRound, trees, checks, FactoryInv, FactoryTypeOK,
     FactoryAssumption, RoundsCounted, FactoryHonest, Working, Early, Late, Trees, Nothing,
     ChangeOnItsWay
<1>17. CASE LastPull
    BY <1>17 DEF LastPull, Pulled, checks, loop, FactoryInv, FactoryTypeOK, FactoryAssumption,
     RoundsCounted, FactoryHonest, Working, Early, Late, Trees, Nothing, ChangeOnItsWay
<1>18. CASE Commit
    BY <1>18 DEF Commit, checks, loop, FactoryInv, FactoryTypeOK, FactoryAssumption,
     RoundsCounted, FactoryHonest, Working, Early, Late, Trees, Nothing, ChangeOnItsWay
<1>19. CASE ClosePool
    BY <1>19 DEF ClosePool, trees, checks, loop, FactoryInv, FactoryTypeOK, FactoryAssumption,
     RoundsCounted, FactoryHonest, Working, Early, Late, Trees, Nothing, ChangeOnItsWay
<1>20. CASE RemoveWorktree
    BY <1>20 DEF RemoveWorktree, checks, loop, FactoryInv, FactoryTypeOK, FactoryAssumption,
     RoundsCounted, FactoryHonest, Working, Early, Late, Trees, Nothing, ChangeOnItsWay
<1>21. ASSUME NEW r \in Reviewers, Push(r) PROVE ChangeOnItsWay'
    BY <1>21 DEF Push, checks, loop, FactoryInv, FactoryTypeOK, FactoryAssumption,
     RoundsCounted, FactoryHonest, Working, Early, Late, Trees, Nothing, ChangeOnItsWay
<1>22. ASSUME NEW r \in Reviewers, Review(r) PROVE ChangeOnItsWay'
    BY <1>22 DEF Review, FromReview, trees, loop, FactoryInv, FactoryTypeOK, FactoryAssumption,
     RoundsCounted, FactoryHonest, Working, Early, Late, Trees, Nothing, ChangeOnItsWay
<1>23. CASE UNCHANGED factoryVars
    BY <1>23 DEF factoryVars, trees, checks, loop, FactoryHonest, ChangeOnItsWay
<1> QED
    BY <1>1, <1>2, <1>3, <1>4, <1>5, <1>6, <1>7, <1>8, <1>9, <1>10, <1>11, <1>12, <1>13, <1>14,
     <1>15, <1>16, <1>17, <1>18, <1>19, <1>20, <1>21, <1>22, <1>23 DEF NextFactory

LEMMA ChecksGoOn ==
    ASSUME FactoryAssumption, ~Rewrites, FactoryHonest, [NextFactory]_factoryVars
    PROVE  ChecksSoFar'
<1>1. CASE StartFactory
    BY <1>1 DEF StartFactory, trees, checks, FactoryInv, FactoryTypeOK, FactoryAssumption,
     RoundsCounted, FactoryHonest, Working, Early, Late, Trees, Nothing, ChangeOnItsWay,
     ChecksSoFar, AllOfChange
<1>2. CASE CreateWorktree
    BY <1>2 DEF CreateWorktree, checks, FactoryInv, FactoryTypeOK, FactoryAssumption,
     RoundsCounted, FactoryHonest, Working, Early, Late, Trees, Nothing, ChangeOnItsWay,
     ChecksSoFar, AllOfChange
<1>3. CASE NewPool
    BY <1>3 DEF NewPool, trees, checks, FactoryInv, FactoryTypeOK, FactoryAssumption,
     RoundsCounted, FactoryHonest, Working, Early, Late, Trees, Nothing, ChangeOnItsWay,
     ChecksSoFar, AllOfChange
<1>4. CASE Prepare
    BY <1>4 DEF Prepare, Fails, Started, trees, checks, FactoryInv, FactoryTypeOK,
     FactoryAssumption, RoundsCounted, FactoryHonest, Working, Early, Late, Trees, Nothing,
     ChangeOnItsWay, ChecksSoFar, AllOfChange
<1>5. CASE Implement
    BY <1>5 DEF Implement, Fails, Started, trees, checks, loop, FactoryInv, FactoryTypeOK,
     FactoryAssumption, RoundsCounted, FactoryHonest, Working, Early, Late, Trees, Nothing,
     ChangeOnItsWay, ChecksSoFar, AllOfChange
<1>6. CASE Collect
    BY <1>6 DEF Collect, Ends, Noted, Stuck, trees, checks, FactoryInv, FactoryTypeOK,
     FactoryAssumption, RoundsCounted, FactoryHonest, Working, Early, Late, Trees, Nothing,
     ChangeOnItsWay, ChecksSoFar, AllOfChange
<1>7. CASE CollectFails
    BY <1>7 DEF CollectFails, Fails, Started, trees, checks, FactoryInv, FactoryTypeOK,
     FactoryAssumption, RoundsCounted, FactoryHonest, Working, Early, Late, Trees, Nothing,
     ChangeOnItsWay, ChecksSoFar, AllOfChange
<1>8. CASE Pull
    BY <1>8 DEF Pull, Pulled, Unchecked, Unseen, NotRun, loop, FactoryInv, FactoryTypeOK,
     FactoryAssumption, RoundsCounted, FactoryHonest, Working, Early, Late, Trees, Nothing,
     ChangeOnItsWay, ChecksSoFar, AllOfChange
<1>9. CASE PullFails
    BY <1>9 DEF PullFails, Fails, Started, trees, checks, FactoryInv, FactoryTypeOK,
     FactoryAssumption, RoundsCounted, FactoryHonest, Working, Early, Late, Trees, Nothing,
     ChangeOnItsWay, ChecksSoFar, AllOfChange
<1>10. CASE KillStrays
    BY <1>10 DEF KillStrays, trees, checks, loop, FactoryInv, FactoryTypeOK, FactoryAssumption,
     RoundsCounted, FactoryHonest, Working, Early, Late, Trees, Nothing, ChangeOnItsWay,
     ChecksSoFar, AllOfChange
<1>11. CASE PushFails
    BY <1>11 DEF PushFails, Fails, Started, trees, checks, FactoryInv, FactoryTypeOK,
     FactoryAssumption, RoundsCounted, FactoryHonest, Working, Early, Late, Trees, Nothing,
     ChangeOnItsWay, ChecksSoFar, AllOfChange
<1>12. CASE MarkNew
  <2>1. /\ phase = "mark" /\ about = Unseen /\ validation = NotRun /\ factoryOutcome.result = "none"
        /\ UNCHANGED <<checks, change>>
    BY <1>12
       DEF MarkNew, Fails, loop, FactoryHonest, FactoryInv, RoundsCounted, ChecksSoFar, Late
  <2>2. CASE phase' = "check" /\ todo' = Reviewers /\ UNCHANGED factoryOutcome
    BY <2>1, <2>2 DEF ChecksSoFar, Unseen, NotRun, checks
  <2>3. CASE Fails
    <3>1. phase' \in {"lastpull", "close"} /\ factoryOutcome'.result = "none"
      BY <2>1, <2>3 DEF Fails, FactoryHonest, FactoryInv, FactoryTypeOK
    <3> QED
      BY <3>1 DEF ChecksSoFar
  <2> QED
    BY <1>12, <2>2, <2>3 DEF MarkNew, loop
<1>13. CASE RunValidation
    BY <1>13 DEF RunValidation, loop, FactoryInv, FactoryTypeOK, FactoryAssumption,
     RoundsCounted, FactoryHonest, Working, Early, Late, Trees, Nothing, ChangeOnItsWay,
     ChecksSoFar, AllOfChange
<1>14. CASE Checked
    BY <1>14 DEF Checked, trees, checks, FactoryInv, FactoryTypeOK, FactoryAssumption,
     RoundsCounted, FactoryHonest, Working, Early, Late, Trees, Nothing, ChangeOnItsWay,
     ChecksSoFar, AllOfChange
<1>15. CASE ReviewsFail
    BY <1>15 DEF ReviewsFail, Fails, Started, trees, checks, FactoryInv, FactoryTypeOK,
     FactoryAssumption, RoundsCounted, FactoryHonest, Working, Early, Late, Trees, Nothing,
     ChangeOnItsWay, ChecksSoFar, AllOfChange
<1>16. CASE Judge
    BY <1>16 DEF Judge, Ends, Noted, NextRound, trees, checks, FactoryInv, FactoryTypeOK,
     FactoryAssumption, RoundsCounted, FactoryHonest, Working, Early, Late, Trees, Nothing,
     ChangeOnItsWay, ChecksSoFar, AllOfChange
<1>17. CASE LastPull
    BY <1>17 DEF LastPull, Pulled, checks, loop, FactoryInv, FactoryTypeOK, FactoryAssumption,
     RoundsCounted, FactoryHonest, Working, Early, Late, Trees, Nothing, ChangeOnItsWay,
     ChecksSoFar, AllOfChange
<1>18. CASE Commit
    BY <1>18 DEF Commit, checks, loop, FactoryInv, FactoryTypeOK, FactoryAssumption,
     RoundsCounted, FactoryHonest, Working, Early, Late, Trees, Nothing, ChangeOnItsWay,
     ChecksSoFar, AllOfChange
<1>19. CASE ClosePool
    BY <1>19 DEF ClosePool, trees, checks, loop, FactoryInv, FactoryTypeOK, FactoryAssumption,
     RoundsCounted, FactoryHonest, Working, Early, Late, Trees, Nothing, ChangeOnItsWay,
     ChecksSoFar, AllOfChange
<1>20. CASE RemoveWorktree
    BY <1>20 DEF RemoveWorktree, checks, loop, FactoryInv, FactoryTypeOK, FactoryAssumption,
     RoundsCounted, FactoryHonest, Working, Early, Late, Trees, Nothing, ChangeOnItsWay,
     ChecksSoFar, AllOfChange
<1>21. ASSUME NEW r \in Reviewers, Push(r) PROVE ChecksSoFar'
    BY <1>21 DEF Push, checks, loop, FactoryInv, FactoryTypeOK, FactoryAssumption,
     RoundsCounted, FactoryHonest, Working, Early, Late, Trees, Nothing, ChangeOnItsWay,
     ChecksSoFar, AllOfChange
<1>22. ASSUME NEW r \in Reviewers, Review(r) PROVE ChecksSoFar'
    BY <1>22 DEF Review, FromReview, trees, loop, FactoryInv, FactoryTypeOK, FactoryAssumption,
     RoundsCounted, FactoryHonest, Working, Early, Late, Trees, Nothing, ChangeOnItsWay,
     ChecksSoFar, AllOfChange
<1>23. CASE UNCHANGED factoryVars
    BY <1>23 DEF factoryVars, trees, checks, loop, FactoryHonest, ChecksSoFar, AllOfChange
<1> QED
    BY <1>1, <1>2, <1>3, <1>4, <1>5, <1>6, <1>7, <1>8, <1>9, <1>10, <1>11, <1>12, <1>13, <1>14,
     <1>15, <1>16, <1>17, <1>18, <1>19, <1>20, <1>21, <1>22, <1>23 DEF NextFactory

LEMMA FactoryHonestInit == FactoryAssumption /\ InitFactory => FactoryHonest
<1> SUFFICES ASSUME FactoryAssumption, InitFactory PROVE FactoryHonest
  OBVIOUS
<1>1. WorktreeJudged
  BY DEF InitFactory, WorktreeJudged, NotRun, Early
<1>2. ChangeOnItsWay
  BY DEF InitFactory, ChangeOnItsWay
<1>3. ChecksSoFar
  BY DEF InitFactory, ChecksSoFar
<1> QED
  BY <1>1, <1>2, <1>3, FactoryInvInit DEF FactoryHonest

LEMMA FactoryHonestNext ==
    ASSUME FactoryAssumption, ~Rewrites, FactoryHonest, [NextFactory]_factoryVars
    PROVE  FactoryHonest'
<1>1. FactoryInv
  BY DEF FactoryHonest
<1> QED
  BY <1>1, FactoryInvNext, WorktreeStaysJudged, ChangeGoesOn, ChecksGoOn DEF FactoryHonest

LEMMA FactoryRecords == FactoryAssumption /\ FactoryInv => RoundsClosed
  BY DEF FactoryInv, RecordInStep, RoundsClosed, FactoryTypeOK, FactoryAssumption

LEMMA FactoryChecks == FactoryHonest => ChecksDescribeChange
  BY DEF FactoryHonest, ChecksSoFar, AllOfChange, ChecksDescribeChange

LEMMA FactoryWork == FactoryHonest => WorkKept
<1> SUFFICES ASSUME FactoryHonest, phase = "done"
             PROVE  /\ worktree.made <=> round > 0
                    /\ Succeeds /\ worktree.commit # Nothing => worktree.commit = change
                    /\ worktree.commit # Nothing /\ validation.tree # Nothing =>
                          worktree.commit \in {validation.tree, impl}
  BY DEF WorkKept
<1>1. worktree.made <=> round > 0
  BY DEF FactoryHonest, FactoryInv, WorktreeMade
<1>2. worktree.commit # Nothing => worktree.commit = worktree.tree
  BY DEF FactoryHonest, FactoryInv, WorktreeMade
<1>3. Succeeds => worktree.tree = change
  BY DEF Succeeds, FactoryHonest, ChangeOnItsWay
<1>4. validation.tree # Nothing => worktree.tree \in {validation.tree, impl}
  BY DEF FactoryHonest, WorktreeJudged
<1> QED
  BY <1>1, <1>2, <1>3, <1>4

-----------------------------------------------------------------------------
\* A run's state keeps its type, whatever fails.
THEOREM FactoryTypes ==
    ASSUME FactoryAssumption
    PROVE  SpecFactory => []FactoryTypeOK
<1>1. InitFactory => FactoryInv
  BY FactoryInvInit
<1>2. FactoryInv /\ [NextFactory]_factoryVars => FactoryInv'
  BY FactoryInvNext
<1>3. FactoryInv => FactoryTypeOK
  BY DEF FactoryInv
<1> QED
  BY <1>1, <1>2, <1>3, PTL DEF SpecFactory

\* A run that ends well leaves no round open in the daemon's record, whatever its
\* reviewers and commands did.
THEOREM NoRoundOpen ==
    ASSUME FactoryAssumption
    PROVE  SpecFactory => []RoundsClosed
<1>1. InitFactory => FactoryInv
  BY FactoryInvInit
<1>2. FactoryInv /\ [NextFactory]_factoryVars => FactoryInv'
  BY FactoryInvNext
<1>3. FactoryInv => RoundsClosed
  BY FactoryRecords
<1> QED
  BY <1>1, <1>2, <1>3, PTL DEF SpecFactory

\* Checks are of the change they are reported for, and what is committed is what they
\* judged or newer, while no validation command changes files.
THEOREM WorkJudgedAndKept ==
    ASSUME FactoryAssumption, ~Rewrites
    PROVE  SpecFactory => [](ChecksDescribeChange /\ WorkKept)
<1>1. InitFactory => FactoryHonest
  BY FactoryHonestInit
<1>2. FactoryHonest /\ [NextFactory]_factoryVars => FactoryHonest'
  BY FactoryHonestNext
<1>3. FactoryHonest => ChecksDescribeChange /\ WorkKept
  BY FactoryChecks, FactoryWork
<1> QED
  BY <1>1, <1>2, <1>3, PTL DEF SpecFactory
=============================================================================
