--------------------------- MODULE EvalRun_proofs ---------------------------
(***************************************************************************)
(* What holds of every evaluation run, whatever the golden set, the        *)
(* runner, the judge and the thresholds: each invariant of EvalRun and its *)
(* action property, from the inductive invariant IInv.  Golden sets are    *)
(* any finite sequences; the sum of the citation scores is never opened.   *)
(***************************************************************************)
EXTENDS EvalRun, FiniteSetTheorems, TLAPS

\* The exact-match result of a case after the judge passed it.
Rescued(i) == [Plain(i) EXCEPT !.success = TRUE, !.outcome = "pass_answer"]

\* A sequence, of whatever values.
Sequence(s) == s \in Seq({s[i] : i \in DOMAIN s})

\* The set has been cut to the core, if it had to be.
Started == stage \notin {"called", "aborted"}

\* Results follow runs, and runs the golden set.
Counted ==
  /\ stage \in Stages
  /\ request \in Requests
  /\ Sequence(golden) /\ Sequence(results) /\ runs \in Seq(CaseRuns)
  /\ Len(results) <= Len(runs) /\ Len(runs) <= Len(golden)
  /\ asked \subseteq DOMAIN runs

\* What each await finds: at the judge, one result is still to be recorded.
AtStage ==
  /\ stage = "called" => runs = <<>> /\ golden = request.golden
  /\ stage = "judging" => /\ Len(runs) = Len(results) + 1
                          /\ Len(runs) \in asked
                          /\ scored = Plain(Len(runs))
  /\ stage \notin {"judging", "aborted"} => Len(runs) = Len(results)

\* A result is the exact-match one unless the judge was asked and passed it.
Grading ==
  /\ \A i \in asked : MayAskJudge(Case(i), runs[i], Plain(i))
  /\ \A i \in Recorded : results[i] = Plain(i) \/ (i \in asked /\ results[i] = Rescued(i))

\* A forged trace ends the run in the step that sees it.
Unforged == stage # "aborted" => \A i \in DOMAIN runs : Forged(runs[i].events) = {}

\* scored_case_ids are the ids of the answer cases recorded so far.
AnswerIds == scoredIds = {Case(i).id : i \in AnswersIn(golden, Recorded)}

\* The scorecard is computed once, from all the results.
CardRight ==
  /\ stage # "done" => card = NoCard
  /\ stage = "done" => /\ Len(results) = Len(golden)
                       /\ card = Scorecard(results, scoredIds, request.threshold)

\* The cases are well formed, and a core has no id twice.
CasesRight ==
  /\ \A i \in DOMAIN golden : IsFiniteSet(golden[i].cites)
  /\ request.core /\ Started => ~DuplicateIds(golden)

\* The inductive invariant.
IInv == /\ Counted
        /\ AtStage
        /\ Grading
        /\ Unforged
        /\ AnswerIds
        /\ CardRight
        /\ CasesRight

\* list.append, and what stays where it was.
LEMMA AppendSequence ==
  ASSUME NEW s, NEW e, Sequence(s)
  PROVE  /\ Sequence(Append(s, e))
         /\ Len(Append(s, e)) = Len(s) + 1
         /\ DOMAIN Append(s, e) = 1..Len(s) + 1
         /\ \A i \in DOMAIN s : Append(s, e)[i] = s[i]
         /\ Append(s, e)[Len(s) + 1] = e
         /\ Len(s) \in Nat /\ DOMAIN s = 1..Len(s)
<1> DEFINE S == {s[i] : i \in DOMAIN s} \cup {e}
<1>1. s \in Seq(S)
  BY DEF Sequence
<1>2. Append(s, e) \in Seq(S)
  BY <1>1
<1>3. /\ Len(Append(s, e)) = Len(s) + 1
      /\ DOMAIN Append(s, e) = 1..Len(s) + 1
      /\ \A i \in DOMAIN s : Append(s, e)[i] = s[i]
      /\ Append(s, e)[Len(s) + 1] = e
      /\ Len(s) \in Nat /\ DOMAIN s = 1..Len(s)
  BY <1>1
<1>4. Sequence(Append(s, e))
  BY <1>3, <1>2 DEF Sequence
<1>5. QED
  BY <1>3, <1>4

\* The core is a list again.
LEMMA CoreSequence ==
  ASSUME NEW g, Sequence(g), NEW m \in Nat, NEW n \in Nat
  PROVE  Sequence(CoreOf(g, m, n))
<1> DEFINE core == CoreIndices(g, m, n)
<1>1. IsFiniteSet(DOMAIN g) /\ core \subseteq DOMAIN g
  BY FS_Interval DEF Sequence, CoreIndices, Firsts, EnoughAnswers, AnswersIn, Declared
<1>2. Cardinality(core) \in Nat
  BY <1>1, FS_Subset, FS_CardinalityType
<1>3. QED
  BY <1>2 DEF CoreOf, Sequence

\* What score_case may return for case c: its id and kind, one of two citation scores.
Scores(c, measured) ==
  [id : {c.id}, refusal : {ExpectsRefusal(c)}, success : BOOLEAN,
   citation : {Unit, measured}, outcome : Outcomes]

\* score_case returns such a score, and without events never a success.
LEMMA ScoreShape ==
  ASSUME NEW c, NEW run
  PROVE  /\ ScoreCaseRun(c, run) \in Scores(c, CitationAccuracy(c, CitationsOf(run.events)))
         /\ ScoreCaseRun(c, run).success => run.events # {}
<1> DEFINE observed == ChunksObserved(run.events)
           noLeak == NoLeak(c, ChunksOf(run.events))
           first == ScoreCase(c, run.answer, run.events)
           measured == CitationAccuracy(c, CitationsOf(run.events))
<1>1. first \in Scores(c, measured)
  <2>1. CASE ~ExpectsRefusal(c)
    <3> DEFINE hit == ~run.answer.refused /\ run.answer.hit
               outcome == CASE hit -> "pass_answer"
                            [] run.answer.refused -> "fail_refused"
                            [] OTHER -> "fail_wrong_answer"
    <3>1. first = [id |-> c.id, refusal |-> FALSE, success |-> hit,
                   citation |-> measured, outcome |-> outcome]
      BY <2>1 DEF ScoreCase, ScoreAnswer
    <3>2. outcome \in Outcomes /\ hit \in BOOLEAN
      BY DEF Outcomes
    <3>3. ExpectsRefusal(c) = FALSE
      BY <2>1 DEF ExpectsRefusal
    <3> HIDE DEF first, hit, outcome, measured
    <3>4. QED
      BY <3>1, <3>2, <3>3 DEF Scores
  <2>2. CASE ExpectsRefusal(c)
    <3>1. noLeak \in BOOLEAN /\ ExpectsRefusal(c) = TRUE
      BY <2>2 DEF NoLeak, ExpectsRefusal
    <3> HIDE DEF noLeak
    <3>2. PICK success \in BOOLEAN, outcome \in Outcomes :
            first = [id |-> c.id, refusal |-> TRUE, success |-> success,
                     citation |-> Unit, outcome |-> outcome]
      <4>1. CASE observed
        BY <2>2, <3>1, <4>1 DEF noLeak, ScoreCase, ScoreObserved, Refusal, RefusalOutcome, Outcomes
      <4>2. CASE ~observed
        BY <2>2, <4>2 DEF ScoreCase, ScoreUnobserved, Refusal, RefusalOutcome, Outcomes
      <4>3. QED
        BY <4>1, <4>2
    <3> HIDE DEF first, measured
    <3>3. QED
      BY <3>1, <3>2 DEF Scores
  <2>3. QED
    BY <2>1, <2>2
<1>2. ScoreCaseRun(c, run)
        = IF run.events = {} THEN [first EXCEPT !.success = FALSE] ELSE first
  BY DEF ScoreCaseRun
<1> HIDE DEF first, measured
<1>3. /\ [first EXCEPT !.success = FALSE] \in Scores(c, measured)
      /\ [first EXCEPT !.success = FALSE].success = FALSE
  BY <1>1 DEF Scores
<1>4. QED
  BY <1>1, <1>2, <1>3 DEF measured

\* On a trap case success, outcome and fence agree.
LEMMA RefusalShape ==
  ASSUME NEW c, NEW run, ExpectsRefusal(c)
  PROVE  LET s == ScoreCaseRun(c, run)
             observed == ChunksObserved(run.events)
             noLeak == NoLeak(c, ChunksOf(run.events))
         IN  /\ s.success => run.answer.refused /\ observed /\ noLeak
             /\ s.success <=> s.outcome = "pass_refusal"
             /\ observed /\ ~noLeak => s.outcome = "fail_leak"
<1> DEFINE observed == ChunksObserved(run.events)
           noLeak == NoLeak(c, ChunksOf(run.events))
<1>2. CASE ~observed
  BY <1>2 DEF ScoreCaseRun, ScoreCase, ScoreUnobserved, Refusal, RefusalOutcome, Outcomes
<1>3. CASE observed
  <2>1. run.events # {}
    BY <1>3 DEF ChunksObserved, Retrievals
  <2>2. noLeak \in BOOLEAN
    BY DEF NoLeak
  <2>3. QED
    BY <1>3, <2>1, <2>2
       DEF ScoreCaseRun, ScoreCase, ScoreObserved, Refusal, RefusalOutcome, Outcomes
<1>4. QED
  BY <1>2, <1>3 

\* A verdict leaves the result as it was, or makes it a passed answer.
LEMMA JudgeRescues ==
  ASSUME NEW c, NEW run, NEW verdict \in BOOLEAN,
         MayAskJudge(c, run, ScoreCaseRun(c, run))
  PROVE  Judged(ScoreCaseRun(c, run), verdict)
           \in {ScoreCaseRun(c, run),
                [ScoreCaseRun(c, run) EXCEPT !.success = TRUE, !.outcome = "pass_answer"]}
<1> DEFINE s == ScoreCaseRun(c, run)
<1>1. /\ s \in Scores(c, CitationAccuracy(c, CitationsOf(run.events)))
      /\ ~s.success
  BY ScoreShape DEF MayAskJudge
<1> HIDE DEF s
<1>2. [s EXCEPT !.success = FALSE] = s
  BY <1>1 DEF Scores
<1>3. QED
  BY <1>2 DEF Judged, s

\* A clean fence is what the property Fenced asks for.
LEMMA CleanIsFenced ==
  ASSUME NEW c, NEW chunks, NoLeak(c, chunks)
  PROVE  \A k \in chunks :
           /\ k.tenant = TenantIds[c.tenant]
           /\ c.expTenant = c.tenant => k.role \in c.roles
BY DEF NoLeak, InScope, CrossTenant

\* A finite set of indices has an n-th member, and n members up to it.
LEMMA NthIsThere ==
  ASSUME NEW S \in SUBSET Nat, IsFiniteSet(S), NEW n \in 1..Cardinality(S)
  PROVE  /\ Nth(S, n) \in S
         /\ Cardinality({j \in S : j <= Nth(S, n)}) = n
<1> DEFINE Rank(i) == Cardinality({j \in S : j <= i})
<1>1. Cardinality(S) \in Nat
  BY FS_CardinalityType
<1>2. \A i \in S : Rank(i) \in 1..Cardinality(S)
  <2> SUFFICES ASSUME NEW i \in S PROVE Rank(i) \in 1..Cardinality(S)
    OBVIOUS
  <2> DEFINE T == {j \in S : j <= i}
  <2>1. IsFiniteSet(T) /\ Cardinality(T) <= Cardinality(S)
    BY FS_Subset
  <2>2. Cardinality(T) \in Nat /\ Cardinality(T) # 0
    <3>1. i \in T
      OBVIOUS
    <3> HIDE DEF T
    <3>2. QED
      BY <2>1, <3>1, FS_CardinalityType, FS_EmptySet
  <2>3. QED
    BY <1>1, <2>1, <2>2
<1>3. \A i, k \in S : i < k => Rank(i) # Rank(k)
  <2> SUFFICES ASSUME NEW i \in S, NEW k \in S, i < k PROVE Rank(i) # Rank(k)
    OBVIOUS
  <2> DEFINE T == {j \in S : j <= i}
             U == {j \in S : j <= k}
  <2>1. T \subseteq U /\ T # U /\ IsFiniteSet(U)
    <3>1. k \in U /\ k \notin T
      OBVIOUS
    <3>2. \A j \in T : j \in U
      OBVIOUS
    <3>3. IsFiniteSet(U)
      BY FS_Subset
    <3>4. QED
      BY <3>1, <3>2, <3>3
  <2>2. QED
    BY <2>1, FS_Subset
<1>4. \E i \in S : Rank(i) = n
  <2> SUFFICES ASSUME \A i \in S : Rank(i) # n PROVE FALSE
    OBVIOUS
  <2> DEFINE T == (1..Cardinality(S)) \ {n}
             rank == [i \in S |-> Rank(i)]
  <2>1. IsFiniteSet(T) /\ Cardinality(T) < Cardinality(S)
    <3>1. IsFiniteSet(1..Cardinality(S)) /\ Cardinality(1..Cardinality(S)) = Cardinality(S)
      BY <1>1, FS_Interval
    <3>2. Cardinality(T) = Cardinality(1..Cardinality(S)) - 1 /\ IsFiniteSet(T)
      BY <3>1, FS_RemoveElement
    <3>3. QED
      BY <1>1, <3>1, <3>2
  <2>2. rank \in [S -> T]
    <3> HIDE DEF Rank
    <3>1. QED
      BY <1>2
  <2>3. PICK i \in S, k \in S : i # k /\ rank[i] = rank[k]
    <3> HIDE DEF rank, T
    <3>1. QED
      BY <2>1, <2>2, FS_PigeonHole, Zenon
  <2>4. (i < k \/ k < i) /\ Rank(i) = Rank(k)
    BY <2>3
  <2> HIDE DEF Rank
  <2>5. QED
    BY <1>3, <2>4
<1>5. QED
  BY <1>4 DEF Nth

\* The n-th members come in the order of n.
LEMMA NthGrows ==
  ASSUME NEW S \in SUBSET Nat, IsFiniteSet(S),
         NEW m \in 1..Cardinality(S), NEW n \in 1..Cardinality(S), m < n
  PROVE  Nth(S, m) < Nth(S, n)
<1> DEFINE i == Nth(S, m)
           k == Nth(S, n)
           T == {j \in S : j <= i}
           U == {j \in S : j <= k}
<1>1. i \in Nat /\ k \in Nat /\ Cardinality(T) = m /\ Cardinality(U) = n
  BY NthIsThere
<1>2. SUFFICES ASSUME k <= i PROVE FALSE
  BY <1>1
<1>3. U \subseteq T /\ IsFiniteSet(T)
  <2>1. U \subseteq T
    <3> SUFFICES ASSUME NEW j \in S, j <= k PROVE j <= i
      OBVIOUS
    <3>1. j \in Nat
      OBVIOUS
    <3> HIDE DEF i, k
    <3>2. QED
      BY <1>1, <1>2, <3>1
  <2>2. T \subseteq S
    OBVIOUS
  <2>3. QED
    BY <2>1, <2>2, FS_Subset
<1>4. Cardinality(U) <= Cardinality(T)
  BY <1>3, FS_Subset
<1>5. QED
  BY <1>1, <1>4, FS_CardinalityType

\* The first n members are at most n, and none when n is not positive.
LEMMA FirstsAreFew ==
  ASSUME NEW S \in SUBSET Nat, IsFiniteSet(S), NEW n \in Int
  PROVE  /\ IsFiniteSet(Firsts(S, n))
         /\ n <= 0 => Firsts(S, n) = {}
         /\ n >= 0 => Cardinality(Firsts(S, n)) <= n
<1> DEFINE Before(i) == Cardinality({j \in S : j < i})
           F == Firsts(S, n)
<1>1. \A i \in S : Before(i) \in Nat
  BY FS_Subset, FS_CardinalityType
<1>2. /\ IsFiniteSet(F) /\ Cardinality(F) \in Nat
      /\ F \subseteq S
      /\ \A i \in F : i \in Nat
  BY FS_Subset, FS_CardinalityType DEF Firsts
<1>3. n <= 0 => F = {}
  <2> SUFFICES ASSUME n <= 0, NEW i \in F PROVE FALSE
    OBVIOUS
  <2>1. i \in S /\ Before(i) < n
    BY DEF Firsts
  <2> HIDE DEF Before
  <2>2. QED
    BY <1>1, <2>1
<1>4. \A a, b \in F : a < b => Before(a) # Before(b)
  <2> SUFFICES ASSUME NEW a \in F, NEW b \in F, a < b PROVE Before(a) # Before(b)
    OBVIOUS
  <2> DEFINE T == {j \in S : j < a}
             U == {j \in S : j < b}
  <2>1. a \in S /\ a \in Nat /\ b \in Nat
    BY <1>2
  <2>2. a \in U /\ a \notin T
    BY <2>1
  <2>3. \A j \in T : j \in U
    BY <2>1
  <2>4. U \subseteq S /\ T \subseteq U /\ T # U
    BY <2>2, <2>3
  <2>5. QED
    BY <2>4, FS_Subset
<1>5. ASSUME n > 0, Cardinality(F) > n PROVE FALSE
  <2> DEFINE f == [i \in F |-> Before(i)]
             places == 0..(n - 1)
  <2>1. \A i \in F : Before(i) \in places
    BY <1>1, <1>2 DEF Firsts
  <2>2. IsFiniteSet(places) /\ Cardinality(places) = n
    <3>1. 0 <= n - 1 /\ n - 1 - 0 + 1 = n
      BY <1>5
    <3>2. QED
      BY <3>1, FS_Interval
  <2> HIDE DEF F, Before, places
  <2>3. f \in [F -> places]
    BY <2>1
  <2>4. PICK i \in F, k \in F : i # k /\ f[i] = f[k]
    <3> HIDE DEF f
    <3>1. Cardinality(places) < Cardinality(F)
      BY <1>2, <1>5, <2>2
    <3>2. QED
      BY <1>2, <2>2, <2>3, <3>1, FS_PigeonHole, Zenon
  <2>5. (i < k \/ k < i) /\ Before(i) = Before(k)
    BY <1>2, <2>4
  <2>6. QED
    BY <1>4, <2>5
<1>6. CASE n = 0
  BY <1>3, <1>6, FS_EmptySet
<1>7. CASE n # 0
  BY <1>2, <1>3, <1>5, <1>7
<1>8. QED
  BY <1>2, <1>3, <1>6, <1>7

\* The n-th case of the core is the case at its n-th index.
LEMMA CoreTakes ==
  ASSUME NEW g, Sequence(g), NEW m \in Nat, NEW n \in Nat
  PROVE  LET core == CoreIndices(g, m, n)
         IN  /\ core \in SUBSET Nat /\ core \subseteq DOMAIN g /\ IsFiniteSet(core)
             /\ DOMAIN CoreOf(g, m, n) = 1..Cardinality(core)
             /\ Cardinality(core) \in Nat
             /\ CoreOf(g, m, n) = [k \in 1..Cardinality(core) |-> g[Nth(core, k)]]
             /\ \A k \in DOMAIN CoreOf(g, m, n) :
                  /\ Nth(core, k) \in core /\ Nth(core, k) \in DOMAIN g
                  /\ CoreOf(g, m, n)[k] = g[Nth(core, k)]
<1> DEFINE core == CoreIndices(g, m, n)
<1>1. /\ core \subseteq DOMAIN g
      /\ IsFiniteSet(DOMAIN g) /\ DOMAIN g \subseteq Nat
  <2>1. core \subseteq DOMAIN g
    BY DEF CoreIndices, Firsts, EnoughAnswers, AnswersIn, Declared
  <2>2. DOMAIN g = 1..Len(g) /\ Len(g) \in Nat
    BY DEF Sequence
  <2>3. QED
    BY <2>1, <2>2, FS_Interval
<1>2. IsFiniteSet(core) /\ core \in SUBSET Nat /\ Cardinality(core) \in Nat
  BY <1>1, FS_Subset, FS_CardinalityType
<1>3. CoreOf(g, m, n) = [k \in 1..Cardinality(core) |-> g[Nth(core, k)]]
  BY DEF CoreOf
<1> HIDE DEF core
<1>4. \A k \in 1..Cardinality(core) : Nth(core, k) \in core
  BY <1>2, NthIsThere
<1>5. QED
  BY <1>1, <1>2, <1>3, <1>4 DEF core

\* A run starts with nothing recorded.
LEMMA InitInv == Init => IInv
<1> SUFFICES ASSUME Init PROVE IInv
  OBVIOUS
<1>1. /\ request \in Requests /\ golden = request.golden /\ Sequence(golden)
      /\ \A i \in DOMAIN golden : IsFiniteSet(golden[i].cites)
      /\ Len(golden) \in Nat
  <2>1. request \in Requests /\ golden = request.golden
    BY DEF Init
  <2>2. /\ golden \in Seq({golden[i] : i \in DOMAIN golden})
        /\ \A i \in DOMAIN golden : IsFiniteSet(golden[i].cites)
    BY <2>1, EvalAssumption
  <2>3. QED
    BY <2>1, <2>2 DEF Sequence
<1>2. Counted
  BY <1>1 DEF Init, Counted, Stages, Sequence
<1>3. AtStage
  BY <1>1 DEF Init, AtStage
<1>4. Grading /\ Unforged /\ AnswerIds
  BY DEF Init, Grading, Unforged, AnswerIds, Recorded, AnswersIn
<1>5. CardRight /\ CasesRight
  BY <1>1 DEF Init, CardRight, CasesRight, Started
<1>6. QED
  BY <1>2, <1>3, <1>4, <1>5 DEF IInv

\* A step that only moves on to the next case, or gives up.
Quiet == /\ UNCHANGED <<request, golden, results, scoredIds, card, runs, asked>>
         /\ stage # "done"
         /\ \/ stage' = "aborted"
            \/ stage = "reporting" /\ stage' = "running"

\* Such a step keeps the invariant.
LEMMA QuietInv == IInv /\ Quiet => IInv'
<1> SUFFICES ASSUME IInv, Quiet PROVE IInv'
  OBVIOUS
<1> USE DEF Quiet
<1>1. Counted'
  BY DEF IInv, Counted, Sequence, Stages
<1>2. AtStage'
  BY DEF IInv, AtStage
<1>3. Grading' /\ Unforged' /\ AnswerIds'
  BY DEF IInv, Grading, Unforged, AnswerIds, Recorded, Plain, Rescued, Case, AnswersIn
<1>4. CardRight' /\ CasesRight'
  BY DEF IInv, CardRight, CasesRight, Started, DuplicateIds
<1>5. QED
  BY <1>1, <1>2, <1>3, <1>4 DEF IInv

\* The cut to the core keeps the cases well formed.
LEMMA BeginInv == IInv /\ Begin => IInv'
<1> SUFFICES ASSUME IInv, Begin PROVE IInv'
  OBVIOUS
<1>1. CASE Abort /\ UNCHANGED golden
  BY <1>1, QuietInv DEF Begin, Abort, Quiet
<1>2. CASE /\ stage' = "running"
           /\ \/ ~request.core /\ golden' = golden
              \/ /\ ~CoreRejected(golden, request.max, request.min)
                 /\ golden' = CoreOf(golden, request.max, request.min)
  <2>1. /\ stage = "called" /\ runs = <<>> /\ Len(results) = Len(runs) /\ asked = {}
        /\ UNCHANGED <<request, results, scoredIds, scored, card, runs, asked>>
    BY DEF Begin, IInv, AtStage, Counted
  <2>2. Sequence(golden) /\ request \in Requests /\ request.max \in Int /\ request.min \in Int
    BY EvalAssumption DEF IInv, Counted
  <2>3. Sequence(golden')
    <3>1. CASE golden' = golden
      BY <2>2, <3>1
    <3>2. CASE /\ ~CoreRejected(golden, request.max, request.min)
               /\ golden' = CoreOf(golden, request.max, request.min)
      <4>1. request.max \in Nat /\ request.min \in Nat
        BY <2>2, <3>2 DEF CoreRejected
      <4>2. QED
        BY <2>2, <3>2, <4>1, CoreSequence
    <3>3. QED
      BY <1>2, <3>1, <3>2
  <2>4. Counted'
    BY <1>2, <2>1, <2>3 DEF IInv, Counted, Stages, Sequence
  <2>5. Recorded = {} /\ Recorded' = {} /\ scoredIds = {}
    BY <2>1 DEF IInv, Counted, Recorded, Sequence, AnswerIds, AnswersIn
  <2>6. AtStage' /\ Grading' /\ Unforged' /\ AnswerIds' /\ CardRight'
    BY <1>2, <2>1, <2>5
       DEF IInv, AtStage, Grading, Unforged, AnswerIds, AnswersIn, CardRight, Recorded
  <2>7. CasesRight'
    <3>1. CASE ~request.core /\ golden' = golden
      BY <2>1, <3>1 DEF IInv, CasesRight
    <3>2. CASE /\ ~CoreRejected(golden, request.max, request.min)
               /\ golden' = CoreOf(golden, request.max, request.min)
      <4>1. ~DuplicateIds(golden')
        BY <3>2 DEF CoreRejected
      <4> DEFINE part == CoreOf(golden, request.max, request.min)
      <4>2. \A i \in DOMAIN part : \E k \in DOMAIN golden : part[i] = golden[k]
        <5>1. request.max \in Nat /\ request.min \in Nat
          BY <2>2, <3>2 DEF CoreRejected
        <5>2. QED
          BY <2>2, <5>1, CoreTakes
      <4> HIDE DEF part
      <4>3. golden' = part
        BY <3>2 DEF part
      <4>4. QED
        BY <4>1, <4>2, <4>3 DEF IInv, CasesRight
    <3>3. QED
      BY <1>2, <3>1, <3>2
  <2>8. QED
    BY <2>4, <2>6, <2>7 DEF IInv
<1>3. QED
  BY <1>1, <1>2 DEF Begin, Abort

\* Recording the result of a case, from the runner or from the judge.
LEMMA RecordInv ==
  ASSUME IInv, stage \in {"running", "judging"},
         NEW result, NEW i, i = Len(results) + 1, Record(i, result),
         UNCHANGED <<arguments, card>>,
         Len(runs') = Len(results) + 1, Len(runs') <= Len(golden), runs' \in Seq(CaseRuns),
         \A k \in DOMAIN runs : runs'[k] = runs[k],
         Forged(runs'[i].events) = {},
         asked' = asked,
         \A k \in asked : k \in DOMAIN runs' /\ MayAskJudge(Case(k), runs'[k], ScoreCaseRun(Case(k), runs'[k])),
         \/ result = ScoreCaseRun(Case(i), runs'[i])
         \/ /\ i \in asked
            /\ result = [ScoreCaseRun(Case(i), runs'[i]) EXCEPT !.success = TRUE, !.outcome = "pass_answer"]
  PROVE  IInv'
<1>1. /\ Sequence(results) /\ results' = Append(results, result) /\ golden' = golden
      /\ Sequence(results') /\ Len(results') = i /\ DOMAIN results' = 1..i
      /\ DOMAIN results = 1..Len(results) /\ Len(results) \in Nat
      /\ \A k \in DOMAIN results : results'[k] = results[k]
      /\ results'[i] = result
      /\ stage' = "reporting" /\ request' = request /\ card' = card
  BY AppendSequence DEF IInv, Counted, Record, arguments
<1>2. DOMAIN runs' = 1..i /\ DOMAIN runs = 1..Len(runs) /\ Len(runs) \in Nat
      /\ Len(results) <= Len(runs) /\ DOMAIN golden = 1..Len(golden) /\ Len(golden) \in Nat
  BY <1>1 DEF IInv, Counted, Sequence
<1>3. Counted'
  BY <1>1, <1>2 DEF IInv, Counted, Stages
<1>4. AtStage'
  BY <1>1 DEF AtStage
<1>5. Grading'
  <2>1. \A k \in asked' : MayAskJudge(Case(k), runs[k], Plain(k))'
    BY <1>1 DEF Case, Plain
  <2>2. ASSUME NEW k \in 1..i PROVE results'[k] = Plain(k)' \/ (k \in asked' /\ results'[k] = Rescued(k)')
    <3>1. CASE k = i
      BY <1>1, <3>1 DEF Plain, Rescued, Case
    <3>2. CASE k # i
      <4>1. k \in DOMAIN results /\ k \in DOMAIN runs
        BY <1>1, <1>2, <3>2
      <4>2. Plain(k)' = Plain(k)
        BY <1>1, <4>1 DEF Plain, Case
      <4>3. Rescued(k)' = Rescued(k)
        BY <4>2 DEF Rescued
      <4>4. QED
        BY <1>1, <4>1, <4>2, <4>3 DEF IInv, Grading, Recorded
    <3>3. QED
      BY <3>1, <3>2
  <2>3. QED
    BY <1>1, <2>1, <2>2 DEF Grading, Recorded
<1>6. Unforged'
  <2>1. \A k \in DOMAIN runs' : k = i \/ k \in DOMAIN runs
    BY <1>1, <1>2
  <2>2. \A k \in DOMAIN runs : Forged(runs[k].events) = {}
    BY DEF IInv, Unforged
  <2>3. QED
    BY <2>1, <2>2 DEF Unforged
<1>7. AnswerIds'
  <2>1. i \in DOMAIN golden /\ Recorded' = Recorded \cup {i}
    BY <1>1, <1>2 DEF Recorded
  <2>2. CASE ExpectsRefusal(Case(i))
    <3>1. AnswersIn(golden', Recorded') = AnswersIn(golden, Recorded) /\ scoredIds' = scoredIds
      BY <1>1, <2>1, <2>2 DEF AnswersIn, Case, Record
    <3>2. QED
      BY <1>1, <3>1 DEF IInv, AnswerIds, Case
  <2>3. CASE ~ExpectsRefusal(Case(i))
    <3>1. AnswersIn(golden', Recorded') = AnswersIn(golden, Recorded) \cup {i}
      BY <1>1, <2>1, <2>3 DEF AnswersIn, Case
    <3>2. scoredIds' = scoredIds \cup {Case(i).id}
      BY <2>3 DEF Record
    <3>3. QED
      BY <1>1, <3>1, <3>2 DEF IInv, AnswerIds, Case
  <2>4. QED
    BY <2>2, <2>3
<1>8. CardRight' /\ CasesRight'
  BY <1>1 DEF IInv, CardRight, CasesRight, Started, DuplicateIds
<1>9. QED
  BY <1>3, <1>4, <1>5, <1>6, <1>7, <1>8 DEF IInv

\* A case that was run is rejected, sent to the judge or recorded.
LEMMA RunCaseInv ==
  ASSUME NEW run \in CaseRuns
  PROVE  IInv /\ RunCase(run) => IInv'
<1> SUFFICES ASSUME IInv, RunCase(run) PROVE IInv'
  OBVIOUS
<1>1. /\ stage = "running" /\ Len(runs) = Len(results) /\ runs \in Seq(CaseRuns)
      /\ Len(runs) < Len(golden) /\ Len(runs) \in Nat /\ Len(golden) \in Nat
      /\ UNCHANGED <<arguments, card>> /\ UNCHANGED <<request, golden>>
  BY DEF RunCase, MoreCases, IInv, AtStage, Counted, Sequence, arguments
<1> PICK i \in Nat : i = Len(runs) + 1
  BY <1>1
<1> DEFINE result == ScoreCaseRun(Case(i), run)
<1>2. /\ runs' \in Seq(CaseRuns) /\ Len(runs') = i /\ DOMAIN runs' = 1..i /\ runs'[i] = run
      /\ DOMAIN runs = 1..Len(runs)
      /\ \A k \in DOMAIN runs : runs'[k] = runs[k]
  BY <1>1 DEF RunCase
<1>3. \A k \in DOMAIN runs : Plain(k)' = Plain(k) /\ Rescued(k)' = Rescued(k)
  BY <1>1, <1>2 DEF Plain, Rescued, Case
<1>4. /\ Plain(i)' = result
      /\ \A k \in asked : k \in DOMAIN runs' /\ MayAskJudge(Case(k), runs'[k], ScoreCaseRun(Case(k), runs'[k]))
  <2>1. Plain(i)' = result
    BY <1>1, <1>2 DEF Plain, Case
  <2>2. \A k \in asked : k \in DOMAIN runs
    BY DEF IInv, Counted
  <2>3. QED
    BY <1>1, <1>2, <2>1, <2>2 DEF IInv, Grading, Plain
<1>5. CASE /\ Forged(run.events) # {} /\ Abort
           /\ UNCHANGED <<results, scoredIds, scored, asked>>
  <2>1. Counted'
    BY <1>1, <1>2, <1>5 DEF IInv, Counted, Abort, Stages, Sequence
  <2>2. AtStage' /\ Unforged' /\ CardRight' /\ CasesRight'
    BY <1>1, <1>5 DEF IInv, AtStage, Unforged, CardRight, CasesRight, Started, DuplicateIds, Abort
  <2>3. Grading'
    <3>1. \A k \in asked : MayAskJudge(Case(k), runs[k], Plain(k))'
      BY <1>1, <1>4 DEF Case, Plain
    <3>2. Recorded \subseteq DOMAIN runs /\ Recorded' = Recorded
      BY <1>1, <1>2, <1>5 DEF Recorded, IInv, Counted, Sequence
    <3>3. QED
      BY <1>3, <1>5, <3>1, <3>2 DEF IInv, Grading
  <2>4. AnswerIds'
    BY <1>1, <1>5 DEF IInv, AnswerIds, Recorded, Case, AnswersIn
  <2>5. QED
    BY <2>1, <2>2, <2>3, <2>4 DEF IInv
<1>6. CASE /\ Forged(run.events) = {} /\ MayAskJudge(Case(i), run, result)
           /\ stage' = "judging" /\ scored' = result /\ asked' = asked \cup {i}
           /\ UNCHANGED <<results, scoredIds>>
  <2>1. Counted'
    BY <1>1, <1>2, <1>6 DEF IInv, Counted, Stages, Sequence
  <2>2. AtStage'
    BY <1>1, <1>2, <1>4, <1>6 DEF AtStage
  <2>3. Grading'
    <3>1. \A k \in asked : MayAskJudge(Case(k), runs[k], Plain(k))'
      BY <1>1, <1>4 DEF Case, Plain
    <3>2. MayAskJudge(Case(i), runs[i], Plain(i))'
      BY <1>1, <1>2, <1>4, <1>6 DEF Case
    <3>3. Recorded \subseteq DOMAIN runs /\ Recorded' = Recorded
      BY <1>1, <1>2, <1>6 DEF Recorded, IInv, Counted, Sequence
    <3>4. \A k \in asked' : MayAskJudge(Case(k), runs[k], Plain(k))'
      BY <1>6, <3>1, <3>2
    <3>5. \A k \in Recorded' : results'[k] = Plain(k)' \/ (k \in asked' /\ results'[k] = Rescued(k)')
      BY <1>3, <1>6, <3>3 DEF IInv, Grading
    <3>6. QED
      BY <3>4, <3>5 DEF Grading
  <2>4. Unforged'
    <3>1. \A k \in DOMAIN runs' : k = i \/ k \in DOMAIN runs
      BY <1>1, <1>2
    <3>2. \A k \in DOMAIN runs : Forged(runs[k].events) = {}
      BY <1>1 DEF IInv, Unforged
    <3>3. QED
      BY <1>2, <1>6, <3>1, <3>2 DEF Unforged
  <2>5. AnswerIds'
    BY <1>1, <1>6 DEF IInv, AnswerIds, Recorded, Case, AnswersIn
  <2>6. CardRight' /\ CasesRight'
    BY <1>1, <1>6 DEF IInv, CardRight, CasesRight, Started, DuplicateIds
  <2>7. QED
    BY <2>1, <2>2, <2>3, <2>4, <2>5, <2>6 DEF IInv
<1>7. CASE /\ Forged(run.events) = {} /\ Record(i, result)
           /\ UNCHANGED <<scored, asked>>
  <2>1. /\ i = Len(results) + 1 /\ Len(runs') = Len(results) + 1 /\ Len(runs') <= Len(golden)
        /\ Forged(runs'[i].events) = {} /\ asked' = asked
        /\ result = ScoreCaseRun(Case(i), runs'[i])
    BY <1>1, <1>2, <1>7 DEF Case
  <2>2. QED
    BY <1>1, <1>2, <1>4, <1>7, <2>1, RecordInv
<1>8. QED
  BY <1>5, <1>6, <1>7 DEF RunCase, NextCase

\* However the judge ends, what is recorded is the plain result or the rescued one.
LEMMA JudgeInv ==
  IInv /\ (JudgeUnavailable \/ \E verdict \in BOOLEAN : JudgeAnswers(verdict)) => IInv'
<1> SUFFICES ASSUME IInv, JudgeUnavailable \/ \E verdict \in BOOLEAN : JudgeAnswers(verdict)
             PROVE  IInv'
  OBVIOUS
<1> DEFINE i == Len(runs)
<1>1. /\ stage = "judging" /\ i = Len(results) + 1 /\ i \in asked /\ scored = Plain(i)
      /\ asked \subseteq DOMAIN runs /\ runs \in Seq(CaseRuns) /\ Len(runs) <= Len(golden)
      /\ \A k \in asked : MayAskJudge(Case(k), runs[k], Plain(k))
      /\ \A k \in DOMAIN runs : Forged(runs[k].events) = {}
  BY DEF JudgeUnavailable, JudgeAnswers, IInv, AtStage, Counted, Grading, Unforged
<1>2. UNCHANGED <<arguments, card, runs, asked>>
  BY DEF JudgeUnavailable, JudgeAnswers
<1>3. PICK result \in {Plain(i), Rescued(i)} : Record(i, result)
  <2>1. CASE JudgeUnavailable
    BY <1>1, <2>1 DEF JudgeUnavailable, Index
  <2>2. ASSUME NEW verdict \in BOOLEAN, JudgeAnswers(verdict)
        PROVE  \E result \in {Plain(i), Rescued(i)} : Record(i, result)
    <3>1. Judged(Plain(i), verdict) \in {Plain(i), Rescued(i)}
      BY <1>1, JudgeRescues DEF Plain, Rescued
    <3>2. QED
      BY <1>1, <2>2, <3>1 DEF JudgeAnswers, Index
  <2>3. QED
    BY <2>1, <2>2
<1>4. /\ Len(runs') = Len(results) + 1 /\ Len(runs') <= Len(golden) /\ runs' \in Seq(CaseRuns)
      /\ asked' = asked
      /\ \A k \in DOMAIN runs : runs'[k] = runs[k]
      /\ Forged(runs'[i].events) = {}
      /\ \A k \in asked : k \in DOMAIN runs' /\ MayAskJudge(Case(k), runs'[k], ScoreCaseRun(Case(k), runs'[k]))
  BY <1>1, <1>2 DEF Plain
<1>5. \/ result = ScoreCaseRun(Case(i), runs'[i])
      \/ /\ i \in asked
         /\ result = [ScoreCaseRun(Case(i), runs'[i]) EXCEPT !.success = TRUE, !.outcome = "pass_answer"]
  BY <1>1, <1>2, <1>3 DEF Plain, Rescued
<1>6. QED
  BY <1>1, <1>2, <1>3, <1>4, <1>5, RecordInv

\* The scorecard is computed after the last case.
LEMMA FinishInv == IInv /\ Finish => IInv'
<1> SUFFICES ASSUME IInv, Finish PROVE IInv'
  OBVIOUS
<1>1. UNCHANGED <<arguments, results, scoredIds, scored, runs, asked>> /\ UNCHANGED <<request, golden>>
  BY DEF Finish, arguments
<1>2. CASE Abort /\ UNCHANGED card
  BY <1>1, <1>2, QuietInv DEF Finish, Abort, Quiet
<1>3. CASE stage' = "done" /\ card' = Scorecard(results, scoredIds, request.threshold)
  <2>1. /\ Len(results) = Len(golden) /\ stage = "running"
    BY DEF Finish, MoreCases, IInv, AtStage, Counted, Sequence
  <2>2. Counted'
    BY <1>1, <1>3 DEF IInv, Counted, Stages, Sequence
  <2>3. AtStage'
    BY <1>1, <1>3, <2>1 DEF IInv, AtStage
  <2>4. Grading' /\ Unforged' /\ AnswerIds'
    BY <1>1, <2>1 DEF IInv, Grading, Unforged, AnswerIds, Recorded, Plain, Rescued, Case, AnswersIn
  <2>5. CardRight' /\ CasesRight'
    BY <1>1, <1>3, <2>1 DEF IInv, CardRight, CasesRight, Started, DuplicateIds
  <2>6. QED
    BY <2>2, <2>3, <2>4, <2>5 DEF IInv
<1>4. QED
  BY <1>2, <1>3 DEF Finish

\* Every step keeps the invariant.
LEMMA StepInv == IInv /\ [Next]_vars => IInv'
<1> SUFFICES ASSUME IInv, [Next]_vars PROVE IInv'
  OBVIOUS
<1>1. CASE RunnerFails \/ JudgeRaises \/ Cancelled
  BY <1>1, QuietInv DEF RunnerFails, JudgeRaises, Cancelled, Abort, Quiet, arguments
<1>2. CASE Reported
  BY <1>2, QuietInv DEF Reported, Quiet, arguments
<1>3. CASE UNCHANGED vars
  <2>1. Counted' /\ AtStage'
    BY <1>3 DEF vars, IInv, Counted, AtStage, Sequence, Plain, Case
  <2>2. Grading' /\ Unforged' /\ AnswerIds'
    BY <1>3 DEF vars, IInv, Grading, Unforged, AnswerIds, Recorded, Plain, Rescued, Case, AnswersIn
  <2>3. CardRight' /\ CasesRight'
    BY <1>3 DEF vars, IInv, CardRight, CasesRight, Started, DuplicateIds
  <2>4. QED
    BY <2>1, <2>2, <2>3 DEF IInv
<1>4. ASSUME NEW run \in CaseRuns, RunCase(run) PROVE IInv'
  BY <1>4, RunCaseInv
<1>5. CASE Begin \/ Finish
  BY <1>5, BeginInv, FinishInv
<1>6. CASE JudgeUnavailable \/ \E verdict \in BOOLEAN : JudgeAnswers(verdict)
  BY <1>6, JudgeInv
<1>7. QED
  BY <1>1, <1>2, <1>3, <1>4, <1>5, <1>6 DEF Next

\* The inductive invariant holds in every reachable state.
THEOREM Inductive == Spec => []IInv
BY InitInv, StepInv, PTL DEF Spec

\* A proportion of u is at most u.
LEMMA DivBound ==
  ASSUME NEW u \in Nat, NEW a \in Nat, NEW b \in Nat \ {0}, a <= b
  PROVE  (u * a) \div b \in 0..u
<1> DEFINE q == (u * a) \div b
<1>1. u * a \in Nat /\ u * a <= u * b /\ u * b \in Nat
  OBVIOUS
<1>2. q \in Nat /\ q * b <= u * a
  OBVIOUS
<1>3. q <= u
  <2> SUFFICES ASSUME u + 1 <= q PROVE FALSE
    BY <1>2
  <2> HIDE DEF q
  <2>1. (u + 1) * b <= q * b
    BY <1>2
  <2>2. (u + 1) * b = u * b + b
    OBVIOUS
  <2>3. QED
    BY <1>1, <1>2, <2>1, <2>2
<1>4. QED
  BY <1>2, <1>3

\* citation_accuracy lies between 0 and 1.
LEMMA CitationBound ==
  ASSUME NEW c, NEW cited, IsFiniteSet(c.cites)
  PROVE  CitationAccuracy(c, cited) \in 0..Unit
<1>1. Unit \in Nat
  BY EvalAssumption
<1>2. CASE c.cites = {}
  BY <1>1, <1>2 DEF CitationAccuracy
<1>3. CASE c.cites # {}
  <2>1. /\ Cardinality(c.cites) \in Nat \ {0}
        /\ Cardinality(c.cites \cap cited) \in Nat
        /\ Cardinality(c.cites \cap cited) <= Cardinality(c.cites)
    BY <1>3, FS_Subset, FS_CardinalityType, FS_EmptySet
  <2>2. QED
    BY <1>1, <1>3, <2>1, DivBound DEF CitationAccuracy
<1>4. QED
  BY <1>2, <1>3

\* What IInv says of one recorded result.
LEMMA ResultShape ==
  ASSUME IInv, NEW i \in Recorded
  PROVE  /\ i \in DOMAIN golden /\ i \in DOMAIN runs
         /\ results[i] \in Scores(Case(i), CitationAccuracy(Case(i), CitationsOf(runs[i].events)))
         /\ results[i].success => runs[i].events # {}
         /\ ExpectsRefusal(Case(i)) => results[i] = Plain(i)
<1>1. i \in DOMAIN golden /\ i \in DOMAIN runs
  BY DEF IInv, Counted, Sequence, Recorded
<1>2. /\ Plain(i) \in Scores(Case(i), CitationAccuracy(Case(i), CitationsOf(runs[i].events)))
      /\ Plain(i).success => runs[i].events # {}
  BY ScoreShape DEF Plain
<1>3. CASE results[i] = Plain(i)
  BY <1>1, <1>2, <1>3
<1>4. CASE i \in asked /\ results[i] = Rescued(i)
  <2>1. runs[i].events # {} /\ ~ExpectsRefusal(Case(i))
    BY <1>4 DEF IInv, Grading, MayAskJudge
  <2>2. Rescued(i) \in Scores(Case(i), CitationAccuracy(Case(i), CitationsOf(runs[i].events)))
    BY <1>2 DEF Rescued, Scores, Outcomes
  <2>3. QED
    BY <1>1, <1>4, <2>1, <2>2
<1>5. QED
  BY <1>3, <1>4 DEF IInv, Grading

(***************************************************************************)
(* Types, and results, ids and history in step (EvalHarness.run).          *)
(***************************************************************************)
THEOREM TypeCorrect == Spec => []TypeOK
<1>1. IInv => TypeOK
  <2> SUFFICES ASSUME IInv PROVE TypeOK
    OBVIOUS
  <2>1. ASSUME NEW i \in Recorded
        PROVE  /\ results[i].outcome \in Outcomes
               /\ results[i].citation \in 0..Unit
               /\ results[i].id = Case(i).id
               /\ results[i].refusal = ExpectsRefusal(Case(i))
    <3>1. IsFiniteSet(Case(i).cites)
      BY ResultShape DEF IInv, CasesRight, Case
    <3>2. CitationAccuracy(Case(i), CitationsOf(runs[i].events)) \in 0..Unit /\ Unit \in 0..Unit
      BY <3>1, CitationBound, EvalAssumption
    <3>3. QED
      BY <3>2, ResultShape DEF Scores
  <2>2. scoredIds \subseteq {Case(i).id : i \in Recorded}
    BY DEF IInv, AnswerIds, AnswersIn
  <2>3. /\ stage \in Stages /\ request \in Requests
        /\ runs \in Seq(CaseRuns) /\ Len(runs) <= Len(golden)
        /\ asked \subseteq DOMAIN runs
    BY DEF IInv, Counted
  <2>4. Len(runs) - Len(results) = (IF stage = "judging" THEN 1 ELSE 0) \/ stage = "aborted"
    BY DEF IInv, Counted, AtStage, Sequence
  <2>5. card.verdict \in {"none", "PASS", "FAIL"}
    BY DEF IInv, CardRight, NoCard, Scorecard
  <2>6. QED
    BY <2>1, <2>2, <2>3, <2>4, <2>5 DEF TypeOK
<1>2. QED
  BY <1>1, Inductive, PTL

(***************************************************************************)
(* DEC-05 for every runner and judge: a case without events is no success, *)
(* and the judge is never asked about it.                                  *)
(***************************************************************************)
THEOREM NoTrace == Spec => []NoTraceNoSuccess
<1>1. IInv => NoTraceNoSuccess
  <2> SUFFICES ASSUME IInv PROVE NoTraceNoSuccess
    OBVIOUS
  <2>1. \A i \in Recorded : results[i].success => runs[i].events # {}
    BY ResultShape
  <2>2. \A i \in asked : runs[i].events # {}
    BY DEF IInv, Grading, MayAskJudge
  <2>3. QED
    BY <2>1, <2>2 DEF NoTraceNoSuccess
<1>2. QED
  BY <1>1, Inductive, PTL

(***************************************************************************)
(* INV-7: the judge can only turn a failed answer into a passed one.       *)
(***************************************************************************)
THEOREM JudgeRescuesOnly == Spec => []JudgeOnlyRescuesAnswers
<1>1. IInv => JudgeOnlyRescuesAnswers
  <2> SUFFICES ASSUME IInv, NEW i \in Recorded, results[i] # Plain(i)
               PROVE  /\ i \in asked
                      /\ ~Plain(i).refusal /\ ~Plain(i).success
                      /\ results[i] = [Plain(i) EXCEPT !.success = TRUE, !.outcome = "pass_answer"]
    BY DEF JudgeOnlyRescuesAnswers
  <2>1. i \in asked /\ results[i] = Rescued(i)
    BY DEF IInv, Grading
  <2>2. ~ExpectsRefusal(Case(i)) /\ ~Plain(i).success
    BY <2>1 DEF IInv, Grading, MayAskJudge
  <2>3. Plain(i).refusal = ExpectsRefusal(Case(i))
    BY ScoreShape DEF Plain, Scores
  <2>4. QED
    BY <2>1, <2>2, <2>3 DEF Rescued
<1>2. QED
  BY <1>1, Inductive, PTL

(***************************************************************************)
(* C-1: a run with a forged citation ends without a scorecard.             *)
(***************************************************************************)
THEOREM UnforgedCards == Spec => []NoCardFromForgedTrace
<1>1. IInv => NoCardFromForgedTrace
  <2> SUFFICES ASSUME IInv, stage = "done", NEW i \in DOMAIN runs, NEW e \in runs[i].events,
                      e.citations # {}
               PROVE  e.node = "llm-step"
    BY DEF NoCardFromForgedTrace
  <2>1. Forged(runs[i].events) = {}
    BY DEF IInv, Unforged
  <2>2. QED
    BY <2>1 DEF Forged
<1>2. QED
  BY <1>1, Inductive, PTL

\* On a trap case the recorded result follows what retrieval returned.
LEMMA TrapResult ==
  ASSUME IInv, NEW i \in Recorded, ExpectsRefusal(Case(i))
  PROVE  /\ results[i].success => /\ runs[i].answer.refused
                                  /\ ChunksObserved(runs[i].events)
                                  /\ Fenced(i)
         /\ results[i].success <=> results[i].outcome = "pass_refusal"
         /\ ChunksObserved(runs[i].events) /\ ~Fenced(i) => results[i].outcome = "fail_leak"
<1>1. results[i] = ScoreCaseRun(Case(i), runs[i])
  BY ResultShape DEF Plain
<1>2. NoLeak(Case(i), ChunksOf(runs[i].events)) => Fenced(i)
  BY CleanIsFenced DEF Fenced
<1>3. QED
  BY <1>1, <1>2, RefusalShape

\* With a trace, score_case gives a passing outcome to a success and to nothing else.
LEMMA TracedShape ==
  ASSUME NEW c, NEW run, run.events # {}
  PROVE  LET s == ScoreCaseRun(c, run)
         IN  s.success <=> s.outcome \in {"pass_answer", "pass_refusal"}
<1>1. CASE ExpectsRefusal(c)
  <2>1. LET s == ScoreCaseRun(c, run)
        IN  s.success <=> s.outcome = "pass_refusal"
    BY <1>1, RefusalShape
  <2>2. ScoreCaseRun(c, run).outcome # "pass_answer"
    <3>1. CASE ChunksObserved(run.events)
      <4>1. NoLeak(c, ChunksOf(run.events)) \in BOOLEAN
        BY DEF NoLeak
      <4>2. QED
        BY <1>1, <3>1, <4>1 DEF ScoreCaseRun, ScoreCase, ScoreObserved, Refusal, RefusalOutcome
    <3>2. CASE ~ChunksObserved(run.events)
      BY <1>1, <3>2 DEF ScoreCaseRun, ScoreCase, ScoreUnobserved, Refusal, RefusalOutcome
    <3>3. QED
      BY <3>1, <3>2
  <2>3. QED
    BY <2>1, <2>2
<1>2. CASE ~ExpectsRefusal(c)
  BY <1>2 DEF ScoreCaseRun, ScoreCase, ScoreAnswer
<1>3. QED
  BY <1>1, <1>2

\* OutcomeNeverContradicts, for the cases whose run left a trace.
TracedOutcomesAgree ==
  \A i \in Recorded : runs[i].events # {} =>
    (results[i].success <=> results[i].outcome \in {"pass_answer", "pass_refusal"})

(***************************************************************************)
(* What the comment at harness.py:291 promises holds for every case whose  *)
(* run left a trace, the judge's rescues included: the contradictions the  *)
(* run eval_outcome finds are those of no-trace-no-proof, and no others.   *)
(***************************************************************************)
THEOREM TracedOutcomes == Spec => []TracedOutcomesAgree
<1>1. IInv => TracedOutcomesAgree
  <2> SUFFICES ASSUME IInv, NEW i \in Recorded, runs[i].events # {}
               PROVE  results[i].success <=>
                        results[i].outcome \in {"pass_answer", "pass_refusal"}
    BY DEF TracedOutcomesAgree
  <2>1. CASE results[i] = Plain(i)
    BY <2>1, TracedShape DEF Plain
  <2>2. CASE results[i] = Rescued(i)
    <3>1. Plain(i) \in Scores(Case(i), CitationAccuracy(Case(i), CitationsOf(runs[i].events)))
      BY ScoreShape DEF Plain
    <3>2. Rescued(i).success /\ Rescued(i).outcome = "pass_answer"
      BY <3>1 DEF Rescued, Scores
    <3>3. QED
      BY <2>2, <3>2
  <2>3. QED
    BY <2>1, <2>2 DEF IInv, Grading
<1>2. QED
  BY <1>1, Inductive, PTL

(***************************************************************************)
(* On trap cases success, outcome and what retrieval returned agree.       *)
(***************************************************************************)
THEOREM ProvedRefusals == Spec => []RefusalsAreProved
<1>1. IInv => RefusalsAreProved
  <2> SUFFICES ASSUME IInv, NEW i \in Recorded, results[i].refusal
               PROVE  /\ results[i].success => /\ runs[i].answer.refused
                                               /\ ChunksObserved(runs[i].events)
                                               /\ Fenced(i)
                      /\ results[i].success <=> results[i].outcome = "pass_refusal"
                      /\ ChunksObserved(runs[i].events) /\ ~Fenced(i)
                           => results[i].outcome = "fail_leak"
    BY DEF RefusalsAreProved
  <2>1. ExpectsRefusal(Case(i))
    BY ResultShape DEF Scores
  <2>2. QED
    BY <2>1, TrapResult
<1>2. QED
  BY <1>1, Inductive, PTL

\* A scorecard that passed was computed, saw no leak and measured citations.
LEMMA PassedCard ==
  ASSUME IInv, Passed
  PROVE  /\ stage = "done" /\ Len(results) = Len(golden)
         /\ Leaks(results) = {} /\ ScoredIndices(results, scoredIds) # {}
<1>1. stage = "done"
  BY DEF IInv, CardRight, Passed, NoCard
<1>2. card.verdict = IF Passes(results, ScoredIndices(results, scoredIds), request.threshold)
                     THEN "PASS" ELSE "FAIL"
  BY <1>1 DEF IInv, CardRight, Scorecard
<1>3. Passes(results, ScoredIndices(results, scoredIds), request.threshold)
  BY <1>2 DEF Passed
<1>4. QED
  BY <1>1, <1>3 DEF Passes, IInv, CardRight

(***************************************************************************)
(* khong_ro_ri: no thresholds and no judge make a scorecard pass over a leak *)
(* that was observed.                                                      *)
(***************************************************************************)
THEOREM Fence == Spec => []LeakNeverPasses
<1>1. IInv => LeakNeverPasses
  <2> SUFFICES ASSUME IInv, Passed, NEW i \in Recorded,
                      ExpectsRefusal(Case(i)), ChunksObserved(runs[i].events)
               PROVE  Fenced(i)
    BY DEF LeakNeverPasses
  <2>1. results[i].outcome # "fail_leak"
    BY PassedCard DEF Leaks, Recorded
  <2>2. QED
    BY <2>1, TrapResult
<1>2. QED
  BY <1>1, Inductive, PTL

(***************************************************************************)
(* DEC-04: without an answer case nothing was measured and nothing passes. *)
(***************************************************************************)
THEOREM Traps == Spec => []TrapsAloneNeverPass
<1>1. IInv => TrapsAloneNeverPass
  <2> SUFFICES ASSUME IInv, Passed PROVE AnswersIn(golden, DOMAIN golden) # {}
    BY DEF TrapsAloneNeverPass
  <2>1. PICK id \in scoredIds : TRUE
    BY PassedCard DEF ScoredIndices
  <2>2. PICK i \in AnswersIn(golden, Recorded) : TRUE
    BY <2>1 DEF IInv, AnswerIds
  <2>3. i \in DOMAIN golden
    BY <2>2, ResultShape DEF AnswersIn
  <2>4. QED
    BY <2>2, <2>3 DEF AnswersIn
<1>2. QED
  BY <1>1, Inductive, PTL

(***************************************************************************)
(* A scorecard has a result for every case of the set, in order, and a     *)
(* core run averages citations over its answer cases and no other.         *)
(***************************************************************************)
THEOREM WholeCards == Spec => []CardMeasuresTheSet
<1>1. ASSUME IInv, stage = "done"
      PROVE  [i \in DOMAIN card.results |-> card.results[i].id]
               = [i \in DOMAIN golden |-> Case(i).id]
  <2>1. card.results = results
    BY <1>1 DEF IInv, CardRight, Scorecard
  <2>2. Recorded = DOMAIN golden
    BY <1>1 DEF IInv, CardRight, Counted, Sequence, Recorded
  <2>3. \A i \in Recorded : results[i].id = Case(i).id
    BY <1>1, ResultShape DEF Scores
  <2>4. QED
    BY <2>1, <2>2, <2>3 DEF Recorded
<1>2. ASSUME IInv, stage = "done", request.core
      PROVE  card.scored = Cardinality(AnswersIn(golden, DOMAIN golden))
  <2> USE <1>2
  <2>1. card.scored = Cardinality(ScoredIndices(results, scoredIds))
    BY DEF IInv, CardRight, Scorecard
  <2>2. Recorded = DOMAIN golden
    BY DEF IInv, CardRight, Counted, Sequence, Recorded
  <2>3. \A i, k \in DOMAIN golden : i # k => Case(i).id # Case(k).id
    BY DEF IInv, CasesRight, Started, DuplicateIds, Case
  <2>4. \A i \in Recorded : results[i].id = Case(i).id
    BY ResultShape DEF Scores
  <2>5. ScoredIndices(results, scoredIds) = AnswersIn(golden, DOMAIN golden)
    <3>1. ASSUME NEW i \in Recorded
          PROVE  results[i].id \in scoredIds <=> i \in AnswersIn(golden, Recorded)
      <4>1. results[i].id = Case(i).id
        BY <2>4
      <4>2. \A k \in AnswersIn(golden, Recorded) : Case(k).id = Case(i).id => k = i
        BY <2>2, <2>3 DEF AnswersIn
      <4>3. QED
        BY <4>1, <4>2 DEF IInv, AnswerIds
    <3>2. QED
      BY <2>2, <3>1 DEF ScoredIndices, AnswersIn, Recorded
  <2>6. QED
    BY <2>1, <2>5
<1>3. IInv => CardMeasuresTheSet
  BY <1>1, <1>2 DEF CardMeasuresTheSet
<1>4. QED
  BY <1>3, Inductive, PTL

\* Every member is the n-th for some n.
LEMMA NthReaches ==
  ASSUME NEW S \in SUBSET Nat, IsFiniteSet(S), NEW i \in S
  PROVE  \E n \in 1..Cardinality(S) : Nth(S, n) = i
<1> DEFINE T == {j \in S : j <= i}
<1>1. /\ i \in Nat /\ i \in T /\ T \subseteq S /\ IsFiniteSet(T)
  <2>1. i \in Nat /\ i \in T /\ T \subseteq S
    OBVIOUS
  <2>2. QED
    BY <2>1, FS_Subset
<1>2. /\ Cardinality(T) \in Nat /\ Cardinality(S) \in Nat
      /\ Cardinality(T) # 0 /\ Cardinality(T) <= Cardinality(S)
  <2> HIDE DEF T
  <2>1. QED
    BY <1>1, FS_Subset, FS_CardinalityType, FS_EmptySet
<1> PICK n \in 1..Cardinality(S) : n = Cardinality(T)
  BY <1>2
<1> PICK k \in Nat : k = Nth(S, n)
  BY NthIsThere
<1> DEFINE U == {j \in S : j <= k}
<1>3. k \in S /\ k \in U /\ U \subseteq S /\ Cardinality(U) = n
  BY NthIsThere
<1>4. T \subseteq U \/ U \subseteq T
  <2>1. i <= k \/ k <= i
    BY <1>1
  <2>2. \A j \in S : j \in Nat
    OBVIOUS
  <2>3. ASSUME i <= k PROVE T \subseteq U
    <3> SUFFICES ASSUME NEW j \in S, j <= i PROVE j <= k
      OBVIOUS
    <3>1. QED
      BY <1>1, <2>2, <2>3
  <2>4. ASSUME k <= i PROVE U \subseteq T
    <3> SUFFICES ASSUME NEW j \in S, j <= k PROVE j <= i
      OBVIOUS
    <3>1. QED
      BY <1>1, <2>2, <2>4
  <2>5. QED
    BY <2>1, <2>3, <2>4
<1>5. T = U
  <2>1. IsFiniteSet(U)
    BY <1>3, FS_Subset
  <2> HIDE DEF U, T
  <2>2. QED
    BY <1>1, <1>3, <1>4, <2>1, FS_Subset
<1>6. i <= k /\ k <= i
  BY <1>1, <1>3, <1>5
<1>7. QED
  BY <1>1, <1>6

\* The core keeps the order of the golden set and every declared case.
LEMMA CoreInOrder ==
  ASSUME NEW g, Sequence(g), NEW m \in Nat, NEW n \in Nat
  PROVE  SubsetInOrder(CoreOf(g, m, n), g)
<1> DEFINE core == CoreIndices(g, m, n)
           part == CoreOf(g, m, n)
           f == [k \in DOMAIN part |-> Nth(core, k)]
<1>1. /\ core \in SUBSET Nat /\ IsFiniteSet(core)
      /\ DOMAIN part = 1..Cardinality(core)
      /\ \A k \in DOMAIN part : Nth(core, k) \in DOMAIN g /\ part[k] = g[Nth(core, k)]
  BY CoreTakes
<1>2. Declared(g) \subseteq core
  BY DEF CoreIndices
<1> HIDE DEF core, part
<1>3. f \in [DOMAIN part -> DOMAIN g] /\ \A k \in DOMAIN part : part[k] = g[f[k]]
  BY <1>1
<1>4. \A i, j \in DOMAIN part : i < j => f[i] < f[j]
  BY <1>1, NthGrows
<1>5. Declared(g) \subseteq {f[k] : k \in DOMAIN part}
  BY <1>1, <1>2, NthReaches
<1> HIDE DEF f
<1>6. QED
  BY <1>3, <1>4, <1>5 DEF SubsetInOrder, part

\* A core over its budget holds only declared cases and answers still missing.
LEMMA CoreWithinBudget ==
  ASSUME NEW g, Sequence(g), NEW m \in Nat, NEW n \in Nat,
         Cardinality(CoreIndices(g, m, n)) > m
  PROVE  LET must == Declared(g) \cup EnoughAnswers(g, n)
         IN  CoreIndices(g, m, n) = must
<1> DEFINE must == Declared(g) \cup EnoughAnswers(g, n)
           rest == DOMAIN g \ must
           more == Firsts(rest, m - Cardinality(must))
<1>1. IsFiniteSet(DOMAIN g) /\ DOMAIN g \in SUBSET Nat
  <2>1. DOMAIN g = 1..Len(g) /\ Len(g) \in Nat
    BY DEF Sequence
  <2>2. QED
    BY <2>1, FS_Interval
<1>2. must \subseteq DOMAIN g
  BY DEF Declared, EnoughAnswers, Firsts, AnswersIn
<1>3. CoreIndices(g, m, n) = must \cup more
  BY DEF CoreIndices
<1> HIDE DEF must
<1>4. /\ IsFiniteSet(must) /\ Cardinality(must) \in Nat
      /\ IsFiniteSet(rest) /\ rest \in SUBSET Nat
  BY <1>1, <1>2, FS_Subset, FS_CardinalityType
<1>5. CASE m - Cardinality(must) <= 0
  <2>1. more = {}
    BY <1>4, <1>5, FirstsAreFew
  <2>2. QED
    BY <1>3, <2>1 DEF must
<1>6. CASE m - Cardinality(must) > 0
  <2>1. IsFiniteSet(more) /\ Cardinality(more) <= m - Cardinality(must) /\ Cardinality(more) \in Nat
    BY <1>4, <1>6, FirstsAreFew, FS_CardinalityType
  <2>2. Cardinality(must \cup more) <= Cardinality(must) + Cardinality(more)
    <3>1. /\ Cardinality(must \cup more)
               = Cardinality(must) + Cardinality(more) - Cardinality(must \cap more)
          /\ IsFiniteSet(must \cap more)
      BY <1>4, <2>1, FS_Union, FS_Intersection
    <3>2. QED
      BY <1>4, <2>1, <3>1, FS_CardinalityType
  <2>3. Cardinality(must \cup more) \in Nat
    BY <1>4, <2>1, FS_Union, FS_CardinalityType
  <2>4. QED
    BY <1>3, <1>4, <2>1, <2>2, <2>3
<1>7. QED
  BY <1>4, <1>5, <1>6

\* When answers had to be added, there are no more of them than asked for.
LEMMA AnswersAreFew ==
  ASSUME NEW g, Sequence(g), NEW n \in Nat, EnoughAnswers(g, n) # {}
  PROVE  LET must == Declared(g) \cup EnoughAnswers(g, n)
         IN  /\ IsFiniteSet(AnswersIn(g, must)) /\ Cardinality(AnswersIn(g, must)) <= n
             /\ \A i \in must \ Declared(g) : i \in AnswersIn(g, must)
<1> DEFINE answers == AnswersIn(g, DOMAIN g)
           declared == AnswersIn(g, Declared(g))
           left == answers \ declared
           enough == EnoughAnswers(g, n)
           must == Declared(g) \cup enough
<1>1. IsFiniteSet(DOMAIN g) /\ DOMAIN g \in SUBSET Nat
  <2>1. DOMAIN g = 1..Len(g) /\ Len(g) \in Nat
    BY DEF Sequence
  <2>2. QED
    BY <2>1, FS_Interval
<1>2. /\ IsFiniteSet(declared) /\ Cardinality(declared) \in Nat
      /\ IsFiniteSet(left) /\ left \in SUBSET Nat
  <2>1. declared \subseteq DOMAIN g /\ left \subseteq DOMAIN g
    BY DEF AnswersIn, Declared
  <2>2. QED
    BY <1>1, <2>1, FS_Subset, FS_CardinalityType
<1>3. enough = Firsts(left, n - Cardinality(declared))
  BY DEF EnoughAnswers
<1>4. enough \subseteq left
  BY <1>3 DEF Firsts
<1>5. AnswersIn(g, must) = declared \cup enough
  BY <1>4 DEF AnswersIn, Declared
<1>6. \A i \in must \ Declared(g) : i \in AnswersIn(g, must)
  BY <1>5
<1> HIDE DEF left, declared
<1>7. n - Cardinality(declared) \in Int /\ n - Cardinality(declared) > 0
  BY <1>2, <1>3, FirstsAreFew
<1>8. IsFiniteSet(enough) /\ Cardinality(enough) <= n - Cardinality(declared)
  BY <1>2, <1>3, <1>7, FirstsAreFew
<1> HIDE DEF enough
<1>9. /\ IsFiniteSet(declared \cup enough)
      /\ Cardinality(declared \cup enough)
           = Cardinality(declared) + Cardinality(enough) - Cardinality(declared \cap enough)
      /\ Cardinality(declared \cap enough) \in Nat /\ Cardinality(enough) \in Nat
  BY <1>2, <1>8, FS_Union, FS_Intersection, FS_CardinalityType
<1>10. Cardinality(declared \cup enough) <= n
  BY <1>2, <1>8, <1>9
<1>11. QED
  BY <1>5, <1>6, <1>9, <1>10 DEF enough

\* Counting answers in the core and among its indices gives no more.
LEMMA CoreCounts ==
  ASSUME NEW g, Sequence(g), NEW m \in Nat, NEW n \in Nat,
         NEW b \in Nat,
         IsFiniteSet(AnswersIn(g, CoreIndices(g, m, n))),
         Cardinality(AnswersIn(g, CoreIndices(g, m, n))) <= b
  PROVE  LET part == CoreOf(g, m, n)
         IN  /\ Cardinality(AnswersIn(part, DOMAIN part)) \in Nat
             /\ Cardinality(AnswersIn(part, DOMAIN part)) <= b
<1> DEFINE core == CoreIndices(g, m, n)
           part == CoreOf(g, m, n)
           A == AnswersIn(part, DOMAIN part)
           B == AnswersIn(g, core)
           f == [k \in A |-> Nth(core, k)]
<1>1. /\ core \in SUBSET Nat /\ IsFiniteSet(core)
      /\ DOMAIN part = 1..Cardinality(core) /\ Cardinality(core) \in Nat
      /\ \A k \in DOMAIN part : Nth(core, k) \in core /\ part[k] = g[Nth(core, k)]
  BY CoreTakes
<1>2. A \subseteq DOMAIN part /\ \A k \in A : Nth(core, k) \in B
  BY <1>1 DEF AnswersIn
<1>3. IsFiniteSet(A) /\ Cardinality(A) \in Nat
  <2>1. IsFiniteSet(DOMAIN part)
    BY <1>1, FS_Interval
  <2>2. QED
    BY <1>2, <2>1, FS_Subset, FS_CardinalityType
<1>4. IsFiniteSet(B) /\ Cardinality(B) \in Nat /\ Cardinality(B) <= b
  BY FS_CardinalityType
<1>5. ASSUME Cardinality(B) < Cardinality(A) PROVE FALSE
  <2> HIDE DEF A, B, core, part
  <2>1. f \in [A -> B]
    BY <1>2
  <2>2. PICK i \in A, k \in A : i # k /\ f[i] = f[k]
    <3> HIDE DEF f
    <3>1. QED
      BY <1>3, <1>4, <1>5, <2>1, FS_PigeonHole, Zenon
  <2>3. i \in 1..Cardinality(core) /\ k \in 1..Cardinality(core) /\ Nth(core, i) = Nth(core, k)
    BY <1>1, <1>2, <2>2
  <2>4. i < k \/ k < i
    BY <1>1, <2>2, <2>3
  <2>5. Nth(core, i) \in Nat
    BY <1>1, <1>2
  <2>6. QED
    BY <1>1, <2>3, <2>4, <2>5, NthGrows
<1> HIDE DEF A, B
<1>6. QED
  BY <1>3, <1>4, <1>5 DEF A

(***************************************************************************)
(* select_core, for every golden set and every budget: order kept, declared *)
(* cases kept, answers enough, and over budget only when it must be.       *)
(***************************************************************************)
THEOREM CoreSoundness ==
  ASSUME NEW g, Sequence(g), NEW m \in Int, NEW n \in Int, ~CoreRejected(g, m, n)
  PROVE  LET part == CoreOf(g, m, n)
             answers == AnswersIn(part, DOMAIN part)
         IN  /\ SubsetInOrder(part, g)
             /\ Cardinality(answers) >= n
             /\ Len(part) > m => \A i \in DOMAIN part \ Declared(part) :
                                   i \in answers /\ Cardinality(answers) = n
<1> DEFINE core == CoreIndices(g, m, n)
           part == CoreOf(g, m, n)
           answers == AnswersIn(part, DOMAIN part)
           must == Declared(g) \cup EnoughAnswers(g, n)
<1>0. m \in Nat \ {0} /\ n \in Nat \ {0}
  BY DEF CoreRejected
<1> USE <1>0
<1>1. SubsetInOrder(part, g)
  BY CoreInOrder
<1>2. /\ core \in SUBSET Nat /\ IsFiniteSet(core) /\ core \subseteq DOMAIN g
      /\ DOMAIN part = 1..Cardinality(core) /\ Cardinality(core) \in Nat
      /\ \A k \in DOMAIN part : Nth(core, k) \in core /\ part[k] = g[Nth(core, k)]
  <2>1. m \in Nat /\ n \in Nat
    OBVIOUS
  <2>2. core \in SUBSET Nat /\ IsFiniteSet(core) /\ core \subseteq DOMAIN g
    BY <2>1, CoreTakes
  <2>3. DOMAIN part = 1..Cardinality(core) /\ Cardinality(core) \in Nat
    BY <2>1, CoreTakes
  <2>4. \A k \in DOMAIN part : Nth(core, k) \in core /\ part[k] = g[Nth(core, k)]
    BY <2>1, CoreTakes
  <2>5. QED
    BY <2>2, <2>3, <2>4
<1>3. Cardinality(answers) \in Nat
  <2>1. IsFiniteSet(AnswersIn(g, core))
    BY <1>2, FS_Subset DEF AnswersIn
  <2>2. Cardinality(AnswersIn(g, core)) \in Nat
    BY <2>1, FS_CardinalityType
  <2>3. QED
    BY <2>1, <2>2, CoreCounts
<1>4. Cardinality(answers) >= n
  BY <1>3 DEF CoreRejected
<1>5. ASSUME Len(part) > m, NEW i \in DOMAIN part \ Declared(part)
      PROVE  i \in answers /\ Cardinality(answers) = n
  <2>1. Len(part) = Cardinality(core)
    <3>1. part \in Seq({part[k] : k \in DOMAIN part})
      BY CoreSequence DEF Sequence
    <3> HIDE DEF part, core
    <3>2. QED
      BY <1>2, <3>1
  <2>2. core = must
    BY <1>5, <2>1, CoreWithinBudget
  <2>3. Nth(core, i) \in must \ Declared(g)
    BY <1>2, <2>2 DEF Declared
  <2>4. EnoughAnswers(g, n) # {}
    BY <2>3
  <2>5. /\ IsFiniteSet(AnswersIn(g, must)) /\ Cardinality(AnswersIn(g, must)) <= n
        /\ Nth(core, i) \in AnswersIn(g, must)
    BY <2>3, <2>4, AnswersAreFew
  <2>6. i \in answers
    BY <1>2, <2>5 DEF AnswersIn
  <2>7. Cardinality(answers) <= n
    BY <2>2, <2>5, CoreCounts
  <2>8. QED
    BY <1>3, <1>4, <2>6, <2>7
<1>6. QED
  BY <1>1, <1>4, <1>5

(***************************************************************************)
(* The run goes on with a core of that kind (core_only).                   *)
(***************************************************************************)
THEOREM SoundCore == Spec => CoreIsSound
<1>1. IInv /\ [Next]_vars
        => [request.core /\ stage = "called" /\ stage' = "running" => SoundCoreOf(golden', golden)]_vars
  <2> SUFFICES ASSUME IInv, Next, request.core, stage = "called", stage' = "running"
               PROVE  SoundCoreOf(golden', golden)
    OBVIOUS
  <2>1. Begin
    BY DEF Next, Begin, RunnerFails, RunCase, JudgeAnswers, JudgeUnavailable, JudgeRaises, Reported,
           Cancelled, Finish
  <2>2. /\ ~CoreRejected(golden, request.max, request.min)
        /\ golden' = CoreOf(golden, request.max, request.min)
    BY <2>1 DEF Begin, Abort
  <2>3. Sequence(golden) /\ request.max \in Int /\ request.min \in Int
    BY EvalAssumption DEF IInv, Counted
  <2>4. QED
    BY <2>2, <2>3, CoreSoundness DEF SoundCoreOf
<1>2. QED
  BY <1>1, Inductive, PTL DEF Spec, CoreIsSound

=============================================================================
