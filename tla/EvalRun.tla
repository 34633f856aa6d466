------------------------------- MODULE EvalRun -------------------------------
(***************************************************************************)
(* EvalHarness.run(): one evaluation of an agent on a golden set.  Each    *)
(* await (runner, judge, progress callback) is a step of its own; what the *)
(* code does between two awaits is one action.  The agent runner, the      *)
(* judge's verdicts and the callback are the environment.                  *)
(***************************************************************************)
EXTENDS Scorecards

CONSTANTS Requests,   \* calls of run(): [golden, core, max, min, judging, threshold]
          CaseRuns    \* what runner.run_case may return: [answer, events]

ASSUME EvalAssumption ==
  /\ Unit \in Nat \ {0}
  /\ \A r \in Requests :
       /\ r.max \in Int /\ r.min \in Int
       /\ r.golden \in Seq({r.golden[i] : i \in DOMAIN r.golden})
       /\ \A i \in DOMAIN r.golden : IsFiniteSet(r.golden[i].cites)

VARIABLES stage,      \* which await the run is at, or how it ended
          request,    \* the arguments
          golden,     \* the cases the run goes through
          results,    \* results so far
          scoredIds,  \* scored_case_ids
          scored,     \* the result the judge is being asked about
          card,       \* the scorecard, once computed
          runs,       \* history: what the runner returned, case by case
          asked       \* history: indices of cases the judge was asked about

vars == <<stage, request, golden, results, scoredIds, scored, card, runs, asked>>
arguments == <<request, golden>>

Stages == {"called", "running", "judging", "reporting", "done", "aborted"}
NoResult == [id |-> NoTenant, refusal |-> FALSE, success |-> FALSE, citation |-> 0,
             outcome |-> "fail_unobserved"]
NoCard == [results |-> <<>>, scored |-> 0, citation |-> 0, verdict |-> "none"]

Index == Len(runs)
Case(i) == golden[i]

Init == /\ stage = "called"
        /\ request \in Requests
        /\ golden = request.golden
        /\ results = <<>>
        /\ scoredIds = {}
        /\ scored = NoResult
        /\ card = NoCard
        /\ runs = <<>>
        /\ asked = {}
-----------------------------------------------------------------------------
Abort == stage' = "aborted"

\* core_only cuts the set down to its core, or fails.
Begin ==
  /\ stage = "called"
  /\ \/ ~request.core /\ stage' = "running" /\ UNCHANGED golden
     \/ /\ request.core /\ CoreRejected(golden, request.max, request.min)
        /\ Abort /\ UNCHANGED golden
     \/ /\ request.core /\ ~CoreRejected(golden, request.max, request.min)
        /\ stage' = "running"
        /\ golden' = CoreOf(golden, request.max, request.min)
  /\ UNCHANGED <<request, results, scoredIds, scored, card, runs, asked>>

\* results.append and, on the answer branch, scored_case_ids.add.
Record(i, result) ==
  /\ results' = Append(results, result)
  /\ scoredIds' = IF ExpectsRefusal(Case(i)) THEN scoredIds
                  ELSE scoredIds \cup {Case(i).id}
  /\ stage' = "reporting"

MoreCases == Len(runs) < Len(golden)
NextCase == Case(Len(runs) + 1)

\* run_case raises (or is cancelled), or tenant_ids lacks the tenant: the run is lost.
RunnerFails ==
  /\ stage = "running"
  /\ MoreCases
  /\ Abort
  /\ UNCHANGED <<arguments, results, scoredIds, scored, card, runs, asked>>

\* run_case returns and the case is checked against C-1, scored, maybe sent on.
RunCase(run) ==
  /\ stage = "running"
  /\ MoreCases
  /\ NextCase.tenant \in DOMAIN TenantIds
  /\ runs' = Append(runs, run)
  /\ LET result == ScoreCaseRun(NextCase, run)
     IN  \/ /\ Forged(run.events) # {}
            /\ Abort
            /\ UNCHANGED <<results, scoredIds, scored, asked>>
         \/ /\ Forged(run.events) = {}
            /\ request.judging /\ MayAskJudge(NextCase, run, result)
            /\ stage' = "judging"
            /\ scored' = result
            /\ asked' = asked \cup {Len(runs) + 1}
            /\ UNCHANGED <<results, scoredIds>>
         \/ /\ Forged(run.events) = {}
            /\ ~(request.judging /\ MayAskJudge(NextCase, run, result))
            /\ Record(Len(runs) + 1, result)
            /\ UNCHANGED <<scored, asked>>
  /\ UNCHANGED <<arguments, card>>

JudgeAnswers(verdict) ==
  /\ stage = "judging"
  /\ Record(Index, Judged(scored, verdict))
  /\ scored' = NoResult
  /\ UNCHANGED <<arguments, card, runs, asked>>

\* JudgeUnavailable: fall back to the exact-match result already computed.
JudgeUnavailable ==
  /\ stage = "judging"
  /\ Record(Index, scored)
  /\ scored' = NoResult
  /\ UNCHANGED <<arguments, card, runs, asked>>

M_JudgeRaises ==
  /\ stage = "judging"
  /\ stage' = "running"
  /\ scored' = NoResult
  /\ UNCHANGED <<arguments, results, scoredIds, card, runs, asked>>
\* Anything else judge() raises (OSError, UnicodeDecodeError, CancelledError) is not
\* caught, and the run is lost with what was paid for it.
JudgeRaises ==
  /\ stage = "judging"
  /\ Abort
  /\ UNCHANGED <<arguments, results, scoredIds, scored, card, runs, asked>>

M_Reported ==
  /\ stage = "reporting"
  /\ \/ stage' = "running" /\ UNCHANGED card
     \/ stage' = "done" /\ card' = Scorecard(results, scoredIds, request.threshold)
  /\ UNCHANGED <<arguments, results, scoredIds, scored, runs, asked>>
\* on_progress returns or raises an Exception: the run goes on either way.
Reported ==
  /\ stage = "reporting"
  /\ stage' = "running"
  /\ UNCHANGED <<arguments, results, scoredIds, scored, card, runs, asked>>

\* CancelledError is not an Exception: at the callback it ends the run.
Cancelled ==
  /\ stage = "reporting"
  /\ Abort
  /\ UNCHANGED <<arguments, results, scoredIds, scored, card, runs, asked>>

Finish ==
  /\ stage = "running"
  /\ ~MoreCases
  /\ IF ComputeRejected(results, scoredIds)
     THEN Abort /\ UNCHANGED card
     ELSE stage' = "done" /\ card' = Scorecard(results, scoredIds, request.threshold)
  /\ UNCHANGED <<arguments, results, scoredIds, scored, runs, asked>>

Next == \/ Begin
        \/ RunnerFails
        \/ \E run \in CaseRuns : RunCase(run)
        \/ \E verdict \in BOOLEAN : JudgeAnswers(verdict)
        \/ JudgeUnavailable
        \/ JudgeRaises
        \/ Reported
        \/ Cancelled
        \/ Finish

Spec == Init /\ [][Next]_vars
-----------------------------------------------------------------------------
(***************************************************************************)
(* Properties.                                                             *)
(***************************************************************************)
Recorded == DOMAIN results
Plain(i) == ScoreCaseRun(Case(i), runs[i])
Passed == card.verdict = "PASS"

\* Every variable has its type; results, ids and history are in step.
TypeOK ==
  /\ stage \in Stages
  /\ request \in Requests
  /\ \A i \in Recorded : /\ results[i].outcome \in Outcomes
                         /\ results[i].citation \in 0..Unit
                         /\ results[i].id = Case(i).id
                         /\ results[i].refusal = ExpectsRefusal(Case(i))
  /\ scoredIds \subseteq {Case(i).id : i \in Recorded}
  /\ runs \in Seq(CaseRuns) /\ Len(runs) <= Len(golden)
  /\ Len(runs) - Len(results) = (IF stage = "judging" THEN 1 ELSE 0) \/ stage = "aborted"
  /\ asked \subseteq DOMAIN runs
  /\ card.verdict \in {"none", "PASS", "FAIL"}

(***************************************************************************)
(* The fence is an absolute gate (compute_scorecard, khong_ro_ri): with    *)
(* any thresholds and any judge, a scorecard passes only when on every     *)
(* trap case whose retrieval could be read each chunk was of the asker's   *)
(* own tenant and, if that tenant holds the answer, of a role he has.      *)
(***************************************************************************)
Fenced(i) ==
  \A k \in ChunksOf(runs[i].events) :
    /\ k.tenant = TenantIds[Case(i).tenant]
    /\ Case(i).expTenant = Case(i).tenant => k.role \in Case(i).roles

LeakNeverPasses ==
  Passed => \A i \in Recorded :
    ExpectsRefusal(Case(i)) /\ ChunksObserved(runs[i].events) => Fenced(i)

(***************************************************************************)
(* DEC-05, no trace no proof: no case without events ends up a success,    *)
(* and no judge call is spent on one, whatever the judge would say.        *)
(***************************************************************************)
NoTraceNoSuccess ==
  /\ \A i \in Recorded : results[i].success => runs[i].events # {}
  /\ \A i \in asked : runs[i].events # {}

(***************************************************************************)
(* What the judge may do to the exact-match results (_hoi_judge, INV-7):   *)
(* nothing, or turn a failed answer into a passed one, reason included.    *)
(***************************************************************************)
JudgeOnlyRescuesAnswers ==
  \A i \in Recorded : results[i] # Plain(i) =>
    /\ i \in asked
    /\ ~Plain(i).refusal /\ ~Plain(i).success
    /\ results[i] = [Plain(i) EXCEPT !.success = TRUE, !.outcome = "pass_answer"]

(***************************************************************************)
(* A refusal is never turned into evidence it is not: on trap cases        *)
(* success, outcome and what was observed tell one story, and only an      *)
(* observed clean fence passes (score_case, _refusal_outcome).             *)
(***************************************************************************)
RefusalsAreProved ==
  \A i \in Recorded : results[i].refusal =>
    /\ results[i].success => /\ runs[i].answer.refused
                             /\ ChunksObserved(runs[i].events)
                             /\ Fenced(i)
    /\ results[i].success <=> results[i].outcome = "pass_refusal"
    /\ ChunksObserved(runs[i].events) /\ ~Fenced(i) => results[i].outcome = "fail_leak"

(***************************************************************************)
(* A scorecard speaks of every case of the set, in order: a judge or a     *)
(* progress call that failed on the way costs no case its result.  And a   *)
(* core run averages citation accuracy over its answer cases exactly:      *)
(* select_core turned away ids that would mix trap cases in.               *)
(***************************************************************************)
CardMeasuresTheSet ==
  stage = "done" =>
    /\ [i \in DOMAIN card.results |-> card.results[i].id] = [i \in DOMAIN golden |-> Case(i).id]
    /\ request.core => card.scored = Cardinality(AnswersIn(golden, DOMAIN golden))

(***************************************************************************)
(* select_core: no declared case is dropped, there are answers enough, the *)
(* set keeps its order, and it outgrows the budget only for declared cases *)
(* and the answers still missing.                                          *)
(***************************************************************************)
SubsetInOrder(part, whole) ==
  \E f \in [DOMAIN part -> DOMAIN whole] :
    /\ \A i, j \in DOMAIN part : i < j => f[i] < f[j]
    /\ \A i \in DOMAIN part : part[i] = whole[f[i]]
    /\ Declared(whole) \subseteq {f[i] : i \in DOMAIN part}

SoundCoreOf(part, whole) ==
  LET answers == AnswersIn(part, DOMAIN part)
  IN  /\ SubsetInOrder(part, whole)
      /\ Cardinality(answers) >= request.min
      /\ Len(part) > request.max =>
           \A i \in DOMAIN part \ Declared(part) :
             i \in answers /\ Cardinality(answers) = request.min

CoreIsSound ==
  [][request.core /\ stage = "called" /\ stage' = "running" => SoundCoreOf(golden', golden)]_vars

(***************************************************************************)
(* C-1: a scorecard is never computed from a trace in which a node other   *)
(* than an llm-step carries citations.                                     *)
(***************************************************************************)
NoCardFromForgedTrace ==
  stage = "done" => \A i \in DOMAIN runs : \A e \in runs[i].events :
                      e.citations # {} => e.node = "llm-step"

(***************************************************************************)
(* A golden set of traps alone never passes: the citation axis was not     *)
(* measured, and unmeasured is not good enough (DEC-04).                   *)
(***************************************************************************)
TrapsAloneNeverPass == Passed => AnswersIn(golden, DOMAIN golden) # {}

(***************************************************************************)
(* harness.py:291 "outcome never contradicts success".                     *)
(***************************************************************************)
OutcomeNeverContradicts ==
  \A i \in Recorded :
    results[i].success <=> results[i].outcome \in {"pass_answer", "pass_refusal"}
=============================================================================
