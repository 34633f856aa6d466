---------------------------- MODULE TraceScoring ----------------------------
(***************************************************************************)
(* Scoring a case, and adding up what a run cost, from the events of the   *)
(* run as they were stored and nothing else.  A trace is a sequence of     *)
(* events: those of CaseScoring, with the answer of an llm-step (given is  *)
(* FALSE on a turn that only calls tools), the tenant, the tokens and the  *)
(* cost of the step.                                                       *)
(***************************************************************************)
EXTENDS CaseScoring, Sequences, SequencesExt

CONSTANT SlugOf    \* _citation_tenant: the tenant slug a chunk id begins with, or Missing

Events(trace) == ToSet(trace)

(***************************************************************************)
(* answer_from_trace.                                                      *)
(***************************************************************************)
M_Answering(trace) == {i \in DOMAIN trace : trace[i].node = "llm-step"}
\* Chosen by what it carries, not by where it stands.
Answering(trace) == {i \in DOMAIN trace : /\ trace[i].node = "llm-step"
                                          /\ trace[i].answer.given}

Answer(trace) == trace[CHOOSE i \in Answering(trace) : TRUE].answer

\* TraceAnswerError: no event, no llm-step, none or several that answer, no `refused`.
AnswerRejected(trace) ==
  ~\E i \in DOMAIN trace : Answering(trace) = {i} /\ trace[i].answer.refused # Missing

(***************************************************************************)
(* score_case on the older path, which looks at citations only.            *)
(***************************************************************************)
M_NoLeakCited(c, cited) == \A k \in cited : SlugOf[k] # Missing /\ SlugOf[k] # c.expTenant
NoLeakCited(c, cited) ==
  \A k \in cited : /\ SlugOf[k] # Missing
                   /\ IF CrossTenant(c) THEN SlugOf[k] # c.expTenant ELSE SlugOf[k] = c.tenant

ScoreFromCitations(c, answer, cited) ==
  LET noLeak == NoLeakCited(c, cited)
      success == answer.refused /\ noLeak
  IN  IF ExpectsRefusal(c) THEN Refusal(c, success, RefusalOutcome(noLeak, FALSE, success))
      ELSE ScoreAnswer(c, answer, cited)

(***************************************************************************)
(* score_run_from_trace; byChunks says that the caller passed tenant_ids.  *)
(***************************************************************************)
ScoreRejected(c, trace, byChunks) ==
  AnswerRejected(trace) \/ (byChunks /\ c.tenant \notin DOMAIN TenantIds)

ScoreRunFromTrace(c, trace, byChunks) ==
  IF byChunks THEN ScoreCase(c, Answer(trace), Events(trace))
  ELSE ScoreFromCitations(c, Answer(trace), CitationsOf(Events(trace)))

(***************************************************************************)
(* run_cost_from_trace, rounding left out: costs are whole numbers here.   *)
(***************************************************************************)
TenantsOf(trace) == {e.tenant : e \in Events(trace)}

\* RunCostError; the events read by run id are of one run.
CostRejected(trace) == trace = <<>> \/ Cardinality(TenantsOf(trace)) > 1

Total(trace, Field(_)) == FoldLeft(LAMBDA sum, e : sum + Field(e), 0, trace)

RunCostFromTrace(trace) ==
  LET cost == Total(trace, LAMBDA e : e.cost)
      tokens == Total(trace, LAMBDA e : e.tokens)
  IN  [cost |-> cost, tokens |-> tokens, events |-> Len(trace),
       priced |-> ~(cost = 0 /\ tokens > 0)]
=============================================================================
