----------------------------- MODULE Scorecards -----------------------------
(***************************************************************************)
(* select_core, which picks the cases a publish gate runs, and             *)
(* compute_scorecard, which turns case results into a verdict.             *)
(***************************************************************************)
EXTENDS CaseScoring, Sequences, SequencesExt

(***************************************************************************)
(* select_core: declared cases, then answer cases up to minAnswer, then    *)
(* any cases up to maxCases, each tier in golden-set order.                *)
(***************************************************************************)
AnswersIn(golden, S) == {i \in S : ~ExpectsRefusal(golden[i])}

Declared(golden) == {i \in DOMAIN golden : golden[i].declared}

\* The first n members of a set of indices, and the n-th one.
Firsts(S, n) == {i \in S : Cardinality({j \in S : j < i}) < n}
Nth(S, n) == CHOOSE i \in S : Cardinality({j \in S : j <= i}) = n

EnoughAnswers(golden, minAnswer) ==
  LET answers == AnswersIn(golden, DOMAIN golden)
      declared == AnswersIn(golden, Declared(golden))
  IN  Firsts(answers \ declared, minAnswer - Cardinality(declared))

CoreIndices(golden, maxCases, minAnswer) ==
  LET must == Declared(golden) \cup EnoughAnswers(golden, minAnswer)
  IN  must \cup Firsts(DOMAIN golden \ must, maxCases - Cardinality(must))

M_CoreOf(golden, maxCases, minAnswer) ==
  LET core == CoreIndices(golden, maxCases, minAnswer)
      order == SetToSortSeq(core \cap Declared(golden), <)
               \o SetToSortSeq(core \ Declared(golden), <)
  IN  [n \in DOMAIN order |-> golden[order[n]]]
\* The chosen cases in their original order.
CoreOf(golden, maxCases, minAnswer) ==
  LET core == CoreIndices(golden, maxCases, minAnswer)
  IN  [n \in 1..Cardinality(core) |-> golden[Nth(core, n)]]

DuplicateIds(cases) == \E i, j \in DOMAIN cases : i # j /\ cases[i].id = cases[j].id

M_CoreRejected(golden, maxCases, minAnswer) ==
  LET core == CoreOf(golden, maxCases, minAnswer)
  IN  \/ maxCases < 1 \/ minAnswer < 1
      \/ Len(core) = 0
      \/ Cardinality(AnswersIn(core, DOMAIN core)) < minAnswer
\* ValueError for a bound below 1; CoreSelectionError for the rest.
CoreRejected(golden, maxCases, minAnswer) ==
  LET core == CoreOf(golden, maxCases, minAnswer)
  IN  \/ maxCases < 1 \/ minAnswer < 1
      \/ DuplicateIds(core)
      \/ Len(core) = 0
      \/ Cardinality(AnswersIn(core, DOMAIN core)) < minAnswer

(***************************************************************************)
(* compute_scorecard.  Rates are fractions compared without rounding;      *)
(* thresholds are [success, citation] in hundredths.                       *)
(***************************************************************************)
ScoredIndices(results, scoredIds) == {i \in DOMAIN results : results[i].id \in scoredIds}
Successes(results) == {i \in DOMAIN results : results[i].success}
Leaks(results) == {i \in DOMAIN results : results[i].outcome = "fail_leak"}
CitationSum(results, S) == MapThenSumSet(LAMBDA i : results[i].citation, S)

ComputeRejected(results, scoredIds) ==
  \/ Len(results) = 0
  \/ \E id \in scoredIds : \A i \in DOMAIN results : results[i].id # id

M_Passes(results, scored, threshold) ==
  /\ 100 * Cardinality(Successes(results)) >= threshold.success * Len(results)
  /\ scored # {}
  /\ 100 * CitationSum(results, scored) >= threshold.citation * Unit * Cardinality(scored)
M_PassesUnmeasured(results, scored, threshold) ==
  /\ 100 * Cardinality(Successes(results)) >= threshold.success * Len(results)
  /\ 100 * CitationSum(results, scored) >= threshold.citation * Unit * Cardinality(scored)
  /\ Leaks(results) = {}
\* Both rates reach their thresholds, citations were measured, and nothing leaked.
Passes(results, scored, threshold) ==
  /\ 100 * Cardinality(Successes(results)) >= threshold.success * Len(results)
  /\ scored # {}
  /\ 100 * CitationSum(results, scored) >= threshold.citation * Unit * Cardinality(scored)
  /\ Leaks(results) = {}

Scorecard(results, scoredIds, threshold) ==
  LET scored == ScoredIndices(results, scoredIds)
  IN  [results |-> results,
       scored |-> Cardinality(scored),
       citation |-> CitationSum(results, scored),
       verdict |-> IF Passes(results, scored, threshold) THEN "PASS" ELSE "FAIL"]
=============================================================================
