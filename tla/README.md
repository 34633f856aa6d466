# A verification of `agentcore-studio-evalhub`

TLA+ models of the evaluation hub: the package that loads, merges and stores golden sets, runs
an agent over one, scores each case from the answer and the execution trace, asks an LLM judge
about paraphrases under a daily quota, turns the results into a scorecard that decides whether a
recipe may be published, keeps evaluation jobs and scorecards in PostgreSQL, records and replays
paid LLM calls, and reports on stored runs. TLC checks the models on small instances; TLAPS
proves the safety of the judge, the stores, the golden sets, replaying, the evaluation run and
the trace report for every instance.

All source paths below are under `src/src/studio_evalhub/`.

    tlc -workers 2 -config MCJudge.cfg MCJudge        # one run; PROJECT.json lists them all
    for m in Judge EvalService GoldenMerge GoldenSets Replay EvalRun TraceReport; do
      tlapm ${m}_proofs.tla
    done

## 1. Inventory

| Component | State | Operations | What is hard | What makes it correct |
|---|---|---|---|---|
| LLM judge (`judge.py`) | verdict cache file, daily counter file, a lock per pair of paths | `judge()` | tasks interleave at the provider's await; the provider raises, times out, answers neither PASS nor FAIL; a task is cancelled; a write is cut short; the process dies; midnight | never more than the cap of charged answers a day; no answer paid for twice; no verdict lost or given to another answer; an unreadable counter stops the judge; the lock is always released |
| Case scoring (`harness.py`, `golden_case.py`, `agent_runner.py`) | none | `score_case`, `_score_case_run`, trace readers | traces that are absent, unreadable in part, or forged; two kinds of trap (other tenant, other role) | a success has evidence; a leak is called a leak; a refusal is not credited without a retrieval to look at |
| Core selection (`core_set.py`) | none | `select_core` | three tiers compete for one budget | declared cases stay, enough answer cases, original order |
| Scorecard (`compute.py`) | none | `compute_scorecard` | joins results to scored ids; an axis with no sample; averages that hide one leak | one leak fails the card under any threshold; an unmeasured axis fails it |
| Evaluation run (`harness.py`) | results so far, scored ids | `EvalHarness.run`, `run_smoke` | runner, judge and callback may fail or be cancelled between any two cases | the judge may only rescue failed answers that left a trace; no card from a bad trace, nor one that lacks a case |
| Evaluation jobs (`eval_job_store.py`, `schema.py`) | table `eval.eval_jobs` | create, progress, finish, fail, read, sweep | the process dies under a job; an instance that starts sweeps jobs of one that lives | ended jobs stay ended; a sweep spares jobs that report; every job ends |
| Pending scorecards (`scorecard_store.py`, `schema.py`) | table `eval.scorecards` | upsert, read, drop | overlapping evaluations of one recipe; documents change under an evaluation; two tenants in one table | one pending score per recipe; a done job has its score; a certificate was earned and is never touched |
| Golden set store (`golden_store.py`, `schema.py`) | table `eval.golden_sets` | write, list, read, delete | each call is a scope check and then a statement that names no tenant; an unset session reads an empty table, not an error | each tenant has a catalogue of its own, and every call takes effect on it at once |
| Golden set loading and merge (`golden_loader.py`, `golden_merge.py`) | none | load, merge | fence cases ask one question under several roles; pairs are decided in the order of the sets | every question once, in order, from a case somebody wrote; a human's case wins; two sets in either order give the same |
| No-knowledge-base set (`no_kb_golden.py`) | none | a constant golden set | - | - |
| Agreement, Wilson (`agreement.py`, `wilson.py`) | none | agreement of labels, interval | two maps by case id; labels may be missing, or any string | a missing label counts for nothing; an unknown word stops the measurement |
| Record and replay (`replay.py`) | fixture file, what a player has loaded | record, replay | calls overlap at the provider's await; the whole file is rewritten, truncated first; players read it meanwhile | a replay gives what was paid for, always the same; a file that can be read lacks no call that returned |
| Trace report (`run_report.py`) | what it has read of each run | list runs; answer, score and cost from a stored trace | the engine still writes the run; row security hides the table; the older citation path | the verdict is that of the live run, or there is none; one reading per run; a list is never silently empty |
| Rendering, command line (`render.py`, `cli.py`) | none | text | - | - |

How they interact: `EvalHarness.run` calls the agent runner (a protocol; the real one lives in
another repository), scores the case, asks the judge, reports progress, and at the end calls
`compute_scorecard`. An application route runs it as a background task: it creates a job,
passes `record_job_progress` as the progress callback, writes the pending scorecard, and
finishes the job. The Publish route reads the pending scorecard; the ingestion of documents
drops the tenant's pending scorecards. Two evaluations that overlap meet in the judge's files
and in the two tables. The routes are not in this repository; how they use the stores is taken
from the stores' docstrings and tests, and mapped as external.
A golden set comes from files through the loader and the merge into its table, and from there,
read by the Evaluate route, into `EvalHarness.run`. `RecordingLLM` and `ReplayLLM` stand where
the agent or the judge expects an LLM client. The engine (another repository) stores the trace
of each run in `obs.trace_events`, which the report reads.

## 2. The modules

| Module | Models | EXTENDS |
|---|---|---|
| `DailyQuota` | what the judge promises about money: at most `Cap` answers per counter file between two restarts of the count | - |
| `Judge` | `LLMJudge.judge()`, its two files and its lock | - |
| `GoldenCases` | what a golden case says of itself, and what a list shows of a set | - |
| `CaseScoring` | trace readers, `score_case` by retrieved chunks, `_score_case_run`, which cases go to the judge | `GoldenCases` |
| `Scorecards` | `select_core`, `compute_scorecard` | `CaseScoring` |
| `EvalRun` | `EvalHarness.run` | `Scorecards` |
| `RowSecurity` | the tenant policy of the tables | - |
| `EvalJobs` | `eval.eval_jobs` and its statements | `RowSecurity` |
| `PendingScores` | `eval.scorecards` and its statements | `RowSecurity` |
| `EvalService` | tasks, instances, Publish and documents over the two tables | `EvalJobs`, `PendingScores` |
| `GoldenMerge` | `merge_golden_sets` | - |
| `Agreement` | `nhan_tu_golden_set`, `agreement` | `GoldenCases` |
| `GoldenCatalogue` | what the golden-set store promises: a catalogue per tenant | - |
| `GoldenSets` | `eval.golden_sets`, its author and its callers | `GoldenMerge`, `Agreement`, `RowSecurity` |
| `Replay` | `RecordingLLM`, `ReplayLLM`, the fixture file | - |
| `TraceScoring` | answer, score (on both paths) and cost from a stored trace | `CaseScoring` |
| `TraceReport` | the report command, next to an engine that writes | `TraceScoring` |
| `Judge_proofs`, `EvalRun_proofs`, `EvalService_proofs`, `GoldenMerge_proofs`, `GoldenSets_proofs`, `Replay_proofs`, `TraceReport_proofs` | theorems | the module each is named for; `GoldenSets_proofs` also `GoldenMerge_proofs` |
| `MCJudge`, `MCEvalRun`, `MCEvalService`, `MCGoldenSets`, `MCReplay`, `MCTraceReport` | the instances TLC checks | the module each is named for |

Operators whose name starts with `M_` are faulty variants of their neighbours. No specification
uses them: each stands for a plausible bug (a dropped guard, a missing reset) that the property
it is listed with in `PROJECT.json` must detect.

### Judge

`judge()` awaits twice: for the lock and for the provider. Between awaits asyncio runs nothing
else, so the code up to the provider call is one action, `Enter`, and the code after it another,
`Reply`.

| Model | Code |
|---|---|
| `Call` | the caller reaches `async with` of the lock: takes it when free and nobody waits, else joins the FIFO queue |
| `Enter` | cache look-up, counter read, cap check; ends with a cached verdict, `cap`, an unreadable file, or in the provider call |
| `Reply` | the provider's outcome: a verdict (charge, store), an answer without a verdict (charge only), an exception (neither) |
| `CancelWaiting`, `CancelCalling` | `CancelledError` at either await |
| `StateUnreadable` (in `Enter`) | a file that does not parse ends the call with `STATE_UNREADABLE`; a cache file cut inside a character may instead raise `UnicodeDecodeError`, which `_doc_json` does not catch (the counter file is ASCII) |
| `WriteFails`, `CrashWriting` | `write_text` truncates before it writes, so an `OSError` or a crash leaves a file that does not parse |
| `Crash` | tasks, locks and results are gone, files stay |
| `NextDay` | `_hom_nay()` changes |
| `RemoveCounter`, `RemoveCache` | a person deletes an unreadable file |

Time of day, prompts and the text of verdicts are abstracted; a verdict is `PASS` or `FAIL`.

### CaseScoring, Scorecards, EvalRun

A trace is the set of its events. An event carries its node, its citations and, for
`kb-retrieve`, the chunks that came back or the fact that they do not parse. Whether an answer
contains the expected phrase, and whether it is a refusal, are Booleans of the answer: they are
text matching. Rates are fractions compared without rounding; the code uses floats.

`EvalRun` has one action per stretch between two awaits: `Begin` (core selection, or its
refusal: a bound below 1, repeated ids, too few answer cases), `RunCase`
(the runner answered; the case is checked for forged citations, scored and perhaps sent to the
judge), `RunnerFails`, `JudgeAnswers`, `JudgeUnavailable`, `JudgeRaises`, `Reported` and
`Cancelled` (the progress callback), `Finish`. Runner, judge and callback are free: they may
return anything the types allow. `JudgeRaises` is all of `judge()`'s exceptions but
`JudgeUnavailable`: the run is lost, and no scorecard comes of it.

### RowSecurity, EvalJobs, PendingScores, EvalService

Each operation of a store is one SQL statement, hence one atomic step, and sees the rows that
`Visible` gives its session: those of the session's tenant, none when `app.tenant_id` is unset.
An `UPDATE` that matches no row changes nothing. The upsert on the partial unique index is
`Upserted`: the pending row of the same tenant and recipe is replaced.

`EvalService` adds what the stores' documentation says of their callers: a task creates its job,
reports each case (a report that fails is ignored, as `EvalHarness.run` does), writes the pending
score and then finishes the job, or fails it. Publish turns a pending PASS into the next version.
A change of documents drops the tenant's pending scores. `Crash` kills the tasks of the instance;
`Start` is either the dead instance starting again or a new one replacing a live one, and it
sweeps. The clock is the database's.

### GoldenMerge, Agreement, GoldenSets

An author's program loads files (`LoadGoldenSet`; a file of another name, or with a case that
does not validate, ends it), merges what it loaded (`MergeGoldenSets`; a conflict ends it) and
writes the outcome. `Normal` stands for `normalize_query`: which queries are one question. The
merge is a left fold over all the cases, as the loop is.

A call of the store is two statements: `AssertScope`, which compares the session with the
tenant the caller names, and one of `ListGoldenSets`, `ReadGoldenSet`, `DeleteGoldenSet`,
`WriteGoldenSet`. Statements of other connections come in between. None of the second
statements names a tenant: row security picks the rows. A session may be any tenant's or unset.

`GoldenCatalogue` is the promise: the call is refused or takes effect at once on the catalogue
of its tenant. The refinement maps the rows of a tenant and a name to their set of cases.

### Replay

| Model | Code |
|---|---|
| `Complete`, `ProviderFails`, `ProviderAnswers` | `RecordingLLM.complete` up to its await and after it; reading the fixture, the key (`json.dumps` may raise `TypeError`) or `mkdir` may fail with the answer already paid for |
| `StartWriting`, `Written`, `WriteFails` | `write_text`: the file is truncated, then whole, or left as the failure found it |
| `Crash` | the recording process dies, in a write too |
| `RemoveFixture` | a person gives a recording up |
| `Play` | `ReplayLLM.complete`: loads the fixture on first use and keeps it; a hit, a `ReplayMiss` or `FixtureUnreadable` |

Nothing else of the recording process runs during a write (`write_text` does not await), but a
player is another process and may read the truncated file. `Json` gives each set of keyword
arguments its JSON form: a list and a tuple have the same one, an object has none.

### TraceScoring, TraceReport

Here a trace is the sequence of events in the order of the query, each with the tenant, tokens
and cost of its step. `answer_from_trace` chooses the one `llm-step` that carries an answer.
`score_case` has an older path for callers that pass no `tenant_ids`: it judges refusals by
the tenant slug that cited chunk ids begin with. The command line takes that path; `byChunks`
is the other one, which the tests take and other callers may. Costs are whole numbers, so the rounding
is left out.

| Model | Code |
|---|---|
| `Store` | the engine stores the next event of a run |
| `Start` | arguments and `dsn_bo_cham`: nothing to do, or no connection string, is an error |
| `ListRuns` | `--list` |
| `ScoreNext` | the next `--run`: read its run unless that was read (`events_by_run`), find its case, score it |
| `Render` | the cost line, for a command on a single run, and the table |

Before each query `_assert_doc_xuyen_tenant_duoc` asks whether row security applies to the
connection's role; `ReadRefused` is its answer.

## 3. What is checked

Passing runs:

| Run | Instance | Properties |
|---|---|---|
| `judge` | 3 tasks, 1 case, 2 answers, cap 2, 2 days, 2 faults | types and cap; `QuotaKept` (refinement of `DailyQuota`); `NothingGradedTwice`; `VerdictOfSameAnswer`; `NoVerdictLost`; `TornCounterStaysTorn` |
| `judge_live` | 3 tasks, cap 1, 1 fault | `EveryCallReturns` |
| `eval_run` | golden sets of up to 3 cases on every side of the fence, 22 traces, 3 kinds of answer, judge on and off, two thresholds, full and core | types; `LeakNeverPasses`; `NoTraceNoSuccess`; `JudgeOnlyRescuesAnswers`; `RefusalsAreProved`; `CardMeasuresTheSet`; `NoCardFromForgedTrace`; `TrapsAloneNeverPass`; `CoreIsSound` |
| `service` | 2 tenants that share 2 recipes, 2 jobs of 2 cases, stale after 1 tick, restart no sooner than 2, 4 ticks, 2 versions | types; `OnePending`; `DoneHasScore`; `NoScoreOutlivesItsDocuments`; `CertificateIsEarned`; `EndedStaysEnded`; `CertificatesStand`; `SweepSparesTheLiving` |
| `service_live` | 1 tenant, 1 recipe, 2 jobs of 1 case, 4 ticks, stale after 1, restart no sooner than 2 | `EveryJobEnds` |
| `golden_sets` | 2 tenants, 2 connections, every session, 1 name, 3 files (generated, reviewed, one of another name), up to 2 loaded | types; `IsCatalogue` (refinement of `GoldenCatalogue`); `MergeIsFaithful`; `PairsMergeEitherWay`; `OnlyHandLabelsCount` |
| `replay` | 2 recording tasks, 1 player, 1 prompt, 4 sets of keyword arguments, 2 responses, 3 paid calls | types; `ReplayedWasPaid`; `ReplayIsStable`; `WholeMeansComplete` |
| `trace_report` | 2 runs, each any of 11 traces; reports on no run, one (once, twice, with an unknown case) or two; both paths; every combination of connection strings; row security on and off | types; `ReportsTheWholeRun`; `OlderPathNeverAccuses`; `ReportIsOfOneReading`; `CostIsOfTheWholeRun`; `ListsAreWhole` |

Why the bounds suffice.

- Judge: the hazards are between two tasks in the lock's critical section and a third in the
  queue; cap 2 lets one task be at the cap while another is one below it; two answers give both a
  cache hit and a lost update; a second midnight or a third fault only repeats the states of the
  first.
- Evaluation run: the verdict depends on a set of results only through counts and through the
  existence of a leak, and every pair of kinds of case occurs; core selection is exercised with
  sets longer than the budget, declared cases beyond it, too few answer cases,
  repeated ids and bounds below 1.
- Service: a hazard needs two jobs of the same recipe (overlap), of two recipes (mixed up scores)
  or of two tenants (the policy), each possible with two jobs; four ticks let a job fall silent,
  the instance restart and the job be swept; two versions let a second certificate come while the
  first stands. Jobs, recipes and tenants are interchangeable, and the safety run uses that as
  symmetry.
- Golden sets: two tenants that use the same name show what row security and the key of the upsert
  keep apart; two connections put any statement between another call's check and its own; the files
  hold a question in two spellings, the same under another role, a trap, and cases labelled rightly,
  wrongly, with an unknown word or not at all. A second name multiplies the states by more than twenty; that names are kept apart as well
  is proved, for any number of them (`StoreIsCatalogue`). What three sets do is under "known
  limits".
- Replay: two tasks overlap at the await, a third only queues behind them; three paid calls fill a
  fixture, overwrite a key and leave one to a new fixture. Two processes that record on one file
  are outside the model.
- Trace report: a report meets a run while it is being stored at each of its up to three events;
  two cases on one run show what is remembered, two runs what is not compared.

Runs that find a disagreement between the code and what it says of itself:

| Run | The code does | It says |
|---|---|---|
| `eval_outcome` | a right answer without a trace becomes `success = False`, `outcome = pass_answer` | "outcome never contradicts success" (`harness.py:291`) |
| `service_quick_restart` | an instance that starts again within `stale_after_seconds` skips the dead task's job, and nothing sweeps it later | the sweep is how a hanging job is cleaned up, "called when the app starts" (`eval_job_store.py:27-28`) |
| `replay_crash` | each call truncates the file before it writes it, so a crash in a write loses every call recorded before | written after each call, because losing everything when "the process died at the 58th case is an unnecessary loss" (`replay.py:135-137`) |
| `report_mixed` | a report on two runs compares no tenants: a run with events of two tenants is scored and printed | "in return the tenant is still checked", by `tenant_scope_ok` (`run_report.py:521-525`), which nothing calls |

### Known limits

What the passing properties leave out, because the code does not do it. Each is safe to know
when reading a property.

- A broken state file should, as `judge.py:84` says, end a call with `STATE_UNREADABLE`, on which
  the harness falls back to the exact match. A cache file cut inside a multi-byte character raises
  `UnicodeDecodeError` instead, which `judge.py:94` does not catch, and the evaluation is lost.
  Both outcomes are in the model; every property of the judge and of the run holds with either.

- A call answered after midnight writes yesterday's count plus one under today's date
  (`judge.py:289`). The quota still holds: a day may start with fewer calls left.
- The judge's cache key leaves out the expected answer (`judge.py:235`): after a golden case is
  edited, the verdict on the old one is returned. `VerdictOfSameAnswer` speaks of case and answer.
- In a full run a trap that shares an answer case's id enters the citation average
  (`compute.py:37`): of a full run `CardMeasuresTheSet` says that
  every case has its result, and of a core run, which rejects repeated ids, also what is averaged.
- One unreadable retrieval hides a foreign chunk in another one of the same run
  (`harness.py:294`): the case is `fail_unobserved`, a failure, but the absolute gate does not
  fire. `LeakNeverPasses` speaks of traces whose retrievals can all be read.
- The score of an evaluation under way when the documents change is written after the drop
  (`scorecard_store.py:115-116`): `NoScoreOutlivesItsDocuments` speaks of scores stored before it.
- Three golden sets are decided pair by pair: generated, generated, reviewed is rejected for the
  first two, while reviewed first is accepted. `PairsMergeEitherWay` speaks of two.
- A merged set may hold one case id twice (ids are not part of the key). The label maps then keep
  the last case of that id; `OnlyHandLabelsCount` speaks of sets without repeated ids.
- `ReportsTheWholeRun` speaks of reports that pass `tenant_ids`; the command line never does
  (`run_report.py:659`).
- A list counts as traps the cases that cite nothing, though `golden_store.py:73-74` says the
  count uses the scorer's own derivation: a set without a knowledge base would count as all traps.
- Two processes that record on one fixture would lose each other's calls; one is the documented
  use.
- With the path of the command line (no `tenant_ids`), a report can miss a leak that was retrieved
  but not cited; `OlderPathNeverAccuses` is the direction that holds.

### Fairness

`Judge`: the event loop runs every ready task, `asyncio.Lock` wakes its waiters in order, and the
provider's client answers or raises. The last is an assumption: `judge()` sets no timeout of its
own, and a call that never ends would keep the lock for ever. Callers need not call, people need
not clean up, and nothing forces a midnight.

`EvalService`: tasks of a live instance go on, time passes, and an instance that died is started
again, in `service_live` no sooner than `RestartDelay`, longer than `StaleAfter`; with a shorter
one `EveryJobEnds` is violated (`service_quick_restart`). Nobody is obliged to start a second
instance beside a live one, so a sweep comes only after a crash. A finish or fail statement that
itself raises is left out; a job it leaves running is swept at the next start only.

The other specifications promise safety alone and state no fairness: an evaluation, a recording, a
report or an author may stop anywhere. `CHECK_DEADLOCK FALSE` stands where the system comes to an
end: a finished evaluation run, jobs that have all been used, a printed report.

## 4. What is proved

Every safety property of the passing runs, invariant, action property or refinement, is a theorem
for all values of the constants. Each proof module of a specification defines an inductive
invariant `IInv` (in `EvalService_proofs`, several small ones), proves `Init => IInv` and that
every action keeps it, one lemma per action or group of actions, and derives the properties.
Three more theorems say what no run checks in that form: the safety that the two liveness
properties rest on (`LocksAreNeverLost`, `NoJobIsOrphaned`), and how far the promise holds that
`eval_outcome` finds broken (`TracedOutcomes`).

**Judge.** Assumptions: `JudgeAssumption` (kinds of the constants) and `PathsArePaired`: two
judges that share one file share both. The lock is per pair of paths, so without it judges that
share the counter alone exclude nobody. The process's settings fix both paths (`judge.py:117`).
`QuotaKept` is not inductive: it says nothing of a task that has read the counter and has not yet
written it. `IInv` says what such a task may rely on across its await:

- `Holding`: a task in the provider call owns the lock of its files, hence is alone on them;
- `CacheCurrent`: the cache dict it read is what the file holds, and its question is not in it;
- `CountCurrent`: the count it read is below the cap and not below the count in force today. Not
  equal to it: at midnight the count in force drops to zero while the local stays;
- `Dated`, `Charges`: no counter is dated in the future, and what was charged today is in the
  count in force;
- `CacheGiven`, `ResultGiven`: verdicts in files and in results were given by the provider.

Faults are the delicate case: a write cut short leaves a torn file, which blocks the judge until a
person removes it, and the removal is a restart of the quota.

`LocksAreNeverLost` is deadlock freedom: whoever waits, a task of the same lock is in the provider
call, or heads the queue of a free lock and may enter, by one of the four ways of `Enter`.
`Attended` is its invariant: the queue of a lock is the tasks that wait for it, once each, and its
holder is in the provider call. Cancelling a task in the middle of the queue is the delicate
case: it must leave the queue altogether, hence the repetition-free queue. This needs no
`PathsArePaired`, except through the types.

**EvalService.** Assumption: `ServiceAssumption`. Every step is first reduced to what it does to
each table (a row inserted, one running row updated, a sweep; a pending row upserted, a
certificate added, pending rows dropped). Ownership of scores needs that a score's job is of its
tenant and recipe, and that an existing job never changes either. `DoneHasScore` is strengthened
to tasks about to finish: they have stored their score already, unless their documents changed.
`SweepSparesTheLiving` needs that a running job's `updated_at` is the time of its last report.

`NoJobIsOrphaned` says that while an instance runs, every running job has a task that will end it.
It assumes what `service_live` assumes: `RestartDelay > StaleAfter`, and sweeps in the sessions of
all tenants. The invariant is `Silent`: nobody reports after the instance died, so each row it left
is stale when the next one starts. With a shorter delay it is false, as `service_quick_restart`
shows.

**GoldenMerge.** No assumption. The merge is a fold, so its facts are invariants of the loop:
`Faithful` says of the first `k` cases what `MergeIsFaithful` says of all, with the conflicts found
so far; `ClashingStep` relates conflicts to pairs of cases between which the rule does not choose,
where no question is asked three times (else the loop compares with a case it has already
replaced). The library's induction theorems take the predicate as an operator, which the provers
cannot instantiate, and the fold is a recursive function under `CHOOSE`. Both are got round in
first-order terms: the set of naturals at which a fact holds has 0 and every successor
(`NaturalsIn`, from the well-foundedness of `<`), and `Unrolled` proves that a fold goes through a
sequence of states, one per turn.

**GoldenSets.** Assumption: `GoldenAssumption` (no tenant is the unset session; the cases of a file
are a sequence). `IInv` has no two
rows of one tenant and name, and no call past its scope check in another session than its tenant's:
hence the rows row security shows a call are its tenant's (`OwnRows`), and each statement is the
catalogue's operation. `CasesInv` follows the cases on their way: what is loaded, drafted, carried
by a call, stored and read is a sequence of cases somebody wrote, and a draft is what was loaded or
a merge that was not rejected. With it the theorems on the fold speak of what the author writes
(`MergesAreFaithful`, `PairsMergeAlike`). `AgreementCountsLabels` turns the two label maps by id
into a count of cases, as many ids as cases meaning that no two cases share one, and says that the
measurement is refused for an unknown word among the labels and for nothing else.

**Replay.** Assumption: `ReplayAssumption`. `IInv` extends the properties to what is not yet in
the file: a write under way holds only paid answers (`AllProvided`) and every call that returned
(`NothingMissing`); a player answers from what it keeps (`AnswersFromLoaded`).

**EvalRun.** Assumption: `EvalAssumption` (golden sets are sequences, citations finite, the
bounds of a core integers, `Unit` positive). `IInv` ties the history of runs to the results: `Counted` and
`AtStage` (how many of each there are at each await), `Grading` (a result is the exact-match one,
or the judge was asked and passed it), `Unforged`, `AnswerIds` (the scored ids are those of the
answer cases so far), `CardRight` (the card is computed once, from a result for every case) and `CasesRight`.
`TracedOutcomes` follows from `Grading`: with a trace, outcome and success agree after the judge
as before it; no-trace-no-proof is the one place where they part.
The judge, the runner and the callback are unconstrained in it, which is the point of
`Fence` and `JudgeRescuesOnly`. `CoreSoundness` is about `select_core` alone: the core is the set
of indices whose rank is in budget, ranks are distinct, so the pigeonhole principle bounds each
tier. The sum of the citation scores is never opened: no property depends on its value.

**TraceReport.** Assumption: `ReportAssumption` (scripts and specs are sequences, runs exist). What
was read begins what is stored, which begins what the run will store. `ReportsTheWholeRun` turns on
one fact: an answer that ends its run is in what was read only if all of the run is. The same fact
makes a printed cost final (`WholeCosts`): the row above the cost line needed the answer.

Only model-checked:

- liveness under fairness (`EveryCallReturns`, `EveryJobEnds`), which is beyond TLAPS here; what is
  proved of them is that no state is a dead end;
- the four runs that find a violation.

## 5. Not modelled

- `tenant_scope_ok`: nothing calls it. Matching of phrases and refusals: text.
- `run_smoke`: the loop of `run` without judge and scorecard.
- Floats: sums of thirds compared with a threshold may differ in the last bit; costs are rounded.
- `recipe_hash = None` in `eval.scorecards`: SQL NULL never conflicts in the unique index. An
  evaluation that runs as a job has a hash.
- Wilson intervals: square roots of real numbers.
- Parsing of arguments and YAML, decoding of rows, rendering, the demo command line, the constant
  no-knowledge-base set: data and text without behaviour.
- A stored golden set that no longer validates: reading it raises `ValidationError`
  (`golden_store.py:190`). The loader validated every case before it was written, so this takes a
  change of the schema in between.
- The routes that call the stores and the engine that writes traces are in other repositories.
  They are modelled from how this code and its documentation use them and mapped as external.

## 6. Plan

Done: all components with state or a decision of their own, with their proofs.

Left, in order of worth:

1. Larger instances: three jobs in `service`, three sources in `golden_sets` (with the order of
   conflicts stated as what does hold), two players in `replay`.
2. Composition of `Replay` with `Judge` (a recorded judge), to state that a replayed evaluation
   charges no quota.
