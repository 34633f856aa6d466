----------------------------- MODULE TraceReport -----------------------------
(***************************************************************************)
(* The report on stored runs (run_report._amain), next to an engine that   *)
(* still writes.  The engine stores the events of a run one by one; a      *)
(* report lists the runs, or reads some of them, scores a case from each   *)
(* and, if it is about one run, adds up its cost.  Each of its reads is a  *)
(* query of its own, and row security may hide the whole table from it.    *)
(***************************************************************************)
EXTENDS TraceScoring

CONSTANTS RunIds,
          Scripts,      \* what a run of the engine may store, first event to last
          Reports,      \* invocations: [list, specs, byChunks, dsn]; a spec is [run, case];
                        \* byChunks: whoever scores the runs passes tenant_ids (the
                        \* command line does not, other callers may)
          UnknownCase,  \* a case id the golden set does not have
          NoCost

ASSUME ReportAssumption ==
  /\ Missing \notin DOMAIN TenantIds
  /\ \A s \in Scripts : s \in Seq({s[i] : i \in DOMAIN s})
  /\ \A r \in Reports : r.specs \in Seq({r.specs[i] : i \in DOMAIN r.specs})
  /\ \A r \in Reports : \A i \in DOMAIN r.specs : r.specs[i].run \in RunIds

VARIABLES script,     \* what each run will have stored in the end
          stored,     \* obs.trace_events: the events each run has stored
          rowSecurity,\* whether row security is forced on obs.trace_events
          report,     \* the invocation
          stage,      \* "started", "reading", "printed" or "failed"
          read,       \* events_by_run
          results,
          listed,     \* what --list prints
          cost        \* what the report says the run cost

engine == <<script, stored, rowSecurity>>
vars == <<script, stored, rowSecurity, report, stage, read, results, listed, cost>>

Init == /\ script \in [RunIds -> Scripts]
        /\ stored = [r \in RunIds |-> <<>>]
        /\ rowSecurity \in BOOLEAN
        /\ report \in Reports
        /\ stage = "started"
        /\ read = [r \in {} |-> <<>>]
        /\ results = <<>>
        /\ listed = {}
        /\ cost = NoCost
-----------------------------------------------------------------------------
Store(r) ==
  /\ Len(stored[r]) < Len(script[r])
  /\ stored' = [stored EXCEPT ![r] = Append(@, script[r][Len(@) + 1])]
  /\ UNCHANGED <<script, rowSecurity, report, stage, read, results, listed, cost>>

\* dsn_bo_cham: the scorer's role if it is configured, else the application's.
Role == CASE "scorer" \in report.dsn -> "scorer"
          [] "scorer" \notin report.dsn /\ "app" \in report.dsn -> "app"
          [] OTHER -> "none"

\* The scorer's role bypasses row security; any other sees no row without a tenant.
Hidden == rowSecurity /\ Role # "scorer"

M_ReadRefused == FALSE
\* _assert_doc_xuyen_tenant_duoc, before either of the queries.
ReadRefused == Hidden

M_Rows(r) == IF Hidden THEN <<>> ELSE Reverse(stored[r])
Rows(r) == IF Hidden THEN <<>> ELSE stored[r]

Fail == /\ stage' = "failed"
        /\ UNCHANGED <<read, results, listed, cost>>

Start ==
  /\ stage = "started"
  /\ \/ /\ Role = "none" \/ (~report.list /\ report.specs = <<>>)
        /\ Fail
     \/ /\ Role # "none" /\ (report.list \/ report.specs # <<>>)
        /\ stage' = "reading"
        /\ UNCHANGED <<read, results, listed, cost>>
  /\ UNCHANGED <<engine, report>>

ListRuns ==
  /\ stage = "reading" /\ report.list
  /\ \/ ReadRefused /\ Fail
     \/ /\ ~ReadRefused
        /\ listed' = {<<r, Len(Rows(r))>> : r \in {q \in RunIds : Rows(q) # <<>>}}
        /\ stage' = "printed"
        /\ UNCHANGED <<read, results, cost>>
  /\ UNCHANGED <<engine, report>>

M_Remembered(r) == [q \in DOMAIN read \cup {r} |-> IF q # r THEN read[q] ELSE Rows(q)]
\* A run is read once, however many of its cases are scored.
Remembered(r) ==
  [q \in DOMAIN read \cup {r} |-> IF q \in DOMAIN read THEN read[q] ELSE Rows(q)]

\* The next --run: read its run if that is new, and score its case.
ScoreNext ==
  /\ stage = "reading" /\ ~report.list
  /\ Len(results) < Len(report.specs)
  /\ LET spec == report.specs[Len(results) + 1]
         trace == Remembered(spec.run)[spec.run]
         rejected == \/ spec.run \notin DOMAIN read /\ ReadRefused
                     \/ spec.case = UnknownCase
                     \/ ScoreRejected(spec.case, trace, report.byChunks)
     IN  IF rejected THEN Fail
         ELSE /\ read' = Remembered(spec.run)
              /\ results' = Append(results, ScoreRunFromTrace(spec.case, trace, report.byChunks))
              /\ UNCHANGED <<stage, listed, cost>>
  /\ UNCHANGED <<engine, report>>

OneRun == Cardinality(DOMAIN read) = 1
TheTrace == read[CHOOSE r \in DOMAIN read : TRUE]

\* The table is printed at the end, with a cost line if it is about one run.
Render ==
  /\ stage = "reading" /\ ~report.list
  /\ Len(results) = Len(report.specs)
  /\ \/ OneRun /\ CostRejected(TheTrace) /\ Fail
     \/ /\ ~(OneRun /\ CostRejected(TheTrace))
        /\ cost' = IF OneRun THEN RunCostFromTrace(TheTrace) ELSE NoCost
        /\ stage' = "printed"
        /\ UNCHANGED <<read, results, listed>>
  /\ UNCHANGED <<engine, report>>

Next == \/ \E r \in RunIds : Store(r)
        \/ Start
        \/ ListRuns
        \/ ScoreNext
        \/ Render

Spec == Init /\ [][Next]_vars
-----------------------------------------------------------------------------
(***************************************************************************)
(* Properties.                                                             *)
(***************************************************************************)
\* Every variable has its type; what is stored and what was read are beginnings.
TypeOK ==
  /\ stage \in {"started", "reading", "printed", "failed"}
  /\ \A r \in RunIds : IsPrefix(stored[r], script[r])
  /\ DOMAIN read \subseteq RunIds
  /\ \A r \in DOMAIN read : IsPrefix(read[r], stored[r])
  /\ Len(results) <= Len(report.specs)
  /\ listed # {} => report.list
  /\ cost # NoCost => stage = "printed"

Printed(i) == stage = "printed" /\ i \in DOMAIN results

\* Well-formed: one event answers, and it is the last of its run.
EndsWithAnswer(trace) == \A i \in DOMAIN trace : trace[i].answer.given <=> i = Len(trace)

Live(i) ==
  LET trace == script[report.specs[i].run]
  IN  ScoreCaseRun(report.specs[i].case,
                   [answer |-> trace[Len(trace)].answer, events |-> Events(trace)])

(***************************************************************************)
(* A report scores a run as EvalHarness did when it was over, or says that *)
(* it cannot: one that reads in the middle of the run never passes a part  *)
(* for the whole (answer_from_trace).  It speaks of reports that pass      *)
(* tenant_ids, as the harness does: tests take that path and other callers *)
(* may, the command line never does (_amain, run_report.py:659).           *)
(***************************************************************************)
ReportsTheWholeRun ==
  \A i \in DOMAIN results :
    Printed(i) /\ report.byChunks /\ EndsWithAnswer(script[report.specs[i].run])
      => results[i] = Live(i)

(***************************************************************************)
(* Without tenant_ids a report looks at citations alone.  Where chunk ids  *)
(* begin with their tenant and answers cite only what was retrieved, that  *)
(* may miss a leak but it denounces none: what the harness passes, it      *)
(* passes (score_case, the rule for each axis).                            *)
(***************************************************************************)
CitesWhatItRetrieved(trace) ==
  \A k \in CitationsOf(Events(trace)) : \E chunk \in ChunksOf(Events(trace)) :
    /\ chunk.id = k
    /\ \A t \in DOMAIN TenantIds : chunk.tenant = TenantIds[t] => SlugOf[k] = t

OlderPathNeverAccuses ==
  \A i \in DOMAIN results :
    LET spec == report.specs[i]
        trace == script[spec.run]
    IN  Printed(i) /\ ~report.byChunks /\ EndsWithAnswer(trace)
          /\ CitesWhatItRetrieved(trace) /\ spec.case.tenant \in DOMAIN TenantIds
          => (Live(i).success => results[i].success)

(***************************************************************************)
(* All rows on a run, and its cost, come from one reading of it, although  *)
(* the engine goes on writing between two cases; a printed cost is of one  *)
(* run and of one tenant (events_by_run, run_cost_from_trace).             *)
(***************************************************************************)
ReportIsOfOneReading ==
  stage = "printed" =>
    /\ \A i \in DOMAIN results :
         LET spec == report.specs[i]
         IN  results[i] = ScoreRunFromTrace(spec.case, read[spec.run], report.byChunks)
    /\ cost # NoCost => \E r \in RunIds : /\ DOMAIN read = {r}
                                         /\ cost = RunCostFromTrace(read[r])
                                         /\ Cardinality(TenantsOf(read[r])) = 1

(***************************************************************************)
(* The cost a report prints of a well-formed run is what the run cost in   *)
(* the end: a report that comes before the last event finds no answer to   *)
(* score, and fails before its cost line (_amain, _run_cost_cho_cli).      *)
(***************************************************************************)
CostIsOfTheWholeRun ==
  cost # NoCost =>
    \E r \in RunIds : /\ DOMAIN read = {r}
                      /\ EndsWithAnswer(script[r]) => cost = RunCostFromTrace(script[r])

(***************************************************************************)
(* A list is the whole table: where row security hides the rows, the list  *)
(* fails instead of saying that there are no runs (evalhub#37).            *)
(***************************************************************************)
ListsAreWhole ==
  [][report.list /\ stage' = "printed" /\ stage # "printed"
       => listed' = {<<r, Len(stored[r])>> : r \in {q \in RunIds : stored[q] # <<>>}}]_vars

(***************************************************************************)
(* run_report.py:521-525 "in return the tenant is still checked: [...] it  *)
(* catches the run whose first node bears ankor while a later one bears    *)
(* borea".                                                                 *)
(***************************************************************************)
MixedRunsAreCaught ==
  stage = "printed" => \A r \in DOMAIN read : Cardinality(TenantsOf(read[r])) = 1
=============================================================================
