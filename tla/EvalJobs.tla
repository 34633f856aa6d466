------------------------------ MODULE EvalJobs ------------------------------
(***************************************************************************)
(* eval.eval_jobs: progress and status of evaluations that run in the      *)
(* background.  Each operation is one SQL statement, atomic on its rows.   *)
(***************************************************************************)
EXTENDS Integers, RowSecurity

CONSTANTS JobIds,
          Recipes,     \* (agent_id, recipe_hash) pairs, shared by the tenants
          StaleAfter   \* stale_after_seconds, in clock ticks

VARIABLES jobs,        \* the table: a function on the ids created so far
          now          \* now() of the database

Statuses == {"running", "done", "failed"}
Details == {"none", "error", "interrupted"}

Job == [tenant : Tenants, recipe : Recipes, status : Statuses, done : Nat, total : Nat,
        detail : Details, updated : Nat]

M_NewJob(tenant, recipe) ==
  [tenant |-> tenant, recipe |-> recipe, status |-> "queued", done |-> 0, total |-> 0,
   detail |-> "none", updated |-> now]
NewJob(tenant, recipe) ==
  [tenant |-> tenant, recipe |-> recipe, status |-> "running", done |-> 0, total |-> 0,
   detail |-> "none", updated |-> now]

\* INSERT; the policy's WITH CHECK refuses a row of another tenant.
CreateEvalJob(session, j, tenant, recipe) ==
  /\ j \notin DOMAIN jobs
  /\ Visible(session, tenant)
  /\ jobs' = [k \in DOMAIN jobs \cup {j} |-> IF k = j THEN NewJob(tenant, recipe)
                                              ELSE jobs[k]]

M_Updatable(session, j) == j \in DOMAIN jobs /\ Visible(session, jobs[j].tenant)
\* WHERE id = j AND status = 'running', among the rows the session sees.
Updatable(session, j) == /\ j \in DOMAIN jobs
                         /\ Visible(session, jobs[j].tenant)
                         /\ jobs[j].status = "running"

\* A statement that matches no row changes nothing and raises nothing.
Update(session, j, row) == jobs' = IF Updatable(session, j) THEN [jobs EXCEPT ![j] = row]
                                   ELSE jobs

M_Progressed(j, done, total) == [jobs[j] EXCEPT !.done = done, !.total = total]
\* updated_at is the heartbeat the sweep reads.
Progressed(j, done, total) ==
  [jobs[j] EXCEPT !.done = done, !.total = total, !.updated = now]

RecordJobProgress(session, j, done, total) == Update(session, j, Progressed(j, done, total))

FinishEvalJob(session, j) ==
  Update(session, j, [jobs[j] EXCEPT !.status = "done", !.updated = now])

FailEvalJob(session, j) ==
  Update(session, j, [jobs[j] EXCEPT !.status = "failed", !.detail = "error", !.updated = now])

M_Stale(row) == row.status = "running" /\ row.updated < now - StaleAfter /\ row.total > 0
Stale(row) == row.status = "running" /\ row.updated < now - StaleAfter

\* sweep_stale_jobs, once in each of the sessions.
SweepStaleJobs(sessions) ==
  jobs' = [j \in DOMAIN jobs |->
             IF Stale(jobs[j]) /\ \E s \in sessions : Visible(s, jobs[j].tenant)
             THEN [jobs[j] EXCEPT !.status = "failed", !.detail = "interrupted",
                                  !.updated = now]
             ELSE jobs[j]]
=============================================================================
