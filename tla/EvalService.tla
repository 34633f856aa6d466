----------------------------- MODULE EvalService -----------------------------
(***************************************************************************)
(* Background evaluations of an application over the two tables.  A task   *)
(* creates its job, reports each case, writes the pending score, then      *)
(* finishes the job.  Publish reads the pending score; a change of the     *)
(* documents drops the tenant's pending scores; an instance that starts    *)
(* sweeps silent jobs.  A crash kills the tasks and leaves the tables.     *)
(***************************************************************************)
EXTENDS EvalJobs, PendingScores, FiniteSets

CONSTANTS Total,          \* cases of an evaluation
          SweepSessions,  \* the sessions a starting instance sweeps in
          RestartDelay,   \* an instance that died starts again no sooner
          MaxTime,        \* bound: the clock
          MaxVersion      \* bound: published versions of a tenant's recipe

ASSUME ServiceAssumption ==
  /\ StaleAfter \in Nat /\ RestartDelay \in Nat /\ MaxTime \in Nat
  /\ Total \in Nat \ {0} /\ MaxVersion \in Nat
  /\ SweepSessions \subseteq Sessions
  /\ Unset \notin Tenants
  /\ NoVersion \notin 1..MaxVersion

VARIABLES task,        \* the task of each job: what it does next, cases run
          downSince,   \* when the instance died, or Up
          beat,        \* history: when a job was last created or reported on
          droppedOn    \* history: jobs done evaluating when their documents changed

tables == <<jobs, scorecards>>
history == <<beat, droppedOn>>
vars == <<jobs, now, scorecards, task, downSince, beat, droppedOn>>

Up == MaxTime + 1
Tasks == [step : {"none", "evaluating", "finishing"}, cases : 0..Total]
NoTask == [step |-> "none", cases |-> 0]
Evaluating(j) == task[j].step = "evaluating"
TaskEnds(j) == task' = [task EXCEPT ![j] = NoTask]

Running(j) == j \in DOMAIN jobs /\ jobs[j].status = "running"
NewScore(j, verdict) ==
  [tenant |-> jobs[j].tenant, recipe |-> jobs[j].recipe, version |-> NoVersion,
   verdict |-> verdict, job |-> j]

Init == /\ jobs = [j \in {} |-> NewJob(Unset, Unset)]
        /\ now = 0
        /\ scorecards = {}
        /\ task = [j \in JobIds |-> NoTask]
        /\ downSince = Up
        /\ beat = [j \in JobIds |-> 0]
        /\ droppedOn = {}
-----------------------------------------------------------------------------
\* The Evaluate route: a job, and a task that outlives the request.
Evaluate(tenant, recipe, j) ==
  /\ downSince = Up
  /\ CreateEvalJob(tenant, j, tenant, recipe)
  /\ task' = [task EXCEPT ![j] = [NoTask EXCEPT !.step = "evaluating"]]
  /\ beat' = [beat EXCEPT ![j] = now]
  /\ UNCHANGED <<now, scorecards, downSince, droppedOn>>

\* One case has run; EvalHarness.run ignores a report that fails.
CaseDone(j) ==
  /\ Evaluating(j)
  /\ task[j].cases < Total
  /\ task' = [task EXCEPT ![j].cases = @ + 1]
  /\ \/ /\ RecordJobProgress(jobs[j].tenant, j, task'[j].cases, Total)
        /\ beat' = [beat EXCEPT ![j] = now]
     \/ UNCHANGED <<jobs, beat>>
  /\ UNCHANGED <<now, scorecards, downSince, droppedOn>>

StoreScore(j, verdict) ==
  /\ Evaluating(j)
  /\ task[j].cases = Total
  /\ WritePendingScorecard(jobs[j].tenant, NewScore(j, verdict))
  /\ task' = [task EXCEPT ![j] = [NoTask EXCEPT !.step = "finishing"]]
  /\ UNCHANGED <<jobs, now, downSince, history>>

FinishJob(j) ==
  /\ task[j].step = "finishing"
  /\ FinishEvalJob(jobs[j].tenant, j)
  /\ TaskEnds(j)
  /\ UNCHANGED <<now, scorecards, downSince, history>>

\* The run, or storing its score, raised.
EvaluationFails(j) ==
  /\ Evaluating(j)
  /\ FailEvalJob(jobs[j].tenant, j)
  /\ TaskEnds(j)
  /\ UNCHANGED <<now, scorecards, downSince, history>>

\* The Publish route takes a pending PASS for a certificate of the next version.
Publish(tenant, recipe) ==
  \E row \in PendingRows(tenant, recipe), v \in 1..MaxVersion :
    /\ downSince = Up
    /\ row.verdict = "PASS"
    /\ v = Cardinality({r \in scorecards : /\ ~IsPending(r)
                                           /\ r.tenant = tenant /\ r.recipe = recipe}) + 1
    /\ scorecards' = scorecards \cup {[row EXCEPT !.version = v, !.recipe = recipe]}
    /\ UNCHANGED <<jobs, now, task, downSince, history>>

\* Ingesting or removing a document.
ChangeDocuments(tenant) ==
  /\ downSince = Up
  /\ DropPendingScorecards(tenant)
  /\ droppedOn' = droppedOn \cup {j \in DOMAIN jobs : /\ jobs[j].tenant = tenant
                                                     /\ ~Evaluating(j)}
  /\ UNCHANGED <<jobs, now, task, downSince, beat>>

Crash ==
  /\ downSince = Up
  /\ now + RestartDelay <= MaxTime
  /\ downSince' = now
  /\ task' = [j \in JobIds |-> NoTask]
  /\ UNCHANGED <<tables, now, history>>

\* An instance starts: the dead one again, or one that replaces a running one.
Start ==
  /\ downSince = Up \/ now >= downSince + RestartDelay
  /\ SweepStaleJobs(SweepSessions)
  /\ downSince' = Up
  /\ UNCHANGED <<now, scorecards, task, history>>

Tick == /\ now < MaxTime
        /\ now' = now + 1
        /\ UNCHANGED <<tables, task, downSince, history>>
-----------------------------------------------------------------------------
TaskStep(j) == \/ CaseDone(j)
               \/ \E verdict \in {"PASS", "FAIL"} : StoreScore(j, verdict)
               \/ FinishJob(j)
               \/ EvaluationFails(j)

Next == \/ \E t \in Tenants, r \in Recipes, j \in JobIds : Evaluate(t, r, j)
        \/ \E j \in JobIds : TaskStep(j)
        \/ \E t \in Tenants, r \in Recipes : Publish(t, r)
        \/ \E t \in Tenants : ChangeDocuments(t)
        \/ Crash
        \/ Start
        \/ Tick

Spec == Init /\ [][Next]_vars

(***************************************************************************)
(* Tasks of a live instance go on, time passes, and an instance that died  *)
(* is started again: nobody starts one that runs.                          *)
(***************************************************************************)
Fairness == /\ \A j \in JobIds : WF_vars(TaskStep(j))
            /\ WF_vars(Tick)
            /\ WF_vars(Start /\ downSince # Up)

FairSpec == Spec /\ Fairness
-----------------------------------------------------------------------------
(***************************************************************************)
(* Properties.                                                             *)
(***************************************************************************)
\* Every variable has its type, a job is never past its total, and a task has a job.
TypeOK ==
  /\ DOMAIN jobs \subseteq JobIds
  /\ \A j \in DOMAIN jobs : jobs[j] \in Job /\ jobs[j].done <= jobs[j].total
  /\ now \in 0..MaxTime
  /\ scorecards \subseteq [tenant : Tenants, recipe : Recipes,
                           version : {NoVersion} \cup 1..MaxVersion,
                           verdict : {"PASS", "FAIL"}, job : JobIds]
  /\ task \in [JobIds -> Tasks]
  /\ \A j \in JobIds : task[j] # NoTask => j \in DOMAIN jobs
  /\ downSince \in 0..Up
  /\ beat \in [JobIds -> 0..MaxTime]
  /\ droppedOn \subseteq DOMAIN jobs

(***************************************************************************)
(* Evaluations of one recipe that overlap leave at most one pending score  *)
(* (write_pending_scorecard, the partial unique index).                    *)
(***************************************************************************)
OnePending ==
  \A r, s \in scorecards :
    IsPending(r) /\ IsPending(s) /\ r.tenant = s.tenant /\ r.recipe = s.recipe => r = s

(***************************************************************************)
(* A job that ended stays as it ended: what a task left over from before a *)
(* sweep or a failure still writes changes nothing (eval_job_store).       *)
(***************************************************************************)
EndedStaysEnded ==
  [][\A j \in DOMAIN jobs : jobs[j].status # "running" => jobs'[j] = jobs[j]]_vars

(***************************************************************************)
(* A client that sees the job done finds a pending score of that recipe,   *)
(* from this evaluation or a later one, unless its own tenant's documents  *)
(* changed since (read_eval_job joined with read_pending_scorecard).       *)
(***************************************************************************)
DoneHasScore ==
  \A j \in DOMAIN jobs \ droppedOn :
    jobs[j].status = "done" => PendingRows(jobs[j].tenant, jobs[j].recipe) # {}

(***************************************************************************)
(* A change of the documents leaves no pending score of an evaluation that *)
(* had stored its own before: what Publish reads was stored since the last *)
(* change (drop_pending_scorecards).                                       *)
(***************************************************************************)
NoScoreOutlivesItsDocuments ==
  \A r \in scorecards : IsPending(r) => r.job \notin droppedOn

(***************************************************************************)
(* A certificate was earned: it carries a PASS some evaluation computed    *)
(* for the same tenant and the same recipe.                                *)
(***************************************************************************)
CertificateIsEarned ==
  \A r \in scorecards : ~IsPending(r) => /\ r.verdict = "PASS"
                                         /\ jobs[r.job].tenant = r.tenant
                                         /\ jobs[r.job].recipe = r.recipe

\* Neither a new evaluation nor a change of documents touches a certificate.
CertificatesStand ==
  [][\A r \in scorecards : ~IsPending(r) => r \in scorecards']_vars

(***************************************************************************)
(* A sweep interrupts silent jobs only: a job that was reported on within  *)
(* StaleAfter survives any number of starting instances.                   *)
(***************************************************************************)
SweepSparesTheLiving ==
  [][\A j \in DOMAIN jobs :
       jobs[j].detail = "none" /\ jobs'[j].detail = "interrupted"
         => now - beat[j] > StaleAfter]_vars

(***************************************************************************)
(* No job is left running: its task ends it, or an instance that starts    *)
(* sweeps it after a crash (eval_job_store.py:25-28).                      *)
(***************************************************************************)
EveryJobEnds == \A j \in JobIds : Running(j) ~> ~Running(j)
=============================================================================
