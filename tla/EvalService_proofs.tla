------------------------- MODULE EvalService_proofs -------------------------
(***************************************************************************)
(* The stores' safety for every number of tenants, recipes and jobs and    *)
(* every bound.  A step is first reduced to what it does to each table;    *)
(* the invariants then need no look at the tasks, instances and clocks.    *)
(***************************************************************************)
EXTENDS EvalService, TLAPS

Score == [tenant : Tenants, recipe : Recipes, version : {NoVersion} \cup 1..MaxVersion,
          verdict : {"PASS", "FAIL"}, job : JobIds]

JobsType == /\ DOMAIN jobs \subseteq JobIds
            /\ \A j \in DOMAIN jobs : jobs[j] \in Job /\ jobs[j].done <= jobs[j].total

TasksType == /\ task \in [JobIds -> Tasks]
             /\ \A j \in JobIds : task[j] # NoTask => j \in DOMAIN jobs

RestType == /\ now \in 0..MaxTime
            /\ downSince \in 0..Up
            /\ beat \in [JobIds -> 0..MaxTime]
            /\ droppedOn \subseteq DOMAIN jobs

\* TypeOK is the conjunction of its parts.
LEMMA TypeParts == TypeOK <=> JobsType /\ TasksType /\ RestType /\ scorecards \subseteq Score
BY DEF TypeOK, JobsType, TasksType, RestType, Score

\* And so after a step.
LEMMA TypePartsNext ==
  JobsType' /\ TasksType' /\ RestType' /\ (scorecards \subseteq Score)' => TypeOK'
BY DEF TypeOK, JobsType, TasksType, RestType, Score

\* A new job is a job.
LEMMA NewJobType ==
  ASSUME NEW t \in Tenants, NEW r \in Recipes, now \in 0..MaxTime
  PROVE  NewJob(t, r) \in Job /\ NewJob(t, r).done <= NewJob(t, r).total
BY ServiceAssumption DEF NewJob, Job, Statuses, Details

\* A job that ends is a job, at the same progress.
LEMMA EndedType ==
  ASSUME NEW row \in Job, NEW status \in Statuses, NEW detail \in Details, NEW n \in Nat
  PROVE  LET ended == [row EXCEPT !.status = status, !.detail = detail, !.updated = n]
         IN  ended \in Job /\ ended.done = row.done /\ ended.total = row.total
BY DEF Job

\* The clock is a natural number.
LEMMA ClockType == now \in 0..MaxTime => now \in Nat
BY ServiceAssumption

\* An update writes a job over a job or nothing.
LEMMA UpdateType ==
  ASSUME JobsType, NEW s, NEW j, NEW row, Update(s, j, row),
         j \in DOMAIN jobs => row \in Job /\ row.done <= row.total
  PROVE  JobsType' /\ DOMAIN jobs' = DOMAIN jobs
<1>1. CASE Updatable(s, j)
  BY <1>1 DEF JobsType, Update, Updatable
<1>2. CASE ~Updatable(s, j)
  BY <1>2 DEF JobsType, Update
<1>3. QED
  BY <1>1, <1>2

\* A sweep writes jobs over jobs.
LEMMA SweepType ==
  ASSUME JobsType, now \in 0..MaxTime, NEW S, SweepStaleJobs(S)
  PROVE  JobsType' /\ DOMAIN jobs' = DOMAIN jobs
<1>1. DOMAIN jobs' = DOMAIN jobs
  BY DEF SweepStaleJobs
<1>2. ASSUME NEW j \in DOMAIN jobs
      PROVE  jobs'[j] \in Job /\ jobs'[j].done <= jobs'[j].total
  <2>1. jobs[j] \in Job /\ jobs[j].done <= jobs[j].total
    BY DEF JobsType
  <2>2. [jobs[j] EXCEPT !.status = "failed", !.detail = "interrupted", !.updated = now] \in Job
    BY <2>1, ClockType, EndedType DEF Statuses, Details
  <2>3. [jobs[j] EXCEPT !.status = "failed", !.detail = "interrupted", !.updated = now].done
           = jobs[j].done
    BY <2>1, ClockType, EndedType DEF Statuses, Details
  <2>4. [jobs[j] EXCEPT !.status = "failed", !.detail = "interrupted", !.updated = now].total
           = jobs[j].total
    BY <2>1, ClockType, EndedType DEF Statuses, Details
  <2>5. QED
    BY <2>1, <2>2, <2>3, <2>4 DEF SweepStaleJobs
<1>3. QED
  BY <1>1, <1>2 DEF JobsType

\* A task's score is a score.
LEMMA NewScoreType ==
  ASSUME JobsType, TasksType, NEW j \in JobIds, j \in DOMAIN jobs, NEW v \in {"PASS", "FAIL"}
  PROVE  /\ NewScore(j, v) \in Score
         /\ IsPending(NewScore(j, v))
<1>1. jobs[j] \in Job
  BY DEF JobsType
<1>2. QED
  BY <1>1 DEF NewScore, Score, Job, IsPending

\* A progress report keeps the jobs' type and domain.
LEMMA ProgressType ==
  ASSUME JobsType, now \in 0..MaxTime, NEW s, NEW j, NEW d \in Nat, NEW n \in Nat, d <= n,
         RecordJobProgress(s, j, d, n)
  PROVE  JobsType' /\ DOMAIN jobs' = DOMAIN jobs
<1>1. ASSUME j \in DOMAIN jobs
      PROVE  Progressed(j, d, n) \in Job /\ Progressed(j, d, n).done <= Progressed(j, d, n).total
  <2>1. jobs[j] \in Job
    BY <1>1 DEF JobsType
  <2>2. QED
    BY <2>1, ClockType DEF Progressed, Job
<1>2. QED
  BY <1>1, UpdateType DEF RecordJobProgress

\* Ending a job as done keeps the types.
LEMMA FinishType ==
  ASSUME JobsType, now \in 0..MaxTime, NEW s, NEW j, FinishEvalJob(s, j)
  PROVE  JobsType' /\ DOMAIN jobs' = DOMAIN jobs
<1> DEFINE row == [jobs[j] EXCEPT !.status = "done", !.updated = now]
<1>1. ASSUME j \in DOMAIN jobs
      PROVE  row \in Job /\ row.done <= row.total
  <2>1. jobs[j] \in Job /\ jobs[j].done <= jobs[j].total
    BY <1>1 DEF JobsType
  <2>2. QED
    BY <2>1, ClockType DEF Job, Statuses
<1>2. Update(s, j, row)
  BY DEF FinishEvalJob
<1>3. QED
  BY <1>1, <1>2, UpdateType

\* Ending a job as failed keeps the types.
LEMMA FailType ==
  ASSUME JobsType, now \in 0..MaxTime, NEW s, NEW j, FailEvalJob(s, j)
  PROVE  JobsType' /\ DOMAIN jobs' = DOMAIN jobs
<1> DEFINE row == [jobs[j] EXCEPT !.status = "failed", !.detail = "error", !.updated = now]
<1>1. ASSUME j \in DOMAIN jobs
      PROVE  row \in Job /\ row.done <= row.total
  <2>1. jobs[j] \in Job /\ jobs[j].done <= jobs[j].total
    BY <1>1 DEF JobsType
  <2>2. row \in Job /\ row.done = jobs[j].done /\ row.total = jobs[j].total
    BY <2>1, ClockType, EndedType DEF Statuses, Details
  <2>3. QED
    BY <2>1, <2>2
<1>2. Update(s, j, row)
  BY DEF FailEvalJob
<1>3. QED
  BY <1>1, <1>2, UpdateType
-----------------------------------------------------------------------------
(***************************************************************************)
(* Types.                                                                  *)
(***************************************************************************)
\* The initial tables are empty and no task runs.
LEMMA InitType == Init => TypeOK
<1> SUFFICES ASSUME Init PROVE TypeOK
  OBVIOUS
<1>1. JobsType
  BY DEF Init, JobsType
<1>2. TasksType
  BY ServiceAssumption DEF Init, TasksType, Tasks, NoTask
<1>3. RestType
  BY ServiceAssumption DEF Init, RestType, Up
<1>4. scorecards \subseteq Score
  BY DEF Init
<1>5. QED
  BY <1>1, <1>2, <1>3, <1>4, TypeParts

\* Evaluate creates a job and its task.
LEMMA EvaluateType ==
  ASSUME TypeOK, NEW t \in Tenants, NEW r \in Recipes, NEW j \in JobIds, Evaluate(t, r, j)
  PROVE  TypeOK'
<1> USE TypeParts
<1>1. /\ jobs' = [k \in DOMAIN jobs \cup {j} |-> IF k = j THEN NewJob(t, r) ELSE jobs[k]]
      /\ JobsType /\ TasksType /\ RestType
  BY DEF Evaluate, CreateEvalJob
<1>2. now \in 0..MaxTime
  BY <1>1 DEF RestType
<1>3. JobsType'
  BY <1>1, <1>2, NewJobType DEF JobsType
<1>4. DOMAIN jobs' = DOMAIN jobs \cup {j}
  BY <1>1
<1>5. [NoTask EXCEPT !.step = "evaluating"] \in Tasks
  BY ServiceAssumption DEF NoTask, Tasks
<1>6. TasksType'
  BY <1>1, <1>4, <1>5 DEF Evaluate, TasksType
<1>7. RestType'
  BY <1>1, <1>2, <1>4 DEF Evaluate, RestType, Up
<1>8. (scorecards \subseteq Score)'
  BY DEF Evaluate, Score
<1>9. QED
  BY <1>3, <1>6, <1>7, <1>8, TypePartsNext

\* A task that ends or goes on keeps the tasks' type.
LEMMA TasksGoOn ==
  ASSUME TasksType, DOMAIN jobs' = DOMAIN jobs, NEW j \in JobIds, task[j] # NoTask,
         NEW next \in Tasks, task' = [task EXCEPT ![j] = next]
  PROVE  TasksType'
BY DEF TasksType

\* Clock, instance and history keep their types when nothing changes them.
LEMMA RestStays ==
  ASSUME RestType, DOMAIN jobs' = DOMAIN jobs,
         UNCHANGED <<now, downSince, beat, droppedOn>>
  PROVE  RestType'
BY DEF RestType, Up

\* No task is a task, and neither an evaluating nor a finishing one is none.
LEMMA TaskSteps ==
  /\ NoTask \in Tasks
  /\ [NoTask EXCEPT !.step = "finishing"] \in Tasks
  /\ \A j \in JobIds : Evaluating(j) \/ task[j].step = "finishing" => task[j] # NoTask
BY ServiceAssumption DEF NoTask, Tasks, Evaluating

\* One case more, reported or not.
LEMMA CaseDoneType ==
  ASSUME TypeOK, NEW j \in JobIds, CaseDone(j)
  PROVE  TypeOK'
<1>1. JobsType /\ TasksType /\ RestType /\ scorecards \subseteq Score
  BY TypeParts
<1>2. task[j] # NoTask /\ task[j] \in Tasks /\ j \in DOMAIN jobs
  BY <1>1, TaskSteps DEF CaseDone, TasksType
<1>3. now \in 0..MaxTime
  BY <1>1 DEF RestType
<1>4. /\ task'[j].cases = task[j].cases + 1
      /\ task[j].cases < Total
      /\ task[j].cases \in Nat
  BY <1>1, <1>2 DEF CaseDone, Tasks, TasksType
<1>5. JobsType' /\ DOMAIN jobs' = DOMAIN jobs
  <2>1. CASE RecordJobProgress(jobs[j].tenant, j, task'[j].cases, Total)
    BY <2>1, <1>1, <1>3, <1>4, ServiceAssumption, ProgressType
  <2>2. CASE UNCHANGED jobs
    BY <2>2, <1>1 DEF JobsType
  <2>3. QED
    BY <2>1, <2>2 DEF CaseDone
<1>6. TasksType'
  <2>1. [task[j] EXCEPT !.cases = @ + 1] \in Tasks
    <3>1. task[j].cases + 1 \in 0..Total
      BY <1>4, ServiceAssumption
    <3>2. \A x \in Tasks, c \in 0..Total : [x EXCEPT !.cases = c] \in Tasks
      BY DEF Tasks
    <3>3. QED
      BY <1>2, <3>1, <3>2
  <2>2. task' = [task EXCEPT ![j] = [task[j] EXCEPT !.cases = @ + 1]]
    BY <1>1, <1>2 DEF CaseDone, TasksType, Tasks
  <2>3. QED
    BY <1>1, <1>2, <1>5, <2>1, <2>2, TasksGoOn
<1>7. RestType'
  BY <1>1, <1>3, <1>5 DEF CaseDone, RestType, Up
<1>8. (scorecards \subseteq Score)'
  BY <1>1 DEF CaseDone, Score
<1>9. QED
  BY <1>5, <1>6, <1>7, <1>8, TypePartsNext

\* The pending score is written.
LEMMA StoreScoreType ==
  ASSUME TypeOK, NEW j \in JobIds, NEW v \in {"PASS", "FAIL"}, StoreScore(j, v)
  PROVE  TypeOK'
<1>1. JobsType /\ TasksType /\ RestType /\ scorecards \subseteq Score
  BY TypeParts
<1>2. task[j] # NoTask /\ j \in DOMAIN jobs
  BY <1>1, TaskSteps DEF StoreScore, TasksType
<1>3. JobsType' /\ DOMAIN jobs' = DOMAIN jobs
  BY <1>1 DEF StoreScore, JobsType
<1>4. TasksType'
  BY <1>1, <1>2, <1>3, TaskSteps, TasksGoOn DEF StoreScore
<1>5. RestType'
  BY <1>1, <1>3, RestStays DEF StoreScore, history
<1>6. (scorecards \subseteq Score)'
  BY <1>1, <1>2, NewScoreType DEF StoreScore, WritePendingScorecard, Upserted, Score
<1>7. QED
  BY <1>3, <1>4, <1>5, <1>6, TypePartsNext

\* A task that ends leaves the scores and the rest alone.
LEMMA TaskEndsType ==
  ASSUME TypeOK, NEW j \in JobIds, FinishJob(j) \/ EvaluationFails(j)
  PROVE  TypeOK'
<1>1. JobsType /\ TasksType /\ RestType /\ scorecards \subseteq Score
  BY TypeParts
<1>2. now \in 0..MaxTime
  BY <1>1 DEF RestType
<1>3. task[j] # NoTask
  BY TaskSteps DEF FinishJob, EvaluationFails
<1>4. JobsType' /\ DOMAIN jobs' = DOMAIN jobs
  BY <1>1, <1>2, FinishType, FailType DEF FinishJob, EvaluationFails
<1>5. TasksType'
  BY <1>1, <1>3, <1>4, TaskSteps, TasksGoOn DEF FinishJob, EvaluationFails, TaskEnds
<1>6. RestType'
  BY <1>1, <1>4, RestStays DEF FinishJob, EvaluationFails, history
<1>7. (scorecards \subseteq Score)'
  BY <1>1 DEF FinishJob, EvaluationFails, Score
<1>8. QED
  BY <1>4, <1>5, <1>6, <1>7, TypePartsNext

\* A pending PASS becomes a certificate.
LEMMA PublishType ==
  ASSUME TypeOK, NEW t \in Tenants, NEW r \in Recipes, Publish(t, r)
  PROVE  TypeOK'
<1>1. JobsType /\ TasksType /\ RestType /\ scorecards \subseteq Score
  BY TypeParts
<1>2. PICK row \in PendingRows(t, r), v \in 1..MaxVersion :
        /\ row.verdict = "PASS"
        /\ scorecards' = scorecards \cup {[row EXCEPT !.version = v, !.recipe = r]}
        /\ UNCHANGED <<jobs, now, task, downSince, history>>
  BY DEF Publish
<1>3. row \in Score
  BY <1>1, <1>2 DEF PendingRows
<1>4. [row EXCEPT !.version = v, !.recipe = r] \in Score
  BY <1>3 DEF Score
<1>5. JobsType' /\ DOMAIN jobs' = DOMAIN jobs
  BY <1>1, <1>2 DEF JobsType
<1>6. TasksType'
  BY <1>1, <1>2, <1>5 DEF TasksType
<1>7. RestType'
  BY <1>1, <1>2, <1>5, RestStays DEF history
<1>8. (scorecards \subseteq Score)'
  BY <1>1, <1>2, <1>4 DEF Score
<1>9. QED
  BY <1>5, <1>6, <1>7, <1>8, TypePartsNext

\* Documents change and pending scores are dropped.
LEMMA ChangeDocumentsType ==
  ASSUME TypeOK, NEW t \in Tenants, ChangeDocuments(t)
  PROVE  TypeOK'
<1>1. JobsType /\ TasksType /\ RestType /\ scorecards \subseteq Score
  BY TypeParts
<1>2. droppedOn' \subseteq DOMAIN jobs'
  BY <1>1 DEF ChangeDocuments, RestType
<1>3. JobsType' /\ TasksType'
  BY <1>1 DEF ChangeDocuments, JobsType, TasksType
<1>4. RestType'
  BY <1>1, <1>2 DEF ChangeDocuments, RestType, Up
<1>5. (scorecards \subseteq Score)'
  BY <1>1 DEF ChangeDocuments, DropPendingScorecards, Score
<1>6. QED
  BY <1>3, <1>4, <1>5, TypePartsNext

\* An instance dies.
LEMMA CrashType ==
  ASSUME TypeOK, Crash
  PROVE  TypeOK'
<1>1. JobsType /\ TasksType /\ RestType /\ scorecards \subseteq Score
  BY TypeParts
<1>2. JobsType' /\ (scorecards \subseteq Score)'
  BY <1>1 DEF Crash, tables, JobsType, Score
<1>3. TasksType'
  BY <1>1, TaskSteps DEF Crash, TasksType
<1>4. RestType'
  BY <1>1, ServiceAssumption DEF Crash, tables, history, RestType, Up
<1>5. QED
  BY <1>2, <1>3, <1>4, TypePartsNext

\* An instance starts and sweeps.
LEMMA StartType ==
  ASSUME TypeOK, Start
  PROVE  TypeOK'
<1>1. JobsType /\ TasksType /\ RestType /\ scorecards \subseteq Score
  BY TypeParts
<1>2. JobsType' /\ DOMAIN jobs' = DOMAIN jobs
  BY <1>1, SweepType DEF Start, RestType
<1>3. TasksType'
  BY <1>1, <1>2 DEF Start, TasksType
<1>4. RestType'
  BY <1>1, <1>2, ServiceAssumption DEF Start, history, RestType, Up
<1>5. (scorecards \subseteq Score)'
  BY <1>1 DEF Start, Score
<1>6. QED
  BY <1>2, <1>3, <1>4, <1>5, TypePartsNext

\* Time passes, or nothing happens.
LEMMA QuietType ==
  ASSUME TypeOK, Tick \/ UNCHANGED vars
  PROVE  TypeOK'
<1>1. JobsType /\ TasksType /\ RestType /\ scorecards \subseteq Score
  BY TypeParts
<1>2. UNCHANGED <<jobs, scorecards, task, downSince, beat, droppedOn>>
  BY DEF Tick, tables, history, vars
<1>3. now' \in 0..MaxTime
  BY <1>1, ServiceAssumption DEF Tick, vars, RestType
<1>4. JobsType' /\ TasksType' /\ (scorecards \subseteq Score)'
  BY <1>1, <1>2 DEF JobsType, TasksType, Score
<1>5. RestType'
  BY <1>1, <1>2, <1>3 DEF RestType, Up
<1>6. QED
  BY <1>4, <1>5, TypePartsNext

\* No step breaks a type.
LEMMA TypeStep ==
  ASSUME TypeOK, [Next]_vars
  PROVE  TypeOK'
<1>1. ASSUME NEW t \in Tenants, NEW r \in Recipes, NEW j \in JobIds, Evaluate(t, r, j)
      PROVE  TypeOK'
  BY <1>1, EvaluateType
<1>2. ASSUME NEW j \in JobIds, TaskStep(j)
      PROVE  TypeOK'
  BY <1>2, CaseDoneType, StoreScoreType, TaskEndsType DEF TaskStep
<1>3. ASSUME NEW t \in Tenants, NEW r \in Recipes, Publish(t, r)
      PROVE  TypeOK'
  BY <1>3, PublishType
<1>4. ASSUME NEW t \in Tenants, ChangeDocuments(t)
      PROVE  TypeOK'
  BY <1>4, ChangeDocumentsType
<1>5. QED
  BY <1>1, <1>2, <1>3, <1>4, CrashType, StartType, QuietType DEF Next

(***************************************************************************)
(* The tables hold what their schema says, whatever tasks, instances and   *)
(* clocks do; a task always has its job.                                   *)
(***************************************************************************)
THEOREM ServiceTypeCorrect == Spec => []TypeOK
<1>1. Init => TypeOK
  BY InitType
<1>2. TypeOK /\ [Next]_vars => TypeOK'
  BY TypeStep
<1>3. QED
  BY <1>1, <1>2, PTL DEF Spec
-----------------------------------------------------------------------------
(***************************************************************************)
(* What a step does to the scores.                                         *)
(***************************************************************************)
\* A score's job is of its tenant and recipe.
OfItsJob(row) == /\ row.job \in DOMAIN jobs
                 /\ jobs[row.job].tenant = row.tenant
                 /\ jobs[row.job].recipe = row.recipe

\* A certificate repeats a pending PASS.
Certifies(row, pending) == /\ IsPending(pending) /\ ~IsPending(row)
                           /\ row.verdict = "PASS"
                           /\ row.tenant = pending.tenant
                           /\ row.recipe = pending.recipe
                           /\ row.job = pending.job

\* A pending score is upserted, a certificate added, pending scores dropped, or nothing.
LEMMA ScoresChange ==
  ASSUME TypeOK, [Next]_vars
  PROVE  \/ UNCHANGED scorecards
         \/ \E row \in Score : /\ IsPending(row) /\ OfItsJob(row)
                               /\ Evaluating(row.job)
                               /\ scorecards' = Upserted(row)
         \/ \E row \in Score, p \in scorecards : /\ Certifies(row, p)
                                                /\ scorecards' = scorecards \cup {row}
         \/ \E s \in Tenants : ChangeDocuments(s) /\ scorecards' = scorecards \ Dropped(s)
<1>1. JobsType /\ TasksType /\ scorecards \subseteq Score
  BY TypeParts
<1>2. ASSUME NEW t \in Tenants, NEW r \in Recipes, NEW j \in JobIds, Evaluate(t, r, j)
      PROVE  UNCHANGED scorecards
  BY <1>2 DEF Evaluate
<1>3. ASSUME NEW j \in JobIds, NEW v \in {"PASS", "FAIL"}, StoreScore(j, v)
      PROVE  \E row \in Score : /\ IsPending(row) /\ OfItsJob(row)
                               /\ Evaluating(row.job)
                               /\ scorecards' = Upserted(row)
  <2>1. j \in DOMAIN jobs
    BY <1>1, <1>3, TaskSteps DEF StoreScore, TasksType
  <2>2. NewScore(j, v) \in Score /\ IsPending(NewScore(j, v))
    BY <1>1, <2>1, NewScoreType
  <2>3. OfItsJob(NewScore(j, v)) /\ Evaluating(NewScore(j, v).job)
    BY <1>3, <2>1 DEF OfItsJob, NewScore, StoreScore
  <2>4. QED
    BY <1>3, <2>2, <2>3 DEF StoreScore, WritePendingScorecard
<1>4. ASSUME NEW j \in JobIds, CaseDone(j) \/ FinishJob(j) \/ EvaluationFails(j)
      PROVE  UNCHANGED scorecards
  BY <1>4 DEF CaseDone, FinishJob, EvaluationFails
<1>5. ASSUME NEW t \in Tenants, NEW r \in Recipes, Publish(t, r)
      PROVE  \E row \in Score, p \in scorecards : /\ Certifies(row, p)
                                                /\ scorecards' = scorecards \cup {row}
  <2>1. PICK row \in PendingRows(t, r), v \in 1..MaxVersion :
          /\ row.verdict = "PASS"
          /\ scorecards' = scorecards \cup {[row EXCEPT !.version = v, !.recipe = r]}
    BY <1>5 DEF Publish
  <2>2. row \in scorecards /\ row \in Score /\ IsPending(row) /\ row.recipe = r
    BY <1>1 DEF PendingRows
  <2>3. [row EXCEPT !.version = v, !.recipe = r] \in Score
    BY <2>2 DEF Score
  <2>4. ~IsPending([row EXCEPT !.version = v, !.recipe = r])
    BY <2>2, ServiceAssumption DEF Score, IsPending
  <2>5. Certifies([row EXCEPT !.version = v, !.recipe = r], row)
    BY <2>1, <2>2, <2>4 DEF Score, Certifies
  <2>6. QED
    BY <2>1, <2>2, <2>3, <2>5
<1>6. ASSUME NEW t \in Tenants, ChangeDocuments(t)
      PROVE  ChangeDocuments(t) /\ scorecards' = scorecards \ Dropped(t)
  BY <1>6 DEF ChangeDocuments, DropPendingScorecards
<1>7. ASSUME Crash \/ Start \/ Tick \/ UNCHANGED vars
      PROVE  UNCHANGED scorecards
  BY <1>7 DEF Crash, Start, Tick, tables, vars
<1>8. QED
  BY <1>2, <1>3, <1>4, <1>5, <1>6, <1>7 DEF Next, TaskStep

(***************************************************************************)
(* Evaluations of one recipe, however they overlap, leave at most one      *)
(* pending score: the upsert on the partial unique index.                  *)
(***************************************************************************)
THEOREM OneScorePending == Spec => []OnePending
<1>1. Init => OnePending
  BY DEF Init, OnePending
<1>2. ASSUME TypeOK, OnePending, [Next]_vars
      PROVE  OnePending'
  <2>1. CASE UNCHANGED scorecards
    BY <2>1, <1>2 DEF OnePending, IsPending
  <2>2. ASSUME NEW row \in Score, IsPending(row), scorecards' = Upserted(row)
        PROVE  OnePending'
    BY <2>2, <1>2 DEF OnePending, IsPending, Upserted
  <2>3. ASSUME NEW row \in Score, ~IsPending(row), scorecards' = scorecards \cup {row}
        PROVE  OnePending'
    BY <2>3, <1>2 DEF OnePending, IsPending
  <2>4. ASSUME NEW s \in Tenants, scorecards' = scorecards \ Dropped(s)
        PROVE  OnePending'
    BY <2>4, <1>2 DEF OnePending, IsPending
  <2>5. QED
    BY <1>2, <2>1, <2>2, <2>3, <2>4, ScoresChange DEF Certifies
<1>3. QED
  BY <1>1, <1>2, ServiceTypeCorrect, PTL DEF Spec

(***************************************************************************)
(* No evaluation and no change of documents touches a certificate.         *)
(***************************************************************************)
THEOREM CertificatesRemain == Spec => CertificatesStand
<1> DEFINE Stands == \A r \in scorecards : ~IsPending(r) => r \in scorecards'
<1>1. ASSUME TypeOK, [Next]_vars
      PROVE  Stands
  BY <1>1, ScoresChange DEF Upserted, Dropped
<1>2. TypeOK /\ [Next]_vars => [Stands]_vars
  BY <1>1
<1>3. QED
  BY <1>2, ServiceTypeCorrect, PTL DEF Spec, CertificatesStand
-----------------------------------------------------------------------------
(***************************************************************************)
(* What a step does to a job that exists.                                  *)
(***************************************************************************)
\* It keeps its owner, and if it has ended it keeps everything.
Keeps(j) == /\ j \in DOMAIN jobs'
            /\ jobs'[j].tenant = jobs[j].tenant
            /\ jobs'[j].recipe = jobs[j].recipe
            /\ jobs[j].status # "running" => jobs'[j] = jobs[j]

\* An UPDATE keeps owners and, by its WHERE clause, ended jobs.
LEMMA UpdateKeeps ==
  ASSUME JobsType, NEW s, NEW i, NEW row, NEW j \in DOMAIN jobs, Update(s, i, row),
         i \in DOMAIN jobs => row.tenant = jobs[i].tenant /\ row.recipe = jobs[i].recipe
  PROVE  Keeps(j)
<1>1. CASE ~Updatable(s, i)
  BY <1>1 DEF Update, Keeps
<1>2. CASE Updatable(s, i)
  <2>1. /\ jobs' = [jobs EXCEPT ![i] = row]
        /\ jobs[i].status = "running" /\ i \in DOMAIN jobs
    BY <1>2 DEF Update, Updatable
  <2>2. CASE j = i
    BY <2>1, <2>2 DEF Keeps
  <2>3. CASE j # i
    BY <2>1, <2>3 DEF Keeps
  <2>4. QED
    BY <2>2, <2>3
<1>3. QED
  BY <1>1, <1>2

\* A sweep keeps owners and ended jobs.
LEMMA SweepKeeps ==
  ASSUME JobsType, NEW S, SweepStaleJobs(S), NEW j \in DOMAIN jobs
  PROVE  Keeps(j)
<1>1. jobs[j] \in Job
  BY DEF JobsType
<1>2. CASE Stale(jobs[j]) /\ \E s \in S : Visible(s, jobs[j].tenant)
  <2>1. jobs'[j] = [jobs[j] EXCEPT !.status = "failed", !.detail = "interrupted",
                                   !.updated = now]
    BY <1>2 DEF SweepStaleJobs
  <2>2. \A row \in Job : LET swept == [row EXCEPT !.status = "failed",
                                      !.detail = "interrupted", !.updated = now]
                        IN  swept.tenant = row.tenant /\ swept.recipe = row.recipe
    BY DEF Job
  <2>3. jobs[j].status = "running"
    BY <1>2 DEF Stale
  <2>4. QED
    BY <1>1, <2>1, <2>2, <2>3 DEF SweepStaleJobs, Keeps
<1>3. CASE ~(Stale(jobs[j]) /\ \E s \in S : Visible(s, jobs[j].tenant))
  BY <1>3 DEF SweepStaleJobs, Keeps
<1>4. QED
  BY <1>2, <1>3

\* The rows a task writes keep the owner of the row they replace.
LEMMA TaskKeeps ==
  ASSUME JobsType, NEW i, NEW j \in DOMAIN jobs, NEW s, NEW d, NEW n,
         RecordJobProgress(s, i, d, n) \/ FinishEvalJob(s, i) \/ FailEvalJob(s, i)
  PROVE  Keeps(j)
<1>1. i \in DOMAIN jobs => jobs[i] \in Job
  BY DEF JobsType
<1>2. \A row \in Job :
        /\ LET w == [row EXCEPT !.done = d, !.total = n, !.updated = now]
           IN  w.tenant = row.tenant /\ w.recipe = row.recipe
        /\ LET w == [row EXCEPT !.status = "done", !.updated = now]
           IN  w.tenant = row.tenant /\ w.recipe = row.recipe
        /\ LET w == [row EXCEPT !.status = "failed", !.detail = "error", !.updated = now]
           IN  w.tenant = row.tenant /\ w.recipe = row.recipe
  BY DEF Job
<1>3. CASE RecordJobProgress(s, i, d, n)
  BY <1>1, <1>2, <1>3, UpdateKeeps DEF RecordJobProgress, Progressed
<1>4. CASE FinishEvalJob(s, i)
  BY <1>1, <1>2, <1>4, UpdateKeeps DEF FinishEvalJob
<1>5. CASE FailEvalJob(s, i)
  BY <1>1, <1>2, <1>5, UpdateKeeps DEF FailEvalJob
<1>6. QED
  BY <1>3, <1>4, <1>5

\* Whatever the step, a job keeps its owner, and an ended one its row.
LEMMA JobsKept ==
  ASSUME TypeOK, [Next]_vars, NEW j \in DOMAIN jobs
  PROVE  Keeps(j)
<1>1. JobsType
  BY TypeParts
<1>2. CASE UNCHANGED jobs
  BY <1>2 DEF Keeps
<1>3. ASSUME NEW t \in Tenants, NEW r \in Recipes, NEW i \in JobIds, Evaluate(t, r, i)
      PROVE  Keeps(j)
  BY <1>3 DEF Evaluate, CreateEvalJob, Keeps
<1>4. ASSUME NEW i \in JobIds, TaskStep(i)
      PROVE  Keeps(j)
  BY <1>1, <1>2, <1>4, TaskKeeps
     DEF TaskStep, CaseDone, StoreScore, FinishJob, EvaluationFails
<1>5. ASSUME Start
      PROVE  Keeps(j)
  BY <1>1, <1>5, SweepKeeps DEF Start
<1>6. ASSUME NEW t \in Tenants, NEW r \in Recipes, Publish(t, r)
      PROVE  UNCHANGED jobs
  BY <1>6 DEF Publish
<1>7. ASSUME Crash \/ Tick \/ UNCHANGED vars \/ \E t \in Tenants : ChangeDocuments(t)
      PROVE  UNCHANGED jobs
  BY <1>7 DEF Crash, Tick, ChangeDocuments, tables, vars
<1>8. QED
  BY <1>2, <1>3, <1>4, <1>5, <1>6, <1>7 DEF Next

(***************************************************************************)
(* A job that ended stays as it ended, whatever a task left over from      *)
(* before a sweep still writes (WHERE status = 'running').                 *)
(***************************************************************************)
THEOREM EndedJobsStayEnded == Spec => EndedStaysEnded
<1> DEFINE Stays == \A j \in DOMAIN jobs : jobs[j].status # "running" => jobs'[j] = jobs[j]
<1>1. TypeOK /\ [Next]_vars => [Stays]_vars
  BY JobsKept DEF Keeps
<1>2. QED
  BY <1>1, ServiceTypeCorrect, PTL DEF Spec, EndedStaysEnded
-----------------------------------------------------------------------------
(***************************************************************************)
(* Certificates.                                                           *)
(***************************************************************************)
\* Inductive: pending scores too are of their job, and certificates are PASSes.
Owned == \A r \in scorecards : OfItsJob(r) /\ (~IsPending(r) => r.verdict = "PASS")

\* A score of its job stays so.
LEMMA OwnerStays ==
  ASSUME TypeOK, [Next]_vars, NEW r, OfItsJob(r)
  PROVE  /\ r.job \in DOMAIN jobs'
         /\ jobs'[r.job].tenant = r.tenant
         /\ jobs'[r.job].recipe = r.recipe
BY JobsKept DEF Keeps, OfItsJob

\* No step leaves a score that is not of its job, or a certificate without a PASS.
LEMMA OwnedStep ==
  ASSUME TypeOK, Owned, [Next]_vars
  PROVE  Owned'
<1> DEFINE Good(r) == OfItsJob(r) /\ (~IsPending(r) => r.verdict = "PASS")
<1>1. \A r \in scorecards' : Good(r)
  <2>1. \A r \in scorecards : Good(r)
    BY DEF Owned
  <2>2. ASSUME NEW row \in Score, IsPending(row), OfItsJob(row), scorecards' = Upserted(row)
        PROVE  \A r \in scorecards' : Good(r)
    BY <2>1, <2>2 DEF Upserted
  <2>3. ASSUME NEW row \in Score, NEW p \in scorecards, Certifies(row, p),
               scorecards' = scorecards \cup {row}
        PROVE  \A r \in scorecards' : Good(r)
    BY <2>1, <2>3 DEF Certifies, OfItsJob
  <2>4. QED
    BY <2>1, <2>2, <2>3, ScoresChange
<1>2. ASSUME NEW r \in scorecards'
      PROVE  /\ r.job \in DOMAIN jobs'
             /\ jobs'[r.job].tenant = r.tenant
             /\ jobs'[r.job].recipe = r.recipe
             /\ ~IsPending(r) => r.verdict = "PASS"
  BY <1>1, OwnerStays
<1>3. QED
  BY <1>2 DEF Owned, OfItsJob, IsPending

(***************************************************************************)
(* A certificate carries a PASS that some evaluation computed for the same *)
(* tenant and recipe: what Publish reads by recipe under the tenant policy *)
(* is nobody else's score.                                                 *)
(***************************************************************************)
THEOREM CertificatesAreEarned == Spec => []CertificateIsEarned
<1>1. Init => Owned
  BY DEF Init, Owned
<1>2. TypeOK /\ Owned /\ [Next]_vars => Owned'
  BY OwnedStep
<1>3. Owned => CertificateIsEarned
  BY DEF Owned, OfItsJob, CertificateIsEarned
<1>4. QED
  BY <1>1, <1>2, <1>3, ServiceTypeCorrect, PTL DEF Spec
-----------------------------------------------------------------------------
(***************************************************************************)
(* Where a job stands between its score and its end.                       *)
(***************************************************************************)
\* A job comes to be done only by the last step of its task.
LEMMA BecomesDone ==
  ASSUME TypeOK, [Next]_vars, NEW j \in DOMAIN jobs', jobs'[j].status = "done"
  PROVE  /\ j \in DOMAIN jobs
         /\ jobs[j].status = "done" \/ (task[j].step = "finishing" /\ task'[j] = NoTask)
<1>1. JobsType /\ TasksType
  BY TypeParts
<1>2. CASE UNCHANGED jobs
  BY <1>2
<1>3. ASSUME NEW t \in Tenants, NEW r \in Recipes, NEW i \in JobIds, Evaluate(t, r, i)
      PROVE  j \in DOMAIN jobs /\ jobs[j].status = "done"
  BY <1>3 DEF Evaluate, CreateEvalJob, NewJob
<1>4. ASSUME NEW i \in JobIds, CaseDone(i) \/ EvaluationFails(i)
      PROVE  j \in DOMAIN jobs /\ jobs[j].status = "done"
  <2>1. \A row \in Job :
          /\ \A n : [row EXCEPT !.done = task'[i].cases, !.total = Total, !.updated = n].status
                     = row.status
          /\ \A n : [row EXCEPT !.status = "failed", !.detail = "error", !.updated = n].status
                     = "failed"
    BY DEF Job
  <2>2. \A k \in DOMAIN jobs : jobs[k] \in Job
    BY <1>1 DEF JobsType
  <2>3. CASE RecordJobProgress(jobs[i].tenant, i, task'[i].cases, Total)
    BY <2>1, <2>2, <2>3 DEF RecordJobProgress, Progressed, Update, Updatable
  <2>4. CASE FailEvalJob(jobs[i].tenant, i)
    BY <2>1, <2>2, <2>4 DEF FailEvalJob, Update, Updatable
  <2>5. QED
    BY <1>2, <1>4, <2>3, <2>4 DEF CaseDone, EvaluationFails
<1>5. ASSUME NEW i \in JobIds, FinishJob(i)
      PROVE  /\ j \in DOMAIN jobs
             /\ jobs[j].status = "done" \/ (task[j].step = "finishing" /\ task'[j] = NoTask)
  <2>1. j = i => task[j].step = "finishing" /\ task'[j] = NoTask
    BY <1>1, <1>5 DEF FinishJob, TasksType, TaskEnds
  <2>2. j \in DOMAIN jobs /\ (j # i => jobs'[j] = jobs[j])
    BY <1>5 DEF FinishJob, FinishEvalJob, Update, Updatable
  <2>3. QED
    BY <2>1, <2>2
<1>6. CASE Start
  <2>1. DOMAIN jobs' = DOMAIN jobs
    BY <1>6 DEF Start, SweepStaleJobs
  <2>2. jobs[j] \in Job
    BY <1>1, <2>1 DEF JobsType
  <2>3. \A row \in Job : \A n : [row EXCEPT !.status = "failed", !.detail = "interrupted",
                                            !.updated = n].status = "failed"
    BY DEF Job
  <2>4. QED
    BY <1>6, <2>1, <2>2, <2>3 DEF Start, SweepStaleJobs
<1>7. QED
  BY <1>2, <1>3, <1>4, <1>5, <1>6
     DEF Next, TaskStep, StoreScore, Publish, ChangeDocuments, Crash, Tick, tables, vars

\* A task comes to its last step by storing a score, and evaluates from its job's start.
LEMMA TaskMoves ==
  ASSUME TypeOK, [Next]_vars, NEW j \in JobIds
  PROVE  /\ task'[j].step = "finishing" =>
              task[j].step = "finishing" \/ \E v \in {"PASS", "FAIL"} : StoreScore(j, v)
         /\ Evaluating(j)' => Evaluating(j) \/ (j \notin DOMAIN jobs
                                                /\ jobs'[j].status = "running")
<1> DEFINE Moves ==
      /\ task'[j].step = "finishing" =>
           task[j].step = "finishing" \/ \E v \in {"PASS", "FAIL"} : StoreScore(j, v)
      /\ Evaluating(j)' => Evaluating(j) \/ (j \notin DOMAIN jobs
                                             /\ jobs'[j].status = "running")
<1>1. TasksType
  BY TypeParts
<1>2. CASE task'[j] = task[j] \/ task'[j] = NoTask
  BY <1>2 DEF Evaluating, NoTask
<1>3. ASSUME NEW t \in Tenants, NEW r \in Recipes, NEW i \in JobIds, Evaluate(t, r, i)
      PROVE  Moves
  BY <1>1, <1>3 DEF Evaluate, CreateEvalJob, NewJob, NoTask, TasksType, Tasks, Evaluating
<1>4. ASSUME NEW i \in JobIds, CaseDone(i)
      PROVE  Moves
  <2>1. task'[j].step = task[j].step
    BY <1>1, <1>4 DEF CaseDone, TasksType, Tasks
  <2>2. QED
    BY <2>1 DEF Evaluating
<1>5. ASSUME NEW i \in JobIds, NEW v \in {"PASS", "FAIL"}, StoreScore(i, v)
      PROVE  Moves
  <2>1. CASE i = j
    BY <1>1, <1>5, <2>1 DEF StoreScore, TasksType, Tasks, NoTask, Evaluating
  <2>2. CASE i # j
    BY <1>1, <1>5, <2>2 DEF StoreScore, TasksType, Evaluating
  <2>3. QED
    BY <2>1, <2>2
<1>6. ASSUME NEW i \in JobIds, FinishJob(i) \/ EvaluationFails(i)
      PROVE  task'[j] = task[j] \/ task'[j] = NoTask
  BY <1>1, <1>6 DEF FinishJob, EvaluationFails, TaskEnds, TasksType
<1>7. ASSUME Crash
      PROVE  task'[j] = NoTask
  BY <1>7 DEF Crash
<1>8. ASSUME \/ Start \/ Tick \/ UNCHANGED vars
             \/ \E t \in Tenants : ChangeDocuments(t)
             \/ \E t \in Tenants, r \in Recipes : Publish(t, r)
      PROVE  task'[j] = task[j]
  BY <1>8 DEF Publish, ChangeDocuments, Start, Tick, tables, vars
<1>9. QED
  BY <1>2, <1>3, <1>4, <1>5, <1>6, <1>7, <1>8 DEF Next, TaskStep

\* Only a change of its tenant's documents sets a job apart.
LEMMA SetApart ==
  ASSUME TypeOK, [Next]_vars
  PROVE  \/ droppedOn' = droppedOn
         \/ \E t \in Tenants :
              /\ ChangeDocuments(t)
              /\ droppedOn' = droppedOn \cup {j \in DOMAIN jobs : /\ jobs[j].tenant = t
                                                                 /\ ~Evaluating(j)}
BY DEF Next, TaskStep, Evaluate, CaseDone, StoreScore, FinishJob, EvaluationFails, Publish,
       ChangeDocuments, Crash, Start, Tick, history, vars

\* A pending score of a tenant's recipe.
HasScore(tenant, recipe) ==
  \E p \in scorecards : IsPending(p) /\ p.tenant = tenant /\ p.recipe = recipe

\* Only a change of the tenant's own documents takes its pending scores away.
LEMMA ScoreStays ==
  ASSUME TypeOK, [Next]_vars, NEW t, NEW r, HasScore(t, r), ~ChangeDocuments(t)
  PROVE  HasScore(t, r)'
<1>1. PICK p \in scorecards : IsPending(p) /\ p.tenant = t /\ p.recipe = r
  BY DEF HasScore
<1>2. CASE UNCHANGED scorecards
  BY <1>1, <1>2 DEF HasScore, IsPending
<1>3. ASSUME NEW row \in Score, IsPending(row), scorecards' = Upserted(row)
      PROVE  HasScore(t, r)'
  BY <1>1, <1>3 DEF HasScore, IsPending, Upserted
<1>4. ASSUME NEW row \in Score, scorecards' = scorecards \cup {row}
      PROVE  HasScore(t, r)'
  BY <1>1, <1>4 DEF HasScore, IsPending
<1>5. ASSUME NEW s \in Tenants, ChangeDocuments(s), scorecards' = scorecards \ Dropped(s)
      PROVE  HasScore(t, r)'
  <2>1. s # t
    BY <1>5
  <2>2. p \in scorecards'
    BY <1>1, <1>5, <2>1 DEF Dropped, Visible
  <2>3. QED
    BY <1>1, <2>2 DEF HasScore, IsPending
<1>6. QED
  BY <1>2, <1>3, <1>4, <1>5, ScoresChange

\* Inductive: scores are promised from the last step of the task on, and an
\* evaluating task is neither set apart nor of a job that is done.
Promised(j) == jobs[j].status = "done" \/ task[j].step = "finishing"

ScoreReady ==
  /\ \A j \in DOMAIN jobs \ droppedOn : Promised(j) => HasScore(jobs[j].tenant, jobs[j].recipe)
  /\ \A j \in DOMAIN jobs : Evaluating(j) => jobs[j].status # "done" /\ j \notin droppedOn

\* A task that stores its score gives its job one.
LEMMA StoreGives ==
  ASSUME TypeOK, NEW j \in JobIds, NEW v \in {"PASS", "FAIL"}, StoreScore(j, v)
  PROVE  HasScore(jobs[j].tenant, jobs[j].recipe)'
<1>1. scorecards' = Upserted(NewScore(j, v)) /\ jobs' = jobs
  BY DEF StoreScore, WritePendingScorecard
<1>2. NewScore(j, v) \in scorecards'
  BY <1>1 DEF Upserted
<1>3. /\ IsPending(NewScore(j, v))
      /\ NewScore(j, v).tenant = jobs'[j].tenant
      /\ NewScore(j, v).recipe = jobs'[j].recipe
  BY <1>1 DEF NewScore, IsPending
<1>4. QED
  BY <1>2, <1>3 DEF HasScore, IsPending

\* No step takes away a promised score of a job that is not set apart.
LEMMA ReadyStep ==
  ASSUME TypeOK, ScoreReady, [Next]_vars
  PROVE  ScoreReady'
<1>1. JobsType /\ RestType
  BY TypeParts
<1>2. ASSUME NEW j \in DOMAIN jobs', j \notin droppedOn', Promised(j)'
      PROVE  HasScore(jobs[j].tenant, jobs[j].recipe)'
  <2>1. j \in DOMAIN jobs
    <3>1. j \in JobIds
      BY <1>2, TypeStep DEF TypeOK
    <3>2. CASE jobs'[j].status = "done"
      BY <1>2, <3>2, BecomesDone
    <3>3. CASE task'[j].step = "finishing"
      BY <3>1, <3>3, TaskMoves, TaskSteps, TypeParts DEF TasksType, StoreScore
    <3>4. QED
      BY <1>2, <3>2, <3>3 DEF Promised
  <2>2. j \in JobIds /\ j \notin droppedOn
    BY <1>1, <1>2, <2>1, SetApart DEF JobsType
  <2>3. jobs'[j].tenant = jobs[j].tenant /\ jobs'[j].recipe = jobs[j].recipe
    BY <2>1, JobsKept DEF Keeps
  <2>4. Promised(j) \/ \E v \in {"PASS", "FAIL"} : StoreScore(j, v)
    BY <1>2, <2>2, BecomesDone, TaskMoves DEF Promised
  <2>5. CASE \E v \in {"PASS", "FAIL"} : StoreScore(j, v)
    BY <2>2, <2>5, StoreGives
  <2>6. CASE Promised(j)
    <3>1. HasScore(jobs[j].tenant, jobs[j].recipe)
      BY <2>1, <2>2, <2>6 DEF ScoreReady
    <3>2. ~ChangeDocuments(jobs[j].tenant)
      BY <1>2, <2>1, <2>6 DEF ScoreReady, Promised, ChangeDocuments, Evaluating
    <3>3. ASSUME NEW t, NEW r, t = jobs[j].tenant, r = jobs[j].recipe
          PROVE  \E p \in scorecards' : IsPending(p) /\ p.tenant = t /\ p.recipe = r
      <4>1. HasScore(t, r)'
        BY <3>1, <3>2, <3>3, ScoreStays DEF HasScore
      <4>2. QED
        BY <4>1 DEF HasScore, IsPending
    <3>4. QED
      BY <2>3, <3>3 DEF HasScore, IsPending
  <2>7. QED
    BY <2>4, <2>5, <2>6
<1>3. ASSUME NEW j \in DOMAIN jobs', Evaluating(j)'
      PROVE  jobs'[j].status # "done" /\ j \notin droppedOn'
  <2>1. j \in JobIds
    BY TypeStep DEF TypeOK
  <2>2. CASE j \notin DOMAIN jobs /\ jobs'[j].status = "running"
    BY <1>1, <2>2, SetApart DEF RestType
  <2>3. CASE Evaluating(j) /\ j \in DOMAIN jobs
    BY <1>3, <2>3, BecomesDone, SetApart DEF ScoreReady, Evaluating, NoTask
  <2>4. Evaluating(j) => j \in DOMAIN jobs
    BY <2>1, TypeParts, TaskSteps DEF TasksType
  <2>5. QED
    BY <1>3, <2>1, <2>2, <2>3, <2>4, TaskMoves
<1>4. QED
  BY <1>2, <1>3 DEF ScoreReady

(***************************************************************************)
(* A client that sees a job done finds a pending score of its recipe,      *)
(* unless its own tenant's documents changed since it was stored: no other *)
(* tenant, evaluation or publication takes it away.                        *)
(***************************************************************************)
THEOREM DoneJobsHaveScores == Spec => []DoneHasScore
<1>1. Init => ScoreReady
  BY DEF Init, ScoreReady, Evaluating, NoTask
<1>2. TypeOK /\ ScoreReady /\ [Next]_vars => ScoreReady'
  BY ReadyStep
<1>3. TypeOK /\ ScoreReady => DoneHasScore
  BY TypeParts, ServiceAssumption
     DEF ScoreReady, Promised, HasScore, DoneHasScore, PendingRows, Visible, JobsType, Job
<1>4. QED
  BY <1>1, <1>2, <1>3, ServiceTypeCorrect, PTL DEF Spec

\* What a step does to the pending scores and to the jobs set apart.
LEMMA OutlivesStep ==
  ASSUME TypeOK, Owned, ScoreReady, NoScoreOutlivesItsDocuments, [Next]_vars
  PROVE  NoScoreOutlivesItsDocuments'
<1>1. ASSUME NEW r \in scorecards', IsPending(r)
      PROVE  r.job \notin droppedOn
  <2>1. CASE r \in scorecards
    BY <1>1, <2>1 DEF NoScoreOutlivesItsDocuments
  <2>2. CASE r \notin scorecards
    <3>1. OfItsJob(r) /\ Evaluating(r.job)
      BY <1>1, <2>2, ScoresChange DEF Upserted, Certifies
    <3>2. QED
      BY <3>1 DEF ScoreReady, OfItsJob
  <2>3. QED
    BY <2>1, <2>2
<1>2. ASSUME NEW t \in Tenants, ChangeDocuments(t), NEW r \in scorecards', IsPending(r),
             r.job \in {j \in DOMAIN jobs : jobs[j].tenant = t /\ ~Evaluating(j)}
      PROVE  FALSE
  <2>1. scorecards' = scorecards \ Dropped(t)
    BY <1>2 DEF ChangeDocuments, DropPendingScorecards
  <2>2. r \in scorecards /\ r.tenant = t
    BY <1>2, <2>1 DEF Owned, OfItsJob
  <2>3. QED
    BY <1>2, <2>1, <2>2, ServiceAssumption DEF Dropped, Visible
<1>3. QED
  BY <1>1, <1>2, SetApart DEF NoScoreOutlivesItsDocuments, IsPending

(***************************************************************************)
(* No pending score stored before a change of its tenant's documents is    *)
(* left after it: the drop reaches whatever an evaluation stored.          *)
(***************************************************************************)
THEOREM DropsAreComplete == Spec => []NoScoreOutlivesItsDocuments
<1>1. Init => Owned /\ ScoreReady /\ NoScoreOutlivesItsDocuments
  BY DEF Init, Owned, ScoreReady, NoScoreOutlivesItsDocuments
<1>2. TypeOK /\ Owned /\ ScoreReady /\ NoScoreOutlivesItsDocuments /\ [Next]_vars
        => (Owned /\ ScoreReady /\ NoScoreOutlivesItsDocuments)'
  BY OwnedStep, ReadyStep, OutlivesStep
<1>3. QED
  BY <1>1, <1>2, ServiceTypeCorrect, PTL DEF Spec
-----------------------------------------------------------------------------
(***************************************************************************)
(* The sweep.                                                              *)
(***************************************************************************)
\* Inductive: a running job's row says when it was last reported on.
BeatIsKept == \A j \in DOMAIN jobs : jobs[j].status = "running" => jobs[j].updated = beat[j]

\* A job's own session sees it.
LEMMA OwnSession ==
  ASSUME JobsType, NEW j \in DOMAIN jobs
  PROVE  Visible(jobs[j].tenant, jobs[j].tenant)
BY ServiceAssumption DEF JobsType, Job, Visible

\* An UPDATE that writes the present time, by whoever reports it, or ends the job.
LEMMA UpdateBeats ==
  ASSUME JobsType, RestType, BeatIsKept, NEW i \in DOMAIN jobs, NEW row,
         Update(jobs[i].tenant, i, row),
         \/ row.updated = now /\ beat' = [beat EXCEPT ![i] = now]
         \/ row.status # "running" /\ beat' = beat
  PROVE  BeatIsKept'
<1>1. CASE Updatable(jobs[i].tenant, i)
  BY <1>1 DEF Update, Updatable, BeatIsKept, JobsType, RestType
<1>2. CASE ~Updatable(jobs[i].tenant, i)
  BY <1>2, OwnSession DEF Update, Updatable, BeatIsKept, JobsType, RestType
<1>3. QED
  BY <1>1, <1>2

\* Every report writes the row's time, and every end the row's status.
LEMMA BeatStep ==
  ASSUME TypeOK, BeatIsKept, [Next]_vars
  PROVE  BeatIsKept'
<1>1. JobsType /\ TasksType /\ RestType
  BY TypeParts
<1>2. CASE UNCHANGED <<jobs, beat>>
  BY <1>2 DEF BeatIsKept
<1>3. ASSUME NEW t \in Tenants, NEW r \in Recipes, NEW j \in JobIds, Evaluate(t, r, j)
      PROVE  BeatIsKept'
  BY <1>1, <1>3 DEF Evaluate, CreateEvalJob, NewJob, BeatIsKept, JobsType, RestType
<1>4. \A row \in Job :
        /\ \A d, n : [row EXCEPT !.done = d, !.total = n, !.updated = now].updated = now
        /\ [row EXCEPT !.status = "done", !.updated = now].status = "done"
        /\ [row EXCEPT !.status = "failed", !.detail = "error", !.updated = now].status
             = "failed"
        /\ [row EXCEPT !.status = "failed", !.detail = "interrupted", !.updated = now].status
             = "failed"
  BY DEF Job
<1>5. ASSUME NEW j \in JobIds, TaskStep(j)
      PROVE  BeatIsKept'
  <2>1. j \in DOMAIN jobs /\ jobs[j] \in Job
    BY <1>1, <1>5, TaskSteps DEF TaskStep, CaseDone, StoreScore, FinishJob, EvaluationFails,
                                TasksType, JobsType
  <2>2. CASE /\ RecordJobProgress(jobs[j].tenant, j, task'[j].cases, Total)
             /\ beat' = [beat EXCEPT ![j] = now]
    <3>1. Progressed(j, task'[j].cases, Total).updated = now
      BY <1>4, <2>1 DEF Progressed
    <3>2. QED
      BY <1>1, <2>1, <2>2, <3>1, UpdateBeats DEF RecordJobProgress
  <2>3. CASE FinishEvalJob(jobs[j].tenant, j) /\ beat' = beat
    <3>1. [jobs[j] EXCEPT !.status = "done", !.updated = now].status # "running"
      BY <1>4, <2>1
    <3>2. QED
      BY <1>1, <2>1, <2>3, <3>1, UpdateBeats DEF FinishEvalJob
  <2>4. CASE FailEvalJob(jobs[j].tenant, j) /\ beat' = beat
    <3>1. [jobs[j] EXCEPT !.status = "failed", !.detail = "error", !.updated = now].status
            # "running"
      BY <1>4, <2>1
    <3>2. QED
      BY <1>1, <2>1, <2>4, <3>1, UpdateBeats DEF FailEvalJob
  <2>5. QED
    BY <1>2, <1>5, <2>2, <2>3, <2>4
       DEF TaskStep, CaseDone, StoreScore, FinishJob, EvaluationFails, history
<1>6. CASE Start
  <2>1. DOMAIN jobs' = DOMAIN jobs /\ beat' = beat
    BY <1>6 DEF Start, SweepStaleJobs, history
  <2>2. ASSUME NEW j \in DOMAIN jobs, jobs'[j].status = "running"
        PROVE  jobs'[j] = jobs[j]
    BY <1>1, <1>4, <1>6, <2>2 DEF Start, SweepStaleJobs, JobsType
  <2>3. QED
    BY <2>1, <2>2 DEF BeatIsKept
<1>7. QED
  BY <1>2, <1>3, <1>5, <1>6
     DEF Next, Publish, ChangeDocuments, Crash, Tick, tables, history, vars

\* Only a sweep interrupts a job, and it takes stale rows only.
LEMMA Interrupts ==
  ASSUME TypeOK, [Next]_vars, NEW j \in DOMAIN jobs,
         jobs[j].detail = "none", jobs'[j].detail = "interrupted"
  PROVE  Stale(jobs[j])
<1>1. JobsType /\ TasksType
  BY TypeParts
<1>2. jobs'[j] # jobs[j]
  OBVIOUS
<1>3. jobs[j] \in Job
  BY <1>1 DEF JobsType
<1>4. \A row \in Job :
        /\ \A d, n, u : [row EXCEPT !.done = d, !.total = n, !.updated = u].detail = row.detail
        /\ \A u : [row EXCEPT !.status = "done", !.updated = u].detail = row.detail
        /\ \A u : [row EXCEPT !.status = "failed", !.detail = "error", !.updated = u].detail
                    = "error"
  BY DEF Job
<1>5. ASSUME NEW i \in JobIds, NEW s, NEW d, NEW n,
             RecordJobProgress(s, i, d, n) \/ FinishEvalJob(s, i) \/ FailEvalJob(s, i)
      PROVE  FALSE
  <2>1. i # j => jobs'[j] = jobs[j]
    BY <1>5 DEF RecordJobProgress, FinishEvalJob, FailEvalJob, Update, Updatable
  <2>2. i = j /\ Updatable(s, i)
    BY <1>2, <1>5, <2>1 DEF RecordJobProgress, FinishEvalJob, FailEvalJob, Update
  <2>3. jobs'[j].detail \in {jobs[j].detail, "error"}
    <3>1. CASE RecordJobProgress(s, i, d, n)
      <4>1. jobs'[j] = Progressed(j, d, n)
        BY <2>2, <3>1 DEF RecordJobProgress, Update, Updatable
      <4>2. QED
        BY <1>3, <1>4, <4>1 DEF Progressed
    <3>2. CASE FinishEvalJob(s, i)
      <4>1. jobs'[j] = [jobs[j] EXCEPT !.status = "done", !.updated = now]
        BY <2>2, <3>2 DEF FinishEvalJob, Update, Updatable
      <4>2. QED
        BY <1>3, <1>4, <4>1
    <3>3. CASE FailEvalJob(s, i)
      <4>1. jobs'[j] = [jobs[j] EXCEPT !.status = "failed", !.detail = "error", !.updated = now]
        BY <2>2, <3>3 DEF FailEvalJob, Update, Updatable
      <4>2. QED
        BY <1>3, <1>4, <4>1
    <3>4. QED
      BY <1>5, <3>1, <3>2, <3>3
  <2>4. QED
    BY <2>3
<1>6. ASSUME NEW i \in JobIds
      PROVE  ~TaskStep(i)
  BY <1>2, <1>5 DEF TaskStep, CaseDone, StoreScore, FinishJob, EvaluationFails
<1>7. ASSUME NEW t \in Tenants, NEW r \in Recipes, NEW i \in JobIds
      PROVE  ~Evaluate(t, r, i)
  BY <1>2 DEF Evaluate, CreateEvalJob
<1>8. Start
  BY <1>2, <1>6, <1>7 DEF Next, Publish, ChangeDocuments, Crash, Tick, tables, vars
<1>9. QED
  BY <1>2, <1>8 DEF Start, SweepStaleJobs

(***************************************************************************)
(* A sweep interrupts only jobs that nobody reported on within StaleAfter, *)
(* however many instances start while their tasks run.                     *)
(***************************************************************************)
THEOREM LivingJobsAreSpared == Spec => SweepSparesTheLiving
<1> DEFINE Spares == \A j \in DOMAIN jobs :
                       jobs[j].detail = "none" /\ jobs'[j].detail = "interrupted"
                         => now - beat[j] > StaleAfter
<1>1. Init => BeatIsKept
  BY DEF Init, BeatIsKept
<1>2. TypeOK /\ BeatIsKept /\ [Next]_vars => BeatIsKept'
  BY BeatStep
<1>3. ASSUME TypeOK, BeatIsKept, [Next]_vars
      PROVE  Spares
  <2>1. ASSUME NEW j \in DOMAIN jobs, Stale(jobs[j])
        PROVE  now - beat[j] > StaleAfter
    <3>1. jobs[j].updated = beat[j] /\ beat[j] < now - StaleAfter
      BY <1>3, <2>1 DEF BeatIsKept, Stale
    <3>2. now \in Nat /\ beat[j] \in Nat /\ StaleAfter \in Nat
      BY <1>3, ServiceAssumption DEF TypeOK
    <3>3. QED
      BY <3>1, <3>2
  <2>2. QED
    BY <1>3, <2>1, Interrupts
<1>4. TypeOK /\ BeatIsKept /\ [Next]_vars => [Spares]_vars
  BY <1>3
<1>5. QED
  BY <1>1, <1>2, <1>4, ServiceTypeCorrect, PTL DEF Spec, SweepSparesTheLiving
-----------------------------------------------------------------------------
(***************************************************************************)
(* What EveryJobEnds rests on: who will end a job that is running.         *)
(***************************************************************************)
\* While an instance runs, every running job has a task that will end it.
NoOrphans == downSince = Up => \A j \in JobIds : Running(j) => task[j].step # "none"

\* Inductive: nobody reports on a job in the future, or after the instance died.
Silent == /\ \A j \in JobIds : beat[j] <= now
          /\ downSince # Up => /\ downSince <= now
                               /\ \A j \in JobIds : /\ task[j] = NoTask
                                                     /\ beat[j] <= downSince

\* Only a running instance reports, and it reports at the present time.
LEMMA SilentStep ==
  ASSUME TypeOK, Silent, [Next]_vars
  PROVE  Silent'
<1>1. TasksType /\ RestType
  BY TypeParts
<1>2. now \in Nat /\ \A j \in JobIds : beat[j] \in Nat
  BY <1>1, ServiceAssumption DEF RestType
<1>3. ASSUME downSince = Up, downSince' = Up, now' = now,
             beat' = beat \/ \E j \in JobIds : beat' = [beat EXCEPT ![j] = now]
      PROVE  Silent'
  BY <1>1, <1>2, <1>3 DEF Silent, RestType, Up
<1>4. ASSUME NEW t \in Tenants, NEW r \in Recipes, NEW j \in JobIds, Evaluate(t, r, j)
      PROVE  Silent'
  BY <1>3, <1>4 DEF Evaluate, Up
<1>5. ASSUME NEW j \in JobIds, TaskStep(j)
      PROVE  Silent'
  <2>1. downSince = Up
    BY <1>5, TaskSteps DEF Silent, TaskStep, CaseDone, StoreScore, FinishJob, EvaluationFails
  <2>2. QED
    BY <1>3, <1>5, <2>1
       DEF TaskStep, CaseDone, StoreScore, FinishJob, EvaluationFails, history, Up
<1>6. ASSUME Crash
      PROVE  Silent'
  BY <1>1, <1>2, <1>6 DEF Crash, Silent, tables, history, Up
<1>7. ASSUME Start
      PROVE  Silent'
  BY <1>7 DEF Start, Silent, history, Up
<1>8. ASSUME Tick
      PROVE  Silent'
  <2>1. /\ now' = now + 1
        /\ UNCHANGED <<task, downSince, beat>>
        /\ Up' = Up
    BY <1>8 DEF Tick, history, Up
  <2>2. downSince \in Nat
    BY <1>1, ServiceAssumption DEF RestType, Up
  <2>3. QED
    BY <1>2, <2>1, <2>2 DEF Silent, NoTask
<1>9. ASSUME \/ UNCHANGED vars
             \/ \E t \in Tenants : ChangeDocuments(t)
             \/ \E t \in Tenants, r \in Recipes : Publish(t, r)
      PROVE  Silent'
  BY <1>9 DEF Publish, ChangeDocuments, vars, history, Silent, NoTask, Up
<1>10. QED
  BY <1>4, <1>5, <1>6, <1>7, <1>8, <1>9 DEF Next

\* The last statement of a task ends its job, unless it had ended before.
LEMMA TaskEndsJob ==
  ASSUME TypeOK, NEW j \in JobIds, FinishJob(j) \/ EvaluationFails(j)
  PROVE  ~Running(j)'
<1>1. JobsType /\ TasksType
  BY TypeParts
<1>2. j \in DOMAIN jobs /\ jobs[j] \in Job
  BY <1>1, TaskSteps DEF FinishJob, EvaluationFails, TasksType, JobsType
<1>3. \A row \in Job :
        /\ [row EXCEPT !.status = "done", !.updated = now].status = "done"
        /\ [row EXCEPT !.status = "failed", !.detail = "error", !.updated = now].status
             = "failed"
  BY DEF Job
<1>4. Visible(jobs[j].tenant, jobs[j].tenant)
  BY <1>1, <1>2, OwnSession
<1>5. CASE FinishJob(j)
  BY <1>2, <1>3, <1>4, <1>5 DEF FinishJob, FinishEvalJob, Update, Updatable, Running
<1>6. CASE EvaluationFails(j)
  BY <1>2, <1>3, <1>4, <1>6 DEF EvaluationFails, FailEvalJob, Update, Updatable, Running
<1>7. QED
  BY <1>5, <1>6

\* A task leaves the jobs of the others alone.
LEMMA TaskIsAlone ==
  ASSUME TypeOK, NEW i \in JobIds, TaskStep(i), NEW j \in JobIds, j # i
  PROVE  (Running(j)' => Running(j)) /\ task'[j] = task[j]
<1>1. TasksType
  BY TypeParts
<1>2. task'[j] = task[j]
  BY <1>1 DEF TaskStep, CaseDone, StoreScore, FinishJob, EvaluationFails, TaskEnds, TasksType
<1>3. Running(j)' => Running(j)
  BY DEF TaskStep, CaseDone, StoreScore, FinishJob, EvaluationFails, RecordJobProgress,
         FinishEvalJob, FailEvalJob, Update, Updatable, Running
<1>4. QED
  BY <1>2, <1>3

\* An instance that starts late enough sweeps every job the dead one left.
LEMMA StartSweepsAll ==
  ASSUME TypeOK, BeatIsKept, Silent, Start, downSince # Up,
         RestartDelay > StaleAfter, Tenants \subseteq SweepSessions, NEW j \in JobIds
  PROVE  ~Running(j)'
<1>1. JobsType /\ RestType
  BY TypeParts
<1>2. DOMAIN jobs' = DOMAIN jobs
  BY DEF Start, SweepStaleJobs
<1>3. SUFFICES ASSUME j \in DOMAIN jobs
               PROVE  jobs'[j].status # "running"
  BY <1>2 DEF Running
<1>4. jobs[j] \in Job
  BY <1>1, <1>3 DEF JobsType
<1>5. ASSUME jobs[j].status = "running"
      PROVE  Stale(jobs[j])
  <2>1. jobs[j].updated <= downSince /\ now >= downSince + RestartDelay
    BY <1>3, <1>5 DEF BeatIsKept, Silent, Start
  <2>2. /\ now \in Nat /\ downSince \in Nat /\ jobs[j].updated \in Nat
        /\ RestartDelay \in Nat /\ StaleAfter \in Nat
    BY <1>1, <1>4, ServiceAssumption DEF RestType, Up, Job
  <2>3. jobs[j].updated < now - StaleAfter
    BY <2>1, <2>2
  <2>4. QED
    BY <1>5, <2>3 DEF Stale
<1>6. \E s \in SweepSessions : Visible(s, jobs[j].tenant)
  BY <1>1, <1>3, <1>4, OwnSession DEF Job
<1>7. [jobs[j] EXCEPT !.status = "failed", !.detail = "interrupted", !.updated = now].status
        = "failed"
  BY <1>4 DEF Job
<1>8. QED
  BY <1>3, <1>5, <1>6, <1>7 DEF Start, SweepStaleJobs

\* No step leaves a running instance with a running job that has no task.
LEMMA NoOrphansStep ==
  ASSUME TypeOK, BeatIsKept, Silent, NoOrphans, [Next]_vars,
         RestartDelay > StaleAfter, Tenants \subseteq SweepSessions
  PROVE  NoOrphans'
<1>1. JobsType /\ TasksType /\ RestType
  BY TypeParts
<1>2. ASSUME NEW t \in Tenants, NEW r \in Recipes, NEW i \in JobIds, Evaluate(t, r, i)
      PROVE  NoOrphans'
  <2>1. task'[i].step # "none"
    BY <1>1, <1>2 DEF Evaluate, TasksType, Tasks, NoTask
  <2>2. ASSUME NEW j \in JobIds, j # i
        PROVE  (Running(j)' => Running(j)) /\ task'[j] = task[j]
    BY <1>1, <1>2, <2>2 DEF Evaluate, CreateEvalJob, Running, TasksType
  <2>3. QED
    BY <1>2, <2>1, <2>2 DEF NoOrphans, Evaluate
<1>3. ASSUME NEW i \in JobIds, TaskStep(i)
      PROVE  NoOrphans'
  <2>1. downSince = Up
    BY <1>3, TaskSteps DEF Silent, TaskStep, CaseDone, StoreScore, FinishJob, EvaluationFails
  <2>2. Running(i)' => task'[i].step # "none"
    <3>1. CASE CaseDone(i)
      BY <1>1, <3>1 DEF CaseDone, TasksType, Tasks, Evaluating
    <3>2. ASSUME NEW v \in {"PASS", "FAIL"}, StoreScore(i, v)
          PROVE  task'[i].step # "none"
      BY <1>1, <3>2 DEF StoreScore, TasksType, Tasks, NoTask
    <3>3. QED
      BY <1>3, <3>1, <3>2, TaskEndsJob DEF TaskStep
  <2>3. QED
    BY <1>3, <2>1, <2>2, TaskIsAlone DEF NoOrphans
<1>4. ASSUME Start
      PROVE  NoOrphans'
  <2>1. CASE downSince = Up
    <3>1. ASSUME NEW j \in JobIds, Running(j)'
          PROVE  Running(j)
      <4>1. [jobs[j] EXCEPT !.status = "failed", !.detail = "interrupted",
                            !.updated = now].status = "failed"
            \/ j \notin DOMAIN jobs
        BY <1>1 DEF JobsType, Job
      <4>2. QED
        BY <1>4, <3>1, <4>1 DEF Start, SweepStaleJobs, Running
    <3>2. QED
      BY <1>4, <2>1, <3>1 DEF Start, NoOrphans
  <2>2. CASE downSince # Up
    BY <1>4, <2>2, StartSweepsAll DEF NoOrphans
  <2>3. QED
    BY <2>1, <2>2
<1>5. ASSUME Crash
      PROVE  NoOrphans'
  BY <1>1, <1>5, ServiceAssumption DEF Crash, NoOrphans, RestType, Up
<1>6. ASSUME \/ Tick \/ UNCHANGED vars
             \/ \E t \in Tenants : ChangeDocuments(t)
             \/ \E t \in Tenants, r \in Recipes : Publish(t, r)
      PROVE  NoOrphans'
  BY <1>6 DEF Tick, Publish, ChangeDocuments, vars, tables, NoOrphans, Running, Up
<1>7. QED
  BY <1>2, <1>3, <1>4, <1>5, <1>6 DEF Next

(***************************************************************************)
(* While an instance runs, every running job has a task that will end it,  *)
(* however often instances died, provided that an instance which starts    *)
(* sweeps for every tenant and starts later than StaleAfter after the      *)
(* death (sweep_stale_jobs).  Without the delay it is false: that is the   *)
(* run service_quick_restart.                                              *)
(***************************************************************************)
THEOREM NoJobIsOrphaned ==
  ASSUME RestartDelay > StaleAfter, Tenants \subseteq SweepSessions
  PROVE  Spec => []NoOrphans
<1>1. Init => BeatIsKept /\ Silent /\ NoOrphans
  BY ServiceAssumption DEF Init, BeatIsKept, Silent, NoOrphans, Running
<1>2. TypeOK /\ BeatIsKept /\ Silent /\ NoOrphans /\ [Next]_vars
        => BeatIsKept' /\ Silent' /\ NoOrphans'
  BY BeatStep, SilentStep, NoOrphansStep
<1>3. QED
  BY <1>1, <1>2, ServiceTypeCorrect, PTL DEF Spec
=============================================================================
