----------------------------- MODULE Judge_proofs -----------------------------
(***************************************************************************)
(* The judge's safety for every number of tasks, cases, files and faults,  *)
(* and every cap.  The inductive invariant says what a task suspended in   *)
(* the provider call may rely on: it owns the lock of its files, and what  *)
(* it read before the await is still what the files say, except that at    *)
(* midnight the count in force drops to zero.                              *)
(***************************************************************************)
EXTENDS Judge, TLAPS, SequenceTheorems

Calling(t) == phase[t] = "calling"

\* A task in the provider call holds the lock of its two files.
Holding == \A t \in Tasks : Calling(t) => holder[LockOf(t)] = t

\* What it read is what the files hold.
CacheCurrent == \A t \in Tasks : Calling(t) =>
                  CacheReads(t) /\ Cached(t) = "none" /\ readCache[t] = CacheOf(t).verdicts

CountCurrent == \A t \in Tasks : Calling(t) =>
                  /\ CounterReads(t)
                  /\ readCount[t] < Cap
                  /\ CountToday(PathsOf[t].cap) <= readCount[t]

\* No counter is dated in the future.
Dated == \A f \in CapFiles : counter[f].date <= today

\* Every answer charged today is in the count in force today.
Charges == \A f \in CapFiles : spent[f] <= CountToday(f)

GivenFor(c, a, v) == \E g \in graded : g[1].case = c /\ g[1].actual = a /\ g[2] = v

\* Verdicts in the files and in results were given for that case and answer.
CacheGiven == \A f \in CacheFiles : \A k \in Keys :
                cache[f].verdicts[k] # "none"
                  => GivenFor(k.case, k.actual, cache[f].verdicts[k])

ResultGiven == \A t \in Tasks : result[t] \in Verdicts =>
                 GivenFor(question[t].case, question[t].actual, result[t])

IInv == /\ TypeOK
        /\ Holding
        /\ CacheCurrent
        /\ CountCurrent
        /\ Dated
        /\ Charges
        /\ CacheGiven
        /\ ResultGiven
-----------------------------------------------------------------------------
(***************************************************************************)
(* Types.                                                                  *)
(***************************************************************************)
\* Removing one element of a sequence leaves a sequence of the same elements.
LEMMA RemoveAtType ==
  ASSUME NEW S, NEW s \in Seq(S), NEW i \in DOMAIN s
  PROVE  RemoveAt(s, i) \in Seq(S)
<1>1. i \in 1..Len(s)
  BY LenProperties
<1>2. SubSeq(s, 1, i - 1) \in Seq(S)
  BY <1>1, SubSeqProperties
<1>3. SubSeq(s, i + 1, Len(s)) \in Seq(S)
  BY <1>1, SubSeqProperties, LenProperties
<1>4. QED
  BY <1>2, <1>3, ConcatProperties DEF RemoveAt

\* Every task has a lock: its settings name one pair of paths.
LEMMA LockOfType == \A t \in Tasks : LockOf(t) \in Locks
BY JudgeAssumption DEF LockOf, Locks

\* A question has a cache key.
LEMMA KeyOfType == \A q \in Questions : KeyOf(q) \in Keys
BY DEF KeyOf, Keys, Questions

\* The empty dict is a dict.
LEMMA NoVerdictsType == NoVerdicts \in Contents
BY DEF NoVerdicts, Contents

\* Leaving the queue of a lock leaves a queue.
LEMMA QueueType ==
  ASSUME NEW t \in Tasks, queue \in [Locks -> Seq(Tasks)], LeaveQueue(t)
  PROVE  queue' \in [Locks -> Seq(Tasks)]
<1>1. PICK i \in DOMAIN queue[LockOf(t)] :
        queue' = [queue EXCEPT ![LockOf(t)] = RemoveAt(queue[LockOf(t)], i)]
  BY DEF LeaveQueue
<1>2. queue[LockOf(t)] \in Seq(Tasks)
  BY LockOfType
<1>3. RemoveAt(queue[LockOf(t)], i) \in Seq(Tasks)
  BY <1>2, RemoveAtType
<1>4. QED
  BY <1>1, <1>3, LockOfType

\* The fresh process is well typed.
LEMMA InitType == Init => TypeOK
<1>1. (CHOOSE q \in Questions : TRUE) \in Questions
  <2>1. PICK c \in Cases, e \in Expecteds, a \in Actuals : TRUE
    BY JudgeAssumption
  <2>2. [case |-> c, expected |-> e, actual |-> a] \in Questions
    BY DEF Questions
  <2>3. QED
    BY <2>2
<1>2. <<>> \in Seq(Tasks)
  BY EmptySeq
<1>3. QED
  BY <1>1, <1>2, NoVerdictsType, JudgeAssumption
  DEF Init, TypeOK, Results, FileStates

(***************************************************************************)
(* Every action keeps the types.  The two writes need what a calling task  *)
(* relies on: its count is below the cap.                                  *)
(***************************************************************************)
\* Returning or raising keeps the types of the locals.
LEMMA LeaveType ==
  ASSUME TypeOK, NEW t \in Tasks, NEW r \in Results, Leave(t, r)
  PROVE  /\ phase' \in [Tasks -> {"idle", "waiting", "calling"}]
         /\ question' \in [Tasks -> Questions]
         /\ result' \in [Tasks -> Results]
         /\ readCount' \in [Tasks -> Nat]
         /\ readCache' \in [Tasks -> Contents]
BY NoVerdictsType DEF TypeOK, Leave

\* So does a call that ends before the provider.
LEMMA EndsEarlyType ==
  ASSUME TypeOK, NEW t \in Tasks, NEW r \in Results, EndsEarly(t, r)
  PROVE  TypeOK'
<1>1. queue' \in [Locks -> Seq(Tasks)]
  BY QueueType DEF EndsEarly, TypeOK
<1>2. QED
  BY <1>1, LeaveType DEF EndsEarly, TypeOK, files

\* A released lock has no holder.
LEMMA ReleaseType ==
  ASSUME TypeOK, NEW t \in Tasks, Release(t)
  PROVE  holder' \in [Locks -> Tasks \cup {NoTask}]
BY LockOfType DEF Release, TypeOK

\* What judge() reads from the files has their types.
LEMMA CachedType ==
  ASSUME TypeOK, NEW t \in Tasks
  PROVE  /\ Cached(t) \in Verdicts \cup {"none"}
         /\ CacheOf(t) \in [state : FileStates, verdicts : Contents]
         /\ CounterOf(t) \in [state : FileStates, date : Nat, count : 0..Cap]
         /\ KeyOf(question[t]) \in Keys
<1>1. KeyOf(question[t]) \in Keys
  BY KeyOfType DEF TypeOK
<1>2. QED
  BY <1>1, JudgeAssumption DEF TypeOK, Cached, CacheOf, CounterOf, Contents

\* A charge of a count below the cap stays within the cap.
LEMMA ChargeType ==
  ASSUME TypeOK, CountCurrent, NEW t \in Tasks, Calling(t), ChargeCounter(t)
  PROVE  /\ counter' \in [CapFiles -> [state : FileStates, date : Nat, count : 0..Cap]]
         /\ spent' \in [CapFiles -> Nat]
<1>1. readCount[t] + 1 \in 0..Cap
  BY JudgeAssumption DEF CountCurrent, TypeOK
<1>2. Charged(t) \in [state : FileStates, date : Nat, count : 0..Cap]
  BY <1>1 DEF Charged, FileStates, TypeOK
<1>3. QED
  BY <1>2, JudgeAssumption DEF ChargeCounter, TypeOK

\* The dict written back is a dict.
LEMMA StoredType ==
  ASSUME TypeOK, NEW t \in Tasks, NEW v \in Verdicts
  PROVE  Stored(t, v) \in [state : FileStates, verdicts : Contents]
<1>1. [readCache[t] EXCEPT ![KeyOf(question[t])] = v] \in Contents
  BY CachedType DEF TypeOK, Contents
<1>2. QED
  BY <1>1 DEF Stored, FileStates

\* An interrupted write leaves well-typed, if unreadable, files.
LEMMA PartWrittenType ==
  ASSUME TypeOK, CountCurrent, NEW t \in Tasks, Calling(t), PartWritten(t)
  PROVE  /\ counter' \in [CapFiles -> [state : FileStates, date : Nat, count : 0..Cap]]
         /\ cache' \in [CacheFiles -> [state : FileStates, verdicts : Contents]]
         /\ spent' \in [CapFiles -> Nat]
<1>1. CASE UNCHANGED <<files, spent>>
  BY <1>1 DEF TypeOK, files
<1>2. CASE /\ counter' = [counter EXCEPT ![PathsOf[t].cap].state = "torn"]
           /\ UNCHANGED <<cache, spent>>
  BY <1>2, JudgeAssumption DEF TypeOK, FileStates
<1>3. CASE ChargeCounter(t) /\ UNCHANGED cache
  BY <1>3, ChargeType DEF TypeOK
<1>4. CASE /\ ChargeCounter(t)
           /\ cache' = [cache EXCEPT ![PathsOf[t].cache].state = "torn"]
  <2>1. cache' \in [CacheFiles -> [state : FileStates, verdicts : Contents]]
    BY <1>4, JudgeAssumption DEF TypeOK, FileStates
  <2>2. QED
    BY <1>4, <2>1, ChargeType
<1>5. QED
  BY <1>1, <1>2, <1>3, <1>4 DEF PartWritten

\* The end of the process resets what lives in memory.
LEMMA ProcessEndsType ==
  ASSUME TypeOK, ProcessEnds
  PROVE  /\ phase' \in [Tasks -> {"idle", "waiting", "calling"}]
         /\ question' \in [Tasks -> Questions]
         /\ result' \in [Tasks -> Results]
         /\ readCount' \in [Tasks -> Nat]
         /\ readCache' \in [Tasks -> Contents]
         /\ queue' \in [Locks -> Seq(Tasks)]
         /\ holder' \in [Locks -> Tasks \cup {NoTask}]
         /\ today' \in Nat \ {0}
         /\ faults' \in Nat
         /\ graded' \subseteq Questions \X Verdicts
<1>1. <<>> \in Seq(Tasks)
  BY EmptySeq
<1>2. QED
  BY <1>1, NoVerdictsType DEF ProcessEnds, TypeOK, Results

\* Joining the queue.
LEMMA CallType ==
  ASSUME TypeOK, NEW t \in Tasks, NEW q \in Questions, Call(t, q)
  PROVE  TypeOK'
<1>1. Append(queue[LockOf(t)], t) \in Seq(Tasks)
  BY LockOfType, AppendProperties DEF TypeOK
<1>2. queue' \in [Locks -> Seq(Tasks)]
  BY <1>1, LockOfType DEF Call, TypeOK
<1>3. phase' \in [Tasks -> {"idle", "waiting", "calling"}]
  BY DEF Call, TypeOK
<1>4. QED
  BY <1>2, <1>3 DEF Call, TypeOK, Results, files, locals

\* Taking the lock, and the provider call or an early end.
LEMMA EnterType ==
  ASSUME TypeOK, NEW t \in Tasks, Enter(t)
  PROVE  TypeOK'
<1>1. CASE CacheHit(t)
  BY <1>1, EndsEarlyType, CachedType DEF CacheHit, Results
<1>2. CASE StateUnreadable(t)
  BY <1>2, EndsEarlyType DEF StateUnreadable, Results
<1>3. CASE CapReached(t)
  BY <1>3, EndsEarlyType DEF CapReached, Results
<1>4. CASE StartProviderCall(t)
  <2>1. queue' \in [Locks -> Seq(Tasks)]
    BY <1>4, QueueType DEF StartProviderCall, TypeOK
  <2>2. holder' \in [Locks -> Tasks \cup {NoTask}]
    BY <1>4, LockOfType DEF StartProviderCall, TypeOK
  <2>3. CountToday(PathsOf[t].cap) \in Nat
    BY CachedType, JudgeAssumption DEF CountToday, CounterOf
  <2>4. readCount' \in [Tasks -> Nat]
    BY <1>4, <2>3 DEF StartProviderCall, TypeOK
  <2>5. readCache' \in [Tasks -> Contents]
    BY <1>4, CachedType DEF StartProviderCall, TypeOK
  <2>6. phase' \in [Tasks -> {"idle", "waiting", "calling"}]
    BY <1>4 DEF StartProviderCall, TypeOK
  <2>7. QED
    BY <1>4, <2>1, <2>2, <2>4, <2>5, <2>6 DEF StartProviderCall, TypeOK, files
<1>5. QED
  BY <1>1, <1>2, <1>3, <1>4 DEF Enter

\* The provider's three outcomes.
LEMMA ReplyType ==
  ASSUME TypeOK, CountCurrent, NEW t \in Tasks, Reply(t)
  PROVE  TypeOK'
<1>1. CASE ProviderRaises(t)
  BY <1>1, LeaveType, ReleaseType DEF ProviderRaises, TypeOK, files, Results
<1>2. CASE ProviderGarbage(t)
  BY <1>2, LeaveType, ReleaseType, ChargeType DEF ProviderGarbage, TypeOK, Results, Calling
<1>3. ASSUME NEW v \in Verdicts, ProviderAnswers(t, v)
      PROVE  TypeOK'
  <2>1. cache' \in [CacheFiles -> [state : FileStates, verdicts : Contents]]
    BY <1>3, StoredType DEF ProviderAnswers, TypeOK
  <2>2. graded' \subseteq Questions \X Verdicts
    BY <1>3 DEF ProviderAnswers, TypeOK
  <2>3. v \in Results
    BY DEF Results
  <2>4. QED
    BY <1>3, <2>1, <2>2, <2>3, LeaveType, ReleaseType, ChargeType
    DEF ProviderAnswers, TypeOK, Calling
<1>4. QED
  BY <1>1, <1>2, <1>3 DEF Reply

\* Every step keeps the types, one step per action.
LEMMA TypeStep ==
  ASSUME TypeOK, CountCurrent, [Next]_vars
  PROVE  TypeOK'
<1>1. ASSUME NEW t \in Tasks, NEW q \in Questions, Call(t, q) PROVE TypeOK'
  BY <1>1, CallType
<1>2. ASSUME NEW t \in Tasks, Enter(t) PROVE TypeOK'
  BY <1>2, EnterType
<1>3. ASSUME NEW t \in Tasks, Reply(t) PROVE TypeOK'
  BY <1>3, ReplyType
<1>4. ASSUME NEW t \in Tasks, CancelWaiting(t) PROVE TypeOK'
  <2>1. queue' \in [Locks -> Seq(Tasks)]
    BY <1>4, QueueType DEF CancelWaiting, TypeOK
  <2>2. QED
    BY <1>4, <2>1, LeaveType DEF CancelWaiting, TypeOK, files, Results
<1>5. ASSUME NEW t \in Tasks, CancelCalling(t) PROVE TypeOK'
  BY <1>5, LeaveType, ReleaseType DEF CancelCalling, TypeOK, files, Results
<1>6. ASSUME NEW t \in Tasks, WriteFails(t) PROVE TypeOK'
  <2>1. "OSError" \in Results
    BY DEF Results
  <2>2. phase' \in [Tasks -> {"idle", "waiting", "calling"}] /\ question' \in [Tasks -> Questions]
        /\ result' \in [Tasks -> Results]
        /\ readCount' \in [Tasks -> Nat] /\ readCache' \in [Tasks -> Contents]
    BY <1>6, <2>1, LeaveType DEF WriteFails
  <2>3. QED
    BY <1>6, <2>2, ReleaseType, PartWrittenType DEF WriteFails, TypeOK, Calling
<1>7. ASSUME NEW t \in Tasks, CrashWriting(t) PROVE TypeOK'
  BY <1>7, PartWrittenType, ProcessEndsType DEF CrashWriting, TypeOK, Calling
<1>8. CASE Crash
  BY <1>8, ProcessEndsType DEF Crash, TypeOK, files
<1>9. CASE NextDay
  BY <1>9 DEF NextDay, TypeOK, files, locals
<1>10. ASSUME NEW f \in CapFiles, RemoveCounter(f) PROVE TypeOK'
  BY <1>10, JudgeAssumption DEF RemoveCounter, TypeOK, FileStates, locals
<1>11. ASSUME NEW f \in CacheFiles, RemoveCache(f) PROVE TypeOK'
  BY <1>11, NoVerdictsType DEF RemoveCache, TypeOK, FileStates, locals
<1>12. CASE UNCHANGED vars
  BY <1>12 DEF vars, TypeOK
<1>13. QED
  BY <1>1, <1>2, <1>3, <1>4, <1>5, <1>6, <1>7, <1>8, <1>9, <1>10, <1>11, <1>12 DEF Next
-----------------------------------------------------------------------------
(***************************************************************************)
(* What a calling task relies on survives every step of the others.        *)
(***************************************************************************)
\* The lock at work: two calling tasks that share a file are one task.
LEMMA Alone ==
  ASSUME Holding, NEW t \in Tasks, NEW u \in Tasks, Calling(t), Calling(u),
         PathsOf[t].cache = PathsOf[u].cache \/ PathsOf[t].cap = PathsOf[u].cap
  PROVE  t = u
<1>1. LockOf(t) = LockOf(u)
  BY PathsArePaired DEF LockOf
<1>2. QED
  BY <1>1 DEF Holding

\* The step leaves the locals, the lock and the files of u alone.
Undisturbed(u) == /\ Calling(u)
                  /\ question'[u] = question[u]
                  /\ readCount'[u] = readCount[u]
                  /\ readCache'[u] = readCache[u]
                  /\ holder'[LockOf(u)] = holder[LockOf(u)]
                  /\ counter'[PathsOf[u].cap] = counter[PathsOf[u].cap]
                  /\ cache'[PathsOf[u].cache] = cache[PathsOf[u].cache]

\* What the invariant says of one calling task.
Current(t) ==
  /\ holder[LockOf(t)] = t
  /\ CacheReads(t) /\ Cached(t) = "none" /\ readCache[t] = CacheOf(t).verdicts
  /\ CounterReads(t)
  /\ readCount[t] < Cap
  /\ CountToday(PathsOf[t].cap) <= readCount[t]

\* An undisturbed task may go on relying on what it read, midnight included.
LEMMA StillCurrent ==
  ASSUME IInv, today' \in Nat, today' >= today, NEW u \in Tasks, Undisturbed(u)
  PROVE  Current(u)'
<1>1. holder'[LockOf(u)] = u
  BY DEF IInv, Holding, Undisturbed
<1>2. CacheReads(u)' /\ Cached(u)' = "none" /\ readCache'[u] = CacheOf(u)'.verdicts
  BY DEF IInv, CacheCurrent, Undisturbed, CacheReads, CacheOf, Cached, KeyOf
<1>3. /\ CounterReads(u)
      /\ readCount[u] < Cap
      /\ CountToday(PathsOf[u].cap) <= readCount[u]
  BY DEF IInv, CountCurrent, Undisturbed
<1>4. CounterReads(u)' /\ readCount'[u] < Cap
  BY <1>3 DEF Undisturbed, CounterReads, CounterOf
<1>5. counter[PathsOf[u].cap].date <= today
  BY JudgeAssumption DEF IInv, Dated
<1>6. /\ readCount[u] \in Nat
      /\ counter[PathsOf[u].cap].date \in Nat
      /\ today \in Nat
  BY JudgeAssumption DEF IInv, TypeOK
<1>7. CountToday(PathsOf[u].cap)' <= readCount'[u]
  BY <1>3, <1>5, <1>6 DEF Undisturbed, CountToday
<1>8. QED
  BY <1>1, <1>2, <1>4, <1>7 DEF Current, LockOf

\* The three conjuncts about calling tasks, from each calling task.
LEMMA AllCurrent ==
  ASSUME \A u \in Tasks : phase'[u] = "calling" => Current(u)'
  PROVE  Holding' /\ CacheCurrent' /\ CountCurrent'
BY DEF Holding, CacheCurrent, CountCurrent, Current, Calling

\* A task that leaves the lock it holds disturbs no other calling task.
LEMMA LeavingOthers ==
  ASSUME IInv, NEW t \in Tasks, NEW r, Calling(t), Leave(t, r), Release(t),
         \A f \in CapFiles \ {PathsOf[t].cap} : counter'[f] = counter[f],
         \A f \in CacheFiles \ {PathsOf[t].cache} : cache'[f] = cache[f],
         NEW u \in Tasks, phase'[u] = "calling"
  PROVE  Undisturbed(u)
<1>1. u # t /\ Calling(u)
  BY DEF Leave, IInv, TypeOK, Calling
<1>2. PathsOf[t].cache # PathsOf[u].cache /\ PathsOf[t].cap # PathsOf[u].cap
  BY <1>1, Alone DEF IInv
<1>3. LockOf(t) # LockOf(u)
  BY <1>2 DEF LockOf
<1>4. holder'[LockOf(u)] = holder[LockOf(u)]
  BY <1>3, LockOfType DEF Release, IInv, TypeOK
<1>5. QED
  BY <1>1, <1>2, <1>4, JudgeAssumption DEF Undisturbed, Leave, IInv, TypeOK

(***************************************************************************)
(* The counter after a write, complete or not.                             *)
(***************************************************************************)
\* What a calling task read covers every answer charged today.
LEMMA ChargesBelow ==
  ASSUME IInv, NEW t \in Tasks, Calling(t)
  PROVE  spent[PathsOf[t].cap] <= readCount[t] /\ readCount[t] < Cap
<1> DEFINE f == PathsOf[t].cap
<1>1. f \in CapFiles
  BY JudgeAssumption
<1>2. spent[f] <= CountToday(f)
  BY <1>1 DEF IInv, Charges
<1>3. CountToday(f) <= readCount[t] /\ readCount[t] < Cap
  BY DEF IInv, CountCurrent
<1>4. spent[f] \in Nat /\ CountToday(f) \in Nat /\ readCount[t] \in Nat
  BY <1>1 DEF IInv, TypeOK, CountToday
<1>5. QED
  BY <1>2, <1>3, <1>4

\* A charge keeps dates and charges consistent.
LEMMA ChargeKeeps ==
  ASSUME IInv, NEW t \in Tasks, Calling(t), ChargeCounter(t), UNCHANGED today
  PROVE  Dated' /\ Charges'
<1>1. spent[PathsOf[t].cap] <= readCount[t]
  BY ChargesBelow
<1>2. /\ counter'[PathsOf[t].cap] = Charged(t)
      /\ spent'[PathsOf[t].cap] = spent[PathsOf[t].cap] + 1
      /\ readCount[t] \in Nat /\ spent[PathsOf[t].cap] \in Nat
  BY JudgeAssumption DEF ChargeCounter, IInv, TypeOK
<1>3. ASSUME NEW f \in CapFiles, f # PathsOf[t].cap
      PROVE  counter'[f] = counter[f] /\ spent'[f] = spent[f]
  BY <1>3 DEF ChargeCounter, IInv, TypeOK
<1>4. Dated'
  <2>. SUFFICES ASSUME NEW f \in CapFiles PROVE counter'[f].date <= today'
    BY DEF Dated
  <2>1. CASE f = PathsOf[t].cap
    BY <2>1, <1>2 DEF Charged, IInv, TypeOK
  <2>2. CASE f # PathsOf[t].cap
    BY <2>2, <1>3 DEF IInv, Dated
  <2>3. QED
    BY <2>1, <2>2
<1>5. Charges'
  <2>. SUFFICES ASSUME NEW f \in CapFiles PROVE spent'[f] <= CountToday(f)'
    BY DEF Charges
  <2>1. CASE f = PathsOf[t].cap
    BY <2>1, <1>1, <1>2 DEF Charged, CountToday
  <2>2. CASE f # PathsOf[t].cap
    BY <2>2, <1>3 DEF IInv, Charges, CountToday
  <2>3. QED
    BY <2>1, <2>2
<1>6. QED
  BY <1>4, <1>5

\* An interrupted write keeps dates, charges and verdicts consistent.
LEMMA PartWrittenKeeps ==
  ASSUME IInv, NEW t \in Tasks, Calling(t), PartWritten(t), UNCHANGED <<today, graded>>
  PROVE  /\ Dated' /\ Charges' /\ CacheGiven'
         /\ \A f \in CapFiles \ {PathsOf[t].cap} : counter'[f] = counter[f]
         /\ \A f \in CacheFiles \ {PathsOf[t].cache} : cache'[f] = cache[f]
<1>1. \A f \in CacheFiles : cache'[f].verdicts = cache[f].verdicts
  <2>1. CASE cache' = cache
    BY <2>1
  <2>2. CASE cache' = [cache EXCEPT ![PathsOf[t].cache].state = "torn"]
    BY <2>2 DEF IInv, TypeOK
  <2>3. QED
    BY <2>1, <2>2 DEF PartWritten, files
<1>2. CacheGiven'
  BY <1>1 DEF IInv, CacheGiven, GivenFor
<1>3. Dated' /\ Charges'
  <2>1. CASE UNCHANGED <<files, spent>>
    BY <2>1 DEF files, IInv, Dated, Charges, CountToday
  <2>2. CASE /\ counter' = [counter EXCEPT ![PathsOf[t].cap].state = "torn"]
             /\ UNCHANGED <<cache, spent>>
    <3>1. \A f \in CapFiles : /\ counter'[f].date = counter[f].date
                              /\ counter'[f].count = counter[f].count
      BY <2>2 DEF IInv, TypeOK
    <3>2. QED
      BY <2>2, <3>1 DEF IInv, Dated, Charges, CountToday
  <2>3. CASE ChargeCounter(t)
    BY <2>3, ChargeKeeps
  <2>4. QED
    BY <2>1, <2>2, <2>3 DEF PartWritten
<1>4. /\ \A f \in CapFiles \ {PathsOf[t].cap} : counter'[f] = counter[f]
      /\ \A f \in CacheFiles \ {PathsOf[t].cache} : cache'[f] = cache[f]
  BY DEF PartWritten, ChargeCounter, IInv, TypeOK, files
<1>5. QED
  BY <1>2, <1>3, <1>4
-----------------------------------------------------------------------------
(***************************************************************************)
(* Each action keeps the invariant; TypeStep is its first conjunct.        *)
(***************************************************************************)
\* A step that leaves files, clock and history alone.
LEMMA FilesKeep ==
  ASSUME IInv, UNCHANGED <<files, today, spent, graded>>
  PROVE  Dated' /\ Charges' /\ CacheGiven'
BY DEF IInv, Dated, Charges, CountToday, CacheGiven, GivenFor, files

\* The result judge() leaves with: a verdict is one that was given.
LEMMA LeaveResult ==
  ASSUME IInv, NEW t \in Tasks, NEW r, Leave(t, r), graded \subseteq graded',
         r \in Verdicts => \E g \in graded' : /\ g[1].case = question[t].case
                                             /\ g[1].actual = question[t].actual
                                             /\ g[2] = r
  PROVE  ResultGiven'
<1> SUFFICES ASSUME NEW u \in Tasks, result'[u] \in Verdicts
             PROVE  \E g \in graded' : /\ g[1].case = question'[u].case
                                       /\ g[1].actual = question'[u].actual
                                       /\ g[2] = result'[u]
  BY DEF ResultGiven, GivenFor
<1>1. CASE u = t
  BY <1>1 DEF Leave, IInv, TypeOK
<1>2. CASE u # t
  BY <1>2 DEF Leave, IInv, TypeOK, ResultGiven, GivenFor
<1>3. QED
  BY <1>1, <1>2

\* Call: the task only joins the queue.
LEMMA CallKeeps ==
  ASSUME IInv, NEW t \in Tasks, NEW q \in Questions, Call(t, q), TypeOK'
  PROVE  IInv'
<1>1. Dated' /\ Charges' /\ CacheGiven'
  BY FilesKeep DEF Call
<1>2. ResultGiven'
  BY DEF Call, IInv, TypeOK, ResultGiven, GivenFor, Verdicts
<1>3. ASSUME NEW u \in Tasks, phase'[u] = "calling" PROVE Undisturbed(u)
  BY <1>3 DEF Call, IInv, TypeOK, Undisturbed, Calling, locals, files
<1>4. today' \in Nat /\ today' >= today
  BY DEF Call, IInv, TypeOK
<1>5. QED
  BY <1>1, <1>2, <1>3, <1>4, StillCurrent, AllCurrent DEF IInv

\* Leaving from the queue: without the lock, nothing to give back.
LEMMA LeavesWaiting ==
  ASSUME IInv, NEW t \in Tasks, NEW r, phase[t] = "waiting", Leave(t, r),
         UNCHANGED <<holder, files, today, spent, graded>>, TypeOK',
         r \in Verdicts => GivenFor(question[t].case, question[t].actual, r)
  PROVE  IInv'
<1>1. Dated' /\ Charges' /\ CacheGiven'
  BY FilesKeep
<1>2. ResultGiven'
  BY LeaveResult DEF GivenFor
<1>3. ASSUME NEW u \in Tasks, phase'[u] = "calling" PROVE Undisturbed(u)
  BY <1>3 DEF Leave, IInv, TypeOK, Undisturbed, Calling, files
<1>4. today' \in Nat /\ today' >= today
  BY DEF IInv, TypeOK
<1>5. QED
  BY <1>1, <1>2, <1>3, <1>4, StillCurrent, AllCurrent DEF IInv

\* A verdict read from the cache was given.
LEMMA CachedGiven ==
  ASSUME IInv, NEW t \in Tasks, Cached(t) # "none"
  PROVE  GivenFor(question[t].case, question[t].actual, Cached(t))
<1>1. KeyOf(question[t]) \in Keys /\ PathsOf[t].cache \in CacheFiles
  BY CachedType, JudgeAssumption DEF IInv
<1>2. QED
  BY <1>1 DEF IInv, CacheGiven, Cached, CacheOf, KeyOf

\* Up to the await: the task that takes the lock relies on what it just read.
LEMMA StartKeeps ==
  ASSUME IInv, NEW t \in Tasks, StartProviderCall(t), TypeOK'
  PROVE  IInv'
<1>1. Dated' /\ Charges' /\ CacheGiven'
  BY FilesKeep DEF StartProviderCall
<1>2. ResultGiven'
  BY DEF StartProviderCall, IInv, ResultGiven, GivenFor
<1>3. Current(t)'
  <2>1. holder'[LockOf(t)] = t
    BY LockOfType DEF StartProviderCall, IInv, TypeOK
  <2>2. CacheReads(t)' /\ Cached(t)' = "none" /\ readCache'[t] = CacheOf(t)'.verdicts
    BY DEF StartProviderCall, IInv, TypeOK, files, CacheReads, Cached, CacheOf, KeyOf
  <2>3. CounterReads(t)' /\ readCount'[t] = CountToday(PathsOf[t].cap)'
    BY DEF StartProviderCall, IInv, TypeOK, files, CounterReads, CounterOf, CountToday
  <2>4. CountToday(PathsOf[t].cap)' = CountToday(PathsOf[t].cap)
    BY DEF StartProviderCall, files, CountToday
  <2>5. CountToday(PathsOf[t].cap) \in Nat /\ ~(CountToday(PathsOf[t].cap) >= Cap)
    BY CachedType, JudgeAssumption
    DEF StartProviderCall, AtCap, CountToday, CounterOf, IInv
  <2>6. QED
    BY <2>1, <2>2, <2>3, <2>4, <2>5, JudgeAssumption DEF Current, LockOf
<1>4. ASSUME NEW u \in Tasks, u # t, phase'[u] = "calling" PROVE Undisturbed(u)
  <2>1. Calling(u)
    BY <1>4 DEF StartProviderCall, IInv, TypeOK, Calling
  <2>2. LockOf(u) # LockOf(t)
    BY <2>1, JudgeAssumption DEF StartProviderCall, Enters, IInv, Holding
  <2>3. holder'[LockOf(u)] = holder[LockOf(u)]
    BY <2>2, LockOfType DEF StartProviderCall, IInv, TypeOK
  <2>4. QED
    BY <1>4, <2>1, <2>3 DEF StartProviderCall, IInv, TypeOK, Undisturbed, files
<1>5. today' \in Nat /\ today' >= today
  BY DEF StartProviderCall, IInv, TypeOK
<1>6. QED
  BY <1>1, <1>2, <1>3, <1>4, <1>5, StillCurrent, AllCurrent DEF IInv

\* Leaving with the lock: the writes, if any, are to the task's own files.
LEMMA LeavesCalling ==
  ASSUME IInv, NEW t \in Tasks, NEW r, Calling(t), Leave(t, r), Release(t),
         UNCHANGED today, graded \subseteq graded',
         \A f \in CapFiles \ {PathsOf[t].cap} : counter'[f] = counter[f],
         \A f \in CacheFiles \ {PathsOf[t].cache} : cache'[f] = cache[f],
         TypeOK', Dated', Charges', CacheGiven',
         r \in Verdicts => \E g \in graded' : /\ g[1].case = question[t].case
                                             /\ g[1].actual = question[t].actual
                                             /\ g[2] = r
  PROVE  IInv'
<1>1. ResultGiven'
  BY LeaveResult
<1>2. ASSUME NEW u \in Tasks, phase'[u] = "calling" PROVE Undisturbed(u)
  BY <1>2, LeavingOthers
<1>3. today' \in Nat /\ today' >= today
  BY DEF IInv, TypeOK
<1>4. QED
  BY <1>1, <1>2, <1>3, StillCurrent, AllCurrent DEF IInv
\* The four ways out of the queue without a provider call, and the one with it.
LEMMA EnterKeeps ==
  ASSUME IInv, NEW t \in Tasks, Enter(t), TypeOK'
  PROVE  IInv'
<1>1. CASE CacheHit(t)
  BY <1>1, LeavesWaiting, CachedGiven DEF CacheHit, EndsEarly, Enters
<1>2. CASE StateUnreadable(t)
  BY <1>2, LeavesWaiting DEF StateUnreadable, EndsEarly, Enters, Verdicts
<1>3. CASE CapReached(t)
  BY <1>3, LeavesWaiting DEF CapReached, EndsEarly, Enters, Verdicts
<1>4. CASE StartProviderCall(t)
  BY <1>4, StartKeeps
<1>5. QED
  BY <1>1, <1>2, <1>3, <1>4 DEF Enter

\* Only the charged counter changes.
LEMMA ChargeOthers ==
  ASSUME IInv, NEW t \in Tasks, ChargeCounter(t)
  PROVE  \A f \in CapFiles \ {PathsOf[t].cap} : counter'[f] = counter[f]
BY DEF ChargeCounter, IInv, TypeOK

\* The dict written back is what the file held, with the new verdict.
LEMMA StoredGiven ==
  ASSUME IInv, NEW t \in Tasks, NEW v \in Verdicts, Calling(t), ProviderAnswers(t, v)
  PROVE  CacheGiven'
<1> DEFINE c == PathsOf[t].cache
<1>1. c \in CacheFiles /\ KeyOf(question[t]) \in Keys
  BY CachedType, JudgeAssumption DEF IInv
<1>2. cache'[c].verdicts = [cache[c].verdicts EXCEPT ![KeyOf(question[t])] = v]
  BY <1>1 DEF ProviderAnswers, Stored, IInv, TypeOK, CacheCurrent, CacheOf
<1>3. \A f \in CacheFiles \ {c} : cache'[f] = cache[f]
  BY DEF ProviderAnswers, IInv, TypeOK
<1>4. <<question[t], v>> \in graded' /\ graded \subseteq graded'
  BY DEF ProviderAnswers
<1> SUFFICES ASSUME NEW f \in CacheFiles, NEW k \in Keys,
                    cache'[f].verdicts[k] # "none"
             PROVE  \E g \in graded' : /\ g[1].case = k.case
                                       /\ g[1].actual = k.actual
                                       /\ g[2] = cache'[f].verdicts[k]
  BY DEF CacheGiven, GivenFor
<1>5. CASE f = c /\ k = KeyOf(question[t])
  <2>1. cache'[f].verdicts[k] = v
    BY <1>1, <1>2, <1>5 DEF IInv, TypeOK, Contents
  <2>2. k.case = question[t].case /\ k.actual = question[t].actual
    BY <1>5 DEF KeyOf
  <2>3. QED
    BY <2>1, <2>2, <1>4
<1>6. CASE ~(f = c /\ k = KeyOf(question[t]))
  <2>1. cache'[f].verdicts[k] = cache[f].verdicts[k]
    BY <1>1, <1>2, <1>3, <1>6 DEF IInv, TypeOK, Contents
  <2>2. GivenFor(k.case, k.actual, cache[f].verdicts[k])
    BY <2>1 DEF IInv, CacheGiven
  <2>3. QED
    BY <2>1, <2>2, <1>4 DEF GivenFor
<1>7. QED
  BY <1>5, <1>6

\* The provider's three outcomes.
LEMMA ReplyKeeps ==
  ASSUME IInv, NEW t \in Tasks, Reply(t), TypeOK'
  PROVE  IInv'
<1>1. CASE ProviderRaises(t)
  <2>1. Dated' /\ Charges' /\ CacheGiven'
    BY <1>1, FilesKeep DEF ProviderRaises
  <2>2. QED
    BY <1>1, <2>1, LeavesCalling DEF ProviderRaises, Calling, files, Verdicts
<1>2. CASE ProviderGarbage(t)
  <2>1. Calling(t) /\ ChargeCounter(t) /\ UNCHANGED <<cache, today, graded>>
    BY <1>2 DEF ProviderGarbage, Calling
  <2>2. Dated' /\ Charges'
    BY <2>1, ChargeKeeps
  <2>3. CacheGiven'
    BY <2>1 DEF IInv, CacheGiven, GivenFor
  <2>4. QED
    BY <1>2, <2>1, <2>2, <2>3, ChargeOthers, LeavesCalling DEF ProviderGarbage, Verdicts
<1>3. ASSUME NEW v \in Verdicts, ProviderAnswers(t, v)
      PROVE  IInv'
  <2>1. Calling(t) /\ ChargeCounter(t) /\ UNCHANGED today
    BY <1>3 DEF ProviderAnswers, Calling
  <2>2. Dated' /\ Charges'
    BY <2>1, ChargeKeeps
  <2>3. CacheGiven'
    BY <1>3, <2>1, StoredGiven
  <2>4. \A f \in CacheFiles \ {PathsOf[t].cache} : cache'[f] = cache[f]
    BY <1>3 DEF ProviderAnswers, IInv, TypeOK
  <2>5. /\ graded \subseteq graded'
        /\ \E g \in graded' : /\ g[1].case = question[t].case
                              /\ g[1].actual = question[t].actual
                              /\ g[2] = v
    <3>1. graded \subseteq graded' /\ <<question[t], v>> \in graded'
      BY <1>3 DEF ProviderAnswers
    <3>2. QED
      BY <3>1
  <2>6. Leave(t, v) /\ Release(t)
    BY <1>3 DEF ProviderAnswers
  <2>7. QED
    BY <2>1, <2>2, <2>3, <2>4, <2>5, <2>6, ChargeOthers, LeavesCalling
<1>4. QED
  BY <1>1, <1>2, <1>3 DEF Reply

\* Faults: a failed write, a crash of the process with or without one.
LEMMA FaultKeeps ==
  ASSUME IInv, TypeOK',
         Crash \/ \E t \in Tasks : WriteFails(t) \/ CrashWriting(t)
  PROVE  IInv'
<1>1. ASSUME NEW t \in Tasks, WriteFails(t) PROVE IInv'
  <2>1. Calling(t) /\ PartWritten(t) /\ UNCHANGED <<today, graded>>
    BY <1>1 DEF WriteFails, Calling
  <2>2. QED
    BY <1>1, <2>1, PartWrittenKeeps, LeavesCalling DEF WriteFails, Verdicts
<1>2. ASSUME ProcessEnds
      PROVE  Holding' /\ CacheCurrent' /\ CountCurrent' /\ ResultGiven'
  BY <1>2 DEF ProcessEnds, Holding, CacheCurrent, CountCurrent, ResultGiven, Calling,
              Verdicts
<1>3. CASE Crash
  BY <1>2, <1>3, FilesKeep DEF Crash, ProcessEnds, IInv
<1>4. ASSUME NEW t \in Tasks, CrashWriting(t) PROVE IInv'
  BY <1>2, <1>4, PartWrittenKeeps DEF CrashWriting, ProcessEnds, Calling, IInv
<1>5. QED
  BY <1>1, <1>3, <1>4

\* Midnight: the count in force drops to zero, and so does what was charged.
LEMMA NextDayKeeps ==
  ASSUME IInv, NextDay, TypeOK'
  PROVE  IInv'
<1>1. Dated' /\ Charges'
  BY DEF NextDay, IInv, TypeOK, Dated, Charges, CountToday, files
<1>2. CacheGiven' /\ ResultGiven'
  BY DEF NextDay, IInv, CacheGiven, ResultGiven, GivenFor, files
<1>3. ASSUME NEW u \in Tasks, phase'[u] = "calling" PROVE Undisturbed(u)
  BY <1>3 DEF NextDay, Undisturbed, Calling, files, locals
<1>4. today' \in Nat /\ today' >= today
  BY DEF NextDay, IInv, TypeOK
<1>5. QED
  BY <1>1, <1>2, <1>3, <1>4, StillCurrent, AllCurrent DEF IInv

\* A torn file belongs to no calling task, so a person may remove it.
LEMMA RemoveKeeps ==
  ASSUME IInv, TypeOK',
         \/ \E f \in CapFiles : RemoveCounter(f)
         \/ \E f \in CacheFiles : RemoveCache(f)
  PROVE  IInv'
<1>0. today' \in Nat /\ today' >= today
  BY DEF IInv, TypeOK, RemoveCounter, RemoveCache
<1>1. ASSUME NEW f \in CapFiles, RemoveCounter(f) PROVE IInv'
  <2>1. Dated' /\ Charges'
    BY <1>1 DEF RemoveCounter, IInv, TypeOK, Dated, Charges, CountToday
  <2>2. CacheGiven' /\ ResultGiven'
    BY <1>1 DEF RemoveCounter, IInv, CacheGiven, ResultGiven, GivenFor
  <2>3. ASSUME NEW u \in Tasks, phase'[u] = "calling" PROVE Undisturbed(u)
    <3>1. Calling(u) /\ PathsOf[u].cap # f
      BY <1>1, <2>3 DEF RemoveCounter, IInv, CountCurrent, CounterReads, CounterOf, Calling
    <3>2. QED
      BY <1>1, <3>1 DEF RemoveCounter, IInv, TypeOK, Undisturbed, locals
  <2>4. QED
    BY <1>0, <2>1, <2>2, <2>3, StillCurrent, AllCurrent DEF IInv
<1>2. ASSUME NEW f \in CacheFiles, RemoveCache(f) PROVE IInv'
  <2>1. Dated' /\ Charges'
    BY <1>2 DEF RemoveCache, IInv, Dated, Charges, CountToday
  <2>2. ResultGiven'
    BY <1>2 DEF RemoveCache, IInv, ResultGiven, GivenFor
  <2>3. CacheGiven'
    <3>1. \A g \in CacheFiles : cache'[g].verdicts \in {cache[g].verdicts, NoVerdicts}
      BY <1>2 DEF RemoveCache, IInv, TypeOK
    <3>2. QED
      BY <1>2, <3>1 DEF RemoveCache, IInv, CacheGiven, GivenFor, NoVerdicts
  <2>4. ASSUME NEW u \in Tasks, phase'[u] = "calling" PROVE Undisturbed(u)
    <3>1. Calling(u) /\ PathsOf[u].cache # f
      BY <1>2, <2>4 DEF RemoveCache, IInv, CacheCurrent, CacheReads, CacheOf, Calling
    <3>2. QED
      BY <1>2, <3>1 DEF RemoveCache, IInv, TypeOK, Undisturbed, locals
  <2>5. QED
    BY <1>0, <2>1, <2>2, <2>3, <2>4, StillCurrent, AllCurrent DEF IInv
<1>3. QED
  BY <1>1, <1>2
-----------------------------------------------------------------------------
(***************************************************************************)
(* The invariant is inductive: true at the start, kept by every step.      *)
(***************************************************************************)
\* A fresh process with no files satisfies the invariant.
LEMMA InitIInv == Init => IInv
<1> SUFFICES ASSUME Init PROVE IInv
  OBVIOUS
<1>1. TypeOK
  BY InitType
<1>2. Holding /\ CacheCurrent /\ CountCurrent
  BY DEF Init, Holding, CacheCurrent, CountCurrent, Calling
<1>3. Dated /\ Charges
  BY DEF Init, Dated, Charges, CountToday
<1>4. CacheGiven /\ ResultGiven
  BY DEF Init, CacheGiven, ResultGiven, NoVerdicts, Verdicts
<1>5. QED
  BY <1>1, <1>2, <1>3, <1>4 DEF IInv

\* One step per action of Next.
LEMMA StepIInv ==
  ASSUME IInv, [Next]_vars
  PROVE  IInv'
<1>1. TypeOK'
  BY TypeStep DEF IInv
<1>2. ASSUME NEW t \in Tasks, NEW q \in Questions, Call(t, q) PROVE IInv'
  BY <1>1, <1>2, CallKeeps
<1>3. ASSUME NEW t \in Tasks, Enter(t) PROVE IInv'
  BY <1>1, <1>3, EnterKeeps
<1>4. ASSUME NEW t \in Tasks, Reply(t) PROVE IInv'
  BY <1>1, <1>4, ReplyKeeps
<1>5. ASSUME NEW t \in Tasks, CancelWaiting(t) PROVE IInv'
  BY <1>1, <1>5, LeavesWaiting DEF CancelWaiting, Verdicts
<1>6. ASSUME NEW t \in Tasks, CancelCalling(t) PROVE IInv'
  <2>1. Dated' /\ Charges' /\ CacheGiven'
    BY <1>6, FilesKeep DEF CancelCalling
  <2>2. QED
    BY <1>1, <1>6, <2>1, LeavesCalling DEF CancelCalling, Calling, files, Verdicts
<1>7. CASE Crash \/ \E t \in Tasks : WriteFails(t) \/ CrashWriting(t)
  BY <1>1, <1>7, FaultKeeps
<1>8. CASE NextDay
  BY <1>1, <1>8, NextDayKeeps
<1>9. CASE \/ \E f \in CapFiles : RemoveCounter(f)
           \/ \E f \in CacheFiles : RemoveCache(f)
  BY <1>1, <1>9, RemoveKeeps
<1>10. CASE UNCHANGED vars
  <2>1. Dated' /\ Charges' /\ CacheGiven'
    BY <1>10, FilesKeep DEF vars, files
  <2>2. ResultGiven'
    BY <1>10 DEF vars, IInv, ResultGiven, GivenFor
  <2>3. ASSUME NEW u \in Tasks, phase'[u] = "calling" PROVE Undisturbed(u)
    BY <1>10, <2>3 DEF vars, files, locals, Undisturbed, Calling
  <2>4. today' \in Nat /\ today' >= today
    BY <1>10 DEF vars, IInv, TypeOK
  <2>5. QED
    BY <1>1, <2>1, <2>2, <2>3, <2>4, StillCurrent, AllCurrent DEF IInv
<1>11. QED
  BY <1>2, <1>3, <1>4, <1>5, <1>6, <1>7, <1>8, <1>9, <1>10 DEF Next

(***************************************************************************)
(* In every reachable state a task suspended in the provider call may rely *)
(* on what judge() read before the await (judge.py:233-250).               *)
(***************************************************************************)
THEOREM Inductive == Spec => []IInv
<1>1. Init => IInv
  BY InitIInv
<1>2. IInv /\ [Next]_vars => IInv'
  BY StepIInv
<1>3. QED
  BY <1>1, <1>2, PTL DEF Spec

(***************************************************************************)
(* Type correctness of the judge: files, locks and locals keep their form, *)
(* and no counter file ever says more than Cap.                            *)
(***************************************************************************)
THEOREM TypeCorrect == Spec => []TypeOK
<1>1. IInv => TypeOK
  BY DEF IInv
<1>2. QED
  BY <1>1, Inductive, PTL

(***************************************************************************)
(* A task in the provider call is the only one paying for its question:    *)
(* the cache re-read under the lock is still current (judge.py:233-237).   *)
(***************************************************************************)
THEOREM GradedOnce == Spec => []NothingGradedTwice
<1>1. IInv => NothingGradedTwice
  BY DEF IInv, CacheCurrent, NothingGradedTwice, Calling
<1>2. QED
  BY <1>1, Inductive, PTL

(***************************************************************************)
(* A verdict judge() returns, fresh or cached, was given by the provider   *)
(* for that case and that answer (judge.py:233-255).                       *)
(***************************************************************************)
THEOREM VerdictsAreGiven == Spec => []VerdictOfSameAnswer
<1>1. IInv => VerdictOfSameAnswer
  BY DEF IInv, ResultGiven, GivenFor, VerdictOfSameAnswer
<1>2. QED
  BY <1>1, Inductive, PTL
-----------------------------------------------------------------------------
(***************************************************************************)
(* The judge implements the daily quota.                                   *)
(***************************************************************************)
\* A charge is one Spend of the quota: what was read left room for it.
LEMMA ChargeSpends ==
  ASSUME IInv, NEW t \in Tasks, Calling(t), ChargeCounter(t)
  PROVE  Quota!Next
<1>1. PathsOf[t].cap \in CapFiles
  BY JudgeAssumption
<1>2. spent[PathsOf[t].cap] < Cap
  <2>1. spent[PathsOf[t].cap] <= readCount[t] /\ readCount[t] < Cap
    BY ChargesBelow
  <2>2. spent[PathsOf[t].cap] \in Nat /\ readCount[t] \in Nat /\ Cap \in Nat
    BY <1>1, JudgeAssumption DEF IInv, TypeOK
  <2>3. QED
    BY <2>1, <2>2
<1>3. Quota!Spend(PathsOf[t].cap)
  BY <1>2 DEF ChargeCounter, Quota!Spend
<1>4. QED
  BY <1>1, <1>3 DEF Quota!Next

\* A partial write charges one answer or none.
LEMMA PartWrittenQuota ==
  ASSUME IInv, NEW t \in Tasks, Calling(t), PartWritten(t)
  PROVE  [Quota!Next]_spent
<1>1. CASE UNCHANGED spent
  BY <1>1
<1>2. CASE ChargeCounter(t)
  BY <1>2, ChargeSpends
<1>3. QED
  BY <1>1, <1>2 DEF PartWritten

\* Every step of the judge is a step of the quota or leaves it alone.
LEMMA QuotaStep ==
  ASSUME IInv, [Next]_vars
  PROVE  [Quota!Next]_spent
<1>1. ASSUME NEW t \in Tasks,
             \/ \E q \in Questions : Call(t, q)
             \/ Enter(t)
             \/ CancelWaiting(t)
             \/ CancelCalling(t)
      PROVE  UNCHANGED spent
  BY <1>1 DEF Call, Enter, CacheHit, StateUnreadable, CapReached, EndsEarly,
              StartProviderCall, CancelWaiting, CancelCalling
<1>2. ASSUME NEW t \in Tasks, Reply(t) PROVE [Quota!Next]_spent
  <2>1. CASE ProviderRaises(t)
    BY <2>1 DEF ProviderRaises
  <2>2. CASE ProviderGarbage(t)
    BY <2>2, ChargeSpends DEF ProviderGarbage, Calling
  <2>3. CASE \E v \in Verdicts : ProviderAnswers(t, v)
    BY <2>3, ChargeSpends DEF ProviderAnswers, Calling
  <2>4. QED
    BY <1>2, <2>1, <2>2, <2>3 DEF Reply
<1>3. ASSUME NEW t \in Tasks, WriteFails(t) \/ CrashWriting(t)
      PROVE  [Quota!Next]_spent
  BY <1>3, PartWrittenQuota DEF WriteFails, CrashWriting, Calling
<1>4. CASE NextDay
  <2>1. spent' = [f \in CapFiles |-> IF f \in CapFiles THEN 0 ELSE spent[f]]
    BY <1>4 DEF NextDay
  <2>2. Quota!Restart
    BY <2>1 DEF Quota!Restart
  <2>3. QED
    BY <2>2 DEF Quota!Next
<1>5. ASSUME NEW f \in CapFiles, RemoveCounter(f) PROVE [Quota!Next]_spent
  <2>1. spent' = [g \in CapFiles |-> IF g \in {f} THEN 0 ELSE spent[g]]
    BY <1>5 DEF RemoveCounter, IInv, TypeOK
  <2>2. Quota!Restart
    BY <2>1 DEF Quota!Restart
  <2>3. QED
    BY <2>2 DEF Quota!Next
<1>6. CASE Crash \/ (\E f \in CacheFiles : RemoveCache(f)) \/ UNCHANGED vars
  BY <1>6 DEF Crash, RemoveCache, vars
<1>7. QED
  BY <1>1, <1>2, <1>3, <1>4, <1>5, <1>6 DEF Next

(***************************************************************************)
(* INV-4: for every number of concurrent tasks, every cap and any crashes  *)
(* and failed writes, the judge implements the daily quota: it never       *)
(* charges more than Cap answers to one counter file and day.              *)
(***************************************************************************)
THEOREM KeepsQuota == Spec => QuotaKept
<1>1. Init => Quota!Init
  BY DEF Init, Quota!Init
<1>2. IInv /\ [Next]_vars => [Quota!Next]_spent
  BY QuotaStep
<1>3. QED
  BY <1>1, <1>2, Inductive, PTL DEF Spec, QuotaKept, Quota!Spec
-----------------------------------------------------------------------------
(***************************************************************************)
(* What a step never does to the files.                                    *)
(***************************************************************************)
\* A charge lands on a readable counter only.
LEMMA ChargeReadable ==
  ASSUME IInv, NEW t \in Tasks, Calling(t), ChargeCounter(t),
         NEW f \in CapFiles, counter[f].state = "torn"
  PROVE  counter'[f].state # "ok"
<1>1. f # PathsOf[t].cap
  BY DEF IInv, CountCurrent, CounterReads, CounterOf
<1>2. QED
  BY <1>1, ChargeOthers

\* Nor does a partial write mend a torn counter.
LEMMA PartWrittenReadable ==
  ASSUME IInv, NEW t \in Tasks, Calling(t), PartWritten(t),
         NEW f \in CapFiles, counter[f].state = "torn"
  PROVE  counter'[f].state # "ok"
<1>1. CASE UNCHANGED counter
  BY <1>1
<1>2. CASE counter' = [counter EXCEPT ![PathsOf[t].cap].state = "torn"]
  BY <1>2 DEF IInv, TypeOK
<1>3. CASE ChargeCounter(t)
  BY <1>3, ChargeReadable
<1>4. QED
  BY <1>1, <1>2, <1>3 DEF PartWritten, files

(***************************************************************************)
(* _doc_counter fails closed (judge.py:282-314): no later call takes a     *)
(* torn counter for a missing one.                                         *)
(***************************************************************************)
THEOREM FailsClosed == Spec => TornCounterStaysTorn
<1>1. ASSUME IInv, [Next]_vars, NEW f \in CapFiles, counter[f].state = "torn"
      PROVE  counter'[f].state # "ok"
  <2>1. CASE UNCHANGED counter
    BY <1>1, <2>1
  <2>2. ASSUME NEW t \in Tasks, Calling(t), ChargeCounter(t) \/ PartWritten(t)
        PROVE  counter'[f].state # "ok"
    BY <1>1, <2>2, ChargeReadable, PartWrittenReadable
  <2>3. ASSUME NEW g \in CapFiles, RemoveCounter(g)
        PROVE  counter'[f].state # "ok"
    BY <1>1, <2>3 DEF RemoveCounter, IInv, TypeOK
  <2>4. \/ UNCHANGED counter
        \/ \E t \in Tasks : Calling(t) /\ (ChargeCounter(t) \/ PartWritten(t))
        \/ \E g \in CapFiles : RemoveCounter(g)
    BY <1>1 DEF Next, Call, Enter, CacheHit, StateUnreadable, CapReached, EndsEarly,
                StartProviderCall, Reply, ProviderRaises, ProviderGarbage,
                ProviderAnswers, CancelWaiting, CancelCalling, WriteFails,
                CrashWriting, Crash, NextDay, RemoveCache, vars, files, Calling
  <2>5. QED
    BY <2>1, <2>2, <2>3, <2>4
<1>2. IInv /\ [Next]_vars =>
        [\A f \in CapFiles : counter[f].state = "torn" => counter'[f].state # "ok"]_vars
  BY <1>1
<1>3. QED
  BY <1>2, Inductive, PTL DEF Spec, TornCounterStaysTorn

\* The file-wide statement of NoVerdictLost for one step.
Kept(f) == cache[f].state = "ok" /\ cache'[f].state = "ok" =>
             \A k \in Keys : cache[f].verdicts[k] # "none"
                               => cache'[f].verdicts[k] = cache[f].verdicts[k]

\* The stored dict differs from the file's at one key that had no verdict.
LEMMA StoredKeeps ==
  ASSUME IInv, NEW t \in Tasks, NEW v \in Verdicts, Calling(t), ProviderAnswers(t, v),
         NEW f \in CacheFiles
  PROVE  Kept(f)
<1> DEFINE c == PathsOf[t].cache
<1>1. c \in CacheFiles /\ KeyOf(question[t]) \in Keys
  BY CachedType, JudgeAssumption DEF IInv
<1>2. CASE f = c
  <2>1. cache'[f].verdicts = [cache[f].verdicts EXCEPT ![KeyOf(question[t])] = v]
    BY <1>1, <1>2 DEF ProviderAnswers, Stored, IInv, TypeOK, CacheCurrent, CacheOf
  <2>2. cache[f].verdicts[KeyOf(question[t])] = "none"
    BY <1>2 DEF IInv, CacheCurrent, Cached, CacheOf
  <2>3. QED
    BY <1>1, <2>1, <2>2 DEF Kept, IInv, TypeOK, Contents
<1>3. CASE f # c
  BY <1>3 DEF ProviderAnswers, IInv, TypeOK, Kept
<1>4. QED
  BY <1>2, <1>3

\* A partial write of the cache leaves it unreadable.
LEMMA PartWrittenLoses ==
  ASSUME IInv, NEW t \in Tasks, PartWritten(t), NEW f \in CacheFiles
  PROVE  Kept(f)
<1>1. CASE UNCHANGED cache
  BY <1>1 DEF Kept
<1>2. CASE cache' = [cache EXCEPT ![PathsOf[t].cache].state = "torn"]
  BY <1>2 DEF IInv, TypeOK, Kept
<1>3. QED
  BY <1>1, <1>2 DEF PartWritten, files

(***************************************************************************)
(* The read-modify-write of the whole cache file around the await          *)
(* (judge.py:233-255) loses nobody's verdict.                              *)
(***************************************************************************)
THEOREM KeepsVerdicts == Spec => NoVerdictLost
<1>1. ASSUME IInv, [Next]_vars, NEW f \in CacheFiles
      PROVE  Kept(f)
  <2>1. CASE UNCHANGED cache
    BY <2>1 DEF Kept
  <2>2. ASSUME NEW t \in Tasks, NEW v \in Verdicts, ProviderAnswers(t, v)
        PROVE  Kept(f)
    BY <1>1, <2>2, StoredKeeps DEF ProviderAnswers, Calling
  <2>3. ASSUME NEW t \in Tasks, PartWritten(t)
        PROVE  Kept(f)
    BY <1>1, <2>3, PartWrittenLoses
  <2>4. ASSUME NEW g \in CacheFiles, RemoveCache(g)
        PROVE  Kept(f)
    BY <1>1, <2>4 DEF RemoveCache, IInv, TypeOK, Kept
  <2>5. \/ UNCHANGED cache
        \/ \E t \in Tasks, v \in Verdicts : ProviderAnswers(t, v)
        \/ \E t \in Tasks : PartWritten(t)
        \/ \E g \in CacheFiles : RemoveCache(g)
    BY <1>1 DEF Next, Call, Enter, CacheHit, StateUnreadable, CapReached, EndsEarly,
                StartProviderCall, Reply, ProviderRaises, ProviderGarbage,
                CancelWaiting, CancelCalling, WriteFails, CrashWriting, Crash,
                NextDay, RemoveCounter, vars, files
  <2>6. QED
    BY <2>1, <2>2, <2>3, <2>4, <2>5
<1>2. IInv /\ [Next]_vars => [\A f \in CacheFiles : Kept(f)]_vars
  BY <1>1
<1>3. QED
  BY <1>2, Inductive, PTL DEF Spec, NoVerdictLost, Kept
-----------------------------------------------------------------------------
(***************************************************************************)
(* What EveryCallReturns rests on: the lock and its queue lose nobody.     *)
(***************************************************************************)
\* The queue of a lock is the tasks that wait for it, once each; its holder is
\* in the provider call.
Attended(l) ==
  /\ \A i \in DOMAIN queue[l] : phase[queue[l][i]] = "waiting" /\ LockOf(queue[l][i]) = l
  /\ \A i, k \in DOMAIN queue[l] : queue[l][i] = queue[l][k] => i = k
  /\ \A t \in Tasks : phase[t] = "waiting" /\ LockOf(t) = l
                        => \E i \in DOMAIN queue[l] : queue[l][i] = t
  /\ holder[l] # NoTask => Calling(holder[l]) /\ LockOf(holder[l]) = l

LocksAttended == \A l \in Locks : Attended(l)

\* Whoever waits for the judge, somebody of its lock may go on.
NobodyIsStuck ==
  \A t \in Tasks : phase[t] = "waiting" =>
    \E u \in Tasks : LockOf(u) = LockOf(t) /\ (Calling(u) \/ Enters(u))

\* Removing one element keeps the others, in their order.
LEMMA RemoveAtElements ==
  ASSUME NEW S, NEW s \in Seq(S), NEW i \in 1..Len(s)
  PROVE  /\ Len(RemoveAt(s, i)) = Len(s) - 1
         /\ \A k \in 1..(Len(s) - 1) : RemoveAt(s, i)[k] = IF k < i THEN s[k] ELSE s[k + 1]
<1> DEFINE front == SubSeq(s, 1, i - 1)
           back == SubSeq(s, i + 1, Len(s))
<1>1. Len(s) \in Nat /\ \A k \in 1..Len(s) : s[k] \in S
  BY LenProperties, ElementOfSeq
<1>2. /\ front \in Seq(S) /\ Len(front) = i - 1
      /\ \A k \in 1..(i - 1) : front[k] = s[k]
  <2>1. \A k \in 1..(i - 1) : s[k] \in S
    BY <1>1
  <2>2. /\ front \in Seq(S)
        /\ Len(front) = IF 1 <= i - 1 THEN (i - 1) - 1 + 1 ELSE 0
        /\ \A k \in 1..((i - 1) - 1 + 1) : front[k] = s[1 + k - 1]
    BY <1>1, <2>1, SubSeqProperties
  <2>3. QED
    BY <1>1, <2>2
<1>3. /\ back \in Seq(S) /\ Len(back) = Len(s) - i
      /\ \A k \in 1..(Len(s) - i) : back[k] = s[i + k]
  <2>1. \A k \in (i + 1)..Len(s) : s[k] \in S
    BY <1>1
  <2>2. /\ back \in Seq(S)
        /\ Len(back) = IF i + 1 <= Len(s) THEN Len(s) - (i + 1) + 1 ELSE 0
        /\ \A k \in 1..(Len(s) - (i + 1) + 1) : back[k] = s[i + 1 + k - 1]
    BY <1>1, <2>1, SubSeqProperties
  <2>3. \A k \in 1..(Len(s) - i) : i + 1 + k - 1 = i + k
    BY <1>1
  <2>4. QED
    BY <1>1, <2>2, <2>3
<1>4. RemoveAt(s, i) = front \o back
  BY DEF RemoveAt
<1> HIDE DEF front, back
<1>5. /\ Len(front \o back) = Len(front) + Len(back)
      /\ \A k \in 1..(Len(front) + Len(back)) :
           (front \o back)[k] = IF k <= Len(front) THEN front[k] ELSE back[k - Len(front)]
  BY <1>2, <1>3, ConcatProperties
<1>6. ASSUME NEW k \in 1..(Len(s) - 1)
      PROVE  RemoveAt(s, i)[k] = IF k < i THEN s[k] ELSE s[k + 1]
  <2>1. CASE k < i
    BY <1>1, <1>2, <1>3, <1>4, <1>5, <2>1
  <2>2. CASE ~(k < i)
    <3>1. k - (i - 1) \in 1..(Len(s) - i) /\ i + (k - (i - 1)) = k + 1
      BY <1>1, <2>2
    <3>2. (front \o back)[k] = back[k - (i - 1)]
      BY <1>1, <1>2, <1>3, <1>5, <2>2
    <3>3. QED
      BY <1>3, <1>4, <2>2, <3>1, <3>2
  <2>3. QED
    BY <2>1, <2>2
<1>7. QED
  BY <1>1, <1>2, <1>3, <1>4, <1>5, <1>6

\* A task that leaves a queue without repetitions leaves it altogether, and alone.
LEMMA LeavesItsQueue ==
  ASSUME NEW S, NEW s \in Seq(S), NEW i \in DOMAIN s, NEW r, r = RemoveAt(s, i),
         \A m, k \in DOMAIN s : s[m] = s[k] => m = k
  PROVE  /\ \A k \in DOMAIN r : r[k] # s[i] /\ \E m \in DOMAIN s : r[k] = s[m]
         /\ \A m, k \in DOMAIN r : r[m] = r[k] => m = k
         /\ \A m \in DOMAIN s : s[m] # s[i] => \E k \in DOMAIN r : r[k] = s[m]
<1>1. Len(s) \in Nat /\ DOMAIN s = 1..Len(s) /\ i \in 1..Len(s)
  BY LenProperties
<1>2. /\ DOMAIN r = 1..(Len(s) - 1)
      /\ \A k \in 1..(Len(s) - 1) : r[k] = IF k < i THEN s[k] ELSE s[k + 1]
  <2>1. r \in Seq(S)
    BY RemoveAtType
  <2>2. QED
    BY <1>1, <2>1, RemoveAtElements, LenProperties
<1>3. ASSUME NEW k \in DOMAIN r
      PROVE  r[k] # s[i] /\ \E m \in DOMAIN s : r[k] = s[m]
  BY <1>1, <1>2, <1>3
<1>4. ASSUME NEW m \in DOMAIN r, NEW k \in DOMAIN r, r[m] = r[k]
      PROVE  m = k
  BY <1>1, <1>2, <1>4
<1>5. ASSUME NEW m \in DOMAIN s, s[m] # s[i]
      PROVE  \E k \in DOMAIN r : r[k] = s[m]
  <2>1. CASE m < i
    <3>1. m \in 1..(Len(s) - 1)
      BY <1>1, <2>1
    <3>2. QED
      BY <1>2, <2>1, <3>1
  <2>2. CASE m > i
    <3>1. m - 1 \in 1..(Len(s) - 1) /\ ~(m - 1 < i) /\ (m - 1) + 1 = m
      BY <1>1, <2>2
    <3>2. QED
      BY <1>2, <3>1
  <2>3. QED
    BY <1>1, <1>5, <2>1, <2>2
<1>6. QED
  BY <1>3, <1>4, <1>5

\* A task that joins the line comes last.
LEMMA JoinAttends ==
  ASSUME TypeOK, LocksAttended, NEW t \in Tasks, phase[t] = "idle",
         phase' = [phase EXCEPT ![t] = "waiting"],
         queue' = [queue EXCEPT ![LockOf(t)] = Append(queue[LockOf(t)], t)],
         holder' = holder
  PROVE  LocksAttended'
<1> SUFFICES ASSUME NEW l \in Locks PROVE Attended(l)'
  BY DEF LocksAttended, Locks
<1>1. Attended(l)
  BY DEF LocksAttended
<1>2. /\ queue[l] \in Seq(Tasks) /\ holder[l] \in Tasks \cup {NoTask}
      /\ LockOf(t) \in Locks
      /\ queue \in [Locks -> Seq(Tasks)] /\ phase \in [Tasks -> {"idle", "waiting", "calling"}]
  BY LockOfType DEF TypeOK
<1>3. /\ Len(queue[l]) \in Nat /\ DOMAIN queue[l] = 1..Len(queue[l])
      /\ \A i \in DOMAIN queue[l] : queue[l][i] \in Tasks
  BY <1>2, LenProperties, ElementOfSeq
<1>4. \A i \in DOMAIN queue[l] : queue[l][i] # t
  BY <1>1 DEF Attended
<1>5. \A u \in Tasks : u # t => phase'[u] = phase[u]
  BY <1>2
<1>6. phase'[t] = "waiting"
  BY <1>2
<1>7. holder'[l] # NoTask => phase'[holder'[l]] = "calling" /\ LockOf(holder'[l]) = l
  BY <1>1, <1>2, <1>5 DEF Attended, Calling
<1>8. CASE LockOf(t) = l
  <2> DEFINE q == Append(queue[l], t)
  <2>1. queue'[l] = q
    BY <1>2, <1>8
  <2>2. /\ Len(q) = Len(queue[l]) + 1
        /\ \A i \in 1..Len(queue[l]) : q[i] = queue[l][i]
        /\ q[Len(queue[l]) + 1] = t
    BY <1>2, AppendProperties
  <2>3. DOMAIN q = 1..(Len(queue[l]) + 1)
    BY <1>2, <2>2, AppendProperties, LenProperties
  <2> HIDE DEF q
  <2>4. \A i \in DOMAIN q : phase'[q[i]] = "waiting" /\ LockOf(q[i]) = l
    <3>1. SUFFICES ASSUME NEW i \in DOMAIN q
                   PROVE  phase'[q[i]] = "waiting" /\ LockOf(q[i]) = l
      OBVIOUS
    <3>2. CASE i = Len(queue[l]) + 1
      BY <1>6, <1>8, <2>2, <3>2
    <3>3. CASE i # Len(queue[l]) + 1
      <4>1. i \in 1..Len(queue[l])
        BY <1>3, <2>3, <3>3
      <4>2. QED
        BY <1>1, <1>3, <1>4, <1>5, <2>2, <4>1 DEF Attended
    <3>4. QED
      BY <3>2, <3>3
  <2>5. \A i, k \in DOMAIN q : q[i] = q[k] => i = k
    BY <1>1, <1>3, <1>4, <2>2, <2>3 DEF Attended
  <2>6. ASSUME NEW u \in Tasks, phase'[u] = "waiting", LockOf(u) = l
        PROVE  \E i \in DOMAIN q : q[i] = u
    <3>1. CASE u = t
      BY <1>3, <2>2, <2>3, <3>1
    <3>2. CASE u # t
      <4>1. PICK i \in DOMAIN queue[l] : queue[l][i] = u
        BY <1>1, <1>5, <2>6, <3>2 DEF Attended
      <4>2. QED
        BY <1>3, <2>2, <2>3, <4>1
    <3>3. QED
      BY <3>1, <3>2
  <2>7. \A u \in Tasks : phase'[u] = "waiting" /\ LockOf(u) = l
                           => \E i \in DOMAIN q : q[i] = u
    BY <2>6
  <2>8. \A i \in DOMAIN queue'[l] : phase'[queue'[l][i]] = "waiting" /\ LockOf(queue'[l][i]) = l
    BY <2>1, <2>4
  <2>9. \A i, k \in DOMAIN queue'[l] : queue'[l][i] = queue'[l][k] => i = k
    BY <2>1, <2>5
  <2>10. \A u \in Tasks : phase'[u] = "waiting" /\ LockOf(u) = l
                           => \E i \in DOMAIN queue'[l] : queue'[l][i] = u
    BY <2>1, <2>7
  <2>11. QED
    BY <1>7, <2>8, <2>9, <2>10 DEF Attended, Calling, LockOf
<1>9. CASE LockOf(t) # l
  <2>1. queue'[l] = queue[l]
    BY <1>2, <1>9
  <2>2. QED
    BY <1>1, <1>3, <1>4, <1>5, <1>7, <1>9, <2>1 DEF Attended, Calling, LockOf
<1>10. QED
  BY <1>8, <1>9

\* A task that leaves the line does so by ending its call, or with the lock.
LEMMA LeaveAttends ==
  ASSUME TypeOK, LocksAttended, NEW t \in Tasks, phase[t] = "waiting", LeaveQueue(t),
         \/ phase' = [phase EXCEPT ![t] = "idle"] /\ holder' = holder
         \/ /\ phase' = [phase EXCEPT ![t] = "calling"]
            /\ holder' = [holder EXCEPT ![LockOf(t)] = t]
  PROVE  LocksAttended'
<1> SUFFICES ASSUME NEW l \in Locks PROVE Attended(l)'
  BY DEF LocksAttended, Locks
<1>1. Attended(l)
  BY DEF LocksAttended
<1>2. /\ queue[l] \in Seq(Tasks) /\ holder[l] \in Tasks \cup {NoTask}
      /\ LockOf(t) \in Locks
      /\ queue \in [Locks -> Seq(Tasks)] /\ holder \in [Locks -> Tasks \cup {NoTask}]
      /\ phase \in [Tasks -> {"idle", "waiting", "calling"}]
  BY LockOfType DEF TypeOK
<1>3. \A i \in DOMAIN queue[l] : queue[l][i] \in Tasks
  BY <1>2, LenProperties, ElementOfSeq
<1>4. \A u \in Tasks : u # t => phase'[u] = phase[u]
  BY <1>2
<1>5. phase'[t] # "waiting"
  BY <1>2
<1>6. holder'[l] # NoTask => phase'[holder'[l]] = "calling" /\ LockOf(holder'[l]) = l
  <2>1. CASE phase' = [phase EXCEPT ![t] = "idle"] /\ holder' = holder
    BY <1>1, <1>2, <1>4, <2>1 DEF Attended, Calling
  <2>2. CASE /\ phase' = [phase EXCEPT ![t] = "calling"]
             /\ holder' = [holder EXCEPT ![LockOf(t)] = t]
    <3>1. CASE LockOf(t) = l
      BY <1>2, <2>2, <3>1 DEF Calling
    <3>2. CASE LockOf(t) # l
      BY <1>1, <1>2, <1>4, <2>2, <3>2 DEF Attended, Calling
    <3>3. QED
      BY <3>1, <3>2
  <2>3. QED
    BY <2>1, <2>2
<1>7. CASE LockOf(t) = l
  <2>1. PICK i \in DOMAIN queue[l] :
          queue[l][i] = t /\ queue' = [queue EXCEPT ![l] = RemoveAt(queue[l], i)]
    BY <1>7 DEF LeaveQueue
  <2> DEFINE q == RemoveAt(queue[l], i)
  <2>2. queue'[l] = q
    BY <1>2, <2>1
  <2>3. /\ \A k \in DOMAIN q : q[k] # t /\ \E m \in DOMAIN queue[l] : q[k] = queue[l][m]
        /\ \A m, k \in DOMAIN q : q[m] = q[k] => m = k
        /\ \A m \in DOMAIN queue[l] : queue[l][m] # t => \E k \in DOMAIN q : q[k] = queue[l][m]
    <3>1. \A m, k \in DOMAIN queue[l] : queue[l][m] = queue[l][k] => m = k
      BY <1>1 DEF Attended
    <3>2. QED
      BY <1>2, <2>1, <3>1, LeavesItsQueue
  <2> HIDE DEF q
  <2>4. \A k \in DOMAIN q : phase'[q[k]] = "waiting" /\ LockOf(q[k]) = l
    BY <1>1, <1>3, <1>4, <2>3 DEF Attended
  <2>5. ASSUME NEW u \in Tasks, phase'[u] = "waiting", LockOf(u) = l
        PROVE  \E k \in DOMAIN q : q[k] = u
    BY <1>1, <1>4, <1>5, <2>3, <2>5 DEF Attended
  <2>6. QED
    BY <1>6, <2>2, <2>3, <2>4, <2>5 DEF Attended, Calling, LockOf
<1>8. CASE LockOf(t) # l
  <2>1. queue'[l] = queue[l]
    BY <1>2, <1>8 DEF LeaveQueue
  <2>2. \A i \in DOMAIN queue[l] : queue[l][i] # t
    BY <1>1, <1>8 DEF Attended
  <2>3. QED
    BY <1>1, <1>3, <1>4, <1>6, <1>8, <2>1, <2>2 DEF Attended, Calling, LockOf
<1>9. QED
  BY <1>7, <1>8

\* A task that comes back from the provider frees the lock it holds.
LEMMA ReleaseAttends ==
  ASSUME TypeOK, LocksAttended, NEW t \in Tasks, Calling(t), Release(t),
         phase' = [phase EXCEPT ![t] = "idle"], queue' = queue
  PROVE  LocksAttended'
<1> SUFFICES ASSUME NEW l \in Locks PROVE Attended(l)'
  BY DEF LocksAttended, Locks
<1>1. Attended(l)
  BY DEF LocksAttended
<1>2. /\ queue[l] \in Seq(Tasks) /\ holder[l] \in Tasks \cup {NoTask}
      /\ LockOf(t) \in Locks
      /\ holder \in [Locks -> Tasks \cup {NoTask}]
      /\ phase \in [Tasks -> {"idle", "waiting", "calling"}]
  BY LockOfType DEF TypeOK
<1>3. \A i \in DOMAIN queue[l] : queue[l][i] \in Tasks /\ queue[l][i] # t
  BY <1>1, <1>2, LenProperties, ElementOfSeq DEF Attended, Calling
<1>4. \A u \in Tasks : u # t => phase'[u] = phase[u]
  BY <1>2
<1>5. phase'[t] = "idle"
  BY <1>2
<1>6. holder'[l] # NoTask => holder'[l] = holder[l] /\ holder[l] # t
  BY <1>1, <1>2 DEF Attended, Release
<1>7. holder'[l] # NoTask => phase'[holder'[l]] = "calling" /\ LockOf(holder'[l]) = l
  BY <1>1, <1>2, <1>4, <1>6 DEF Attended, Calling
<1>8. QED
  BY <1>1, <1>3, <1>4, <1>5, <1>7 DEF Attended, Calling, LockOf

\* One step per kind of step: joining, leaving the line, coming back, dying.
LEMMA AttendedStep ==
  ASSUME TypeOK, LocksAttended, [Next]_vars
  PROVE  LocksAttended'
<1>1. ASSUME NEW t \in Tasks, NEW q \in Questions, Call(t, q)
      PROVE  LocksAttended'
  BY <1>1, JoinAttends DEF Call
<1>2. ASSUME NEW t \in Tasks, Enter(t) \/ CancelWaiting(t)
      PROVE  LocksAttended'
  BY <1>2, LeaveAttends
     DEF Enter, CacheHit, StateUnreadable, CapReached, StartProviderCall, CancelWaiting,
         EndsEarly, Enters, Leave
<1>3. ASSUME NEW t \in Tasks, Reply(t) \/ CancelCalling(t) \/ WriteFails(t)
      PROVE  LocksAttended'
  BY <1>3, ReleaseAttends
     DEF Reply, ProviderRaises, ProviderGarbage, ProviderAnswers, CancelCalling, WriteFails,
         Leave, Calling
<1>4. ASSUME ProcessEnds
      PROVE  LocksAttended'
  <2>1. \A l \in Locks : queue'[l] = <<>> /\ holder'[l] = NoTask
    BY <1>4 DEF ProcessEnds
  <2>2. \A t \in Tasks : phase'[t] = "idle"
    BY <1>4 DEF ProcessEnds
  <2>3. QED
    BY <2>1, <2>2 DEF LocksAttended, Attended, Locks
<1>5. ASSUME UNCHANGED <<phase, queue, holder>>
      PROVE  LocksAttended'
  BY <1>5 DEF LocksAttended, Attended, Calling, LockOf, Locks
<1>6. QED
  BY <1>1, <1>2, <1>3, <1>4, <1>5
     DEF Next, Crash, CrashWriting, NextDay, RemoveCounter, RemoveCache, vars

(***************************************************************************)
(* Deadlock freedom of the judge's lock: whenever a task waits, a task of  *)
(* the same lock is in the provider call, or heads the queue of a free     *)
(* lock and enters; cancellation, failures and crashes strand nobody.      *)
(* EveryCallReturns adds that the provider and the event loop go on.       *)
(***************************************************************************)
THEOREM LocksAreNeverLost == Spec => []NobodyIsStuck
<1>1. Init => LocksAttended
  BY DEF Init, LocksAttended, Attended
<1>2. TypeOK /\ LocksAttended /\ [Next]_vars => LocksAttended'
  BY AttendedStep
<1>3. ASSUME TypeOK, LocksAttended, NEW t \in Tasks, phase[t] = "waiting"
      PROVE  \E u \in Tasks : LockOf(u) = LockOf(t) /\ (Calling(u) \/ Enters(u))
  <2> DEFINE l == LockOf(t)
  <2>1. /\ l \in Locks /\ Attended(l)
        /\ queue[l] \in Seq(Tasks) /\ holder[l] \in Tasks \cup {NoTask}
    BY <1>3, LockOfType DEF LocksAttended, TypeOK
  <2>2. CASE holder[l] # NoTask
    BY <2>1, <2>2 DEF Attended
  <2>3. CASE holder[l] = NoTask
    <3>1. PICK i \in DOMAIN queue[l] : queue[l][i] = t
      BY <1>3, <2>1 DEF Attended
    <3>2. Len(queue[l]) \in Nat /\ DOMAIN queue[l] = 1..Len(queue[l])
      BY <2>1, LenProperties
    <3>3. 1 \in DOMAIN queue[l] /\ queue[l] # <<>>
      BY <3>1, <3>2
    <3>4. Head(queue[l]) = queue[l][1] /\ queue[l][1] \in Tasks
      BY <2>1, <3>2, <3>3, HeadTailProperties, ElementOfSeq
    <3>5. phase[queue[l][1]] = "waiting" /\ LockOf(queue[l][1]) = l
      BY <2>1, <3>3 DEF Attended
    <3>6. Enters(queue[l][1])
      BY <2>3, <3>3, <3>4, <3>5 DEF Enters
    <3>7. QED
      BY <3>4, <3>5, <3>6
  <2>4. QED
    BY <2>2, <2>3
<1>4. TypeOK /\ LocksAttended => NobodyIsStuck
  BY <1>3 DEF NobodyIsStuck
<1>5. QED
  BY <1>1, <1>2, <1>4, TypeCorrect, PTL DEF Spec
=============================================================================
