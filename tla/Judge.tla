-------------------------------- MODULE Judge --------------------------------
(***************************************************************************)
(* LLMJudge.judge(): several asyncio tasks of one process grade answers    *)
(* through one provider, behind a per-file-pair lock, a verdict cache file *)
(* and a daily-cap counter file.  The only await inside the lock is the    *)
(* provider call, so judge() is two atomic steps: up to the call, and from *)
(* its answer on.  Files outlive the process; locks, tasks and results do  *)
(* not.  A write truncates first, so a fault during it leaves a file that  *)
(* does not parse.                                                         *)
(***************************************************************************)
EXTENDS Naturals, SequencesExt

CONSTANTS Tasks,       \* concurrent callers of judge()
          NoTask,      \* holder of a free lock
          Cases,       \* case_id
          Expecteds,   \* the golden answer the caller passes
          Actuals,     \* the agent's answer
          CacheFiles,  \* cache_path values
          CapFiles,    \* cap_path values
          PathsOf,     \* [Tasks -> [cache, cap]], the paths of the task's LLMJudge
          Cap,         \* calls allowed per day
          MaxDay,      \* bound: midnights the model passes
          MaxFaults    \* bound: crashes and failed writes

ASSUME JudgeAssumption ==
  /\ NoTask \notin Tasks
  /\ Cases # {} /\ Expecteds # {} /\ Actuals # {}
  /\ Cap \in Nat
  /\ MaxDay \in Nat
  /\ MaxFaults \in Nat
  /\ PathsOf \in [Tasks -> [cache : CacheFiles, cap : CapFiles]]

(***************************************************************************)
(* Judges that share one file share both: the deployment the lock was      *)
(* built for, where the process's settings fix the pair of paths.          *)
(***************************************************************************)
ASSUME PathsArePaired ==
  \A t, u \in Tasks : PathsOf[t].cache = PathsOf[u].cache
                         <=> PathsOf[t].cap = PathsOf[u].cap

VARIABLES phase,      \* where each task is in judge()
          question,   \* its arguments
          result,     \* what its last call returned or raised
          readCount,  \* so_da_goi, read before the await
          readCache,  \* the cache dict, read before the await
          queue,      \* FIFO waiters of each lock
          holder,     \* owner of each lock
          cache,      \* the cache files
          counter,    \* the counter files
          today,      \* _hom_nay()
          faults,     \* crashes and failed writes so far
          spent,      \* history: answers charged today, per counter file
          graded      \* history: <<question, verdict>> the provider has given

files == <<cache, counter>>
locals == <<readCount, readCache>>
vars == <<phase, question, result, readCount, readCache, queue, holder,
          cache, counter, today, faults, spent, graded>>
-----------------------------------------------------------------------------
Questions == [case : Cases, expected : Expecteds, actual : Actuals]
Keys == [case : Cases, actual : Actuals]
Verdicts == {"PASS", "FAIL"}
Replies == Verdicts \cup {"garbage"}
Results == Verdicts \cup {"none", "CAP_REACHED", "PROVIDER_UNAVAILABLE",
                          "STATE_UNREADABLE", "UnicodeDecodeError", "OSError",
                          "CancelledError"}
Contents == [Keys -> Verdicts \cup {"none"}]
FileStates == {"missing", "ok", "torn"}

Locks == CacheFiles \X CapFiles
LockOf(t) == <<PathsOf[t].cache, PathsOf[t].cap>>

M_KeyOfCaseOnly(q) == [case |-> q.case, actual |-> CHOOSE a \in Actuals : TRUE]
\* The cache key: the case and the answer given, not what was expected of it.
KeyOf(q) == [case |-> q.case, actual |-> q.actual]

NoVerdicts == [k \in Keys |-> "none"]
CacheOf(t) == cache[PathsOf[t].cache]
CounterOf(t) == counter[PathsOf[t].cap]
Cached(t) == CacheOf(t).verdicts[KeyOf(question[t])]

CacheReads(t) == CacheOf(t).state # "torn"
M_TornCounterReads(t) == TRUE
CounterReads(t) == CounterOf(t).state # "torn"

\* _doc_counter: a file of another date counts zero; a missing one has date 0.
CountToday(f) == IF counter[f].date = today THEN counter[f].count ELSE 0

M_AtCapOffByOne(t) == CountToday(PathsOf[t].cap) > Cap
AtCap(t) == CountToday(PathsOf[t].cap) >= Cap

Init == /\ phase = [t \in Tasks |-> "idle"]
        /\ question = [t \in Tasks |-> CHOOSE q \in Questions : TRUE]
        /\ result = [t \in Tasks |-> "none"]
        /\ readCount = [t \in Tasks |-> 0]
        /\ readCache = [t \in Tasks |-> NoVerdicts]
        /\ queue = [l \in Locks |-> <<>>]
        /\ holder = [l \in Locks |-> NoTask]
        /\ cache = [f \in CacheFiles |-> [state |-> "missing", verdicts |-> NoVerdicts]]
        /\ counter = [f \in CapFiles |-> [state |-> "missing", date |-> 0, count |-> 0]]
        /\ today = 1
        /\ faults = 0
        /\ spent = [f \in CapFiles |-> 0]
        /\ graded = {}
-----------------------------------------------------------------------------
(***************************************************************************)
(* Entering: async with self._lock, then the cache, then the counter.      *)
(***************************************************************************)
Call(t, q) ==
  /\ phase[t] = "idle"
  /\ phase' = [phase EXCEPT ![t] = "waiting"]
  /\ question' = [question EXCEPT ![t] = q]
  /\ result' = [result EXCEPT ![t] = "none"]
  /\ queue' = [queue EXCEPT ![LockOf(t)] = Append(@, t)]
  /\ UNCHANGED <<locals, holder, files, today, faults, spent, graded>>

LeaveQueue(t) == \E i \in DOMAIN queue[LockOf(t)] :
                    /\ queue[LockOf(t)][i] = t
                    /\ queue' = [queue EXCEPT ![LockOf(t)] = RemoveAt(@, i)]

M_EntersUnlocked(t) == phase[t] = "waiting"
\* asyncio.Lock is fair: a free lock goes to its longest waiter.
Enters(t) == /\ phase[t] = "waiting"
             /\ holder[LockOf(t)] = NoTask
             /\ queue[LockOf(t)] # <<>>
             /\ Head(queue[LockOf(t)]) = t

\* judge() returns or raises r.
Leave(t, r) == /\ phase' = [phase EXCEPT ![t] = "idle"]
               /\ result' = [result EXCEPT ![t] = r]
               /\ readCount' = [readCount EXCEPT ![t] = 0]
               /\ readCache' = [readCache EXCEPT ![t] = NoVerdicts]
               /\ UNCHANGED question

\* A call that ends before the provider takes the lock and gives it back at once.
EndsEarly(t, r) ==
  /\ Enters(t)
  /\ LeaveQueue(t)
  /\ Leave(t, r)
  /\ UNCHANGED <<holder, files, today, faults, spent, graded>>

\* A hit needs no quota: it is served even at the cap.
CacheHit(t) == /\ CacheReads(t)
               /\ Cached(t) # "none"
               /\ EndsEarly(t, Cached(t))

\* A file that does not parse.  The cache file holds answers, which are not ASCII:
\* where it is cut inside a character, reading it raises what _doc_json does not catch.
StateUnreadable(t) ==
  \/ /\ ~CacheReads(t)
     /\ \E r \in {"STATE_UNREADABLE", "UnicodeDecodeError"} : EndsEarly(t, r)
  \/ /\ CacheReads(t)
     /\ Cached(t) = "none"
     /\ ~CounterReads(t)
     /\ EndsEarly(t, "STATE_UNREADABLE")

CapReached(t) == /\ CacheReads(t)
                 /\ Cached(t) = "none"
                 /\ CounterReads(t)
                 /\ AtCap(t)
                 /\ EndsEarly(t, "CAP_REACHED")

\* Up to the await: what was read stays in local variables.
StartProviderCall(t) ==
  /\ Enters(t)
  /\ CacheReads(t)
  /\ Cached(t) = "none"
  /\ CounterReads(t)
  /\ ~AtCap(t)
  /\ LeaveQueue(t)
  /\ holder' = [holder EXCEPT ![LockOf(t)] = t]
  /\ phase' = [phase EXCEPT ![t] = "calling"]
  /\ readCount' = [readCount EXCEPT ![t] = CountToday(PathsOf[t].cap)]
  /\ readCache' = [readCache EXCEPT ![t] = CacheOf(t).verdicts]
  /\ UNCHANGED <<question, result, files, today, faults, spent, graded>>
-----------------------------------------------------------------------------
(***************************************************************************)
(* After the await: charge, parse, store, all before the next await.       *)
(***************************************************************************)
M_KeepsLock(t) == UNCHANGED holder
Release(t) == holder' = [holder EXCEPT ![LockOf(t)] = NoTask]

\* What _ghi_counter(so_da_goi + 1) leaves: the old count under the new date.
Charged(t) == [state |-> "ok", date |-> today, count |-> readCount[t] + 1]

M_StoresOnlyNew(t, v) == [state |-> "ok",
                          verdicts |-> [NoVerdicts EXCEPT ![KeyOf(question[t])] = v]]
\* What _ghi_cache leaves: the dict read before the call, with one entry more.
Stored(t, v) == [state |-> "ok",
                 verdicts |-> [readCache[t] EXCEPT ![KeyOf(question[t])] = v]]

ChargeCounter(t) ==
  /\ counter' = [counter EXCEPT ![PathsOf[t].cap] = Charged(t)]
  /\ spent' = [spent EXCEPT ![PathsOf[t].cap] = @ + 1]

\* llm.complete raised: nothing is charged.
ProviderRaises(t) ==
  /\ phase[t] = "calling"
  /\ Leave(t, "PROVIDER_UNAVAILABLE")
  /\ Release(t)
  /\ UNCHANGED <<queue, files, today, faults, spent, graded>>

\* The answer is paid for before it is parsed, so garbage costs a call too.
ProviderGarbage(t) ==
  /\ phase[t] = "calling"
  /\ ChargeCounter(t)
  /\ Leave(t, "PROVIDER_UNAVAILABLE")
  /\ Release(t)
  /\ UNCHANGED <<queue, cache, today, faults, graded>>

ProviderAnswers(t, v) ==
  /\ phase[t] = "calling"
  /\ ChargeCounter(t)
  /\ cache' = [cache EXCEPT ![PathsOf[t].cache] = Stored(t, v)]
  /\ graded' = graded \cup {<<question[t], v>>}
  /\ Leave(t, v)
  /\ Release(t)
  /\ UNCHANGED <<queue, today, faults>>

\* CancelledError is not an Exception: it passes judge() and charges nothing.
CancelWaiting(t) ==
  /\ phase[t] = "waiting"
  /\ LeaveQueue(t)
  /\ Leave(t, "CancelledError")
  /\ UNCHANGED <<holder, files, today, faults, spent, graded>>

CancelCalling(t) ==
  /\ phase[t] = "calling"
  /\ Leave(t, "CancelledError")
  /\ Release(t)
  /\ UNCHANGED <<queue, files, today, faults, spent, graded>>
-----------------------------------------------------------------------------
(***************************************************************************)
(* Faults, midnight and the operator.                                      *)
(***************************************************************************)
\* How far the two writes got when a fault struck between answer and return.
PartWritten(t) ==
  \/ UNCHANGED <<files, spent>>
  \/ /\ counter' = [counter EXCEPT ![PathsOf[t].cap].state = "torn"]
     /\ UNCHANGED <<cache, spent>>
  \/ ChargeCounter(t) /\ UNCHANGED cache
  \/ /\ ChargeCounter(t)
     /\ cache' = [cache EXCEPT ![PathsOf[t].cache].state = "torn"]

\* mkdir or write_text fails (full disk): OSError leaves judge() as it is.
WriteFails(t) ==
  /\ phase[t] = "calling"
  /\ faults < MaxFaults
  /\ faults' = faults + 1
  /\ PartWritten(t)
  /\ Leave(t, "OSError")
  /\ Release(t)
  /\ UNCHANGED <<queue, today, graded>>

ProcessEnds == /\ faults < MaxFaults
               /\ faults' = faults + 1
               /\ phase' = [t \in Tasks |-> "idle"]
               /\ result' = [t \in Tasks |-> "none"]
               /\ readCount' = [t \in Tasks |-> 0]
               /\ readCache' = [t \in Tasks |-> NoVerdicts]
               /\ queue' = [l \in Locks |-> <<>>]
               /\ holder' = [l \in Locks |-> NoTask]
               /\ UNCHANGED <<question, today, graded>>

\* The process dies while every task is suspended.
Crash == ProcessEnds /\ UNCHANGED <<files, spent>>

\* The process dies between an answer and the end of its last write.
CrashWriting(t) == /\ phase[t] = "calling"
                   /\ PartWritten(t)
                   /\ ProcessEnds

NextDay == /\ today < MaxDay
           /\ today' = today + 1
           /\ spent' = [f \in CapFiles |-> 0]
           /\ UNCHANGED <<phase, question, result, locals, queue, holder, files,
                          faults, graded>>

\* A person removes an unreadable file.
RemoveCounter(f) ==
  /\ counter[f].state = "torn"
  /\ counter' = [counter EXCEPT ![f] = [state |-> "missing", date |-> 0, count |-> 0]]
  /\ spent' = [spent EXCEPT ![f] = 0]
  /\ UNCHANGED <<phase, question, result, locals, queue, holder, cache, today,
                 faults, graded>>

RemoveCache(f) ==
  /\ cache[f].state = "torn"
  /\ cache' = [cache EXCEPT ![f] = [state |-> "missing", verdicts |-> NoVerdicts]]
  /\ UNCHANGED <<phase, question, result, locals, queue, holder, counter, today,
                 faults, spent, graded>>
-----------------------------------------------------------------------------
Enter(t) == \/ CacheHit(t)
            \/ StateUnreadable(t)
            \/ CapReached(t)
            \/ StartProviderCall(t)

Reply(t) == \/ ProviderRaises(t)
            \/ ProviderGarbage(t)
            \/ \E v \in Verdicts : ProviderAnswers(t, v)

Next == \/ \E t \in Tasks : \/ \E q \in Questions : Call(t, q)
                             \/ Enter(t)
                             \/ Reply(t)
                             \/ CancelWaiting(t)
                             \/ CancelCalling(t)
                             \/ WriteFails(t)
                             \/ CrashWriting(t)
        \/ Crash
        \/ NextDay
        \/ \E f \in CapFiles : RemoveCounter(f)
        \/ \E f \in CacheFiles : RemoveCache(f)

Spec == Init /\ [][Next]_vars

(***************************************************************************)
(* The event loop resumes a task whose lock is free, and the provider      *)
(* client answers or raises in the end: judge() itself has no timeout.     *)
(***************************************************************************)
Fairness == \A t \in Tasks : WF_vars(Enter(t)) /\ WF_vars(Reply(t))

FairSpec == Spec /\ Fairness
-----------------------------------------------------------------------------
(***************************************************************************)
(* Properties.                                                             *)
(***************************************************************************)
\* Every variable has its type; a readable counter never exceeds the cap.
TypeOK ==
  /\ phase \in [Tasks -> {"idle", "waiting", "calling"}]
  /\ question \in [Tasks -> Questions]
  /\ result \in [Tasks -> Results]
  /\ readCount \in [Tasks -> Nat]
  /\ readCache \in [Tasks -> Contents]
  /\ queue \in [Locks -> Seq(Tasks)]
  /\ holder \in [Locks -> Tasks \cup {NoTask}]
  /\ cache \in [CacheFiles -> [state : FileStates, verdicts : Contents]]
  /\ counter \in [CapFiles -> [state : FileStates, date : Nat, count : 0..Cap]]
  /\ today \in Nat \ {0}
  /\ faults \in Nat
  /\ spent \in [CapFiles -> Nat]
  /\ graded \subseteq Questions \X Verdicts

(***************************************************************************)
(* judge() keeps the daily quota (INV-4): whatever interleaves, crashes or *)
(* fails, answers charged on one day to one counter file never exceed Cap. *)
(***************************************************************************)
Quota == INSTANCE DailyQuota WITH used <- spent
QuotaKept == Quota!Spec

(***************************************************************************)
(* The question a task takes to the provider is not answered in the cache  *)
(* file: two overlapping calls never pay twice for one (case, answer).     *)
(***************************************************************************)
NothingGradedTwice ==
  \A t \in Tasks : phase[t] = "calling" => CacheReads(t) /\ Cached(t) = "none"

(***************************************************************************)
(* A verdict judge() returned was given by the provider for the same case  *)
(* and the same answer, whatever else the cache holds.                     *)
(***************************************************************************)
VerdictOfSameAnswer ==
  \A t \in Tasks : result[t] \in Verdicts =>
    \E g \in graded : /\ g[1].case = question[t].case
                      /\ g[1].actual = question[t].actual
                      /\ g[2] = result[t]

(***************************************************************************)
(* While the cache file is readable no verdict in it changes or is lost:   *)
(* one task's whole-file write never undoes another's.                     *)
(***************************************************************************)
NoVerdictLost ==
  [][\A f \in CacheFiles : cache[f].state = "ok" /\ cache'[f].state = "ok" =>
       \A k \in Keys : cache[f].verdicts[k] # "none"
                          => cache'[f].verdicts[k] = cache[f].verdicts[k]]_vars

(***************************************************************************)
(* A counter that cannot be read fails closed: only a person brings it     *)
(* back, never a later call that takes it for a missing one.               *)
(***************************************************************************)
TornCounterStaysTorn ==
  [][\A f \in CapFiles : counter[f].state = "torn" => counter'[f].state # "ok"]_vars

\* A task that waits for the judge leaves it: no path keeps the lock.
EveryCallReturns ==
  \A t \in Tasks : phase[t] = "waiting" ~> phase[t] = "idle"
=============================================================================
