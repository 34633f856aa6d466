------------------------- MODULE TraceReport_proofs -------------------------
(***************************************************************************)
(* What a report says, for any number of runs and cases and however its    *)
(* reads fall between the writes of the engine.                            *)
(***************************************************************************)
EXTENDS TraceReport, FiniteSetTheorems, TLAPS

\* A sequence, of whatever values.
Sequence(s) == s \in Seq({s[i] : i \in DOMAIN s})

\* The first events of a run, or all of them.
Begins(part, whole) ==
  /\ Sequence(part)
  /\ Len(part) <= Len(whole)
  /\ \A i \in DOMAIN part : part[i] = whole[i]

\* What is stored of a run begins what it will store.
EngineRight ==
  /\ script \in [RunIds -> Scripts]
  /\ DOMAIN stored = RunIds
  /\ \A r \in RunIds : Begins(stored[r], script[r])

\* Each row scores the trace its run was remembered with, and no run was read for
\* anything else.
RowsRight ==
  /\ \A r \in DOMAIN read : \E i \in DOMAIN results : report.specs[i].run = r
  /\ \A i \in DOMAIN results :
       LET spec == report.specs[i]
       IN  /\ spec.run \in DOMAIN read
           /\ ~ScoreRejected(spec.case, read[spec.run], report.byChunks)
           /\ results[i] = ScoreRunFromTrace(spec.case, read[spec.run], report.byChunks)

\* What a report holds at each stage.
ReportRight ==
  /\ stage \in {"started", "reading", "printed", "failed"}
  /\ report \in Reports
  /\ Sequence(results) /\ Len(results) <= Len(report.specs)
  /\ DOMAIN read \subseteq RunIds /\ IsFiniteSet(DOMAIN read)
  /\ \A r \in DOMAIN read : Begins(read[r], stored[r])
  /\ listed # {} => report.list

\* A cost is printed for one run of one tenant.
CostRight ==
  cost # NoCost => /\ stage = "printed"
                   /\ \E r \in RunIds : /\ DOMAIN read = {r}
                                        /\ cost = RunCostFromTrace(read[r])
                                        /\ Cardinality(TenantsOf(read[r])) = 1

\* The inductive invariant.
IInv == EngineRight /\ RowsRight /\ ReportRight /\ CostRight

\* list.append, and what stays where it was.
LEMMA AppendSequence ==
  ASSUME NEW s, NEW e, Sequence(s)
  PROVE  /\ Sequence(Append(s, e))
         /\ Len(Append(s, e)) = Len(s) + 1
         /\ DOMAIN Append(s, e) = 1..Len(s) + 1
         /\ \A i \in DOMAIN s : Append(s, e)[i] = s[i]
         /\ Append(s, e)[Len(s) + 1] = e
         /\ Len(s) \in Nat /\ DOMAIN s = 1..Len(s)
<1> DEFINE S == {s[i] : i \in DOMAIN s} \cup {e}
<1>1. s \in Seq(S)
  BY DEF Sequence
<1>2. Append(s, e) \in Seq(S)
  BY <1>1
<1>3. /\ Len(Append(s, e)) = Len(s) + 1
      /\ DOMAIN Append(s, e) = 1..Len(s) + 1
      /\ \A i \in DOMAIN s : Append(s, e)[i] = s[i]
      /\ Append(s, e)[Len(s) + 1] = e
      /\ Len(s) \in Nat /\ DOMAIN s = 1..Len(s)
  BY <1>1
<1>4. Sequence(Append(s, e))
  BY <1>3, <1>2 DEF Sequence
<1>5. QED
  BY <1>3, <1>4

\* Two beginnings, one of the other.
LEMMA BeginsChain ==
  ASSUME NEW a, NEW b, NEW c, Begins(a, b), Begins(b, c), Sequence(c)
  PROVE  Begins(a, c)
BY DEF Begins, Sequence

\* Where a part has as many events as the whole, it is the whole.
LEMMA BeginsAll ==
  ASSUME NEW a, NEW b, Begins(a, b), Sequence(b), Len(a) = Len(b)
  PROVE  a = b
<1>1. /\ DOMAIN a = 1..Len(a) /\ DOMAIN b = 1..Len(b)
      /\ a = [i \in 1..Len(a) |-> a[i]] /\ b = [i \in 1..Len(b) |-> b[i]]
  BY DEF Begins, Sequence
<1>2. QED
  BY <1>1 DEF Begins

\* IsPrefix says the same.
LEMMA BeginsIsPrefix ==
  ASSUME NEW a, NEW b, Begins(a, b), Sequence(b)
  PROVE  IsPrefix(a, b)
<1> DEFINE S == {a[i] : i \in DOMAIN a} \cup {b[i] : i \in DOMAIN b}
<1>1. a \in Seq(S) /\ b \in Seq(S) /\ Len(a) <= Len(b) /\ \A i \in 1..Len(a) : a[i] = b[i]
  BY DEF Begins, Sequence
<1> HIDE DEF S
<1>2. SubSeq(a, 1, Len(a)) = [i \in 1..Len(a) |-> a[i]]
  BY <1>1
<1>3. SubSeq(b, 1, Len(a)) = [i \in 1..Len(a) |-> b[i]]
  BY <1>1
<1>4. QED
  BY <1>1, <1>2, <1>3 DEF IsPrefix

\* What row security shows of a run is all of it or nothing.
LEMMA RowsBegin ==
  ASSUME EngineRight, NEW r \in RunIds
  PROVE  Begins(Rows(r), stored[r])
<1>1. Sequence(stored[r])
  BY DEF EngineRight, Begins
<1>2. CASE Hidden
  BY <1>1, <1>2 DEF Rows, Begins, Sequence
<1>3. CASE ~Hidden
  BY <1>1, <1>3 DEF Rows, Begins, Sequence
<1>4. QED
  BY <1>2, <1>3

\* Nothing is stored, read or reported to begin with.
LEMMA InitInv == Init => IInv
<1> SUFFICES ASSUME Init PROVE IInv
  OBVIOUS
<1>1. EngineRight
  <2>1. \A r \in RunIds : Sequence(script[r])
    BY ReportAssumption DEF Init, Sequence
  <2>2. \A r \in RunIds : Begins(stored[r], script[r])
    BY <2>1 DEF Init, Begins, Sequence
  <2>3. QED
    BY <2>2 DEF Init, EngineRight
<1>2. ReportRight
  <2>1. Sequence(report.specs) /\ Len(report.specs) \in Nat
    BY ReportAssumption DEF Init, Sequence
  <2>2. DOMAIN read = {} /\ IsFiniteSet(DOMAIN read)
    BY FS_EmptySet DEF Init
  <2>3. QED
    BY <2>1, <2>2 DEF Init, ReportRight, Sequence
<1>3. RowsRight /\ CostRight
  BY DEF Init, RowsRight, CostRight
<1>4. QED
  BY <1>1, <1>2, <1>3 DEF IInv

\* An event stored while the report reads: what was read still begins the run.
LEMMA StoreInv ==
  ASSUME NEW r \in RunIds
  PROVE  IInv /\ Store(r) => IInv'
<1> SUFFICES ASSUME IInv, Store(r) PROVE IInv'
  OBVIOUS
<1> DEFINE e == script[r][Len(stored[r]) + 1]
<1>1. /\ Sequence(stored[r]) /\ Sequence(script[r]) /\ Len(stored[r]) < Len(script[r])
      /\ Begins(stored[r], script[r])
  <2>1. Sequence(script[r])
    BY ReportAssumption DEF IInv, EngineRight, Sequence
  <2>2. Begins(stored[r], script[r]) /\ Sequence(stored[r])
    BY DEF IInv, EngineRight, Begins
  <2>3. QED
    BY <2>1, <2>2 DEF Store
<1>2. /\ stored' = [stored EXCEPT ![r] = Append(stored[r], e)]
      /\ UNCHANGED <<script, rowSecurity, report, stage, read, results, listed, cost>>
  BY DEF Store
<1>3. DOMAIN stored = RunIds
  BY DEF IInv, EngineRight
<1>4. Begins(stored'[r], script[r]) /\ Begins(stored[r], stored'[r]) /\ Sequence(stored'[r])
  <2>1. stored'[r] = Append(stored[r], e)
    BY <1>2, <1>3
  <2> HIDE DEF e
  <2>2. /\ Sequence(stored'[r]) /\ Len(stored'[r]) = Len(stored[r]) + 1
        /\ DOMAIN stored'[r] = 1..Len(stored[r]) + 1
        /\ \A i \in DOMAIN stored[r] : stored'[r][i] = stored[r][i]
        /\ stored'[r][Len(stored[r]) + 1] = e
        /\ Len(stored[r]) \in Nat /\ DOMAIN stored[r] = 1..Len(stored[r])
    BY <1>1, <2>1, AppendSequence
  <2>3. Len(script[r]) \in Nat
    BY <1>1 DEF Sequence
  <2>4. \A i \in DOMAIN stored'[r] : stored'[r][i] = script[r][i]
    <3> SUFFICES ASSUME NEW i \in 1..Len(stored[r]) + 1 PROVE stored'[r][i] = script[r][i]
      BY <2>2
    <3>1. CASE i = Len(stored[r]) + 1
      BY <2>2, <3>1 DEF e
    <3>2. CASE i # Len(stored[r]) + 1
      <4>1. i \in DOMAIN stored[r]
        BY <2>2, <3>2
      <4>2. QED
        BY <1>1, <2>2, <4>1 DEF Begins
    <3>3. QED
      BY <3>1, <3>2
  <2>5. QED
    BY <1>1, <2>2, <2>3, <2>4 DEF Begins
<1>5. \A q \in RunIds : q # r => stored'[q] = stored[q]
  BY <1>2, <1>3
<1>6. EngineRight'
  <2>1. \A q \in RunIds : Begins(stored'[q], script[q])
    BY <1>4, <1>5 DEF IInv, EngineRight
  <2>2. QED
    BY <1>2, <1>3, <2>1 DEF IInv, EngineRight
<1>7. \A q \in DOMAIN read : Begins(read[q], stored'[q])
  <2> SUFFICES ASSUME NEW q \in DOMAIN read PROVE Begins(read[q], stored'[q])
    OBVIOUS
  <2>1. q \in RunIds /\ Begins(read[q], stored[q])
    BY DEF IInv, ReportRight
  <2>2. CASE q = r
    BY <1>4, <2>1, <2>2, BeginsChain
  <2>3. CASE q # r
    BY <1>5, <2>1, <2>3
  <2>4. QED
    BY <2>2, <2>3
<1>8. ReportRight'
  BY <1>2, <1>7 DEF IInv, ReportRight, Sequence
<1>9. RowsRight' /\ CostRight'
  BY <1>2 DEF IInv, RowsRight, CostRight
<1>10. QED
  BY <1>6, <1>8, <1>9 DEF IInv

\* The report starts, fails or prints its list.
LEMMA PlainInv == IInv /\ (Start \/ ListRuns) => IInv'
<1> SUFFICES ASSUME IInv, Start \/ ListRuns PROVE IInv'
  OBVIOUS
<1>1. /\ UNCHANGED <<script, stored, rowSecurity, report, read, results, cost>>
      /\ stage' \in {"reading", "printed", "failed"} /\ stage # "printed"
      /\ listed' # {} => report.list
  BY DEF IInv, ReportRight, Start, ListRuns, Fail, engine
<1>2. EngineRight' /\ RowsRight'
  BY <1>1 DEF IInv, EngineRight, RowsRight
<1>3. ReportRight'
  BY <1>1 DEF IInv, ReportRight, Sequence
<1>4. CostRight'
  BY <1>1 DEF IInv, CostRight
<1>5. QED
  BY <1>2, <1>3, <1>4 DEF IInv

\* A run remembered stays as it was read; a new one is read as it stands.
LEMMA RememberedKeeps ==
  ASSUME EngineRight, ReportRight, NEW r \in RunIds
  PROVE  /\ DOMAIN Remembered(r) = DOMAIN read \cup {r}
         /\ DOMAIN Remembered(r) \subseteq RunIds /\ IsFiniteSet(DOMAIN Remembered(r))
         /\ \A q \in DOMAIN read : Remembered(r)[q] = read[q]
         /\ \A q \in DOMAIN Remembered(r) : Begins(Remembered(r)[q], stored[q])
<1>1. /\ DOMAIN Remembered(r) = DOMAIN read \cup {r}
      /\ \A q \in DOMAIN read : Remembered(r)[q] = read[q]
      /\ r \notin DOMAIN read => Remembered(r)[r] = Rows(r)
  BY DEF Remembered
<1>2. IsFiniteSet(DOMAIN read \cup {r}) /\ DOMAIN read \subseteq RunIds
  BY FS_AddElement DEF ReportRight
<1>3. \A q \in DOMAIN Remembered(r) : Begins(Remembered(r)[q], stored[q])
  BY <1>1, RowsBegin DEF ReportRight
<1>4. QED
  BY <1>1, <1>2, <1>3

\* The next row is of the reading its run is remembered with.
LEMMA ScoreInv == IInv /\ ScoreNext => IInv'
<1> SUFFICES ASSUME IInv, ScoreNext PROVE IInv'
  OBVIOUS
<1>1. /\ UNCHANGED <<script, stored, rowSecurity, report>> /\ stage = "reading"
      /\ Len(results) < Len(report.specs) /\ Sequence(results)
      /\ Sequence(report.specs)
  BY ReportAssumption DEF ScoreNext, engine, IInv, ReportRight, Sequence
<1>2. EngineRight'
  BY <1>1 DEF IInv, EngineRight
<1>3. cost = NoCost
  BY <1>1 DEF IInv, CostRight
<1>4. CASE Fail
  <2>1. ReportRight'
    BY <1>1, <1>4 DEF Fail, IInv, ReportRight, Sequence
  <2>2. RowsRight' /\ CostRight'
    BY <1>1, <1>3, <1>4 DEF Fail, IInv, RowsRight, CostRight
  <2>3. QED
    BY <1>2, <2>1, <2>2 DEF IInv
<1>5. CASE ~Fail
  <2> PICK n \in Nat : n = Len(results) + 1
    BY <1>1 DEF Sequence
  <2> DEFINE spec == report.specs[n]
             trace == Remembered(spec.run)[spec.run]
             row == ScoreRunFromTrace(spec.case, trace, report.byChunks)
  <2>1. /\ ~ScoreRejected(spec.case, trace, report.byChunks)
        /\ read' = Remembered(spec.run) /\ results' = Append(results, row)
        /\ UNCHANGED <<stage, listed, cost>>
    BY <1>5 DEF ScoreNext
  <2>2. n \in DOMAIN report.specs /\ n <= Len(report.specs)
    BY <1>1 DEF Sequence
  <2>3. spec.run \in RunIds
    BY <2>2, ReportAssumption DEF IInv, ReportRight
  <2>4. /\ DOMAIN read' = DOMAIN read \cup {spec.run}
        /\ DOMAIN read' \subseteq RunIds /\ IsFiniteSet(DOMAIN read')
        /\ \A q \in DOMAIN read : read'[q] = read[q]
        /\ \A q \in DOMAIN read' : Begins(read'[q], stored[q])
    BY <2>1, <2>3, RememberedKeeps DEF IInv
  <2>5. /\ Sequence(results') /\ Len(results') = n /\ DOMAIN results' = 1..n
        /\ \A i \in DOMAIN results : results'[i] = results[i]
        /\ results'[n] = row
        /\ DOMAIN results = 1..Len(results) /\ Len(results) \in Nat
    <3> HIDE DEF row
    <3>1. QED
      BY <1>1, <2>1, AppendSequence
  <2>6. RowsRight'
    <3>0. \A r \in DOMAIN read' : \E i \in DOMAIN results' : report.specs[i].run = r
      <4>1. \A r \in DOMAIN read : \E i \in DOMAIN results' : report.specs[i].run = r
        BY <2>5 DEF IInv, RowsRight
      <4>2. n \in DOMAIN results'
        BY <2>5
      <4>3. QED
        BY <2>4, <4>1, <4>2
    <3> SUFFICES ASSUME NEW i \in 1..n
                 PROVE  LET old == report.specs[i]
                        IN  /\ old.run \in DOMAIN read'
                            /\ ~ScoreRejected(old.case, read'[old.run], report.byChunks)
                            /\ results'[i] = ScoreRunFromTrace(old.case, read'[old.run], report.byChunks)
      BY <1>1, <2>5, <3>0 DEF RowsRight
    <3>1. CASE i = n
      BY <2>1, <2>4, <2>5, <3>1
    <3>2. CASE i # n
      <4>1. i \in DOMAIN results
        BY <2>5, <3>2
      <4>2. QED
        BY <2>4, <2>5, <4>1 DEF IInv, RowsRight
    <3>3. QED
      BY <3>1, <3>2
  <2>7. ReportRight'
    BY <1>1, <2>1, <2>2, <2>4, <2>5 DEF IInv, ReportRight
  <2>8. CostRight'
    BY <1>3, <2>1 DEF CostRight
  <2>9. QED
    BY <1>2, <2>6, <2>7, <2>8 DEF IInv
<1>6. QED
  BY <1>4, <1>5

\* run_cost_from_trace accepts a trace of exactly one tenant.
LEMMA OneTenant ==
  ASSUME NEW trace, Sequence(trace), ~CostRejected(trace)
  PROVE  Cardinality(TenantsOf(trace)) = 1
<1> DEFINE T == TenantsOf(trace)
           f == [i \in DOMAIN trace |-> trace[i].tenant]
<1>1. IsFiniteSet(DOMAIN trace) /\ DOMAIN trace = 1..Len(trace) /\ Len(trace) \in Nat
  <2>1. DOMAIN trace = 1..Len(trace) /\ Len(trace) \in Nat
    BY DEF Sequence
  <2>2. QED
    BY <2>1, FS_Interval
<1>2. T = {trace[i].tenant : i \in DOMAIN trace}
  BY DEF TenantsOf, Events, ToSet
<1>3. f \in Surjection(DOMAIN trace, T)
  BY <1>2 DEF Surjection
<1>4. IsFiniteSet(T)
  BY <1>1, <1>3, FS_Surjection
<1>5. T # {}
  <2>1. trace # <<>> /\ trace \in Seq({trace[i] : i \in DOMAIN trace})
    BY DEF CostRejected, Sequence
  <2>2. 1 \in DOMAIN trace
    BY <2>1
  <2>3. QED
    BY <1>2, <2>2
<1>6. Cardinality(T) \in Nat /\ Cardinality(T) # 0
  BY <1>4, <1>5, FS_CardinalityType, FS_EmptySet
<1>7. QED
  BY <1>6 DEF CostRejected

\* The table with its cost line.
LEMMA RenderInv == IInv /\ Render => IInv'
<1> SUFFICES ASSUME IInv, Render PROVE IInv'
  OBVIOUS
<1>1. /\ UNCHANGED <<script, stored, rowSecurity, report, read, results, listed>>
      /\ stage = "reading" /\ stage' \in {"printed", "failed"}
  BY DEF Render, Fail, engine
<1>2. EngineRight' /\ RowsRight'
  BY <1>1 DEF IInv, EngineRight, RowsRight
<1>3. ReportRight'
  BY <1>1 DEF IInv, ReportRight, Sequence
<1>4. CostRight'
  <2>1. cost = NoCost
    BY <1>1 DEF IInv, CostRight
  <2>2. CASE Fail \/ ~OneRun
    BY <2>1, <2>2 DEF Render, Fail, CostRight
  <2>3. CASE OneRun /\ ~CostRejected(TheTrace) /\ cost' = RunCostFromTrace(TheTrace) /\ stage' = "printed"
    <3>1. IsFiniteSet(DOMAIN read) /\ DOMAIN read \subseteq RunIds
      BY DEF IInv, ReportRight
    <3>2. PICK r : DOMAIN read = {r}
      BY <2>3, <3>1, FS_Singleton DEF OneRun
    <3>3. r \in RunIds /\ TheTrace = read[r] /\ Sequence(read[r])
      BY <3>1, <3>2 DEF TheTrace, IInv, ReportRight, Begins
    <3>4. Cardinality(TenantsOf(read[r])) = 1
      BY <2>3, <3>3, OneTenant
    <3>5. QED
      BY <1>1, <2>3, <3>2, <3>3, <3>4 DEF CostRight
  <2>4. QED
    BY <2>2, <2>3 DEF Render
<1>5. QED
  BY <1>2, <1>3, <1>4 DEF IInv

\* Every step keeps the invariant.
LEMMA StepInv == IInv /\ [Next]_vars => IInv'
<1> SUFFICES ASSUME IInv, [Next]_vars PROVE IInv'
  OBVIOUS
<1>1. ASSUME NEW r \in RunIds, Store(r) PROVE IInv'
  BY <1>1, StoreInv
<1>2. CASE Start \/ ListRuns
  BY <1>2, PlainInv
<1>3. CASE ScoreNext
  BY <1>3, ScoreInv
<1>4. CASE Render
  BY <1>4, RenderInv
<1>5. CASE UNCHANGED vars
  <2>1. EngineRight' /\ RowsRight' /\ CostRight'
    BY <1>5 DEF vars, engine, IInv, EngineRight, RowsRight, CostRight
  <2>2. ReportRight'
    BY <1>5 DEF vars, engine, IInv, ReportRight
  <2>3. QED
    BY <2>1, <2>2 DEF IInv
<1>6. QED
  BY <1>1, <1>2, <1>3, <1>4, <1>5 DEF Next

\* The inductive invariant holds in every reachable state.
THEOREM Inductive == Spec => []IInv
BY InitInv, StepInv, PTL DEF Spec

(***************************************************************************)
(* The report's types; what is stored and what was read are beginnings of  *)
(* what the run will have stored.                                          *)
(***************************************************************************)
THEOREM TypeCorrect == Spec => []TypeOK
<1>1. IInv => TypeOK
  <2> SUFFICES ASSUME IInv PROVE TypeOK
    OBVIOUS
  <2>1. \A r \in RunIds : IsPrefix(stored[r], script[r])
    <3>1. \A r \in RunIds : Sequence(script[r])
      BY ReportAssumption DEF IInv, EngineRight, Sequence
    <3>2. QED
      BY <3>1, BeginsIsPrefix DEF IInv, EngineRight
  <2>2. \A r \in DOMAIN read : IsPrefix(read[r], stored[r])
    <3>1. \A r \in RunIds : Sequence(stored[r])
      BY DEF IInv, EngineRight, Begins
    <3>2. QED
      BY <3>1, BeginsIsPrefix DEF IInv, ReportRight
  <2>3. QED
    BY <2>1, <2>2 DEF TypeOK, IInv, ReportRight, CostRight
<1>2. QED
  BY <1>1, Inductive, PTL

(***************************************************************************)
(* Every row comes from the one reading its run is remembered with, and a  *)
(* printed cost is of one run and one tenant (events_by_run).              *)
(***************************************************************************)
THEOREM OneReading == Spec => []ReportIsOfOneReading
<1>1. IInv => ReportIsOfOneReading
  BY DEF IInv, RowsRight, CostRight, ReportIsOfOneReading
<1>2. QED
  BY <1>1, Inductive, PTL

(***************************************************************************)
(* A list is the whole table or a failure (evalhub#37).                    *)
(***************************************************************************)
THEOREM WholeLists == Spec => ListsAreWhole
<1>1. IInv /\ [Next]_vars
        => [report.list /\ stage' = "printed" /\ stage # "printed"
              => listed' = {<<r, Len(stored[r])>> : r \in {q \in RunIds : stored[q] # <<>>}}]_vars
  <2> SUFFICES ASSUME Next, report.list, stage' = "printed", stage # "printed"
               PROVE  listed' = {<<r, Len(stored[r])>> : r \in {q \in RunIds : stored[q] # <<>>}}
    OBVIOUS
  <2>1. ListRuns
    BY DEF Next, Store, Start, ListRuns, ScoreNext, Render, Fail
  <2>2. ~Hidden
    BY <2>1 DEF ListRuns, Fail, ReadRefused
  <2>3. \A r : Rows(r) = stored[r]
    BY <2>2 DEF Rows
  <2>4. QED
    BY <2>1, <2>3 DEF ListRuns, Fail
<1>2. QED
  BY <1>1, Inductive, PTL DEF Spec, ListsAreWhole

(***************************************************************************)
(* A report that scores a well-formed run has read all of it, however      *)
(* early it read: the answer is the last event of the run.                 *)
(***************************************************************************)
LEMMA ScoredRunIsWhole ==
  ASSUME IInv, NEW i \in DOMAIN results, EndsWithAnswer(script[report.specs[i].run])
  PROVE  LET spec == report.specs[i]
             trace == script[spec.run]
         IN  /\ read[spec.run] = trace
             /\ results[i] = ScoreRunFromTrace(spec.case, trace, report.byChunks)
             /\ ~ScoreRejected(spec.case, trace, report.byChunks)
             /\ Answer(trace) = trace[Len(trace)].answer
             /\ Events(trace) # {}
<1> DEFINE spec == report.specs[i]
           part == read[spec.run]
           whole == script[spec.run]
<1>1. /\ spec.run \in DOMAIN read /\ spec.run \in RunIds
      /\ ~ScoreRejected(spec.case, part, report.byChunks)
      /\ results[i] = ScoreRunFromTrace(spec.case, part, report.byChunks)
      /\ Begins(part, stored[spec.run]) /\ Begins(stored[spec.run], whole)
      /\ Sequence(whole) /\ EndsWithAnswer(whole)
  <2>1. /\ spec.run \in DOMAIN read
        /\ ~ScoreRejected(spec.case, part, report.byChunks)
        /\ results[i] = ScoreRunFromTrace(spec.case, part, report.byChunks)
    BY DEF IInv, RowsRight
  <2>2. spec.run \in RunIds /\ Begins(part, stored[spec.run])
    BY <2>1 DEF IInv, ReportRight
  <2>3. Begins(stored[spec.run], whole) /\ Sequence(whole)
    BY <2>2, ReportAssumption DEF IInv, EngineRight, Sequence
  <2>4. QED
    BY <2>1, <2>2, <2>3
<1> HIDE DEF part, whole
<1>2. Begins(part, whole)
  BY <1>1, BeginsChain
<1>3. PICK k \in DOMAIN part : Answering(part) = {k}
  BY <1>1 DEF ScoreRejected, AnswerRejected
<1>4. part[k].answer.given
  BY <1>3 DEF Answering
<1>5. k \in DOMAIN whole /\ k = Len(whole) /\ Len(part) = Len(whole)
  <2>1. /\ DOMAIN part = 1..Len(part) /\ DOMAIN whole = 1..Len(whole)
        /\ Len(part) \in Nat /\ Len(whole) \in Nat /\ Len(part) <= Len(whole)
        /\ part[k] = whole[k]
    BY <1>1, <1>2 DEF Begins, Sequence
  <2>2. k \in DOMAIN whole
    BY <2>1
  <2>3. k = Len(whole)
    BY <1>1, <1>4, <2>1, <2>2 DEF EndsWithAnswer
  <2>4. Len(whole) <= Len(part)
    <3>1. k <= Len(part)
      BY <2>1
    <3>2. QED
      BY <2>3, <3>1
  <2>5. Len(part) = Len(whole)
    <3>1. Len(part) \in Nat /\ Len(whole) \in Nat /\ Len(part) <= Len(whole)
      BY <2>1
    <3>2. \A a, b \in Nat : a <= b /\ b <= a => a = b
      OBVIOUS
    <3>3. QED
      BY <2>4, <3>1, <3>2, Zenon
  <2>6. QED
    BY <2>2, <2>3, <2>5
<1>6. part = whole
  BY <1>1, <1>2, <1>5, BeginsAll
<1>7. Answer(whole) = whole[Len(whole)].answer
  BY <1>3, <1>5, <1>6 DEF Answer
<1>8. Events(whole) # {}
  BY <1>5 DEF Events, ToSet
<1>9. QED
  BY <1>1, <1>6, <1>7, <1>8 DEF whole, part

\* What the run itself was scored with, once it was over.
LEMMA LiveIsScored ==
  ASSUME IInv, NEW i \in DOMAIN results, EndsWithAnswer(script[report.specs[i].run])
  PROVE  LET spec == report.specs[i]
             trace == script[spec.run]
         IN  Live(i) = ScoreCase(spec.case, Answer(trace), Events(trace))
<1> DEFINE trace == script[report.specs[i].run]
           run == [answer |-> trace[Len(trace)].answer, events |-> Events(trace)]
<1>1. run.answer = Answer(trace) /\ run.events = Events(trace) /\ run.events # {}
  BY ScoredRunIsWhole
<1>2. Live(i) = ScoreCaseRun(report.specs[i].case, run)
  BY DEF Live
<1> HIDE DEF run
<1>3. QED
  BY <1>1, <1>2 DEF ScoreCaseRun

(***************************************************************************)
(* A report with tenant_ids gives a well-formed run the score it got when  *)
(* it was evaluated, or none (answer_from_trace).                          *)
(***************************************************************************)
THEOREM WholeRuns == Spec => []ReportsTheWholeRun
<1>1. IInv => ReportsTheWholeRun
  <2> SUFFICES ASSUME IInv, NEW i \in DOMAIN results, report.byChunks,
                      EndsWithAnswer(script[report.specs[i].run])
               PROVE  results[i] = Live(i)
    BY DEF ReportsTheWholeRun
  <2>1. QED
    BY ScoredRunIsWhole, LiveIsScored DEF ScoreRunFromTrace
<1>2. QED
  BY <1>1, Inductive, PTL

(***************************************************************************)
(* The older rule, which sees citations only, passes what the harness      *)
(* passed where answers cite what they retrieved (score_case).             *)
(***************************************************************************)
THEOREM NoFalseAlarm == Spec => []OlderPathNeverAccuses
<1>1. IInv => OlderPathNeverAccuses
  <2> SUFFICES ASSUME IInv, NEW i \in DOMAIN results, ~report.byChunks,
                      EndsWithAnswer(script[report.specs[i].run]),
                      CitesWhatItRetrieved(script[report.specs[i].run]),
                      report.specs[i].case.tenant \in DOMAIN TenantIds,
                      Live(i).success
               PROVE  results[i].success
    BY DEF OlderPathNeverAccuses
  <2> DEFINE c == report.specs[i].case
             trace == script[report.specs[i].run]
             answer == Answer(trace)
             events == Events(trace)
             cited == CitationsOf(events)
  <2>1. /\ results[i] = ScoreFromCitations(c, answer, cited)
        /\ ScoreCase(c, answer, events).success
    BY ScoredRunIsWhole, LiveIsScored DEF ScoreRunFromTrace
  <2>2. CASE ~ExpectsRefusal(c)
    BY <2>1, <2>2 DEF ScoreFromCitations, ScoreCase
  <2>3. CASE ExpectsRefusal(c)
    <3>1. answer.refused /\ NoLeak(c, ChunksOf(events))
      BY <2>1, <2>3 DEF ScoreCase, ScoreObserved, ScoreUnobserved, Refusal
    <3>2. NoLeakCited(c, cited)
      <4> SUFFICES ASSUME NEW k \in cited
                   PROVE  /\ SlugOf[k] # Missing
                          /\ IF CrossTenant(c) THEN SlugOf[k] # c.expTenant
                             ELSE SlugOf[k] = c.tenant
        BY DEF NoLeakCited
      <4>1. PICK chunk \in ChunksOf(events) :
              \A t \in DOMAIN TenantIds : chunk.tenant = TenantIds[t] => SlugOf[k] = t
        BY DEF CitesWhatItRetrieved
      <4>2. chunk.tenant = TenantIds[c.tenant]
        BY <3>1, <4>1 DEF NoLeak, InScope
      <4>3. SlugOf[k] = c.tenant
        BY <4>1, <4>2
      <4>4. QED
        BY <4>3, ReportAssumption DEF CrossTenant
    <3>3. results[i].success = (answer.refused /\ NoLeakCited(c, cited))
      BY <2>1, <2>3 DEF ScoreFromCitations, Refusal
    <3>4. QED
      BY <3>1, <3>2, <3>3
  <2>4. QED
    BY <2>2, <2>3
<1>2. QED
  BY <1>1, Inductive, PTL

(***************************************************************************)
(* A cost that is printed of a well-formed run is its final cost: the row  *)
(* above it needed the answer, which is stored last.                       *)
(***************************************************************************)
THEOREM WholeCosts == Spec => []CostIsOfTheWholeRun
<1>1. IInv => CostIsOfTheWholeRun
  <2> SUFFICES ASSUME IInv, cost # NoCost
               PROVE  CostIsOfTheWholeRun
    BY DEF CostIsOfTheWholeRun
  <2>1. PICK r \in RunIds : DOMAIN read = {r} /\ cost = RunCostFromTrace(read[r])
    BY DEF IInv, CostRight
  <2>2. PICK i \in DOMAIN results : report.specs[i].run = r
    BY <2>1 DEF IInv, RowsRight
  <2>3. EndsWithAnswer(script[r]) => read[r] = script[r]
    BY <2>2, ScoredRunIsWhole
  <2>4. QED
    BY <2>1, <2>3 DEF CostIsOfTheWholeRun
<1>2. QED
  BY <1>1, Inductive, PTL
=============================================================================
