---------------------------- MODULE Replay_proofs ----------------------------
(***************************************************************************)
(* Recording and replaying, for any number of tasks, players, prompts and  *)
(* calls.  Whatever a file, a half-done write or a player holds was paid   *)
(* for; a player never lets go of what it answered from.                   *)
(***************************************************************************)
EXTENDS Replay, FiniteSetTheorems, TLAPS

\* Every response in calls was given by the provider to that call.
Provided(calls) ==
  \A k \in DOMAIN calls : \E p \in paid : CallKey(p.call) = k /\ calls[k] = p.response

TasksType == /\ tasks \in [Tasks -> SUBSET Asked]
             /\ \A t \in Tasks : tasks[t] = {} \/ \E call \in Asked : tasks[t] = {call}

FileType == /\ fixture.state \in {"missing", "torn", "whole"}
            /\ writing # NoWrite => /\ fixture.state = "torn"
                                    /\ writing.task \in Tasks
                                    /\ tasks[writing.task] # {}

PaidType == paid \subseteq [call : Asked, response : Responses]

HeardType == /\ DOMAIN players = Players
             /\ heard \subseteq [player : Players, call : Asked, response : Responses]

AllProvided == /\ Provided(fixture.calls)
               /\ writing # NoWrite => Provided(writing.calls)
               /\ \A x \in Players : players[x] # NotLoaded => Provided(players[x])

\* A fixture, on disk or on its way there, has all that returned since it was begun.
NothingMissing ==
  /\ fixture.state = "whole" => returned \subseteq DOMAIN fixture.calls
  /\ fixture.state = "missing" => returned = {}
  /\ writing # NoWrite => returned \cup {writing.key} \subseteq DOMAIN writing.calls

\* A player answers from what it has loaded and keeps.
AnswersFromLoaded ==
  \A h \in heard : /\ players[h.player] # NotLoaded
                   /\ CallKey(h.call) \in DOMAIN players[h.player]
                   /\ h.response = players[h.player][CallKey(h.call)]

IInv == /\ TasksType /\ FileType /\ PaidType /\ HeardType
        /\ AllProvided /\ NothingMissing /\ AnswersFromLoaded

\* What was provided stays provided.
LEMMA ProvidedStays ==
  ASSUME NEW calls, Provided(calls), paid \subseteq paid'
  PROVE  Provided(calls)'
BY DEF Provided

\* The invariant types every variable; a task is in at most one call.
LEMMA TypeFollows == IInv => TypeOK
<1> SUFFICES ASSUME IInv PROVE TypeOK
  OBVIOUS
<1>1. ASSUME NEW t \in Tasks
      PROVE  tasks[t] \subseteq Asked /\ Cardinality(tasks[t]) <= 1
  <2>1. tasks[t] = {} \/ \E call \in Asked : tasks[t] = {call}
    BY DEF IInv, TasksType
  <2>2. Cardinality(tasks[t]) \in {0, 1}
    BY <2>1, FS_EmptySet, FS_Singleton
  <2>3. QED
    BY <2>2 DEF IInv, TasksType
<1>2. QED
  BY <1>1 DEF IInv, FileType, PaidType, HeardType, TypeOK

\* There is no file, no task and no player to begin with.
LEMMA InitIInv == Init => IInv
BY DEF Init, IInv, TasksType, FileType, PaidType, HeardType, AllProvided, Provided,
       NothingMissing, AnswersFromLoaded, Lost, NoCalls
-----------------------------------------------------------------------------
(***************************************************************************)
(* The recorder.                                                           *)
(***************************************************************************)
\* A call begins, or the provider does not answer it.
LEMMA AskingKeeps ==
  ASSUME IInv, NEW t \in Tasks,
         (\E call \in Asked : Complete(t, call)) \/ ProviderFails(t)
  PROVE  IInv'
<1>1. TasksType'
  BY DEF IInv, TasksType, Complete, ProviderFails, Idle
<1>2. UNCHANGED <<fixture, writing, paid, returned, players, heard>> /\ writing = NoWrite
  BY DEF Complete, ProviderFails, replay
<1>3. QED
  BY <1>1, <1>2 DEF IInv, FileType, PaidType, HeardType, AllProvided, Provided, NothingMissing,
                    AnswersFromLoaded

\* The new contents hold the old ones and the new answer, which was paid for.
LEMMA AddedProvided ==
  ASSUME Provided(fixture.calls), NEW call, NEW response,
         NEW new, new = Added(CallKey(call), response),
         paid' = paid \cup {[call |-> call, response |-> response]}
  PROVE  Provided(new)'
<1>1. ASSUME NEW k \in DOMAIN new
      PROVE  \E p \in paid' : CallKey(p.call) = k /\ new[k] = p.response
  <2>1. CASE k = CallKey(call)
    <3>1. new[k] = response
      BY <2>1 DEF Added
    <3>2. [call |-> call, response |-> response] \in paid'
      OBVIOUS
    <3>3. QED
      BY <2>1, <3>1, <3>2
  <2>2. CASE k # CallKey(call)
    <3>1. k \in DOMAIN fixture.calls /\ new[k] = fixture.calls[k]
      BY <2>2 DEF Added
    <3>2. QED
      BY <3>1 DEF Provided
  <2>3. QED
    BY <2>1, <2>2
<1>2. QED
  BY <1>1 DEF Provided

\* The provider answers: a write begins, or the task is over and the file as it was.
LEMMA AnswerKeeps ==
  ASSUME IInv, NEW t \in Tasks, NEW response \in Responses, ProviderAnswers(t, response)
  PROVE  IInv'
<1>1. PICK call \in tasks[t] :
        /\ writing = NoWrite
        /\ paid' = paid \cup {[call |-> call, response |-> response]}
        /\ \/ StartWriting(t, call, response)
           \/ Idle(t) /\ UNCHANGED <<writing, fixture>>
        /\ UNCHANGED <<returned, replay>>
  BY DEF ProviderAnswers
<1>2. call \in Asked /\ tasks[t] # {}
  BY <1>1 DEF IInv, TasksType
<1>3. PaidType' /\ HeardType' /\ AnswersFromLoaded'
  BY <1>1, <1>2 DEF IInv, PaidType, HeardType, AnswersFromLoaded, replay
<1>4. Provided(fixture.calls) /\ paid \subseteq paid'
  BY <1>1 DEF IInv, AllProvided
<1>5. \A x \in Players : players'[x] # NotLoaded => Provided(players[x])'
  BY <1>1, <1>4 DEF IInv, AllProvided, Provided, replay
<1>6. CASE Idle(t) /\ UNCHANGED <<writing, fixture>>
  <2>1. TasksType' /\ FileType' /\ NothingMissing'
    BY <1>1, <1>6 DEF IInv, TasksType, FileType, NothingMissing, Idle
  <2>2. AllProvided'
    BY <1>1, <1>4, <1>5, <1>6 DEF AllProvided, Provided
  <2>3. QED
    BY <1>3, <2>1, <2>2 DEF IInv
<1>7. CASE StartWriting(t, call, response)
  <2>1. PICK new : new = Added(CallKey(call), response)
    OBVIOUS
  <2>2. /\ fixture.state \in {"whole", "missing"}
        /\ writing' = [task |-> t, key |-> CallKey(call), calls |-> new]
        /\ fixture' = Lost("torn")
        /\ tasks' = tasks
    BY <1>7, <2>1 DEF StartWriting, Startable
  <2>3. TasksType' /\ FileType'
    BY <1>2, <2>2 DEF IInv, TasksType, FileType, Lost
  <2>4. Provided(new)'
    BY <1>1, <1>4, <2>1, AddedProvided
  <2>5. AllProvided'
    BY <1>1, <1>5, <2>2, <2>4 DEF AllProvided, Provided, Lost, NoCalls
  <2>6. DOMAIN new = DOMAIN fixture.calls \cup {CallKey(call)}
    BY <2>1 DEF Added
  <2>7. NothingMissing'
    BY <1>1, <2>2, <2>6 DEF IInv, NothingMissing, Lost
  <2>8. QED
    BY <1>3, <2>3, <2>5, <2>7 DEF IInv
<1>8. QED
  BY <1>1, <1>6, <1>7

\* A write ends well.
LEMMA WrittenKeeps ==
  ASSUME IInv, Written
  PROVE  IInv'
<1>1. /\ writing # NoWrite /\ writing' = NoWrite
      /\ fixture' = Recorded(writing.calls)
      /\ returned' = returned \cup {writing.key}
      /\ tasks' = [tasks EXCEPT ![writing.task] = {}]
      /\ UNCHANGED <<paid, players, heard>>
  BY DEF Written, Idle, replay
<1>2. TasksType' /\ FileType' /\ PaidType' /\ HeardType' /\ AnswersFromLoaded'
  BY <1>1 DEF IInv, TasksType, FileType, PaidType, HeardType, AnswersFromLoaded, Recorded
<1>3. AllProvided' /\ NothingMissing'
  BY <1>1 DEF IInv, AllProvided, Provided, NothingMissing, Recorded
<1>4. QED
  BY <1>2, <1>3 DEF IInv

\* A write fails, the recorder dies, or a person removes the file.
LEMMA LosingKeeps ==
  ASSUME IInv, WriteFails \/ Crash \/ RemoveFixture
  PROVE  IInv'
<1>1. UNCHANGED <<paid, players, heard>> /\ writing' = NoWrite
  BY DEF WriteFails, Crash, RemoveFixture, replay
<1>2. /\ \/ UNCHANGED <<fixture, returned>>
         \/ fixture' = Lost("missing") /\ returned' = {}
      /\ \/ tasks' = tasks
         \/ tasks' = [tasks EXCEPT ![writing.task] = {}]
         \/ tasks' = [t \in Tasks |-> {}]
  BY DEF WriteFails, Crash, RemoveFixture, Idle
<1>3. TasksType'
  BY <1>2 DEF IInv, TasksType
<1>4. FileType' /\ PaidType' /\ HeardType' /\ AnswersFromLoaded'
  BY <1>1, <1>2 DEF IInv, FileType, PaidType, HeardType, AnswersFromLoaded, Lost
<1>5. AllProvided' /\ NothingMissing'
  BY <1>1, <1>2 DEF IInv, AllProvided, Provided, NothingMissing, Lost, NoCalls
<1>6. QED
  BY <1>3, <1>4, <1>5 DEF IInv
-----------------------------------------------------------------------------
(***************************************************************************)
(* The players.                                                            *)
(***************************************************************************)
\* What a player comes to hold was provided, and it keeps what it held.
LEMMA LoadedProvided ==
  ASSUME IInv, NEW x \in Players, Loaded(x) # NotLoaded
  PROVE  /\ Provided(Loaded(x))
         /\ players[x] # NotLoaded => Loaded(x) = players[x]
BY DEF IInv, AllProvided, Loaded

\* A player answers, or finds nothing to answer.
LEMMA PlayKeeps ==
  ASSUME IInv, NEW x \in Players, NEW call \in Asked, Play(x, call)
  PROVE  IInv'
<1>1. PICK new : new = Loaded(x)
  OBVIOUS
<1>2. /\ players' = [players EXCEPT ![x] = new]
      /\ UNCHANGED <<fixture, writing, tasks, paid, returned>>
  BY <1>1 DEF Play, recorder
<1>3. \/ heard' = heard
      \/ /\ new # NotLoaded /\ CallKey(call) \in DOMAIN new
         /\ heard' = heard \cup {[player |-> x, call |-> call, response |-> new[CallKey(call)]]}
  BY <1>1 DEF Play
<1>4. new # NotLoaded => Provided(new)
  BY <1>1, LoadedProvided
<1>5. players[x] # NotLoaded => new = players[x]
  BY <1>1 DEF Loaded
<1>6. TasksType' /\ FileType' /\ PaidType' /\ NothingMissing'
  BY <1>2 DEF IInv, TasksType, FileType, PaidType, NothingMissing
<1>7. AllProvided'
  BY <1>2, <1>4 DEF IInv, AllProvided, Provided, HeardType
<1>8. HeardType'
  <2>1. new # NotLoaded /\ CallKey(call) \in DOMAIN new => new[CallKey(call)] \in Responses
    BY <1>4 DEF IInv, Provided, PaidType
  <2>2. QED
    BY <1>2, <1>3, <2>1 DEF IInv, HeardType
<1>9. AnswersFromLoaded'
  <2>1. \A h \in heard : h.player \in Players
    BY DEF IInv, HeardType
  <2>2. ASSUME NEW h \in heard
        PROVE  /\ players'[h.player] # NotLoaded
               /\ CallKey(h.call) \in DOMAIN players'[h.player]
               /\ h.response = players'[h.player][CallKey(h.call)]
    BY <1>2, <1>5, <2>1 DEF IInv, HeardType, AnswersFromLoaded
  <2>3. players'[x] = new
    BY <1>2 DEF IInv, HeardType
  <2>4. QED
    BY <1>3, <2>2, <2>3 DEF AnswersFromLoaded
<1>10. QED
  BY <1>6, <1>7, <1>8, <1>9 DEF IInv
-----------------------------------------------------------------------------
\* No step breaks the invariant.
LEMMA StepIInv == IInv /\ [Next]_vars => IInv'
<1> SUFFICES ASSUME IInv, [Next]_vars PROVE IInv'
  OBVIOUS
<1>1. CASE UNCHANGED vars
  BY <1>1 DEF vars, IInv, TasksType, FileType, PaidType, HeardType, AllProvided, Provided,
              NothingMissing, AnswersFromLoaded
<1>2. CASE Next
  BY <1>2, AskingKeeps, AnswerKeeps, WrittenKeeps, LosingKeeps, PlayKeeps DEF Next
<1>3. QED
  BY <1>1, <1>2

(***************************************************************************)
(* The inductive invariant: what returned is in the file, or in the        *)
(* contents being written to it, before and after every step.              *)
(***************************************************************************)
THEOREM Inductive == Spec => []IInv
BY InitIInv, StepIInv, PTL DEF Spec

\* The types, and a write always belongs to a task that waits for it.
THEOREM TypeCorrect == Spec => []TypeOK
BY Inductive, TypeFollows, PTL

(***************************************************************************)
(* Replay never makes an answer up: each was paid for, for the same prompt *)
(* and arguments, whatever was lost or overwritten meanwhile.              *)
(***************************************************************************)
THEOREM ReplaysArePaid == Spec => []ReplayedWasPaid
<1>1. ASSUME IInv, NEW h \in heard
      PROVE  \E p \in paid : SameCall(h.call, p.call) /\ h.response = p.response
  <2>1. /\ h.player \in Players
        /\ players[h.player] # NotLoaded
        /\ CallKey(h.call) \in DOMAIN players[h.player]
        /\ h.response = players[h.player][CallKey(h.call)]
    BY <1>1 DEF IInv, HeardType, AnswersFromLoaded
  <2>2. PICK p \in paid : CallKey(p.call) = CallKey(h.call) /\ h.response = p.response
    BY <1>1, <2>1 DEF IInv, AllProvided, Provided
  <2>3. SameCall(h.call, p.call)
    BY <2>2 DEF CallKey, SameCall
  <2>4. QED
    BY <2>2, <2>3
<1>2. IInv => ReplayedWasPaid
  BY <1>1 DEF ReplayedWasPaid
<1>3. QED
  BY <1>2, Inductive, PTL

\* A player answers one call always alike: it keeps what it loaded first.
THEOREM ReplaysAreStable == Spec => []ReplayIsStable
<1>1. ASSUME IInv PROVE ReplayIsStable
  BY <1>1 DEF IInv, AnswersFromLoaded, ReplayIsStable, SameCall, CallKey
<1>2. QED
  BY <1>1, Inductive, PTL

\* A fixture that can be read holds every call that returned since it was begun.
THEOREM WholeFixturesAreComplete == Spec => []WholeMeansComplete
<1>1. IInv => WholeMeansComplete
  BY DEF IInv, NothingMissing, WholeMeansComplete
<1>2. QED
  BY <1>1, Inductive, PTL
=============================================================================
