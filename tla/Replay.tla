------------------------------- MODULE Replay -------------------------------
(***************************************************************************)
(* Recording what a paid LLM answers into a fixture file, and replaying    *)
(* the fixture instead of paying again.  One process records: its tasks    *)
(* wait for the provider side by side, and what a task does after that is  *)
(* not interleaved with the others.  Replaying processes read the file at  *)
(* any time, in the middle of a write too.                                 *)
(***************************************************************************)
EXTENDS Naturals, FiniteSets

CONSTANTS Prompts, Responses,
          KeywordArgs,  \* what callers pass besides the prompt
          Json,         \* json.dumps(kwargs, sort_keys=True), or NoJson: TypeError
          NoJson,
          Tasks,        \* tasks of the recording process
          Players,      \* ReplayLLM instances
          NotLoaded,    \* a player that has not read the fixture yet
          NoWrite,
          MaxCalls      \* bound: calls the provider serves

ASSUME ReplayAssumption == MaxCalls \in Nat /\ DOMAIN Json = KeywordArgs

VARIABLES fixture,    \* the file: [state, calls]
          writing,    \* what the recorder is writing to it
          tasks,      \* the call each task is in: a set of at most one [prompt, kwargs]
          players,    \* the calls each player has loaded
          paid,       \* history: what the provider answered, in [prompt, kwargs, response]
          returned,   \* history: keys of calls that returned since the file was last removed
          heard       \* history: what each player answered

recorder == <<fixture, writing, tasks, paid, returned>>
replay == <<players, heard>>
vars == <<fixture, writing, tasks, players, paid, returned, heard>>

Asked == [prompt : Prompts, kwargs : KeywordArgs]
Recorded(calls) == [state |-> "whole", calls |-> calls]
NoCalls == [k \in {} |-> NoJson]
Lost(state) == [state |-> state, calls |-> NoCalls]

Init == /\ fixture = Lost("missing")
        /\ writing = NoWrite
        /\ tasks = [t \in Tasks |-> {}]
        /\ players = [x \in Players |-> NotLoaded]
        /\ paid = {}
        /\ returned = {}
        /\ heard = {}
-----------------------------------------------------------------------------
M_CallKey(call) == <<call.prompt>>
CallKey(call) == <<call.prompt, Json[call.kwargs]>>

HasKey(call) == Json[call.kwargs] # NoJson

M_Startable == fixture.state # "whole"
\* A new fixture is begun only where there is no file; a torn one is left alone.
Startable == fixture.state = "missing"

Added(key, response) ==
  [k \in DOMAIN fixture.calls \cup {key} |-> IF k = key THEN response ELSE fixture.calls[k]]

Idle(t) == tasks' = [tasks EXCEPT ![t] = {}]

\* RecordingLLM.complete, up to its await.
Complete(t, call) ==
  /\ writing = NoWrite
  /\ tasks[t] = {}
  /\ Cardinality(paid) < MaxCalls
  /\ tasks' = [tasks EXCEPT ![t] = {call}]
  /\ UNCHANGED <<fixture, writing, paid, returned, replay>>

ProviderFails(t) ==
  /\ writing = NoWrite
  /\ tasks[t] # {}
  /\ Idle(t)
  /\ UNCHANGED <<fixture, writing, paid, returned, replay>>

\* The write is handed to a thread, and complete returns without waiting for it.
M_StartWriting(t, call, response) ==
  /\ fixture.state = "whole" \/ Startable
  /\ HasKey(call)
  /\ writing' = [task |-> t, key |-> CallKey(call), calls |-> Added(CallKey(call), response)]
  /\ fixture' = Lost("torn")
  /\ Idle(t)
\* open(..., "w") empties the file before anything is written to it.
StartWriting(t, call, response) ==
  /\ fixture.state = "whole" \/ Startable
  /\ HasKey(call)
  /\ writing' = [task |-> t, key |-> CallKey(call), calls |-> Added(CallKey(call), response)]
  /\ fixture' = Lost("torn")
  /\ UNCHANGED tasks

\* The answer is there and paid for; reading the file, the key or mkdir may raise.
ProviderAnswers(t, response) ==
  \E call \in tasks[t] :
    /\ writing = NoWrite
    /\ Cardinality(paid) < MaxCalls
    /\ paid' = paid \cup {[call |-> call, response |-> response]}
    /\ \/ StartWriting(t, call, response)
       \/ Idle(t) /\ UNCHANGED <<writing, fixture>>
    /\ UNCHANGED <<returned, replay>>

\* write_text is done, and complete returns the response.
Written ==
  /\ writing # NoWrite
  /\ fixture' = Recorded(writing.calls)
  /\ returned' = returned \cup {writing.key}
  /\ Idle(writing.task)
  /\ writing' = NoWrite
  /\ UNCHANGED <<paid, replay>>

\* write_text raises: the file was truncated first.
WriteFails ==
  /\ writing # NoWrite
  /\ Idle(writing.task)
  /\ writing' = NoWrite
  /\ UNCHANGED <<fixture, paid, returned, replay>>

\* The recording process dies, wherever it is, and may be started again.
Crash ==
  /\ tasks' = [t \in Tasks |-> {}]
  /\ writing' = NoWrite
  /\ UNCHANGED <<fixture, paid, returned, replay>>

\* A person gives a recording up.
RemoveFixture ==
  /\ writing = NoWrite
  /\ fixture.state # "missing"
  /\ fixture' = Lost("missing")
  /\ returned' = {}
  /\ UNCHANGED <<writing, tasks, paid, replay>>
-----------------------------------------------------------------------------
M_Loaded(x) == IF fixture.state = "whole" THEN fixture.calls ELSE NotLoaded
\* Read once and kept; an unreadable file raises and will be read again.
Loaded(x) == IF players[x] # NotLoaded THEN players[x]
             ELSE IF fixture.state = "whole" THEN fixture.calls
             ELSE NotLoaded

\* ReplayLLM.complete: a recorded response, ReplayMiss, or FixtureUnreadable.
Play(x, call) ==
  /\ HasKey(call)
  /\ players' = [players EXCEPT ![x] = Loaded(x)]
  /\ heard' = IF Loaded(x) # NotLoaded /\ CallKey(call) \in DOMAIN Loaded(x)
              THEN heard \cup {[player |-> x, call |-> call,
                                response |-> Loaded(x)[CallKey(call)]]}
              ELSE heard
  /\ UNCHANGED recorder
-----------------------------------------------------------------------------
Next == \/ \E t \in Tasks : \/ \E call \in Asked : Complete(t, call)
                            \/ ProviderFails(t)
                            \/ \E response \in Responses : ProviderAnswers(t, response)
        \/ Written
        \/ WriteFails
        \/ Crash
        \/ RemoveFixture
        \/ \E x \in Players, call \in Asked : Play(x, call)

Spec == Init /\ [][Next]_vars
-----------------------------------------------------------------------------
(***************************************************************************)
(* Properties.                                                             *)
(***************************************************************************)
\* Every variable has its type; a file is torn while it is written, and the task
\* that writes it has not returned (complete writes before it returns).
TypeOK ==
  /\ fixture.state \in {"missing", "torn", "whole"}
  /\ writing # NoWrite => /\ fixture.state = "torn"
                          /\ tasks[writing.task] # {}
  /\ \A t \in Tasks : tasks[t] \subseteq Asked /\ Cardinality(tasks[t]) <= 1
  /\ paid \subseteq [call : Asked, response : Responses]
  /\ heard \subseteq [player : Players, call : Asked, response : Responses]

SameCall(c, d) == c.prompt = d.prompt /\ Json[c.kwargs] = Json[d.kwargs]

(***************************************************************************)
(* A replayed answer is one the provider gave to the same prompt with the  *)
(* same arguments (call_key, DEC-D22-01; ReplayLLM has no way back,        *)
(* DEC-D22-02): whatever was recorded, lost or overwritten meanwhile.      *)
(***************************************************************************)
ReplayedWasPaid ==
  \A h \in heard : \E p \in paid : SameCall(h.call, p.call) /\ h.response = p.response

(***************************************************************************)
(* A player answers one call always alike, although a recording may be     *)
(* replacing the fixture at the same time (_tra loads once).               *)
(***************************************************************************)
ReplayIsStable ==
  \A g, h \in heard : g.player = h.player /\ SameCall(g.call, h.call)
                        => g.response = h.response

(***************************************************************************)
(* A fixture that can be read holds every call that returned since it was  *)
(* begun: calls that overlap, failed writes and crashes leave either all   *)
(* of them or a file that says it is broken (RecordingLLM.complete).       *)
(***************************************************************************)
WholeMeansComplete == fixture.state = "whole" => returned \subseteq DOMAIN fixture.calls

(***************************************************************************)
(* replay.py:135-137 "written after each call: losing everything because   *)
(* the process died at the 58th case is an unnecessary loss".              *)
(***************************************************************************)
CrashKeepsRecordings == writing = NoWrite => returned \subseteq DOMAIN fixture.calls
=============================================================================
