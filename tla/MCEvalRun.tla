------------------------------ MODULE MCEvalRun ------------------------------
(***************************************************************************)
(* Two tenants of which the caller knows one, two roles, cases on each     *)
(* side of the fence, and traces with readable, unreadable and forged      *)
(* events.                                                                 *)
(***************************************************************************)
EXTENDS EvalRun

CONSTANTS ta, tb, ua, ub, public, hr, k1, k2

MCTenantIds == [t \in {ta} |-> ua]

Template(id, expTenant, expRole, declared) ==
  [id |-> id, tenant |-> ta, roles |-> {public}, expTenant |-> expTenant,
   expRole |-> expRole, cites |-> {k1, k2}, declared |-> declared]

Answerable(id, declared) == Template(id, ta, public, declared)
OtherTenant(id, declared) == Template(id, tb, public, declared)
NobodyHolds(id, declared) == [Template(id, NoTenant, public, declared) EXCEPT !.cites = {}]
OtherRole(id, declared) == Template(id, ta, hr, declared)
Stranger(id) == [Answerable(id, FALSE) EXCEPT !.tenant = tb]

High == [success |-> 100, citation |-> 100]
Low == [success |-> 50, citation |-> 50]

\* Whole sets of at most two cases, with and without a judge, lenient and strict.
FullRuns ==
  [golden : { <<>>,
              <<OtherRole(1, FALSE)>>,
              <<Answerable(1, FALSE), OtherTenant(2, FALSE)>>,
              <<Answerable(1, FALSE), OtherRole(2, FALSE)>>,
              <<NobodyHolds(1, FALSE), Answerable(2, FALSE)>>,
              <<Answerable(1, FALSE), OtherRole(1, FALSE)>>,
              <<Answerable(1, FALSE), Stranger(2)>> },
   core : {FALSE}, max : {1}, min : {1}, judging : BOOLEAN, threshold : {Low, High}]

\* Longer sets cut to a core of one or two, or too short for one; bounds
\* that select_core refuses.
CoreRuns ==
  [golden : { <<>>,
              <<Answerable(1, FALSE), OtherRole(1, FALSE)>>,
              <<OtherTenant(1, FALSE), OtherRole(2, FALSE), Answerable(3, FALSE)>>,
              <<OtherTenant(1, TRUE), Answerable(2, FALSE), Answerable(3, FALSE)>>,
              <<Answerable(1, FALSE), OtherTenant(2, TRUE)>>,
              <<Answerable(1, FALSE), OtherTenant(2, TRUE), Answerable(3, TRUE)>> },
   core : {TRUE}, max : {1, 2}, min : {1}, judging : {TRUE}, threshold : {Low}]
  \cup
  [golden : { <<Answerable(1, FALSE), OtherRole(2, FALSE), Answerable(3, FALSE)>>,
              <<Answerable(1, FALSE), OtherRole(2, FALSE)>> },
   core : {TRUE}, max : {1}, min : {2}, judging : {TRUE}, threshold : {Low}]
  \cup
  [golden : { <<Answerable(1, FALSE), OtherRole(2, FALSE)>> },
   core : {TRUE}, max : {-1, 0, 2}, min : {0}, judging : {FALSE}, threshold : {Low}]

MCRequests == FullRuns \cup CoreRuns

Step(citations) == [node |-> "llm-step", citations |-> citations, readable |-> TRUE, chunks |-> {}]
Tool(citations) == [node |-> "tool-call", citations |-> citations, readable |-> TRUE, chunks |-> {}]
Kb(chunks) == [node |-> "kb-retrieve", citations |-> {}, readable |-> TRUE, chunks |-> chunks]
Broken == [Kb({}) EXCEPT !.readable = FALSE]
ForgedKb == [Kb({}) EXCEPT !.citations = {k1}]

Own == [tenant |-> ua, role |-> public]
OwnHr == [tenant |-> ua, role |-> hr]
Other == [tenant |-> ub, role |-> public]
Unnamed == [tenant |-> Missing, role |-> public]

Retrieved == {Kb({}), Kb({Own}), Kb({OwnHr}), Kb({Own, Other}), Kb({Unnamed})}

Traces == {{}, {Tool({}), Step({})}, {Tool({k1})}, {ForgedKb}, {Broken, Step({})},
           {Kb({Other}), Broken}, {Kb({Own}), Kb({Other}), Step({k1})}}
          \cup {{kb, Step(c)} : kb \in Retrieved, c \in {{}, {k1}, {k1, k2}}}

Answers == {[refused |-> TRUE, hit |-> FALSE], [refused |-> FALSE, hit |-> TRUE],
            [refused |-> FALSE, hit |-> FALSE]}

MCCaseRuns == [answer : Answers, events : Traces]
=============================================================================
