---------------------------- MODULE MCTraceReport ----------------------------
(***************************************************************************)
(* Two runs, each well-formed, without an answer, with two, with one that  *)
(* cannot be read, with steps after it, or with the events of two tenants; *)
(* cases on each side of the fence; reports on no run, one (twice) or two. *)
(***************************************************************************)
EXTENDS TraceReport, TLC

CONSTANTS ta, tb, ua, ub, public, hr, ka, kb, loose, r1, r2

MCTenantIds == [t \in {ta} |-> ua]
MCSlugOf == (ka :> ta) @@ (kb :> tb) @@ (loose :> Missing)

Case(id, expTenant, expRole) ==
  [id |-> id, tenant |-> ta, roles |-> {public}, expTenant |-> expTenant,
   expRole |-> expRole, cites |-> {ka}]
Answerable == Case(1, ta, public)
OtherTenant == Case(2, tb, public)
OtherRole == Case(3, ta, hr)
Nobody == Case(4, NoTenant, public)

Event(node, citations, chunks, answer, tokens) ==
  [node |-> node, citations |-> citations, readable |-> TRUE, chunks |-> chunks,
   answer |-> answer, tenant |-> ua, tokens |-> tokens, cost |-> tokens]
Chunk(id, tenant, role) == [id |-> id, tenant |-> tenant, role |-> role]
NoAnswer == [given |-> FALSE, refused |-> FALSE, hit |-> FALSE]
Kb(chunks) == Event("kb-retrieve", {}, chunks, NoAnswer, 0)
Turn == Event("llm-step", {}, {}, NoAnswer, 1)
Said(citations, refused) ==
  Event("llm-step", citations, {}, [given |-> TRUE, refused |-> refused, hit |-> TRUE], 2)

Own == Chunk(ka, ua, public)
Secret == Chunk(kb, ub, public)

MCScripts == { << Turn, Kb({Own}), Said({ka}, FALSE) >>,
               << Turn, Kb({Own}), Said({ka}, TRUE) >>,
               << Kb({Own, Secret}), Said({}, TRUE) >>,
               << Kb({Own, Secret}), Said({kb}, TRUE) >>,
               << Kb({}), Said({loose}, TRUE) >>,
               << Turn, Kb({Own}) >>,
               << Said({}, FALSE), Said({}, TRUE) >>,
               << Said({}, TRUE), Kb({Secret}) >>,
               << Said({}, Missing) >>,
               << Turn, [Said({}, TRUE) EXCEPT !.tenant = ub] >>,
               << [Turn EXCEPT !.cost = 0], [Said({}, FALSE) EXCEPT !.cost = 0] >> }

Specs == { <<[run |-> r1, case |-> Answerable]>>,
           <<[run |-> r1, case |-> OtherTenant], [run |-> r1, case |-> OtherRole]>>,
           <<[run |-> r1, case |-> Nobody], [run |-> r2, case |-> Answerable]>>,
           <<[run |-> r1, case |-> UnknownCase]>> }

MCReports ==
  [list : {FALSE}, specs : Specs, byChunks : BOOLEAN, dsn : {{"scorer", "app"}, {"app"}}]
  \cup [list : {TRUE}, specs : {<<>>}, byChunks : {FALSE}, dsn : SUBSET {"scorer", "app"}]
  \cup [list : {FALSE}, specs : {<<>>}, byChunks : {FALSE}, dsn : {{"scorer"}}]
=============================================================================
