---------------------------- MODULE MCGoldenSets ----------------------------
(***************************************************************************)
(* Two tenants, two callers, and three files: a generated set, the same    *)
(* questions reviewed by a person, and one that is not what it is asked    *)
(* to be.  The labels agree, differ, are missing, or are an unknown word.  *)
(***************************************************************************)
EXTENDS GoldenSets, TLC

CONSTANTS ta, tb, staff, hr, leave, leaveTyped, pay, v1, draftRef, k1

MCNormal == (leave :> leave) @@ (leaveTyped :> leave) @@ (pay :> pay)

Case(id, query, roles, source) ==
  [id |-> id, tenant |-> ta, query |-> query, roles |-> roles, expTenant |-> ta,
   expRole |-> staff, cites |-> {k1}, label |-> NoLabel, source |-> source]
Trap(id, query, source) ==
  [Case(id, query, {staff}, source) EXCEPT !.expRole = hr, !.cites = {}]
WithLabel(c, label) == [c EXCEPT !.label = label]

Generated == << Case(1, leave, {staff}, "ai"), WithLabel(Trap(2, pay, "ai"), "ANSWER") >>
Reviewed == << WithLabel(Case(3, leaveTyped, {staff}, "human"), "pass"),
               Case(4, leave, {hr}, "none"),
               WithLabel(Trap(5, pay, "human"), "pass") >>

MCFiles == { [ref |-> v1, valid |-> TRUE, cases |-> Generated],
             [ref |-> v1, valid |-> TRUE, cases |-> Reviewed],
             [ref |-> draftRef, valid |-> TRUE, cases |-> Generated] }

Interchangeable == Permutations(Conns)
=============================================================================
