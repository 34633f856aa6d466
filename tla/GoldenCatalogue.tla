--------------------------- MODULE GoldenCatalogue ---------------------------
(***************************************************************************)
(* What the golden-set store promises its callers: each tenant has its own *)
(* catalogue of named sets; a call made in another tenant's session is     *)
(* refused, and any other call takes effect at once, on that catalogue     *)
(* alone.  What there is to write (draft) is an input.                     *)
(***************************************************************************)
CONSTANTS Tenants, Sessions,
          Refs,      \* golden_set_ref values
          Absent,    \* GoldenSetNotFound
          Summary(_),\* what a list shows of a set
          Conns,     \* connections a caller may hold
          NoCall

VARIABLES draft,       \* input: the cases an author has ready to write
          catalogue,   \* each tenant's set of each name: {its cases}, or {} without one
          calls,       \* the call each connection is in
          answers      \* what the last call of each connection returned or raised

cvars == <<catalogue, calls, answers>>

Operations == {"list", "read", "delete", "write"}

Init == /\ catalogue = [t \in Tenants |-> [r \in Refs |-> {}]]
        /\ calls = [c \in Conns |-> NoCall]
        /\ answers = [c \in Conns |-> <<"none">>]

Call(op, session, tenant, ref, cases) ==
  [op |-> op, session |-> session, tenant |-> tenant, ref |-> ref, cases |-> cases]

Ask(c, call) ==
  /\ calls[c] = NoCall
  /\ \/ /\ call.session = call.tenant
        /\ calls' = [calls EXCEPT ![c] = call]
        /\ answers' = [answers EXCEPT ![c] = <<"pending">>]
     \/ /\ call.session # call.tenant
        /\ calls' = calls
        /\ answers' = [answers EXCEPT ![c] = <<"refused">>]
  /\ UNCHANGED catalogue

Answer(c, op, answer) ==
  /\ calls[c] # NoCall /\ calls[c].op = op
  /\ calls' = [calls EXCEPT ![c] = NoCall]
  /\ answers' = [answers EXCEPT ![c] = answer]

Of(call) == catalogue[call.tenant][call.ref]
Put(call, content) == catalogue' = [catalogue EXCEPT ![call.tenant][call.ref] = content]

Sole(content) == CHOOSE cases \in content : TRUE

List(c) ==
  LET own == catalogue[calls[c].tenant]
      named == {r \in Refs : own[r] # {}}
  IN  /\ Answer(c, "list", <<"list", [r \in named |-> Summary(Sole(own[r]))]>>)
      /\ UNCHANGED catalogue

Read(c) == /\ Answer(c, "read", <<"read", IF Of(calls[c]) = {} THEN Absent
                                         ELSE Sole(Of(calls[c]))>>)
           /\ UNCHANGED catalogue

Delete(c) == /\ Answer(c, "delete", <<"delete", Of(calls[c]) # {}>>)
             /\ Put(calls[c], {})

Write(c) == /\ Answer(c, "write", <<"write">>)
            /\ Put(calls[c], {calls[c].cases})

Next == \E c \in Conns :
          \/ \E s \in Sessions, t \in Tenants, r \in Refs :
               \/ \E op \in Operations \ {"write"} : Ask(c, Call(op, s, t, r, <<>>))
               \/ Ask(c, Call("write", s, t, r, draft))
          \/ List(c) \/ Read(c) \/ Delete(c) \/ Write(c)

Spec == Init /\ [][Next]_cvars
=============================================================================
