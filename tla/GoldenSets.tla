----------------------------- MODULE GoldenSets -----------------------------
(***************************************************************************)
(* eval.golden_sets and the people and programs around it.  An author      *)
(* loads YAML files, merges them and writes the outcome; callers list,     *)
(* read and delete.  A call of the store is two statements, the check of   *)
(* the session and the one on the table; statements of other connections   *)
(* come between them.                                                      *)
(***************************************************************************)
EXTENDS GoldenMerge, Agreement, RowSecurity

CONSTANTS Refs,         \* golden_set_ref values
          Files,        \* the YAML files: [ref, valid, cases]
          MaxSources,   \* bound: files an author merges
          Conns,        \* connections to the database
          NoCall, NoDraft, Absent

\* A file holds a list of cases.
ASSUME GoldenAssumption ==
  /\ Unset \notin Tenants /\ MaxSources \in Nat
  /\ \A file \in Files : file.cases \in Seq({file.cases[i] : i \in DOMAIN file.cases})

VARIABLES sources,       \* the golden sets the author has loaded, in order
          draft,         \* the cases he is about to write
          golden_sets,   \* the table: rows [tenant, ref, cases]
          calls,         \* the call each connection is in, past the scope check
          answers        \* what the last call of each connection returned or raised

author == <<sources, draft>>
store == <<golden_sets, calls, answers>>
vars == <<sources, draft, golden_sets, calls, answers>>

Init == /\ sources = <<>>
        /\ draft = NoDraft
        /\ golden_sets = {}
        /\ calls = [c \in Conns |-> NoCall]
        /\ answers = [c \in Conns |-> <<"none">>]
-----------------------------------------------------------------------------
(***************************************************************************)
(* The author.                                                             *)
(***************************************************************************)
\* load_golden_set: the file names the set asked for, and every case validates.
Loads(file, expectRef) == file.ref = expectRef /\ file.valid

\* An exception ends the author's program, and what it had loaded is gone.
LoadGoldenSet(file, expectRef) ==
  /\ draft = NoDraft
  /\ Len(sources) < MaxSources
  /\ sources' = IF Loads(file, expectRef) THEN Append(sources, file.cases) ELSE <<>>
  /\ UNCHANGED <<draft, store>>

\* A set may be written as it was loaded.
TakeAsLoaded ==
  /\ draft = NoDraft
  /\ Len(sources) = 1
  /\ draft' = sources[1]
  /\ UNCHANGED <<sources, store>>

MergeGoldenSets ==
  /\ draft = NoDraft
  /\ sources # <<>>
  /\ IF MergeRejected(sources) THEN sources' = <<>> /\ UNCHANGED draft
     ELSE draft' = MergedCases(sources) /\ UNCHANGED sources
  /\ UNCHANGED store
-----------------------------------------------------------------------------
(***************************************************************************)
(* The store.                                                              *)
(***************************************************************************)
Call(op, session, tenant, ref, cases) ==
  [op |-> op, session |-> session, tenant |-> tenant, ref |-> ref, cases |-> cases]

M_InScope(session, tenant) == session # Unset
\* _assert_scope.
InScope(session, tenant) == session # Unset /\ session = tenant

\* The first statement of a call; the session stays the same until it returns.
AssertScope(c, call) ==
  /\ calls[c] = NoCall
  /\ IF InScope(call.session, call.tenant)
     THEN /\ calls' = [calls EXCEPT ![c] = call]
          /\ answers' = [answers EXCEPT ![c] = <<"pending">>]
     ELSE /\ calls' = calls
          /\ answers' = [answers EXCEPT ![c] = <<"refused">>]
  /\ UNCHANGED golden_sets

Ask(c, session, op, tenant, ref) ==
  /\ AssertScope(c, Call(op, session, tenant, ref, <<>>))
  /\ UNCHANGED author

\* The author's program ends with its write.
AskToWrite(c, session, tenant, ref) ==
  /\ draft # NoDraft
  /\ AssertScope(c, Call("write", session, tenant, ref, draft))
  /\ sources' = <<>>
  /\ draft' = NoDraft

In(c, op) == calls[c] # NoCall /\ calls[c].op = op

Return(c, answer) == /\ calls' = [calls EXCEPT ![c] = NoCall]
                     /\ answers' = [answers EXCEPT ![c] = answer]

\* No statement names a tenant: row security picks the rows.
Rows(c) == {row \in golden_sets : Visible(calls[c].session, row.tenant)}
RowsNamed(c) == {row \in Rows(c) : row.ref = calls[c].ref}

ListGoldenSets(c) ==
  /\ In(c, "list")
  /\ Return(c, <<"list", [r \in {row.ref : row \in Rows(c)} |->
                            Summary((CHOOSE row \in Rows(c) : row.ref = r).cases)]>>)
  /\ UNCHANGED <<author, golden_sets>>

ReadGoldenSet(c) ==
  /\ In(c, "read")
  /\ \/ RowsNamed(c) = {} /\ Return(c, <<"read", Absent>>)
     \/ \E row \in RowsNamed(c) : Return(c, <<"read", row.cases>>)
  /\ UNCHANGED <<author, golden_sets>>

DeleteGoldenSet(c) ==
  /\ In(c, "delete")
  /\ golden_sets' = golden_sets \ RowsNamed(c)
  /\ Return(c, <<"delete", RowsNamed(c) # {}>>)
  /\ UNCHANGED author

M_Upserted(row) == {r \in golden_sets : r.ref # row.ref} \cup {row}
\* ON CONFLICT (tenant_id, golden_set_ref) DO UPDATE.
Upserted(row) ==
  {r \in golden_sets : ~(r.tenant = row.tenant /\ r.ref = row.ref)} \cup {row}

WriteGoldenSet(c) ==
  /\ In(c, "write")
  /\ Visible(calls[c].session, calls[c].tenant)
  /\ golden_sets' =
       Upserted([tenant |-> calls[c].tenant, ref |-> calls[c].ref, cases |-> calls[c].cases])
  /\ Return(c, <<"write">>)
  /\ UNCHANGED author
-----------------------------------------------------------------------------
Next == \/ \E file \in Files, r \in Refs : LoadGoldenSet(file, r)
        \/ TakeAsLoaded
        \/ MergeGoldenSets
        \/ \E c \in Conns :
             \/ \E s \in Sessions, t \in Tenants, r \in Refs :
                  \/ \E op \in {"list", "read", "delete"} : Ask(c, s, op, t, r)
                  \/ AskToWrite(c, s, t, r)
             \/ ListGoldenSets(c)
             \/ ReadGoldenSet(c)
             \/ DeleteGoldenSet(c)
             \/ WriteGoldenSet(c)

Spec == Init /\ [][Next]_vars
-----------------------------------------------------------------------------
(***************************************************************************)
(* Properties.                                                             *)
(***************************************************************************)
\* Every variable has its type, and a name is taken once per tenant.
TypeOK ==
  /\ Len(sources) <= MaxSources
  /\ \A row \in golden_sets : row.tenant \in Tenants /\ row.ref \in Refs
  /\ \A q, r \in golden_sets : q.tenant = r.tenant /\ q.ref = r.ref => q = r
  /\ \A c \in Conns : calls[c] # NoCall =>
       /\ calls[c].op \in {"list", "read", "delete", "write"}
       /\ calls[c].tenant \in Tenants /\ calls[c].session = calls[c].tenant
       /\ calls[c].ref \in Refs

(***************************************************************************)
(* The store keeps its promise although no statement names a tenant: the   *)
(* scope check and row security together give each tenant its catalogue,   *)
(* and what was done in between by others is seen whole or not at all.     *)
(***************************************************************************)
CatalogueOf(t) ==
  [r \in Refs |-> {row.cases : row \in {q \in golden_sets : q.tenant = t /\ q.ref = r}}]

Catalogue == INSTANCE GoldenCatalogue WITH catalogue <- [t \in Tenants |-> CatalogueOf(t)]

IsCatalogue == Catalogue!Spec

(***************************************************************************)
(* A merge of several sets asks every question of its sources once, in     *)
(* their order, with a case somebody wrote, unmixed; where a person wrote  *)
(* one it is that person's (merge_golden_sets, "human always wins").       *)
(***************************************************************************)
FirstAt(cases, key) == SelectInSeq(cases, LAMBDA c : CaseKey(c) = key)

MergeIsFaithful ==
  draft # NoDraft /\ Len(sources) > 1 =>
    LET all == FlattenSeq(sources)
    IN  /\ \A i \in DOMAIN all : \E k \in DOMAIN draft : SameQuestion(draft[k], all[i])
        /\ \A k, l \in DOMAIN draft : k < l =>
             FirstAt(all, CaseKey(draft[k])) < FirstAt(all, CaseKey(draft[l]))
        /\ \A k \in DOMAIN draft :
             /\ draft[k] \in ToSet(all)
             /\ \A i \in DOMAIN all :
                  SameQuestion(draft[k], all[i]) /\ all[i].source = "human"
                    => draft[k] = all[i]

(***************************************************************************)
(* Two sets may be handed over in either order: both orders are rejected,  *)
(* or both give the same cases (golden_merge.py:157).                      *)
(***************************************************************************)
NoRepeats(cases) ==
  \A i, j \in DOMAIN cases : SameQuestion(cases[i], cases[j]) => i = j

SameOutcome(sets, others) ==
  /\ MergeRejected(sets) <=> MergeRejected(others)
  /\ ~MergeRejected(sets) => ToSet(MergedCases(sets)) = ToSet(MergedCases(others))

PairsMergeEitherWay ==
  Len(sources) = 2 /\ (\A i \in 1..2 : NoRepeats(sources[i]))
    => SameOutcome(sources, Reverse(sources))

(***************************************************************************)
(* The agreement measured on a set that was read is that of the cases a    *)
(* person labelled and of no others: a case without a label is neither an  *)
(* agreement nor a difference (nhan_tu_golden_set, "never guess").  A      *)
(* label is any string a person wrote: one that is not a word of the       *)
(* vocabulary costs the whole measurement, and nothing else does.          *)
(***************************************************************************)
Measured(cases) == AgreementOf(ScorerLabels(cases), HandLabels(cases))
Unmeasured(cases) == AgreementRejected(ScorerLabels(cases), HandLabels(cases))

\* The same, counted over the cases instead of over their ids.
Labelled(cases) == {i \in DOMAIN cases : cases[i].label # NoLabel}
Missed(cases) == {i \in Labelled(cases) : cases[i].label # ScorerLabel(cases[i])}

CountedByHand(cases) ==
  Measured(cases) = [agreed |-> Cardinality(Labelled(cases) \ Missed(cases)),
                     compared |-> Cardinality(Labelled(cases)),
                     differing |-> {cases[i].id : i \in Missed(cases)}]

UnknownWord(cases) == \E i \in Labelled(cases) : cases[i].label \notin Vocabulary

OnlyHandLabelsCount ==
  \A c \in Conns : answers[c][1] = "read" /\ answers[c][2] # Absent =>
    LET cases == answers[c][2]
    IN  Cardinality(CaseIds(cases)) = Len(cases) =>
          /\ Unmeasured(cases) <=> UnknownWord(cases)
          /\ ~Unmeasured(cases) => CountedByHand(cases)
=============================================================================
