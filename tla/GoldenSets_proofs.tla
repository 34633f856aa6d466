-------------------------- MODULE GoldenSets_proofs --------------------------
(***************************************************************************)
(* The golden-set store implements the catalogue, for any number of        *)
(* tenants, names, connections and files.  What the author does in the     *)
(* middle, merging included, is of no concern to the store: the proof      *)
(* looks at the rows only.                                                 *)
(***************************************************************************)
EXTENDS GoldenSets, GoldenMerge_proofs, FiniteSetTheorems, TLAPS

AuthorType == sources \in Seq({file.cases : file \in Files}) /\ Len(sources) <= MaxSources

RowsType == \A row \in golden_sets : row.tenant \in Tenants /\ row.ref \in Refs

\* A name is taken once per tenant.
NamesTaken ==
  \A q, r \in golden_sets : q.tenant = r.tenant /\ q.ref = r.ref => q = r

Admitted(call) == /\ call.op \in {"list", "read", "delete", "write"}
                  /\ call.tenant \in Tenants /\ call.session = call.tenant
                  /\ call.ref \in Refs

CallsType == DOMAIN calls = Conns /\ \A c \in Conns : calls[c] # NoCall => Admitted(calls[c])

IInv == AuthorType /\ RowsType /\ NamesTaken /\ CallsType

\* The invariant gives the types.
LEMMA TypeFollows == IInv => TypeOK
BY DEF IInv, AuthorType, RowsType, NamesTaken, CallsType, Admitted, TypeOK

\* The rows a call sees are those of its tenant.
LEMMA OwnRows ==
  ASSUME IInv, NEW c \in Conns, calls[c] # NoCall
  PROVE  /\ calls[c].tenant \in Tenants /\ calls[c].ref \in Refs
         /\ Rows(c) = {row \in golden_sets : row.tenant = calls[c].tenant}
         /\ RowsNamed(c) = {row \in golden_sets : row.tenant = calls[c].tenant
                                                  /\ row.ref = calls[c].ref}
BY GoldenAssumption DEF IInv, CallsType, Admitted, Rows, RowsNamed, Visible

\* An author who keeps what he loaded, or has lost or written it, is a typed one.
LEMMA AuthorSteps ==
  ASSUME AuthorType, sources' = sources \/ sources' = <<>>
  PROVE  AuthorType'
<1>1. CASE sources' = sources
  BY <1>1 DEF AuthorType
<1>2. CASE sources' = <<>>
  <2>1. <<>> \in Seq({file.cases : file \in Files}) /\ Len(<<>>) = 0
    OBVIOUS
  <2>2. QED
    BY <1>2, <2>1, GoldenAssumption DEF AuthorType
<1>3. QED
  BY <1>1, <1>2

\* What the author does leaves the store alone.
Authors == \/ \E file \in Files, r \in Refs : LoadGoldenSet(file, r)
           \/ TakeAsLoaded
           \/ MergeGoldenSets

\* The author keeps the invariant and leaves the store alone.
LEMMA AuthorKeeps ==
  ASSUME IInv, Authors
  PROVE  IInv' /\ UNCHANGED store
<1>1. UNCHANGED store
  BY DEF Authors, LoadGoldenSet, TakeAsLoaded, MergeGoldenSets
<1>2. AuthorType'
  <2>1. CASE sources' = sources \/ sources' = <<>>
    BY <2>1, AuthorSteps DEF IInv
  <2>2. ASSUME NEW file \in Files, NEW r \in Refs, LoadGoldenSet(file, r), sources' # <<>>
        PROVE  AuthorType'
    BY <2>2, GoldenAssumption DEF IInv, AuthorType, LoadGoldenSet
  <2>3. QED
    BY <2>1, <2>2 DEF Authors, TakeAsLoaded, MergeGoldenSets
<1>3. QED
  BY <1>1, <1>2 DEF IInv, store, RowsType, NamesTaken, CallsType, Admitted

\* A call that is asked for is admitted in its own tenant's session only.
LEMMA AskKeeps ==
  ASSUME IInv, NEW c \in Conns, NEW s, NEW t \in Tenants, NEW r \in Refs,
         \/ \E op \in {"list", "read", "delete"} : Ask(c, s, op, t, r)
         \/ AskToWrite(c, s, t, r)
  PROVE  IInv'
<1>0. PICK op \in {"list", "read", "delete", "write"} :
        \E cases : AssertScope(c, Call(op, s, t, r, cases))
  BY DEF Ask, AskToWrite
<1>1. PICK cases : AssertScope(c, Call(op, s, t, r, cases))
  BY <1>0
<1>2. AuthorType'
  BY AuthorSteps DEF IInv, Ask, AskToWrite, author
<1>3. UNCHANGED golden_sets
  BY <1>1 DEF AssertScope
<1>4. calls' = calls \/ (calls' = [calls EXCEPT ![c] = Call(op, s, t, r, cases)] /\ s = t)
  BY <1>1 DEF AssertScope, InScope, Call
<1>5. Admitted(Call(op, s, t, r, cases)) \/ s # t
  BY DEF Admitted, Call
<1>6. CallsType'
  BY <1>4, <1>5 DEF IInv, CallsType, Admitted
<1>7. QED
  BY <1>2, <1>3, <1>6 DEF IInv, RowsType, NamesTaken

\* A call that returns is over.
LEMMA ReturnKeeps ==
  ASSUME IInv, NEW c \in Conns, NEW answer, Return(c, answer)
  PROVE  CallsType'
BY DEF IInv, CallsType, Admitted, Return

\* The second statement of a call keeps names unique.
LEMMA StatementKeeps ==
  ASSUME IInv, NEW c \in Conns,
         ListGoldenSets(c) \/ ReadGoldenSet(c) \/ DeleteGoldenSet(c) \/ WriteGoldenSet(c)
  PROVE  IInv'
<1>1. AuthorType'
  BY DEF IInv, AuthorType, ListGoldenSets, ReadGoldenSet, DeleteGoldenSet, WriteGoldenSet, author
<1>2. CallsType'
  BY ReturnKeeps DEF ListGoldenSets, ReadGoldenSet, DeleteGoldenSet, WriteGoldenSet
<1>3. RowsType' /\ NamesTaken'
  <2>1. CASE golden_sets' \subseteq golden_sets
    BY <2>1 DEF IInv, RowsType, NamesTaken
  <2>2. CASE WriteGoldenSet(c)
    <3>1. calls[c].tenant \in Tenants /\ calls[c].ref \in Refs
      BY <2>2, OwnRows DEF WriteGoldenSet, In
    <3>2. QED
      BY <2>2, <3>1 DEF IInv, RowsType, NamesTaken, WriteGoldenSet, Upserted
  <2>3. QED
    BY <2>1, <2>2 DEF ListGoldenSets, ReadGoldenSet, DeleteGoldenSet
<1>4. QED
  BY <1>1, <1>2, <1>3 DEF IInv

\* No step breaks the invariant.
LEMMA StepIInv ==
  ASSUME IInv, [Next]_vars
  PROVE  IInv'
<1>1. CASE UNCHANGED vars
  BY <1>1 DEF vars, IInv, AuthorType, RowsType, NamesTaken, CallsType, Admitted
<1>2. CASE Next
  BY <1>2, AuthorKeeps, AskKeeps, StatementKeeps DEF Next, Authors
<1>3. QED
  BY <1>1, <1>2

\* There is no row and no call to begin with.
LEMMA InitIInv == Init => IInv
BY GoldenAssumption DEF Init, IInv, AuthorType, RowsType, NamesTaken, CallsType

(***************************************************************************)
(* The store's types, a name taken once per tenant, and no call past the   *)
(* scope check but in its own tenant's session.                            *)
(***************************************************************************)
THEOREM StoreTypeCorrect == Spec => []TypeOK
BY InitIInv, StepIInv, TypeFollows, PTL DEF Spec
-----------------------------------------------------------------------------
(***************************************************************************)
(* The refinement.                                                         *)
(***************************************************************************)
Catalogues == [t \in Tenants |-> CatalogueOf(t)]

\* What a tenant has under a name: the cases of its row, if there is one.
Stored(t, r) == {row.cases : row \in {q \in golden_sets : q.tenant = t /\ q.ref = r}}

\* The catalogue of a tenant and a name is their row.
LEMMA CatalogueIsStored ==
  ASSUME NEW t \in Tenants, NEW r \in Refs
  PROVE  Catalogues[t][r] = Stored(t, r)
BY DEF Catalogues, CatalogueOf, Stored

\* While the rows stay, so does the catalogue.
LEMMA RowsStay ==
  ASSUME UNCHANGED golden_sets
  PROVE  UNCHANGED Catalogues
BY DEF Catalogues, CatalogueOf

\* A row that is there is what the catalogue has under its name.
LEMMA StoredRow ==
  ASSUME IInv, NEW row \in golden_sets
  PROVE  Stored(row.tenant, row.ref) = {row.cases}
BY DEF IInv, NamesTaken, Stored

\* An empty table is an empty catalogue.
LEMMA RefinesInit == Init => Catalogue!Init
<1> SUFFICES ASSUME Init PROVE Catalogue!Init
  OBVIOUS
<1>1. \A t \in Tenants : CatalogueOf(t) = [r \in Refs |-> {}]
  BY DEF Init, CatalogueOf
<1>2. QED
  BY <1>1 DEF Init, Catalogue!Init

\* Past the check is a call of the session's own tenant; any other is refused.
LEMMA RefinesAsk ==
  ASSUME IInv, NEW c \in Conns, NEW s \in Sessions, NEW t \in Tenants, NEW r \in Refs,
         \/ \E op \in {"list", "read", "delete"} : Ask(c, s, op, t, r)
         \/ AskToWrite(c, s, t, r)
  PROVE  Catalogue!Next
<1>1. ASSUME NEW op, NEW cases, AssertScope(c, Call(op, s, t, r, cases))
      PROVE  Catalogue!Ask(c, Catalogue!Call(op, s, t, r, cases))
  <2>1. UNCHANGED Catalogues
    BY <1>1, RowsStay DEF AssertScope
  <2>2. InScope(s, t) <=> s = t
    BY GoldenAssumption DEF InScope
  <2>3. Call(op, s, t, r, cases) = Catalogue!Call(op, s, t, r, cases)
    BY DEF Call, Catalogue!Call
  <2>4. QED
    BY <1>1, <2>1, <2>2, <2>3 DEF AssertScope, Call, Catalogue!Ask, Catalogue!Call, Catalogues
<1>2. CASE AskToWrite(c, s, t, r)
  BY <1>1, <1>2 DEF AskToWrite, Catalogue!Next
<1>3. ASSUME NEW op \in {"list", "read", "delete"}, Ask(c, s, op, t, r)
      PROVE  Catalogue!Next
  BY <1>1, <1>3 DEF Ask, Catalogue!Next, Catalogue!Operations
<1>4. QED
  BY <1>2, <1>3

\* A list names the rows of the tenant, and counts each of them.
LEMMA RefinesList ==
  ASSUME IInv, NEW c \in Conns, ListGoldenSets(c)
  PROVE  Catalogue!List(c)
<1>1. calls[c] # NoCall /\ calls[c].op = "list"
  BY DEF ListGoldenSets, In
<1> DEFINE t == calls[c].tenant
           names == {row.ref : row \in Rows(c)}
           own == Catalogues[t]
           named == {r \in Refs : own[r] # {}}
<1>2. t \in Tenants /\ Rows(c) = {row \in golden_sets : row.tenant = t}
  BY <1>1, OwnRows
<1>3. ASSUME NEW r \in Refs
      PROVE  own[r] = {row.cases : row \in {q \in Rows(c) : q.ref = r}}
  BY <1>2, CatalogueIsStored DEF Stored
<1>4. names = named
  BY <1>2, <1>3 DEF IInv, RowsType
<1>5. ASSUME NEW r \in names
      PROVE  (CHOOSE row \in Rows(c) : row.ref = r).cases = Catalogue!Sole(own[r])
  <2>1. PICK row \in Rows(c) : row.ref = r
    BY <1>5
  <2>2. (CHOOSE q \in Rows(c) : q.ref = r) = row
    BY <1>2, <2>1 DEF IInv, NamesTaken
  <2>3. own[r] = {row.cases}
    BY <1>2, <2>1, CatalogueIsStored, StoredRow DEF IInv, RowsType
  <2>4. QED
    BY <2>2, <2>3 DEF Catalogue!Sole
<1>6. [r \in names |-> Summary((CHOOSE row \in Rows(c) : row.ref = r).cases)]
        = [r \in named |-> Summary(Catalogue!Sole(own[r]))]
  BY <1>4, <1>5
<1>7. Return(c, <<"list", [r \in named |-> Summary(Catalogue!Sole(own[r]))]>>)
  BY <1>6 DEF ListGoldenSets
<1>8. UNCHANGED Catalogues
  BY RowsStay DEF ListGoldenSets
<1>9. QED
  BY <1>1, <1>7, <1>8 DEF Return, Catalogue!List, Catalogue!Answer, Catalogues

\* A read finds the tenant's row of that name, or none.
LEMMA RefinesRead ==
  ASSUME IInv, NEW c \in Conns, ReadGoldenSet(c)
  PROVE  Catalogue!Read(c)
<1>1. calls[c] # NoCall /\ calls[c].op = "read"
  BY DEF ReadGoldenSet, In
<1> DEFINE there == Catalogues[calls[c].tenant][calls[c].ref]
<1>2. there = {row.cases : row \in RowsNamed(c)}
  BY <1>1, OwnRows, CatalogueIsStored DEF Stored
<1>3. Return(c, <<"read", IF there = {} THEN Absent ELSE Catalogue!Sole(there)>>)
  <2>1. CASE RowsNamed(c) = {}
    BY <1>2, <2>1 DEF ReadGoldenSet
  <2>2. CASE RowsNamed(c) # {}
    <3>1. PICK row \in RowsNamed(c) : Return(c, <<"read", row.cases>>)
      BY <2>2 DEF ReadGoldenSet
    <3>2. there = {row.cases}
      BY <1>1, <3>1, OwnRows, CatalogueIsStored, StoredRow
    <3>3. QED
      BY <3>1, <3>2 DEF Catalogue!Sole
  <2>3. QED
    BY <2>1, <2>2
<1>4. UNCHANGED Catalogues
  BY RowsStay DEF ReadGoldenSet
<1>5. QED
  BY <1>1, <1>3, <1>4 DEF Return, Catalogue!Read, Catalogue!Answer, Catalogue!Of, Catalogues

\* What a statement on one name of one tenant does to the catalogue.
LEMMA Puts ==
  ASSUME NEW u \in Tenants, NEW q \in Refs, NEW content,
         \A t \in Tenants, r \in Refs :
           Stored(t, r)' = IF t = u /\ r = q THEN content ELSE Stored(t, r)
  PROVE  Catalogues' = [Catalogues EXCEPT ![u][q] = content]
<1>1. Catalogues = [t \in Tenants |-> [r \in Refs |-> Stored(t, r)]]
  BY DEF Catalogues, CatalogueOf, Stored
<1>2. Catalogues' = [t \in Tenants |-> [r \in Refs |-> Stored(t, r)']]
  BY DEF Catalogues, CatalogueOf, Stored
<1>3. QED
  BY <1>1, <1>2

\* A delete takes the tenant's row of that name, and says whether there was one.
LEMMA RefinesDelete ==
  ASSUME IInv, NEW c \in Conns, DeleteGoldenSet(c)
  PROVE  Catalogue!Delete(c)
<1>1. calls[c] # NoCall /\ calls[c].op = "delete"
  BY DEF DeleteGoldenSet, In
<1> DEFINE u == calls[c].tenant
           q == calls[c].ref
<1>2. /\ u \in Tenants /\ q \in Refs
      /\ RowsNamed(c) = {row \in golden_sets : row.tenant = u /\ row.ref = q}
  BY <1>1, OwnRows
<1>3. ASSUME NEW t \in Tenants, NEW r \in Refs
      PROVE  Stored(t, r)' = IF t = u /\ r = q THEN {} ELSE Stored(t, r)
  BY <1>2 DEF DeleteGoldenSet, Stored
<1>4. Catalogues' = [Catalogues EXCEPT ![u][q] = {}]
  BY <1>2, <1>3, Puts
<1>5. RowsNamed(c) # {} <=> Catalogues[u][q] # {}
  BY <1>2, CatalogueIsStored DEF Stored
<1>6. Return(c, <<"delete", Catalogues[u][q] # {}>>)
  BY <1>5 DEF DeleteGoldenSet
<1>7. QED
  BY <1>1, <1>4, <1>6
     DEF Return, Catalogue!Delete, Catalogue!Answer, Catalogue!Of, Catalogue!Put, Catalogues

\* A write replaces the tenant's row of that name, or adds it.
LEMMA RefinesWrite ==
  ASSUME IInv, NEW c \in Conns, WriteGoldenSet(c)
  PROVE  Catalogue!Write(c)
<1>1. calls[c] # NoCall /\ calls[c].op = "write"
  BY DEF WriteGoldenSet, In
<1> DEFINE u == calls[c].tenant
           q == calls[c].ref
           new == [tenant |-> u, ref |-> q, cases |-> calls[c].cases]
<1>2. u \in Tenants /\ q \in Refs
  BY <1>1, OwnRows
<1>3. golden_sets' = {r \in golden_sets : ~(r.tenant = u /\ r.ref = q)} \cup {new}
  BY DEF WriteGoldenSet, Upserted
<1>4. ASSUME NEW t \in Tenants, NEW r \in Refs
      PROVE  Stored(t, r)' = IF t = u /\ r = q THEN {calls[c].cases} ELSE Stored(t, r)
  <2>1. CASE t = u /\ r = q
    <3>1. {x \in golden_sets' : x.tenant = t /\ x.ref = r} = {new}
      BY <1>3, <2>1
    <3>2. Stored(t, r)' = {row.cases : row \in {x \in golden_sets' : x.tenant = t /\ x.ref = r}}
      BY DEF Stored
    <3>3. Stored(t, r)' = {row.cases : row \in {new}}
      BY <3>1, <3>2
    <3>4. new.cases = calls[c].cases
      OBVIOUS
    <3>5. Stored(t, r)' = {calls[c].cases}
      BY <3>3, <3>4
    <3>6. QED
      BY <2>1, <3>5
  <2>2. CASE ~(t = u /\ r = q)
    <3>1. {x \in golden_sets' : x.tenant = t /\ x.ref = r}
            = {x \in golden_sets : x.tenant = t /\ x.ref = r}
      BY <1>3, <2>2
    <3>2. QED
      BY <2>2, <3>1 DEF Stored
  <2>3. QED
    BY <2>1, <2>2
<1>5. Catalogues' = [Catalogues EXCEPT ![u][q] = {calls[c].cases}]
  BY <1>2, <1>4, Puts
<1>6. Return(c, <<"write">>)
  BY DEF WriteGoldenSet
<1>7. QED
  BY <1>1, <1>5, <1>6
     DEF Return, Catalogue!Write, Catalogue!Answer, Catalogue!Put, Catalogues

\* Every step of the store is one of the catalogue, and the author's are none.
LEMMA RefinesStep ==
  ASSUME IInv, [Next]_vars
  PROVE  [Catalogue!Next]_(Catalogue!cvars)
<1>1. ASSUME Authors \/ UNCHANGED vars
      PROVE  UNCHANGED Catalogue!cvars
  BY <1>1, AuthorKeeps, RowsStay DEF store, vars, Catalogue!cvars, Catalogues
<1>2. ASSUME NEW c \in Conns, NEW s \in Sessions, NEW t \in Tenants, NEW r \in Refs,
             \/ \E op \in {"list", "read", "delete"} : Ask(c, s, op, t, r)
             \/ AskToWrite(c, s, t, r)
      PROVE  Catalogue!Next
  BY <1>2, RefinesAsk
<1>3. ASSUME NEW c \in Conns,
             ListGoldenSets(c) \/ ReadGoldenSet(c) \/ DeleteGoldenSet(c) \/ WriteGoldenSet(c)
      PROVE  Catalogue!Next
  BY <1>3, RefinesList, RefinesRead, RefinesDelete, RefinesWrite DEF Catalogue!Next
<1>4. QED
  BY <1>1, <1>2, <1>3 DEF Next, Authors

(***************************************************************************)
(* The store is a catalogue per tenant: no statement names a tenant, and   *)
(* yet no call reads, lists, replaces or deletes another tenant's set.     *)
(***************************************************************************)
THEOREM StoreIsCatalogue == Spec => IsCatalogue
<1>1. IInv /\ [Next]_vars => [Catalogue!Next]_(Catalogue!cvars)
  BY RefinesStep
<1>2. QED
  BY <1>1, InitIInv, StepIInv, RefinesInit, PTL DEF Spec, IsCatalogue, Catalogue!Spec
-----------------------------------------------------------------------------
(***************************************************************************)
(* The author's merges.  What is loaded, merged, written and read is a     *)
(* list of cases somebody wrote; a draft is what was loaded, or a merge    *)
(* that was not rejected.                                                  *)
(***************************************************************************)
AllCases == UNION {{file.cases[i] : i \in DOMAIN file.cases} : file \in Files}

SourcesRight == sources \in Seq(Seq(AllCases))

DraftRight ==
  draft # NoDraft =>
    /\ draft \in Seq(AllCases)
    /\ Len(sources) = 1 \/ (~MergeRejected(sources) /\ draft = MergedCases(sources))

RowsRight == \A row \in golden_sets : row.cases \in Seq(AllCases)

CallsRight == \A c \in Conns : In(c, "write") => calls[c].cases \in Seq(AllCases)

AnswersRight ==
  /\ DOMAIN answers = Conns
  /\ \A c \in Conns : answers[c][1] = "read" /\ answers[c][2] # Absent =>
       answers[c][2] \in Seq(AllCases)

CasesInv == SourcesRight /\ DraftRight /\ RowsRight /\ CallsRight /\ AnswersRight

\* A file's cases are cases that somebody wrote.
LEMMA FileIsList ==
  ASSUME NEW file \in Files
  PROVE  file.cases \in Seq(AllCases)
<1>1. PICK S : file.cases \in Seq(S) /\ S = {file.cases[i] : i \in DOMAIN file.cases}
  BY GoldenAssumption
<1>2. S \subseteq AllCases
  BY <1>1 DEF AllCases
<1>3. QED
  BY <1>1, <1>2

\* So is a merge of lists that was not rejected.
LEMMA MergeIsList ==
  ASSUME SourcesRight
  PROVE  MergedCases(sources) \in Seq(AllCases)
<1>1. FlattenSeq(sources) \in Seq(AllCases)
  BY FlatIsSequence DEF SourcesRight
<1>2. Merging(sources) \in Loops(AllCases)
  BY <1>1, WhatMergingGives
<1>3. QED
  BY <1>2 DEF Loops, MergedCases

\* Nothing has been loaded, merged, written or read to begin with.
LEMMA InitCasesInv == Init => CasesInv
<1> SUFFICES ASSUME Init PROVE CasesInv
  OBVIOUS
<1>1. SourcesRight
  BY DEF Init, SourcesRight
<1>2. QED
  BY <1>1 DEF Init, CasesInv, DraftRight, RowsRight, CallsRight, AnswersRight, In

\* What the author loads and merges are cases somebody wrote.
LEMMA AuthorKeepsCases ==
  ASSUME CasesInv, Authors
  PROVE  CasesInv'
<1>1. CASE \E file \in Files, r \in Refs : LoadGoldenSet(file, r)
  <2>1. PICK file \in Files, r \in Refs : LoadGoldenSet(file, r)
    BY <1>1
  <2>2. file.cases \in Seq(AllCases)
    BY FileIsList
  <2>3. sources' = Append(sources, file.cases) \/ sources' = <<>>
    BY <2>1 DEF LoadGoldenSet
  <2>4. SourcesRight'
    <3>1. PICK lists : lists = Seq(AllCases)
      OBVIOUS
    <3>2. sources \in Seq(lists) /\ file.cases \in lists
      BY <2>2, <3>1 DEF CasesInv, SourcesRight
    <3>3. Append(sources, file.cases) \in Seq(lists) /\ <<>> \in Seq(lists)
      BY <3>2
    <3>4. sources' \in Seq(lists)
      BY <2>3, <3>3
    <3>5. QED
      BY <3>1, <3>4 DEF SourcesRight
  <2>5. draft' = NoDraft /\ UNCHANGED store
    BY <2>1 DEF LoadGoldenSet
  <2>6. QED
    BY <2>4, <2>5 DEF CasesInv, DraftRight, RowsRight, CallsRight, AnswersRight, In, store
<1>2. CASE TakeAsLoaded
  <2>1. draft' = sources[1] /\ Len(sources) = 1 /\ UNCHANGED <<sources, store>>
    BY <1>2 DEF TakeAsLoaded
  <2>2. sources[1] \in Seq(AllCases)
    BY <2>1 DEF CasesInv, SourcesRight
  <2>3. QED
    BY <2>1, <2>2
       DEF CasesInv, SourcesRight, DraftRight, RowsRight, CallsRight, AnswersRight, In, store
<1>3. CASE MergeGoldenSets
  <2>1. UNCHANGED store /\ draft = NoDraft
    BY <1>3 DEF MergeGoldenSets
  <2>2. RowsRight' /\ CallsRight' /\ AnswersRight'
    BY <2>1 DEF CasesInv, RowsRight, CallsRight, AnswersRight, In, store
  <2>3. CASE MergeRejected(sources)
    <3>1. sources' = <<>> /\ draft' = NoDraft
      BY <1>3, <2>1, <2>3 DEF MergeGoldenSets
    <3>2. SourcesRight'
      BY <3>1 DEF SourcesRight
    <3>3. QED
      BY <2>2, <3>1, <3>2 DEF CasesInv, DraftRight
  <2>4. CASE ~MergeRejected(sources)
    <3>1. sources' = sources /\ draft' = MergedCases(sources)
      BY <1>3, <2>4 DEF MergeGoldenSets
    <3>2. MergedCases(sources) \in Seq(AllCases)
      BY MergeIsList DEF CasesInv
    <3>3. MergeRejected(sources') = MergeRejected(sources)
            /\ MergedCases(sources') = MergedCases(sources)
      BY <3>1
    <3>4. QED
      BY <2>2, <2>4, <3>1, <3>2, <3>3 DEF CasesInv, SourcesRight, DraftRight
  <2>5. QED
    BY <2>3, <2>4
<1>4. QED
  BY <1>1, <1>2, <1>3 DEF Authors

\* A call carries the draft, and a refused one returns nothing.
LEMMA AskKeepsCases ==
  ASSUME IInv, CasesInv, NEW c \in Conns, NEW s, NEW t, NEW r,
         \/ \E op \in {"list", "read", "delete"} : Ask(c, s, op, t, r)
         \/ AskToWrite(c, s, t, r)
  PROVE  CasesInv'
<1>1. ASSUME NEW op, NEW cases, AssertScope(c, Call(op, s, t, r, cases)),
             op = "write" => cases \in Seq(AllCases)
      PROVE  RowsRight' /\ CallsRight' /\ AnswersRight'
  <2>1. RowsRight'
    BY <1>1 DEF CasesInv, RowsRight, AssertScope
  <2>2. CallsRight'
    <3>1. calls' = calls \/ calls' = [calls EXCEPT ![c] = Call(op, s, t, r, cases)]
      BY <1>1 DEF AssertScope
    <3>2. Call(op, s, t, r, cases).op = op /\ Call(op, s, t, r, cases).cases = cases
      BY DEF Call
    <3>3. QED
      BY <1>1, <3>1, <3>2 DEF CasesInv, CallsRight, In, IInv, CallsType
  <2>3. AnswersRight'
    <3>1. PICK a \in {<<"pending">>, <<"refused">>} : answers' = [answers EXCEPT ![c] = a]
      BY <1>1 DEF AssertScope
    <3>2. a[1] # "read"
      OBVIOUS
    <3>3. QED
      BY <3>1, <3>2 DEF CasesInv, AnswersRight
  <2>4. QED
    BY <2>1, <2>2, <2>3
<1>2. CASE AskToWrite(c, s, t, r)
  <2>1. AssertScope(c, Call("write", s, t, r, draft)) /\ sources' = <<>> /\ draft' = NoDraft
    BY <1>2 DEF AskToWrite
  <2>2. draft \in Seq(AllCases)
    BY <1>2 DEF AskToWrite, CasesInv, DraftRight
  <2>3. SourcesRight' /\ DraftRight'
    BY <2>1 DEF SourcesRight, DraftRight
  <2>4. QED
    BY <1>1, <2>1, <2>2, <2>3 DEF CasesInv
<1>3. ASSUME NEW op \in {"list", "read", "delete"}, Ask(c, s, op, t, r)
      PROVE  CasesInv'
  <2>1. AssertScope(c, Call(op, s, t, r, <<>>)) /\ UNCHANGED <<sources, draft>>
    BY <1>3 DEF Ask, author
  <2>2. SourcesRight' /\ DraftRight'
    BY <2>1 DEF CasesInv, SourcesRight, DraftRight
  <2>3. QED
    BY <1>1, <2>1, <2>2 DEF CasesInv
<1>4. QED
  BY <1>2, <1>3

\* The table stores what is called with, and a read returns what is stored.
LEMMA StatementKeepsCases ==
  ASSUME IInv, CasesInv, NEW c \in Conns,
         ListGoldenSets(c) \/ ReadGoldenSet(c) \/ DeleteGoldenSet(c) \/ WriteGoldenSet(c)
  PROVE  CasesInv'
<1>1. PICK answer :
        /\ Return(c, answer)
        /\ answer[1] = "read" /\ answer[2] # Absent => answer[2] \in Seq(AllCases)
  <2>1. CASE ListGoldenSets(c)
    <3>1. \A names : <<"list", names>>[1] # "read"
      OBVIOUS
    <3>2. QED
      BY <2>1, <3>1 DEF ListGoldenSets
  <2>2. CASE ReadGoldenSet(c)
    <3>1. CASE Return(c, <<"read", Absent>>)
      BY <3>1
    <3>2. ASSUME NEW row \in RowsNamed(c), Return(c, <<"read", row.cases>>)
          PROVE  \E answer :
                   /\ Return(c, answer)
                   /\ answer[1] = "read" /\ answer[2] # Absent => answer[2] \in Seq(AllCases)
      BY <3>2 DEF RowsNamed, Rows, CasesInv, RowsRight
    <3>3. QED
      BY <2>2, <3>1, <3>2 DEF ReadGoldenSet
  <2>3. CASE DeleteGoldenSet(c)
    <3>1. \A there : <<"delete", there>>[1] # "read"
      OBVIOUS
    <3>2. QED
      BY <2>3, <3>1 DEF DeleteGoldenSet
  <2>4. CASE WriteGoldenSet(c)
    BY <2>4 DEF WriteGoldenSet
  <2>5. QED
    BY <2>1, <2>2, <2>3, <2>4
<1>2. UNCHANGED <<sources, draft>>
  BY DEF ListGoldenSets, ReadGoldenSet, DeleteGoldenSet, WriteGoldenSet, author
<1>3. SourcesRight' /\ DraftRight'
  BY <1>2 DEF CasesInv, SourcesRight, DraftRight
<1>4. RowsRight'
  <2>1. CASE golden_sets' \subseteq golden_sets
    BY <2>1 DEF CasesInv, RowsRight
  <2>2. CASE WriteGoldenSet(c)
    <3>1. calls[c].cases \in Seq(AllCases)
      BY <2>2 DEF WriteGoldenSet, CasesInv, CallsRight
    <3>2. QED
      BY <2>2, <3>1 DEF WriteGoldenSet, Upserted, CasesInv, RowsRight
  <2>3. QED
    BY <2>1, <2>2 DEF ListGoldenSets, ReadGoldenSet, DeleteGoldenSet
<1>5. CallsRight' /\ AnswersRight'
  BY <1>1 DEF Return, CasesInv, CallsRight, AnswersRight, In, IInv, CallsType
<1>6. QED
  BY <1>3, <1>4, <1>5 DEF CasesInv

\* No step breaks it.
LEMMA StepCasesInv ==
  ASSUME IInv, CasesInv, [Next]_vars
  PROVE  CasesInv'
<1>1. CASE UNCHANGED vars
  BY <1>1 DEF vars, CasesInv, SourcesRight, DraftRight, RowsRight, CallsRight, AnswersRight, In
<1>2. CASE Next
  BY <1>2, AuthorKeepsCases, AskKeepsCases, StatementKeepsCases DEF Next, Authors
<1>3. QED
  BY <1>1, <1>2

\* Where a question is asked first, in terms of where it is asked at all.
LEMMA FirstAsked ==
  ASSUME NEW E, NEW all \in Seq(E), NEW c, NEW i \in DOMAIN all, SameQuestion(all[i], c)
  PROVE  /\ FirstAt(all, CaseKey(c)) \in DOMAIN all
         /\ FirstAt(all, CaseKey(c)) <= i
         /\ SameQuestion(all[FirstAt(all, CaseKey(c))], c)
<1> DEFINE I == {j \in 1..Len(all) : CaseKey(all[j]) = CaseKey(c)}
           at == FirstAt(all, CaseKey(c))
<1>1. at = IF I # {} THEN Min(I) ELSE 0
  BY DEF FirstAt, SelectInSeq
<1>2. i \in I
  BY DEF SameQuestion
<1>3. at \in I /\ \A j \in I : at <= j
  <2>1. Len(all) \in Nat /\ I \in SUBSET (1..Len(all))
    OBVIOUS
  <2> HIDE DEF I, at
  <2>2. at = 0 => I = {}
    BY <1>1, <2>1, FirstIndex
  <2>3. at # 0 => at \in I /\ \A j \in I : at <= j
    BY <1>1, <2>1, FirstIndex
  <2>4. QED
    BY <1>2, <2>2, <2>3
<1>4. QED
  BY <1>2, <1>3 DEF SameQuestion

\* A draft of several sources is their merge, which is faithful.
LEMMA MergeFollows == CasesInv => MergeIsFaithful
<1> SUFFICES ASSUME CasesInv, draft # NoDraft, Len(sources) > 1
             PROVE  MergeIsFaithful
  BY DEF MergeIsFaithful
<1>1. PICK all : all = FlattenSeq(sources)
  OBVIOUS
<1>2. all \in Seq(AllCases) /\ DOMAIN all = 1..Len(all)
  <2>1. all \in Seq(AllCases)
    BY <1>1, FlatIsSequence DEF CasesInv, SourcesRight
  <2>2. QED
    BY <2>1
<1>3. ~MergeRejected(sources) /\ draft = MergedCases(sources) /\ draft \in Seq(AllCases)
  <2>1. Len(sources) \in Nat
    BY DEF CasesInv, SourcesRight
  <2>2. ASSUME Len(sources) = 1
        PROVE  FALSE
    <3>1. 1 > 1
      BY <2>2, Zenon
    <3>2. QED
      BY <3>1
  <2>3. QED
    BY <2>2 DEF CasesInv, DraftRight
<1>4. Faithful(all, Len(all), Merging(sources)) /\ Merging(sources).conflicts = <<>>
  BY <1>1, <1>2, <1>3, WhatMergingGives DEF MergeRejected
<1>5. /\ Drawn(all, Len(all), draft) /\ Covering(all, Len(all), draft)
      /\ InOrder(all, Len(all), draft) /\ HumanWins(all, Len(all), draft)
  BY <1>3, <1>4 DEF Faithful, MergedCases
<1>6. \A i \in DOMAIN all : \E k \in DOMAIN draft : SameQuestion(draft[k], all[i])
  BY <1>2, <1>5 DEF Covering
<1>7. \A k \in DOMAIN draft : draft[k] \in ToSet(all)
  BY <1>2, <1>5 DEF Drawn, ToSet
<1>8. \A k \in DOMAIN draft : \A i \in DOMAIN all :
        SameQuestion(draft[k], all[i]) /\ all[i].source = "human" => draft[k] = all[i]
  BY <1>2, <1>5 DEF HumanWins
<1>9. ASSUME NEW k \in DOMAIN draft, NEW l \in DOMAIN draft, k < l
      PROVE  FirstAt(all, CaseKey(draft[k])) < FirstAt(all, CaseKey(draft[l]))
  <2>1. PICK i \in DOMAIN all :
          /\ SameQuestion(all[i], draft[k])
          /\ \A j \in DOMAIN all : SameQuestion(all[j], draft[l]) => i < j
    BY <1>2, <1>5, <1>9 DEF InOrder
  <2>2. FirstAt(all, CaseKey(draft[k])) \in DOMAIN all /\ FirstAt(all, CaseKey(draft[k])) <= i
    BY <1>2, <2>1, FirstAsked
  <2>3. PICK j \in DOMAIN all : SameQuestion(all[j], draft[l])
    BY <1>2, <1>5 DEF Drawn, SameQuestion
  <2>4. /\ FirstAt(all, CaseKey(draft[l])) \in DOMAIN all
        /\ SameQuestion(all[FirstAt(all, CaseKey(draft[l]))], draft[l])
    BY <1>2, <2>3, FirstAsked
  <2>5. i < FirstAt(all, CaseKey(draft[l]))
    BY <2>1, <2>4
  <2>6. QED
    BY <1>2, <2>2, <2>4, <2>5
<1>10. QED
  BY <1>1, <1>6, <1>7, <1>8, <1>9 DEF MergeIsFaithful

(***************************************************************************)
(* A merge asks every question of its sources once and in their order,     *)
(* with a case somebody wrote, a person's where a person wrote one.        *)
(***************************************************************************)
THEOREM MergesAreFaithful == Spec => []MergeIsFaithful
BY InitIInv, StepIInv, InitCasesInv, StepCasesInv, MergeFollows, PTL DEF Spec

\* Two sets without repeated questions give the same outcome in either order.
LEMMA EitherWay ==
  ASSUME NEW E, NEW s \in Seq(E), NEW t \in Seq(E), NoRepeats(s), NoRepeats(t)
  PROVE  SameOutcome(<<s, t>>, <<t, s>>)
<1>1. AsksOnce(s) /\ AsksOnce(t)
  BY DEF NoRepeats, AsksOnce
<1>2. Merging(<<s, t>>).conflicts # <<>> <=> Merging(<<t, s>>).conflicts # <<>>
  <2>1. Merging(<<s, t>>).conflicts # <<>>
          <=> \E i \in DOMAIN s, j \in DOMAIN t : Clash(s[i], t[j])
    BY <1>1, PairConflicts
  <2>2. Merging(<<t, s>>).conflicts # <<>>
          <=> \E j \in DOMAIN t, i \in DOMAIN s : Clash(t[j], s[i])
    BY <1>1, PairConflicts
  <2>3. \A c, d : Clash(c, d) <=> Clash(d, c)
    BY DEF Clash, SameQuestion
  <2>4. QED
    BY <2>1, <2>2, <2>3
<1>3. <<s, t>> # <<>> /\ <<t, s>> # <<>>
  OBVIOUS
<1>4. MergeRejected(<<s, t>>) <=> MergeRejected(<<t, s>>)
  BY <1>2, <1>3 DEF MergeRejected
<1>5. ASSUME ~MergeRejected(<<s, t>>)
      PROVE  ToSet(MergedCases(<<s, t>>)) = ToSet(MergedCases(<<t, s>>))
  <2>1. Merging(<<s, t>>).conflicts = <<>> /\ Merging(<<t, s>>).conflicts = <<>>
    BY <1>2, <1>5 DEF MergeRejected
  <2>2. ToSet(MergedCases(<<s, t>>)) \subseteq ToSet(MergedCases(<<t, s>>))
    BY <1>1, <2>1, PairKeeps
  <2>3. ToSet(MergedCases(<<t, s>>)) \subseteq ToSet(MergedCases(<<s, t>>))
    BY <1>1, <2>1, PairKeeps
  <2>4. QED
    BY <2>2, <2>3
<1>6. QED
  BY <1>4, <1>5 DEF SameOutcome

\* The author's sources are sequences of cases, so the lemma applies.
LEMMA PairsFollow == CasesInv => PairsMergeEitherWay
<1> SUFFICES ASSUME CasesInv, Len(sources) = 2, \A i \in 1..2 : NoRepeats(sources[i])
             PROVE  SameOutcome(sources, Reverse(sources))
  BY DEF PairsMergeEitherWay
<1>1. PICK s, t : s = sources[1] /\ t = sources[2]
  OBVIOUS
<1>2. s \in Seq(AllCases) /\ t \in Seq(AllCases) /\ NoRepeats(s) /\ NoRepeats(t)
  <2>1. PICK lists : lists = Seq(AllCases)
    OBVIOUS
  <2>2. sources \in Seq(lists)
    BY <2>1 DEF CasesInv, SourcesRight
  <2>3. sources[1] \in lists /\ sources[2] \in lists
    BY <2>2
  <2>4. QED
    BY <1>1, <2>1, <2>3
<1>3. sources = <<s, t>> /\ Reverse(sources) = <<t, s>>
  BY <1>1 DEF CasesInv, SourcesRight, Reverse
<1>4. SameOutcome(<<s, t>>, <<t, s>>)
  BY <1>2, EitherWay
<1>5. QED
  BY <1>3, <1>4

(***************************************************************************)
(* Two sets that ask every question once may be handed over in either      *)
(* order: both orders are rejected, for a pair of cases between which the  *)
(* rule does not choose, or both give the same cases.                      *)
(***************************************************************************)
THEOREM PairsMergeAlike == Spec => []PairsMergeEitherWay
BY InitIInv, StepIInv, InitCasesInv, StepCasesInv, PairsFollow, PTL DEF Spec

\* As many ids as cases: no two cases have the same.
LEMMA IdsAreUnique ==
  ASSUME NEW E, NEW cases \in Seq(E), Cardinality(CaseIds(cases)) = Len(cases),
         NEW i \in DOMAIN cases, NEW j \in DOMAIN cases, cases[i].id = cases[j].id
  PROVE  i = j
<1> DEFINE D == DOMAIN cases
           idOf == [k \in D |-> cases[k].id]
<1>1. IsFiniteSet(D) /\ Cardinality(D) = Len(cases)
  <2>1. D = 1..Len(cases) /\ Len(cases) \in Nat
    OBVIOUS
  <2>2. /\ IsFiniteSet(1..Len(cases))
        /\ Cardinality(1..Len(cases)) = IF 1 > Len(cases) THEN 0 ELSE Len(cases) - 1 + 1
    BY <2>1, FS_Interval
  <2>3. QED
    BY <2>1, <2>2
<1>2. idOf \in Surjection(D, CaseIds(cases))
  BY DEF Surjection, CaseIds
<1>3. idOf \in Injection(D, CaseIds(cases))
  <2> HIDE DEF idOf, D
  <2>1. QED
    BY <1>1, <1>2, FS_Surjection
<1>4. QED
  BY <1>3 DEF Injection, IsInjective

\* Ids map one to one to cases, so counting either, or looking for a word, is the same.
LEMMA OnlyLabelled ==
  ASSUME NEW E, NEW cases \in Seq(E), Cardinality(CaseIds(cases)) = Len(cases),
         NEW labelled, labelled = Labelled(cases),
         NEW missed, missed = Missed(cases)
  PROVE  /\ Unmeasured(cases) <=> UnknownWord(cases)
         /\ CountedByHand(cases)
<1>0. /\ labelled = {i \in DOMAIN cases : cases[i].label # NoLabel}
      /\ missed = {i \in labelled : cases[i].label # ScorerLabel(cases[i])}
  BY DEF Labelled, Missed
<1>1. ASSUME NEW i \in DOMAIN cases
      PROVE  LastWith(cases, cases[i].id) = cases[i]
  <2> DEFINE I == {j \in 1..Len(cases) : cases[j].id = cases[i].id}
  <2>1. I = {i} /\ i \in Nat
    BY IdsAreUnique
  <2>2. Max(I) = i
    <3> HIDE DEF I
    <3>1. I \in SUBSET Nat /\ i \in I /\ \A y \in I : y <= i
      BY <2>1
    <3>2. QED
      BY <3>1, MaxIsGreatest
  <2>3. SelectLastInSeq(cases, LAMBDA c : c.id = cases[i].id) = i
    BY <2>1, <2>2 DEF SelectLastInSeq
  <2>4. QED
    BY <2>3 DEF LastWith
<1>2. PICK scorer, hand : scorer = ScorerLabels(cases) /\ hand = HandLabels(cases)
  OBVIOUS
<1>3. /\ DOMAIN scorer = CaseIds(cases) /\ DOMAIN hand = CaseIds(cases)
      /\ \A i \in DOMAIN cases : /\ cases[i].id \in CaseIds(cases)
                                 /\ scorer[cases[i].id] = ScorerLabel(cases[i])
                                 /\ hand[cases[i].id] = cases[i].label
  <2>1. \A i \in DOMAIN cases : cases[i].id \in CaseIds(cases)
    BY DEF CaseIds
  <2>2. DOMAIN scorer = CaseIds(cases) /\ DOMAIN hand = CaseIds(cases)
    BY <1>2 DEF ScorerLabels, HandLabels
  <2>3. \A id \in CaseIds(cases) : /\ scorer[id] = ScorerLabel(LastWith(cases, id))
                                   /\ hand[id] = LastWith(cases, id).label
    BY <1>2 DEF ScorerLabels, HandLabels
  <2>4. QED
    BY <1>1, <2>1, <2>2, <2>3
<1>4. Compared(scorer, hand) = {cases[i].id : i \in labelled}
  BY <1>0, <1>3 DEF Compared, CaseIds
<1>5. Differing(scorer, hand) = {cases[i].id : i \in missed}
  <2>1. \A id : id \in Differing(scorer, hand)
                  <=> id \in {cases[i].id : i \in labelled} /\ scorer[id] # hand[id]
    BY <1>4 DEF Differing
  <2>2. \A i \in labelled : scorer[cases[i].id] # hand[cases[i].id] <=> i \in missed
    BY <1>0, <1>3
  <2>3. missed \subseteq labelled
    BY <1>0
  <2>4. QED
    BY <2>1, <2>2, <2>3
<1>6. ASSUME NEW T \in SUBSET DOMAIN cases
      PROVE  IsFiniteSet(T) /\ Cardinality({cases[i].id : i \in T}) = Cardinality(T)
  <2> DEFINE ids == {cases[i].id : i \in T}
             f == [i \in T |-> cases[i].id]
  <2>1. IsFiniteSet(T)
    <3>1. DOMAIN cases = 1..Len(cases) /\ Len(cases) \in Nat
      OBVIOUS
    <3>2. IsFiniteSet(1..Len(cases))
      BY <3>1, FS_Interval
    <3>3. QED
      BY <3>1, <3>2, FS_Subset
  <2>2. f \in Surjection(T, ids)
    BY DEF Surjection
  <2>3. f \in Injection(T, ids)
    <3>1. \A i, j \in T : f[i] = f[j] => i = j
      BY IdsAreUnique
    <3>2. QED
      BY <3>1 DEF Injection, IsInjective
  <2> HIDE DEF f, ids
  <2>4. Cardinality(ids) = Cardinality(T)
    BY <2>1, <2>2, <2>3, FS_Surjection
  <2>5. QED
    BY <2>1, <2>4 DEF ids
<1>7. /\ Cardinality(Compared(scorer, hand)) = Cardinality(labelled)
      /\ Cardinality(Differing(scorer, hand)) = Cardinality(missed)
      /\ IsFiniteSet(labelled)
  BY <1>0, <1>4, <1>5, <1>6
<1>8. Cardinality(labelled \ missed) = Cardinality(labelled) - Cardinality(missed)
  <2>1. labelled \cap missed = missed
    BY <1>0
  <2>2. Cardinality(labelled \ missed)
          = Cardinality(labelled) - Cardinality(labelled \cap missed)
    BY <1>7, FS_Difference
  <2>3. QED
    BY <2>1, <2>2
<1>9. CountedByHand(cases)
  BY <1>2, <1>5, <1>7, <1>8 DEF CountedByHand, Measured, AgreementOf
<1>10. Unmeasured(cases) <=> UnknownWord(cases)
  <2>1. DOMAIN hand \subseteq DOMAIN scorer
    BY <1>3
  <2>2. \A i \in DOMAIN cases : scorer[cases[i].id] \in Vocabulary
    BY <1>3 DEF ScorerLabel, Vocabulary
  <2>3. (\E id \in Compared(scorer, hand) : ~({hand[id], scorer[id]} \subseteq Vocabulary))
          <=> \E i \in labelled : cases[i].label \notin Vocabulary
    BY <1>0, <1>3, <1>4, <2>2
  <2>4. QED
    BY <1>2, <2>1, <2>3 DEF Unmeasured, UnknownWord, AgreementRejected
<1>11. QED
  BY <1>9, <1>10

\* What was read is a sequence of cases somebody wrote.
LEMMA LabelsFollow == CasesInv => OnlyHandLabelsCount
<1> SUFFICES ASSUME CasesInv, NEW c \in Conns, answers[c][1] = "read", answers[c][2] # Absent,
                    NEW cases, cases = answers[c][2], Cardinality(CaseIds(cases)) = Len(cases)
             PROVE  /\ Unmeasured(cases) <=> UnknownWord(cases)
                    /\ CountedByHand(cases)
  BY DEF OnlyHandLabelsCount
<1>1. cases \in Seq(AllCases)
  BY DEF CasesInv, AnswersRight
<1>2. QED
  BY <1>1, OnlyLabelled

(***************************************************************************)
(* The agreement of a set whose ids are unique is counted over the cases a *)
(* person labelled, and over no others; it is refused for an unknown word  *)
(* among the labels, and for nothing else.                                 *)
(***************************************************************************)
THEOREM AgreementCountsLabels == Spec => []OnlyHandLabelsCount
BY InitIInv, StepIInv, InitCasesInv, StepCasesInv, LabelsFollow, PTL DEF Spec
=============================================================================
