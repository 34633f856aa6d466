------------------------------ MODULE Agreement ------------------------------
(***************************************************************************)
(* agreement and nhan_tu_golden_set: how often the label the scorer would  *)
(* give a case is the one a person gave it.  The rate is the pair of its   *)
(* numerator and denominator; a denominator of 0 is "not measured".        *)
(***************************************************************************)
EXTENDS GoldenCases, Naturals, SequencesExt

CONSTANT NoLabel    \* manual_label = None: nobody has labelled the case yet

Vocabulary == {"pass", "refuse"}

CaseIds(cases) == {cases[i].id : i \in DOMAIN cases}

\* A dict built from the cases keeps the last one of each id.
LastWith(cases, id) == cases[SelectLastInSeq(cases, LAMBDA c : c.id = id)]

ScorerLabel(c) == IF ExpectsRefusal(c) THEN "refuse" ELSE "pass"
ScorerLabels(cases) == [id \in CaseIds(cases) |-> ScorerLabel(LastWith(cases, id))]

M_HandLabels(cases) ==
  [id \in CaseIds(cases) |-> LET c == LastWith(cases, id)
                             IN  IF c.label = NoLabel THEN ScorerLabel(c) ELSE c.label]
\* A missing label is passed on as missing, never guessed.
HandLabels(cases) == [id \in CaseIds(cases) |-> LastWith(cases, id).label]

Compared(scorer, hand) ==
  {id \in DOMAIN scorer \cap DOMAIN hand : hand[id] # NoLabel}

M_AgreementRejected(scorer, hand) == ~(DOMAIN hand \subseteq DOMAIN scorer)
\* ValueError: hand labels for cases the scorer does not know, or unknown words.
AgreementRejected(scorer, hand) ==
  \/ ~(DOMAIN hand \subseteq DOMAIN scorer)
  \/ \E id \in Compared(scorer, hand) : ~({hand[id], scorer[id]} \subseteq Vocabulary)

\* lech, a set: the code sorts it to print it.
Differing(scorer, hand) == {id \in Compared(scorer, hand) : scorer[id] # hand[id]}

AgreementOf(scorer, hand) ==
  LET n == Cardinality(Compared(scorer, hand))
  IN  [agreed |-> n - Cardinality(Differing(scorer, hand)), compared |-> n,
       differing |-> Differing(scorer, hand)]
=============================================================================
