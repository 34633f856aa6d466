----------------------------- MODULE GoldenMerge -----------------------------
(***************************************************************************)
(* merge_golden_sets: several golden sets, generated and written by hand,  *)
(* become one.  Two cases with one key are one question; a human's case    *)
(* wins over a generated one, and any other pair is left to a person.      *)
(***************************************************************************)
EXTENDS Naturals, SequencesExt

CONSTANT Normal    \* normalize_query: the normal form of each query

\* Roles are a set: a question asked with other roles is another case.
CaseKey(c) == <<c.tenant, Normal[c.query], c.roles>>

SameQuestion(c, d) == CaseKey(c) = CaseKey(d)

M_Beats(c, d) == {c.source, d.source} = {"ai", "human"}
\* _thang, as the relation "the rule picks c over d".
Beats(c, d) == c.source = "human" /\ d.source = "ai"

\* Where the case with c's key is in what is kept; 0 if there is none.
Held(kept, c) == SelectInSeq(kept, LAMBDA d : SameQuestion(c, d))

M_Meet(acc, c) ==
  LET at == Held(acc.kept, c)
  IN  CASE at = 0 -> [acc EXCEPT !.kept = Append(@, c)]
        [] at # 0 /\ Beats(c, acc.kept[at]) -> [acc EXCEPT !.kept = Append(RemoveAt(@, at), c)]
        [] OTHER -> acc
\* One turn of the loop: a conflict is noted, and the case first met stays.
Meet(acc, c) ==
  LET at == Held(acc.kept, c)
  IN  CASE at = 0 -> [acc EXCEPT !.kept = Append(@, c)]
        [] at # 0 /\ Beats(c, acc.kept[at]) -> [acc EXCEPT !.kept[at] = c]
        [] at # 0 /\ Beats(acc.kept[at], c) -> acc
        [] OTHER -> [acc EXCEPT !.conflicts = Append(@, <<acc.kept[at].id, c.id>>)]

Merging(sets) == FoldLeft(Meet, [kept |-> <<>>, conflicts |-> <<>>], FlattenSeq(sets))

\* ValueError on no set, GoldenSetMergeConflict with every conflict.
MergeRejected(sets) == sets = <<>> \/ Merging(sets).conflicts # <<>>

MergedCases(sets) == Merging(sets).kept
=============================================================================
