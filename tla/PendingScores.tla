--------------------------- MODULE PendingScores ---------------------------
(***************************************************************************)
(* eval.scorecards: a row with a version certifies a published recipe, one *)
(* without (NoVersion, SQL NULL) is the pending score of an evaluation.    *)
(***************************************************************************)
EXTENDS Naturals, RowSecurity

CONSTANT NoVersion

VARIABLE scorecards    \* the table: [tenant, recipe, version, verdict, ...]

IsPending(row) == row.version = NoVersion

M_Upserted(row) == scorecards \cup {row}
\* ON CONFLICT on the partial unique index: the row of the last evaluation replaces.
Upserted(row) ==
  {r \in scorecards : ~(IsPending(r) /\ r.tenant = row.tenant /\ r.recipe = row.recipe)}
  \cup {row}

WritePendingScorecard(session, row) == /\ Visible(session, row.tenant)
                                       /\ scorecards' = Upserted(row)

M_PendingRows(session, recipe) ==
  {r \in scorecards : IsPending(r) /\ Visible(session, r.tenant)}
\* read_pending_scorecard finds one of these; none is None.
PendingRows(session, recipe) ==
  {r \in scorecards : IsPending(r) /\ Visible(session, r.tenant) /\ r.recipe = recipe}

M_Dropped(session) == {r \in scorecards : Visible(session, r.tenant)}
M_DroppedPassed(session) ==
  {r \in scorecards : IsPending(r) /\ Visible(session, r.tenant) /\ r.verdict = "PASS"}
Dropped(session) == {r \in scorecards : IsPending(r) /\ Visible(session, r.tenant)}

DropPendingScorecards(session) == scorecards' = scorecards \ Dropped(session)
=============================================================================
