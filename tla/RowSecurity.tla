---------------------------- MODULE RowSecurity ----------------------------
(***************************************************************************)
(* The tenant policy PostgreSQL forces on eval.eval_jobs, eval.scorecards  *)
(* and eval.golden_sets.  No statement of the stores filters by tenant.    *)
(***************************************************************************)
CONSTANTS Tenants,   \* tenant_id values
          Unset      \* a session in which app.tenant_id was never set

Sessions == Tenants \cup {Unset}

M_Visible(session, tenant) == TRUE
\* USING and WITH CHECK alike; NULL equals nothing, so an unset session sees no row.
Visible(session, tenant) == session # Unset /\ tenant = session
=============================================================================
