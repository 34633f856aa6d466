----------------------------- MODULE GoldenCases -----------------------------
(***************************************************************************)
(* What a golden case says of itself.  A case is a record with the fields  *)
(* the module at hand reads: id, query, tenant (of the asker), roles (of   *)
(* the asker), expTenant and expRole (where the answer lies), cites        *)
(* (expected_citation), label (manual_label), source and declared          *)
(* (is_critical).                                                          *)
(***************************************************************************)
EXTENDS FiniteSets

CONSTANT NoTenant    \* expected_tenant = None: no tenant holds the answer

\* The right behaviour is to refuse: another tenant's data, or a role not held.
ExpectsRefusal(c) == c.expTenant # c.tenant \/ c.expRole \notin c.roles

\* What a list shows of a set, counted in SQL: a trap is a case that cites nothing.
Summary(cases) ==
  LET Count(Test(_)) == Cardinality({i \in DOMAIN cases : Test(cases[i])})
  IN  [all |-> Cardinality(DOMAIN cases),
       ai |-> Count(LAMBDA c : c.source = "ai"),
       human |-> Count(LAMBDA c : c.source = "human"),
       traps |-> Count(LAMBDA c : c.cites = {})]
=============================================================================
