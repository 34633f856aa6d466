---------------------------- MODULE MCEvalService ----------------------------
(***************************************************************************)
(* Two tenants that use the same recipes, and instances that sweep for     *)
(* every tenant when they start.  Jobs, recipes and tenants are            *)
(* interchangeable, which only the safety run uses.                        *)
(***************************************************************************)
EXTENDS EvalService, TLC

CONSTANTS ta, tb

BothTenants == {ta, tb}
OneTenant == {ta}
Interchangeable ==
  Permutations(JobIds) \cup Permutations(Recipes) \cup Permutations(BothTenants)
=============================================================================
