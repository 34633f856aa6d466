SPECIFICATION Spec
CONSTANTS
  ta = ta
  tb = tb
  ua = ua
  ub = ub
  public = public
  hr = hr
  k1 = k1
  k2 = k2
  NoTenant = NoTenant
  Missing = Missing
  Unit = 2
  TenantIds <- MCTenantIds
  Requests <- MCRequests
  CaseRuns <- MCCaseRuns
INVARIANT
  OutcomeNeverContradicts
CHECK_DEADLOCK FALSE
