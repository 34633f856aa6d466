SPECIFICATION Spec
CONSTANTS
  ta = ta
  tb = tb
  ua = ua
  ub = ub
  public = public
  hr = hr
  ka = ka
  kb = kb
  loose = loose
  r1 = r1
  r2 = r2
  NoTenant = NoTenant
  Missing = Missing
  NoCost = NoCost
  UnknownCase = UnknownCase
  Unit = 1
  TenantIds <- MCTenantIds
  SlugOf <- MCSlugOf
  RunIds = {r1, r2}
  Scripts <- MCScripts
  Reports <- MCReports
INVARIANTS
  TypeOK
  ReportsTheWholeRun
  OlderPathNeverAccuses
  ReportIsOfOneReading
  CostIsOfTheWholeRun
PROPERTIES
  ListsAreWhole
CHECK_DEADLOCK FALSE
