SPECIFICATION Spec
SYMMETRY Interchangeable
CONSTANTS
  ta = ta
  tb = tb
  Unset = Unset
  NoVersion = NoVersion
  Tenants <- BothTenants
  SweepSessions <- BothTenants
  JobIds = {j1, j2}
  Recipes = {r1, r2}
  StaleAfter = 1
  RestartDelay = 2
  Total = 2
  MaxTime = 4
  MaxVersion = 2
INVARIANTS
  TypeOK
  OnePending
  DoneHasScore
  NoScoreOutlivesItsDocuments
  CertificateIsEarned
PROPERTIES
  EndedStaysEnded
  CertificatesStand
  SweepSparesTheLiving
CHECK_DEADLOCK FALSE
