SPECIFICATION FairSpec
CONSTANTS
  ta = ta
  tb = tb
  Unset = Unset
  NoVersion = NoVersion
  Tenants <- OneTenant
  SweepSessions <- OneTenant
  JobIds = {j1, j2}
  Recipes = {r1}
  StaleAfter = 1
  RestartDelay = 2
  Total = 1
  MaxTime = 4
  MaxVersion = 0
PROPERTIES
  EveryJobEnds
CHECK_DEADLOCK FALSE
