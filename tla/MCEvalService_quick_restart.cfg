SPECIFICATION FairSpec
CONSTANTS
  ta = ta
  tb = tb
  Unset = Unset
  NoVersion = NoVersion
  Tenants <- OneTenant
  SweepSessions <- OneTenant
  JobIds = {j1}
  Recipes = {r1}
  StaleAfter = 2
  RestartDelay = 1
  Total = 1
  MaxTime = 4
  MaxVersion = 0
PROPERTIES
  EveryJobEnds
CHECK_DEADLOCK FALSE
