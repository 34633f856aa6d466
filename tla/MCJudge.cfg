SPECIFICATION Spec
CONSTANTS
  Tasks = {t1, t2, t3}
  NoTask = NoTask
  Cases = {c1}
  Expecteds = {e1}
  Actuals = {a1, a2}
  cacheFile = cacheFile
  capFile = capFile
  CacheFiles = {cacheFile}
  CapFiles = {capFile}
  PathsOf <- OnePair
  Cap = 2
  MaxDay = 2
  MaxFaults = 2
INVARIANTS
  TypeOK
  NothingGradedTwice
  VerdictOfSameAnswer
PROPERTIES
  QuotaKept
  NoVerdictLost
  TornCounterStaysTorn
