SPECIFICATION FairSpec
CONSTANTS
  Tasks = {t1, t2, t3}
  NoTask = NoTask
  Cases = {c1}
  Expecteds = {e1}
  Actuals = {a1}
  cacheFile = cacheFile
  capFile = capFile
  CacheFiles = {cacheFile}
  CapFiles = {capFile}
  PathsOf <- OnePair
  Cap = 1
  MaxDay = 1
  MaxFaults = 1
PROPERTY
  EveryCallReturns
