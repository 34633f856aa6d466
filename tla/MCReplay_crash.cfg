SPECIFICATION Spec
CONSTANTS
  aList = aList
  aTuple = aTuple
  other = other
  anObject = anObject
  NoJson = NoJson
  NotLoaded = NotLoaded
  NoWrite = NoWrite
  Prompts = {p1}
  Responses = {r1, r2}
  KeywordArgs = {aList, aTuple, other, anObject}
  Json <- MCJson
  Tasks = {t1, t2}
  Players = {x1}
  MaxCalls = 3
INVARIANT
  CrashKeepsRecordings
