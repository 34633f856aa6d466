SPECIFICATION Spec
SYMMETRY Interchangeable
CONSTANTS
  ta = ta
  tb = tb
  staff = staff
  hr = hr
  leave = leave
  leaveTyped = leaveTyped
  pay = pay
  v1 = v1
  draftRef = draftRef
  k1 = k1
  Unset = Unset
  NoTenant = NoTenant
  NoLabel = NoLabel
  NoCall = NoCall
  NoDraft = NoDraft
  Absent = Absent
  Tenants = {ta, tb}
  Refs = {v1}
  Normal <- MCNormal
  Files <- MCFiles
  Conns = {c1, c2}
  MaxSources = 2
INVARIANTS
  TypeOK
  MergeIsFaithful
  PairsMergeEitherWay
  OnlyHandLabelsCount
PROPERTIES
  IsCatalogue
