CONSTANTS
  w1 = w1
  i1 = i1
  p1 = p1
  m1 = m1
  m2 = m2
  chat1 = chat1
  mnt = mnt
  mnt2 = mnt2
  Global = Global
  Provider = Provider
  Mount = {mnt, mnt2}
  Holder <- OwnersOf
  Request <- RequestsOf
  Flow = {Global, Provider}
  Caller <- CallersOf
  Limits <- Either
  Stages = {w1, i1}
  Maps = {m1}
  Chats = {chat1}
  Style <- StyleOf
  Mounts <- Overlapping
  FlowsOf <- Flows
  Kept = {Provider}
  MaxNo = 2
  MaxOps = 1
  MaxCrashes = 1
SPECIFICATION Spec
INVARIANTS
  TypeOK
  Excluded
  NoLeaseWakeupLost
  NoPermitWakeupLost
  PermitsConserved
  LeasesGivenBack
  FirstLaunchExcluded
PROPERTIES
  NeverOverLimit
CHECK_DEADLOCK FALSE
