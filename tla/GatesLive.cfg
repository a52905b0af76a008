CONSTANTS
  w1 = w1
  i1 = i1
  p1 = p1
  m1 = m1
  m2 = m2
  chat1 = chat1
  mnt = mnt
  mnt2 = mnt2
  Global = Global
  Provider = Provider
  Mount = {mnt, mnt2}
  Holder <- OwnersOf
  Request <- RequestsOf
  Flow = {Global, Provider}
  Caller <- CallersOf
  Limits <- One
  Stages = {i1, p1}
  Maps = {m1, m2}
  Chats = {}
  Style <- StyleOf
  Mounts <- Overlapping
  FlowsOf <- Flows
  Kept = {}
  MaxNo = 1
  MaxOps = 0
  MaxCrashes = 1
SPECIFICATION FairSpec
PROPERTIES
  SnapshotServed
  MapMergeServed
  MergeServed
CHECK_DEADLOCK FALSE
