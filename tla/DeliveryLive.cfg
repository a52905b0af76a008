CONSTANTS
  a = a
  b = b
  d1 = d1
  d2 = d2
  item = item
  Client = {a}
  FromZero = {a}
  Bridge = {item}
  Event <- Events
  Delta <- DeltasOf
  MaxEmits = 2
  MaxFails = 1
  MaxCrashes = 1
  MaxPending = 1
  ReplayLimit = 2
  MaxQueue = 1
  MaxConnects = 1
  MaxSweeps = 0
SPECIFICATION FairSpec
PROPERTIES
  InRunOrder
  AllDispatched
CHECK_DEADLOCK FALSE
