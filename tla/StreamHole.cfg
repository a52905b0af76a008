CONSTANTS
  a = a
  b = b
  d1 = d1
  d2 = d2
  item = item
  Client = {a}
  FromZero = {}
  Bridge = {}
  Event <- Events
  Delta <- DeltasOf
  MaxEmits = 4
  MaxFails = 0
  MaxCrashes = 0
  MaxPending = 2
  ReplayLimit = 2
  MaxQueue = 1
  MaxConnects = 2
  MaxSweeps = 0
SPECIFICATION Spec
INVARIANTS
  NoSilentHole
CHECK_DEADLOCK FALSE
