CONSTANTS
  a = a
  b = b
  d1 = d1
  d2 = d2
  item = item
  Client = {a, b}
  FromZero = {}
  Bridge = {d1, d2, item}
  Event <- Events
  Delta <- DeltasOf
  MaxEmits = 1
  MaxFails = 0
  MaxCrashes = 0
  MaxPending = 2
  ReplayLimit = 2
  MaxQueue = 1
  MaxConnects = 2
  MaxSweeps = 1
SYMMETRY Alike
SPECIFICATION Spec
INVARIANTS
  TypeOK
  HolesTold
PROPERTIES
  InOrder
CHECK_DEADLOCK FALSE
