CONSTANTS
  p1 = p1
  p2 = p2
  p3 = p3
  r1 = r1
  NoProc = NoProc
  Proc <- Boots
  Run <- OneRun
  MaxEpoch = 4
  MaxStalls = 1
SPECIFICATION FairSpec
INVARIANTS
  TypeOK
  OneWriter
  OverIsFinal
PROPERTIES
  WritesInOrder
  TakenOver
CHECK_DEADLOCK FALSE
