CONSTANTS
  N = 6
  Edges <- Races
  Join <- Racing
  Guard <- Guards
  As <- SkipsCount
  Awaits = {6}
  Found = {"pending", "ready", "completed", "failed", "skipped", "cancelled"}
SPECIFICATION FairSpec
INVARIANTS
  Resolved
PROPERTIES
  EndsUnlessRead
CHECK_DEADLOCK FALSE
