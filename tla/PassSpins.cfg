CONSTANTS
  N = 2
  Edges <- Pair
  Join <- PairJoins
  Guard <- Open
  As <- NoSkips
  Awaits = {2}
  Found = {"pending", "completed"}
SPECIFICATION FairSpec
PROPERTIES
  PassEnds
CHECK_DEADLOCK FALSE
