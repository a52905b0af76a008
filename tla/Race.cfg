CONSTANTS
  N = 4
  Edges <- Race
  Join <- RaceJoins
  Guard <- NoGuards
  Group <- RacersGroup
  Policy <- NoRetry
  MaxParallel = 2
  Unattended = FALSE
  Endings = {"succeeded", "fatal"}
  Commands = {"skip", "cancel", "pause", "resume", "approve"}
  Kinds = {}
  MaxOps = 3
  MaxFaults = 0
SPECIFICATION Spec
INVARIANTS
  LosersEnded
  DecidedIsDecided
  SessionExclusive
CHECK_DEADLOCK FALSE
