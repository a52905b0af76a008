CONSTANTS
  N = 2
  Edges <- Chain
  Join <- AllJoins
  Guard <- NoGuards
  Group <- NoGroups
  Policy <- RetryOnce
  MaxParallel = 1
  Unattended = FALSE
  Endings = {"succeeded", "transient"}
  Commands = {"pause_run", "resume_run", "cancel_run", "pause", "resume", "approve", "reject"}
  Kinds = {"lease", "crash"}
  MaxOps = 3
  MaxFaults = 2
SPECIFICATION FairSpec
INVARIANTS
  NoStrayFrame
  NoOrphanAttempt
PROPERTIES
  StageMoves
  DecidedEnds
  CancelEnds
CHECK_DEADLOCK FALSE
