CONSTANTS
  N = 1
  Edges <- NoEdges
  Join <- AllJoins
  Guard <- NoGuards
  Group <- NoGroups
  Policy <- RetryOnce
  MaxParallel = 1
  Unattended = TRUE
  Endings = {"succeeded", "transient", "repairable", "interrupted", "unsafe", "fatal"}
  Commands = {"pause_run", "resume_run", "cancel_run", "raise_budget", "pause", "resume", "retry", "skip", "fail", "cancel", "approve", "reject"}
  Kinds = {"lease", "budget"}
  MaxOps = 6
  MaxFaults = 2
SPECIFICATION Spec
INVARIANTS
  TypeOK
  NoStrayFrame
  NoOrphanAttempt
  DecidedIsDecided
PROPERTIES
  RetryModeKept
  FinalizedByItsOwn
  PausedStartsNothing
  LegalMoves
  KeepsPromise
CHECK_DEADLOCK FALSE
