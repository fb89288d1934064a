CONSTANTS
  MaxFixAttempts = 1
  MaxContainerRetries = 1
  MaxRebaseRounds = 1
  Siblings = {"near", "clash", "same"}
  MaxBase = 2
  MaxWork = 2
  MaxReturns = 1
  Faults = {"fetch", "network", "container", "limited", "hosted", "pushes", "rewrites", "crash"}
  MaxFaults = 1

SPECIFICATION FairSpec

INVARIANTS
  NoWipe
  DriftJudged

PROPERTIES
  NoClobber
  SessionEnds

CHECK_DEADLOCK FALSE
