CONSTANTS
  Phases = {"impl"}
  Signatures = {"tests", "adrift"}
  PhaseOf <- OnePhase
  Headlines = {"which"}
  Island = "adrift"
  Faults = {"dies", "defers", "strands", "commentFails"}
  MaxFaults = 2

SPECIFICATION FairSpec

CHECK_DEADLOCK FALSE

INVARIANTS
  NoRepeat
  RulingCurrent

PROPERTIES
  MasterServes
