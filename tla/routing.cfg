CONSTANTS
  Logins <- LoginOrder
  WindowTypes = {"five_hour", "seven_day"}
  Signals <- SignalSet
  RotateEvery = 1
  DefaultRest = 1
  Types = {"impl", "review"}
  NeedTools = {"impl"}
  Capable = {"claude", "zai"}
  Configured = {"claude", "zai"}
  Drafts <- DraftSet
  TierRoutes <- TierTables
  MaxSignals = 2
  MaxConfigEdits = 1
  WriteFaults = {"refused", "torn"}

SPECIFICATION RoutingSpec
CHECK_DEADLOCK FALSE
INVARIANTS DispatchHolds EditsLast
PROPERTIES GateOpens
