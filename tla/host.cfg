CONSTANTS
  Pids = {1, 2, 3}
  MaxCommit = 2
  Builds = {0, 2}
  Healthy = {0}
  HostFaults = {"manual", "crash", "throws", "build", "rollback", "supervisor", "web drain", "drain", "stop", "unkillable"}
  MaxHostFaults = 2

SPECIFICATION HostSpec

CHECK_DEADLOCK FALSE

INVARIANTS
  HostHolds

PROPERTIES
  Recovers
  StopEnds
