CONSTANTS
  Backlog = {1, 2, 3}
  Created <- Age
  Blockers <- Needs
  Priorities <- Priority
  Starts <- StartSets
  Foreign = {3}
  Cap = 1
  MaxEdits = 1
  MaxFaults = 1
  Targets = {"a", "b"}
  Branches = {"ralph/1"}
  Keys = {"k1", "k2"}
  MaxDispatches = 2
  MaxMishaps = 2
  Paged = {1, 2}
  BatchSize = 3
  MaxLog = 4
  StallAfter = 1

SPECIFICATION Spec

CHECK_DEADLOCK FALSE


  

PROPERTIES
  
  
  SweepSpares
  
