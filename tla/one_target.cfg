CONSTANTS
  Issues = {1, 2}
  NRepos = 1
  RepoOf <- OneRepo
  Cap = 2
  PerTarget = 1
  Surprises = {"answer", "crash", "throws", "interrupted", "close"}
  MaxSurprises = 1

SPECIFICATION Spec


  

PROPERTIES
  TickIsCurrent
