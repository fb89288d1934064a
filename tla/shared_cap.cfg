CONSTANTS
  Issues = {1, 2}
  NRepos = 2
  RepoOf <- TwoRepos
  Cap = 1
  PerTarget = 1
  Surprises = {"answer", "crash", "throws", "interrupted", "close"}
  MaxSurprises = 1

SPECIFICATION Spec

INVARIANTS
  StillIdle

PROPERTIES
  PoolSpec
