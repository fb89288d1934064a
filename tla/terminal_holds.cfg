CONSTANTS
  Issues = {1}
  NRepos = 1
  RepoOf <- OneRepo
  Cap = 1
  PerTarget = 1
  Surprises = {"answer"}
  MaxSurprises = 1

SPECIFICATION Spec

PROPERTIES
  TerminalHolds
