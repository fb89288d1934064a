CONSTANTS
  Threads = {"a", "h"}
  MaxHead = 2
  MaxPolls = 3
  ObservePolls = 2
  FixBudget = 2
  Dispositions = TRUE
  GateFaults = {"rate-limited", "unreadable", "cut", "again", "reopens", "pushes"}
  MaxGateFaults = 2
  Kinds = {"impl", "review", "fix", "master"}
  MaxFrames = 2
  ParseTries = 3
  Callers = {"build", "merge"}
  MaxBase = 2
  GitFaults = {"touched", "refused", "offline"}
  Issues = {1, 2}
  MaxClaimFailures = 2
  CloneFaults = {"crash", "read", "network", "label", "remove", "person"}
  MaxCloneFaults = 3
  Phases = {1, 2}
  MaxFixes = 2
  Calls = {"bash"}
  MaxLog = 6
  Nodes = {"root", "epic", "x", "y"}
  Root = "root"
  Workers = {"x", "y"}
  CharBudget = 5
  MaxPerNode = 2
  MaxAttempts = 1
  MaxComments = 3
  LedgerFaults = {"crash", "twice", "unreadable", "spoilt"}
  MaxLedgerFaults = 2
  ThreadPage = 1
  MaxThreadPages = 2
  CommentPage = 1
  MaxCommentPages = 1
  MaxThreads = 3
  MaxSize = 3
  Retries = 1
  Labels = {"a", "b", "c"}
  Names = {"build", "test"}
  MaxRuns = 3

SPECIFICATION Spec

CHECK_DEADLOCK FALSE

INVARIANTS
  
  
  
  ViewIsTrue
  
  OneRecordPerRuling
  


  
