CONSTANTS
  Issues = {1}
  NRepos = 1
  RepoOf <- OneRepo
  Cap = 1
  PerTarget = 1
  Surprises = {"attachFails", "limited", "prReadFails", "resumeDefers",
               "integrateDefers", "throws", "interrupted", "escalateFails",
               "readFails", "masterDefers", "gateShut", "ciPending",
               "claimFails", "crash", "answer", "close", "reopen", "relabel",
               "strand", "mergePR", "closePR"}
  MaxSurprises = 2

SPECIFICATION FairSpec

PROPERTIES
  NothingRests
  AnswersTaken
  NothingHeld
