CONSTANTS
  Issues = {"issue"}
  Transcripts = {"talk"}
  Writers = {"a", "b", "c"}
  Stream <- MCStream
  Size <- MCSize
  Tails = {"web"}
  BatchSize = 2
  MaxTotal = 0
  MaxPrunes = 1
  LogFaults = {"write", "consumer", "disconnect", "crash"}
  MaxLogFaults = 1
SPECIFICATION LogSpec
INVARIANTS
  AppendKept
  
  PruneIsMarked

PROPERTIES
  TailHolds
CHECK_DEADLOCK FALSE
