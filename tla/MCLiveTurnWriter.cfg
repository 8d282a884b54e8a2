SPECIFICATION FairSpec
CONSTANTS
  Calls = {a, b}
  NoCall = NoCall
  MaxTurns = 2
  DrainMax = 1
  OverflowThreshold = 2
  CriticalThreshold = 3
  SpillSize = 1
  Faults = {"insert", "disk"}
INVARIANTS WriterTypeOK OrderKept
PROPERTIES KeepsPromise TurnsLand
CHECK_DEADLOCK FALSE
