SPECIFICATION FairSpec
CONSTANTS
  MaxRuns = 2
  MaxFaults = 2
INVARIANTS
  OutcomesAgree
  EndsExplained
PROPERTY JobSettles
CHECK_DEADLOCK FALSE
