SPECIFICATION FairSpec
CONSTANTS
  Contacts = {c1}
  Jobs = {1, 2, 3}
  Workers = {w1, w2}
  None = none
  MaxDailyRetries = 1
  CallLimit = 1
  EnvBound = 1
  Faults = {"crash"}
INVARIANTS
  OneCallPerContact
PROPERTY JobsEnd
