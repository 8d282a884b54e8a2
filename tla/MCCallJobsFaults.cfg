SPECIFICATION Spec
CONSTANTS
  Contacts = {c1}
  Jobs = {1, 2}
  Workers = {w1, w2}
  None = none
  MaxDailyRetries = 1
  CallLimit = 1
  EnvBound = 1
  Faults = {"request", "crash", "stall"}
SYMMETRY Slots
INVARIANTS
  TypeOK
  LimboOnlyWhenDropped
  DailyCapWhenAlone
