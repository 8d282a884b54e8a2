SPECIFICATION Spec
CONSTANTS
  Leads = {l1}
  Engine = "legacy"
  MaxIds = 2
  MaxCalls = 1
  MaxJobs = 1
  MaxFaults = 1
INVARIANTS
  OptOutRespected
  DataErased
  NoneForgotten
CHECK_DEADLOCK FALSE
