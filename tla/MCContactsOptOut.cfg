SPECIFICATION Spec
CONSTANTS
  Leads = {l1}
  Engine = "saas"
  MaxIds = 1
  MaxCalls = 2
  MaxJobs = 1
  MaxFaults = 0
INVARIANTS
  OptOutPermanent
CHECK_DEADLOCK FALSE
