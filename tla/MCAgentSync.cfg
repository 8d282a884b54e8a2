SPECIFICATION Spec
CONSTANTS
  Agents = {a1, a2}
  None = None
  Jobs = {stable, plain}
  Stable = stable
  Partial = Partial
  MaxContent = 2
  Faults = {"http", "db", "crash"}
INVARIANTS AgentsSafe ReadyIsPushed ProvisioningExplained
SYMMETRY Symmetry
CHECK_DEADLOCK FALSE
