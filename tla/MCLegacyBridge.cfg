SPECIFICATION Spec
CONSTANTS
  MaxReconnects = 2
  MaxTools = 2
  MaxQueue = 4
INVARIANTS
  GatesAgree
  TailFlushed
  SessionsSafe
  ToolAnswerHome
CHECK_DEADLOCK FALSE
