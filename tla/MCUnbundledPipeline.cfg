SPECIFICATION Spec
CONSTANTS
  MaxTurns = 3
  MaxRounds = 2
  Window = 1
  BargeLimit = 1
  MaxTools = 1
  MaxFaults = 1
  Faults = {"stt", "tts", "llm", "prompt", "rejection"}
INVARIANTS
  OneVoice
  TextInOrder
  ModesSafe
  ClosedIsReleased
PROPERTIES
  CallBounded
CHECK_DEADLOCK FALSE
