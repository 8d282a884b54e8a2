SPECIFICATION Spec
CONSTANTS
  Transcriptions = {1, 2}
  Audios = {3, 4}
  None = None
  MaxFaults = 1
INVARIANTS RowSafe AudioKept
PROPERTIES RecordsKept EveryCallEnds
CHECK_DEADLOCK FALSE
