SPECIFICATION FairSpec
CONSTANTS
  Directions = {"outbound", "inbound"}
  Faults = {"request"}
INVARIANTS TypeOK SpeaksAfterAnswer AnswerKept EndLeavesNothing ReportMatchesRow
PROPERTIES CallEnds
CHECK_DEADLOCK FALSE
