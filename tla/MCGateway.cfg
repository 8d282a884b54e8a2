CONSTANTS
  o1 = o1
  i1 = i1
  None = None
  Out <- OutCalls
  In <- InCalls
  Shows <- SameNumber
  Connects <- OutCalls
  EndEvents = 1
  MaxAdds = 1
  MaxEvents = 2
  MaxTrouble = 1
SPECIFICATION HistorySpec
INVARIANTS
  ChannelsSafe  
CHECK_DEADLOCK FALSE
