SPECIFICATION PSpec
CONSTANTS
  Tuning <- MCTuning
  Base <- MCBase
  RtoMinDefault = 20
  RtoMaxFloor = 2
  RtoMaxDefault = 12
  TimeoutMin = 1
  Space = 18
  Flight = 3
  CPU = 2
  RunsMax = 2
  ReadsMax = 1
INVARIANTS  RtoSound CountedApart
PROPERTY RoundsRight
CHECK_DEADLOCK FALSE
