SPECIFICATION Spec
CONSTANTS
  Modes = {"none", "m2", "prr", "plain"}
  Windows = {5}
  Cap = 5
  Floor = 4
  Targets = {2, 6}
  Infinite = 6
  AckMax = 1
  PipeMax = 5
  OutMax = 4
  AdoptMax = 1
CHECK_DEADLOCK FALSE
PROPERTIES ReductionHolds M2Bounds NeverCutByLoss
