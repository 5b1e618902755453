SPECIFICATION GSpec
CONSTANTS
  Devs = {eth0}
  IntervalS = 100
  FailuresMax = 3
  NoRoot = NoRoot
  Slots = {p1, p2, p3, p4}
  CallsMax = 3
  SpawnFailsMax = 1
  NoChild = NoChild
INVARIANTS TargetsRight TcContained
PROPERTY ReplacesRightly
CHECK_DEADLOCK FALSE
