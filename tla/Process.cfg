SPECIFICATION PSpec
CONSTANTS
  MaxBytes = 3
  LineSizes = {1, 2, 4}
  LineMax = 4
  LinesMax = 7
  TornMax = 2
  NoFile = NoFile
  Hosts <- MCHosts
  Fallbacks <- MCFallbacks
  PlainNames <- MCPlainNames
  Canon <- MCCanon
  Provides <- MCProvides
  EarlyLoss = TRUE
  ChangesMax = 1
  METRICS_SAMPLE_EVERY = 2
  METRICS_RECENT_WINDOW = 6
  Poll = 1
  AgeMax = 12
  Module = {m2}
  Qdiscs = {"fq", "cake", "mq/fq", "mq/fq_codel"}
  FlowsMax = 1
  f1 = f1
  f2 = f2
  f3 = f3
  t1 = t1
  NoOne = NoOne
INVARIANTS SpaceBounded WindowHonest PagesTrue
PROPERTIES   StartsHonestly
