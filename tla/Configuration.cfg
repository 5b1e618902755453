SPECIFICATION MCSpec
CONSTANTS
  U32Max <- MCU32Max
  NaN = NaN
  Inf = Inf
  None = None
  Skyline = "skyline_cc"
  Files <- MCFiles
  ModuleSets <- MCModuleSets
  Tunings <- MCTunings
  Rtos <- MCRtos
  Dscps <- MCDscps
  Redundancies <- MCRedundancies
  Required <- MCRequired
  Defaulted <- MCDefaulted
  Optional <- MCOptional
  Texts <- MCTexts
  Clients = {c1, c2}
  Lines <- MCLines
  c1 = c1
  c2 = c2
  TryMax = 2
  CrashMax = 1
INVARIANTS MapsSound StatusIsKernel ClientsMixNothing ZeroMeansAccepted ReadsWhatIsWritten
PROPERTY EachRequestAtomic
CHECK_DEADLOCK FALSE
