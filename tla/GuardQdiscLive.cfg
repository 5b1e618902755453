SPECIFICATION LiveSpec
CONSTANTS
  Devs = {eth0}
  TxQueues <- OneMultiqueue
  Defaults = {"fq", "cake"}
  Installed <- LiveInstalled
  IntervalS = 200
  FailuresMax = 2
  NoRoot = NoRoot
PROPERTY EventuallyFq
