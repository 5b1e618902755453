SPECIFICATION Spec
CONSTANTS
  Module = {m2}
  Qdiscs = {"fq", "cake", "mq/fq", "mq/fq_codel"}
  FlowsMax = 1
INVARIANT TickedQdiscIsFq
