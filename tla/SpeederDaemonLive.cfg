SPECIFICATION FairSpec
CONSTANTS
  Skyline = skyline_cc
  Fallback = cubic
  Others = {}
  Socks = {s1}
  CountReadable = FALSE
PROPERTIES  GuardRestores
