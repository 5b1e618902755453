SPECIFICATION Spec
CONSTANTS
  SkylineCc = "skyline_cc"
  Detail <- MCDetail
  Sockets <- MCSockets
  FLOW_ROWS_MAX = 2
  LinesMax = 10
INVARIANT ListingExact
CHECK_DEADLOCK FALSE
