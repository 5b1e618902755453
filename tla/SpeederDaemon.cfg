SPECIFICATION Spec
CONSTANTS
  Skyline = skyline_cc
  Fallback = cubic
  Others = {bbr}
  Socks = {s1, s2}
  CountReadable = TRUE
SYMMETRY SockSymmetry
INVARIANTS DispatchClosed PassHasItsAlgorithm DrainingIsDrained FlowCountExact CopiesOnlyWithRuntime
PROPERTIES NoRestoreAfterDisarm DrainSparesCounted
