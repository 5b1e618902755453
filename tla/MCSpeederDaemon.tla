--------------------------- MODULE MCSpeederDaemon ---------------------------
(* A small instance of SpeederDaemon for TLC: two connections, one foreign    *)
(* congestion control.                                                        *)
EXTENDS SpeederDaemon, TLC
SockSymmetry == Permutations(Socks)
=============================================================================
