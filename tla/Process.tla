------------------------------ MODULE Process -------------------------------
(***************************************************************************)
(* What skyline-speederd does around its requests, side by side: the event *)
(* log it writes (EventLog), how it starts (StartUp), the readings it      *)
(* keeps for metrics_recent (MetricsWindow), and what ssctl makes of its   *)
(* answers (StatusView).  They share no state.                             *)
(***************************************************************************)
EXTENDS EventLog

CONSTANTS Hosts, Fallbacks, PlainNames, Canon, Provides, EarlyLoss,  \* StartUp
          ChangesMax,
          METRICS_SAMPLE_EVERY, METRICS_RECENT_WINDOW, Poll, AgeMax,  \* MetricsWindow
          Module, Qdiscs, FlowsMax                                    \* StatusView

VARIABLES host, fallback, phase, report, notes, policy, hook, cc, verified,
          unloaded, enabled, changes,
          sampled, readings, next, idle, up, failed,
          attached, accelerating, draining, armed, modules, rto, dscp, redundancy,
          copying, declared, tc, sockops, default, qdisc, flows, seen

U == INSTANCE StartUp
W == INSTANCE MetricsWindow WITH attached <- sampled
S == INSTANCE StatusView WITH policy <- sockops, cc <- default

ASSUME StartAssumption == U!StartAssumption
ASSUME WindowAssumption == W!WindowAssumption

(* StartUp: no usable host is refused, what --verify-bpf accepted attaches *)
(* through the right layout, an attached daemon can hand back, and what is *)
(* missing is told.                                                        *)
StartsHonestly == U!StartsHonestly

(* MetricsWindow: metrics_recent covers the window, or all there is of it, *)
(* give or take a sampling interval.                                       *)
WindowHonest == W!WindowHonest

(* StatusView: `status`, `flows` and the action reports agree, a report    *)
(* without ATTENTION is of a host that is taken over and guarded, and what *)
(* is ticked can act.                                                      *)
PagesTrue == S!PagesTrue
=============================================================================
