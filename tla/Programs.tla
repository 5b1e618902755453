------------------------------ MODULE Programs ------------------------------
(***************************************************************************)
(* The BPF programs' arithmetic side by side: the RTO callback (RtoTuning),*)
(* the round clock of skyline_cc (FlowRounds) and the counters it keeps    *)
(* for ssctl (MetricsRead).  They share no state.                          *)
(***************************************************************************)
EXTENDS RtoTuning, Integers

CONSTANTS Space, Flight,            \* FlowRounds
          CPU, RunsMax, ReadsMax    \* MetricsRead

VARIABLES delivered, next, out, gap, parity,
          mem, counting, loaded, runs, copied, total, readings

R == INSTANCE FlowRounds
M == INSTANCE MetricsRead WITH at <- counting

ASSUME RoundsAssumption == R!SpaceAssumption
ASSUME MetricsAssumption == M!CpuAssumption

(* FlowRounds: an acknowledgement ends the round exactly when its packet   *)
(* was sent after the round began, wherever the counters wrap.             *)
RoundsRight == R!RoundsRight

(* MetricsRead: a reading made while counters move never shows a daemon    *)
(* from before 0.5.0, whose rounds were not counted apart.                 *)
CountedApart == M!CountedApart
=============================================================================
