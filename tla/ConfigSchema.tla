---------------------------- MODULE ConfigSchema ----------------------------
(***************************************************************************)
(* SkylineConfig of skyline-common: what a configuration is, when          *)
(* `validate` accepts it, and what the conversions write into the kernel's *)
(* maps.  Field names are the source's.                                    *)
(*                                                                         *)
(* A float is an integer number of ten-thousandths, or one of the two      *)
(* values TOML can also spell, NaN and Inf; the kernel's permille is ten   *)
(* of these, so rounding is visible.  fallback_cc is its name and length.  *)
(* Fields no check or property tells apart are left out.                   *)
(***************************************************************************)
EXTENDS Integers

CONSTANTS U32Max,     \* the largest u32; 2^32 - 1 in the code
          NaN, Inf,   \* the floats that are no numbers
          None,       \* an Option without a value
          Skyline     \* SKYLINE_CC_NAME

(* The largest gain, 1000, times the largest compensation, 2, in permille. *)
LargestProduct == 2000000000

ASSUME SchemaAssumption == /\ U32Max \in Nat
                           /\ U32Max >= LargestProduct
                           /\ NaN \notin Int
                           /\ Inf \notin Int
                           /\ None \notin Int

Modules == {"early-loss", "adaptive-cwnd", "loss-classifier", "pacing"}

One == 10000
MIN_CWND_FLOOR == 4
MAX_MODE_GAIN == 1000 * One
MAX_MIN_RTT_WINDOW_S == U32Max \div 1000000
SKYLINE_RTO_MIN_KERNEL_DEFAULT_US == 200000
MAX_FIRST_KIB == 1024
MAX_DELAY_MS == 100
MAX_GUARD_INTERVAL_S == 3600
GainNames == {"startup_gain", "cruise_inflight_gain", "cruise_pacing_gain"}

Float == Int \cup {NaN, Inf}
U32 == 0..U32Max

AdaptiveCwnd ==
  [min_rtt_window_s : U32, bw_window_rtts : U32, startup_plateau_rtts : U32,
   startup_growth_ratio : Float, startup_gain : Float,
   cruise_inflight_gain : Float, cruise_pacing_gain : Float,
   guardrail_gain : Float]
RackRto == [enabled : BOOLEAN, srtt_permille : U32, floor_us : U32,
            ceiling_us : U32, rto_max_normal_permille : U32,
            rto_max_congested_permille : U32]
RetransmitDscp == [enabled : BOOLEAN, dscp_value : 0..255]
Redundancy == [enabled : BOOLEAN, first_kib : U32, delay_ms : U32]
ModuleTuning ==
  [max_pacing_mbps : Nat, max_cwnd_packets : U32, max_queue_delay_ms : U32,
   max_queue_delay_ratio : Float, initial_cwnd_packets : U32,
   min_cwnd_packets : U32, adaptive_cwnd : AdaptiveCwnd,
   loss_inflation_max_ratio : Float, prr_pacing_enabled : BOOLEAN,
   auto_pacing_enabled : BOOLEAN]
Config ==
  [generation : U32, fallback_cc : [name : STRING, len : Nat],
   enabled_modules : SUBSET Modules, max_pacing_mbps : Nat,
   max_cwnd_packets : U32, max_queue_delay_ms : U32,
   max_queue_delay_ratio : Float, initial_cwnd_packets : U32,
   min_cwnd_packets : U32, adaptive_cwnd : AdaptiveCwnd,
   loss_classifier : [loss_inflation_max_ratio : Float],
   prr_pacing_enabled : BOOLEAN, auto_pacing_enabled : BOOLEAN,
   rack_tuning : [tcp_recovery : Nat \cup {None}, tcp_reordering : Nat \cup {None},
                  tcp_early_retrans : Nat \cup {None}],
   rack_rto : RackRto, retransmit_dscp : RetransmitDscp,
   redundancy : Redundancy, guard : [interval_s : U32, qdisc : BOOLEAN]]

(* f64's comparisons, false of a NaN.                                      *)
Contains(lo, hi, x) == x \in Int /\ lo <= x /\ x <= hi
IsFinite(x) == x \in Int

SatAdd(a, b) == IF a > U32Max - b THEN U32Max ELSE a + b
SatMul(a, b) == IF a > U32Max \div b THEN U32Max ELSE a * b

-----------------------------------------------------------------------------
(* The flat record of set-module-config and its way into and out of the    *)
(* nested configuration.                                                   *)
FromConfig(c) ==
  [max_pacing_mbps |-> c.max_pacing_mbps,
   max_cwnd_packets |-> c.max_cwnd_packets,
   max_queue_delay_ms |-> c.max_queue_delay_ms,
   max_queue_delay_ratio |-> c.max_queue_delay_ratio,
   initial_cwnd_packets |-> c.initial_cwnd_packets,
   min_cwnd_packets |-> c.min_cwnd_packets,
   adaptive_cwnd |-> c.adaptive_cwnd,
   loss_inflation_max_ratio |-> c.loss_classifier.loss_inflation_max_ratio,
   prr_pacing_enabled |-> c.prr_pacing_enabled,
   auto_pacing_enabled |-> c.auto_pacing_enabled]

(* slip: a field of the record is left where it was.                       *)
ApplyToForgets(t, c) ==
  [c EXCEPT !.max_pacing_mbps = t.max_pacing_mbps,
            !.max_queue_delay_ms = t.max_queue_delay_ms,
            !.max_queue_delay_ratio = t.max_queue_delay_ratio,
            !.initial_cwnd_packets = t.initial_cwnd_packets,
            !.min_cwnd_packets = t.min_cwnd_packets,
            !.adaptive_cwnd = t.adaptive_cwnd,
            !.loss_classifier.loss_inflation_max_ratio = t.loss_inflation_max_ratio,
            !.prr_pacing_enabled = t.prr_pacing_enabled,
            !.auto_pacing_enabled = t.auto_pacing_enabled]
ApplyTo(t, c) ==
  [c EXCEPT !.max_pacing_mbps = t.max_pacing_mbps,
            !.max_cwnd_packets = t.max_cwnd_packets,
            !.max_queue_delay_ms = t.max_queue_delay_ms,
            !.max_queue_delay_ratio = t.max_queue_delay_ratio,
            !.initial_cwnd_packets = t.initial_cwnd_packets,
            !.min_cwnd_packets = t.min_cwnd_packets,
            !.adaptive_cwnd = t.adaptive_cwnd,
            !.loss_classifier.loss_inflation_max_ratio = t.loss_inflation_max_ratio,
            !.prr_pacing_enabled = t.prr_pacing_enabled,
            !.auto_pacing_enabled = t.auto_pacing_enabled]

-----------------------------------------------------------------------------
(* SkylineConfig::validate, one operator per group of checks.              *)
ValidFallback(f) == f.len \in 1..15 /\ f.name # Skyline

FloatsFinite(c) ==
  /\ IsFinite(c.max_queue_delay_ratio)
  /\ IsFinite(c.adaptive_cwnd.startup_growth_ratio)
  /\ \A g \in GainNames : IsFinite(c.adaptive_cwnd[g])
  /\ IsFinite(c.adaptive_cwnd.guardrail_gain)
  /\ IsFinite(c.loss_classifier.loss_inflation_max_ratio)

ValidWindow(c) ==
  /\ c.max_cwnd_packets >= 4
  /\ c.initial_cwnd_packets <= c.max_cwnd_packets
  /\ c.min_cwnd_packets >= MIN_CWND_FLOOR
  /\ c.min_cwnd_packets <= c.max_cwnd_packets

ValidFilters(a) ==
  /\ a.min_rtt_window_s \in 1..MAX_MIN_RTT_WINDOW_S
  /\ a.bw_window_rtts \in 1..10

ValidGains(c) ==
  /\ Contains(0, One, c.adaptive_cwnd.startup_growth_ratio)
  /\ Contains(0, One \div 2, c.loss_classifier.loss_inflation_max_ratio)
  /\ \A g \in GainNames : Contains(One, MAX_MODE_GAIN, c.adaptive_cwnd[g])
  /\ Contains(0, One, c.adaptive_cwnd.guardrail_gain)
  /\ ~(IsFinite(c.max_queue_delay_ratio) /\ c.max_queue_delay_ratio < 0)

PacingCapped(c) == "pacing" \in c.enabled_modules => c.max_pacing_mbps # 0

ValidRackTuning(r) ==
  /\ r.tcp_recovery \in {None, 1, 3, 5, 7}
  /\ r.tcp_reordering \in {None} \cup 1..300
  /\ r.tcp_early_retrans \in {None} \cup 0..4

ValidRackRto(r) ==
  r.enabled => /\ r.srtt_permille # 0
               /\ r.floor_us # 0
               /\ r.ceiling_us >= r.floor_us
               /\ r.ceiling_us <= SKYLINE_RTO_MIN_KERNEL_DEFAULT_US
               /\ r.rto_max_congested_permille >= r.rto_max_normal_permille

ValidDscp(d) == (d.enabled => d.dscp_value # 0) /\ d.dscp_value <= 63

ValidRedundancy(r) == /\ r.enabled => r.first_kib \in 1..MAX_FIRST_KIB
                      /\ r.delay_ms <= MAX_DELAY_MS

Valid(c) ==
  /\ c.generation # 0
  /\ ValidFallback(c.fallback_cc)
  /\ FloatsFinite(c)
  /\ ValidWindow(c) /\ ValidFilters(c.adaptive_cwnd) /\ ValidGains(c)
  /\ PacingCapped(c)
  /\ ValidRackTuning(c.rack_tuning)
  /\ ValidRackRto(c.rack_rto)
  /\ ValidDscp(c.retransmit_dscp)
  /\ ValidRedundancy(c.redundancy)
  /\ c.guard.interval_s <= MAX_GUARD_INTERVAL_S

-----------------------------------------------------------------------------
(* What is written into the kernel's maps.                                 *)
Permille(x) == IF x = NaN THEN 0
               ELSE IF x = Inf THEN U32Max
               ELSE IF x < 0 THEN 0 ELSE (x + 5) \div 10

FeatureMask(c) ==
  c.enabled_modules \cup (IF c.prr_pacing_enabled THEN {"prr"} ELSE {})
                    \cup (IF c.auto_pacing_enabled THEN {"auto-pacing"} ELSE {})

(* max_pacing_bps stays in Mbit/s: a u64 has room for the factor.          *)
KernelConfig(c) ==
  [generation |-> c.generation,
   feature_mask |-> FeatureMask(c),
   initial_cwnd_packets |-> c.initial_cwnd_packets,
   max_pacing_mbps |-> c.max_pacing_mbps,
   max_cwnd_packets |-> c.max_cwnd_packets,
   max_queue_delay_us |-> SatMul(c.max_queue_delay_ms, 1000),
   max_queue_delay_permille |-> Permille(c.max_queue_delay_ratio),
   min_rtt_window_us |-> SatMul(c.adaptive_cwnd.min_rtt_window_s, 1000000),
   bw_window_rtts |-> c.adaptive_cwnd.bw_window_rtts,
   startup_plateau_rtts |-> c.adaptive_cwnd.startup_plateau_rtts,
   startup_growth_permille |-> Permille(c.adaptive_cwnd.startup_growth_ratio),
   startup_gain_permille |-> Permille(c.adaptive_cwnd.startup_gain),
   cruise_inflight_permille |-> Permille(c.adaptive_cwnd.cruise_inflight_gain),
   cruise_pacing_permille |-> Permille(c.adaptive_cwnd.cruise_pacing_gain),
   loss_inflation_max_permille |->
     Permille(c.loss_classifier.loss_inflation_max_ratio),
   guardrail_gain_permille |-> Permille(c.adaptive_cwnd.guardrail_gain),
   min_cwnd_packets |-> c.min_cwnd_packets]

(* RackRtoConfig::kernel_config.                                           *)
KernelRto(r, generation) ==
  [generation |-> generation, enabled |-> r.enabled,
   srtt_permille |-> r.srtt_permille, floor_us |-> r.floor_us,
   ceiling_us |-> IF r.ceiling_us < SKYLINE_RTO_MIN_KERNEL_DEFAULT_US
                  THEN r.ceiling_us ELSE SKYLINE_RTO_MIN_KERNEL_DEFAULT_US,
   rto_max_normal_permille |-> r.rto_max_normal_permille,
   rto_max_congested_permille |-> r.rto_max_congested_permille]

KernelDscp(d) == [enabled |-> d.enabled, dscp_value |-> d.dscp_value]

KernelRedundancy(r, active) ==
  [enabled |-> r.enabled /\ active,
   bytes |-> SatMul(r.first_kib, 1024),
   delay_us |-> SatMul(r.delay_ms, 1000)]

RtoDisabled == [enabled |-> FALSE, srtt_permille |-> 1000, floor_us |-> 5000,
                ceiling_us |-> 200000, rto_max_normal_permille |-> 0,
                rto_max_congested_permille |-> 0]
DscpDisabled == [enabled |-> FALSE, dscp_value |-> 0]
RedundancyDisabled == [enabled |-> FALSE, first_kib |-> 64, delay_ms |-> 10]

-----------------------------------------------------------------------------
(* What the BPF programs take for granted about the maps they read.        *)

(* skyline_cc: the cap is not undone by the floor, the first window is     *)
(* within it, the filter's window is what was asked for and not 0, pacing  *)
(* has a limit, and a gain times the largest compensation (2000 permille)  *)
(* fits in 32 bits.                                                        *)
PermilleSound(g) == 1000 <= g /\ g <= U32Max \div 2000
CcMapSound(k) ==
  /\ k.min_cwnd_packets >= MIN_CWND_FLOOR
  /\ k.min_cwnd_packets <= k.max_cwnd_packets
  /\ k.initial_cwnd_packets <= k.max_cwnd_packets
  /\ k.min_rtt_window_us \in 1..U32Max
  /\ k.min_rtt_window_us % 1000000 = 0
  /\ k.bw_window_rtts \in 1..10
  /\ "pacing" \in k.feature_mask => k.max_pacing_mbps > 0
  /\ k.loss_inflation_max_permille <= 500
  /\ k.guardrail_gain_permille <= 1000
  /\ PermilleSound(k.startup_gain_permille)
  /\ PermilleSound(k.cruise_inflight_permille)
  /\ PermilleSound(k.cruise_pacing_permille)

(* skyline_policy: a usable RTO range below the kernel's own floor.        *)
RtoMapSound(k) ==
  k.enabled => /\ 0 < k.floor_us
               /\ k.floor_us <= k.ceiling_us
               /\ k.ceiling_us <= SKYLINE_RTO_MIN_KERNEL_DEFAULT_US
               /\ k.srtt_permille > 0
               /\ k.rto_max_normal_permille <= k.rto_max_congested_permille

(* skyline_tc: a DSCP that fits its six bits and marks something; a copied *)
(* flight and a delay that are not saturated.                              *)
DscpMapSound(k) == k.enabled => k.dscp_value \in 1..63
RedundancyMapSound(k) == k.enabled => /\ 1024 <= k.bytes
                                      /\ k.bytes <= 1024 * MAX_FIRST_KIB
                                      /\ k.delay_us <= 1000 * MAX_DELAY_MS
=============================================================================
