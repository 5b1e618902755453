-------------------------- MODULE MCConfiguration --------------------------
(* Configuration for TLC: the daemon's requests on files and payloads at   *)
(* the edges, two invocations of ssctl with a daemon that may die, and     *)
(* files of every shape.                                                   *)
EXTENDS Configuration, TLC

CONSTANTS c1, c2

(* The generation starts two below its maximum, so that it saturates;      *)
(* this is the largest U32Max TLC can count to.                            *)
MCU32Max == 2147483646

-----------------------------------------------------------------------------
(* ConfigRequests: files and payloads at the edges of what validate takes. *)
Base ==
  [generation |-> U32Max - 2,
   fallback_cc |-> [name |-> "cubic", len |-> 5],
   enabled_modules |-> {"pacing"},
   max_pacing_mbps |-> 1, max_cwnd_packets |-> 100, max_queue_delay_ms |-> 100,
   max_queue_delay_ratio |-> 0, initial_cwnd_packets |-> 100,
   min_cwnd_packets |-> 4,
   adaptive_cwnd |->
     [min_rtt_window_s |-> 10, bw_window_rtts |-> 10, startup_plateau_rtts |-> 3,
      startup_growth_ratio |-> 2500, startup_gain |-> 28900,
      cruise_inflight_gain |-> 20000, cruise_pacing_gain |-> One,
      guardrail_gain |-> 0],
   loss_classifier |-> [loss_inflation_max_ratio |-> 5000],
   prr_pacing_enabled |-> TRUE, auto_pacing_enabled |-> FALSE,
   rack_tuning |-> [tcp_recovery |-> None, tcp_reordering |-> 300,
                    tcp_early_retrans |-> 0],
   rack_rto |-> [RtoDisabled EXCEPT !.enabled = TRUE],
   retransmit_dscp |-> [enabled |-> TRUE, dscp_value |-> 63],
   redundancy |-> [enabled |-> TRUE, first_kib |-> 64, delay_ms |-> 10],
   guard |-> [interval_s |-> 5, qdisc |-> TRUE]]

(* A file with every feature declared but no module and no pacing limit,   *)
(* which a request can supply and a reset take away; and ones that each    *)
(* break one rule and do not start.                                        *)
Starts ==
  {[Base EXCEPT !.enabled_modules = {}, !.max_pacing_mbps = 0],
   [Base EXCEPT !.generation = 0],
   [Base EXCEPT !.fallback_cc.name = Skyline],
   [Base EXCEPT !.fallback_cc.len = 16],
   [Base EXCEPT !.max_queue_delay_ratio = NaN],
   [Base EXCEPT !.max_queue_delay_ratio = Inf],
   [Base EXCEPT !.rack_tuning.tcp_recovery = 2],
   [Base EXCEPT !.guard.interval_s = 3601]}

T == FromConfig(Base)
MCTunings ==
  {[T EXCEPT !.max_pacing_mbps = 0],
   [T EXCEPT !.adaptive_cwnd.cruise_pacing_gain = MAX_MODE_GAIN,
             !.adaptive_cwnd.min_rtt_window_s = MAX_MIN_RTT_WINDOW_S,
             !.min_cwnd_packets = 100],
   [T EXCEPT !.adaptive_cwnd.cruise_pacing_gain = 1100 * One],
   [T EXCEPT !.adaptive_cwnd.cruise_pacing_gain = NaN],
   [T EXCEPT !.adaptive_cwnd.startup_gain = One - 1],
   [T EXCEPT !.adaptive_cwnd.guardrail_gain = Inf],
   [T EXCEPT !.adaptive_cwnd.min_rtt_window_s = MAX_MIN_RTT_WINDOW_S + 1],
   [T EXCEPT !.adaptive_cwnd.min_rtt_window_s = 0],
   [T EXCEPT !.max_cwnd_packets = 99],
   [T EXCEPT !.min_cwnd_packets = 101],
   [T EXCEPT !.loss_inflation_max_ratio = 5001]}

MCModuleSets == {{}, {"pacing"}}
MCRtos == {RtoDisabled,
           [RtoDisabled EXCEPT !.enabled = TRUE, !.floor_us = 200000],
           [RtoDisabled EXCEPT !.enabled = TRUE, !.ceiling_us = 200001],
           [RtoDisabled EXCEPT !.enabled = TRUE, !.floor_us = 0]}
MCDscps == {DscpDisabled, [enabled |-> TRUE, dscp_value |-> 0],
            [enabled |-> TRUE, dscp_value |-> 64]}
MCRedundancies == {RedundancyDisabled,
                   [enabled |-> TRUE, first_kib |-> 1024, delay_ms |-> 0],
                   [enabled |-> TRUE, first_kib |-> 0, delay_ms |-> 0],
                   [enabled |-> FALSE, first_kib |-> 0, delay_ms |-> 101]}

-----------------------------------------------------------------------------
(* SsctlClient: the shipped configuration, and command lines with no       *)
(* flags, with some, and with ones clap or the daemon refuses.             *)
Shipped ==
  [generation |-> 1, fallback_cc |-> [name |-> "cubic", len |-> 5],
   enabled_modules |-> Modules,
   max_pacing_mbps |-> 1200, max_cwnd_packets |-> 50000, max_queue_delay_ms |-> 70,
   max_queue_delay_ratio |-> 6000, initial_cwnd_packets |-> 100, min_cwnd_packets |-> 32,
   adaptive_cwnd |->
     [min_rtt_window_s |-> 30, bw_window_rtts |-> 6, startup_plateau_rtts |-> 5,
      startup_growth_ratio |-> 2000, startup_gain |-> 30000, cruise_inflight_gain |-> 30000,
      cruise_pacing_gain |-> 12500, guardrail_gain |-> 8000],
   loss_classifier |-> [loss_inflation_max_ratio |-> 1000],
   prr_pacing_enabled |-> TRUE, auto_pacing_enabled |-> TRUE,
   rack_tuning |-> [tcp_recovery |-> None, tcp_reordering |-> None, tcp_early_retrans |-> None],
   rack_rto |-> [enabled |-> TRUE, srtt_permille |-> 1100, floor_us |-> 20000,
                 ceiling_us |-> 200000, rto_max_normal_permille |-> 3000,
                 rto_max_congested_permille |-> 6000],
   retransmit_dscp |-> DscpDisabled,
   redundancy |-> [enabled |-> TRUE, first_kib |-> 64, delay_ms |-> 10],
   guard |-> [interval_s |-> 5, qdisc |-> TRUE]]

None0 == [f \in {} |-> 0]
Line(name, fs) == [name |-> name, flags |-> fs]
Takeover ==
  {Line("enable", None0), Line("enable", [all_off |-> TRUE]),
   Line("enable", [all_off |-> TRUE, modules |-> {"pacing"}]), Line("drain", None0),
   Line("set-module-config", [max_cwnd_packets |-> 64, initial_cwnd_packets |-> 64]),
   Line("set-module-config", [max_queue_delay_ratio |-> NaN])}
Tuning ==
  {Line("disable", [module |-> "pacing"]), Line("status", None0),
   Line("set-rack-rto", [floor_us |-> 0, disable |-> TRUE]), Line("reset-rack-rto", None0),
   Line("reset-module-config", None0),
   Line("set-retransmit-dscp", None0), Line("set-retransmit-dscp", [dscp_value |-> 46]),
   Line("set-redundancy", [first_kib |-> 0])}

MCLines == (c1 :> Takeover) @@ (c2 :> Tuning)

MCFiles == Starts \cup {Shipped}

-----------------------------------------------------------------------------
(* ConfigFile: a configuration with one entry of each kind, a key two      *)
(* tables share, and files that put keys where they belong, elsewhere, and *)
(* that invent some.                                                       *)
Top == "top level"
MCRequired == {<<Top, "generation">>, <<"adaptive_cwnd", "startup_gain">>}
MCDefaulted == {<<Top, "initial_cwnd_packets">>, <<"adaptive_cwnd", "guardrail_gain">>,
                <<"rack_rto", "enabled">>, <<"redundancy", "enabled">>}
MCOptional == {<<"rack_tuning", "tcp_recovery">>}

Writable == {<<Top, "generation">>, <<"adaptive_cwnd", "startup_gain">>,
             <<Top, "initial_cwnd_packets">>, <<"adaptive_cwnd", "initial_cwnd_packets">>,
             <<Top, "guardrail_gain">>, <<"adaptive_cwnd", "guardrail_gain">>,
             <<"rack_tuning", "tcp_recovery">>, <<Top, "tcp_recovery">>,
             <<"rack_tuning", "enabled">>, <<"redundancy", "enabled">>,
             <<"guards", "enabled">>, <<Top, "typo">>, <<Top, "redundancy">>}
Headers(vs) == {e[1] : e \in vs} \ {Top}
MCTexts ==
  {[values |-> vs, tables |-> Headers(vs) \cup more \cup {e[1] : e \in sub}, nested |-> sub] :
     vs \in SUBSET Writable, more \in {{}, {"guards"}, {"initial_cwnd_packets"}},
     sub \in {{}, {<<"adaptive_cwnd", "guardrail_gain">>}, {<<"rack_rto", "extra">>}}}

ASSUME Top = F!Top

-----------------------------------------------------------------------------
NoText == [values |-> {}, tables |-> {}, nested |-> {}]
ClientsRest == Invoked /\ client[c1].command.name = "drain" /\ client[c2].command.name = "status"

(* The others rest at one of their initial states.                         *)
MCInit == \/ /\ part = "requests" /\ Init /\ file \in Starts
             /\ ClientsRest /\ text = NoText /\ F!Init
          \/ part = "clients" /\ CInit /\ file = Shipped /\ text = NoText /\ F!Init
          \/ part = "file" /\ CInit /\ file = Shipped /\ ClientsRest /\ F!Init

MCSpec == MCInit /\ [][ANext]_parts
=============================================================================
