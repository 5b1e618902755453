------------------------------ MODULE RtoTuning -----------------------------
(***************************************************************************)
(* M1 tier-2 (skyline_policy.bpf.c): one flow's RTT callback against the   *)
(* daemon overwriting the rto_tuning slot it reads.  The slot is copied    *)
(* field by field in address order while a callback on another CPU loads   *)
(* its fields one at a time, so every load is a step of its own.           *)
(***************************************************************************)
EXTENDS Naturals, Sequences

CONSTANTS Tuning,        \* the configurations the daemon may publish
          Base,          \* max(srtt_us, min_rtt_us) of a sample, 0 excluded
          RtoMinDefault, \* SKYLINE_RTO_MIN_KERNEL_DEFAULT_US
          RtoMaxFloor,   \* SKYLINE_RTO_MAX_FLOOR_MS
          RtoMaxDefault, \* SKYLINE_RTO_MAX_KERNEL_DEFAULT_MS
          TimeoutMin     \* the smallest floor the kernel takes (two jiffies)

(* The fields, in address order; kernel_config writes the disabled         *)
(* configuration too.                                                      *)
Fields == <<"enabled", "srtt_permille", "floor_us", "ceiling_us", "warmup_samples",
            "normal", "congested">>

(* What validate() lets an enabled configuration be, and kernel_config's   *)
(* cap on ceiling_us.                                                      *)
Publishable(c) == /\ c.enabled => /\ c.srtt_permille > 0 /\ c.floor_us > 0
                                  /\ c.floor_us <= c.ceiling_us
                                  /\ c.congested >= c.normal
                  /\ c.ceiling_us <= RtoMinDefault

ASSUME TuningAssumption == \A c \in Tuning : Publishable(c)

(* The fields are unsigned, and so are the kernel's limits, of which none  *)
(* is 0.                                                                   *)
Fieldwise == [enabled : BOOLEAN, srtt_permille : Nat, floor_us : Nat, ceiling_us : Nat,
              warmup_samples : Nat, normal : Nat, congested : Nat]
ASSUME LimitsAssumption == /\ Tuning \subseteq Fieldwise /\ Base \subseteq Nat
                           /\ RtoMinDefault \in Nat /\ TimeoutMin \in Nat \ {0}
                           /\ RtoMaxDefault \in Nat /\ RtoMaxFloor \in 1..RtoMaxDefault

VARIABLES slot,     \* rto_tuning[0]
          config,   \* the configuration being (or last) written
          written,  \* how many of its fields are in the slot
          flow,     \* struct skyline_rto_flow, and whether RTT_CB is subscribed
          sock,     \* the socket's rto_min and rto_max, and whether its kernel
                    \* knows TCP_RTO_MAX_MS (6.15 and later)
          ce,       \* delivered_ce differs from flow->last_delivered_ce
          at,       \* the callback's next load, or "idle"
          local     \* its base, target, ceiling and congestion verdict

vars == <<slot, config, written, flow, sock, ce, at, local>>

Unset == [base |-> 0, target |-> 0, ceiling |-> 0, congested |-> FALSE]
Idle == at' = "idle" /\ local' = Unset

Init == /\ config \in {c \in Tuning : ~c.enabled}
        /\ slot = config /\ written = Len(Fields)
        /\ flow = [state |-> "new", samples |-> 0, applied_us |-> 0, applied_rto_max_ms |-> 0]
        /\ \E known \in BOOLEAN :
             sock = [rto_min |-> RtoMinDefault, rto_max |-> RtoMaxDefault, known |-> known]
        /\ ce = FALSE /\ at = "idle" /\ local = Unset

-----------------------------------------------------------------------------
(* The daemon: a map update, copied field by field.                        *)
SetRackRto == /\ written = Len(Fields)
              /\ \E c \in Tuning \ {config} : config' = c
              /\ written' = 0
              /\ UNCHANGED <<slot, flow, sock, ce, at, local>>

WriteField == /\ written < Len(Fields)
              /\ written' = written + 1
              /\ LET f == Fields[written + 1] IN slot' = [slot EXCEPT ![f] = config[f]]
              /\ UNCHANGED <<config, flow, sock, ce, at, local>>

-----------------------------------------------------------------------------
(* bpf_setsockopt, for the two options: what the kernel takes.             *)
TakesRtoMin(v) == TimeoutMin <= v /\ v <= RtoMinDefault
TakesRtoMax(v) == sock.known /\ RtoMaxFloor <= v /\ v <= RtoMaxDefault

SetRtoMin(v) == IF TakesRtoMin(v) THEN v ELSE sock.rto_min
SetRtoMax(v) == IF TakesRtoMax(v) THEN v ELSE sock.rto_max

(* The ESTABLISHED callbacks subscribe while the feature is on; a flow     *)
(* they leave out is never subscribed later.                               *)
Established == /\ flow.state = "new" /\ at = "idle"
               /\ \/ slot.enabled /\ flow' = [flow EXCEPT !.state = "subscribed"]
                  \/ flow' = [flow EXCEPT !.state = "out"]   \* off, or the subscription failed
               /\ UNCHANGED <<slot, config, written, sock, ce, at, local>>

skyline_rto_unsubscribe ==
  /\ flow' = [flow EXCEPT !.state = "out"]
  /\ sock' = [sock EXCEPT !.rto_min = SetRtoMin(RtoMinDefault), !.rto_max = SetRtoMax(RtoMaxDefault)]

(* A sample's base; a min_rtt still at ~0 (no sample yet) counts as 0.     *)
SampleBase == Base

(* skyline_update_rto_tuning: off unsubscribes, otherwise the sample's     *)
(* base is taken.                                                          *)
RttCallback == /\ flow.state = "subscribed" /\ at = "idle"
               /\ \/ ~slot.enabled /\ skyline_rto_unsubscribe /\ UNCHANGED <<at, local>>
                  \/ /\ slot.enabled
                     /\ at' = "warmup"
                     /\ \E b \in SampleBase : local' = [Unset EXCEPT !.base = b]
                     /\ UNCHANGED <<flow, sock>>
               /\ UNCHANGED <<slot, config, written, ce>>

LoadWarmup == /\ at = "warmup"
              /\ \/ /\ flow.samples < slot.warmup_samples
                    /\ flow' = [flow EXCEPT !.samples = @ + 1] /\ Idle
                 \/ /\ flow.samples >= slot.warmup_samples
                    /\ at' = "srtt" /\ UNCHANGED <<flow, local>>
              /\ UNCHANGED <<slot, config, written, sock, ce>>

-----------------------------------------------------------------------------
(* skyline_update_rto_min, load by load.  floor_us is loaded twice: for    *)
(* the test against the ceiling and for the clamp.                         *)
LoadSrttPermille == /\ at = "srtt" /\ at' = "ceiling"
                    /\ local' = [local EXCEPT !.target = (local.base * slot.srtt_permille) \div 1000]
                    /\ UNCHANGED <<slot, config, written, flow, sock, ce>>

LoadCeiling == /\ at = "ceiling" /\ at' = "floor"
               /\ local' = [local EXCEPT !.ceiling = IF slot.ceiling_us < RtoMinDefault
                                                     THEN slot.ceiling_us ELSE RtoMinDefault]
               /\ UNCHANGED <<slot, config, written, flow, sock, ce>>

LoadFloor == /\ at = "floor"
             /\ at' = IF slot.floor_us > local.ceiling THEN "normal" ELSE "clamp"
             /\ UNCHANGED <<slot, config, written, flow, sock, ce, local>>

Raised(v, low) == IF v < low THEN low ELSE v
Lowered(v, high) == IF v > high THEN high ELSE v

(* slip: the floor clamp is lost.                                          *)
ClampedLow(t, low, high) == Lowered(t, high)
Clamped(t, low, high) == Lowered(Raised(t, low), high)

(* Unchanged targets are not written again; a refused one is not           *)
(* remembered.                                                             *)
ApplyRtoMin(v) ==
  /\ sock' = IF flow.applied_us = v THEN sock ELSE [sock EXCEPT !.rto_min = SetRtoMin(v)]
  /\ flow' = IF TakesRtoMin(v) THEN [flow EXCEPT !.applied_us = v] ELSE flow

LoadFloorAgain == /\ at = "clamp" /\ at' = "normal"
                  /\ ApplyRtoMin(Clamped(local.target, slot.floor_us, local.ceiling))
                  /\ UNCHANGED <<slot, config, written, ce, local>>

-----------------------------------------------------------------------------
(* skyline_update_rto_max.  Off, it puts the ceiling back and forgets it   *)
(* only when that took.                                                    *)
RtoMaxOff ==
  IF flow.applied_rto_max_ms = 0 \/ ~TakesRtoMax(RtoMaxDefault)
  THEN UNCHANGED <<sock, flow>>
  ELSE /\ sock' = [sock EXCEPT !.rto_max = RtoMaxDefault]
       /\ flow' = [flow EXCEPT !.applied_rto_max_ms = 0]

(* The queueing test compares srtt with min_rtt, of which the base is the  *)
(* larger: either verdict is possible.                                     *)
LoadNormal == /\ at = "normal" /\ ce' = FALSE
              /\ \/ slot.normal = 0 /\ RtoMaxOff /\ Idle
                 \/ /\ slot.normal # 0
                    /\ \E queueing \in BOOLEAN :
                         local' = [local EXCEPT !.congested = ce \/ queueing]
                    /\ at' = "factor"
                    /\ UNCHANGED <<sock, flow>>
              /\ UNCHANGED <<slot, config, written>>

ApplyRtoMax(v) ==
  /\ sock' = IF flow.applied_rto_max_ms = v THEN sock ELSE [sock EXCEPT !.rto_max = SetRtoMax(v)]
  /\ flow' = IF TakesRtoMax(v) THEN [flow EXCEPT !.applied_rto_max_ms = v] ELSE flow

LoadFactor == /\ at = "factor" /\ Idle
              /\ LET k == IF local.congested THEN slot.congested ELSE slot.normal
                 IN ApplyRtoMax(Clamped((local.base * k) \div 1000, RtoMaxFloor, RtoMaxDefault))
              /\ UNCHANGED <<slot, config, written, ce>>

CeMark == /\ ~ce /\ ce' = TRUE
          /\ UNCHANGED <<slot, config, written, flow, sock, at, local>>

-----------------------------------------------------------------------------
Callback == \/ RttCallback \/ LoadWarmup \/ LoadSrttPermille \/ LoadCeiling \/ LoadFloor
            \/ LoadFloorAgain \/ LoadNormal \/ LoadFactor

Next == SetRackRto \/ WriteField \/ Established \/ Callback \/ CeMark

Spec == Init /\ [][Next]_vars

-----------------------------------------------------------------------------
TypeOK == /\ config \in Tuning /\ written \in 0 .. Len(Fields)
          /\ DOMAIN slot = DOMAIN config
          /\ flow.state \in {"new", "subscribed", "out"} /\ flow.samples \in Nat
          /\ sock.rto_min \in Nat /\ sock.rto_max \in Nat /\ ce \in BOOLEAN
          /\ at \in {"idle", "warmup", "srtt", "ceiling", "floor", "clamp", "normal", "factor"}
          /\ local.base \in Base \cup {0}

(* However a callback and an overwrite of the slot interleave, a socket's  *)
(* RTO floor stays between the lowest floor_us and the highest ceiling_us  *)
(* ever published (or at the kernel default), and its                      *)
(* ceiling between 1 s and 120 s: the clamps hold for a mix of two         *)
(* configurations as they do for one.                                      *)
RtoStaysSafe ==
  /\ \/ sock.rto_min = RtoMinDefault
     \/ /\ \E c \in Tuning : c.floor_us <= sock.rto_min
        /\ \E c \in Tuning : sock.rto_min <= c.ceiling_us
  /\ RtoMaxFloor <= sock.rto_max /\ sock.rto_max <= RtoMaxDefault

(* The debounce state is honest: while a flow is subscribed, applied_us    *)
(* and applied_rto_max_ms are what its socket has (0: the kernel default), *)
(* so a target it skips as unchanged is one the socket really has.         *)
DebounceHonest ==
  flow.state = "subscribed" =>
    /\ sock.rto_min = IF flow.applied_us = 0 THEN RtoMinDefault ELSE flow.applied_us
    /\ sock.rto_max = IF flow.applied_rto_max_ms = 0 THEN RtoMaxDefault ELSE flow.applied_rto_max_ms

(* A socket's RTO bounds are safe ones, and the ones its flow remembers.   *)
RtoSound == TypeOK /\ RtoStaysSafe /\ DebounceHonest
=============================================================================
