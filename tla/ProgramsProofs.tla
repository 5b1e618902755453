--------------------------- MODULE ProgramsProofs ---------------------------
(***************************************************************************)
(* What is proved of the BPF programs' arithmetic, for every number of     *)
(* CPUs, size of the counters, configuration and sample.  One section per  *)
(* component, each with the invariant its theorem needs:                   *)
(*   IndInv       what the slot, a flow and a callback in it hold of the   *)
(*                published configurations (RtoTuning);                    *)
(*   CountsInv    every hit a reader has added up is backed by a round it  *)
(*                has added up or will (MetricsRead);                      *)
(*   RoundsInv    where the packets in flight lie on the counter's circle  *)
(*                (FlowRounds).                                            *)
(***************************************************************************)
EXTENDS Programs, FiniteSetTheorems, TLAPS

-----------------------------------------------------------------------------
(* RtoTuning.                                                              *)
(* Each field of the slot was published; samples and limits are numbers.   *)
SlotInv == /\ config \in Tuning /\ slot \in Fieldwise /\ written \in 0..Len(Fields)
           /\ \E c \in Tuning : c.floor_us = slot.floor_us
           /\ \E c \in Tuning : c.ceiling_us = slot.ceiling_us

FlowInv == /\ flow \in [state : {"new", "subscribed", "out"}, samples : Nat,
                        applied_us : Nat, applied_rto_max_ms : Nat]
           /\ sock \in [rto_min : Nat, rto_max : Nat, known : BOOLEAN]
           /\ ce \in BOOLEAN

(* A callback runs on a subscribed flow; its ceiling is a published one or *)
(* lower, and once the floor was compared with it, not below every floor.  *)
Loads == {"idle", "warmup", "srtt", "ceiling", "floor", "clamp", "normal", "factor"}
LoadInv == /\ at \in Loads
           /\ at # "idle" => flow.state = "subscribed"
           /\ local \in [base : Base \cup {0}, target : Nat, ceiling : Nat, congested : BOOLEAN]
           /\ at \in {"floor", "clamp"} => \E c \in Tuning : local.ceiling <= c.ceiling_us
           /\ at = "clamp" => \E c \in Tuning : c.floor_us <= local.ceiling

(* A flow that was never subscribed has the socket's defaults.             *)
NewInv == flow.state = "new" =>
            /\ flow.applied_us = 0 /\ flow.applied_rto_max_ms = 0
            /\ sock.rto_min = RtoMinDefault /\ sock.rto_max = RtoMaxDefault

IndInv == SlotInv /\ FlowInv /\ LoadInv /\ NewInv /\ RtoStaysSafe /\ DebounceHonest

LEMMA InitOK == Init => IndInv
<1> SUFFICES ASSUME Init PROVE IndInv
  OBVIOUS
<1>1. SlotInv
  BY LimitsAssumption DEF Init, SlotInv, Fields
<1>0. PICK known \in BOOLEAN :
        sock = [rto_min |-> RtoMinDefault, rto_max |-> RtoMaxDefault, known |-> known]
  BY DEF Init
<1>2. FlowInv
  BY <1>0, LimitsAssumption, Zenon DEF Init, FlowInv
<1>3. LoadInv
  BY DEF Init, LoadInv, Loads, Unset
<1>4. NewInv /\ RtoStaysSafe /\ DebounceHonest
  BY <1>0, LimitsAssumption DEF Init, NewInv, RtoStaysSafe, DebounceHonest
<1> QED  BY <1>1, <1>2, <1>3, <1>4 DEF IndInv

-----------------------------------------------------------------------------
(* The daemon: one field after the other.                                  *)
LEMMA OneField ==
  ASSUME NEW n \in 0..6
  PROVE  Fields[n + 1] \in {"enabled", "srtt_permille", "floor_us", "ceiling_us",
                            "warmup_samples", "normal", "congested"}
BY DEF Fields

LEMMA SlotKept ==
  ASSUME IndInv, UNCHANGED <<flow, sock, ce, at, local>>, SlotInv'
  PROVE  IndInv'
<1>1. FlowInv' /\ LoadInv' /\ NewInv'
  BY DEF IndInv, FlowInv, LoadInv, NewInv
<1>2. RtoStaysSafe' /\ DebounceHonest'
  BY DEF IndInv, RtoStaysSafe, DebounceHonest
<1> QED  BY <1>1, <1>2 DEF IndInv

LEMMA DaemonOK ==
  ASSUME IndInv, SetRackRto \/ WriteField PROVE IndInv'
<1>1. CASE SetRackRto
  <2>1. SlotInv'
    BY <1>1 DEF SetRackRto, IndInv, SlotInv, Fields
  <2> QED  BY <1>1, <2>1, SlotKept DEF SetRackRto
<1>2. CASE WriteField
  <2> DEFINE f == Fields[written + 1]
  <2>1. /\ written \in 0..6 /\ written' = written + 1 /\ config' = config
        /\ slot' = [slot EXCEPT ![f] = config[f]]
        /\ config \in Fieldwise /\ config \in Tuning /\ slot \in Fieldwise
    BY <1>2, LimitsAssumption DEF WriteField, IndInv, SlotInv, Fields
  <2>2. f \in {"enabled", "srtt_permille", "floor_us", "ceiling_us",
               "warmup_samples", "normal", "congested"}
    BY <2>1, OneField
  <2> HIDE DEF f
  <2>3. /\ slot' \in Fieldwise
        /\ slot'.floor_us \in {slot.floor_us, config.floor_us}
        /\ slot'.ceiling_us \in {slot.ceiling_us, config.ceiling_us}
    <3>1. CASE f = "enabled"
      BY <2>1, <3>1 DEF Fieldwise
    <3>2. CASE f = "srtt_permille"
      BY <2>1, <3>2 DEF Fieldwise
    <3>3. CASE f = "floor_us"
      BY <2>1, <3>3 DEF Fieldwise
    <3>4. CASE f = "ceiling_us"
      BY <2>1, <3>4 DEF Fieldwise
    <3>5. CASE f = "warmup_samples"
      BY <2>1, <3>5 DEF Fieldwise
    <3>6. CASE f = "normal"
      BY <2>1, <3>6 DEF Fieldwise
    <3>7. CASE f = "congested"
      BY <2>1, <3>7 DEF Fieldwise
    <3> QED  BY <2>2, <3>1, <3>2, <3>3, <3>4, <3>5, <3>6, <3>7
  <2>4. SlotInv'
    BY <2>1, <2>3 DEF IndInv, SlotInv, Fields
  <2> QED  BY <1>2, <2>4, SlotKept DEF WriteField
<1> QED  BY <1>1, <1>2

-----------------------------------------------------------------------------
(* The callback's loads that touch neither flow nor socket.                *)
LEMMA SlotUnchanged == SlotInv /\ UNCHANGED <<slot, config, written>> => SlotInv'
BY DEF SlotInv

LEMMA OnlyLoads ==
  ASSUME IndInv, UNCHANGED <<slot, config, written, flow, sock>>, ce' \in BOOLEAN, LoadInv'
  PROVE  IndInv'
<1>1. SlotInv' /\ FlowInv' /\ NewInv'
  BY SlotUnchanged DEF IndInv, FlowInv, NewInv
<1>2. RtoStaysSafe' /\ DebounceHonest'
  BY DEF IndInv, RtoStaysSafe, DebounceHonest
<1> QED  BY <1>1, <1>2 DEF IndInv

(* A sample times a factor, in permille.                                   *)
LEMMA Scaled == ASSUME NEW b \in Nat, NEW k \in Nat PROVE (b * k) \div 1000 \in Nat
<1>1. b * k \in Nat
  OBVIOUS
<1> DEFINE p == b * k
<1> HIDE DEF p
<1>2. p \in Nat => p \div 1000 \in Nat
  OBVIOUS
<1> QED  BY <1>1, <1>2 DEF p

LEMMA LoadsOK ==
  ASSUME IndInv, LoadSrttPermille \/ LoadCeiling \/ LoadFloor \/ CeMark
  PROVE  IndInv'
<1>0. /\ local \in [base : Base \cup {0}, target : Nat, ceiling : Nat, congested : BOOLEAN]
      /\ slot \in Fieldwise /\ Base \cup {0} \subseteq Nat /\ RtoMinDefault \in Nat
      /\ slot.srtt_permille \in Nat /\ slot.ceiling_us \in Nat /\ slot.floor_us \in Nat
      /\ ce \in BOOLEAN
  BY LimitsAssumption DEF IndInv, LoadInv, SlotInv, FlowInv, Fieldwise
<1>1. CASE LoadSrttPermille
  <2>1. (local.base * slot.srtt_permille) \div 1000 \in Nat
    BY <1>0, Scaled
  <2>2. LoadInv'
    BY <1>0, <1>1, <2>1 DEF LoadSrttPermille, IndInv, LoadInv, Loads
  <2> QED  BY <1>0, <1>1, <2>2, OnlyLoads DEF LoadSrttPermille
<1>2. CASE LoadCeiling
  <2> DEFINE high == IF slot.ceiling_us < RtoMinDefault THEN slot.ceiling_us ELSE RtoMinDefault
  <2>1. high \in Nat /\ high <= slot.ceiling_us
    BY <1>0
  <2>2. /\ local' = [local EXCEPT !.ceiling = high] /\ at = "ceiling" /\ at' = "floor"
        /\ flow' = flow
    BY <1>2 DEF LoadCeiling
  <2> HIDE DEF high
  <2>3. local'.ceiling = high
        /\ local' \in [base : Base \cup {0}, target : Nat, ceiling : Nat, congested : BOOLEAN]
    BY <1>0, <2>1, <2>2
  <2>4. \E c \in Tuning : local'.ceiling <= c.ceiling_us
    BY <2>1, <2>3 DEF IndInv, SlotInv
  <2>5. LoadInv'
    BY <2>2, <2>3, <2>4 DEF IndInv, LoadInv, Loads
  <2> QED  BY <1>0, <1>2, <2>5, OnlyLoads DEF LoadCeiling
<1>3. CASE LoadFloor
  <2>1. at' = "clamp" => \E c \in Tuning : c.floor_us <= local.ceiling
    BY <1>0, <1>3 DEF LoadFloor, IndInv, SlotInv
  <2>2. LoadInv'
    BY <1>3, <2>1 DEF LoadFloor, IndInv, LoadInv, Loads
  <2> QED  BY <1>0, <1>3, <2>2, OnlyLoads DEF LoadFloor
<1>4. CASE CeMark
  <2>1. LoadInv'
    BY <1>4 DEF CeMark, IndInv, LoadInv
  <2> QED  BY <1>4, <2>1, OnlyLoads DEF CeMark
<1> QED  BY <1>1, <1>2, <1>3, <1>4

-----------------------------------------------------------------------------
(* The steps on the flow and its socket.                                   *)
LEMMA EstablishedOK == ASSUME IndInv, Established PROVE IndInv'
<1>1. SlotInv' /\ UNCHANGED <<sock, ce, at, local>> /\ at = "idle" /\ flow.state = "new"
  BY SlotUnchanged DEF Established, IndInv
<1>2. PICK st \in {"subscribed", "out"} : flow' = [flow EXCEPT !.state = st]
  BY DEF Established
<1>3. /\ FlowInv' /\ flow'.state = st
      /\ flow'.applied_us = 0 /\ flow'.applied_rto_max_ms = 0
      /\ sock.rto_min = RtoMinDefault /\ sock.rto_max = RtoMaxDefault
  BY <1>1, <1>2 DEF IndInv, FlowInv, NewInv
<1>4. LoadInv'
  BY <1>1 DEF IndInv, LoadInv
<1>5. NewInv' /\ RtoStaysSafe' /\ DebounceHonest'
  BY <1>1, <1>2, <1>3, LimitsAssumption DEF NewInv, RtoStaysSafe, DebounceHonest
<1> QED  BY <1>1, <1>3, <1>4, <1>5 DEF IndInv

(* A flow that leaves keeps safe bounds, whatever the kernel refuses.      *)
LEMMA UnsubscribeOK ==
  ASSUME IndInv, skyline_rto_unsubscribe, at = "idle",
         UNCHANGED <<slot, config, written, ce, at, local>>
  PROVE  IndInv'
<1>1. SlotInv'
  BY SlotUnchanged DEF IndInv
<1> DEFINE m == SetRtoMin(RtoMinDefault)
           x == SetRtoMax(RtoMaxDefault)
<1>2. /\ m \in {RtoMinDefault, sock.rto_min} /\ x \in {RtoMaxDefault, sock.rto_max}
  BY DEF SetRtoMin, SetRtoMax
<1>3. /\ flow' = [flow EXCEPT !.state = "out"]
      /\ sock' = [sock EXCEPT !.rto_min = m, !.rto_max = x]
  BY DEF skyline_rto_unsubscribe
<1> HIDE DEF m, x
<1>4. m \in Nat /\ x \in Nat
  BY <1>2, LimitsAssumption DEF IndInv, FlowInv
<1>5. FlowInv' /\ flow'.state = "out" /\ sock'.rto_min = m /\ sock'.rto_max = x
  BY <1>3, <1>4, Zenon DEF IndInv, FlowInv
<1>6. LoadInv'
  BY DEF IndInv, LoadInv
<1>7. NewInv' /\ DebounceHonest'
  BY <1>5 DEF NewInv, DebounceHonest
<1>8. RtoStaysSafe'
  BY <1>2, <1>5, LimitsAssumption DEF IndInv, RtoStaysSafe
<1> QED  BY <1>1, <1>5, <1>6, <1>7, <1>8 DEF IndInv

LEMMA RttCallbackOK == ASSUME IndInv, RttCallback PROVE IndInv'
<1>1. CASE skyline_rto_unsubscribe /\ UNCHANGED <<at, local>>
  BY <1>1, UnsubscribeOK DEF RttCallback
<1>2. CASE /\ at' = "warmup" /\ UNCHANGED <<flow, sock>>
           /\ \E b \in SampleBase : local' = [Unset EXCEPT !.base = b]
  <2>1. PICK b \in Base : local' = [Unset EXCEPT !.base = b]
    BY <1>2 DEF SampleBase
  <2>2. LoadInv'
    BY <1>2, <2>1, Zenon DEF RttCallback, LoadInv, Loads, Unset
  <2>3. ce' \in BOOLEAN
    BY DEF RttCallback, IndInv, FlowInv
  <2> QED  BY <1>2, <2>2, <2>3, OnlyLoads DEF RttCallback
<1> QED  BY <1>1, <1>2 DEF RttCallback

LEMMA IdleLoad == Idle => at' = "idle" /\ local' = Unset
BY DEF Idle

LEMMA UnsetTyped ==
  Unset \in [base : Base \cup {0}, target : Nat, ceiling : Nat, congested : BOOLEAN]
BY DEF Unset

LEMMA LoadWarmupOK == ASSUME IndInv, LoadWarmup PROVE IndInv'
<1>1. CASE flow' = [flow EXCEPT !.samples = @ + 1] /\ Idle
  <2>1. /\ FlowInv' /\ flow'.state = flow.state /\ flow'.applied_us = flow.applied_us
        /\ flow'.applied_rto_max_ms = flow.applied_rto_max_ms /\ sock' = sock
    BY <1>1 DEF LoadWarmup, IndInv, FlowInv
  <2>2. LoadInv'
    BY <1>1, IdleLoad, UnsetTyped DEF LoadInv, Loads
  <2>3. SlotInv'
    BY SlotUnchanged DEF LoadWarmup, IndInv
  <2>4. NewInv' /\ RtoStaysSafe' /\ DebounceHonest'
    BY <2>1 DEF IndInv, NewInv, RtoStaysSafe, DebounceHonest
  <2> QED  BY <2>1, <2>2, <2>3, <2>4 DEF IndInv
<1>2. CASE at' = "srtt" /\ UNCHANGED <<flow, local>>
  <2>1. LoadInv'
    BY <1>2 DEF LoadWarmup, IndInv, LoadInv, Loads
  <2>2. ce' \in BOOLEAN
    BY DEF LoadWarmup, IndInv, FlowInv
  <2> QED  BY <1>2, <2>1, <2>2, OnlyLoads DEF LoadWarmup
<1> QED  BY <1>1, <1>2 DEF LoadWarmup

-----------------------------------------------------------------------------
(* What a clamp returns, also when its bounds come from two configurations *)
(* and the lower is above the upper one.                                   *)
LEMMA ClampedBounds ==
  ASSUME NEW t \in Nat, NEW low \in Nat, NEW high \in Nat
  PROVE  /\ Clamped(t, low, high) \in Nat /\ Clamped(t, low, high) <= high
         /\ Clamped(t, low, high) >= low \/ Clamped(t, low, high) = high
BY DEF Clamped, Raised, Lowered

(* A value that is taken is remembered, and none that is taken is 0.       *)
LEMMA ApplyRtoMinOK ==
  ASSUME FlowInv, RtoStaysSafe, DebounceHonest, flow.state = "subscribed",
         ce' \in BOOLEAN, NEW v \in Nat, ApplyRtoMin(v),
         \E c \in Tuning : c.floor_us <= v, \E c \in Tuning : v <= c.ceiling_us
  PROVE  FlowInv' /\ flow'.state = "subscribed" /\ RtoStaysSafe' /\ DebounceHonest'
<1>1. CASE TakesRtoMin(v)
  <2>1. v # 0
    BY <1>1, LimitsAssumption DEF TakesRtoMin
  <2>2. flow' = [flow EXCEPT !.applied_us = v] /\ (sock' = sock \/ sock' = [sock EXCEPT !.rto_min = v])
    BY <1>1 DEF ApplyRtoMin, SetRtoMin
  <2>3. flow.applied_us = v => sock.rto_min = v
    BY <2>1 DEF DebounceHonest
  <2>4. /\ FlowInv' /\ flow'.state = "subscribed" /\ flow'.applied_us = v
        /\ flow'.applied_rto_max_ms = flow.applied_rto_max_ms
    BY <2>2 DEF FlowInv
  <2>5. sock'.rto_min = v /\ sock'.rto_max = sock.rto_max
    BY <1>1, <2>3 DEF ApplyRtoMin, SetRtoMin, FlowInv
  <2>6. RtoStaysSafe'
    BY <2>5 DEF RtoStaysSafe
  <2>7. DebounceHonest'
    BY <2>1, <2>4, <2>5 DEF DebounceHonest
  <2> QED  BY <2>4, <2>6, <2>7
<1>2. CASE ~TakesRtoMin(v)
  <2>1. /\ flow' = flow /\ (sock' = sock \/ sock' = [sock EXCEPT !.rto_min = sock.rto_min])
    BY <1>2 DEF ApplyRtoMin, SetRtoMin
  <2>2. sock' = sock
    BY <2>1 DEF FlowInv
  <2> QED  BY <2>1, <2>2 DEF FlowInv, RtoStaysSafe, DebounceHonest
<1> QED  BY <1>1, <1>2

LEMMA LoadFloorAgainOK == ASSUME IndInv, LoadFloorAgain PROVE IndInv'
<1>0. /\ at = "clamp" /\ at' = "normal" /\ local' = local /\ ce' = ce
      /\ flow.state = "subscribed" /\ local.target \in Nat /\ local.ceiling \in Nat
      /\ slot.floor_us \in Nat /\ ce \in BOOLEAN
  BY DEF LoadFloorAgain, IndInv, LoadInv, FlowInv, SlotInv, Fieldwise
<1> DEFINE v == Clamped(local.target, slot.floor_us, local.ceiling)
<1>1. ApplyRtoMin(v)
  BY DEF LoadFloorAgain
<1>2. v \in Nat /\ v <= local.ceiling /\ (v >= slot.floor_us \/ v = local.ceiling)
  BY <1>0, ClampedBounds, Zenon
<1> HIDE DEF v
<1>3. Tuning \subseteq Fieldwise
  BY LimitsAssumption
<1>4. PICK c \in Tuning : local.ceiling <= c.ceiling_us
  BY <1>0 DEF IndInv, LoadInv
<1>5. PICK d \in Tuning : d.floor_us <= local.ceiling
  BY <1>0 DEF IndInv, LoadInv
<1>6. PICK e \in Tuning : e.floor_us = slot.floor_us
  BY DEF IndInv, SlotInv
<1>7. c.ceiling_us \in Nat /\ d.floor_us \in Nat
  BY <1>3 DEF Fieldwise
<1>8. v <= c.ceiling_us /\ (d.floor_us <= v \/ e.floor_us <= v)
  BY <1>0, <1>2, <1>4, <1>5, <1>6, <1>7
<1>9. FlowInv' /\ flow'.state = "subscribed" /\ RtoStaysSafe' /\ DebounceHonest'
  BY <1>0, <1>1, <1>2, <1>8, ApplyRtoMinOK DEF IndInv
<1>10. LoadInv'
  BY <1>0, <1>9 DEF IndInv, LoadInv, Loads
<1>11. SlotInv'
  BY SlotUnchanged DEF LoadFloorAgain, IndInv
<1> QED  BY <1>9, <1>10, <1>11 DEF IndInv, NewInv

-----------------------------------------------------------------------------
(* The ceiling, off and on.                                                *)
LEMMA RtoMaxOffOK ==
  ASSUME FlowInv, RtoStaysSafe, DebounceHonest, flow.state = "subscribed",
         ce' \in BOOLEAN, RtoMaxOff
  PROVE  FlowInv' /\ flow'.state = "subscribed" /\ RtoStaysSafe' /\ DebounceHonest'
<1>1. CASE UNCHANGED <<sock, flow>>
  BY <1>1 DEF FlowInv, RtoStaysSafe, DebounceHonest
<1>2. CASE /\ sock' = [sock EXCEPT !.rto_max = RtoMaxDefault]
           /\ flow' = [flow EXCEPT !.applied_rto_max_ms = 0]
  <2>1. /\ FlowInv' /\ flow'.state = "subscribed" /\ flow'.applied_us = flow.applied_us
        /\ flow'.applied_rto_max_ms = 0
        /\ sock'.rto_min = sock.rto_min /\ sock'.rto_max = RtoMaxDefault
    BY <1>2, LimitsAssumption DEF FlowInv
  <2>2. RtoStaysSafe' /\ DebounceHonest'
    BY <2>1, LimitsAssumption DEF RtoStaysSafe, DebounceHonest
  <2> QED  BY <2>1, <2>2
<1> QED  BY <1>1, <1>2 DEF RtoMaxOff

LEMMA ApplyRtoMaxOK ==
  ASSUME FlowInv, RtoStaysSafe, DebounceHonest, flow.state = "subscribed",
         ce' \in BOOLEAN, NEW v \in Nat, ApplyRtoMax(v)
  PROVE  FlowInv' /\ flow'.state = "subscribed" /\ RtoStaysSafe' /\ DebounceHonest'
<1>1. CASE TakesRtoMax(v)
  <2>1. v # 0 /\ RtoMaxFloor <= v /\ v <= RtoMaxDefault
    BY <1>1, LimitsAssumption DEF TakesRtoMax
  <2>2. flow' = [flow EXCEPT !.applied_rto_max_ms = v]
    BY <1>1 DEF ApplyRtoMax
  <2>3. flow.applied_rto_max_ms = v => sock.rto_max = v
    BY <2>1 DEF DebounceHonest
  <2>4. /\ flow'.state = "subscribed" /\ flow'.applied_rto_max_ms = v
        /\ flow'.applied_us = flow.applied_us
        /\ flow' \in [state : {"new", "subscribed", "out"}, samples : Nat,
                      applied_us : Nat, applied_rto_max_ms : Nat]
    BY <2>2 DEF FlowInv
  <2>5. /\ sock'.rto_max = v /\ sock'.rto_min = sock.rto_min
        /\ sock' \in [rto_min : Nat, rto_max : Nat, known : BOOLEAN]
    BY <1>1, <2>3 DEF ApplyRtoMax, SetRtoMax, FlowInv
  <2>6. RtoStaysSafe'
    BY <2>1, <2>5 DEF RtoStaysSafe
  <2>7. DebounceHonest'
    BY <2>1, <2>4, <2>5 DEF DebounceHonest
  <2> QED  BY <2>4, <2>5, <2>6, <2>7 DEF FlowInv
<1>2. CASE ~TakesRtoMax(v)
  <2>1. /\ flow' = flow /\ (sock' = sock \/ sock' = [sock EXCEPT !.rto_max = sock.rto_max])
    BY <1>2 DEF ApplyRtoMax, SetRtoMax
  <2>2. sock' = sock
    BY <2>1 DEF FlowInv
  <2> QED  BY <2>1, <2>2 DEF FlowInv, RtoStaysSafe, DebounceHonest
<1> QED  BY <1>1, <1>2

LEMMA LoadNormalOK == ASSUME IndInv, LoadNormal PROVE IndInv'
<1>0. /\ at = "normal" /\ flow.state = "subscribed" /\ ce' \in BOOLEAN /\ ce \in BOOLEAN
      /\ local \in [base : Base \cup {0}, target : Nat, ceiling : Nat, congested : BOOLEAN]
  BY Zenon DEF LoadNormal, IndInv, LoadInv, FlowInv
<1>1. CASE RtoMaxOff /\ Idle
  <2>1. FlowInv' /\ flow'.state = "subscribed" /\ RtoStaysSafe' /\ DebounceHonest'
    BY <1>0, <1>1, RtoMaxOffOK DEF IndInv
  <2>2. LoadInv'
    BY <1>1, IdleLoad, UnsetTyped DEF LoadInv, Loads
  <2>3. SlotInv'
    BY SlotUnchanged DEF LoadNormal, IndInv
  <2> QED  BY <2>1, <2>2, <2>3 DEF IndInv, NewInv
<1>2. CASE /\ \E queueing \in BOOLEAN : local' = [local EXCEPT !.congested = ce \/ queueing]
           /\ at' = "factor" /\ UNCHANGED <<sock, flow>>
  <2>1. PICK verdict \in BOOLEAN : local' = [local EXCEPT !.congested = verdict]
    <3>1. PICK queueing \in BOOLEAN : local' = [local EXCEPT !.congested = ce \/ queueing]
      BY <1>2
    <3>2. (ce \/ queueing) \in BOOLEAN
      BY Zenon
    <3> QED  BY <3>1, <3>2, Zenon
  <2>2. local' \in [base : Base \cup {0}, target : Nat, ceiling : Nat, congested : BOOLEAN]
    BY <1>0, <2>1
  <2>3. LoadInv'
    <3>1. at' = "factor" /\ flow'.state = "subscribed"
      BY <1>0, <1>2
    <3> QED  BY <2>2, <3>1 DEF LoadInv, Loads
  <2> QED  BY <1>0, <1>2, <2>3, OnlyLoads DEF LoadNormal
<1> QED  BY <1>1, <1>2 DEF LoadNormal

LEMMA LoadFactorOK == ASSUME IndInv, LoadFactor PROVE IndInv'
<1> DEFINE k == IF local.congested THEN slot.congested ELSE slot.normal
           t == (local.base * k) \div 1000
           v == Clamped(t, RtoMaxFloor, RtoMaxDefault)
<1>0. /\ flow.state = "subscribed" /\ ce' \in BOOLEAN /\ local.base \in Nat /\ k \in Nat
      /\ RtoMaxFloor \in Nat /\ RtoMaxDefault \in Nat
  <2>1. /\ flow.state = "subscribed" /\ ce' \in BOOLEAN /\ local.base \in Base \cup {0}
    BY DEF LoadFactor, IndInv, LoadInv, FlowInv
  <2>2. slot.congested \in Nat /\ slot.normal \in Nat
    BY DEF IndInv, SlotInv, Fieldwise
  <2>3. k \in Nat
    BY <2>2
  <2>4. RtoMaxFloor \in Nat /\ RtoMaxDefault \in Nat /\ Base \cup {0} \subseteq Nat
    BY LimitsAssumption
  <2> HIDE DEF k, t, v
  <2> QED  BY <2>1, <2>3, <2>4
<1>1. ApplyRtoMax(v)
  BY DEF LoadFactor
<1> HIDE DEF k
<1>2. t \in Nat
  BY <1>0, Scaled
<1> HIDE DEF t
<1>3. v \in Nat
  BY <1>0, <1>2, ClampedBounds, Zenon
<1> HIDE DEF v
<1>4. FlowInv' /\ flow'.state = "subscribed" /\ RtoStaysSafe' /\ DebounceHonest'
  BY <1>0, <1>1, <1>3, ApplyRtoMaxOK DEF IndInv
<1>5. LoadInv'
  BY IdleLoad, UnsetTyped DEF LoadFactor, LoadInv, Loads
<1>6. SlotInv'
  BY SlotUnchanged DEF LoadFactor, IndInv
<1> QED  BY <1>4, <1>5, <1>6 DEF IndInv, NewInv

-----------------------------------------------------------------------------
LEMMA Stutter == IndInv /\ UNCHANGED vars => IndInv'
<1> SUFFICES ASSUME IndInv, UNCHANGED vars PROVE IndInv'
  OBVIOUS
<1>1. SlotInv' /\ UNCHANGED <<flow, sock, ce, at, local>>
  BY SlotUnchanged DEF vars, IndInv
<1> QED  BY <1>1, SlotKept

LEMMA Step == ASSUME IndInv, [Next]_vars PROVE IndInv'
<1>1. CASE SetRackRto \/ WriteField
  BY <1>1, DaemonOK
<1>2. CASE Established
  BY <1>2, EstablishedOK
<1>3. CASE RttCallback
  BY <1>3, RttCallbackOK
<1>4. CASE LoadWarmup
  BY <1>4, LoadWarmupOK
<1>5. CASE LoadSrttPermille \/ LoadCeiling \/ LoadFloor \/ CeMark
  BY <1>5, LoadsOK
<1>6. CASE LoadFloorAgain
  BY <1>6, LoadFloorAgainOK
<1>7. CASE LoadNormal
  BY <1>7, LoadNormalOK
<1>8. CASE LoadFactor
  BY <1>8, LoadFactorOK
<1>9. CASE UNCHANGED vars
  BY <1>9, Stutter
<1> QED  BY <1>1, <1>2, <1>3, <1>4, <1>5, <1>6, <1>7, <1>8, <1>9 DEF Next, Callback

LEMMA Sound == ASSUME IndInv PROVE RtoSound
<1>1. DOMAIN slot = DOMAIN config
  <2>1. slot \in Fieldwise /\ config \in Fieldwise
    BY LimitsAssumption DEF IndInv, SlotInv
  <2> QED  BY <2>1 DEF Fieldwise
<1>2. TypeOK
  BY <1>1 DEF IndInv, SlotInv, FlowInv, LoadInv, Loads, TypeOK
<1> QED  BY <1>2 DEF RtoSound, IndInv

(* skyline_update_rto_tuning against rto_tuning being overwritten: however *)
(* the loads of a callback and the daemon's writes interleave, a socket's  *)
(* RTO floor is one that some published floor and some published ceiling   *)
(* allow (or the default), its RTO ceiling stays within the kernel's range *)
(* and what its flow remembers is what the socket has, for all             *)
(* configurations, samples and limits.                                     *)
THEOREM RtoStaysSound == Spec => []RtoSound
<1>1. Init => IndInv
  BY InitOK
<1>2. IndInv /\ [Next]_vars => IndInv'
  BY Step
<1>3. IndInv => RtoSound
  BY Sound
<1> QED  BY <1>1, <1>2, <1>3, PTL DEF Spec

-----------------------------------------------------------------------------
Counts5 == [M!Counter -> Nat]
Contexts == {"task", "softirq"}

(* A CPU has counted a round before its first hit, and before any run of   *)
(* it gets to count one.                                                   *)
Founded(p) == /\ mem[p]["guardrail_hits"] > 0 => mem[p]["guardrail_rounds"] > 0
              /\ \A x \in Contexts : counting[p][x] = "guardrail_hits" => mem[p]["guardrail_rounds"] > 0

(* A reading that holds a hit holds a round, or is about to.               *)
Backed == total["guardrail_hits"] > 0 =>
            \/ total["guardrail_rounds"] > 0
            \/ copied % 5 = 3 /\ mem[(copied \div 5) + 1]["guardrail_rounds"] > 0

CountsInv == /\ mem \in [M!Cpus -> Counts5]
             /\ counting \in [M!Cpus -> [Contexts -> M!Counter \cup {"idle"}]]
             /\ loaded \in [M!Cpus -> SUBSET Nat]
             /\ \A p \in M!Cpus : loaded[p] # {} => counting[p]["task"] # "idle"
             /\ copied \in Nat /\ copied < 5 * CPU /\ total \in Counts5
             /\ readings \in Seq(Counts5)
             /\ \A p \in M!Cpus : Founded(p)
             /\ Backed
             /\ \A i \in DOMAIN readings :
                  readings[i]["guardrail_hits"] > 0 => readings[i]["guardrail_rounds"] > 0

LEMMA AfterIs ==
  ASSUME NEW c \in M!Counter \cup {"idle"}
  PROVE  /\ M!After(c) \subseteq M!Counter \cup {"idle"}
         /\ "guardrail_hits" \in M!After(c) => c = "guardrail_rounds"
BY DEF M!After, M!Counter

LEMMA Apart ==
  ASSUME CountsInv
  PROVE  M!CountedApart
<1> SUFFICES ASSUME NEW i \in DOMAIN readings
             PROVE  M!Decisions(readings[i]).daemon = "0.5.0 or later"
  BY Zenon DEF M!CountedApart
<1> DEFINE m == readings[i]
<1>1. m \in Counts5 /\ (m["guardrail_hits"] > 0 => m["guardrail_rounds"] > 0)
  BY DEF CountsInv
<1>2. m["guardrail_hits"] \in Nat /\ m["guardrail_rounds"] \in Nat
  BY <1>1 DEF Counts5, M!Counter
<1>3. ~(m.guardrail_hits > 0 /\ m.guardrail_rounds = 0)
  BY <1>1, <1>2
<1> HIDE DEF m
<1>4. M!Decisions(m)
        = [daemon |-> "0.5.0 or later", loss |-> M!RateMark(m.loss_events, m.ack_events, 2),
           guardrail |-> M!RateMark(m.guardrail_hits, m.guardrail_rounds, 5),
           cap |-> M!RateMark(m.cwnd_cap_hits, m.ack_events, 5)]
  BY <1>3, Zenon DEF M!Decisions
<1>5. PICK z : z = "0.5.0 or later"
  BY Zenon
<1>6. PICK l, g, k : M!Decisions(m) = [daemon |-> z, loss |-> l, guardrail |-> g, cap |-> k]
  BY <1>4, <1>5, Zenon
<1>7. M!Decisions(m).daemon = z
  BY <1>6
<1> QED  BY <1>5, <1>7, Zenon DEF m

(* What a step that counts may do to a CPU's counters and contexts.        *)
LEMMA Counting ==
  ASSUME CountsInv, NEW p \in M!Cpus, NEW x \in Contexts, NEW v \in Nat,
         counting[p][x] # "idle",
         mem' = [mem EXCEPT ![p][counting[p][x]] = v + 1], M!Goes(p, x)
  PROVE  /\ mem' \in [M!Cpus -> Counts5]
         /\ counting' \in [M!Cpus -> [Contexts -> M!Counter \cup {"idle"}]]
         /\ \A q \in M!Cpus : Founded(q)'
         /\ \A q \in M!Cpus : mem[q]["guardrail_rounds"] > 0 => mem'[q]["guardrail_rounds"] > 0
<1> DEFINE c == counting[p][x]
<1>1. PICK d \in M!After(c) : counting' = [counting EXCEPT ![p][x] = d]
  BY Zenon DEF M!Goes
<1>2. mem \in [M!Cpus -> Counts5] /\ counting \in [M!Cpus -> [Contexts -> M!Counter \cup {"idle"}]]
  BY DEF CountsInv
<1>3. c \in M!Counter
  BY <1>2
<1>4. d \in M!Counter \cup {"idle"} /\ (d = "guardrail_hits" => c = "guardrail_rounds")
  BY <1>1, <1>3, AfterIs
<1>5. mem' = [mem EXCEPT ![p][c] = v + 1]
  OBVIOUS
<1> HIDE DEF c
<1>6. mem' \in [M!Cpus -> Counts5]
  BY <1>2, <1>3, <1>5 DEF Counts5
<1>7. counting' \in [M!Cpus -> [Contexts -> M!Counter \cup {"idle"}]]
  BY <1>1, <1>2, <1>4
<1>8. \A q \in M!Cpus : mem[q]["guardrail_rounds"] > 0 => mem'[q]["guardrail_rounds"] > 0
  BY <1>2, <1>3, <1>5 DEF Counts5, M!Counter
<1>9. ASSUME NEW q \in M!Cpus
      PROVE  Founded(q)'
  <2>1. Founded(q)
    BY DEF CountsInv
  <2>2. CASE q # p
    <3>1. mem'[q] = mem[q] /\ counting'[q] = counting[q]
      BY <1>1, <1>2, <1>5, <2>2
    <3> QED  BY <2>1, <3>1, Zenon DEF Founded
  <2>3. CASE q = p
    <3>1. /\ mem'[p] = [mem[p] EXCEPT ![c] = v + 1] /\ mem[p] \in Counts5
          /\ counting'[p] = [counting[p] EXCEPT ![x] = d] /\ counting[p] \in [Contexts -> M!Counter \cup {"idle"}]
      BY <1>1, <1>2, <1>5, Zenon
    <3>2. c = "guardrail_rounds" => mem'[p]["guardrail_rounds"] > 0
      BY <3>1 DEF Counts5, M!Counter
    <3>3. c = "guardrail_hits" => mem'[p]["guardrail_rounds"] > 0
      BY <1>8, <2>1, <2>3 DEF Founded, c
    <3>4. c \notin {"guardrail_rounds", "guardrail_hits"}
            => mem'[p]["guardrail_hits"] = mem[p]["guardrail_hits"]
               /\ mem'[p]["guardrail_rounds"] = mem[p]["guardrail_rounds"]
      BY <1>3, <3>1 DEF Counts5, M!Counter
    <3>5. mem'[p]["guardrail_hits"] > 0 => mem'[p]["guardrail_rounds"] > 0
      BY <2>1, <2>3, <3>2, <3>3, <3>4 DEF Founded
    <3>6. ASSUME NEW y \in Contexts, counting'[p][y] = "guardrail_hits"
          PROVE  mem'[p]["guardrail_rounds"] > 0
      <4>1. CASE y = x
        BY <1>4, <3>1, <3>2, <3>6, <4>1
      <4>2. CASE y # x
        <5>1. counting[p][y] = "guardrail_hits"
          BY <3>1, <3>6, <4>2
        <5> QED  BY <1>8, <2>1, <2>3, <5>1, Zenon DEF Founded
      <4> QED  BY <4>1, <4>2
    <3> QED  BY <2>3, <3>5, <3>6, Zenon DEF Founded
  <2> QED  BY <2>2, <2>3
<1> QED  BY <1>6, <1>7, <1>8, <1>9

LEMMA PlaceIs ==
  ASSUME NEW k \in Nat, k < 5 * CPU
  PROVE  (k \div 5) + 1 \in M!Cpus
BY MetricsAssumption DEF M!Cpus, M!CpuAssumption

LEMMA BackedMoves ==
  ASSUME CountsInv, total' = total, copied' = copied,
         \A q \in M!Cpus : mem[q]["guardrail_rounds"] > 0 => mem'[q]["guardrail_rounds"] > 0
  PROVE  Backed'
<1>1. (copied \div 5) + 1 \in M!Cpus
  BY PlaceIs DEF CountsInv
<1> QED  BY <1>1, Zenon DEF CountsInv, Backed

LEMMA ReadStep ==
  ASSUME CountsInv, M!Read
  PROVE  CountsInv'
<1> DEFINE p == (copied \div 5) + 1
           c == M!Counters[(copied % 5) + 1]
           sum == [total EXCEPT ![c] = @ + mem[p][c]]
<1>1. Len(M!Counters) = 5
  BY DEF M!Counters
<1>2. /\ copied \in Nat /\ copied < 5 * CPU /\ total \in Counts5 /\ mem \in [M!Cpus -> Counts5]
      /\ readings \in Seq(Counts5) /\ Backed /\ CPU \in Nat
      /\ \A q \in M!Cpus : Founded(q)
      /\ \A i \in DOMAIN readings :
             readings[i]["guardrail_hits"] > 0 => readings[i]["guardrail_rounds"] > 0
  BY MetricsAssumption DEF CountsInv, M!CpuAssumption
<1>3. IF copied + 1 = 5 * CPU
      THEN copied' = 0 /\ total' = M!Zero /\ readings' = Append(readings, sum)
      ELSE copied' = copied + 1 /\ total' = sum /\ readings' = readings
  BY <1>1, Zenon DEF M!Read
<1>4. p \in M!Cpus
  BY <1>2, PlaceIs
<1>5. /\ copied % 5 = 0 => c = "ack_events"
      /\ copied % 5 = 1 => c = "loss_events"
      /\ copied % 5 = 2 => c = "guardrail_hits"
      /\ copied % 5 = 3 => c = "guardrail_rounds"
      /\ copied % 5 = 4 => c = "cwnd_cap_hits"
  BY DEF M!Counters
<1>6. copied % 5 \in 0 .. 4
  BY <1>2
<1>7. c \in M!Counter
  <2> HIDE DEF c
  <2> QED  BY <1>5, <1>6 DEF M!Counter
<1> HIDE DEF c, p
<1>8. mem[p] \in Counts5 /\ Founded(p)
  BY <1>2, <1>4
<1>9. /\ sum \in Counts5
      /\ sum["guardrail_hits"] = IF c = "guardrail_hits"
           THEN total["guardrail_hits"] + mem[p]["guardrail_hits"] ELSE total["guardrail_hits"]
      /\ sum["guardrail_rounds"] = IF c = "guardrail_rounds"
           THEN total["guardrail_rounds"] + mem[p]["guardrail_rounds"] ELSE total["guardrail_rounds"]
  <2> DEFINE m == mem[p]
  <2>1. m \in [M!Counter -> Nat] /\ total \in [M!Counter -> Nat] /\ c \in M!Counter
        /\ "guardrail_hits" \in M!Counter /\ "guardrail_rounds" \in M!Counter
    BY <1>2, <1>7, <1>8 DEF Counts5, M!Counter
  <2>2. sum = [total EXCEPT ![c] = @ + m[c]]
    OBVIOUS
  <2> HIDE DEF m, sum
  <2>3. /\ sum \in [M!Counter -> Nat]
        /\ sum["guardrail_hits"] = IF c = "guardrail_hits"
             THEN total["guardrail_hits"] + m["guardrail_hits"] ELSE total["guardrail_hits"]
        /\ sum["guardrail_rounds"] = IF c = "guardrail_rounds"
             THEN total["guardrail_rounds"] + m["guardrail_rounds"] ELSE total["guardrail_rounds"]
    BY <2>1, <2>2
  <2> QED  BY <2>3, Zenon DEF m, Counts5
<1>10. /\ total["guardrail_hits"] \in Nat /\ total["guardrail_rounds"] \in Nat
       /\ mem[p]["guardrail_hits"] \in Nat /\ mem[p]["guardrail_rounds"] \in Nat
  BY <1>2, <1>8 DEF Counts5, M!Counter
<1>11. total["guardrail_hits"] > 0 =>
         \/ total["guardrail_rounds"] > 0
         \/ copied % 5 = 3 /\ mem[p]["guardrail_rounds"] > 0
  <2>1. Backed
    BY <1>2
  <2> QED  BY <2>1 DEF Backed, p
<1>12. mem[p]["guardrail_hits"] > 0 => mem[p]["guardrail_rounds"] > 0
  BY <1>8, Zenon DEF Founded
<1> HIDE DEF sum
<1>13. sum["guardrail_hits"] > 0 =>
          \/ sum["guardrail_rounds"] > 0
          \/ copied % 5 = 2 /\ mem[p]["guardrail_rounds"] > 0
  BY <1>5, <1>6, <1>9, <1>10, <1>11, <1>12
<1>14. UNCHANGED <<mem, counting, loaded, runs>>
  BY DEF M!Read
<1>15. CASE copied + 1 = 5 * CPU
  <2>1. copied' = 0 /\ total' = M!Zero /\ readings' = Append(readings, sum)
    BY <1>3, <1>15, Zenon
  <2>2. copied % 5 # 2
    BY <1>2, <1>15
  <2>3. sum["guardrail_hits"] > 0 => sum["guardrail_rounds"] > 0
    BY <1>13, <2>2
  <2>4. M!Zero \in Counts5 /\ ~(M!Zero["guardrail_hits"] > 0)
    BY DEF M!Zero, Counts5, M!Counter
  <2>5. Backed' /\ total' \in Counts5
    BY <2>1, <2>4, Zenon DEF Backed
  <2>6. /\ readings' \in Seq(Counts5)
        /\ \A i \in DOMAIN readings' :
             readings'[i]["guardrail_hits"] > 0 => readings'[i]["guardrail_rounds"] > 0
    BY <1>2, <1>9, <2>1, <2>3
  <2>7. copied' \in Nat /\ copied' < 5 * CPU
    BY <1>15, <1>2, <2>1
  <2> QED  BY <1>14, <2>5, <2>6, <2>7, Zenon DEF CountsInv, Founded
<1>16. CASE copied + 1 # 5 * CPU
  <2>1. copied' = copied + 1 /\ total' = sum /\ readings' = readings
    BY <1>3, <1>16, Zenon
  <2>2. copied % 5 = 2 => (copied + 1) % 5 = 3 /\ (copied + 1) \div 5 = copied \div 5
    BY <1>2
  <2>3. copied % 5 = 2 /\ mem[p]["guardrail_rounds"] > 0
          => copied' % 5 = 3 /\ mem'[(copied' \div 5) + 1]["guardrail_rounds"] > 0
    BY <1>14, <2>1, <2>2, Zenon DEF p
  <2>4. Backed' /\ total' \in Counts5
    BY <1>9, <1>13, <2>1, <2>3, Zenon DEF Backed
  <2>5. copied' \in Nat /\ copied' < 5 * CPU
    BY <1>16, <1>2, <2>1
  <2> QED  BY <1>2, <1>14, <2>1, <2>4, <2>5, Zenon DEF CountsInv, Founded
<1> QED  BY <1>15, <1>16

LEMMA CountsBegin ==
  ASSUME M!Init
  PROVE  CountsInv
<1>1. M!Zero \in Counts5 /\ \A k \in M!Counter : M!Zero[k] = 0
  BY DEF M!Zero, Counts5
<1>2. /\ "guardrail_hits" \in M!Counter /\ "guardrail_rounds" \in M!Counter
      /\ \A p \in M!Cpus : mem[p] = M!Zero
      /\ \A p \in M!Cpus : \A x \in Contexts : counting[p][x] = "idle"
  BY DEF M!Init, M!Counter, Contexts
<1>3. \A p \in M!Cpus : Founded(p)
  BY <1>1, <1>2 DEF Founded
<1>4. Backed
  BY <1>1, <1>2 DEF M!Init, Backed
<1>5. 0 < 5 * CPU
  BY MetricsAssumption DEF M!CpuAssumption
<1>6. /\ mem \in [M!Cpus -> Counts5] /\ loaded \in [M!Cpus -> SUBSET Nat]
      /\ counting \in [M!Cpus -> [Contexts -> M!Counter \cup {"idle"}]]
  BY <1>1 DEF M!Init, Contexts
<1> QED  BY <1>1, <1>3, <1>4, <1>5, <1>6 DEF M!Init, CountsInv

LEMMA CountsStep ==
  ASSUME CountsInv, [M!Next]_M!vars
  PROVE  CountsInv'
<1>1. ASSUME NEW p \in M!Cpus, NEW x \in {"task", "softirq"}, M!Starts(p, x)
      PROVE  CountsInv'
  <2>1. PICK d \in M!After("idle") : counting' = [counting EXCEPT ![p][x] = d]
    BY <1>1, Zenon DEF M!Starts, M!Goes
  <2>2. d \in M!Counter \cup {"idle"} /\ d # "guardrail_hits"
    BY <2>1 DEF M!After, M!Counter
  <2>3. /\ counting \in [M!Cpus -> [Contexts -> M!Counter \cup {"idle"}]]
        /\ UNCHANGED <<mem, loaded, copied, total, readings>>
    BY <1>1 DEF CountsInv, M!Starts
  <2>4. counting' \in [M!Cpus -> [Contexts -> M!Counter \cup {"idle"}]]
    BY <1>1, <2>1, <2>2, <2>3 DEF Contexts
  <2>5. \A q \in M!Cpus, y \in Contexts : counting'[q][y] = "guardrail_hits" => counting[q][y] = "guardrail_hits"
    BY <1>1, <2>1, <2>2, <2>3 DEF Contexts
  <2>6. \A q \in M!Cpus : Founded(q)'
    BY <2>3, <2>5, Zenon DEF Founded, CountsInv
  <2>7. Backed'
    BY <2>3, BackedMoves, Zenon
  <2>8. \A q \in M!Cpus : loaded'[q] # {} => counting'[q]["task"] # "idle"
    <3>1. d # "idle"
      BY <2>1 DEF M!After
    <3>2. \A q \in M!Cpus : counting'[q]["task"] = "idle" => counting[q]["task"] = "idle"
      BY <1>1, <2>1, <2>3, <3>1 DEF Contexts
    <3> QED  BY <2>3, <3>2, Zenon DEF CountsInv
  <2> QED  BY <2>3, <2>4, <2>6, <2>7, <2>8, Zenon DEF CountsInv
<1>2. ASSUME NEW p \in M!Cpus, M!Loads(p)
      PROVE  CountsInv'
  <2>1. /\ UNCHANGED <<mem, counting, runs, copied, total, readings>>
        /\ loaded' = [loaded EXCEPT ![p] = {mem[p][counting[p]["task"]]}]
        /\ counting[p]["task"] # "idle"
    BY <1>2 DEF M!Loads
  <2>2. counting[p]["task"] \in M!Counter /\ mem[p] \in Counts5 /\ loaded \in [M!Cpus -> SUBSET Nat]
    BY <1>2, <2>1 DEF CountsInv, Contexts
  <2>3. loaded' \in [M!Cpus -> SUBSET Nat]
    BY <2>1, <2>2 DEF Counts5
  <2>4. Backed'
    BY <2>1, BackedMoves, Zenon
  <2> QED  BY <2>1, <2>3, <2>4, Zenon DEF CountsInv, Founded
<1>3. ASSUME NEW p \in M!Cpus, M!Stores(p)
      PROVE  CountsInv'
  <2>1. PICK v \in loaded[p] : mem' = [mem EXCEPT ![p][counting[p]["task"]] = v + 1]
    BY <1>3, Zenon DEF M!Stores
  <2>2. M!Goes(p, "task") /\ loaded' = [loaded EXCEPT ![p] = {}]
        /\ UNCHANGED <<runs, copied, total, readings>>
    BY <1>3 DEF M!Stores
  <2>3. v \in Nat /\ loaded' \in [M!Cpus -> SUBSET Nat] /\ "task" \in Contexts
    BY <1>3, <2>1, <2>2 DEF CountsInv, Contexts
  <2>4. counting[p]["task"] # "idle"
    BY <1>3, <2>1 DEF CountsInv
  <2>5. /\ mem' \in [M!Cpus -> Counts5]
        /\ counting' \in [M!Cpus -> [Contexts -> M!Counter \cup {"idle"}]]
        /\ \A q \in M!Cpus : Founded(q)'
        /\ \A q \in M!Cpus : mem[q]["guardrail_rounds"] > 0 => mem'[q]["guardrail_rounds"] > 0
    BY <2>1, <2>2, <2>3, <2>4, Counting, Zenon
  <2>6. Backed'
    BY <2>2, <2>5, BackedMoves, Zenon
  <2>7. \A q \in M!Cpus : loaded'[q] # {} => counting'[q]["task"] # "idle"
    <3>1. \A q \in M!Cpus : loaded'[q] # {} => q # p /\ loaded'[q] = loaded[q]
      BY <1>3, <2>2 DEF CountsInv
    <3>2. \A q \in M!Cpus : q # p => counting'[q] = counting[q]
      BY <2>2 DEF M!Goes, CountsInv
    <3> QED  BY <3>1, <3>2, Zenon DEF CountsInv
  <2> QED  BY <2>2, <2>3, <2>5, <2>6, <2>7, Zenon DEF CountsInv
<1>4. ASSUME NEW p \in M!Cpus, M!Counts(p)
      PROVE  CountsInv'
  <2> DEFINE v == mem[p][counting[p]["softirq"]]
  <2>1. /\ counting[p]["softirq"] # "idle" /\ M!Goes(p, "softirq")
        /\ mem' = [mem EXCEPT ![p][counting[p]["softirq"]] = @ + 1]
        /\ UNCHANGED <<loaded, runs, copied, total, readings>>
    BY <1>4 DEF M!Counts
  <2>2. "softirq" \in Contexts /\ counting[p]["softirq"] \in M!Counter /\ mem[p] \in Counts5
        /\ mem \in [M!Cpus -> Counts5]
    BY <1>4, <2>1 DEF CountsInv, Contexts
  <2>3. v \in Nat /\ mem' = [mem EXCEPT ![p][counting[p]["softirq"]] = v + 1]
    BY <2>1, <2>2 DEF Counts5
  <2> HIDE DEF v
  <2>5. /\ mem' \in [M!Cpus -> Counts5]
        /\ counting' \in [M!Cpus -> [Contexts -> M!Counter \cup {"idle"}]]
        /\ \A q \in M!Cpus : Founded(q)'
        /\ \A q \in M!Cpus : mem[q]["guardrail_rounds"] > 0 => mem'[q]["guardrail_rounds"] > 0
    BY <2>1, <2>2, <2>3, Counting, Zenon
  <2>6. Backed'
    BY <2>1, <2>5, BackedMoves, Zenon
  <2>7. \A q \in M!Cpus : counting'[q]["task"] = counting[q]["task"]
    BY <1>4, <2>1 DEF M!Goes, CountsInv, Contexts
  <2> QED  BY <2>1, <2>5, <2>6, <2>7, Zenon DEF CountsInv
<1>5. CASE M!Read
  BY <1>5, ReadStep
<1>6. CASE UNCHANGED M!vars
  BY <1>6, Zenon DEF M!vars, CountsInv, Founded, Backed
<1> QED  BY <1>1, <1>2, <1>3, <1>4, <1>5, <1>6, Zenon DEF M!Next

(* read_metrics against the programs that count: a sum that is read while  *)
(* it moves shows no hits of a kind without rounds, so ssctl never takes a *)
(* current daemon for one that did not count them, on any number of CPUs.  *)
THEOREM HitsHaveRounds == M!Spec => []CountedApart
<1>1. M!Init => CountsInv
  BY CountsBegin
<1>2. CountsInv /\ [M!Next]_M!vars => CountsInv'
  BY CountsStep
<1>3. CountsInv => M!CountedApart
  BY Apart
<1> QED  BY <1>1, <1>2, <1>3, PTL DEF M!Spec, CountedApart

-----------------------------------------------------------------------------
Packets == [prior : 0 .. Space - 1, age : Nat, sacked : BOOLEAN]

(* Packets sent before i that are still to be delivered, and those sent    *)
(* after it that have been.                                                *)
Ahead(q, i) == {j \in 1 .. i - 1 : ~q[j].sacked}
Passed(q, i) == {j \in i + 1 .. Len(q) : q[j].sacked}

(* A counter off by less than the space, back in it.                       *)
Wrap(n) == IF n < 0 THEN n + Space ELSE IF n >= Space THEN n - Space ELSE n

Paced(q) ==
  \A i \in DOMAIN q : ~q[i].sacked =>
    q[i].age + Cardinality(Ahead(q, i)) <= Flight - 1 + Cardinality(Passed(q, i))

Carried(q, d) == \A i \in DOMAIN q : ~q[i].sacked => q[i].prior = Wrap(d - q[i].age)

RoundsInv == /\ delivered \in 0 .. Space - 1 /\ parity \in {0, 1}
             /\ gap \in 1 - 2 * Flight .. Flight /\ next = Wrap(delivered + gap)
             /\ out \in Seq(Packets) /\ Len(out) <= Flight
             /\ Paced(out) /\ Carried(out, delivered)

LEMMA SameCount == \A T : R!Cardinality(T) = Cardinality(T)
BY DEF R!Cardinality, Cardinality

LEMMA ModBelow ==
  ASSUME NEW n \in Nat, n > 0, NEW x \in Nat, x < n
  PROVE  x % n = x
BY SMT

LEMMA ModOver ==
  ASSUME NEW n \in Nat, n > 0, NEW x \in Nat, x < n
  PROVE  (x + n) % n = x
BY SMT

LEMMA WrapIsMod ==
  ASSUME NEW x \in 0 .. 2 * Space - 1
  PROVE  x % Space = Wrap(x) /\ Wrap(x) \in 0 .. Space - 1
<1>1. CASE x < Space
  BY <1>1, RoundsAssumption, ModBelow DEF Wrap, R!SpaceAssumption
<1>2. CASE x >= Space
  <2>1. x - Space \in Nat /\ x - Space < Space /\ x = (x - Space) + Space
    BY <1>2, RoundsAssumption DEF R!SpaceAssumption
  <2>2. ((x - Space) + Space) % Space = x - Space
    BY <2>1, RoundsAssumption, ModOver DEF R!SpaceAssumption
  <2> QED  BY <1>2, <2>1, <2>2, RoundsAssumption DEF Wrap, R!SpaceAssumption
<1> QED  BY <1>1, <1>2, RoundsAssumption DEF R!SpaceAssumption

(* The comparison is right as long as neither distance leaves its range.   *)
LEMMA ReachedRight ==
  ASSUME NEW d \in 0 .. Space - 1, NEW a \in 0 .. 2 * Flight - 2,
         NEW g \in 1 - 2 * Flight .. Flight
  PROVE  R!skyline_round_reached(Wrap(d - a), Wrap(d + g)) <=> g + a <= 0
<1> DEFINE p == Wrap(d - a)
           e == Wrap(d + g)
           x == p + Space - e
<1>1. p \in 0 .. Space - 1 /\ e \in 0 .. Space - 1
  BY RoundsAssumption DEF Wrap, R!SpaceAssumption
<1>2. x \in 0 .. 2 * Space - 1
  BY <1>1, RoundsAssumption DEF R!SpaceAssumption
<1>3. Wrap(x) = Wrap(0 - (g + a))
  BY RoundsAssumption DEF Wrap, R!SpaceAssumption
<1>4. x % Space = Wrap(0 - (g + a))
  BY <1>2, <1>3, WrapIsMod
<1>5. Wrap(0 - (g + a)) < Space \div 2 <=> g + a <= 0
  BY RoundsAssumption DEF Wrap, R!SpaceAssumption
<1> QED  BY <1>4, <1>5 DEF R!skyline_round_reached

(* Whoever is outstanding was sent less than two flights ago.              *)
LEMMA IntervalCount ==
  ASSUME NEW a \in Int, NEW b \in Int, b >= a - 1
  PROVE  IsFiniteSet(a .. b) /\ Cardinality(a .. b) = b - a + 1
<1>1. /\ IsFiniteSet(a .. b)
      /\ Cardinality(a .. b) = IF a > b THEN 0 ELSE b - a + 1
  BY FS_Interval, Zenon
<1> QED  BY <1>1

LEMMA SubsFinite ==
  ASSUME NEW q \in Seq(Packets), NEW i \in DOMAIN q
  PROVE  /\ IsFiniteSet(Ahead(q, i)) /\ Cardinality(Ahead(q, i)) \in 0 .. i - 1
         /\ IsFiniteSet(Passed(q, i)) /\ Cardinality(Passed(q, i)) \in 0 .. Len(q) - i
<1>1. i \in 1 .. Len(q) /\ Len(q) \in Nat
  OBVIOUS
<1>2. IsFiniteSet(1 .. i - 1) /\ Cardinality(1 .. i - 1) = (i - 1) - 1 + 1
  <2>1. 1 \in Int /\ i - 1 \in Int /\ i - 1 >= 1 - 1
    BY <1>1
  <2> QED  BY <2>1, IntervalCount, Zenon
<1>3. IsFiniteSet(i + 1 .. Len(q)) /\ Cardinality(i + 1 .. Len(q)) = Len(q) - (i + 1) + 1
  <2>1. i + 1 \in Int /\ Len(q) \in Int /\ Len(q) >= (i + 1) - 1
    BY <1>1
  <2> QED  BY <2>1, IntervalCount, Zenon
<1>4. Ahead(q, i) \subseteq 1 .. i - 1 /\ Passed(q, i) \subseteq i + 1 .. Len(q)
  BY DEF Ahead, Passed
<1>5. IsFiniteSet(Ahead(q, i)) /\ IsFiniteSet(Passed(q, i))
  BY <1>2, <1>3, <1>4, FS_Subset
<1>6. /\ Cardinality(Ahead(q, i)) <= Cardinality(1 .. i - 1)
      /\ Cardinality(Passed(q, i)) <= Cardinality(i + 1 .. Len(q))
  BY <1>2, <1>3, <1>4, FS_Subset, Zenon
<1>7. Cardinality(Ahead(q, i)) \in Nat /\ Cardinality(Passed(q, i)) \in Nat
  BY <1>5, FS_CardinalityType, Zenon
<1> HIDE DEF Ahead, Passed
<1> QED  BY <1>1, <1>2, <1>3, <1>5, <1>6, <1>7

LEMMA Young ==
  ASSUME NEW q \in Seq(Packets), Len(q) <= Flight, Paced(q),
         NEW i \in DOMAIN q, ~q[i].sacked
  PROVE  q[i].age \in 0 .. 2 * Flight - 2
<1>1. q[i] \in Packets /\ i \in 1 .. Len(q) /\ Len(q) \in Nat
  OBVIOUS
<1>2. q[i].age \in Nat
  BY <1>1 DEF Packets
<1>3. q[i].age + Cardinality(Ahead(q, i)) <= Flight - 1 + Cardinality(Passed(q, i))
  BY DEF Paced
<1> QED  BY <1>1, <1>2, <1>3, SubsFinite, RoundsAssumption DEF R!SpaceAssumption

(* The packets an ACK covers, by which side of i they were sent on.        *)
Earlier(D, i) == {j \in D : j < i}
Later(D, i) == {j \in D : j > i}

LEMMA Sides ==
  ASSUME NEW q \in Seq(Packets), NEW i \in DOMAIN q, NEW D \in SUBSET DOMAIN q
  PROVE  /\ IsFiniteSet(D) /\ Cardinality(D) \in Nat
         /\ IsFiniteSet(Earlier(D, i)) /\ Cardinality(Earlier(D, i)) \in Nat
         /\ IsFiniteSet(Later(D, i)) /\ Cardinality(Later(D, i)) \in Nat
         /\ Cardinality(D) = Cardinality(Earlier(D, i)) + Cardinality(Later(D, i))
                              + (IF i \in D THEN 1 ELSE 0)
<1> DEFINE E == Earlier(D, i)
           L == Later(D, i)
<1>1. DOMAIN q = 1 .. Len(q) /\ Len(q) \in Nat /\ i \in 1 .. Len(q)
  OBVIOUS
<1>2. IsFiniteSet(1 .. Len(q))
  BY <1>1, FS_Interval
<1>3. IsFiniteSet(D) /\ IsFiniteSet(E) /\ IsFiniteSet(L)
  <2>1. D \in SUBSET (1 .. Len(q)) /\ E \in SUBSET (1 .. Len(q)) /\ L \in SUBSET (1 .. Len(q))
    BY <1>1 DEF Earlier, Later
  <2> HIDE DEF E, L
  <2> QED  BY <1>2, <2>1, FS_Subset, Zenon
<1>4. E \cap L = {} /\ D \ {i} = E \cup L
  BY <1>1 DEF Earlier, Later
<1> HIDE DEF E, L
<1>5. Cardinality(D) \in Nat /\ Cardinality(E) \in Nat /\ Cardinality(L) \in Nat
  BY <1>3, FS_CardinalityType, Zenon
<1>6. Cardinality(E \cup L) = Cardinality(E) + Cardinality(L) - Cardinality(E \cap L)
  BY <1>3, FS_Union, Zenon
<1>7. Cardinality(D \ {i}) = IF i \in D THEN Cardinality(D) - 1 ELSE Cardinality(D)
  BY <1>3, FS_RemoveElement, Zenon
<1>8. Cardinality(E \cap L) = 0
  BY <1>4, FS_EmptySet, Zenon
<1>9. Cardinality(D) = Cardinality(E) + Cardinality(L) + (IF i \in D THEN 1 ELSE 0)
  <2>1. Cardinality(D \ {i}) = Cardinality(E) + Cardinality(L) - 0
    BY <1>4, <1>6, <1>8, Zenon
  <2>2. CASE i \in D
    <3>1. Cardinality(D) - 1 = Cardinality(E) + Cardinality(L) - 0
      BY <1>7, <2>1, <2>2, Zenon
    <3> QED  BY <1>5, <2>2, <3>1
  <2>3. CASE i \notin D
    <3>1. Cardinality(D) = Cardinality(E) + Cardinality(L) - 0
      BY <1>7, <2>1, <2>3, Zenon
    <3> QED  BY <1>5, <2>3, <3>1
  <2> QED  BY <2>2, <2>3
<1> QED  BY <1>3, <1>5, <1>9 DEF E, L

(* What an ACK does to the two counts of a packet.                         *)
LEMMA CountsMove ==
  ASSUME NEW q \in Seq(Packets), NEW c \in Seq(Packets), Len(c) = Len(q),
         NEW D \in SUBSET {j \in DOMAIN q : ~q[j].sacked},
         \A j \in DOMAIN q : c[j].sacked <=> (q[j].sacked \/ j \in D),
         NEW i \in DOMAIN q
  PROVE  /\ Cardinality(Ahead(c, i)) = Cardinality(Ahead(q, i)) - Cardinality(Earlier(D, i))
         /\ Cardinality(Passed(c, i)) = Cardinality(Passed(q, i)) + Cardinality(Later(D, i))
<1>1. DOMAIN q = 1 .. Len(q) /\ DOMAIN c = DOMAIN q /\ Len(q) \in Nat /\ i \in 1 .. Len(q)
  OBVIOUS
<1>2. D \in SUBSET DOMAIN q
  OBVIOUS
<1>3. /\ Ahead(c, i) = Ahead(q, i) \ Earlier(D, i)
      /\ Ahead(q, i) \cap Earlier(D, i) = Earlier(D, i)
  BY <1>1 DEF Ahead, Earlier
<1>4. /\ Passed(c, i) = Passed(q, i) \cup Later(D, i)
      /\ Passed(q, i) \cap Later(D, i) = {}
  BY <1>1 DEF Passed, Later
<1>5. /\ IsFiniteSet(Ahead(q, i)) /\ IsFiniteSet(Passed(q, i))
      /\ Cardinality(Ahead(q, i)) \in Nat /\ Cardinality(Passed(q, i)) \in Nat
  BY SubsFinite
<1>6. /\ IsFiniteSet(Earlier(D, i)) /\ IsFiniteSet(Later(D, i))
      /\ Cardinality(Earlier(D, i)) \in Nat /\ Cardinality(Later(D, i)) \in Nat
  BY <1>2, Sides, Zenon
<1>7. Cardinality(Ahead(q, i) \ Earlier(D, i))
        = Cardinality(Ahead(q, i)) - Cardinality(Ahead(q, i) \cap Earlier(D, i))
  BY <1>5, FS_Difference, Zenon
<1>8. Cardinality(Passed(q, i) \cup Later(D, i))
        = Cardinality(Passed(q, i)) + Cardinality(Later(D, i))
          - Cardinality(Passed(q, i) \cap Later(D, i))
  BY <1>5, <1>6, FS_Union, Zenon
<1>9. Cardinality({}) = 0
  BY FS_EmptySet
<1>10. /\ Cardinality(Ahead(c, i)) = Cardinality(Ahead(q, i)) - Cardinality(Earlier(D, i))
       /\ Cardinality(Passed(c, i)) = Cardinality(Passed(q, i)) + Cardinality(Later(D, i)) - 0
  BY <1>3, <1>4, <1>7, <1>8, <1>9, Zenon
<1> HIDE DEF Ahead, Passed, Earlier, Later
<1> QED  BY <1>5, <1>6, <1>10

(* Dropping delivered packets off the front leaves the counts as they are. *)
LEMMA CountsStay ==
  ASSUME NEW q \in Seq(Packets), NEW h \in 1 .. Len(q),
         \A j \in 1 .. h - 1 : q[j].sacked,
         NEW i \in 1 .. Len(q) - h + 1
  PROVE  LET r == SubSeq(q, h, Len(q))
         IN /\ Cardinality(Ahead(r, i)) = Cardinality(Ahead(q, i + h - 1))
            /\ Cardinality(Passed(r, i)) = Cardinality(Passed(q, i + h - 1))
<1> DEFINE r == SubSeq(q, h, Len(q))
           A == Ahead(r, i)
           P == Passed(r, i)
           B == Ahead(q, i + h - 1)
           Q == Passed(q, i + h - 1)
<1>1. /\ r \in Seq(Packets) /\ Len(r) = Len(q) - h + 1 /\ DOMAIN r = 1 .. Len(r)
      /\ \A j \in 1 .. Len(r) : r[j] = q[h + j - 1]
  OBVIOUS
<1>2. i \in DOMAIN r /\ i + h - 1 \in DOMAIN q
  BY <1>1
<1>3. IsFiniteSet(A) /\ IsFiniteSet(P)
  BY <1>1, <1>2, SubsFinite, Zenon
<1>4. ExistsBijection(A, B)
  <2> DEFINE f == [j \in A |-> j + h - 1]
  <2>1. \A j \in A : j \in Nat /\ j + h - 1 \in B
    <3> SUFFICES ASSUME NEW j \in A
                 PROVE  j \in Nat /\ j + h - 1 \in B
      OBVIOUS
    <3>1. j \in 1 .. i - 1 /\ ~r[j].sacked
      BY DEF Ahead
    <3>2. j \in 1 .. Len(r) /\ r[j] = q[h + j - 1] /\ j + h - 1 \in 1 .. (i + h - 1) - 1
          /\ h + j - 1 = j + h - 1
      BY <1>1, <3>1
    <3> QED  BY <3>1, <3>2 DEF Ahead
  <2>2. \A k \in B : k - h + 1 \in A /\ k \in Nat
    <3> SUFFICES ASSUME NEW k \in B
                 PROVE  k - h + 1 \in A /\ k \in Nat
      OBVIOUS
    <3>1. k \in 1 .. i + h - 2 /\ ~q[k].sacked
      BY DEF Ahead
    <3>2. k >= h
      BY <3>1
    <3>3. k - h + 1 \in 1 .. i - 1 /\ k - h + 1 \in 1 .. Len(r) /\ h + (k - h + 1) - 1 = k
      BY <1>1, <3>1, <3>2
    <3> QED  BY <1>1, <3>1, <3>3 DEF Ahead
  <2> HIDE DEF A, B
  <2>3. f \in [A -> B] /\ \A j, k \in A : f[j] = f[k] => j = k
    BY <2>1
  <2>4. \A k \in B : \E j \in A : f[j] = k
    <3> SUFFICES ASSUME NEW k \in B
                 PROVE  \E j \in A : f[j] = k
      OBVIOUS
    <3>1. k - h + 1 \in A /\ f[k - h + 1] = k
      BY <2>2
    <3> QED  BY <3>1
  <2> HIDE DEF f
  <2>5. f \in Bijection(A, B)
    BY <2>3, <2>4, Zenon DEF Bijection, Injection, Surjection, IsInjective
  <2> QED  BY <2>5 DEF ExistsBijection
<1>5. ExistsBijection(P, Q)
  <2> DEFINE f == [j \in P |-> j + h - 1]
  <2>1. \A j \in P : j \in Nat /\ j + h - 1 \in Q
    <3> SUFFICES ASSUME NEW j \in P
                 PROVE  j \in Nat /\ j + h - 1 \in Q
      OBVIOUS
    <3>1. j \in i + 1 .. Len(r) /\ r[j].sacked
      BY DEF Passed
    <3>2. j \in 1 .. Len(r) /\ r[j] = q[h + j - 1] /\ j + h - 1 \in (i + h - 1) + 1 .. Len(q)
          /\ h + j - 1 = j + h - 1
      BY <1>1, <3>1
    <3> QED  BY <3>1, <3>2 DEF Passed
  <2>2. \A k \in Q : k - h + 1 \in P /\ k \in Nat
    BY <1>1 DEF Passed
  <2> HIDE DEF P, Q
  <2>3. f \in [P -> Q] /\ \A j, k \in P : f[j] = f[k] => j = k
    BY <2>1
  <2>4. \A k \in Q : \E j \in P : f[j] = k
    <3> SUFFICES ASSUME NEW k \in Q
                 PROVE  \E j \in P : f[j] = k
      OBVIOUS
    <3>1. k - h + 1 \in P /\ f[k - h + 1] = k
      BY <2>2
    <3> QED  BY <3>1
  <2> HIDE DEF f
  <2>5. f \in Bijection(P, Q)
    BY <2>3, <2>4, Zenon DEF Bijection, Injection, Surjection, IsInjective
  <2> QED  BY <2>5 DEF ExistsBijection
<1> QED  BY <1>3, <1>4, <1>5, FS_Bijection

LEMMA RoundsExactly ==
  ASSUME RoundsInv
  PROVE  R!RoundsExact
<1> SUFFICES ASSUME NEW i \in DOMAIN out, ~out[i].sacked
             PROVE  R!skyline_round_reached(out[i].prior, next) <=> gap + out[i].age <= 0
  BY DEF R!RoundsExact
<1>1. out[i].age \in 0 .. 2 * Flight - 2
  BY Young DEF RoundsInv
<1>2. out[i].prior = Wrap(delivered - out[i].age) /\ next = Wrap(delivered + gap)
  BY DEF RoundsInv, Carried
<1> QED  BY <1>1, <1>2, ReachedRight DEF RoundsInv

LEMMA RoundsTyped ==
  ASSUME RoundsInv
  PROVE  R!TypeOK
<1>1. next \in 0 .. Space - 1
  BY RoundsAssumption DEF RoundsInv, Wrap, R!SpaceAssumption
<1> QED  BY <1>1, RoundsAssumption DEF RoundsInv, R!TypeOK, R!SpaceAssumption

(* A set of naturals has a least element.                                  *)
LEMMA Least ==
  ASSUME NEW T \in SUBSET Nat, T # {}
  PROVE  \E x \in T : \A y \in T : x <= y
<1> DEFINE U == {1 .. n : n \in T}
<1>1. U \subseteq FiniteSubsetsOf(Nat) /\ U # {}
  <2>1. \A n \in T : IsFiniteSet(1 .. n)
    BY FS_Interval
  <2>2. \A n \in T : 1 .. n \subseteq Nat
    OBVIOUS
  <2> QED  BY <2>1, <2>2, Zenon DEF FiniteSubsetsOf
<1>2. \E u \in U : \A w \in U : ~ (<<w, u>> \in StrictSubsetOrdering(Nat))
  <2> HIDE DEF U
  <2> QED  BY <1>1, FS_StrictSubsetOrderingWellFounded, WFMin, Zenon
<1>3. PICK x \in T : \A y \in T : ~ (<<1 .. y, 1 .. x>> \in StrictSubsetOrdering(Nat))
  BY <1>2, Zenon
<1>4. ASSUME NEW y \in T, y < x PROVE FALSE
  <2>1. 1 .. y \in SUBSET Nat /\ 1 .. x \in SUBSET Nat /\ 1 .. y \subseteq 1 .. x
    BY <1>4
  <2>2. x \in 1 .. x /\ x \notin 1 .. y
    BY <1>4
  <2> QED  BY <1>3, <2>1, <2>2, Zenon DEF StrictSubsetOrdering
<1> QED  BY <1>4

LEMMA CoveredIs ==
  ASSUME out \in Seq(Packets), NEW D \in SUBSET R!Unsacked
  PROVE  /\ R!Covered(D) \in Seq(Packets) /\ Len(R!Covered(D)) = Len(out)
         /\ DOMAIN R!Covered(D) = DOMAIN out
         /\ \A i \in DOMAIN out :
              /\ R!Covered(D)[i].prior = out[i].prior
              /\ R!Covered(D)[i].age = out[i].age + Cardinality(D)
              /\ R!Covered(D)[i].sacked = (out[i].sacked \/ i \in D)
<1> DEFINE c == R!Covered(D)
           n == Cardinality(D)
<1>1. DOMAIN out = 1 .. Len(out) /\ Len(out) \in Nat
      /\ \A i \in 1 .. Len(out) : out[i] \in Packets
  OBVIOUS
<1>2. n \in Nat
  <2>1. IsFiniteSet(1 .. Len(out))
    BY <1>1, FS_Interval
  <2>2. D \subseteq 1 .. Len(out)
    BY <1>1 DEF R!Unsacked
  <2> QED  BY <2>1, <2>2, FS_Subset, FS_CardinalityType, Zenon
<1>3. DOMAIN c = 1 .. Len(out)
  BY <1>1 DEF R!Covered
<1>4. ASSUME NEW i \in 1 .. Len(out)
      PROVE  /\ c[i] \in Packets
             /\ c[i].prior = out[i].prior
             /\ c[i].age = out[i].age + n
             /\ c[i].sacked = (out[i].sacked \/ i \in D)
  <2>1. PICK k \in BOOLEAN : k = (out[i].sacked \/ i \in D)
    BY Zenon
  <2>2. c[i] = [prior |-> out[i].prior, age |-> out[i].age + n,
                sacked |-> (out[i].sacked \/ i \in D)]
    BY <1>1, <1>4, SameCount DEF R!Covered
  <2>3. c[i] = [prior |-> out[i].prior, age |-> out[i].age + n, sacked |-> k]
    BY <2>1, <2>2, Zenon
  <2>4. out[i].prior \in 0 .. Space - 1 /\ out[i].age + n \in Nat
    <3> HIDE DEF n
    <3> QED  BY <1>1, <1>2, <1>4 DEF Packets
  <2> HIDE DEF n, c
  <2>5. /\ c[i] \in Packets /\ c[i].prior = out[i].prior
        /\ c[i].age = out[i].age + n /\ c[i].sacked = k
    BY <2>3, <2>4 DEF Packets
  <2> QED  BY <2>1, <2>5, Zenon
<1>5. c \in [1 .. Len(out) -> Packets]
  BY <1>3, <1>4, Zenon DEF R!Covered
<1>6. c \in Seq(Packets) /\ Len(c) = Len(out)
  BY <1>1, <1>3, <1>5
<1> QED  BY <1>1, <1>3, <1>4, <1>6

LEMMA KeptIs ==
  ASSUME NEW q \in Seq(Packets)
  PROVE  \/ R!Kept(q) = <<>>
         \/ \E h \in 1 .. Len(q) : /\ R!Kept(q) = SubSeq(q, h, Len(q))
                                   /\ \A j \in 1 .. h - 1 : q[j].sacked
<1> DEFINE holes == {i \in DOMAIN q : ~q[i].sacked}
           h == CHOOSE i \in holes : \A j \in holes : i <= j
<1>1. DOMAIN q = 1 .. Len(q) /\ Len(q) \in Nat
  OBVIOUS
<1>2. CASE holes = {}
  BY <1>2 DEF R!Kept
<1>3. CASE holes # {}
  <2>1. holes \in SUBSET Nat
    BY <1>1
  <2>2. \E i \in holes : \A j \in holes : i <= j
    <3> HIDE DEF holes
    <3> QED  BY <2>1, <1>3, Least
  <2>3. h \in holes /\ \A j \in holes : h <= j
    <3> HIDE DEF holes
    <3> QED  BY <2>2
  <2>4. R!Kept(q) = SubSeq(q, h, Len(q))
    BY <1>3, Zenon DEF R!Kept
  <2>5. h \in 1 .. Len(q) /\ \A j \in 1 .. h - 1 : j \in DOMAIN q /\ ~(h <= j)
    <3> HIDE DEF h
    <3> QED  BY <1>1, <2>3
  <2>6. \A j \in 1 .. h - 1 : q[j].sacked
    <3> HIDE DEF h
    <3> QED  BY <2>3, <2>5
  <2> HIDE DEF h
  <2> QED  BY <2>4, <2>5, <2>6
<1> QED  BY <1>2, <1>3, Zenon

LEMMA SampledIs ==
  ASSUME out \in Seq(Packets), NEW D \in SUBSET R!Unsacked, D # {}
  PROVE  R!Sampled(D) \in D
<1> DEFINE ages == {out[i].age : i \in D}
<1>1. \A i \in D : i \in DOMAIN out /\ out[i] \in Packets
  BY DEF R!Unsacked
<1>2. ages \in SUBSET Nat /\ ages # {}
  BY <1>1 DEF Packets
<1>3. \E a \in ages : \A b \in ages : a <= b
  <2> HIDE DEF ages
  <2> QED  BY <1>2, Least
<1>4. \E i \in D : \A j \in D : out[i].age <= out[j].age
  BY <1>3
<1> QED  BY <1>4, Zenon DEF R!Sampled

(* What is kept is paced and carries its counts, if all of it did.         *)
LEMMA KeptRight ==
  ASSUME NEW q \in Seq(Packets), NEW d \in 0 .. Space - 1, Len(q) <= Flight,
         Paced(q), Carried(q, d)
  PROVE  /\ R!Kept(q) \in Seq(Packets) /\ Len(R!Kept(q)) <= Len(q)
         /\ Paced(R!Kept(q)) /\ Carried(R!Kept(q), d)
<1>1. CASE R!Kept(q) = <<>>
  <2>1. <<>> \in Seq(Packets) /\ Len(<<>>) = 0 /\ DOMAIN <<>> = {} /\ Len(q) \in Nat
    OBVIOUS
  <2> QED  BY <1>1, <2>1 DEF Paced, Carried
<1>2. ASSUME NEW h \in 1 .. Len(q), R!Kept(q) = SubSeq(q, h, Len(q)),
             \A j \in 1 .. h - 1 : q[j].sacked
      PROVE  /\ R!Kept(q) \in Seq(Packets) /\ Len(R!Kept(q)) <= Len(q)
             /\ Paced(R!Kept(q)) /\ Carried(R!Kept(q), d)
  <2> DEFINE r == SubSeq(q, h, Len(q))
  <2>1. /\ r \in Seq(Packets) /\ Len(r) = Len(q) - h + 1 /\ DOMAIN r = 1 .. Len(q) - h + 1
        /\ \A i \in 1 .. Len(q) - h + 1 : r[i] = q[h + i - 1]
    OBVIOUS
  <2>2. ASSUME NEW i \in DOMAIN r, ~r[i].sacked
        PROVE  /\ r[i].age + Cardinality(Ahead(r, i)) <= Flight - 1 + Cardinality(Passed(r, i))
               /\ r[i].prior = Wrap(d - r[i].age)
    <3> DEFINE k == i + h - 1
    <3>1. i \in 1 .. Len(q) - h + 1 /\ r[i] = q[k] /\ k \in DOMAIN q
      BY <2>1, <2>2
    <3>2. /\ Cardinality(Ahead(r, i)) = Cardinality(Ahead(q, k))
          /\ Cardinality(Passed(r, i)) = Cardinality(Passed(q, k))
      BY <3>1, <1>2, CountsStay
    <3>3. ~q[k].sacked
      BY <2>2, <3>1
    <3> HIDE DEF k, r
    <3>4. q[k].age + Cardinality(Ahead(q, k)) <= Flight - 1 + Cardinality(Passed(q, k))
      BY <3>1, <3>3, Zenon DEF Paced
    <3>5. q[k].prior = Wrap(d - q[k].age)
      BY <3>1, <3>3, Zenon DEF Carried
    <3> QED  BY <3>1, <3>2, <3>4, <3>5, Zenon
  <2>3. Paced(r) /\ Carried(r, d)
    <3> HIDE DEF r
    <3> QED  BY <2>2, Zenon DEF Paced, Carried
  <2>4. Len(r) <= Len(q)
    BY <2>1
  <2> HIDE DEF r
  <2> QED  BY <1>2, <2>1, <2>3, <2>4 DEF r
<1> QED  BY <1>1, <1>2, KeptIs

(* How counters keep their distance while they wrap.                       *)
LEMMA WrapMoves ==
  ASSUME NEW d \in 0 .. Space - 1, NEW n \in 0 .. Flight,
         NEW a \in 0 .. 2 * Flight, NEW g \in 1 - 2 * Flight .. Flight
  PROVE  /\ (d + n) % Space = Wrap(d + n) /\ Wrap(d + n) \in 0 .. Space - 1
         /\ Wrap(Wrap(d + n) - (a + n)) = Wrap(d - a)
         /\ Wrap(Wrap(d + n) + (g - n)) = Wrap(d + g)
<1>1. d + n \in 0 .. 2 * Space - 1
  BY RoundsAssumption DEF R!SpaceAssumption
<1>2. (d + n) % Space = Wrap(d + n) /\ Wrap(d + n) \in 0 .. Space - 1
  BY <1>1, WrapIsMod
<1>3. Wrap(Wrap(d + n) - (a + n)) = Wrap(d - a)
  BY RoundsAssumption DEF Wrap, R!SpaceAssumption
<1>4. Wrap(Wrap(d + n) + (g - n)) = Wrap(d + g)
  BY RoundsAssumption DEF Wrap, R!SpaceAssumption
<1> QED  BY <1>2, <1>3, <1>4

LEMMA PaceMoves ==
  ASSUME NEW age \in Nat, NEW A \in Nat, NEW P \in Nat, NEW E \in Nat, NEW L \in Nat,
         NEW n, n = E + L + 0, age + A <= Flight - 1 + P
  PROVE  (age + n) + (A - E) <= Flight - 1 + (P + L)
BY RoundsAssumption DEF R!SpaceAssumption

(* An ACK's packets, once covered, are as paced as before.                 *)
LEMMA CoveredRight ==
  ASSUME RoundsInv, NEW D \in SUBSET R!Unsacked
  PROVE  /\ Cardinality(D) \in 0 .. Flight
         /\ R!Covered(D) \in Seq(Packets) /\ Len(R!Covered(D)) <= Flight
         /\ Paced(R!Covered(D)) /\ Carried(R!Covered(D), Wrap(delivered + Cardinality(D)))
<1> DEFINE c == R!Covered(D)
           n == Cardinality(D)
<1>1. /\ out \in Seq(Packets) /\ Len(out) <= Flight /\ Paced(out) /\ Carried(out, delivered)
      /\ delivered \in 0 .. Space - 1 /\ Flight \in Nat
  BY RoundsAssumption DEF RoundsInv, R!SpaceAssumption
<1>2. /\ c \in Seq(Packets) /\ Len(c) = Len(out) /\ DOMAIN c = DOMAIN out
      /\ \A i \in DOMAIN out : /\ c[i].prior = out[i].prior
                               /\ c[i].age = out[i].age + n
                               /\ c[i].sacked = (out[i].sacked \/ i \in D)
  BY <1>1, CoveredIs, Zenon
<1>3. D \in SUBSET DOMAIN out /\ D \in SUBSET {j \in DOMAIN out : ~out[j].sacked}
  BY DEF R!Unsacked
<1>4. n \in 0 .. Flight
  <2>1. IsFiniteSet(1 .. Len(out)) /\ Cardinality(1 .. Len(out)) = Len(out) - 1 + 1
    <3>1. 1 \in Int /\ Len(out) \in Int /\ Len(out) >= 1 - 1
      BY <1>1
    <3> QED  BY <3>1, IntervalCount, Zenon
  <2>2. D \subseteq 1 .. Len(out)
    BY <1>1, <1>3
  <2>3. n \in Nat /\ n <= Cardinality(1 .. Len(out))
    BY <2>1, <2>2, FS_Subset, FS_CardinalityType, Zenon
  <2>4. n <= Len(out) - 1 + 1
    BY <2>1, <2>3, Zenon
  <2> HIDE DEF n
  <2> QED  BY <1>1, <2>3, <2>4
<1>5. ASSUME NEW i \in DOMAIN c, ~c[i].sacked
      PROVE  /\ c[i].age + Cardinality(Ahead(c, i)) <= Flight - 1 + Cardinality(Passed(c, i))
             /\ c[i].prior = Wrap(Wrap(delivered + n) - c[i].age)
  <2>1. i \in DOMAIN out /\ ~out[i].sacked /\ i \notin D
    BY <1>2, <1>5, Zenon
  <2>2. /\ Cardinality(Ahead(c, i)) = Cardinality(Ahead(out, i)) - Cardinality(Earlier(D, i))
        /\ Cardinality(Passed(c, i)) = Cardinality(Passed(out, i)) + Cardinality(Later(D, i))
    <3>1. \A j \in DOMAIN out : c[j].sacked <=> (out[j].sacked \/ j \in D)
      BY <1>2, Zenon
    <3> HIDE DEF c
    <3>2. c \in Seq(Packets) /\ Len(c) = Len(out)
      BY <1>2, Zenon
    <3> QED  BY <1>1, <1>3, <2>1, <3>1, <3>2, CountsMove, Zenon
  <2>3. /\ Cardinality(Earlier(D, i)) \in Nat /\ Cardinality(Later(D, i)) \in Nat
        /\ n = Cardinality(Earlier(D, i)) + Cardinality(Later(D, i))
                   + (IF i \in D THEN 1 ELSE 0)
    BY <1>1, <1>3, <2>1, Sides, Zenon
  <2>4. /\ Cardinality(Ahead(out, i)) \in 0 .. i - 1
        /\ Cardinality(Passed(out, i)) \in 0 .. Len(out) - i
        /\ i \in Nat /\ Len(out) \in Nat
    BY <1>1, <2>1, SubsFinite
  <2>5. out[i].age + Cardinality(Ahead(out, i)) <= Flight - 1 + Cardinality(Passed(out, i))
    BY <1>1, <2>1, Zenon DEF Paced
  <2>6. out[i].age \in 0 .. 2 * Flight - 2
    BY <1>1, <2>1, Young, Zenon
  <2>7. /\ c[i].age = out[i].age + n /\ c[i].prior = out[i].prior
        /\ out[i].prior = Wrap(delivered - out[i].age)
    BY <1>1, <1>2, <2>1, Zenon DEF Carried
  <2> HIDE DEF c, n
  <2>8. c[i].age + Cardinality(Ahead(c, i)) <= Flight - 1 + Cardinality(Passed(c, i))
    <3>1. n = Cardinality(Earlier(D, i)) + Cardinality(Later(D, i)) + 0
      BY <2>1, <2>3, Zenon
    <3>2. (out[i].age + n) + (Cardinality(Ahead(out, i)) - Cardinality(Earlier(D, i)))
            <= Flight - 1 + (Cardinality(Passed(out, i)) + Cardinality(Later(D, i)))
      <4>1. out[i].age \in Nat /\ Cardinality(Ahead(out, i)) \in Nat
            /\ Cardinality(Passed(out, i)) \in Nat
        BY <2>4, <2>6
      <4> QED  BY <2>3, <2>5, <3>1, <4>1, PaceMoves, Zenon
    <3> QED  BY <2>2, <2>7, <3>2, Zenon
  <2>9. Wrap(Wrap(delivered + n) - (out[i].age + n)) = Wrap(delivered - out[i].age)
    <3>1. out[i].age \in 0 .. 2 * Flight /\ 0 \in 1 - 2 * Flight .. Flight
      BY <2>6, RoundsAssumption DEF R!SpaceAssumption
    <3> QED  BY <1>1, <1>4, <3>1, WrapMoves, Zenon
  <2> QED  BY <2>7, <2>8, <2>9, Zenon
<1>6. Paced(c) /\ Carried(c, Wrap(delivered + n))
  <2> HIDE DEF c, n
  <2> QED  BY <1>5, Zenon DEF Paced, Carried
<1> QED  BY <1>1, <1>2, <1>4, <1>6

LEMMA FreshIs ==
  ASSUME RoundsInv
  PROVE  /\ R!Packet \in Packets /\ R!Packet.age = 0 /\ ~R!Packet.sacked
         /\ R!Packet.prior = Wrap(delivered - R!Packet.age)
<1>1. Wrap(delivered - 0) = delivered /\ delivered \in 0 .. Space - 1
  BY RoundsAssumption DEF RoundsInv, Wrap, R!SpaceAssumption
<1>2. R!Packet.age = 0 /\ ~R!Packet.sacked /\ R!Packet.prior = delivered /\ R!Packet \in Packets
  BY <1>1 DEF R!Packet, Packets
<1> QED  BY <1>1, <1>2

LEMMA SendStep ==
  ASSUME RoundsInv, R!Send
  PROVE  RoundsInv'
<1> DEFINE q == Append(out, R!Packet)
<1>1. /\ out \in Seq(Packets) /\ Len(out) < Flight /\ Flight \in Nat /\ Len(out) \in Nat
      /\ Paced(out) /\ Carried(out, delivered)
  BY RoundsAssumption DEF RoundsInv, R!Send, R!SpaceAssumption
<1>2. /\ q \in Seq(Packets) /\ Len(q) = Len(out) + 1 /\ q[Len(q)] = R!Packet
      /\ DOMAIN q = 1 .. Len(q)
      /\ \A i \in 1 .. Len(out) : q[i] = out[i]
  BY <1>1, FreshIs
<1>3. ASSUME NEW i \in DOMAIN q, ~q[i].sacked
      PROVE  /\ q[i].age + Cardinality(Ahead(q, i)) <= Flight - 1 + Cardinality(Passed(q, i))
             /\ q[i].prior = Wrap(delivered - q[i].age)
  <2> HIDE DEF q
  <2>1. /\ Cardinality(Ahead(q, i)) \in 0 .. i - 1
        /\ Cardinality(Passed(q, i)) \in 0 .. Len(q) - i
    BY <1>2, <1>3, SubsFinite, Zenon
  <2>2. CASE i = Len(q)
    <3>1. q[i].age = 0 /\ q[i].prior = Wrap(delivered - q[i].age)
      BY <1>2, <2>2, FreshIs
    <3> QED  BY <1>1, <1>2, <2>1, <2>2, <3>1
  <2>3. CASE i # Len(q)
    <3>1. i \in 1 .. Len(out) /\ i \in DOMAIN out
      BY <1>1, <1>2, <1>3, <2>3
    <3>2. q[i] = out[i] /\ ~out[i].sacked
      BY <1>2, <1>3, <3>1
    <3>3. Ahead(q, i) = Ahead(out, i)
      <4>1. \A j \in 1 .. i - 1 : q[j] = out[j]
        BY <1>1, <1>2, <3>1
      <4> QED  BY <4>1 DEF Ahead
    <3>4. Passed(q, i) = Passed(out, i)
      <4>1. \A j \in i + 1 .. Len(q) : \/ j \in i + 1 .. Len(out) /\ q[j] = out[j]
                                       \/ j = Len(q) /\ ~q[j].sacked
        BY <1>1, <1>2, <3>1, FreshIs
      <4>2. \A j \in i + 1 .. Len(out) : j \in i + 1 .. Len(q) /\ q[j] = out[j]
        BY <1>1, <1>2, <3>1
      <4> QED  BY <4>1, <4>2, Zenon DEF Passed
    <3>5. /\ out[i].age + Cardinality(Ahead(out, i)) <= Flight - 1 + Cardinality(Passed(out, i))
          /\ out[i].prior = Wrap(delivered - out[i].age)
      BY <1>1, <3>1, <3>2, Zenon DEF Paced, Carried
    <3> QED  BY <3>2, <3>3, <3>4, <3>5, Zenon
  <2> QED  BY <2>2, <2>3
<1>4. Paced(q) /\ Carried(q, delivered)
  <2> HIDE DEF q
  <2> QED  BY <1>3, Zenon DEF Paced, Carried
<1>5. /\ out' = q /\ delivered' = delivered /\ next' = next /\ gap' = gap /\ parity' = parity
      /\ Len(q) <= Flight
  BY <1>1, <1>2 DEF R!Send
<1> HIDE DEF q
<1> QED  BY <1>2, <1>4, <1>5, Zenon DEF RoundsInv, Paced, Carried, Ahead, Passed, Wrap, Packets

LEMMA ResendStep ==
  ASSUME RoundsInv, R!Resend
  PROVE  RoundsInv'
<1>1. PICK k \in DOMAIN out : ~out[k].sacked /\ out' = [out EXCEPT ![k] = R!Packet]
  BY Zenon DEF R!Resend
<1> DEFINE q == [out EXCEPT ![k] = R!Packet]
<1>2. /\ out \in Seq(Packets) /\ Len(out) <= Flight /\ Flight \in Nat /\ Len(out) \in Nat
      /\ Paced(out) /\ Carried(out, delivered)
  BY RoundsAssumption DEF RoundsInv, R!SpaceAssumption
<1>3. /\ q \in Seq(Packets) /\ Len(q) = Len(out) /\ q[k] = R!Packet
      /\ DOMAIN q = DOMAIN out /\ DOMAIN out = 1 .. Len(out)
      /\ \A i \in DOMAIN out : i # k => q[i] = out[i]
  BY <1>2, FreshIs
<1>4. \A i \in DOMAIN out : q[i].sacked <=> out[i].sacked
  BY <1>1, <1>3, FreshIs, Zenon
<1>5. ASSUME NEW i \in DOMAIN q, ~q[i].sacked
      PROVE  /\ q[i].age + Cardinality(Ahead(q, i)) <= Flight - 1 + Cardinality(Passed(q, i))
             /\ q[i].prior = Wrap(delivered - q[i].age)
  <2> HIDE DEF q
  <2>1. /\ Cardinality(Ahead(q, i)) \in 0 .. i - 1
        /\ Cardinality(Passed(q, i)) \in 0 .. Len(q) - i
    BY <1>3, <1>5, SubsFinite, Zenon
  <2>2. CASE i = k
    <3>1. q[i].age = 0 /\ q[i].prior = Wrap(delivered - q[i].age)
      BY <1>3, <2>2, FreshIs
    <3> QED  BY <1>2, <1>3, <2>1, <2>2, <3>1
  <2>3. CASE i # k
    <3>1. i \in 1 .. Len(out) /\ i \in DOMAIN out /\ q[i] = out[i] /\ ~out[i].sacked
      BY <1>3, <1>5, <2>3
    <3>2. \A j \in 1 .. i - 1 : j \in DOMAIN out
      BY <1>2, <1>3, <3>1
    <3>3. \A j \in i + 1 .. Len(out) : j \in DOMAIN out
      BY <1>2, <1>3, <3>1
    <3>4. Ahead(q, i) = Ahead(out, i)
      BY <1>4, <3>2, Zenon DEF Ahead
    <3>5. Passed(q, i) = Passed(out, i)
      BY <1>3, <1>4, <3>3, Zenon DEF Passed
    <3>6. /\ out[i].age + Cardinality(Ahead(out, i)) <= Flight - 1 + Cardinality(Passed(out, i))
          /\ out[i].prior = Wrap(delivered - out[i].age)
      BY <1>2, <3>1, Zenon DEF Paced, Carried
    <3> QED  BY <3>1, <3>4, <3>5, <3>6, Zenon
  <2> QED  BY <2>2, <2>3
<1>6. Paced(q) /\ Carried(q, delivered)
  <2> HIDE DEF q
  <2> QED  BY <1>5, Zenon DEF Paced, Carried
<1>7. out' = q /\ delivered' = delivered /\ next' = next /\ gap' = gap /\ parity' = parity
  BY <1>1, Zenon DEF R!Resend
<1> HIDE DEF q
<1> QED  BY <1>2, <1>3, <1>6, <1>7, Zenon DEF RoundsInv, Paced, Carried, Ahead, Passed, Wrap, Packets

LEMMA SampleSum ==
  ASSUME NEW age \in Nat, NEW A \in Nat, NEW P \in Nat, NEW E \in Nat, NEW L \in Nat,
         NEW n, NEW len \in Nat, NEW s \in 1 .. len, len <= Flight,
         n = E + L + 1, age + A <= Flight - 1 + P, E <= A, P + L - 0 <= len - s
  PROVE  age + n \in 0 .. 2 * Flight - 1
BY RoundsAssumption DEF R!SpaceAssumption

(* The packet timed, with all that came with it, is at most two flights    *)
(* old: the round's end is never left further behind.                      *)
LEMMA SampleYoung ==
  ASSUME RoundsInv, NEW D \in SUBSET R!Unsacked, NEW s \in D
  PROVE  out[s].age + Cardinality(D) \in 0 .. 2 * Flight - 1
<1>1. /\ out \in Seq(Packets) /\ Len(out) <= Flight /\ Flight \in Nat /\ Len(out) \in Nat
      /\ Paced(out) /\ s \in 1 .. Len(out)
      /\ s \in DOMAIN out /\ ~out[s].sacked /\ D \in SUBSET DOMAIN out
      /\ D \in SUBSET {j \in DOMAIN out : ~out[j].sacked}
  BY RoundsAssumption DEF RoundsInv, R!SpaceAssumption, R!Unsacked
<1>2. out[s].age \in 0 .. 2 * Flight - 2
  BY <1>1, Young, Zenon
<1>3. out[s].age + Cardinality(Ahead(out, s)) <= Flight - 1 + Cardinality(Passed(out, s))
  BY <1>1, Zenon DEF Paced
<1>4. /\ Cardinality(Ahead(out, s)) \in Nat /\ Cardinality(Passed(out, s)) \in Nat
      /\ IsFiniteSet(Ahead(out, s)) /\ IsFiniteSet(Passed(out, s))
  BY <1>1, SubsFinite
<1>5. /\ Cardinality(Earlier(D, s)) \in Nat /\ Cardinality(Later(D, s)) \in Nat
      /\ IsFiniteSet(Later(D, s))
      /\ Cardinality(D) = Cardinality(Earlier(D, s)) + Cardinality(Later(D, s)) + 1
  BY <1>1, Sides, Zenon
<1>6. Cardinality(Earlier(D, s)) <= Cardinality(Ahead(out, s))
  <2>1. Earlier(D, s) \subseteq Ahead(out, s)
    BY <1>1 DEF Earlier, Ahead
  <2> QED  BY <1>4, <2>1, FS_Subset, Zenon
<1>7. Cardinality(Passed(out, s)) + Cardinality(Later(D, s)) - 0 <= Len(out) - s
  <2>1. IsFiniteSet(s + 1 .. Len(out)) /\ Cardinality(s + 1 .. Len(out)) = Len(out) - (s + 1) + 1
    <3>1. s + 1 \in Int /\ Len(out) \in Int /\ Len(out) >= (s + 1) - 1
      BY <1>1
    <3> QED  BY <3>1, IntervalCount, Zenon
  <2>2. /\ Passed(out, s) \cup Later(D, s) \subseteq s + 1 .. Len(out)
        /\ Passed(out, s) \cap Later(D, s) = {}
    BY <1>1 DEF Passed, Later
  <2>3. Cardinality(Passed(out, s) \cup Later(D, s))
          = Cardinality(Passed(out, s)) + Cardinality(Later(D, s))
            - Cardinality(Passed(out, s) \cap Later(D, s))
    BY <1>4, <1>5, FS_Union, Zenon
  <2>4. Cardinality(Passed(out, s) \cup Later(D, s)) <= Cardinality(s + 1 .. Len(out))
    BY <2>1, <2>2, FS_Subset, Zenon
  <2>5. Cardinality({}) = 0
    BY FS_EmptySet
  <2>6. Cardinality(Passed(out, s)) + Cardinality(Later(D, s)) - 0 <= Len(out) - (s + 1) + 1
    BY <2>1, <2>2, <2>3, <2>4, <2>5, Zenon
  <2> QED  BY <1>1, <1>4, <1>5, <2>6
<1>8. out[s].age \in Nat
  BY <1>1, <1>2
<1> QED  BY <1>1, <1>3, <1>4, <1>5, <1>6, <1>7, <1>8, SampleSum, Zenon

LEMMA EndBehind ==
  ASSUME NEW g \in Int, NEW age \in Nat, g + age <= 0
  PROVE  g <= 0
OBVIOUS

LEMMA EndAhead ==
  ASSUME NEW g \in 1 - 2 * Flight .. Flight, NEW age \in Nat, NEW n \in 0 .. Flight,
         age + n \in 0 .. 2 * Flight - 1, ~(g + age <= 0)
  PROVE  g - n \in 1 - 2 * Flight .. Flight
BY RoundsAssumption DEF R!SpaceAssumption

(* A round end reached by no ACK's sample stays ahead of it; one that is   *)
(* reached is behind every packet counted.                                 *)
LEMMA AckStep ==
  ASSUME RoundsInv, NEW D \in SUBSET R!Unsacked, D # {}, R!Ack(D)
  PROVE  RoundsInv' /\ (parity' # parity => gap <= 0)
<1> DEFINE n == Cardinality(D)
           c == R!Covered(D)
           q == R!Kept(c)
           d == Wrap(delivered + n)
           s == R!Sampled(D)
           reached == R!skyline_round_reached(out[s].prior, next)
<1>1. /\ out \in Seq(Packets) /\ delivered \in 0 .. Space - 1 /\ parity \in {0, 1}
      /\ gap \in 1 - 2 * Flight .. Flight /\ next = Wrap(delivered + gap)
      /\ Flight \in Nat \ {0} /\ Space \in Nat /\ 6 * Flight <= Space
  BY RoundsAssumption DEF RoundsInv, R!SpaceAssumption
<1>2. /\ n \in 0 .. Flight /\ c \in Seq(Packets) /\ Len(c) <= Flight
      /\ Paced(c) /\ Carried(c, d)
  BY CoveredRight, Zenon
<1>3. 0 \in 0 .. 2 * Flight
  BY <1>1
<1>4. /\ (delivered + n) % Space = d /\ d \in 0 .. Space - 1
      /\ Wrap(d + (gap - n)) = next
  BY <1>1, <1>2, <1>3, WrapMoves, Zenon
<1>5. /\ q \in Seq(Packets) /\ Len(q) <= Len(c) /\ Paced(q) /\ Carried(q, d)
  <2> HIDE DEF c, d
  <2> QED  BY <1>2, <1>4, KeptRight, Zenon
<1>6. Len(q) \in 0 .. Flight
  <2> HIDE DEF q, c
  <2> QED  BY <1>1, <1>2, <1>5
<1>7. s \in D /\ s \in DOMAIN out /\ ~out[s].sacked
  BY <1>1, SampledIs DEF R!Unsacked
<1>8. reached <=> gap + out[s].age <= 0
  BY <1>7, RoundsExactly, Zenon DEF R!RoundsExact
<1>9. out[s].age + n \in 0 .. 2 * Flight - 1 /\ out[s].age \in Nat
  <2>1. out[s] \in Packets
    <3> HIDE DEF s
    <3> QED  BY <1>1, <1>7
  <2>2. out[s].age \in Nat
    <3> HIDE DEF s
    <3> QED  BY <2>1 DEF Packets
  <2> QED  BY <1>7, <2>2, SampleYoung, Zenon
<1>10. /\ delivered' = d /\ out' = q
       /\ \/ reached /\ next' = R!NextAfter(q, d) /\ gap' = Len(q) /\ parity' = 1 - parity
          \/ reached /\ next' = d /\ gap' = 0 /\ parity' = 1 - parity
          \/ ~reached /\ gap' = R!Behind(gap - n) /\ next' = next /\ parity' = parity
  BY <1>4, SameCount, Zenon DEF R!Ack
<1>11. (d + Len(q)) % Space = Wrap(d + Len(q)) /\ Wrap(d) = d
  <2> HIDE DEF d, q
  <2>1. (d + Len(q)) \in 0 .. 2 * Space - 1
    BY <1>1, <1>4, <1>6
  <2>2. Wrap(d) = d
    BY <1>1, <1>4 DEF Wrap
  <2> QED  BY <2>1, <2>2, WrapIsMod, Zenon
<1> HIDE DEF n, c, q, d, s, reached
<1>12. /\ gap' \in 1 - 2 * Flight .. Flight /\ next' = Wrap(d + gap') /\ parity' \in {0, 1}
       /\ (parity' # parity => gap <= 0)
  <2>1. CASE reached /\ next' = R!NextAfter(q, d) /\ gap' = Len(q) /\ parity' = 1 - parity
    <3>1. gap <= 0
      <4>1. gap + out[s].age <= 0
        BY <1>8, <2>1, Zenon
      <4>2. gap \in Int
        BY <1>1
      <4> QED  BY <1>9, <4>1, <4>2, EndBehind, Zenon
    <3>2. next' = Wrap(d + gap')
      BY <1>11, <2>1, Zenon DEF R!NextAfter
    <3> QED  BY <1>1, <1>6, <2>1, <3>1, <3>2
  <2>2. CASE reached /\ next' = d /\ gap' = 0 /\ parity' = 1 - parity
    <3>1. gap <= 0
      <4>1. gap + out[s].age <= 0
        BY <1>8, <2>2, Zenon
      <4>2. gap \in Int
        BY <1>1
      <4> QED  BY <1>9, <4>1, <4>2, EndBehind, Zenon
    <3>2. d + 0 = d
      BY <1>4
    <3>3. next' = Wrap(d + gap')
      BY <1>11, <2>2, <3>2, Zenon
    <3> QED  BY <1>1, <2>2, <3>1, <3>3
  <2>3. CASE ~reached /\ gap' = R!Behind(gap - n) /\ next' = next /\ parity' = parity
    <3>1. gap - n \in 1 - 2 * Flight .. Flight
      <4>1. ~(gap + out[s].age <= 0)
        BY <1>8, <2>3, Zenon
      <4> QED  BY <1>1, <1>2, <1>9, <4>1, EndAhead, Zenon
    <3>2. R!Behind(gap - n) = gap - n
      BY <1>1, <3>1 DEF R!Behind
    <3>3. next' = Wrap(d + gap')
      BY <1>4, <2>3, <3>2, Zenon
    <3> QED  BY <1>1, <2>3, <3>1, <3>2, <3>3
  <2> QED  BY <1>10, <2>1, <2>2, <2>3
<1>13. Len(q) <= Flight
  BY <1>6, <1>1
<1> QED  BY <1>4, <1>5, <1>10, <1>12, <1>13, Zenon
         DEF RoundsInv, Paced, Carried, Ahead, Passed, Wrap, Packets

LEMMA RoundsBegin ==
  ASSUME R!Init
  PROVE  RoundsInv
<1>1. out = <<>> /\ out \in Seq(Packets) /\ Len(out) = 0 /\ DOMAIN out = {}
  BY DEF R!Init
<1>2. Paced(out) /\ Carried(out, delivered)
  BY <1>1, Zenon DEF Paced, Carried
<1> QED  BY <1>1, <1>2, RoundsAssumption DEF R!Init, RoundsInv, Wrap, R!SpaceAssumption

LEMMA RoundsStep ==
  ASSUME RoundsInv, [R!Next]_R!vars
  PROVE  RoundsInv' /\ (parity' = parity \/ gap <= 0)
<1>1. CASE R!Send
  BY <1>1, SendStep DEF R!Send
<1>2. CASE R!Resend
  BY <1>2, ResendStep, Zenon DEF R!Resend
<1>3. CASE R!AckArrives
  BY <1>3, AckStep, Zenon DEF R!AckArrives
<1>4. CASE UNCHANGED R!vars
  BY <1>4, Zenon DEF R!vars, RoundsInv, Paced, Carried, Ahead, Passed, Wrap, Packets
<1> QED  BY <1>1, <1>2, <1>3, <1>4 DEF R!Next

(* skyline_round_reached and skyline_new_round (skyline_cc.bpf.c): an ACK   *)
(* ends the round exactly when the packet it times was sent after the      *)
(* round began, wherever the counters wrap and whatever is resent, sacked  *)
(* or adopted in between, as long as a flight is at most a sixth of the    *)
(* circle; and no round ends early.                                        *)
THEOREM RoundsHold == R!Spec => RoundsRight
<1>1. R!Init => RoundsInv
  BY RoundsBegin
<1>2. RoundsInv /\ [R!Next]_R!vars => RoundsInv'
  BY RoundsStep
<1>3. RoundsInv => R!TypeOK /\ R!RoundsExact
  BY RoundsTyped, RoundsExactly
<1>4. RoundsInv /\ [R!Next]_R!vars => [parity' # parity => gap <= 0]_R!vars
  BY RoundsStep
<1> QED  BY <1>1, <1>2, <1>3, <1>4, PTL
         DEF RoundsRight, R!Spec, R!RoundsRight, R!RoundsAreFlights
=============================================================================
