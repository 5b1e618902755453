------------------------ MODULE ConfigRequestsProofs ------------------------
(***************************************************************************)
(* For every set of files and payloads: the configuration in memory stays  *)
(* valid, every map the kernel is given is one its program can run on and  *)
(* the one `status` reports, and every request is done whole or not at all.*)
(*                                                                         *)
(* DisableModule, ResetRackRto, ResetRetransmitDscp and ResetRedundancy do *)
(* not validate.  The argument is that the file was valid as a whole, that *)
(* validate has one rule that spans two sections (PacingCapped), and that  *)
(* none of the four can break that one.  The step lemmas are about Request,*)
(* which allows any payload of the right type, so that they hold whoever   *)
(* the requests come from.                                                 *)
(***************************************************************************)
EXTENDS ConfigRequests, TLAPS

(* A valid configuration converts to a map skyline_cc can run on.          *)
LEMMA CcSound == ASSUME NEW c \in Config, Valid(c)
                 PROVE  CcMapSound(KernelConfig(c))
<1>1. /\ FloatsFinite(c) /\ ValidWindow(c) /\ ValidFilters(c.adaptive_cwnd)
      /\ ValidGains(c) /\ PacingCapped(c)
  BY DEF Valid
<1>2. \A x \in Int : x >= 0 => Permille(x) = (x + 5) \div 10
  BY SchemaAssumption, SMT DEF Permille
<1>3. \A x \in Int : /\ 10000 <= x => 1000 <= (x + 5) \div 10
                     /\ x <= 10000000 => (x + 5) \div 10 <= 1000000
                     /\ x <= 10000 => (x + 5) \div 10 <= 1000
                     /\ x <= 5000 => (x + 5) \div 10 <= 500
                     /\ (x + 5) \div 10 \in Int
  BY SMT
<1>4. \A g \in GainNames : PermilleSound(Permille(c.adaptive_cwnd[g]))
  <2>1. 1000000 <= U32Max \div 2000 /\ U32Max \div 2000 \in Int
    BY SchemaAssumption, SMT DEF LargestProduct
  <2> TAKE g \in GainNames
  <2> DEFINE x == c.adaptive_cwnd[g]
  <2>2. Contains(One, MAX_MODE_GAIN, x)
    BY <1>1 DEF ValidGains
  <2> HIDE DEF x
  <2>3. x \in Int /\ 10000 <= x /\ x <= 10000000
    BY <2>2, SMT DEF Contains, One, MAX_MODE_GAIN
  <2>4. PermilleSound(Permille(x))
    BY <1>2, <1>3, <2>1, <2>3, SMT DEF PermilleSound
  <2> QED  BY <2>4 DEF x
<1>5. /\ Permille(c.loss_classifier.loss_inflation_max_ratio) <= 500
      /\ Permille(c.adaptive_cwnd.guardrail_gain) <= 1000
  <2>1. /\ Contains(0, One \div 2, c.loss_classifier.loss_inflation_max_ratio)
        /\ Contains(0, One, c.adaptive_cwnd.guardrail_gain)
    BY <1>1 DEF ValidGains
  <2>2. \A x : /\ Contains(0, One \div 2, x) => Permille(x) <= 500
               /\ Contains(0, One, x) => Permille(x) <= 1000
    BY <1>2, <1>3, SMT DEF Contains, One
  <2> QED  BY <2>1, <2>2
<1>6. LET w == SatMul(c.adaptive_cwnd.min_rtt_window_s, 1000000)
      IN w \in 1..U32Max /\ w % 1000000 = 0
  <2> DEFINE s == c.adaptive_cwnd.min_rtt_window_s
  <2>1. s \in 1..(U32Max \div 1000000)
    BY <1>1, SMT DEF ValidFilters, MAX_MIN_RTT_WINDOW_S
  <2> HIDE DEF s
  <2>2. s * 1000000 \in 1..U32Max /\ (s * 1000000) % 1000000 = 0
    BY <2>1, SchemaAssumption, SMT
  <2>3. SatMul(s, 1000000) = s * 1000000
    BY <2>1, SchemaAssumption, SMT DEF SatMul
  <2> QED  BY <2>2, <2>3, SMT DEF s
<1>7. "pacing" \in FeatureMask(c) => c.max_pacing_mbps > 0
  BY <1>1 DEF PacingCapped, FeatureMask, Config
<1>8. /\ c.min_cwnd_packets >= MIN_CWND_FLOOR
      /\ c.min_cwnd_packets <= c.max_cwnd_packets
      /\ c.initial_cwnd_packets <= c.max_cwnd_packets
      /\ c.adaptive_cwnd.bw_window_rtts \in 1..10
  BY <1>1 DEF ValidWindow, ValidFilters
<1> QED
  BY <1>4, <1>5, <1>6, <1>7, <1>8, SMT DEF CcMapSound, KernelConfig, GainNames

(* The other three maps.                                                   *)
LEMMA SidesSound ==
  /\ \A r \in RackRto, g \in U32 : ValidRackRto(r) => RtoMapSound(KernelRto(r, g))
  /\ \A d \in RetransmitDscp : ValidDscp(d) => DscpMapSound(KernelDscp(d))
  /\ \A r \in Redundancy, a \in BOOLEAN :
       ValidRedundancy(r) => RedundancyMapSound(KernelRedundancy(r, a))
<1>1. ASSUME NEW r \in RackRto, NEW g \in U32, ValidRackRto(r)
      PROVE  RtoMapSound(KernelRto(r, g))
  BY <1>1, SMT DEF RackRto, U32, ValidRackRto, RtoMapSound, KernelRto,
     SKYLINE_RTO_MIN_KERNEL_DEFAULT_US
<1>2. ASSUME NEW d \in RetransmitDscp, ValidDscp(d)
      PROVE  DscpMapSound(KernelDscp(d))
  BY <1>2 DEF RetransmitDscp, ValidDscp, DscpMapSound, KernelDscp
<1>3. ASSUME NEW r \in Redundancy, NEW a \in BOOLEAN, ValidRedundancy(r)
      PROVE  RedundancyMapSound(KernelRedundancy(r, a))
  <2>1. SatMul(r.delay_ms, 1000) <= 1000 * MAX_DELAY_MS
    BY <1>3, SchemaAssumption, SMT DEF Redundancy, U32, ValidRedundancy, SatMul, MAX_DELAY_MS,
       LargestProduct
  <2>2. r.enabled => /\ 1024 <= SatMul(r.first_kib, 1024)
                     /\ SatMul(r.first_kib, 1024) <= 1024 * MAX_FIRST_KIB
    BY <1>3, SchemaAssumption, SMTT(30) DEF Redundancy, U32, ValidRedundancy, SatMul, MAX_FIRST_KIB,
       LargestProduct
  <2> QED  BY <1>3, <2>1, <2>2, SMT DEF RedundancyMapSound, KernelRedundancy, Redundancy
<1> QED  BY <1>1, <1>2, <1>3

-----------------------------------------------------------------------------
(* The fields validate reads that only SetModuleConfig and its reset write. *)
SameCore(c, d) ==
  /\ d.fallback_cc = c.fallback_cc
  /\ d.max_queue_delay_ratio = c.max_queue_delay_ratio
  /\ d.max_cwnd_packets = c.max_cwnd_packets
  /\ d.min_cwnd_packets = c.min_cwnd_packets
  /\ d.initial_cwnd_packets = c.initial_cwnd_packets
  /\ d.max_pacing_mbps = c.max_pacing_mbps
  /\ d.adaptive_cwnd = c.adaptive_cwnd
  /\ d.loss_classifier = c.loss_classifier
  /\ d.rack_tuning = c.rack_tuning
  /\ d.guard = c.guard

(* The fields kernel_config reads, the generation aside.                   *)
SameKernel(c, d) ==
  /\ d.enabled_modules = c.enabled_modules
  /\ d.prr_pacing_enabled = c.prr_pacing_enabled
  /\ d.auto_pacing_enabled = c.auto_pacing_enabled
  /\ d.max_queue_delay_ms = c.max_queue_delay_ms
  /\ SameCore(c, d)

(* The three sections kept in the maps of the other objects.               *)
SameSides(c, d) == /\ d.rack_rto = c.rack_rto
                   /\ d.retransmit_dscp = c.retransmit_dscp
                   /\ d.redundancy = c.redundancy

(* The type of a section, and which sections each kind of change leaves.   *)
LEMMA Sections ==
  ASSUME NEW c \in Config
  PROVE  /\ c.rack_rto \in RackRto
         /\ c.retransmit_dscp \in RetransmitDscp /\ c.retransmit_dscp.enabled \in BOOLEAN
         /\ c.redundancy \in Redundancy /\ c.redundancy.enabled \in BOOLEAN
<1>1. /\ c.rack_rto \in RackRto /\ c.retransmit_dscp \in RetransmitDscp
      /\ c.redundancy \in Redundancy
  BY DEF Config
<1> QED  BY <1>1 DEF RetransmitDscp, Redundancy

LEMMA Generation ==
  ASSUME NEW c \in Config
  PROVE  /\ c.generation \in U32 /\ c.generation \in Nat /\ c.generation \in Int
         /\ c.generation >= c.generation
         /\ SatAdd(c.generation, 1) \in U32
<1>1. c.generation \in U32
  BY DEF Config
<1> QED  BY <1>1, SchemaAssumption DEF U32, SatAdd

LEMMA ModulesChanged ==
  ASSUME NEW c \in Config, NEW ms
  PROVE  /\ [c EXCEPT !.enabled_modules = ms].generation = c.generation
         /\ [c EXCEPT !.enabled_modules = ms].enabled_modules = ms
         /\ SameCore(c, [c EXCEPT !.enabled_modules = ms])
         /\ SameSides(c, [c EXCEPT !.enabled_modules = ms])
         /\ ms \subseteq c.enabled_modules => [c EXCEPT !.enabled_modules = ms] \in Config
BY DEF Config, SameCore, SameSides

LEMMA RackRtoChanged ==
  ASSUME NEW c \in Config, NEW r
  PROVE  /\ [c EXCEPT !.rack_rto = r].generation = c.generation
         /\ [c EXCEPT !.rack_rto = r].rack_rto = r
         /\ [c EXCEPT !.rack_rto = r].retransmit_dscp = c.retransmit_dscp
         /\ [c EXCEPT !.rack_rto = r].redundancy = c.redundancy
         /\ SameKernel(c, [c EXCEPT !.rack_rto = r])
         /\ r \in RackRto => [c EXCEPT !.rack_rto = r] \in Config
BY DEF Config, SameCore, SameKernel

LEMMA DscpChanged ==
  ASSUME NEW c \in Config, NEW d
  PROVE  /\ [c EXCEPT !.retransmit_dscp = d].generation = c.generation
         /\ [c EXCEPT !.retransmit_dscp = d].rack_rto = c.rack_rto
         /\ [c EXCEPT !.retransmit_dscp = d].retransmit_dscp = d
         /\ [c EXCEPT !.retransmit_dscp = d].redundancy = c.redundancy
         /\ SameKernel(c, [c EXCEPT !.retransmit_dscp = d])
         /\ d \in RetransmitDscp => [c EXCEPT !.retransmit_dscp = d] \in Config
BY DEF Config, SameCore, SameKernel

LEMMA RedundancyChanged ==
  ASSUME NEW c \in Config, NEW r
  PROVE  /\ [c EXCEPT !.redundancy = r].generation = c.generation
         /\ [c EXCEPT !.redundancy = r].rack_rto = c.rack_rto
         /\ [c EXCEPT !.redundancy = r].retransmit_dscp = c.retransmit_dscp
         /\ [c EXCEPT !.redundancy = r].redundancy = r
         /\ SameKernel(c, [c EXCEPT !.redundancy = r])
         /\ r \in Redundancy => [c EXCEPT !.redundancy = r] \in Config
BY DEF Config, SameCore, SameKernel

LEMMA TuningChanged ==
  ASSUME NEW c \in Config, NEW t
  PROVE  /\ ApplyTo(t, c).generation = c.generation
         /\ SameSides(c, ApplyTo(t, c))
BY DEF Config, ApplyTo, SameSides

LEMMA BumpedSame ==
  ASSUME NEW c \in Config
  PROVE  /\ Bumped(c).generation = SatAdd(c.generation, 1)
         /\ SameKernel(c, Bumped(c)) /\ SameSides(c, Bumped(c))
         /\ SatAdd(c.generation, 1) \in U32 => Bumped(c) \in Config
BY DEF Bumped, Config, SameKernel, SameCore, SameSides

(* What is published: its number, and what it depends on otherwise.        *)
LEMMA KernelNumber == ASSUME NEW c PROVE KernelConfig(c).generation = c.generation
BY SMTT(60) DEF KernelConfig

LEMMA KernelSame ==
  ASSUME NEW c \in Config, NEW d \in Config, SameKernel(c, d), NEW g
  PROVE  KernelConfig([c EXCEPT !.generation = g]) = KernelConfig([d EXCEPT !.generation = g])
<1> DEFINE cg == [c EXCEPT !.generation = g]
           dg == [d EXCEPT !.generation = g]
<1>1. SameKernel(cg, dg) /\ cg.generation = g /\ dg.generation = g
  BY DEF SameKernel, SameCore, Config
<1> HIDE DEF cg, dg
<1>2. FeatureMask(cg) = FeatureMask(dg)
  BY <1>1, ZenonT(10) DEF FeatureMask, SameKernel
<1>3. KernelConfig(cg) = KernelConfig(dg)
  BY <1>1, <1>2, SMTT(30) DEF KernelConfig, SameKernel, SameCore
<1> QED  BY <1>3 DEF cg, dg

LEMMA KernelNow ==
  ASSUME NEW c \in Config
  PROVE  /\ KernelConfig(c).generation = c.generation
         /\ KernelConfig(c) = KernelConfig([c EXCEPT !.generation = KernelConfig(c).generation])
<1>1. KernelConfig(c).generation = c.generation
  BY KernelNumber, Zenon
<1>2. [c EXCEPT !.generation = c.generation] = c
  BY DEF Config
<1> QED  BY <1>1, <1>2, SMTT(30)

(* A configuration that keeps those of a valid one, drops modules at most, *)
(* and takes each other section from a valid one, is valid.                *)
LEMMA Transfer ==
  ASSUME NEW c \in Config, NEW d \in Config, Valid(c), SameCore(c, d),
         d.generation # 0,
         d.enabled_modules \subseteq c.enabled_modules,
         ValidRackRto(d.rack_rto), ValidDscp(d.retransmit_dscp),
         ValidRedundancy(d.redundancy)
  PROVE  Valid(d)
<1>1. FloatsFinite(d)
  BY DEF Valid, FloatsFinite, SameCore
<1>2. ValidWindow(d)
  BY DEF Valid, ValidWindow, SameCore
<1>3. ValidGains(d)
  BY DEF Valid, ValidGains, SameCore
<1>4. PacingCapped(d)
  BY DEF Valid, PacingCapped, SameCore
<1> QED
  BY <1>1, <1>2, <1>3, <1>4, ZenonT(10) DEF Valid, SameCore

(* The number of a valid configuration.                                    *)
LEMMA Numbered == ASSUME NEW c \in Config, Valid(c) PROVE c.generation \in 1..U32Max
<1>1. c.generation \in U32
  BY DEF Config
<1>2. c.generation # 0
  BY DEF Valid
<1> QED  BY <1>1, <1>2, SchemaAssumption, SMTT(30) DEF U32

LEMMA BumpedValid == ASSUME NEW c \in Config, Valid(c)
                     PROVE  /\ Bumped(c) \in Config
                            /\ Valid(Bumped(c))
                            /\ Bumped(c).generation \in 1..U32Max
                            /\ Bumped(c).generation >= c.generation
                            /\ Bumped(c).generation # U32Max =>
                                 Bumped(c).generation > c.generation
<1>1. c.generation \in 1..U32Max
  BY Numbered
<1>2. /\ SatAdd(c.generation, 1) \in 1..U32Max
      /\ SatAdd(c.generation, 1) >= c.generation
      /\ SatAdd(c.generation, 1) # U32Max => SatAdd(c.generation, 1) > c.generation
  BY <1>1, SchemaAssumption DEF SatAdd
<1>3. Bumped(c) \in Config /\ Bumped(c).generation = SatAdd(c.generation, 1)
  <2>1. SatAdd(c.generation, 1) \in U32
    BY <1>2, SchemaAssumption DEF U32
  <2> QED  BY <2>1, BumpedSame, Zenon
<1>4. /\ SameCore(c, Bumped(c))
      /\ Bumped(c).enabled_modules = c.enabled_modules
      /\ Bumped(c).rack_rto = c.rack_rto
      /\ Bumped(c).retransmit_dscp = c.retransmit_dscp
      /\ Bumped(c).redundancy = c.redundancy
  BY BumpedSame, Zenon DEF SameKernel, SameSides
<1>5. Valid(Bumped(c))
  <2>1. Bumped(c).generation # 0
    BY <1>2, <1>3, SchemaAssumption
  <2> QED  BY <1>3, <1>4, <2>1, Transfer, ZenonT(10) DEF Valid
<1> QED  BY <1>2, <1>3, <1>5

(* What the requests that do not validate make of a valid configuration.   *)
LEMMA UncheckedValid ==
  ASSUME NEW c \in Config, Valid(c), NEW f \in Config, Valid(f), NEW m
  PROVE  /\ [c EXCEPT !.enabled_modules = @ \ {m}] \in {d \in Config : Valid(d)}
         /\ [c EXCEPT !.rack_rto = f.rack_rto] \in {d \in Config : Valid(d)}
         /\ [c EXCEPT !.retransmit_dscp = f.retransmit_dscp] \in {d \in Config : Valid(d)}
         /\ [c EXCEPT !.redundancy = f.redundancy] \in {d \in Config : Valid(d)}
<1>1. ASSUME NEW d \in Config, SameCore(c, d), d.generation = c.generation,
             d.enabled_modules \subseteq c.enabled_modules,
             d.rack_rto \in {c.rack_rto, f.rack_rto},
             d.retransmit_dscp \in {c.retransmit_dscp, f.retransmit_dscp},
             d.redundancy \in {c.redundancy, f.redundancy}
      PROVE  Valid(d)
  BY <1>1, Transfer, ZenonT(10) DEF Valid
<1>2. [c EXCEPT !.enabled_modules = @ \ {m}] \in {d \in Config : Valid(d)}
  <2> DEFINE d == [c EXCEPT !.enabled_modules = @ \ {m}]
  <2>1. d \in Config /\ SameCore(c, d) /\ d.generation = c.generation
        /\ d.enabled_modules \subseteq c.enabled_modules /\ d.rack_rto = c.rack_rto
        /\ d.retransmit_dscp = c.retransmit_dscp /\ d.redundancy = c.redundancy
    BY DEF Config, SameCore
  <2> QED  BY <1>1, <2>1, Zenon
<1>3. [c EXCEPT !.rack_rto = f.rack_rto] \in {d \in Config : Valid(d)}
  <2> DEFINE d == [c EXCEPT !.rack_rto = f.rack_rto]
  <2>1. d \in Config /\ SameCore(c, d) /\ d.generation = c.generation
        /\ d.enabled_modules = c.enabled_modules /\ d.rack_rto = f.rack_rto
        /\ d.retransmit_dscp = c.retransmit_dscp /\ d.redundancy = c.redundancy
    BY DEF Config, SameCore
  <2> QED  BY <1>1, <2>1, Zenon
<1>4. [c EXCEPT !.retransmit_dscp = f.retransmit_dscp] \in {d \in Config : Valid(d)}
  <2> DEFINE d == [c EXCEPT !.retransmit_dscp = f.retransmit_dscp]
  <2>1. d \in Config /\ SameCore(c, d) /\ d.generation = c.generation
        /\ d.enabled_modules = c.enabled_modules /\ d.rack_rto = c.rack_rto
        /\ d.retransmit_dscp = f.retransmit_dscp /\ d.redundancy = c.redundancy
    BY DEF Config, SameCore
  <2> QED  BY <1>1, <2>1, Zenon
<1>5. [c EXCEPT !.redundancy = f.redundancy] \in {d \in Config : Valid(d)}
  <2> DEFINE d == [c EXCEPT !.redundancy = f.redundancy]
  <2>1. d \in Config /\ SameCore(c, d) /\ d.generation = c.generation
        /\ d.enabled_modules = c.enabled_modules /\ d.rack_rto = c.rack_rto
        /\ d.retransmit_dscp = c.retransmit_dscp /\ d.redundancy = f.redundancy
    BY DEF Config, SameCore
  <2> QED  BY <1>1, <2>1, Zenon
<1> QED  BY <1>2, <1>3, <1>4, <1>5

(* Any payload serde can decode fits the configuration.                    *)
LEMMA FromConfigTyped == ASSUME NEW f \in Config PROVE FromConfig(f) \in ModuleTuning
BY DEF FromConfig, ModuleTuning, Config

LEMMA PayloadTypes ==
  ASSUME NEW c \in Config
  PROVE  /\ \A ms \in {None} \cup SUBSET Modules :
              [c EXCEPT !.enabled_modules = IF ms = None THEN @ ELSE ms] \in Config
         /\ \A t \in ModuleTuning : ApplyTo(t, c) \in Config
         /\ \A f \in Config : ApplyTo(FromConfig(f), c) \in Config
         /\ \A r \in RackRto : [c EXCEPT !.rack_rto = r] \in Config
         /\ \A d \in RetransmitDscp : [c EXCEPT !.retransmit_dscp = d] \in Config
         /\ \A r \in Redundancy : [c EXCEPT !.redundancy = r] \in Config
<1>1. ASSUME NEW t \in ModuleTuning  PROVE ApplyTo(t, c) \in Config
  BY ZenonT(30) DEF ApplyTo, ModuleTuning, Config
<1>2. ASSUME NEW f \in Config  PROVE FromConfig(f) \in ModuleTuning
  BY FromConfigTyped
<1>3. \A ms \in {None} \cup SUBSET Modules :
        [c EXCEPT !.enabled_modules = IF ms = None THEN @ ELSE ms] \in Config
  BY DEF Config
<1>4. /\ \A r \in RackRto : [c EXCEPT !.rack_rto = r] \in Config
      /\ \A d \in RetransmitDscp : [c EXCEPT !.retransmit_dscp = d] \in Config
      /\ \A r \in Redundancy : [c EXCEPT !.redundancy = r] \in Config
  BY RackRtoChanged, DscpChanged, RedundancyChanged, Zenon
<1> QED  BY <1>1, <1>2, <1>3, <1>4

-----------------------------------------------------------------------------
(* The inductive invariant: what the file and the memory hold is valid, so *)
(* that what is written from either can be run on.                         *)
ConfigOK == /\ file \in Config /\ Valid(file)
            /\ config \in Config /\ Valid(config)
FlagsOK == /\ tc \in {"absent", "empty", "loaded"}
           /\ capable \in BOOLEAN /\ policyLoaded \in BOOLEAN
           /\ attached \in BOOLEAN /\ accelerating \in BOOLEAN
           /\ draining \in BOOLEAN /\ redActive \in BOOLEAN
           /\ reply.ok \in BOOLEAN
IndInv == ConfigOK /\ FlagsOK /\ MapsSound

LEMMA StartedOK == ASSUME NEW f \in Config, Valid(f)
                   PROVE  Started(f) \in Config /\ Valid(Started(f))
<1> DEFINE d == Started(f)
<1>1. d \in Config
  <2>1. /\ [f.rack_rto EXCEPT !.enabled = FALSE] \in RackRto
        /\ [f.retransmit_dscp EXCEPT !.enabled = FALSE] \in RetransmitDscp
    BY ZenonT(30) DEF Config, RackRto, RetransmitDscp
  <2>2. d = [f EXCEPT !.rack_rto = [f.rack_rto EXCEPT !.enabled = FALSE],
                      !.retransmit_dscp = [f.retransmit_dscp EXCEPT !.enabled = FALSE]]
    BY DEF Started, Config
  <2> QED  BY <2>1, <2>2, ZenonT(30) DEF Config
<1>2. /\ SameCore(f, d) /\ d.generation = f.generation
      /\ d.enabled_modules = f.enabled_modules
      /\ d.redundancy = f.redundancy
      /\ d.rack_rto.enabled = FALSE
      /\ d.retransmit_dscp.enabled = FALSE
      /\ d.retransmit_dscp.dscp_value = f.retransmit_dscp.dscp_value
  BY DEF Started, Config, SameCore, RackRto, RetransmitDscp
<1>3. ValidRackRto(d.rack_rto) /\ ValidDscp(d.retransmit_dscp)
  BY <1>2, ZenonT(10) DEF Valid, ValidRackRto, ValidDscp
<1> HIDE DEF d
<1>4. Valid(d)
  BY <1>1, <1>2, <1>3, Transfer, ZenonT(10) DEF Valid
<1> QED  BY <1>1, <1>4 DEF d

LEMMA LoadedOff == /\ KernelRto(RtoDisabled, 0).enabled = FALSE
                   /\ KernelDscp(DscpDisabled).enabled = FALSE
                   /\ KernelRedundancy(RedundancyDisabled, FALSE).enabled = FALSE
<1>1. KernelRto(RtoDisabled, 0).enabled = FALSE
  BY SMT DEF KernelRto, RtoDisabled
<1>2. KernelDscp(DscpDisabled).enabled = FALSE
  BY DEF KernelDscp, DscpDisabled
<1>3. KernelRedundancy(RedundancyDisabled, FALSE).enabled = FALSE
  BY Zenon DEF KernelRedundancy, RedundancyDisabled
<1> QED  BY <1>1, <1>2, <1>3, Zenon

LEMMA InitOK == Init => IndInv
<1> SUFFICES ASSUME Init PROVE IndInv
  OBVIOUS
<1>1. ConfigOK
  BY StartedOK, RequestAssumption DEF Init, ConfigOK
<1>2. FlagsOK
  BY Zenon DEF Init, FlagsOK
<1>3. MapsSound
  <2>1. /\ RtoMapSound(KernelRto(RtoDisabled, 0))
        /\ DscpMapSound(KernelDscp(DscpDisabled))
        /\ RedundancyMapSound(KernelRedundancy(RedundancyDisabled, FALSE))
    BY LoadedOff, Zenon DEF RtoMapSound, DscpMapSound, RedundancyMapSound
  <2> QED  BY <2>1, Zenon DEF Init, MapsSound
<1> QED  BY <1>1, <1>2, <1>3 DEF IndInv

-----------------------------------------------------------------------------
(* One lemma per helper that the requests share.                           *)
LEMMA SettleOK ==
  ASSUME ConfigOK, file' = file, NEW q, NEW next, NEW ok \in BOOLEAN,
         Settle(q, next, ok), ok => next \in Config /\ Valid(next)
  PROVE  ConfigOK' /\ reply'.ok \in BOOLEAN
BY DEF ConfigOK, Settle

LEMMA UpdateOK ==
  ASSUME NEW next \in Config, NEW ok \in BOOLEAN, ok => Valid(next),
         attached \in BOOLEAN, attached' = attached,
         attached => CcMapSound(ccMap), UpdateConfig(next, ok)
  PROVE  attached' => CcMapSound(ccMap')
BY CcSound DEF UpdateConfig

LEMMA RedundancyOK ==
  ASSUME NEW r \in Redundancy, NEW active \in BOOLEAN, NEW ok \in BOOLEAN,
         ok => ValidRedundancy(r), redActive \in BOOLEAN,
         RedundancyMapSound(redMap), ApplyRedundancy(r, active, ok)
  PROVE  RedundancyMapSound(redMap') /\ redActive' \in BOOLEAN
<1>1. r.enabled \in BOOLEAN
  BY DEF Redundancy
<1>2. (redMap' = KernelRedundancy(r, active) /\ ok) \/ redMap' = redMap
  BY DEF ApplyRedundancy
<1>3. RedundancyMapSound(redMap')
  BY <1>2, SidesSound
<1>4. redActive' \in BOOLEAN
  BY <1>1 DEF ApplyRedundancy
<1> QED  BY <1>3, <1>4

LEMMA DscpOK ==
  ASSUME NEW d \in RetransmitDscp, NEW ok \in BOOLEAN, ok => ValidDscp(d),
         DscpMapSound(dscpMap), ApplyDscp(d, ok)
  PROVE  DscpMapSound(dscpMap')
BY SidesSound DEF ApplyDscp

LEMMA RtoOK ==
  ASSUME NEW next \in Config, NEW ok \in BOOLEAN, ok => ValidRackRto(next.rack_rto),
         RtoMapSound(rtoMap), SetRtoTuning(next, ok)
  PROVE  RtoMapSound(rtoMap')
<1>1. next.rack_rto \in RackRto /\ next.generation \in U32
  BY Sections, Generation, Zenon
<1> QED  BY <1>1, SidesSound DEF SetRtoTuning

-----------------------------------------------------------------------------
(* A request with any payload serde can decode, whoever sends it.          *)
Request ==
  \/ \E ms \in {None} \cup SUBSET Modules :
       EnableRefused(ms) \/ EnableNotDefault(ms) \/ Enable(ms)
  \/ DrainNotClosed \/ DrainStillCopying \/ DrainStillAttached \/ Drain
  \/ \E m \in Modules : DisableModule(m)
  \/ \E t \in ModuleTuning : SetModuleConfig(t)
  \/ ResetModuleConfig
  \/ \E r \in RackRto : SetRackRto(r)
  \/ ResetRackRto
  \/ \E d \in RetransmitDscp : SetRetransmitDscp(d)
  \/ ResetRetransmitDscp
  \/ \E r \in Redundancy : SetRedundancy(r)
  \/ ResetRedundancy

LEMMA NextIsRequest == Next => Request
<1> SUFFICES ASSUME Next PROVE Request
  OBVIOUS
<1>1. ModuleSets \subseteq SUBSET Modules
  BY RequestAssumption
<1> QED  BY <1>1, RequestAssumption, Zenon DEF Next, Request

LEMMA EnableOK ==
  ASSUME IndInv, NEW ms \in {None} \cup SUBSET Modules,
         EnableRefused(ms) \/ EnableNotDefault(ms) \/ Enable(ms)
  PROVE  IndInv'
<1> USE DEF IndInv
<1> DEFINE next == EnableConfig(ms)
<1>0. config.redundancy \in Redundancy /\ ValidRedundancy(config.redundancy)
  BY Sections, Zenon DEF ConfigOK, Valid
<1>1. CASE EnableRefused(ms)
  <2>1. ConfigOK' /\ reply'.ok \in BOOLEAN
    BY <1>1, SettleOK, Zenon DEF EnableRefused, start
  <2> QED
    BY <1>1, <2>1 DEF EnableRefused, start, flags, sides, FlagsOK, MapsSound
<1>2. ASSUME Valid(next)  PROVE next \in Config
  <2> DEFINE c == [config EXCEPT !.enabled_modules = IF ms = None THEN @ ELSE ms]
  <2>1. c \in Config
    BY PayloadTypes DEF ConfigOK
  <2>2. c.generation = config.generation
    BY ModulesChanged, Zenon DEF ConfigOK
  <2>3. c.generation \in 1..U32Max
    BY <2>2, Numbered DEF ConfigOK
  <2>4. SatAdd(c.generation, 1) \in U32
    BY <2>3, SchemaAssumption DEF SatAdd, U32
  <2> HIDE DEF c
  <2>5. Bumped(c) \in Config
    BY <2>1, <2>4, BumpedSame, Zenon
  <2> QED  BY <2>5 DEF EnableConfig, c
<1>3. CASE EnableNotDefault(ms)
  <2>1. next \in Config /\ Valid(next)
    BY <1>2, <1>3 DEF EnableNotDefault
  <2>2. CcMapSound(ccMap')
    BY <1>3, <2>1, CcSound DEF EnableNotDefault
  <2> QED
    BY <1>3, <2>1, <2>2 DEF EnableNotDefault, start, sides, ConfigOK, FlagsOK, MapsSound
<1>4. CASE Enable(ms)
  <2>1. next \in Config /\ Valid(next)
    BY <1>2, <1>4 DEF Enable
  <2>2. CcMapSound(ccMap')
    BY <1>4, <2>1, CcSound DEF Enable
  <2>3. PICK copied \in BOOLEAN : ApplyRedundancy(config.redundancy, TRUE, copied)
    BY <1>4, Zenon DEF Enable
  <2>4. RedundancyMapSound(redMap') /\ redActive' \in BOOLEAN
    BY <1>0, <2>3, RedundancyOK, Zenon DEF FlagsOK, MapsSound
  <2>5. ConfigOK' /\ reply'.ok \in BOOLEAN
    BY <1>4, <2>1, SettleOK, Zenon DEF Enable, start
  <2> QED
    BY <1>4, <2>2, <2>4, <2>5, Zenon DEF Enable, start, FlagsOK, MapsSound
<1> QED  BY <1>1, <1>3, <1>4, SMTT(30)

LEMMA DrainOK ==
  ASSUME IndInv, DrainNotClosed \/ DrainStillCopying \/ DrainStillAttached \/ Drain
  PROVE  IndInv'
<1> USE DEF IndInv
<1>0. config.redundancy \in Redundancy /\ ValidRedundancy(config.redundancy)
  BY Sections, Zenon DEF ConfigOK, Valid
<1>1. ConfigOK' /\ reply'.ok \in BOOLEAN
  BY SettleOK, Zenon DEF DrainNotClosed, DrainStillCopying, DrainStillAttached, Drain, ConfigOK, start
<1>2. CASE DrainNotClosed
  BY <1>1, <1>2 DEF DrainNotClosed, start, flags, sides, FlagsOK, MapsSound
<1>3. ASSUME NEW ok \in BOOLEAN, ApplyRedundancy(config.redundancy, FALSE, ok)
      PROVE  RedundancyMapSound(redMap') /\ redActive' \in BOOLEAN
  BY <1>0, <1>3, RedundancyOK, Zenon DEF FlagsOK, MapsSound
<1>4. CASE DrainStillCopying
  BY <1>1, <1>3, <1>4, Zenon DEF DrainStillCopying, start, FlagsOK, MapsSound
<1>5. CASE DrainStillAttached
  BY <1>1, <1>3, <1>5, Zenon DEF DrainStillAttached, start, FlagsOK, MapsSound
<1>6. CASE Drain
  BY <1>1, <1>3, <1>6, Zenon DEF Drain, start, FlagsOK, MapsSound
<1> QED  BY <1>2, <1>4, <1>5, <1>6

(* DisableModule, SetModuleConfig, ResetModuleConfig: one publication.     *)
LEMMA PublishOK ==
  ASSUME IndInv, NEW next \in Config, NEW ok \in BOOLEAN, ok => Valid(next),
         UpdateConfig(next, ok), Settle("other", next, ok),
         UNCHANGED <<start, flags, sides>>
  PROVE  IndInv'
<1> USE DEF IndInv
<1>1. ConfigOK' /\ reply'.ok \in BOOLEAN
  BY SettleOK DEF start
<1>2. attached' => CcMapSound(ccMap')
  BY UpdateOK DEF flags, FlagsOK, MapsSound
<1> QED
  BY <1>1, <1>2 DEF start, flags, sides, FlagsOK, MapsSound

LEMMA ModulesOK ==
  ASSUME IndInv,
         \/ \E m \in Modules : DisableModule(m)
         \/ \E t \in ModuleTuning : SetModuleConfig(t)
         \/ ResetModuleConfig
  PROVE  IndInv'
<1>0. config \in Config /\ Valid(config) /\ file \in Config /\ Valid(file)
  BY DEF IndInv, ConfigOK
<1>1. ASSUME NEW c \in Config  PROVE Valid(c) => Valid(Bumped(c)) /\ Bumped(c) \in Config
  BY BumpedValid
<1>2. ASSUME NEW c \in Config, c.generation = config.generation
      PROVE  Bumped(c) \in Config
  <2>1. c.generation \in 1..U32Max
    BY <1>0, <1>2, Numbered
  <2>2. SatAdd(c.generation, 1) \in U32
    BY <2>1, SchemaAssumption DEF SatAdd, U32
  <2> QED  BY <1>2, <2>2, BumpedSame, Zenon
<1>3. ASSUME NEW m \in Modules, DisableModule(m)  PROVE IndInv'
  <2> DEFINE c == [config EXCEPT !.enabled_modules = @ \ {m}]
  <2>1. c \in Config /\ Valid(c)
    BY <1>0, UncheckedValid, Zenon
  <2> HIDE DEF c
  <2>2. Bumped(c) \in Config /\ Valid(Bumped(c))
    BY <1>1, <2>1
  <2>3. PICK ok \in BOOLEAN : /\ UpdateConfig(Bumped(c), ok)
                              /\ Settle("other", Bumped(c), ok)
                              /\ UNCHANGED <<start, flags, sides>>
    BY <1>3 DEF DisableModule, c
  <2> QED  BY <2>2, <2>3, PublishOK
<1>4. ASSUME NEW c \in Config, c.generation = config.generation, NEW ok \in BOOLEAN,
             ok => Valid(c), UpdateConfig(Bumped(c), ok), Settle("other", Bumped(c), ok),
             UNCHANGED <<start, flags, sides>>
      PROVE  IndInv'
  <2>1. Bumped(c) \in Config /\ (ok => Valid(Bumped(c)))
    BY <1>1, <1>2, <1>4, ZenonT(10)
  <2> QED  BY <1>4, <2>1, PublishOK, Zenon
<1>5. \A t : ApplyTo(t, config).generation = config.generation
  BY <1>0, TuningChanged, Zenon
<1>6. ASSUME NEW t \in ModuleTuning, SetModuleConfig(t)  PROVE IndInv'
  <2>1. ApplyTo(t, config) \in Config
    BY <1>0, PayloadTypes
  <2> QED  BY <1>4, <1>5, <1>6, <2>1, ZenonT(10) DEF SetModuleConfig
<1>7. ASSUME ResetModuleConfig  PROVE IndInv'
  <2>1. ApplyTo(FromConfig(file), config) \in Config
    BY <1>0, PayloadTypes
  <2> QED  BY <1>4, <1>5, <1>7, <2>1, ZenonT(10) DEF ResetModuleConfig
<1> QED  BY <1>3, <1>6, <1>7

LEMMA SideRequestsOK ==
  ASSUME IndInv,
         \/ \E r \in RackRto : SetRackRto(r)
         \/ ResetRackRto
         \/ \E d \in RetransmitDscp : SetRetransmitDscp(d)
         \/ ResetRetransmitDscp
         \/ \E r \in Redundancy : SetRedundancy(r)
         \/ ResetRedundancy
  PROVE  IndInv'
<1>0. config \in Config /\ Valid(config) /\ file \in Config /\ Valid(file)
  BY SMTT(30) DEF IndInv, ConfigOK
<1>1. ASSUME NEW c \in Config, c.generation = config.generation, NEW ok \in BOOLEAN,
             ok => Valid(c), SetRtoTuning(Bumped(c), ok), Settle("other", Bumped(c), ok),
             UNCHANGED <<start, flags, ccMap, dscpMap, redMap, redActive>>
      PROVE  IndInv'
  <2>1. c.generation \in 1..U32Max
    BY <1>0, <1>1, Numbered
  <2>2. SatAdd(c.generation, 1) \in U32
    BY <2>1, SchemaAssumption DEF SatAdd, U32
  <2>3. Bumped(c) \in Config /\ Bumped(c).rack_rto = c.rack_rto
    BY <1>1, <2>2, BumpedSame, Zenon DEF SameSides
  <2>4. ok => Valid(Bumped(c))
    BY <1>1, BumpedValid, SMTT(30)
  <2>5. RtoMapSound(rtoMap')
    BY <1>1, <2>3, RtoOK, ZenonT(30) DEF IndInv, MapsSound, Valid
  <2>6. ConfigOK' /\ reply'.ok \in BOOLEAN
    BY <1>1, <2>3, <2>4, SettleOK, Zenon DEF IndInv, start
  <2> QED
    BY <1>1, <2>5, <2>6, ZenonT(10) DEF IndInv, start, flags, FlagsOK, MapsSound
<1>2. ASSUME NEW d \in RetransmitDscp, NEW c \in Config, c.retransmit_dscp = d,
             NEW ok \in BOOLEAN, ok => Valid(c),
             ApplyDscp(d, ok) \/ UNCHANGED dscpMap, Settle("other", c, ok),
             UNCHANGED <<start, flags, ccMap, rtoMap, redMap, redActive>>
      PROVE  IndInv'
  <2>1. DscpMapSound(dscpMap')
    BY <1>2, DscpOK, ZenonT(10) DEF IndInv, MapsSound, Valid
  <2>2. ConfigOK' /\ reply'.ok \in BOOLEAN
    BY <1>2, SettleOK DEF IndInv, start
  <2> QED
    BY <1>2, <2>1, <2>2, ZenonT(10) DEF IndInv, start, flags, FlagsOK, MapsSound
<1>3. ASSUME NEW r \in Redundancy, NEW c \in Config, c.redundancy = r,
             NEW ok \in BOOLEAN, ok => Valid(c),
             ApplyRedundancy(r, accelerating, ok) \/ UNCHANGED <<redMap, redActive>>,
             Settle("other", c, ok), UNCHANGED <<start, flags, ccMap, rtoMap, dscpMap>>
      PROVE  IndInv'
  <2>1. RedundancyMapSound(redMap') /\ redActive' \in BOOLEAN
    BY <1>3, RedundancyOK, ZenonT(10) DEF IndInv, MapsSound, FlagsOK, Valid
  <2>2. ConfigOK' /\ reply'.ok \in BOOLEAN
    BY <1>3, SettleOK DEF IndInv, start
  <2> QED
    BY <1>3, <2>1, <2>2, ZenonT(10) DEF IndInv, start, flags, FlagsOK, MapsSound
<1>4. ASSUME NEW r \in RackRto, SetRackRto(r)  PROVE IndInv'
  <2>1. /\ [config EXCEPT !.rack_rto = r] \in Config
        /\ [config EXCEPT !.rack_rto = r].generation = config.generation
    BY <1>0, RackRtoChanged, Zenon
  <2> QED  BY <1>1, <1>4, <2>1, Zenon DEF SetRackRto
<1>5. ASSUME ResetRackRto  PROVE IndInv'
  <2>1. /\ [config EXCEPT !.rack_rto = file.rack_rto] \in Config
        /\ Valid([config EXCEPT !.rack_rto = file.rack_rto])
    BY <1>0, UncheckedValid, Zenon
  <2>2. [config EXCEPT !.rack_rto = file.rack_rto].generation = config.generation
    BY <1>0, RackRtoChanged, Zenon
  <2> QED  BY <1>1, <1>5, <2>1, <2>2, Zenon DEF ResetRackRto
<1>6. ASSUME NEW d \in RetransmitDscp, SetRetransmitDscp(d)  PROVE IndInv'
  <2>1. /\ [config EXCEPT !.retransmit_dscp = d] \in Config
        /\ [config EXCEPT !.retransmit_dscp = d].retransmit_dscp = d
    BY <1>0, DscpChanged, Zenon
  <2> QED  BY <1>2, <1>6, <2>1, Zenon DEF SetRetransmitDscp
<1>7. ASSUME ResetRetransmitDscp  PROVE IndInv'
  <2>1. /\ [config EXCEPT !.retransmit_dscp = file.retransmit_dscp] \in Config
        /\ Valid([config EXCEPT !.retransmit_dscp = file.retransmit_dscp])
    BY <1>0, UncheckedValid, Zenon
  <2>2. /\ [config EXCEPT !.retransmit_dscp = file.retransmit_dscp].retransmit_dscp
             = file.retransmit_dscp
        /\ file.retransmit_dscp \in RetransmitDscp
    BY <1>0, DscpChanged, Sections, Zenon
  <2> QED  BY <1>2, <1>7, <2>1, <2>2, Zenon DEF ResetRetransmitDscp
<1>8. ASSUME NEW r \in Redundancy, SetRedundancy(r)  PROVE IndInv'
  <2>1. /\ [config EXCEPT !.redundancy = r] \in Config
        /\ [config EXCEPT !.redundancy = r].redundancy = r
    BY <1>0, RedundancyChanged, Zenon
  <2> QED  BY <1>3, <1>8, <2>1, Zenon DEF SetRedundancy
<1>9. ASSUME ResetRedundancy  PROVE IndInv'
  <2>1. /\ [config EXCEPT !.redundancy = file.redundancy] \in Config
        /\ Valid([config EXCEPT !.redundancy = file.redundancy])
    BY <1>0, UncheckedValid, Zenon
  <2>2. /\ [config EXCEPT !.redundancy = file.redundancy].redundancy = file.redundancy
        /\ file.redundancy \in Redundancy
    BY <1>0, RedundancyChanged, Sections, Zenon
  <2> QED  BY <1>3, <1>9, <2>1, <2>2, Zenon DEF ResetRedundancy
<1> QED  BY <1>4, <1>5, <1>6, <1>7, <1>8, <1>9

LEMMA RequestOK == IndInv /\ Request => IndInv'
BY EnableOK, DrainOK, ModulesOK, SideRequestsOK DEF Request

-----------------------------------------------------------------------------
(* IndInv holds in every reachable state.                                  *)
THEOREM Inductive == Spec => []IndInv
<1>1. Init => IndInv
  BY InitOK
<1>2. IndInv /\ [Next]_vars => IndInv'
  <2> SUFFICES ASSUME IndInv, [Next]_vars PROVE IndInv'
    OBVIOUS
  <2>1. CASE Next
    BY <2>1, NextIsRequest, RequestOK
  <2>2. CASE UNCHANGED vars
    BY <2>2, ZenonT(10) DEF vars, start, flags, sides, IndInv, ConfigOK, FlagsOK, MapsSound
  <2> QED  BY <2>1, <2>2
<1> QED  BY <1>1, <1>2, PTL DEF Spec

(* Every map stays one its BPF program can run on, for any file that       *)
(* loads and any payloads.                                                 *)
THEOREM MapsStaySound == Spec => []MapsSound
<1>1. IndInv => MapsSound
  BY DEF IndInv
<1> QED  BY <1>1, Inductive, PTL

(* The configuration in memory would pass validate at any time.            *)
THEOREM MemoryStaysValid == Spec => []ConfigStaysValid
<1>1. IndInv => ConfigStaysValid
  BY DEF IndInv, ConfigOK, ConfigStaysValid
<1> QED  BY <1>1, Inductive, PTL
-----------------------------------------------------------------------------
(* What the kernel runs is what the memory says.  Two facts make this      *)
(* inductive: without the TC object its two maps stay as they were loaded, *)
(* disabled; and no map is ahead of the memory's generation.               *)
ToldInv == /\ StatusIsKernel
           /\ tc # "loaded" => ~dscpMap.enabled /\ ~redMap.enabled
           /\ ccMap.generation \in Nat
           /\ ccMap.generation <= config.generation

(* A step that leaves the map of skyline_cc and the fields it is made from.*)
CcTold == /\ attached => ccMap = KernelConfig([config EXCEPT !.generation = ccMap.generation])
          /\ ccMap.generation \in Nat
          /\ ccMap.generation <= config.generation

LEMMA CcKept ==
  ASSUME ConfigOK, ConfigOK', CcTold, UNCHANGED ccMap, attached' => attached,
         SameKernel(config, config'), config'.generation >= config.generation
  PROVE  CcTold'
<1>1. /\ config.generation \in Int /\ config'.generation \in Int
      /\ config \in Config /\ config' \in Config
  BY Generation, Zenon DEF ConfigOK
<1>2. KernelConfig([config EXCEPT !.generation = ccMap.generation])
        = KernelConfig([config' EXCEPT !.generation = ccMap.generation])
  BY <1>1, KernelSame
<1> QED  BY <1>1, <1>2, SMTT(30) DEF CcTold

(* A step that publishes the new configuration.                            *)
LEMMA CcPublished ==
  ASSUME ConfigOK', ccMap' = KernelConfig(config')
  PROVE  CcTold'
<1>1. config' \in Config /\ config'.generation \in Nat
  BY Generation, Zenon DEF ConfigOK
<1>2. /\ ccMap'.generation = config'.generation
      /\ ccMap' = KernelConfig([config' EXCEPT !.generation = ccMap'.generation])
  BY <1>1, KernelNow
<1> QED  BY <1>1, <1>2 DEF CcTold

(* The same for the other three maps: a step that leaves the map and its   *)
(* section, and one that writes both, or neither.                          *)
RtoTold == /\ rtoMap.enabled = config.rack_rto.enabled
           /\ rtoMap.enabled => rtoMap = KernelRto(config.rack_rto, rtoMap.generation)
DscpTold == /\ dscpMap.enabled = config.retransmit_dscp.enabled
            /\ dscpMap.enabled => dscpMap = KernelDscp(config.retransmit_dscp)
            /\ tc # "loaded" => ~dscpMap.enabled
RedTold == /\ redMap.enabled = redActive
           /\ redMap.enabled => redMap = KernelRedundancy(config.redundancy, TRUE)
           /\ tc # "loaded" => ~redMap.enabled

LEMMA ToldSplit ==
  /\ ToldInv <=> CcTold /\ RtoTold /\ DscpTold /\ RedTold
  /\ ToldInv' <=> CcTold' /\ RtoTold' /\ DscpTold' /\ RedTold'
BY Zenon DEF ToldInv, StatusIsKernel, CcTold, RtoTold, DscpTold, RedTold

LEMMA SidesKept ==
  /\ RtoTold /\ UNCHANGED rtoMap /\ config'.rack_rto = config.rack_rto => RtoTold'
  /\ DscpTold /\ UNCHANGED <<dscpMap, tc>>
       /\ config'.retransmit_dscp = config.retransmit_dscp => DscpTold'
  /\ RedTold /\ UNCHANGED <<redMap, redActive, tc>>
       /\ config'.redundancy = config.redundancy => RedTold'
BY Zenon DEF RtoTold, DscpTold, RedTold

LEMMA RtoSet ==
  ASSUME RtoTold, NEW next, NEW ok \in BOOLEAN, SetRtoTuning(next, ok),
         config'.rack_rto = IF ok THEN next.rack_rto ELSE config.rack_rto
  PROVE  RtoTold'
<1>1. CASE ok
  <2>1. rtoMap' = KernelRto(config'.rack_rto, next.generation)
    BY <1>1 DEF SetRtoTuning
  <2> QED  BY <2>1, ZenonT(10) DEF RtoTold, KernelRto
<1>2. CASE ~ok
  BY <1>2 DEF SetRtoTuning, RtoTold
<1> QED  BY <1>1, <1>2

LEMMA DscpSet ==
  ASSUME DscpTold, NEW d, NEW ok \in BOOLEAN, ApplyDscp(d, ok), d.enabled \in BOOLEAN,
         config.retransmit_dscp.enabled \in BOOLEAN, UNCHANGED tc,
         config'.retransmit_dscp = IF ok THEN d ELSE config.retransmit_dscp
  PROVE  DscpTold'
<1>1. CASE ok /\ tc = "loaded"
  <2>1. dscpMap' = KernelDscp(config'.retransmit_dscp)
    BY <1>1 DEF ApplyDscp
  <2> QED  BY <1>1, <2>1, ZenonT(10) DEF DscpTold, KernelDscp
<1>2. CASE ok /\ tc # "loaded"
  <2>1. d.enabled = FALSE /\ dscpMap' = dscpMap /\ dscpMap.enabled = FALSE
    BY <1>2, Zenon DEF ApplyDscp, DscpTold
  <2> QED  BY <1>2, <2>1, ZenonT(10) DEF DscpTold
<1>3. CASE ~ok
  BY <1>3 DEF ApplyDscp, DscpTold
<1> QED  BY <1>1, <1>2, <1>3

LEMMA RedSet ==
  ASSUME RedTold, NEW r, NEW active \in BOOLEAN, NEW ok \in BOOLEAN, r.enabled \in BOOLEAN,
         ApplyRedundancy(r, active, ok), redActive \in BOOLEAN,
         tc \in {"absent", "empty", "loaded"}, UNCHANGED tc,
         config'.redundancy = IF ok THEN r ELSE config.redundancy
  PROVE  RedTold'
<1>1. CASE ok /\ tc = "loaded"
  <2>1. redMap' = KernelRedundancy(r, active) /\ redActive' = (r.enabled /\ active)
    BY <1>1 DEF ApplyRedundancy
  <2>2. redMap'.enabled = redActive'
    BY <2>1, ZenonT(10) DEF KernelRedundancy
  <2>3. ASSUME redMap'.enabled PROVE redMap' = KernelRedundancy(r, TRUE)
    <3>1. active = TRUE
      BY <2>1, <2>2, <2>3
    <3> QED  BY <2>1, <3>1
  <2> QED  BY <1>1, <2>2, <2>3, Zenon DEF RedTold
<1>2. CASE ok /\ tc # "loaded"
  <2>1. (r.enabled /\ active) = FALSE /\ redMap' = redMap
    BY <1>2, Zenon DEF ApplyRedundancy
  <2>2. redMap.enabled = FALSE /\ redActive = FALSE
    BY <1>2 DEF RedTold
  <2>3. redActive' = FALSE
    BY <1>2, <2>1, <2>2 DEF ApplyRedundancy
  <2> QED  BY <1>2, <2>1, <2>2, <2>3, Zenon DEF RedTold
<1>3. CASE ~ok
  BY <1>3, Zenon DEF ApplyRedundancy, RedTold
<1> QED  BY <1>1, <1>2, <1>3

-----------------------------------------------------------------------------
(* A request that publishes: Enable's and the module requests' maps.       *)
LEMMA EnableTells ==
  ASSUME IndInv, IndInv', ToldInv, NEW ms \in {None} \cup SUBSET Modules,
         EnableRefused(ms) \/ EnableNotDefault(ms) \/ Enable(ms)
  PROVE  ToldInv'
<1> DEFINE next == EnableConfig(ms)
<1>0. /\ ConfigOK /\ ConfigOK' /\ FlagsOK /\ config \in Config
      /\ CcTold /\ RtoTold /\ DscpTold /\ RedTold
  BY ToldSplit DEF IndInv, ConfigOK
<1>1. SameSides(config, next)
  <2> DEFINE c == [config EXCEPT !.enabled_modules = IF ms = None THEN @ ELSE ms]
  <2>1. c \in Config /\ SameSides(config, c)
    BY <1>0, PayloadTypes, ModulesChanged, Zenon
  <2> QED  BY <2>1, BumpedSame, Zenon DEF EnableConfig, SameSides
<1>2. CASE EnableRefused(ms)
  <2>1. UNCHANGED <<config, attached, ccMap, rtoMap, dscpMap, redMap, redActive, tc>>
    BY <1>2, ZenonT(10) DEF EnableRefused, Settle, start, flags, sides
  <2> QED  BY <2>1, ZenonT(30) DEF ToldInv, StatusIsKernel
<1>3. CASE EnableNotDefault(ms)
  <2>1. /\ config' = next /\ ccMap' = KernelConfig(config')
        /\ UNCHANGED <<rtoMap, dscpMap, redMap, redActive, tc>>
    BY <1>3, ZenonT(10) DEF EnableNotDefault, start, sides
  <2> QED  BY <1>0, <1>1, <2>1, CcPublished, SidesKept, ToldSplit, ZenonT(10) DEF SameSides
<1>4. CASE Enable(ms)
  <2>1. /\ config' = next /\ ccMap' = KernelConfig(config')
        /\ UNCHANGED <<rtoMap, dscpMap, tc>>
    BY <1>4, ZenonT(10) DEF Enable, Settle, start
  <2>2. PICK copied \in BOOLEAN : ApplyRedundancy(config.redundancy, TRUE, copied)
    BY <1>4, Zenon DEF Enable
  <2>3. RedTold'
    BY <1>0, <1>1, <2>1, <2>2, Sections, RedSet, Zenon DEF FlagsOK, SameSides
  <2> QED  BY <1>0, <1>1, <2>1, <2>3, CcPublished, SidesKept, ToldSplit, ZenonT(30) DEF SameSides
<1> QED  BY <1>2, <1>3, <1>4

LEMMA DrainTells ==
  ASSUME IndInv, IndInv', ToldInv,
         DrainNotClosed \/ DrainStillCopying \/ DrainStillAttached \/ Drain
  PROVE  ToldInv'
<1>0. /\ ConfigOK /\ ConfigOK' /\ FlagsOK /\ config \in Config
      /\ CcTold /\ RtoTold /\ DscpTold /\ RedTold
  BY ToldSplit DEF IndInv, ConfigOK
<1>1. UNCHANGED <<config, ccMap, rtoMap, dscpMap, tc>> /\ (attached' => attached)
  <2>1. CASE DrainNotClosed
    BY <2>1, ZenonT(10) DEF DrainNotClosed, Settle, start, flags, sides
  <2>2. CASE DrainStillCopying
    BY <2>2, ZenonT(10) DEF DrainStillCopying, Settle, start
  <2>3. CASE DrainStillAttached
    BY <2>3, ZenonT(10) DEF DrainStillAttached, Settle, start
  <2>4. CASE Drain
    BY <2>4, ZenonT(10) DEF Drain, Settle, start
  <2> QED  BY <2>1, <2>2, <2>3, <2>4
<1>2. SameKernel(config, config') /\ config'.generation >= config.generation
  BY <1>0, <1>1, Generation, ZenonT(10) DEF SameKernel, SameCore
<1>3. RedTold'
  <2>1. CASE DrainNotClosed
    BY <1>0, <1>1, <2>1, SidesKept, ZenonT(10) DEF DrainNotClosed, sides
  <2>2. CASE ~DrainNotClosed
    <3>1. PICK ok \in BOOLEAN : ApplyRedundancy(config.redundancy, FALSE, ok)
      BY <2>2, Zenon DEF DrainStillCopying, DrainStillAttached, Drain
    <3> QED  BY <1>0, <1>1, <3>1, Sections, RedSet, Zenon DEF FlagsOK
  <2> QED  BY <2>1, <2>2
<1> QED  BY <1>0, <1>1, <1>2, <1>3, CcKept, SidesKept, ToldSplit, ZenonT(10)

(* DisableModule, SetModuleConfig, ResetModuleConfig: the map and the      *)
(* memory change together, while there is a map.                           *)
LEMMA PublishTells ==
  ASSUME IndInv, IndInv', ToldInv, NEW next, NEW ok \in BOOLEAN,
         SameSides(config, next), next.generation >= config.generation,
         UpdateConfig(next, ok), Settle("other", next, ok),
         UNCHANGED <<start, flags, sides>>
  PROVE  ToldInv'
<1>0. /\ ConfigOK /\ ConfigOK' /\ FlagsOK /\ config \in Config /\ config' \in Config
      /\ CcTold /\ RtoTold /\ DscpTold /\ RedTold
  BY ToldSplit, ZenonT(10) DEF IndInv, ConfigOK
<1>1. UNCHANGED <<attached, rtoMap, dscpMap, redMap, redActive, tc>>
  BY DEF start, flags, sides
<1>2. CASE ok
  <2>1. config' = next
    BY <1>2 DEF Settle
  <2>2. CcTold'
    <3>1. CASE attached
      BY <1>0, <1>2, <2>1, <3>1, CcPublished DEF UpdateConfig
    <3>2. CASE ~attached
      <4>1. ccMap' = ccMap /\ ~attached'
        BY <1>1, <3>2 DEF UpdateConfig
      <4> QED  BY <1>0, <2>1, <4>1, Generation DEF CcTold
    <3> QED  BY <3>1, <3>2
  <2> QED  BY <1>0, <1>1, <2>1, <2>2, SidesKept, ToldSplit, ZenonT(10) DEF SameSides
<1>3. CASE ~ok
  <2>1. UNCHANGED <<config, ccMap>>
    BY <1>3, ZenonT(10) DEF Settle, UpdateConfig
  <2> QED  BY <1>1, <2>1, Zenon DEF ToldInv, StatusIsKernel
<1> QED  BY <1>2, <1>3

LEMMA ModulesTell ==
  ASSUME IndInv, IndInv', ToldInv,
         \/ \E m \in Modules : DisableModule(m)
         \/ \E t \in ModuleTuning : SetModuleConfig(t)
         \/ ResetModuleConfig
  PROVE  ToldInv'
<1>0. config \in Config /\ file \in Config /\ config.generation \in 1..U32Max
  BY Numbered DEF IndInv, ConfigOK
<1>1. ASSUME NEW c \in Config, SameSides(config, c), c.generation = config.generation
      PROVE  SameSides(config, Bumped(c)) /\ Bumped(c).generation >= config.generation
  <2>1. Bumped(c).generation = SatAdd(c.generation, 1)
    BY BumpedSame, Zenon
  <2>2. SatAdd(c.generation, 1) >= config.generation
    BY <1>0, <1>1, SchemaAssumption DEF SatAdd
  <2> QED  BY <1>1, <2>1, <2>2, BumpedSame, ZenonT(10) DEF SameSides
<1>2. ASSUME NEW m \in Modules, DisableModule(m)  PROVE ToldInv'
  <2> DEFINE c == [config EXCEPT !.enabled_modules = @ \ {m}]
  <2>1. c \in Config /\ SameSides(config, c) /\ c.generation = config.generation
    BY <1>0, ModulesChanged, Zenon
  <2> HIDE DEF c
  <2>2. PICK ok \in BOOLEAN : /\ UpdateConfig(Bumped(c), ok)
                              /\ Settle("other", Bumped(c), ok)
                              /\ UNCHANGED <<start, flags, sides>>
    BY <1>2 DEF DisableModule, c
  <2> QED  BY <1>1, <2>1, <2>2, PublishTells, ZenonT(10)
<1>3. ASSUME NEW t \in ModuleTuning
      PROVE  /\ ApplyTo(t, config) \in Config
             /\ SameSides(config, ApplyTo(t, config))
             /\ ApplyTo(t, config).generation = config.generation
  <2>1. ApplyTo(t, config) \in Config
    BY <1>0, PayloadTypes
  <2>2. /\ SameSides(config, ApplyTo(t, config))
        /\ ApplyTo(t, config).generation = config.generation
    BY <1>0, TuningChanged, Zenon
  <2> QED  BY <2>1, <2>2, ZenonT(10)
<1>4. ASSUME NEW t \in ModuleTuning, SetModuleConfig(t)  PROVE ToldInv'
  <2>1. PICK ok \in BOOLEAN : /\ UpdateConfig(Bumped(ApplyTo(t, config)), ok)
                              /\ Settle("other", Bumped(ApplyTo(t, config)), ok)
                              /\ UNCHANGED <<start, flags, sides>>
    BY <1>4, ZenonT(10) DEF SetModuleConfig
  <2> QED  BY <1>1, <1>3, <2>1, PublishTells, ZenonT(10)
<1>5. ASSUME ResetModuleConfig  PROVE ToldInv'
  <2> DEFINE c == ApplyTo(FromConfig(file), config)
  <2>1. FromConfig(file) \in ModuleTuning
    BY <1>0, FromConfigTyped, Zenon
  <2>2. c \in Config /\ SameSides(config, c) /\ c.generation = config.generation
    BY <1>3, <2>1, ZenonT(10)
  <2>3. PICK ok \in BOOLEAN : /\ UpdateConfig(Bumped(c), ok)
                              /\ Settle("other", Bumped(c), ok)
                              /\ UNCHANGED <<start, flags, sides>>
    BY <1>5, ZenonT(10) DEF ResetModuleConfig
  <2> HIDE DEF c
  <2> QED  BY <1>1, <2>2, <2>3, PublishTells, ZenonT(10)
<1> QED  BY <1>2, <1>4, <1>5

LEMMA SideRequestsTell ==
  ASSUME IndInv, IndInv', ToldInv,
         \/ \E r \in RackRto : SetRackRto(r)
         \/ ResetRackRto
         \/ \E d \in RetransmitDscp : SetRetransmitDscp(d)
         \/ ResetRetransmitDscp
         \/ \E r \in Redundancy : SetRedundancy(r)
         \/ ResetRedundancy
  PROVE  ToldInv'
<1>0. /\ ConfigOK /\ ConfigOK' /\ FlagsOK /\ config \in Config /\ config' \in Config
      /\ file \in Config /\ CcTold /\ RtoTold /\ DscpTold /\ RedTold
      /\ config.generation \in 1..U32Max
  BY ToldSplit, Numbered DEF IndInv, ConfigOK
<1>1. ASSUME NEW r \in RackRto, NEW ok \in BOOLEAN,
             SetRtoTuning(Bumped([config EXCEPT !.rack_rto = r]), ok),
             Settle("other", Bumped([config EXCEPT !.rack_rto = r]), ok),
             UNCHANGED <<start, flags, ccMap, dscpMap, redMap, redActive>>
      PROVE  ToldInv'
  <2> DEFINE c == [config EXCEPT !.rack_rto = r]
             next == Bumped(c)
  <2>1. /\ c \in Config /\ SameKernel(config, c) /\ c.rack_rto = r
        /\ c.retransmit_dscp = config.retransmit_dscp /\ c.redundancy = config.redundancy
        /\ c.generation = config.generation
    BY <1>0, RackRtoChanged, Zenon
  <2>2. next.generation >= config.generation
    <3>1. next.generation = SatAdd(config.generation, 1)
      BY <2>1, BumpedSame, Zenon
    <3> QED  BY <1>0, <3>1, SchemaAssumption DEF SatAdd
  <2>3. /\ SameKernel(config, next) /\ next.rack_rto = r
        /\ next.retransmit_dscp = config.retransmit_dscp /\ next.redundancy = config.redundancy
    BY <2>1, BumpedSame, Zenon DEF SameKernel, SameCore, SameSides
  <2> HIDE DEF next
  <2>4. config' = IF ok THEN next ELSE config
    BY <1>1 DEF Settle, next
  <2>5. RtoTold'
    BY <1>0, <1>1, <2>4, RtoSet DEF next
  <2>6. /\ SameKernel(config, config') /\ config'.generation >= config.generation
        /\ config'.retransmit_dscp = config.retransmit_dscp
        /\ config'.redundancy = config.redundancy
    BY <1>0, <2>2, <2>3, <2>4, Generation, ZenonT(10) DEF SameKernel, SameCore
  <2>7. UNCHANGED <<attached, ccMap, dscpMap, redMap, redActive, tc>>
    BY <1>1, SMTT(30) DEF start, flags
  <2> QED  BY <1>0, <2>5, <2>6, <2>7, CcKept, SidesKept, ToldSplit, ZenonT(10)
<1>2. ASSUME NEW d \in RetransmitDscp, NEW ok \in BOOLEAN,
             ApplyDscp(d, ok) \/ (~ok /\ UNCHANGED dscpMap),
             Settle("other", [config EXCEPT !.retransmit_dscp = d], ok),
             UNCHANGED <<start, flags, ccMap, rtoMap, redMap, redActive>>
      PROVE  ToldInv'
  <2> DEFINE c == [config EXCEPT !.retransmit_dscp = d]
  <2>1. /\ SameKernel(config, c) /\ c.retransmit_dscp = d /\ c.generation = config.generation
        /\ c.rack_rto = config.rack_rto /\ c.redundancy = config.redundancy
    BY <1>0, DscpChanged, Zenon
  <2> HIDE DEF c
  <2>2. config' = IF ok THEN c ELSE config
    BY <1>2, SMTT(30) DEF Settle, c
  <2>3. /\ SameKernel(config, config') /\ config'.generation >= config.generation
        /\ config'.rack_rto = config.rack_rto
        /\ config'.redundancy = config.redundancy
        /\ config'.retransmit_dscp = IF ok THEN d ELSE config.retransmit_dscp
    BY <1>0, <2>1, <2>2, Generation, ZenonT(10) DEF SameKernel, SameCore
  <2>4. UNCHANGED <<attached, ccMap, rtoMap, redMap, redActive, tc>>
    BY <1>2, SMTT(30) DEF start, flags
  <2>5. d.enabled \in BOOLEAN /\ config.retransmit_dscp.enabled \in BOOLEAN
    BY <1>0, Sections, ZenonT(10) DEF RetransmitDscp
  <2>6. DscpTold'
    BY <1>0, <1>2, <2>3, <2>4, <2>5, DscpSet, SidesKept, SMTT(30)
  <2> QED  BY <1>0, <2>3, <2>4, <2>6, CcKept, SidesKept, ToldSplit, ZenonT(10)
<1>3. ASSUME NEW r \in Redundancy, NEW ok \in BOOLEAN,
             ApplyRedundancy(r, accelerating, ok) \/ (~ok /\ UNCHANGED <<redMap, redActive>>),
             Settle("other", [config EXCEPT !.redundancy = r], ok),
             UNCHANGED <<start, flags, ccMap, rtoMap, dscpMap>>
      PROVE  ToldInv'
  <2> DEFINE c == [config EXCEPT !.redundancy = r]
  <2>1. /\ SameKernel(config, c) /\ c.redundancy = r /\ c.generation = config.generation
        /\ c.rack_rto = config.rack_rto /\ c.retransmit_dscp = config.retransmit_dscp
    BY <1>0, RedundancyChanged, Zenon
  <2> HIDE DEF c
  <2>2. config' = IF ok THEN c ELSE config
    BY <1>3, SMTT(30) DEF Settle, c
  <2>3. /\ SameKernel(config, config') /\ config'.generation >= config.generation
        /\ config'.rack_rto = config.rack_rto
        /\ config'.retransmit_dscp = config.retransmit_dscp
        /\ config'.redundancy = IF ok THEN r ELSE config.redundancy
    BY <1>0, <2>1, <2>2, Generation, ZenonT(10) DEF SameKernel, SameCore
  <2>4. UNCHANGED <<attached, ccMap, rtoMap, dscpMap, tc>>
    BY <1>3 DEF start, flags
  <2>5. r.enabled \in BOOLEAN /\ accelerating \in BOOLEAN /\ redActive \in BOOLEAN
    BY <1>0 DEF Redundancy, FlagsOK
  <2>6. RedTold'
    BY <1>0, <1>3, <2>3, <2>4, <2>5, RedSet, SidesKept, SMTT(30) DEF FlagsOK
  <2> QED  BY <1>0, <2>3, <2>4, <2>6, CcKept, SidesKept, ToldSplit, ZenonT(10)
<1>4. file.rack_rto \in RackRto /\ file.retransmit_dscp \in RetransmitDscp
      /\ file.redundancy \in Redundancy
  BY <1>0, Sections, Zenon
<1>5. CASE (\E r \in RackRto : SetRackRto(r)) \/ ResetRackRto
  BY <1>1, <1>4, <1>5, Zenon DEF SetRackRto, ResetRackRto
<1>6. CASE (\E d \in RetransmitDscp : SetRetransmitDscp(d)) \/ ResetRetransmitDscp
  BY <1>2, <1>4, <1>6, Zenon DEF SetRetransmitDscp, ResetRetransmitDscp
<1>7. CASE (\E r \in Redundancy : SetRedundancy(r)) \/ ResetRedundancy
  BY <1>3, <1>4, <1>7, Zenon DEF SetRedundancy, ResetRedundancy
<1> QED  BY <1>5, <1>6, <1>7, SMTT(30)

LEMMA RequestTells == IndInv /\ ToldInv /\ Request => ToldInv'
BY RequestOK, EnableTells, DrainTells, ModulesTell, SideRequestsTell, ZenonT(10) DEF Request

LEMMA ToldInit == Init => ToldInv
<1> SUFFICES ASSUME Init PROVE ToldInv
  OBVIOUS
<1>1. config \in Config /\ ConfigOK
  BY InitOK DEF IndInv, ConfigOK
<1>2. config.rack_rto.enabled = FALSE /\ config.retransmit_dscp.enabled = FALSE
  <2>1. file \in Config
    BY <1>1 DEF ConfigOK
  <2> QED  BY <2>1 DEF Init, Started, Config, RackRto, RetransmitDscp
<1>3. /\ rtoMap.enabled = FALSE /\ dscpMap.enabled = FALSE /\ redMap.enabled = FALSE
      /\ redActive = FALSE /\ attached = FALSE /\ ccMap.generation = 0
  BY LoadedOff, Zenon DEF Init
<1>4. ccMap.generation \in Nat /\ ccMap.generation <= config.generation
  BY <1>1, <1>3, Generation
<1> QED  BY <1>2, <1>3, <1>4, Zenon DEF ToldInv, StatusIsKernel

(* ToldInv is kept by every step.                                          *)
THEOREM ToldAlways == Spec => [](IndInv /\ ToldInv)
<1>1. Init => IndInv /\ ToldInv
  BY InitOK, ToldInit
<1>2. IndInv /\ ToldInv /\ [Next]_vars => ToldInv'
  <2> SUFFICES ASSUME IndInv, ToldInv, [Next]_vars PROVE ToldInv'
    OBVIOUS
  <2>1. CASE Next
    BY <2>1, NextIsRequest, RequestTells
  <2>2. CASE UNCHANGED vars
    BY <2>2, Zenon DEF vars, start, flags, sides, ToldInv, StatusIsKernel
  <2> QED  BY <2>1, <2>2
<1> QED  BY <1>1, <1>2, Inductive, PTL DEF Spec

(* What `status` reports as running is what the kernel runs, whatever      *)
(* requests came, were refused or failed half-way.                         *)
THEOREM StatusIsTrue == Spec => []StatusIsKernel
<1>1. ToldInv => StatusIsKernel
  BY DEF ToldInv
<1> QED  BY <1>1, ToldAlways, PTL

-----------------------------------------------------------------------------
(* The number of a request's configuration: kept, or the next one.         *)
NumberStep ==
  /\ config'.generation \in {config.generation, SatAdd(config.generation, 1)}
  /\ ccMap' # ccMap => ccMap'.generation = SatAdd(config.generation, 1)

LEMMA NumberPublished ==
  ASSUME NEW c \in Config, c.generation = config.generation, NEW q, NEW ok \in BOOLEAN,
         Settle(q, Bumped(c), ok), UpdateConfig(Bumped(c), ok) \/ UNCHANGED ccMap
  PROVE  NumberStep
<1>1. Bumped(c).generation = SatAdd(config.generation, 1)
  BY BumpedSame, Zenon
<1>2. KernelConfig(Bumped(c)).generation = Bumped(c).generation
  BY KernelNumber, ZenonT(10)
<1> QED  BY <1>1, <1>2, ZenonT(10) DEF Settle, UpdateConfig, NumberStep

LEMMA NumberMovesOn == IndInv /\ Request => NumberStep
<1> SUFFICES ASSUME IndInv, Request PROVE NumberStep
  OBVIOUS
<1>0. config \in Config /\ file \in Config
  BY DEF IndInv, ConfigOK
<1>1. ASSUME NEW c, NEW ok \in BOOLEAN, Settle("other", c, ok),
             c.generation = config.generation, UNCHANGED ccMap
      PROVE  NumberStep
  BY <1>1, ZenonT(10) DEF Settle, NumberStep
<1>2. CASE \E ms \in {None} \cup SUBSET Modules :
             EnableRefused(ms) \/ EnableNotDefault(ms) \/ Enable(ms)
  <2>1. PICK ms \in {None} \cup SUBSET Modules :
               EnableRefused(ms) \/ EnableNotDefault(ms) \/ Enable(ms)
    BY <1>2
  <2> DEFINE c == [config EXCEPT !.enabled_modules = IF ms = None THEN @ ELSE ms]
  <2>2. c \in Config /\ c.generation = config.generation
    BY <1>0, PayloadTypes, ModulesChanged, Zenon
  <2> HIDE DEF c
  <2>3. EnableConfig(ms) = Bumped(c) /\ Bumped(c).generation = SatAdd(config.generation, 1)
    BY <2>2, BumpedSame, Zenon DEF EnableConfig, c
  <2>4. KernelConfig(Bumped(c)).generation = Bumped(c).generation
    BY KernelNumber, Zenon
  <2> QED  BY <2>1, <2>3, <2>4, ZenonT(10) DEF EnableRefused, EnableNotDefault, Enable, Settle, NumberStep
<1>3. CASE DrainNotClosed \/ DrainStillCopying \/ DrainStillAttached \/ Drain
  BY <1>3, ZenonT(10) DEF DrainNotClosed, DrainStillCopying, DrainStillAttached, Drain, Settle, NumberStep
<1>4. ASSUME NEW m \in Modules, DisableModule(m)  PROVE NumberStep
  <2> DEFINE c == [config EXCEPT !.enabled_modules = @ \ {m}]
  <2>1. c \in Config /\ c.generation = config.generation
    BY <1>0, ModulesChanged, Zenon
  <2> HIDE DEF c
  <2> QED  BY <1>4, <2>1, NumberPublished, ZenonT(10) DEF DisableModule, c
<1>5. \A t : ApplyTo(t, config).generation = config.generation
  BY <1>0, TuningChanged, Zenon
<1>6. ASSUME NEW t \in ModuleTuning, SetModuleConfig(t)  PROVE NumberStep
  <2>1. ApplyTo(t, config) \in Config
    BY <1>0, PayloadTypes
  <2> QED  BY <1>5, <1>6, <2>1, NumberPublished, ZenonT(10) DEF SetModuleConfig
<1>7. ASSUME ResetModuleConfig  PROVE NumberStep
  <2>1. ApplyTo(FromConfig(file), config) \in Config
    BY <1>0, PayloadTypes
  <2> QED  BY <1>5, <1>7, <2>1, NumberPublished, ZenonT(10) DEF ResetModuleConfig
<1>8. ASSUME NEW r \in RackRto, SetRackRto(r) \/ (r = file.rack_rto /\ ResetRackRto)
      PROVE  NumberStep
  <2>1. /\ [config EXCEPT !.rack_rto = r] \in Config
        /\ [config EXCEPT !.rack_rto = r].generation = config.generation
    BY <1>0, RackRtoChanged, Zenon
  <2> QED  BY <1>8, <2>1, NumberPublished, ZenonT(10) DEF SetRackRto, ResetRackRto
<1>9. \A x : /\ [config EXCEPT !.retransmit_dscp = x].generation = config.generation
             /\ [config EXCEPT !.redundancy = x].generation = config.generation
  BY <1>0, DscpChanged, RedundancyChanged, ZenonT(30)
<1>10. ASSUME NEW d, SetRetransmitDscp(d) \/ (d = file.retransmit_dscp /\ ResetRetransmitDscp)
       PROVE  NumberStep
  <2>1. PICK ok \in BOOLEAN : /\ Settle("other", [config EXCEPT !.retransmit_dscp = d], ok)
                              /\ UNCHANGED ccMap
    BY <1>10 DEF SetRetransmitDscp, ResetRetransmitDscp
  <2> QED  BY <1>1, <1>9, <2>1, ZenonT(10)
<1>11. ASSUME NEW r, SetRedundancy(r) \/ (r = file.redundancy /\ ResetRedundancy)
       PROVE  NumberStep
  <2>1. PICK ok \in BOOLEAN : /\ Settle("other", [config EXCEPT !.redundancy = r], ok)
                              /\ UNCHANGED ccMap
    BY <1>11 DEF SetRedundancy, ResetRedundancy
  <2> QED  BY <1>1, <1>9, <2>1, ZenonT(10)
<1>12. file.rack_rto \in RackRto
  BY <1>0, Sections, Zenon
<1> QED  BY <1>2, <1>3, <1>4, <1>6, <1>7, <1>8, <1>10, <1>11, <1>12, ZenonT(10) DEF Request

(* With a map behind the memory, a number that moved on is a new one.      *)
LEMMA NumberIsNew == IndInv /\ ToldInv /\ NumberStep => GenerationGrows
<1> SUFFICES ASSUME IndInv, ToldInv, NumberStep PROVE GenerationGrows
  OBVIOUS
<1>1. config.generation \in 1..U32Max /\ U32Max \in Nat
  BY Numbered, SchemaAssumption DEF IndInv, ConfigOK
<1>2. ccMap.generation \in Nat /\ ccMap.generation <= config.generation
  BY DEF ToldInv
<1>3. /\ SatAdd(config.generation, 1) >= config.generation
      /\ SatAdd(config.generation, 1) # U32Max => SatAdd(config.generation, 1) > config.generation
      /\ SatAdd(config.generation, 1) \in Nat
  BY <1>1 DEF SatAdd
<1> QED  BY <1>1, <1>2, <1>3 DEF NumberStep, GenerationGrows

(* A request that fails leaves no trace, by what each of its helpers does  *)
(* when told that its write failed.                                        *)
LEMMA FailureLeavesMaps ==
  /\ \A next : UpdateConfig(next, FALSE) => UNCHANGED ccMap
  /\ \A r, active : ApplyRedundancy(r, active, FALSE) => UNCHANGED <<redMap, redActive>>
  /\ \A d : ApplyDscp(d, FALSE) => UNCHANGED dscpMap
  /\ \A next : SetRtoTuning(next, FALSE) => UNCHANGED rtoMap
  /\ \A q, next, ok : Settle(q, next, ok) => reply'.request = q /\ reply'.ok = ok
  /\ \A q, next : Settle(q, next, FALSE) => UNCHANGED config
BY SMTT(30) DEF UpdateConfig, ApplyRedundancy, ApplyDscp, SetRtoTuning, Settle

LEMMA OthersLeaveNoTrace ==
  ASSUME NEW next, NEW ok \in BOOLEAN, Settle("other", next, ok),
         ~ok => UNCHANGED <<flags, ccMap, sides>>
  PROVE  FailsWithoutTrace
<1>1. reply'.request = "other" /\ reply'.ok = ok
  BY FailureLeavesMaps
<1>2. CASE ok
  BY <1>1, <1>2 DEF FailsWithoutTrace
<1>3. CASE ~ok
  <2>1. UNCHANGED <<config, flags, ccMap, sides>>
    BY <1>3, FailureLeavesMaps, ZenonT(10)
  <2> QED  BY <1>1, <2>1 DEF FailsWithoutTrace
<1> QED  BY <1>2, <1>3

LEMMA NoTrace == Request => FailsWithoutTrace
<1> SUFFICES ASSUME Request PROVE FailsWithoutTrace
  OBVIOUS
<1>1. ASSUME NEW ms, EnableRefused(ms) \/ EnableNotDefault(ms) \/ Enable(ms)
      PROVE  FailsWithoutTrace
  <2>1. CASE Enable(ms)
    <3>1. reply'.ok
      BY <2>1 DEF Enable, Settle
    <3> QED  BY <3>1 DEF FailsWithoutTrace
  <2>2. CASE EnableRefused(ms)
    <3>1. reply'.request = "Enable" /\ UNCHANGED <<config, sides>>
      BY <2>2 DEF EnableRefused, Settle
    <3> QED  BY <3>1 DEF FailsWithoutTrace
  <2>3. CASE EnableNotDefault(ms)
    <3>1. reply'.request = "Enable" /\ UNCHANGED sides /\ ccMap' = KernelConfig(config')
      BY <2>3 DEF EnableNotDefault
    <3> QED  BY <3>1 DEF FailsWithoutTrace
  <2> QED  BY <1>1, <2>1, <2>2, <2>3
<1>2. CASE DrainNotClosed \/ DrainStillCopying \/ DrainStillAttached \/ Drain
  <2>1. reply'.request = "Drain" /\ UNCHANGED <<config, ccMap, rtoMap, dscpMap>>
    <3>1. CASE DrainNotClosed
      BY <3>1 DEF DrainNotClosed, Settle, sides
    <3>2. CASE DrainStillCopying
      BY <3>2 DEF DrainStillCopying, Settle
    <3>3. CASE DrainStillAttached
      BY <3>3 DEF DrainStillAttached, Settle
    <3>4. CASE Drain
      BY <3>4 DEF Drain, Settle
    <3> QED  BY <1>2, <3>1, <3>2, <3>3, <3>4
  <2> QED  BY <2>1 DEF FailsWithoutTrace
<1>3. ASSUME \/ \E m \in Modules : DisableModule(m)
             \/ \E t \in ModuleTuning : SetModuleConfig(t)
             \/ ResetModuleConfig
      PROVE  FailsWithoutTrace
  <2>1. ASSUME NEW next, NEW ok \in BOOLEAN, UpdateConfig(next, ok), Settle("other", next, ok),
               UNCHANGED <<start, flags, sides>>
        PROVE  FailsWithoutTrace
    BY <2>1, FailureLeavesMaps, OthersLeaveNoTrace, ZenonT(10)
  <2>2. ASSUME NEW m, DisableModule(m) PROVE FailsWithoutTrace
    BY <2>1, <2>2 DEF DisableModule
  <2>3. ASSUME NEW t, SetModuleConfig(t) PROVE FailsWithoutTrace
    BY <2>1, <2>3 DEF SetModuleConfig
  <2>4. CASE ResetModuleConfig
    BY <2>1, <2>4 DEF ResetModuleConfig
  <2> QED  BY <1>3, <2>2, <2>3, <2>4
<1>4. ASSUME (\E r \in RackRto : SetRackRto(r)) \/ ResetRackRto
      PROVE  FailsWithoutTrace
  <2>1. ASSUME NEW next, NEW ok \in BOOLEAN, SetRtoTuning(next, ok), Settle("other", next, ok),
               UNCHANGED <<start, flags, ccMap, dscpMap, redMap, redActive>>
        PROVE  FailsWithoutTrace
    <3>1. ~ok => UNCHANGED <<flags, ccMap, sides>>
      BY <2>1, FailureLeavesMaps, ZenonT(10) DEF sides
    <3> QED  BY <2>1, <3>1, OthersLeaveNoTrace
  <2>2. ASSUME NEW r, SetRackRto(r) PROVE FailsWithoutTrace
    BY <2>1, <2>2 DEF SetRackRto
  <2>3. CASE ResetRackRto
    BY <2>1, <2>3 DEF ResetRackRto
  <2> QED  BY <1>4, <2>2, <2>3
<1>5. ASSUME (\E d \in RetransmitDscp : SetRetransmitDscp(d)) \/ ResetRetransmitDscp
      PROVE  FailsWithoutTrace
  <2>1. ASSUME NEW next, NEW d, NEW ok \in BOOLEAN,
               ApplyDscp(d, ok) \/ (~ok /\ UNCHANGED dscpMap), Settle("other", next, ok),
               UNCHANGED <<start, flags, ccMap, rtoMap, redMap, redActive>>
        PROVE  FailsWithoutTrace
    <3>1. ~ok => UNCHANGED <<flags, ccMap, sides>>
      BY <2>1, FailureLeavesMaps, ZenonT(10) DEF sides
    <3> QED  BY <2>1, <3>1, OthersLeaveNoTrace
  <2>2. ASSUME NEW d, SetRetransmitDscp(d) PROVE FailsWithoutTrace
    BY <2>1, <2>2 DEF SetRetransmitDscp
  <2>3. CASE ResetRetransmitDscp
    BY <2>1, <2>3 DEF ResetRetransmitDscp
  <2> QED  BY <1>5, <2>2, <2>3
<1>6. ASSUME (\E r \in Redundancy : SetRedundancy(r)) \/ ResetRedundancy
      PROVE  FailsWithoutTrace
  <2>1. ASSUME NEW next, NEW r, NEW ok \in BOOLEAN,
               ApplyRedundancy(r, accelerating, ok) \/ (~ok /\ UNCHANGED <<redMap, redActive>>),
               Settle("other", next, ok), UNCHANGED <<start, flags, ccMap, rtoMap, dscpMap>>
        PROVE  FailsWithoutTrace
    <3>1. ~ok => UNCHANGED <<flags, ccMap, sides>>
      BY <2>1, FailureLeavesMaps, ZenonT(10) DEF sides
    <3> QED  BY <2>1, <3>1, OthersLeaveNoTrace
  <2>2. ASSUME NEW r, SetRedundancy(r) PROVE FailsWithoutTrace
    BY <2>1, <2>2 DEF SetRedundancy
  <2>3. CASE ResetRedundancy
    BY <2>1, <2>3 DEF ResetRedundancy
  <2> QED  BY <1>6, <2>2, <2>3
<1> QED  BY <1>1, <1>2, <1>3, <1>4, <1>5, <1>6 DEF Request

(* Every request is whole: one that fails leaves the memory and the maps   *)
(* alone, and a configuration the kernel is given has a number above every *)
(* one before it, until the counter saturates.                             *)
THEOREM RequestsAreAtomic == Spec => [][RequestsAtomic]_vars
<1>1. IndInv /\ ToldInv /\ [Next]_vars => [RequestsAtomic]_vars
  BY NextIsRequest, NoTrace, NumberMovesOn, NumberIsNew DEF RequestsAtomic
<1> QED  BY <1>1, ToldAlways, PTL DEF Spec
=============================================================================
