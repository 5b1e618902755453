------------------------ MODULE ConfigurationProofs -------------------------
(***************************************************************************)
(* For every set of invocations, command lines and starting files, and any *)
(* number of retries and of the daemon's deaths: exit status 0 is never    *)
(* wrong, each section of the configuration is one command line's, and     *)
(* everything ConfigRequestsProofs shows of the requests holds for the     *)
(* ones ssctl makes.  For every schema and every file: what is in force    *)
(* is what is written, or the file is refused (the last section).          *)
(***************************************************************************)
EXTENDS Configuration, ConfigRequestsProofs

(* A command that ssctl sends is a request the step lemmas are about, or   *)
(* one that only asks.                                                     *)
Asks == reply'.ok = TRUE /\ UNCHANGED <<start, config, flags, ccMap, sides>>

LEMMA HandleIsRequest ==
  ASSUME NEW cmd \in Commands, Handle(cmd)
  PROVE  Request \/ Asks
<1>0. /\ EnableFlags(cmd) \in {None} \cup SUBSET Modules
      /\ cmd.name = "disable" => cmd.flags.module \in Modules
      /\ ModuleFlags(cmd) \in ModuleTuning /\ RackRtoFlags(cmd) \in RackRto
      /\ DscpFlags(cmd) \in RetransmitDscp /\ RedundancyFlags(cmd) \in Redundancy
  BY LinesAssumption
<1>1. CASE cmd.name = "enable"
  BY <1>0, <1>1 DEF Handle, Request
<1>2. CASE cmd.name = "disable"
  BY <1>0, <1>2 DEF Handle, Request
<1>3. CASE cmd.name = "drain"
  BY <1>3 DEF Handle, Request
<1>4. CASE cmd.name \in {"set-rack-rto", "reset-rack-rto"}
  BY <1>0, <1>4 DEF Handle, Request
<1>5. CASE cmd.name \in {"set-module-config", "reset-module-config"}
  BY <1>0, <1>5 DEF Handle, Request
<1>6. CASE cmd.name \in {"set-retransmit-dscp", "reset-retransmit-dscp"}
  BY <1>0, <1>6 DEF Handle, Request
<1>7. CASE cmd.name \in {"set-redundancy", "reset-redundancy"}
  BY <1>0, <1>7 DEF Handle, Request
<1>8. CASE cmd.name \notin {"enable", "disable", "drain", "set-rack-rto", "reset-rack-rto",
                            "set-module-config", "reset-module-config", "set-retransmit-dscp",
                            "reset-retransmit-dscp", "set-redundancy", "reset-redundancy"}
  <2>1. reply' = [request |-> "other", ok |-> TRUE]
        /\ UNCHANGED <<start, config, flags, ccMap, sides>>
    BY <1>8 DEF Handle
  <2> QED  BY <2>1 DEF Asks
<1> QED  BY <1>1, <1>2, <1>3, <1>4, <1>5, <1>6, <1>7, <1>8

-----------------------------------------------------------------------------
(* What the command line fills in for itself passes validate.              *)
LEMMA NoNumbers == NaN \notin Int /\ Inf \notin Int
BY SchemaAssumption

NoFlags == [f \in {} |-> 0]
BareTuning == ModuleFlags(Bare("set-module-config", NoFlags))

LEMMA NotGiven ==
  ASSUME NEW name, NEW flag
  PROVE  /\ ~Given(Bare(name, NoFlags), flag)
         /\ \A default : Flag(Bare(name, NoFlags), flag, default) = default
<1>1. Bare(name, NoFlags).flags = NoFlags
  BY DEF Bare
<1>2. flag \notin DOMAIN NoFlags
  BY DEF NoFlags
<1>3. ~Given(Bare(name, NoFlags), flag)
  BY <1>1, <1>2, Zenon DEF Given
<1> QED  BY <1>3 DEF Flag, Given

(* The flags read into SetModuleConfig.                                    *)
LEMMA FlagsRead ==
  ASSUME NEW cmd
  PROVE  /\ ModuleFlags(cmd).max_pacing_mbps = Flag(cmd, "max_pacing_mbps", 1200)
         /\ ModuleFlags(cmd).max_cwnd_packets = Flag(cmd, "max_cwnd_packets", 50000)
         /\ ModuleFlags(cmd).max_queue_delay_ratio = Flag(cmd, "max_queue_delay_ratio", 6000)
         /\ ModuleFlags(cmd).initial_cwnd_packets = Flag(cmd, "initial_cwnd_packets", 100)
         /\ ModuleFlags(cmd).min_cwnd_packets = Flag(cmd, "min_cwnd_packets", 32)
         /\ ModuleFlags(cmd).loss_inflation_max_ratio =
              Flag(cmd, "loss_inflation_max_ratio", 1000)
<1>1. /\ ModuleFlags(cmd).max_pacing_mbps = Flag(cmd, "max_pacing_mbps", 1200)
      /\ ModuleFlags(cmd).max_cwnd_packets = Flag(cmd, "max_cwnd_packets", 50000)
      /\ ModuleFlags(cmd).max_queue_delay_ratio = Flag(cmd, "max_queue_delay_ratio", 6000)
  BY SMTT(30) DEF ModuleFlags
<1>2. /\ ModuleFlags(cmd).initial_cwnd_packets = Flag(cmd, "initial_cwnd_packets", 100)
      /\ ModuleFlags(cmd).min_cwnd_packets = Flag(cmd, "min_cwnd_packets", 32)
      /\ ModuleFlags(cmd).loss_inflation_max_ratio = Flag(cmd, "loss_inflation_max_ratio", 1000)
  BY SMTT(30) DEF ModuleFlags
<1> QED  BY <1>1, <1>2

AdaptiveFlags(cmd) ==
  [min_rtt_window_s |-> Flag(cmd, "min_rtt_window_s", 30),
   bw_window_rtts |-> Flag(cmd, "bw_window_rtts", 6),
   startup_plateau_rtts |-> Flag(cmd, "startup_plateau_rtts", 5),
   startup_growth_ratio |-> Flag(cmd, "startup_growth_ratio", 2000),
   startup_gain |-> Flag(cmd, "startup_gain", 30000),
   cruise_inflight_gain |-> Flag(cmd, "cruise_inflight_gain", 30000),
   cruise_pacing_gain |-> Flag(cmd, "cruise_pacing_gain", 12500),
   guardrail_gain |-> Flag(cmd, "guardrail_gain", 8000)]

LEMMA AdaptiveFlagsRead ==
  ASSUME NEW cmd
  PROVE  ModuleFlags(cmd).adaptive_cwnd = AdaptiveFlags(cmd)
BY SMTT(60) DEF ModuleFlags, AdaptiveFlags

LEMMA AdaptiveFlagsAre ==
  ASSUME NEW cmd
  PROVE  /\ AdaptiveFlags(cmd).min_rtt_window_s = Flag(cmd, "min_rtt_window_s", 30)
         /\ AdaptiveFlags(cmd).bw_window_rtts = Flag(cmd, "bw_window_rtts", 6)
         /\ AdaptiveFlags(cmd).startup_growth_ratio = Flag(cmd, "startup_growth_ratio", 2000)
         /\ AdaptiveFlags(cmd).startup_gain = Flag(cmd, "startup_gain", 30000)
         /\ AdaptiveFlags(cmd).cruise_inflight_gain = Flag(cmd, "cruise_inflight_gain", 30000)
         /\ AdaptiveFlags(cmd).cruise_pacing_gain = Flag(cmd, "cruise_pacing_gain", 12500)
         /\ AdaptiveFlags(cmd).guardrail_gain = Flag(cmd, "guardrail_gain", 8000)
BY SMTT(60) DEF AdaptiveFlags

LEMMA BareValues ==
  /\ BareTuning.max_pacing_mbps = 1200 /\ BareTuning.max_cwnd_packets = 50000
  /\ BareTuning.max_queue_delay_ratio = 6000 /\ BareTuning.initial_cwnd_packets = 100
  /\ BareTuning.min_cwnd_packets = 32 /\ BareTuning.loss_inflation_max_ratio = 1000
  /\ BareTuning.adaptive_cwnd.min_rtt_window_s = 30
  /\ BareTuning.adaptive_cwnd.bw_window_rtts = 6
  /\ BareTuning.adaptive_cwnd.startup_growth_ratio = 2000
  /\ BareTuning.adaptive_cwnd.startup_gain = 30000
  /\ BareTuning.adaptive_cwnd.cruise_inflight_gain = 30000
  /\ BareTuning.adaptive_cwnd.cruise_pacing_gain = 12500
  /\ BareTuning.adaptive_cwnd.guardrail_gain = 8000
<1> DEFINE b == Bare("set-module-config", NoFlags)
<1>1. ASSUME NEW flag, NEW default PROVE Flag(b, flag, default) = default
  BY NotGiven, Zenon
<1>2. BareTuning = ModuleFlags(b)
  BY Zenon DEF BareTuning
<1> HIDE DEF b
<1>3. /\ BareTuning.max_pacing_mbps = 1200 /\ BareTuning.max_cwnd_packets = 50000
      /\ BareTuning.max_queue_delay_ratio = 6000 /\ BareTuning.initial_cwnd_packets = 100
      /\ BareTuning.min_cwnd_packets = 32 /\ BareTuning.loss_inflation_max_ratio = 1000
  BY <1>1, <1>2, FlagsRead, SMTT(30)
<1>4. /\ AdaptiveFlags(b).min_rtt_window_s = 30 /\ AdaptiveFlags(b).bw_window_rtts = 6
      /\ AdaptiveFlags(b).startup_growth_ratio = 2000 /\ AdaptiveFlags(b).startup_gain = 30000
      /\ AdaptiveFlags(b).cruise_inflight_gain = 30000
      /\ AdaptiveFlags(b).cruise_pacing_gain = 12500 /\ AdaptiveFlags(b).guardrail_gain = 8000
  BY <1>1, AdaptiveFlagsAre, SMTT(30)
<1>5. BareTuning.adaptive_cwnd = AdaptiveFlags(b)
  BY <1>2, AdaptiveFlagsRead, SMTT(30)
<1> QED  BY <1>3, <1>4, <1>5, SMTT(30)

LEMMA BareTuningAccepted == ASSUME NEW c \in Config, Valid(c) PROVE Valid(ApplyTo(BareTuning, c))
<1> DEFINE d == ApplyTo(BareTuning, c)
<1>1. /\ d.max_pacing_mbps = 1200 /\ d.max_cwnd_packets = 50000
      /\ d.max_queue_delay_ratio = 6000 /\ d.initial_cwnd_packets = 100
      /\ d.min_cwnd_packets = 32
      /\ d.loss_classifier.loss_inflation_max_ratio = 1000
      /\ d.adaptive_cwnd = BareTuning.adaptive_cwnd
      /\ d.generation = c.generation /\ d.fallback_cc = c.fallback_cc
      /\ d.rack_tuning = c.rack_tuning /\ d.rack_rto = c.rack_rto
      /\ d.retransmit_dscp = c.retransmit_dscp /\ d.redundancy = c.redundancy
      /\ d.guard = c.guard
  BY BareValues DEF ApplyTo, Config
<1> HIDE DEF d
<1>2. FloatsFinite(d)
  BY <1>1, BareValues DEF FloatsFinite, IsFinite, GainNames
<1>3. ValidWindow(d) /\ PacingCapped(d)
  BY <1>1 DEF ValidWindow, PacingCapped, MIN_CWND_FLOOR
<1>4. ValidFilters(d.adaptive_cwnd)
  <2>1. 30 <= U32Max \div 1000000
    BY SchemaAssumption DEF LargestProduct
  <2>2. U32Max \div 1000000 \in Int
    BY SchemaAssumption
  <2> QED  BY <1>1, <2>1, <2>2, BareValues DEF ValidFilters, MAX_MIN_RTT_WINDOW_S
<1>5. ValidGains(d)
  <2>1. \A g \in GainNames : Contains(One, MAX_MODE_GAIN, d.adaptive_cwnd[g])
    BY <1>1, BareValues DEF Contains, GainNames, One, MAX_MODE_GAIN
  <2>2. One \div 2 = 5000
    BY SMTT(30) DEF One
  <2> QED  BY <1>1, <2>1, <2>2, BareValues, SMTT(30) DEF ValidGains, Contains, One, IsFinite
<1>6. Valid(d)
  BY <1>1, <1>2, <1>3, <1>4, <1>5, SMTT(30) DEF Valid
<1> QED  BY <1>6 DEF d

LEMMA OffGiven ==
  ASSUME NEW name
  PROVE  /\ Given(Bare(name, Off), "disable")
         /\ \A flag, default : flag # "disable" => Flag(Bare(name, Off), flag, default) = default
BY DEF Given, Flag, Bare, Off

LEMMA BareSections ==
  ASSUME NEW fl \in {NoFlags, Off}
  PROVE  /\ ValidRackRto(RackRtoFlags(Bare("set-rack-rto", fl)))
         /\ ValidRedundancy(RedundancyFlags(Bare("set-redundancy", fl)))
<1>1. \A name, flag, default : flag # "disable" => Flag(Bare(name, fl), flag, default) = default
  BY NotGiven, OffGiven
<1>2. ValidRackRto(RackRtoFlags(Bare("set-rack-rto", fl)))
  <2> DEFINE r == RackRtoFlags(Bare("set-rack-rto", fl))
  <2>1. r.srtt_permille = 1000 /\ r.floor_us = 5000 /\ r.ceiling_us = 200000
    BY <1>1, SMTT(30) DEF RackRtoFlags
  <2>2. r.rto_max_normal_permille = 0 /\ r.rto_max_congested_permille = 0
    BY <1>1, SMTT(30) DEF RackRtoFlags
  <2> HIDE DEF r
  <2>3. ValidRackRto(r)
    BY <2>1, <2>2 DEF ValidRackRto, SKYLINE_RTO_MIN_KERNEL_DEFAULT_US
  <2> QED  BY <2>3 DEF r
<1>3. ValidRedundancy(RedundancyFlags(Bare("set-redundancy", fl)))
  <2> DEFINE r == RedundancyFlags(Bare("set-redundancy", fl))
  <2>1. r.first_kib = 64 /\ r.delay_ms = 10
    BY <1>1 DEF RedundancyFlags
  <2> HIDE DEF r
  <2>2. ValidRedundancy(r)
    BY <2>1 DEF ValidRedundancy, MAX_FIRST_KIB, MAX_DELAY_MS
  <2> QED  BY <2>2 DEF r
<1> QED  BY <1>2, <1>3

LEMMA SectionAccepted ==
  ASSUME NEW c \in Config, Valid(c), NEW x
  PROVE  /\ ValidRackRto(x) => Valid([c EXCEPT !.rack_rto = x])
         /\ ValidDscp(x) => Valid([c EXCEPT !.retransmit_dscp = x])
         /\ ValidRedundancy(x) => Valid([c EXCEPT !.redundancy = x])
<1>1. ASSUME ValidRackRto(x) PROVE Valid([c EXCEPT !.rack_rto = x])
  BY <1>1 DEF Config, Valid, FloatsFinite, ValidWindow, ValidGains, PacingCapped
<1>2. ASSUME ValidDscp(x) PROVE Valid([c EXCEPT !.retransmit_dscp = x])
  BY <1>2 DEF Config, Valid, FloatsFinite, ValidWindow, ValidGains, PacingCapped
<1>3. ASSUME ValidRedundancy(x) PROVE Valid([c EXCEPT !.redundancy = x])
  BY <1>3 DEF Config, Valid, FloatsFinite, ValidWindow, ValidGains, PacingCapped
<1> QED  BY <1>1, <1>2, <1>3

LEMMA DefaultsPass == ConfigOK => DefaultsAccepted
<1> SUFFICES ASSUME ConfigOK PROVE DefaultsAccepted
  OBVIOUS
<1>0. config \in Config /\ Valid(config)
  BY DEF ConfigOK
<1>1. Valid(ApplyTo(BareTuning, config))
  BY <1>0, BareTuningAccepted
<1>2. ASSUME NEW fl \in {NoFlags, Off}
      PROVE  /\ Valid([config EXCEPT !.rack_rto = RackRtoFlags(Bare("set-rack-rto", fl))])
             /\ Valid([config EXCEPT !.redundancy = RedundancyFlags(Bare("set-redundancy", fl))])
  BY <1>0, BareSections, SectionAccepted, ZenonT(10)
<1>3. ValidDscp(DscpFlags(Bare("set-retransmit-dscp", Off)))
  <2> DEFINE d == DscpFlags(Bare("set-retransmit-dscp", Off))
  <2>1. d.dscp_value = 0
    BY OffGiven DEF DscpFlags
  <2>2. ~d.enabled
    <3>1. Given(Bare("set-retransmit-dscp", Off), "disable")
      BY OffGiven
    <3> QED  BY <3>1, ZenonT(10) DEF DscpFlags
  <2> HIDE DEF d
  <2>3. ValidDscp(d)
    BY <2>1, <2>2 DEF ValidDscp
  <2> QED  BY <2>3 DEF d
<1>4. Valid([config EXCEPT !.retransmit_dscp = DscpFlags(Bare("set-retransmit-dscp", Off))])
  BY <1>0, <1>3, SectionAccepted, ZenonT(10)
<1> QED  BY <1>1, <1>2, <1>4 DEF DefaultsAccepted, BareTuning, NoFlags

-----------------------------------------------------------------------------
(* The daemon's side: what the requests keep, a death puts back to Init.   *)
DaemonInv == file \in Files /\ IndInv /\ ToldInv

LEMMA AsksKeeps == IndInv /\ ToldInv /\ Asks => IndInv' /\ ToldInv' /\ RequestsAtomic
<1> SUFFICES ASSUME IndInv, ToldInv, Asks PROVE IndInv' /\ ToldInv' /\ RequestsAtomic
  OBVIOUS
<1>1. IndInv'
  BY Zenon DEF Asks, start, flags, sides, IndInv, ConfigOK, FlagsOK, MapsSound
<1>2. ToldInv'
  BY Zenon DEF Asks, start, flags, sides, ToldInv, StatusIsKernel
<1>3. NumberStep /\ reply'.ok
  BY DEF Asks, NumberStep
<1>4. RequestsAtomic
  BY <1>3, NumberIsNew, SMTT(30) DEF RequestsAtomic, FailsWithoutTrace
<1> QED  BY <1>1, <1>2, <1>4

LEMMA RequestKeepsStart == Request => UNCHANGED start
BY Zenon DEF Request, EnableRefused, EnableNotDefault, Enable, DrainNotClosed, DrainStillCopying,
   DrainStillAttached, Drain, DisableModule, SetModuleConfig, ResetModuleConfig, SetRackRto,
   ResetRackRto, SetRetransmitDscp, ResetRetransmitDscp, SetRedundancy, ResetRedundancy

LEMMA HandleOK ==
  ASSUME DaemonInv, NEW cmd \in Commands, Handle(cmd)
  PROVE  DaemonInv' /\ RequestsAtomic
<1>1. CASE Request
  <2>1. IndInv' /\ ToldInv' /\ RequestsAtomic
    BY <1>1, RequestOK, RequestTells, NoTrace, NumberMovesOn, NumberIsNew
       DEF DaemonInv, RequestsAtomic
  <2> QED  BY <1>1, <2>1, RequestKeepsStart DEF DaemonInv, start
<1>2. CASE Asks
  BY <1>2, AsksKeeps DEF DaemonInv, Asks, start
<1> QED  BY <1>1, <1>2, HandleIsRequest

LEMMA DieRestarts == ASSUME DaemonInv, Die PROVE Init'
<1>1. /\ file' = file /\ capable' = capable /\ policyLoaded' = policyLoaded /\ tc' = tc
      /\ config' = Started(file')
  BY DEF Die, start
<1>2. file \in {f \in Files : Valid(f)} /\ capable \in BOOLEAN /\ policyLoaded \in BOOLEAN
      /\ tc \in {"absent", "empty", "loaded"}
  BY DEF DaemonInv, IndInv, ConfigOK, FlagsOK
<1> QED  BY <1>1, <1>2 DEF Die, Init

LEMMA InitInv == Init => DaemonInv
BY InitOK, ToldInit DEF DaemonInv, Init

LEMMA InitInvPrimed == Init' => DaemonInv'
BY InitInv, PTL

(* The steps that leave the daemon alone.                                  *)
LEMMA DaemonKept == DaemonInv /\ UNCHANGED daemon => DaemonInv'
<1> SUFFICES ASSUME DaemonInv, UNCHANGED daemon PROVE DaemonInv'
  OBVIOUS
<1>1. IndInv'
  BY DEF DaemonInv, daemon, start, flags, sides, IndInv, ConfigOK, FlagsOK, MapsSound
<1>2. ToldInv'
  BY Zenon DEF DaemonInv, daemon, start, flags, sides, ToldInv, StatusIsKernel
<1> QED  BY <1>1, <1>2 DEF DaemonInv, daemon, start

-----------------------------------------------------------------------------
(* The clients' side.  Who is queued waits, and is queued once, so that    *)
(* Serve answers the run that is waiting; who got past clap has a line     *)
(* that parses; and an answer that says so was accepted.                   *)
Pcs == {"typed", "parsed", "waiting", "answered", "closed", "done"}
ClientTypes == /\ client \in [Clients -> [pc : Pcs, command : Commands, status : 0..2,
                                          ok : BOOLEAN, tries : Nat]]
               /\ accepted \in [Clients -> BOOLEAN]
               /\ queue \in Seq(Clients)
QueueOK == /\ \A i \in 1..Len(queue) : At(queue[i], "waiting")
           /\ \A i, j \in 1..Len(queue) : queue[i] = queue[j] => i = j
RunsOK == \A c \in Clients :
            /\ client[c].pc \in {"parsed", "waiting", "answered", "closed"}
                 => Parses(client[c].command)
            /\ At(c, "answered") /\ client[c].ok => accepted[c]
            /\ At(c, "done") /\ client[c].status = 0 => accepted[c]
ClientInv == ClientTypes /\ QueueOK /\ RunsOK

LEMMA ClientInit == Invoked => ClientInv
<1> SUFFICES ASSUME Invoked PROVE ClientInv
  OBVIOUS
<1>1. PICK given \in [Clients -> Commands] :
        client = [c \in Clients |-> [pc |-> "typed", command |-> given[c],
                                     status |-> 0, ok |-> FALSE, tries |-> 1]]
  BY Zenon DEF Invoked
<1>2. ClientTypes
  BY <1>1 DEF Invoked, ClientTypes, Pcs
<1>3. QueueOK
  BY DEF Invoked, QueueOK
<1>4. RunsOK
  BY <1>1 DEF RunsOK, At
<1> QED  BY <1>2, <1>3, <1>4 DEF ClientInv

(* What an invocation is, and when it is in order.                         *)
Run == [pc : Pcs, command : Commands, status : 0..2, ok : BOOLEAN, tries : Nat]
InOrder(r, yes) == /\ r.pc \in {"parsed", "waiting", "answered", "closed"} => Parses(r.command)
                   /\ r.pc = "answered" /\ r.ok => yes
                   /\ r.pc = "done" /\ r.status = 0 => yes

LEMMA RunsInOrder == RunsOK <=> \A c \in Clients : InOrder(client[c], accepted[c])
BY DEF RunsOK, InOrder, At

(* A step of one invocation that is not queued.                            *)
LEMMA RunMoves ==
  ASSUME ClientInv, NEW c \in Clients, client[c].pc # "waiting",
         client' \in [Clients -> Run], accepted' \in [Clients -> BOOLEAN], queue' = queue,
         \A d \in Clients \ {c} : client'[d] = client[d] /\ accepted'[d] = accepted[d],
         InOrder(client'[c], accepted'[c])
  PROVE  ClientInv'
<1>1. ClientTypes'
  BY DEF ClientInv, ClientTypes, Run
<1>2. \A i \in 1..Len(queue) : queue[i] \in Clients /\ queue[i] # c
  BY DEF ClientInv, ClientTypes, QueueOK, At
<1>3. QueueOK'
  BY <1>2 DEF ClientInv, ClientTypes, QueueOK, At
<1>4. \A d \in Clients : InOrder(client'[d], accepted'[d])
  BY RunsInOrder DEF ClientInv
<1>5. RunsOK'
  BY <1>4, ZenonT(10) DEF RunsOK, InOrder, At
<1> QED  BY <1>1, <1>3, <1>5 DEF ClientInv

(* An invocation that ends, with a status it may end with.                 *)
LEMMA ExitOK ==
  ASSUME ClientInv, NEW c \in Clients, client[c].pc # "waiting", NEW v \in 0..2, Exit(c, v),
         v = 0 => accepted[c], UNCHANGED <<accepted, queue>>
  PROVE  ClientInv'
<1>0. client \in [Clients -> Run] /\ accepted \in [Clients -> BOOLEAN]
  BY DEF ClientInv, ClientTypes, Run
<1>1. /\ client' \in [Clients -> Run]
      /\ \A d \in Clients \ {c} : client'[d] = client[d]
      /\ client'[c].pc = "done" /\ client'[c].status = v
  BY <1>0, ZenonT(30) DEF Exit, Run, Pcs
<1>2. InOrder(client'[c], accepted[c])
  BY <1>1, ZenonT(10) DEF InOrder
<1> QED  BY <1>0, <1>1, <1>2, RunMoves

LEMMA ConnectOK ==
  ASSUME ClientInv, NEW c \in Clients, At(c, "parsed"), UNCHANGED accepted,
         queue' = Append(queue, c), Goto(c, "waiting")
  PROVE  ClientInv'
<1>0. /\ client \in [Clients -> Run] /\ accepted \in [Clients -> BOOLEAN]
      /\ queue \in Seq(Clients) /\ client[c].pc = "parsed"
      /\ \A d \in Clients : InOrder(client[d], accepted[d])
  BY RunsInOrder DEF ClientInv, ClientTypes, Run, At
<1>1. /\ client' \in [Clients -> Run]
      /\ \A d \in Clients \ {c} : client'[d] = client[d]
      /\ client'[c].pc = "waiting" /\ client'[c].command = client[c].command
  BY <1>0, ZenonT(30) DEF Goto, Run, Pcs
<1>2. ClientTypes'
  BY <1>0, <1>1 DEF ClientTypes, Run
<1>3. \A i \in 1..Len(queue) : queue[i] \in Clients /\ queue[i] # c
  BY <1>0 DEF ClientInv, QueueOK, At
<1>4. /\ Len(queue') = Len(queue) + 1 /\ queue'[Len(queue) + 1] = c
      /\ \A i \in 1..Len(queue) : queue'[i] = queue[i]
      /\ Len(queue) \in Nat
  BY <1>0
<1>5. QueueOK'
  <2>1. \A i \in 1..Len(queue) : client'[queue[i]].pc = "waiting"
    BY <1>1, <1>3, ZenonT(10) DEF ClientInv, QueueOK, At
  <2> QED  BY <1>1, <1>3, <1>4, <2>1, SMTT(30) DEF ClientInv, QueueOK, At
<1>6. \A d \in Clients : InOrder(client'[d], accepted[d])
  <2>1. InOrder(client'[c], accepted[c])
    BY <1>0, <1>1 DEF InOrder
  <2> QED  BY <1>0, <1>1, <2>1
<1>7. RunsOK'
  BY <1>6 DEF RunsOK, InOrder, At
<1> QED  BY <1>2, <1>5, <1>7 DEF ClientInv

LEMMA ClientStepOK ==
  ASSUME ClientInv, NEW c \in Clients, Client(c) \/ Again(c)
  PROVE  ClientInv'
<1>0. /\ client \in [Clients -> Run] /\ accepted \in [Clients -> BOOLEAN]
      /\ InOrder(client[c], accepted[c])
  BY RunsInOrder DEF ClientInv, ClientTypes, Run
<1>1. CASE Parse(c)
  <2>1. CASE Parses(client[c].command) /\ Goto(c, "parsed")
    <3>1. /\ client' \in [Clients -> Run]
          /\ \A d \in Clients \ {c} : client'[d] = client[d]
          /\ client'[c].pc = "parsed" /\ client'[c].command = client[c].command
      BY <1>0, <2>1 DEF Goto, Run, Pcs
    <3>2. InOrder(client'[c], accepted[c])
      BY <2>1, <3>1, ZenonT(10) DEF InOrder
    <3> QED  BY <1>0, <1>1, <3>1, <3>2, RunMoves DEF Parse, At
  <2>2. CASE Exit(c, 2)
    BY <1>1, <2>2, ExitOK DEF Parse, At
  <2> QED  BY <1>1, <2>1, <2>2 DEF Parse
<1>2. CASE ReadClosed(c)
  BY <1>2, ExitOK DEF ReadClosed, At
<1>3. CASE PrintReply(c)
  <2>1. PICK v \in {0, 1} : Exit(c, v) /\ (v = 0 => client[c].ok)
    BY <1>3 DEF PrintReply
  <2>2. v = 0 => accepted[c]
    BY <1>0, <1>3, <2>1 DEF PrintReply, At, InOrder
  <2> QED  BY <1>3, <2>1, <2>2, ExitOK, SMTT(30) DEF PrintReply, At
<1>4. CASE Again(c)
  <2>1. /\ client' \in [Clients -> Run]
        /\ \A d \in Clients \ {c} : client'[d] = client[d]
        /\ client'[c].pc = "typed"
    BY <1>0, <1>4 DEF Again, Run, Pcs
  <2>2. InOrder(client'[c], accepted'[c])
    BY <2>1, ZenonT(10) DEF InOrder
  <2>3. /\ accepted' \in [Clients -> BOOLEAN]
        /\ \A d \in Clients \ {c} : accepted'[d] = accepted[d]
    BY <1>0, <1>4 DEF Again
  <2> QED  BY <1>4, <2>1, <2>2, <2>3, RunMoves, Zenon DEF Again, At
<1>5. CASE Connect(c)
  <2>1. CASE Exit(c, 1) /\ UNCHANGED queue
    BY <1>5, <2>1, ExitOK DEF Connect, At
  <2>2. CASE queue' = Append(queue, c) /\ Goto(c, "waiting")
    BY <1>5, <2>2, ConnectOK DEF Connect
  <2> QED  BY <1>5, <2>1, <2>2 DEF Connect
<1> QED  BY <1>1, <1>2, <1>3, <1>4, <1>5 DEF Client

(* The daemon answers the head of its queue, who is waiting and not queued *)
(* again.                                                                  *)
LEMMA ServeOK == ASSUME ClientInv, Serve, reply'.ok \in BOOLEAN PROVE ClientInv'
<1> DEFINE c == Head(queue)
<1>0. /\ client \in [Clients -> Run] /\ accepted \in [Clients -> BOOLEAN]
      /\ queue \in Seq(Clients) /\ queue # <<>>
      /\ \A d \in Clients : InOrder(client[d], accepted[d])
  BY RunsInOrder DEF ClientInv, ClientTypes, Run, Serve
<1>1. /\ c \in Clients /\ c = queue[1] /\ Len(queue) \in Nat /\ Len(queue) >= 1
      /\ queue' = Tail(queue) /\ Len(queue') = Len(queue) - 1
      /\ queue' \in Seq(Clients)
      /\ \A i \in 1..Len(queue') : queue'[i] = queue[i + 1]
  BY <1>0 DEF Serve
<1>2. client[c].pc = "waiting"
  BY <1>1 DEF ClientInv, QueueOK, At
<1>3. PICK pc \in {"answered", "closed"}, ok \in BOOLEAN :
        client' = [client EXCEPT ![c].pc = pc, ![c].ok = ok] /\ (ok => reply'.ok)
  BY Zenon DEF Serve
<1> HIDE DEF c
<1>4. /\ client' \in [Clients -> Run]
      /\ \A d \in Clients \ {c} : client'[d] = client[d]
      /\ client'[c].pc \in {"answered", "closed"} /\ client'[c].command = client[c].command
      /\ client'[c].ok => reply'.ok
  <2> DEFINE one == [client EXCEPT ![c].pc = pc]
  <2>a. c \in Clients
    BY <1>1
  <2>b. client \in [Clients -> Run]
    BY <1>0
  <2>c. pc \in Pcs
    BY DEF Pcs
  <2>1. /\ one \in [Clients -> Run]
        /\ \A d \in Clients \ {c} : one[d] = client[d]
        /\ one[c].pc = pc /\ one[c].command = client[c].command
    BY <2>a, <2>b, <2>c DEF Run
  <2>2. client' = [one EXCEPT ![c].ok = ok]
    BY <1>3
  <2> HIDE DEF one
  <2>3. /\ client' \in [Clients -> Run]
        /\ \A d \in Clients \ {c} : client'[d] = one[d]
        /\ client'[c].pc = one[c].pc /\ client'[c].command = one[c].command
        /\ client'[c].ok = ok
    BY <2>a, <2>1, <2>2 DEF Run
  <2> QED  BY <1>3, <2>1, <2>3
<1>5. /\ accepted' \in [Clients -> BOOLEAN]
      /\ \A d \in Clients \ {c} : accepted'[d] = accepted[d]
      /\ accepted'[c] = reply'.ok
  BY <1>0, <1>1 DEF Serve, c
<1>6. ClientTypes'
  BY <1>1, <1>4, <1>5, ZenonT(10) DEF ClientTypes, Run
<1>7. QueueOK'
  <2>1. \A i \in 1..Len(queue') : /\ i + 1 \in 1..Len(queue) /\ queue[i + 1] \in Clients
                                  /\ queue[i + 1] # c
    BY <1>0, <1>1 DEF ClientInv, QueueOK
  <2>2. \A i \in 1..Len(queue') : client'[queue'[i]].pc = "waiting"
    BY <1>1, <1>4, <2>1, SMTT(30) DEF ClientInv, QueueOK, At
  <2>3. \A i, j \in 1..Len(queue') : queue'[i] = queue'[j] => i = j
    BY <1>1, <2>1, SMTT(30) DEF ClientInv, QueueOK
  <2> QED  BY <2>2, <2>3 DEF QueueOK, At
<1>8. \A d \in Clients : InOrder(client'[d], accepted'[d])
  <2>1. InOrder(client'[c], accepted'[c])
    BY <1>0, <1>1, <1>2, <1>4, <1>5, ZenonT(10) DEF InOrder
  <2> QED  BY <1>0, <1>4, <1>5, <2>1
<1>9. RunsOK'
  BY <1>8, ZenonT(10) DEF RunsOK, InOrder, At
<1> QED  BY <1>6, <1>7, <1>9 DEF ClientInv

LEMMA DieOK == ASSUME ClientInv, Die PROVE ClientInv'
<1>0. /\ client \in [Clients -> Run] /\ accepted \in [Clients -> BOOLEAN]
      /\ \A d \in Clients : InOrder(client[d], accepted[d])
  BY RunsInOrder DEF ClientInv, ClientTypes, Run
<1>1. /\ queue' = <<>> /\ accepted' = accepted
      /\ client' = [d \in Clients |-> IF At(d, "waiting") THEN [client[d] EXCEPT !.pc = "closed"]
                                                          ELSE client[d]]
  BY DEF Die
<1>2. ASSUME NEW d \in Clients
      PROVE  client'[d] \in Run /\ InOrder(client'[d], accepted[d])
  BY <1>0, <1>1 DEF Run, Pcs, InOrder, At
<1>3. ClientTypes'
  BY <1>0, <1>1, <1>2 DEF ClientTypes, Run
<1>4. QueueOK'
  BY <1>1 DEF QueueOK
<1>5. RunsOK'
  BY <1>1, <1>2, Zenon DEF RunsOK, InOrder, At
<1> QED  BY <1>3, <1>4, <1>5 DEF ClientInv

LEMMA ClientKept == ClientInv /\ UNCHANGED <<queue, client, accepted>> => ClientInv'
BY DEF ClientInv, ClientTypes, QueueOK, RunsOK, At

LEMMA ClientKeepsDaemon ==
  ASSUME NEW c \in Clients, Client(c) \/ Again(c) PROVE UNCHANGED daemon /\ UNCHANGED up
BY DEF Client, Again, Parse, Connect, ReadClosed, PrintReply

LEMMA HeadIsACommand ==
  ASSUME ClientInv, queue # <<>> PROVE client[Head(queue)].command \in Commands
<1>1. Head(queue) \in Clients
  BY DEF ClientInv, ClientTypes
<1> QED  BY <1>1 DEF ClientInv, ClientTypes

LEMMA CStep ==
  ASSUME DaemonInv, ClientInv, [CNext]_cvars
  PROVE  DaemonInv' /\ ClientInv' /\ [up' = up => RequestsAtomic]_<<up, daemon>>
<1>1. ASSUME NEW c \in Clients, Client(c) \/ Again(c)
      PROVE  DaemonInv' /\ ClientInv' /\ UNCHANGED <<up, daemon>>
  BY <1>1, ClientKeepsDaemon, DaemonKept, ClientStepOK
<1>2. CASE Serve
  <2>1. DaemonInv' /\ RequestsAtomic
    BY <1>2, HeadIsACommand, HandleOK DEF Serve
  <2>2. reply'.ok \in BOOLEAN
    BY <2>1 DEF DaemonInv, IndInv, FlagsOK
  <2> QED  BY <1>2, <2>1, <2>2, ServeOK
<1>3. CASE Die
  BY <1>3, DieRestarts, InitInvPrimed, DieOK, Zenon DEF Die
<1>4. CASE Restart
  BY <1>4, DaemonKept, ClientKept, Zenon DEF Restart
<1>5. CASE UNCHANGED cvars
  BY <1>5, DaemonKept, ClientKept DEF cvars
<1> QED  BY <1>1, <1>2, <1>3, <1>4, <1>5 DEF CNext

(* However commands queue at the socket, are lost, run again and survive   *)
(* the daemon, what ConfigRequestsProofs shows of its state holds, and who *)
(* is queued waits for the run that is its latest.                         *)
THEOREM ClientsInOrder == CSpec => [](DaemonInv /\ ClientInv)
<1>1. CInit => DaemonInv /\ ClientInv
  BY InitInv, ClientInit DEF CInit
<1>2. DaemonInv /\ ClientInv /\ [CNext]_cvars => DaemonInv' /\ ClientInv'
  BY CStep
<1> QED  BY <1>1, <1>2, PTL DEF CSpec

(* ssctl's exit status 0 is never wrong (run, in bins/ssctl/src/main.rs):  *)
(* the daemon accepted the request of this run, and not of an earlier one. *)
THEOREM ZeroIsAccepted == CSpec => []ZeroMeansAccepted
<1>1. ClientInv => ZeroMeansAccepted
  BY ZenonT(10) DEF ClientInv, RunsOK, ZeroMeansAccepted
<1> QED  BY <1>1, ClientsInOrder, PTL

(* Each request of any client is done whole or leaves no trace, and gives  *)
(* the kernel a new number, while the daemon lives (Daemon::handle).       *)
THEOREM RequestsOfClientsAtomic == CSpec => EachRequestAtomic
<1>1. DaemonInv /\ ClientInv /\ [CNext]_cvars => [up' = up => RequestsAtomic]_<<up, daemon>>
  BY CStep
<1> QED  BY <1>1, ClientsInOrder, PTL DEF CSpec, EachRequestAtomic

(* The kernel maps stay sound and are what `status` reports, for the       *)
(* requests the clients make and over the daemon's deaths.                 *)
THEOREM MapsSoundForClients == CSpec => [](MapsSound /\ StatusIsKernel)
<1>1. DaemonInv => MapsSound /\ StatusIsKernel
  BY DEF DaemonInv, IndInv, ToldInv
<1> QED  BY <1>1, ClientsInOrder, PTL

-----------------------------------------------------------------------------
(* Which sections of the configuration a change touches.                   *)
SameModules(c, d) == d.enabled_modules = c.enabled_modules
SameTuning(c, d) == FromConfig(d) = FromConfig(c)

LEMMA TuningOfCore ==
  ASSUME NEW c \in Config, NEW d \in Config, SameCore(c, d),
         d.max_queue_delay_ms = c.max_queue_delay_ms,
         d.prr_pacing_enabled = c.prr_pacing_enabled,
         d.auto_pacing_enabled = c.auto_pacing_enabled
  PROVE  SameTuning(c, d)
BY ZenonT(10) DEF SameCore, SameTuning, FromConfig

LEMMA BumpedKeeps ==
  ASSUME NEW c \in Config, Valid(c)
  PROVE  SameTuning(c, Bumped(c)) /\ SameSides(c, Bumped(c)) /\ SameModules(c, Bumped(c))
<1>1. Bumped(c) \in Config
  BY BumpedValid
<1> QED  BY <1>1, BumpedSame, TuningOfCore DEF SameKernel, SameModules

LEMMA TuningSet ==
  ASSUME NEW c \in Config, NEW t \in ModuleTuning
  PROVE  /\ FromConfig(ApplyTo(t, c)) = t
         /\ SameSides(c, ApplyTo(t, c)) /\ SameModules(c, ApplyTo(t, c))
<1>1. SameSides(c, ApplyTo(t, c)) /\ SameModules(c, ApplyTo(t, c))
  BY DEF ApplyTo, Config, SameSides, SameModules
<1>2. FromConfig(ApplyTo(t, c)) = t
  BY DEF ApplyTo, Config, FromConfig, ModuleTuning
<1> QED  BY <1>1, <1>2

LEMMA SectionSet ==
  ASSUME NEW c \in Config
  PROVE  /\ \A ms \in SUBSET Modules : LET d == [c EXCEPT !.enabled_modules = ms]
              IN SameTuning(c, d) /\ SameSides(c, d) /\ d.enabled_modules = ms
         /\ \A r \in RackRto : LET d == [c EXCEPT !.rack_rto = r]
              IN /\ SameTuning(c, d) /\ SameModules(c, d) /\ d.rack_rto = r
                 /\ d.retransmit_dscp = c.retransmit_dscp /\ d.redundancy = c.redundancy
         /\ \A p \in RetransmitDscp : LET d == [c EXCEPT !.retransmit_dscp = p]
              IN /\ SameTuning(c, d) /\ SameModules(c, d) /\ d.retransmit_dscp = p
                 /\ d.rack_rto = c.rack_rto /\ d.redundancy = c.redundancy
         /\ \A r \in Redundancy : LET d == [c EXCEPT !.redundancy = r]
              IN /\ SameTuning(c, d) /\ SameModules(c, d) /\ d.redundancy = r
                 /\ d.rack_rto = c.rack_rto /\ d.retransmit_dscp = c.retransmit_dscp
<1>1. ASSUME NEW ms \in SUBSET Modules PROVE LET d == [c EXCEPT !.enabled_modules = ms]
              IN SameTuning(c, d) /\ SameSides(c, d) /\ d.enabled_modules = ms
  BY DEF SameTuning, SameSides, FromConfig, Config
<1>2. ASSUME NEW r \in RackRto PROVE LET d == [c EXCEPT !.rack_rto = r]
              IN /\ SameTuning(c, d) /\ SameModules(c, d) /\ d.rack_rto = r
                 /\ d.retransmit_dscp = c.retransmit_dscp /\ d.redundancy = c.redundancy
  BY DEF SameTuning, SameModules, FromConfig, Config
<1>3. ASSUME NEW p \in RetransmitDscp PROVE LET d == [c EXCEPT !.retransmit_dscp = p]
              IN /\ SameTuning(c, d) /\ SameModules(c, d) /\ d.retransmit_dscp = p
                 /\ d.rack_rto = c.rack_rto /\ d.redundancy = c.redundancy
  BY DEF SameTuning, SameModules, FromConfig, Config
<1>4. ASSUME NEW r \in Redundancy PROVE LET d == [c EXCEPT !.redundancy = r]
              IN /\ SameTuning(c, d) /\ SameModules(c, d) /\ d.redundancy = r
                 /\ d.rack_rto = c.rack_rto /\ d.retransmit_dscp = c.retransmit_dscp
  BY DEF SameTuning, SameModules, FromConfig, Config
<1> QED  BY <1>1, <1>2, <1>3, <1>4

(* A command moves each section to the file's or to its own flags, or not  *)
(* at all.                                                                 *)
Moves(cmd) ==
  /\ file' = file
  /\ \/ FromConfig(config') \in {FromConfig(config), FromConfig(file)}
     \/ cmd.name = "set-module-config" /\ FromConfig(config') = ModuleFlags(cmd)
  /\ \/ config'.rack_rto \in {config.rack_rto, file.rack_rto}
     \/ cmd.name = "set-rack-rto" /\ config'.rack_rto = RackRtoFlags(cmd)
  /\ \/ config'.retransmit_dscp \in {config.retransmit_dscp, file.retransmit_dscp}
     \/ cmd.name = "set-retransmit-dscp" /\ config'.retransmit_dscp = DscpFlags(cmd)
  /\ \/ config'.redundancy \in {config.redundancy, file.redundancy}
     \/ cmd.name = "set-redundancy" /\ config'.redundancy = RedundancyFlags(cmd)
  /\ \/ \E gone \in SUBSET Modules :
          config'.enabled_modules = config.enabled_modules \ gone
     \/ /\ cmd.name = "enable" /\ EnableFlags(cmd) # None
        /\ config'.enabled_modules = EnableFlags(cmd)

(* A command that changes no section at all.                               *)
LEMMA StaysMoves ==
  ASSUME NEW cmd, file' = file, SameTuning(config, config'), SameSides(config, config'),
         SameModules(config, config'), config \in Config
  PROVE  Moves(cmd)
<1>1. config.enabled_modules \ {} = config.enabled_modules
  OBVIOUS
<1> QED  BY <1>1, Zenon DEF Moves, SameTuning, SameSides, SameModules

LEMMA Settled ==
  ASSUME NEW q, NEW next, NEW ok \in BOOLEAN, Settle(q, next, ok)
  PROVE  config' = config \/ config' = next
BY DEF Settle

LEMMA UnchangedMoves ==
  ASSUME NEW cmd, file' = file, config' = config, config \in Config PROVE Moves(cmd)
BY StaysMoves DEF SameTuning, SameSides, SameModules

LEMMA EnableMoves ==
  ASSUME ConfigOK, NEW cmd \in Commands, cmd.name = "enable", Handle(cmd) PROVE Moves(cmd)
<1> DEFINE ms == EnableFlags(cmd)
           c == [config EXCEPT !.enabled_modules = IF ms = None THEN @ ELSE ms]
<1>0. config \in Config /\ ms \in {None} \cup SUBSET Modules /\ c \in Config
  BY LinesAssumption, PayloadTypes, Zenon DEF ConfigOK
<1>1. /\ EnableRefused(ms) \/ EnableNotDefault(ms) \/ Enable(ms)
  BY DEF Handle
<1>2. file' = file
  BY <1>1, Zenon DEF EnableRefused, EnableNotDefault, Enable, start
<1>3. CASE EnableRefused(ms)
  BY <1>0, <1>2, <1>3, UnchangedMoves DEF EnableRefused, Settle
<1>4. CASE EnableNotDefault(ms) \/ Enable(ms)
  <2>1. config' = Bumped(c) /\ Valid(Bumped(c))
    BY <1>4, Zenon DEF EnableNotDefault, Enable, EnableConfig, Settle
  <2>2. SameTuning(c, Bumped(c)) /\ SameSides(c, Bumped(c)) /\ SameModules(c, Bumped(c))
    <3> HIDE DEF c
    <3>0. SatAdd(c.generation, 1) \in U32
      BY <1>0, Generation, Zenon
    <3>1. Bumped(c) \in Config
      BY <1>0, <3>0, BumpedSame, Zenon
    <3> QED  BY <1>0, <3>1, BumpedSame, TuningOfCore DEF SameKernel, SameModules
  <2>3. CASE ms = None
    <3>1. c = config
      BY <1>0, <2>3, SMTT(30) DEF Config
    <3> QED  BY <1>0, <1>2, <2>1, <2>2, <3>1, StaysMoves
  <2>4. CASE ms # None
    <3>0. ms \in SUBSET Modules
      BY <1>0, <2>4
    <3>1. c = [config EXCEPT !.enabled_modules = ms]
      BY <2>4
    <3> HIDE DEF c
    <3>2. SameTuning(config, c) /\ SameSides(config, c) /\ c.enabled_modules = ms
      <4> DEFINE d == [config EXCEPT !.enabled_modules = ms]
      <4>1. SameTuning(config, d) /\ SameSides(config, d) /\ d.enabled_modules = ms
        BY <1>0, <3>0, SectionSet
      <4> QED  BY <3>1, <4>1
    <3> QED  BY <1>2, <2>1, <2>2, <2>4, <3>2, ZenonT(10) DEF Moves, SameTuning, SameSides, SameModules
  <2> QED  BY <2>3, <2>4
<1> QED  BY <1>1, <1>3, <1>4

LEMMA ModulesMove ==
  ASSUME ConfigOK, NEW cmd \in Commands, Handle(cmd),
         cmd.name \in {"disable", "set-module-config", "reset-module-config"}
  PROVE  Moves(cmd)
<1>0. /\ config \in Config /\ Valid(config) /\ file \in Config
      /\ FromConfig(file) \in ModuleTuning /\ ModuleFlags(cmd) \in ModuleTuning
  BY LinesAssumption, Zenon DEF ConfigOK, FromConfig, ModuleTuning, Config
<1>1. CASE cmd.name = "disable"
  <2> DEFINE m == cmd.flags.module
             c == [config EXCEPT !.enabled_modules = @ \ {m}]
  <2>1. c = [config EXCEPT !.enabled_modules = config.enabled_modules \ {m}]
        /\ config.enabled_modules \ {m} \in SUBSET Modules /\ {m} \in SUBSET Modules
    BY <1>0, <1>1, LinesAssumption DEF Config
  <2>2. SameTuning(config, c) /\ SameSides(config, c)
        /\ c.enabled_modules = config.enabled_modules \ {m}
    BY <1>0, <2>1, SectionSet
  <2>3. c \in Config /\ Valid(c)
    BY <1>0, UncheckedValid, Zenon
  <2> HIDE DEF c
  <2>4. PICK ok \in BOOLEAN : Settle("other", Bumped(c), ok) /\ file' = file
    BY <1>1 DEF Handle, DisableModule, start, c
  <2>5. CASE config' = config
    BY <1>0, <2>4, <2>5, UnchangedMoves
  <2>6. CASE config' = Bumped(c)
    <3>1. SameTuning(c, config') /\ SameSides(c, config') /\ SameModules(c, config')
      BY <2>3, <2>6, BumpedKeeps
    <3> QED  BY <2>1, <2>2, <2>4, <3>1, Zenon DEF Moves, SameTuning, SameSides, SameModules
  <2> QED  BY <2>4, <2>5, <2>6, Settled
<1>2. ASSUME NEW t \in ModuleTuning, NEW ok \in BOOLEAN, file' = file,
             ok => Valid(ApplyTo(t, config)), Settle("other", Bumped(ApplyTo(t, config)), ok),
             \/ t = FromConfig(file)
             \/ cmd.name = "set-module-config" /\ t = ModuleFlags(cmd)
      PROVE  Moves(cmd)
  <2> DEFINE c == ApplyTo(t, config)
  <2>1. /\ c \in Config /\ FromConfig(c) = t
        /\ SameSides(config, c) /\ SameModules(config, c)
    BY <1>0, PayloadTypes, TuningSet
  <2>2. CASE ~ok
    BY <1>0, <1>2, <2>2, UnchangedMoves, ZenonT(10) DEF Settle
  <2>3. CASE ok
    <3>1. config' = Bumped(c) /\ Valid(c)
      BY <1>2, <2>3, ZenonT(10) DEF Settle
    <3> HIDE DEF c
    <3>2. SameTuning(c, config') /\ SameSides(c, config') /\ SameModules(c, config')
      BY <2>1, <3>1, BumpedKeeps
    <3>3. /\ FromConfig(config') = t /\ SameSides(config, config')
          /\ SameModules(config, config')
      BY <2>1, <3>2, ZenonT(10) DEF SameTuning, SameSides, SameModules
    <3>4. config'.enabled_modules = config.enabled_modules \ {}
      BY <3>3, ZenonT(10) DEF SameModules
    <3> QED  BY <1>2, <3>3, <3>4, Zenon DEF Moves, SameSides
  <2> QED  BY <2>2, <2>3
<1>3. CASE cmd.name = "set-module-config"
  <2>1. SetModuleConfig(ModuleFlags(cmd))
    BY <1>3 DEF Handle
  <2> QED  BY <1>0, <1>2, <1>3, <2>1, ZenonT(10) DEF SetModuleConfig, start
<1>4. CASE cmd.name = "reset-module-config"
  <2>1. ResetModuleConfig
    BY <1>4, SMTT(30) DEF Handle
  <2> QED  BY <1>0, <1>2, <2>1, ZenonT(10) DEF ResetModuleConfig, start
<1> QED  BY <1>1, <1>3, <1>4, SMTT(30)

(* The requests about one section of their own.                            *)
LEMMA SectionMoves ==
  ASSUME NEW cmd, NEW c, file' = file, config \in Config,
         config' = config \/ (SameTuning(c, config') /\ SameSides(c, config')
                                                     /\ SameModules(c, config')),
         SameTuning(config, c), SameModules(config, c),
         \/ c.rack_rto \in {config.rack_rto, file.rack_rto}
         \/ cmd.name = "set-rack-rto" /\ c.rack_rto = RackRtoFlags(cmd),
         \/ c.retransmit_dscp \in {config.retransmit_dscp, file.retransmit_dscp}
         \/ cmd.name = "set-retransmit-dscp" /\ c.retransmit_dscp = DscpFlags(cmd),
         \/ c.redundancy \in {config.redundancy, file.redundancy}
         \/ cmd.name = "set-redundancy" /\ c.redundancy = RedundancyFlags(cmd)
  PROVE  Moves(cmd)
<1>1. CASE config' = config
  BY <1>1, UnchangedMoves, ZenonT(10)
<1>2. CASE SameTuning(c, config') /\ SameSides(c, config') /\ SameModules(c, config')
  <2>1. config'.enabled_modules = config.enabled_modules \ {}
    BY <1>2, ZenonT(10) DEF SameModules
  <2> QED  BY <1>2, <2>1, Zenon DEF Moves, SameTuning, SameSides, SameModules
<1> QED  BY <1>1, <1>2, ZenonT(10)

LEMMA RtoMoves ==
  ASSUME ConfigOK, NEW cmd \in Commands, Handle(cmd),
         cmd.name \in {"set-rack-rto", "reset-rack-rto"}
  PROVE  Moves(cmd)
<1>0. /\ config \in Config /\ Valid(config) /\ file \in Config /\ Valid(file)
      /\ file.rack_rto \in RackRto /\ RackRtoFlags(cmd) \in RackRto
  BY LinesAssumption, Sections, Zenon DEF ConfigOK
<1>1. PICK r \in RackRto, ok \in BOOLEAN :
        /\ \/ r = file.rack_rto
           \/ cmd.name = "set-rack-rto" /\ r = RackRtoFlags(cmd)
        /\ ok => Valid([config EXCEPT !.rack_rto = r])
        /\ Settle("other", Bumped([config EXCEPT !.rack_rto = r]), ok) /\ file' = file
  <2>1. CASE cmd.name = "set-rack-rto"
    <3>1. SetRackRto(RackRtoFlags(cmd))
      BY <2>1 DEF Handle
    <3> QED  BY <1>0, <2>1, <3>1 DEF SetRackRto, start
  <2>2. CASE cmd.name = "reset-rack-rto"
    <3>1. ResetRackRto
      BY <2>2 DEF Handle
    <3>2. Valid([config EXCEPT !.rack_rto = file.rack_rto])
      BY <1>0, UncheckedValid, ZenonT(30)
    <3> QED  BY <1>0, <3>1, <3>2 DEF ResetRackRto, start
  <2> QED  BY <2>1, <2>2, Zenon
<1> DEFINE c == [config EXCEPT !.rack_rto = r]
<1>2. /\ c \in Config /\ SameTuning(config, c) /\ SameModules(config, c) /\ c.rack_rto = r
      /\ c.retransmit_dscp = config.retransmit_dscp /\ c.redundancy = config.redundancy
  BY <1>0, PayloadTypes, SectionSet
<1>3. config' = config \/ (config' = Bumped(c) /\ Valid(c))
  BY <1>1 DEF Settle
<1> HIDE DEF c
<1>4. config' = config \/ (SameTuning(c, config') /\ SameSides(c, config')
                                                  /\ SameModules(c, config'))
  BY <1>2, <1>3, BumpedKeeps, ZenonT(10)
<1> QED  BY <1>0, <1>1, <1>2, <1>4, SectionMoves

LEMMA DscpMoves ==
  ASSUME ConfigOK, NEW cmd \in Commands, Handle(cmd),
         cmd.name \in {"set-retransmit-dscp", "reset-retransmit-dscp"}
  PROVE  Moves(cmd)
<1>0. /\ config \in Config /\ file.retransmit_dscp \in RetransmitDscp
      /\ DscpFlags(cmd) \in RetransmitDscp
  BY LinesAssumption, Sections, Zenon DEF ConfigOK
<1>1. PICK d \in RetransmitDscp, ok \in BOOLEAN :
        /\ \/ d = file.retransmit_dscp
           \/ cmd.name = "set-retransmit-dscp" /\ d = DscpFlags(cmd)
        /\ Settle("other", [config EXCEPT !.retransmit_dscp = d], ok) /\ file' = file
  <2>1. CASE cmd.name = "set-retransmit-dscp"
    BY <1>0, <2>1 DEF Handle, SetRetransmitDscp, start
  <2>2. CASE cmd.name = "reset-retransmit-dscp"
    BY <1>0, <2>2 DEF Handle, ResetRetransmitDscp, start
  <2> QED  BY <2>1, <2>2, Zenon
<1> DEFINE c == [config EXCEPT !.retransmit_dscp = d]
<1>2. /\ SameTuning(config, c) /\ SameModules(config, c) /\ c.retransmit_dscp = d
      /\ c.rack_rto = config.rack_rto /\ c.redundancy = config.redundancy
  BY <1>0, SectionSet
<1>3. config' = config \/ config' = c
  BY <1>1, Settled
<1> HIDE DEF c
<1>4. config' = config \/ (SameTuning(c, config') /\ SameSides(c, config')
                                                  /\ SameModules(c, config'))
  BY <1>3 DEF SameTuning, SameSides, SameModules
<1> QED  BY <1>0, <1>1, <1>2, <1>4, SectionMoves

LEMMA RedundancyMoves ==
  ASSUME ConfigOK, NEW cmd \in Commands, Handle(cmd),
         cmd.name \in {"set-redundancy", "reset-redundancy"}
  PROVE  Moves(cmd)
<1>0. /\ config \in Config /\ file.redundancy \in Redundancy
      /\ RedundancyFlags(cmd) \in Redundancy
  BY LinesAssumption, Sections, Zenon DEF ConfigOK
<1>1. PICK r \in Redundancy, ok \in BOOLEAN :
        /\ \/ r = file.redundancy
           \/ cmd.name = "set-redundancy" /\ r = RedundancyFlags(cmd)
        /\ Settle("other", [config EXCEPT !.redundancy = r], ok) /\ file' = file
  <2>1. CASE cmd.name = "set-redundancy"
    BY <1>0, <2>1 DEF Handle, SetRedundancy, start
  <2>2. CASE cmd.name = "reset-redundancy"
    BY <1>0, <2>2 DEF Handle, ResetRedundancy, start
  <2> QED  BY <2>1, <2>2, Zenon
<1> DEFINE c == [config EXCEPT !.redundancy = r]
<1>2. /\ SameTuning(config, c) /\ SameModules(config, c) /\ c.redundancy = r
      /\ c.rack_rto = config.rack_rto /\ c.retransmit_dscp = config.retransmit_dscp
  BY <1>0, SectionSet
<1>3. config' = config \/ config' = c
  BY <1>1, Settled
<1> HIDE DEF c
<1>4. config' = config \/ (SameTuning(c, config') /\ SameSides(c, config')
                                                  /\ SameModules(c, config'))
  BY <1>3 DEF SameTuning, SameSides, SameModules
<1> QED  BY <1>0, <1>1, <1>2, <1>4, SectionMoves

LEMMA HandleMoves ==
  ASSUME ConfigOK, NEW cmd \in Commands, Handle(cmd) PROVE Moves(cmd)
<1>0. config \in Config
  BY DEF ConfigOK
<1>1. CASE cmd.name \in {"disable", "set-module-config", "reset-module-config"}
  BY <1>1, ModulesMove
<1>2. CASE cmd.name \in {"enable", "set-rack-rto", "reset-rack-rto", "set-retransmit-dscp",
                         "reset-retransmit-dscp", "set-redundancy", "reset-redundancy"}
  BY <1>2, EnableMoves, RtoMoves, DscpMoves, RedundancyMoves
<1>3. CASE cmd.name = "drain"
  <2>1. file' = file /\ config' = config
    BY <1>3, Zenon DEF Handle, DrainNotClosed, DrainStillCopying, DrainStillAttached, Drain, Settle,
                start
  <2> QED  BY <1>0, <2>1, UnchangedMoves
<1>4. CASE cmd.name \notin {"enable", "disable", "drain", "set-rack-rto", "reset-rack-rto",
                            "set-module-config", "reset-module-config", "set-retransmit-dscp",
                            "reset-retransmit-dscp", "set-redundancy", "reset-redundancy"}
  <2>1. file' = file /\ config' = config
    BY <1>4 DEF Handle, start
  <2> QED  BY <1>0, <2>1, UnchangedMoves
<1> QED  BY <1>1, <1>2, <1>3, <1>4

-----------------------------------------------------------------------------
(* OneCommandsValues, section by section.                                  *)
Sent(name) == {cmd \in Commands : cmd.name = name /\ Parses(cmd)}
OneTuning == FromConfig(config) \in
               {FromConfig(file)} \cup {ModuleFlags(cmd) : cmd \in Sent("set-module-config")}
OneRto == config.rack_rto \in {file.rack_rto, Started(file).rack_rto}
                                \cup {RackRtoFlags(cmd) : cmd \in Sent("set-rack-rto")}
OneDscp == config.retransmit_dscp \in
             {file.retransmit_dscp, Started(file).retransmit_dscp}
               \cup {DscpFlags(cmd) : cmd \in Sent("set-retransmit-dscp")}
OneRedundancy == config.redundancy \in
                   {file.redundancy}
                     \cup {RedundancyFlags(cmd) : cmd \in Sent("set-redundancy")}
OneModules ==
  \/ config.enabled_modules \subseteq file.enabled_modules
  \/ \E cmd \in Sent("enable"), disabled \in SUBSET Modules :
       EnableFlags(cmd) # None /\ config.enabled_modules = EnableFlags(cmd) \ disabled

LEMMA OneSplit ==
  /\ OneCommandsValues <=> OneTuning /\ OneRto /\ OneDscp /\ OneRedundancy /\ OneModules
  /\ OneCommandsValues' <=> OneTuning' /\ OneRto' /\ OneDscp' /\ OneRedundancy' /\ OneModules'
<1>1. OneCommandsValues <=> OneTuning /\ OneRto /\ OneDscp /\ OneRedundancy /\ OneModules
  BY ZenonT(10) DEF OneCommandsValues, OneTuning, OneRto, OneDscp, OneRedundancy, OneModules, Sent
<1> QED  BY <1>1, PTL

LEMMA OneStarted ==
  ASSUME file \in Config, Valid(file), config = Started(file) PROVE OneCommandsValues
<1>1. config \in Config
  BY StartedOK
<1>2. /\ SameCore(file, config) /\ config.enabled_modules = file.enabled_modules
      /\ config.redundancy = file.redundancy
      /\ config.max_queue_delay_ms = file.max_queue_delay_ms
      /\ config.prr_pacing_enabled = file.prr_pacing_enabled
      /\ config.auto_pacing_enabled = file.auto_pacing_enabled
  BY DEF Started, Config, SameCore
<1>3. OneTuning
  BY <1>1, <1>2, TuningOfCore, ZenonT(10) DEF OneTuning, SameTuning
<1> QED  BY <1>2, <1>3, OneSplit, ZenonT(10) DEF OneRto, OneDscp, OneRedundancy, OneModules

LEMMA OneInit == Init => OneCommandsValues
BY OneStarted, RequestAssumption, ZenonT(10) DEF Init

LEMMA OneInitPrimed == Init' => OneCommandsValues'
BY OneInit, PTL

LEMMA OneMoves ==
  ASSUME OneCommandsValues, NEW cmd \in Commands, Parses(cmd), Moves(cmd)
  PROVE  OneCommandsValues'
<1>0. OneTuning /\ OneRto /\ OneDscp /\ OneRedundancy /\ OneModules
  BY OneSplit
<1>1. OneTuning'
  BY <1>0, ZenonT(10) DEF Moves, OneTuning, Sent
<1>2. OneRto'
  BY <1>0, ZenonT(10) DEF Moves, OneRto, Sent
<1>3. OneDscp'
  BY <1>0, ZenonT(10) DEF Moves, OneDscp, Sent
<1>4. OneRedundancy'
  BY <1>0, ZenonT(10) DEF Moves, OneRedundancy, Sent
<1>5. OneModules'
  <2>1. CASE cmd.name = "enable" /\ EnableFlags(cmd) # None
             /\ config'.enabled_modules = EnableFlags(cmd)
    <3>1. cmd \in Sent("enable") /\ config'.enabled_modules = EnableFlags(cmd) \ {}
      BY <2>1, ZenonT(10) DEF Sent
    <3> QED  BY <2>1, <3>1, Zenon DEF OneModules
  <2>2. ASSUME NEW gone \in SUBSET Modules,
               config'.enabled_modules = config.enabled_modules \ gone
        PROVE  OneModules'
    <3>1. CASE config.enabled_modules \subseteq file.enabled_modules
      BY <2>2, <3>1, ZenonT(10) DEF Moves, OneModules
    <3>2. ASSUME NEW d \in Sent("enable"), NEW off \in SUBSET Modules, EnableFlags(d) # None,
                 config.enabled_modules = EnableFlags(d) \ off
          PROVE  OneModules'
      <4>1. off \cup gone \in SUBSET Modules
            /\ config'.enabled_modules = EnableFlags(d) \ (off \cup gone)
        BY <2>2, <3>2, ZenonT(10)
      <4> QED  BY <3>2, <4>1, Zenon DEF OneModules
    <3> QED  BY <1>0, <3>1, <3>2, ZenonT(10) DEF OneModules
  <2> QED  BY <2>1, <2>2, ZenonT(10) DEF Moves
<1> QED  BY <1>1, <1>2, <1>3, <1>4, <1>5, OneSplit

-----------------------------------------------------------------------------
(* A number that parses is one that JSON carries.                          *)
LEMMA SentIsCarried == ClientInv => CarriedByJson
<1> SUFFICES ASSUME ClientInv, NEW c \in Clients, At(c, "waiting"),
                    NEW f \in FloatFlags \cap DOMAIN client[c].command.flags
             PROVE  client[c].command.flags[f] \notin {NaN, Inf}
  BY ZenonT(10) DEF CarriedByJson
<1>1. Parses(client[c].command)
  BY ZenonT(10) DEF ClientInv, RunsOK, At
<1>2. client[c].command.flags[f] \in Int
  BY <1>1, ZenonT(10) DEF Parses, Finite, IsFinite
<1> QED  BY <1>2, NoNumbers, Zenon

-----------------------------------------------------------------------------
Whole == DaemonInv /\ ClientInv /\ OneCommandsValues

LEMMA WholeInit == CInit => Whole
BY InitInv, ClientInit, OneInit DEF CInit, Whole

LEMMA WholeStep ==
  ASSUME Whole, [CNext]_cvars
  PROVE  Whole'
<1>0. DaemonInv' /\ ClientInv'
  BY CStep DEF Whole
<1> SUFFICES OneCommandsValues'
  BY <1>0, Zenon DEF Whole
<1> USE DEF Whole
<1>1. CASE UNCHANGED daemon
  BY <1>1, ZenonT(10) DEF daemon, start, OneCommandsValues
<1>2. CASE Serve
  <2>0. queue \in Seq(Clients) /\ queue # <<>>
    BY <1>2 DEF Serve, ClientInv, ClientTypes
  <2>1. Head(queue) \in Clients /\ At(Head(queue), "waiting")
    <3>1. Head(queue) \in Clients /\ 1 \in 1..Len(queue) /\ Head(queue) = queue[1]
      BY <2>0
    <3> QED  BY <3>1 DEF ClientInv, QueueOK
  <2>2. client[Head(queue)].command \in Commands /\ Parses(client[Head(queue)].command)
    BY <1>2, <2>1, HeadIsACommand DEF Serve, ClientInv, RunsOK, At
  <2> QED  BY <1>2, <2>2, HandleMoves, OneMoves DEF Serve, DaemonInv, IndInv
<1>3. CASE Die
  BY <1>3, DieRestarts, OneInitPrimed
<1> QED  BY <1>1, <1>2, <1>3, ClientKeepsDaemon, ZenonT(10) DEF CNext, cvars, Restart

LEMMA WholeIsWhole == Whole => CommandsWhole
BY DefaultsPass, SentIsCarried DEF Whole, CommandsWhole, DaemonInv, IndInv

(* A command line reaches the daemon whole: each section of the            *)
(* configuration is the file's or one command's (request, in               *)
(* crates/ssctl/src/main.rs, sends every field), the defaults of the command *)
(* line are accepted at any time, and every number sent is one JSON has.   *)
THEOREM CommandsStayWhole == CSpec => []CommandsWhole
<1>1. CInit => Whole
  BY WholeInit
<1>2. Whole /\ [CNext]_cvars => Whole'
  BY WholeStep
<1>3. Whole => CommandsWhole
  BY WholeIsWhole
<1> QED  BY <1>1, <1>2, <1>3, PTL DEF CSpec

(* The same of the configuration with its three ways in, in the behaviours *)
(* where only ssctl makes requests.                                        *)
THEOREM ClientsStayWhole == ASpec => []ClientsMixNothing
<1> DEFINE Inv == part = "clients" => Whole
<1>1. AInit => Inv
  BY WholeInit DEF AInit
<1>2. Inv /\ [ANext]_parts => Inv'
  <2> SUFFICES ASSUME Inv, [ANext]_parts, part' = "clients" PROVE Whole'
    OBVIOUS
  <2>1. part = "clients" /\ [CNext]_cvars
    BY DEF ANext, parts, clients, cvars
  <2> QED  BY <2>1, WholeStep
<1>3. Inv => ClientsMixNothing
  BY WholeIsWhole DEF ClientsMixNothing
<1> QED  BY <1>1, <1>2, <1>3, PTL DEF ASpec

-----------------------------------------------------------------------------
(* ConfigFile: what a refusal says is exactly what is not the              *)
(* configuration's.                                                        *)
Said(f) == F!UnknownKeys(f, F!Entries)
Misplaced(f) == {x \in f.values \ F!Entries : x[1] \in F!Tables \cup {F!Top}}
Deeper(f) == {x \in f.nested : x[1] \in F!Tables}

FileInv == /\ text \in F!File
           /\ outcome \in {"none", "config", "parse error", "unknown keys", "invalid"}
           /\ outcome = "unknown keys" => F!Decodes(text) /\ unknown = Said(text) /\ unknown # {}
           /\ outcome # "unknown keys" => unknown = {}
           /\ outcome = "config" => parsed = F!Decoded(text) /\ Said(text) = {}

LEMMA EveryKeyOut == F!WrittenOut(F!WithEveryKey(F!Decoded(text))) = F!Entries
<1>1. \A e \in F!Entries : F!WithEveryKey(F!Decoded(text))[e] # "none"
  BY DEF F!WithEveryKey, F!Decoded
<1> QED  BY <1>1 DEF F!WrittenOut

LEMMA FileBegin ==
  ASSUME F!Init
  PROVE  FileInv
BY TomlAssumption DEF F!Init, FileInv, F!FileAssumption

LEMMA FileStep ==
  ASSUME FileInv, [F!Load]_F!vars
  PROVE  FileInv'
<1>1. CASE F!Load
  <2>1. F!UnknownKeys(text, F!WrittenOut(F!WithEveryKey(F!Decoded(text)))) = Said(text)
    BY EveryKeyOut, Zenon DEF Said
  <2>2. text' = text /\ unknown = {}
    BY <1>1, Zenon DEF F!Load, FileInv
  <2>3. F!Decodes(text)' = F!Decodes(text) /\ Said(text)' = Said(text) /\ F!Decoded(text)' = F!Decoded(text)
    BY <2>2, Zenon DEF F!Decodes, Said, F!Decoded, F!UnknownKeys, F!HomeOf
  <2>4. \/ outcome' = "parse error" /\ unknown' = unknown
        \/ F!Decodes(text) /\ Said(text) # {} /\ outcome' = "unknown keys" /\ unknown' = Said(text)
        \/ outcome' = "invalid" /\ unknown' = unknown
        \/ Said(text) = {} /\ outcome' = "config" /\ parsed' = F!Decoded(text) /\ unknown' = unknown
    BY <1>1, <2>1, Zenon DEF F!Load
  <2> HIDE DEF Said, F!Decoded, F!Decodes
  <2> QED  BY <2>2, <2>3, <2>4, Zenon DEF FileInv
<1>2. CASE UNCHANGED F!vars
  BY <1>2, Zenon DEF F!vars, FileInv, F!Decodes, Said, F!Decoded, F!UnknownKeys, F!HomeOf
<1> QED  BY <1>1, <1>2

(* The three kinds of what is said, and that nothing of theirs is left out.*)
LEMMA SaidIs ==
  ASSUME NEW f
  PROVE  /\ \A u \in Said(f) :
              \/ \E e \in Misplaced(f) :
                   /\ u.place = e[1] /\ u.key = e[2] /\ u.table = FALSE
                   /\ u.homes = F!HomeOf(F!Entries, e[2], e[1])
              \/ \E e \in Deeper(f) : u.place = e[1] /\ u.key = e[2] /\ u.table = TRUE
              \/ \E t \in f.tables \ F!Tables : u.place = F!Top /\ u.key = t /\ u.table = TRUE
         /\ \A e \in Misplaced(f) \cup Deeper(f) :
              \E u \in Said(f) : u.place = e[1] /\ u.key = e[2]
         /\ \A t \in f.tables \ F!Tables :
              \E u \in Said(f) : u.place = F!Top /\ u.key = t /\ u.table = TRUE
<1> DEFINE A(e) == [place |-> e[1], key |-> e[2], table |-> FALSE,
                    homes |-> F!HomeOf(F!Entries, e[2], e[1])]
           B(e) == [place |-> e[1], key |-> e[2], table |-> TRUE, homes |-> {}]
           C(t) == [place |-> F!Top, key |-> t, table |-> TRUE, homes |-> {}]
<1>1. Said(f) = {A(e) : e \in Misplaced(f)} \cup {B(e) : e \in Deeper(f)}
                \cup {C(t) : t \in f.tables \ F!Tables}
  BY Zenon DEF Said, F!UnknownKeys, Misplaced, Deeper
<1>2. \A e : /\ A(e).place = e[1] /\ A(e).key = e[2] /\ A(e).table = FALSE
             /\ A(e).homes = F!HomeOf(F!Entries, e[2], e[1])
  OBVIOUS
<1>3. \A e : B(e).place = e[1] /\ B(e).key = e[2] /\ B(e).table = TRUE
  OBVIOUS
<1>4. \A t : C(t).place = F!Top /\ C(t).key = t /\ C(t).table = TRUE
  OBVIOUS
<1> HIDE DEF A, B, C
<1>5. \A u \in Said(f) :
        \/ \E e \in Misplaced(f) : u = A(e)
        \/ \E e \in Deeper(f) : u = B(e)
        \/ \E t \in f.tables \ F!Tables : u = C(t)
  BY <1>1, Zenon
<1>6. /\ \A e \in Misplaced(f) : A(e) \in Said(f)
      /\ \A e \in Deeper(f) : B(e) \in Said(f)
      /\ \A t \in f.tables \ F!Tables : C(t) \in Said(f)
  BY <1>1, Zenon
<1>7. ASSUME NEW u \in Said(f)
      PROVE  \/ \E e \in Misplaced(f) :
                  /\ u.place = e[1] /\ u.key = e[2] /\ u.table = FALSE
                  /\ u.homes = F!HomeOf(F!Entries, e[2], e[1])
             \/ \E e \in Deeper(f) : u.place = e[1] /\ u.key = e[2] /\ u.table = TRUE
             \/ \E t \in f.tables \ F!Tables : u.place = F!Top /\ u.key = t /\ u.table = TRUE
  <2>1. CASE \E e \in Misplaced(f) : u = A(e)
    BY <1>2, <2>1, Zenon
  <2>2. CASE \E e \in Deeper(f) : u = B(e)
    BY <1>3, <2>2, Zenon
  <2>3. CASE \E t \in f.tables \ F!Tables : u = C(t)
    BY <1>4, <2>3, Zenon
  <2> QED  BY <1>5, <2>1, <2>2, <2>3, Zenon
<1>8. ASSUME NEW e \in Misplaced(f) \cup Deeper(f)
      PROVE  \E u \in Said(f) : u.place = e[1] /\ u.key = e[2]
  BY <1>2, <1>3, <1>6, Zenon
<1>9. ASSUME NEW t \in f.tables \ F!Tables
      PROVE  \E u \in Said(f) : u.place = F!Top /\ u.key = t /\ u.table = TRUE
  BY <1>4, <1>6, Zenon
<1> QED  BY <1>7, <1>8, <1>9, Zenon

LEMMA SaidKinds ==
  ASSUME FileInv, NEW u \in unknown
  PROVE  \/ \E e \in Misplaced(text) : u.place = e[1] /\ u.key = e[2] /\ u.table = FALSE
         \/ \E e \in Deeper(text) : u.place = e[1] /\ u.key = e[2] /\ u.table = TRUE
         \/ \E t \in text.tables \ F!Tables : u.place = F!Top /\ u.key = t /\ u.table = TRUE
<1>1. u \in Said(text)
  BY Zenon DEF FileInv
<1> QED  BY <1>1, SaidIs, Zenon

LEMMA KeyKnown ==
  ASSUME NEW f \in F!File, NEW e \in f.values, e \notin F!Entries
  PROVE  e \in Misplaced(f) \/ e[1] \in f.tables \ F!Tables
BY DEF F!File, Misplaced

LEMMA KeyPairs ==
  ASSUME NEW f \in F!File, NEW e \in f.values \cup f.nested \cup F!Entries
  PROVE  e = <<e[1], e[2]>>
BY TomlAssumption DEF F!File, F!FileAssumption

LEMMA KeyPlaces == \A e \in F!Entries : e[1] \in F!Tables \cup {F!Top} /\ (e[1] = F!Top => e[2] \in F!TopKeys)
BY DEF F!Tables, F!TopKeys

LEMMA NonePassedOver ==
  ASSUME FileInv
  PROVE  F!NothingPassedOver
<1> SUFFICES ASSUME outcome = "config" PROVE F!NothingPassedOver
  BY DEF F!NothingPassedOver
<1>1. text \in F!File /\ parsed = F!Decoded(text) /\ Said(text) = {}
  BY DEF FileInv
<1>2. Misplaced(text) = {} /\ Deeper(text) = {} /\ text.tables \ F!Tables = {}
  BY <1>1, SaidIs, Zenon
<1>3. text.values \subseteq F!Entries
  BY <1>1, <1>2, KeyKnown
<1>4. text.nested = {}
  BY <1>1, <1>2 DEF F!File, Deeper
<1>5. \A e \in F!Entries : parsed[e] = "file" <=> e \in text.values
  BY <1>1 DEF F!Decoded
<1> QED  BY <1>2, <1>3, <1>4, <1>5 DEF F!NothingPassedOver

LEMMA RefusalRight ==
  ASSUME FileInv
  PROVE  F!RefusalIsComplete
<1> SUFFICES ASSUME outcome = "unknown keys" PROVE F!RefusalIsComplete
  BY Zenon DEF F!RefusalIsComplete
<1>1. text \in F!File /\ F!Decodes(text) /\ unknown = Said(text)
  BY Zenon DEF FileInv
<1>2. \A u \in unknown : <<u.place, u.key>> \notin F!Entries
  <2> SUFFICES ASSUME NEW u \in unknown PROVE <<u.place, u.key>> \notin F!Entries
    BY Zenon
  <2>1. CASE \E e \in Misplaced(text) : u.place = e[1] /\ u.key = e[2]
    BY <1>1, <2>1, KeyPairs, Zenon DEF Misplaced
  <2>2. CASE \E e \in Deeper(text) : u.place = e[1] /\ u.key = e[2]
    BY <1>1, <2>2, KeyPairs, Zenon DEF Deeper, F!Decodes
  <2>3. CASE \E t \in text.tables \ F!Tables : u.place = F!Top /\ u.key = t
    <3>1. u.place = F!Top /\ u.key \notin F!TopKeys
      BY <1>1, <2>3, Zenon DEF F!Decodes
    <3> QED  BY <3>1, KeyPlaces, Zenon
  <2> QED  BY <2>1, <2>2, <2>3, SaidKinds, Zenon
<1>3. \A u \in unknown : u.table /\ u.place = F!Top => u.key \notin F!Tables \cup {F!Top}
  <2> SUFFICES ASSUME NEW u \in unknown, u.table, u.place = F!Top
               PROVE  u.key \notin F!Tables \cup {F!Top}
    BY Zenon
  <2>1. ~ \E e \in Deeper(text) : u.place = e[1]
    BY Zenon DEF Deeper, F!Tables
  <2>2. PICK t \in text.tables \ F!Tables : u.key = t
    BY <2>1, SaidKinds, Zenon
  <2> QED  BY <1>1, <2>2, Zenon DEF F!File
<1>4. Required \subseteq F!Mended.values
  <2>1. \A e \in Required : e \in F!Entries /\ e \in text.values
    BY <1>1, Zenon DEF F!Decodes, F!Entries
  <2> QED  BY <1>2, <1>3, <2>1, KeyPlaces, Zenon DEF F!Mended
<1>5. F!Mended.values \subseteq text.values /\ F!Mended.tables \subseteq text.tables
      /\ F!Mended.nested \subseteq text.nested
  BY Zenon DEF F!Mended
<1>6. F!Decodes(F!Mended)
  BY <1>1, <1>4, <1>5, Zenon DEF F!Decodes
<1>7. F!Mended.values \subseteq F!Entries
  <2> SUFFICES ASSUME NEW e \in text.values, e \notin F!Entries PROVE e \notin F!Mended.values
    BY <1>5, Zenon
  <2>0. e = <<e[1], e[2]>>
    BY <1>1, KeyPairs, Zenon
  <2>1. CASE e \in Misplaced(text)
    <3>1. PICK u \in unknown : u.place = e[1] /\ u.key = e[2]
      BY <1>1, <2>1, SaidIs, Zenon
    <3>2. <<u.place, u.key>> = e
      BY <2>0, <3>1, Zenon
    <3> QED  BY <3>2, Zenon DEF F!Mended
  <2>2. CASE e[1] \in text.tables \ F!Tables
    <3>1. PICK u \in unknown : u.place = F!Top /\ u.key = e[1] /\ u.table = TRUE
      BY <1>1, <2>2, SaidIs, Zenon
    <3> QED  BY <3>1, Zenon DEF F!Mended
  <2> QED  BY <1>1, <2>1, <2>2, KeyKnown, Zenon
<1>8. F!Mended.tables \subseteq F!Tables
  <2> SUFFICES ASSUME NEW t \in text.tables \ F!Tables PROVE t \notin F!Mended.tables
    BY <1>5, Zenon
  <2>1. PICK u \in unknown : u.place = F!Top /\ u.key = t
    BY <1>1, SaidIs, Zenon
  <2>2. <<u.place, u.key>> = <<F!Top, t>>
    BY <2>1, Zenon
  <2> QED  BY <2>2, Zenon DEF F!Mended
<1>9. F!Mended.nested = {}
  <2> SUFFICES ASSUME NEW e \in text.nested PROVE e \notin F!Mended.nested
    BY <1>5, Zenon
  <2>0. e = <<e[1], e[2]>> /\ e[1] \in text.tables
    BY <1>1, KeyPairs, Zenon DEF F!File
  <2>1. CASE e[1] \in F!Tables
    <3>1. PICK u \in unknown : u.place = e[1] /\ u.key = e[2]
      BY <1>1, <2>1, SaidIs, Zenon DEF Deeper
    <3>2. <<u.place, u.key>> = e
      BY <2>0, <3>1, Zenon
    <3> QED  BY <3>2, Zenon DEF F!Mended
  <2>2. CASE e[1] \notin F!Tables
    <3>1. PICK u \in unknown : u.place = F!Top /\ u.key = e[1] /\ u.table = TRUE
      BY <1>1, <2>0, <2>2, SaidIs, Zenon
    <3> QED  BY <3>1, Zenon DEF F!Mended
  <2> QED  BY <2>1, <2>2, Zenon
<1> QED  BY <1>2, <1>6, <1>7, <1>8, <1>9, Zenon DEF F!RefusalIsComplete

LEMMA HintsRight ==
  ASSUME FileInv
  PROVE  F!HintsAreTrue
<1> SUFFICES ASSUME NEW u \in unknown, ~u.table
             PROVE  /\ \A h \in u.homes : <<h, u.key>> \in F!Entries
                    /\ (\E e \in F!Entries : e[2] = u.key) => u.homes # {}
  BY DEF F!HintsAreTrue
<1>1. text \in F!File /\ unknown = Said(text)
  BY Zenon DEF FileInv
<1>2. PICK m \in Misplaced(text) :
        u.key = m[2] /\ u.homes = F!HomeOf(F!Entries, m[2], m[1])
  BY <1>1, SaidIs, Zenon
<1>3. u.key = m[2] /\ u.homes = F!HomeOf(F!Entries, m[2], m[1])
  BY <1>2
<1>4. m = <<m[1], m[2]>> /\ m \notin F!Entries
  BY <1>1, KeyPairs DEF Misplaced
<1>5. \A h \in u.homes : <<h, u.key>> \in F!Entries
  BY <1>3 DEF F!HomeOf
<1>6. ASSUME NEW e \in F!Entries, e[2] = u.key
      PROVE  u.homes # {}
  <2>1. e = <<e[1], e[2]>> /\ e[1] \in F!Tables \cup {F!Top}
    BY <1>1, KeyPairs, KeyPlaces
  <2>2. e[1] # m[1]
    BY <1>3, <1>4, <1>6, <2>1
  <2>3. <<e[1], m[2]>> \in F!Entries
    BY <1>3, <1>6, <2>1
  <2>4. F!Top \notin F!Tables
    BY DEF F!Tables
  <2> QED  BY <1>3, <2>1, <2>2, <2>3, <2>4 DEF F!HomeOf
<1> QED  BY <1>5, <1>6

(* SkylineConfig::load, for every configuration and every file: one that   *)
(* is accepted is in force key by key with nothing passed over; a refusal  *)
(* names all that is wrong with the keys, so that taking it out is enough, *)
(* and says of each key that belongs elsewhere where that is.              *)
THEOREM FileIsInForce == ASpec => []ReadsWhatIsWritten
<1>1. AInit => FileInv
  BY FileBegin DEF AInit
<1>2. FileInv /\ [ANext]_parts => FileInv'
  <2>1. [ANext]_parts => [F!Load]_F!vars
    BY DEF ANext, parts, toml, F!vars
  <2> QED  BY <2>1, FileStep
<1>3. FileInv => ReadsWhatIsWritten
  <2>1. FileInv => F!TypeOK
    BY Zenon DEF FileInv, F!TypeOK
  <2> QED  BY <2>1, NonePassedOver, RefusalRight, HintsRight
           DEF ReadsWhatIsWritten, F!ReadsWhatIsWritten
<1> QED  BY <1>1, <1>2, <1>3, PTL DEF ASpec
=============================================================================
