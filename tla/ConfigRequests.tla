--------------------------- MODULE ConfigRequests ---------------------------
(***************************************************************************)
(* The requests that change skyline-speederd's configuration, against the  *)
(* four kernel maps they are written to: the congestion control's          *)
(* (config_slots), the policy's rto_tuning, and the TC program's           *)
(* retransmit_dscp_config and redundancy_config.                           *)
(*                                                                         *)
(* Requests are handled one at a time by Daemon::handle, so each is one    *)
(* action; every map update in it may fail.  SpeederDaemon has the steps   *)
(* of Enable and Drain against the rest of the host, ConfigPublish those   *)
(* of one publication.                                                     *)
(***************************************************************************)
EXTENDS ConfigSchema

CONSTANTS Files,        \* the configurations skyline-speederd may start from
          ModuleSets,   \* the module sets an Enable may name
          Tunings,      \* the payloads of SetModuleConfig
          Rtos,         \* of SetRackRto
          Dscps,        \* of SetRetransmitDscp
          Redundancies  \* of SetRedundancy

(* Requests are decoded by serde, so their fields have their Rust types.   *)
ASSUME RequestAssumption == /\ Files \subseteq Config
                            /\ \A ms \in ModuleSets : ms \subseteq Modules
                            /\ Tunings \subseteq ModuleTuning
                            /\ Rtos \subseteq RackRto
                            /\ Dscps \subseteq RetransmitDscp
                            /\ Redundancies \subseteq Redundancy

VARIABLES file,         \* the *_defaults fields: the file as it was loaded
          capable,      \* validate_capabilities on the report of the start
          policyLoaded, \* PolicyRuntime has its object
          tc,           \* "absent", "empty" (no object) or "loaded"
          config,       \* Daemon::config
          attached,     \* Daemon::runtime is Some
          accelerating, \* Daemon::accelerating
          draining,     \* Daemon::draining
          ccMap,        \* what was last published to skyline_cc; in force while attached
          rtoMap,       \* rto_tuning
          dscpMap,      \* retransmit_dscp_config
          redMap,       \* redundancy_config
          redActive,    \* TcRuntime::redundancy_active
          reply         \* the last request (Enable, Drain or another), its success

start == <<file, capable, policyLoaded, tc>>
flags == <<attached, accelerating, draining>>
sides == <<rtoMap, dscpMap, redMap, redActive>>
vars == <<start, config, flags, ccMap, sides, reply>>

-----------------------------------------------------------------------------
(* Daemon::new and the loads: a file that validates, with dynamic RTO and  *)
(* DSCP marking off whatever it says, and every map written disabled.      *)
Started(f) == [f EXCEPT !.rack_rto.enabled = FALSE,
                        !.retransmit_dscp.enabled = FALSE]

Init == /\ file \in {f \in Files : Valid(f)}
        /\ capable \in BOOLEAN
        /\ policyLoaded \in BOOLEAN
        /\ tc \in {"absent", "empty", "loaded"}
        /\ config = Started(file)
        /\ attached = FALSE /\ accelerating = FALSE /\ draining = FALSE
        /\ ccMap = [generation |-> 0]
        /\ rtoMap = KernelRto(RtoDisabled, 0)
        /\ dscpMap = KernelDscp(DscpDisabled)
        /\ redMap = KernelRedundancy(RedundancyDisabled, FALSE)
        /\ redActive = FALSE
        /\ reply = [request |-> "other", ok |-> TRUE]

-----------------------------------------------------------------------------
(* slip: a request that fails leaves its configuration in memory.          *)
SettleKeeps(request, next, ok) ==
  config' = next /\ reply' = [request |-> request, ok |-> ok]

(* Daemon::handle: a request that fails leaves the configuration alone.    *)
Settle(request, next, ok) ==
  /\ config' = IF ok THEN next ELSE config
  /\ reply' = [request |-> request, ok |-> ok]

Bumped(c) == [c EXCEPT !.generation = SatAdd(@, 1)]

(* BpfRuntime::update_config, where there is a runtime to update.          *)
UpdateConfig(next, ok) ==
  ccMap' = IF attached /\ ok THEN KernelConfig(next) ELSE ccMap

(* Daemon::apply_redundancy and TcRuntime::set_redundancy.                 *)
ApplyRedundancy(r, active, ok) ==
  /\ tc # "loaded" => ok = ~(r.enabled /\ active)
  /\ redMap' = IF ok /\ tc = "loaded" THEN KernelRedundancy(r, active) ELSE redMap
  /\ redActive' = IF ok /\ tc # "absent" THEN r.enabled /\ active ELSE redActive

(* Daemon::apply_retransmit_dscp and TcRuntime::set_retransmit_dscp.       *)
ApplyDscp(d, ok) ==
  /\ tc # "loaded" => ok = ~d.enabled
  /\ dscpMap' = IF ok /\ tc = "loaded" THEN KernelDscp(d) ELSE dscpMap

(* PolicyRuntime::set_rto_tuning; the runtime is always there.             *)
SetRtoTuning(next, ok) ==
  /\ ok => policyLoaded
  /\ rtoMap' = IF ok THEN KernelRto(next.rack_rto, next.generation) ELSE rtoMap

-----------------------------------------------------------------------------
(* Enable: publish_or_attach, then the default congestion control, then    *)
(* redundancy, whose failure does not fail the request.                    *)
EnableConfig(ms) ==
  Bumped([config EXCEPT !.enabled_modules = IF ms = None THEN @ ELSE ms])

EnableRefused(ms) ==       \* not valid, not capable, or a load or update fails
  /\ Settle("Enable", EnableConfig(ms), FALSE)
  /\ UNCHANGED <<start, flags, ccMap, sides>>

(* slip: the module set and the number are put back also once they are     *)
(* published, when the sysctl is refused.                                  *)
EnableNotDefaultRestores(ms) ==
  /\ Valid(EnableConfig(ms)) /\ capable
  /\ ccMap' = KernelConfig(EnableConfig(ms))
  /\ attached' = TRUE
  /\ config' = config /\ reply' = [request |-> "Enable", ok |-> FALSE]
  /\ UNCHANGED <<start, accelerating, draining, sides>>

EnableNotDefault(ms) ==
  /\ Valid(EnableConfig(ms)) /\ capable
  /\ ccMap' = KernelConfig(EnableConfig(ms))
  /\ attached' = TRUE
  /\ config' = EnableConfig(ms) /\ reply' = [request |-> "Enable", ok |-> FALSE]
  /\ UNCHANGED <<start, accelerating, draining, sides>>

Enable(ms) ==
  /\ Valid(EnableConfig(ms)) /\ capable
  /\ ccMap' = KernelConfig(EnableConfig(ms))
  /\ attached' = TRUE /\ accelerating' = TRUE /\ draining' = FALSE
  /\ \E copied \in BOOLEAN : ApplyRedundancy(config.redundancy, TRUE, copied)
  /\ Settle("Enable", EnableConfig(ms), TRUE)
  /\ UNCHANGED <<start, rtoMap, dscpMap>>

(* Drain: up to the failing step, or to the end.                           *)
DrainNotClosed ==                       \* the sysctl or the policy switch fails
  /\ Settle("Drain", config, FALSE)
  /\ UNCHANGED <<start, flags, ccMap, sides>>

DrainStillCopying ==                    \* apply_redundancy fails
  /\ accelerating' = FALSE
  /\ ApplyRedundancy(config.redundancy, FALSE, FALSE)
  /\ Settle("Drain", config, FALSE)
  /\ UNCHANGED <<start, attached, draining, ccMap, rtoMap, dscpMap>>

DrainStillAttached ==                   \* connections left, or unregister fails
  /\ attached
  /\ accelerating' = FALSE /\ draining' = TRUE
  /\ ApplyRedundancy(config.redundancy, FALSE, TRUE)
  /\ Settle("Drain", config, FALSE)
  /\ UNCHANGED <<start, attached, ccMap, rtoMap, dscpMap>>

Drain ==
  /\ attached' = FALSE /\ accelerating' = FALSE /\ draining' = FALSE
  /\ ApplyRedundancy(config.redundancy, FALSE, TRUE)
  /\ Settle("Drain", config, TRUE)
  /\ UNCHANGED <<start, ccMap, rtoMap, dscpMap>>

DisableModule(m) ==
  LET next == Bumped([config EXCEPT !.enabled_modules = @ \ {m}])
  IN \E ok \in BOOLEAN :
       /\ ~attached => ok
       /\ UpdateConfig(next, ok)
       /\ Settle("other", next, ok)
       /\ UNCHANGED <<start, flags, sides>>

SetModuleConfig(t) ==
  LET next == Bumped(ApplyTo(t, config))
  IN \E ok \in BOOLEAN :
       /\ ok => Valid(ApplyTo(t, config))
       /\ ~attached => ok = Valid(ApplyTo(t, config))
       /\ UpdateConfig(next, ok)
       /\ Settle("other", next, ok)
       /\ UNCHANGED <<start, flags, sides>>

(* slip: the file's values were checked when the daemon started.           *)
ResetModuleConfigUnchecked ==
  LET next == Bumped(ApplyTo(FromConfig(file), config))
  IN \E ok \in BOOLEAN :
       /\ ~attached => ok
       /\ UpdateConfig(next, ok)
       /\ Settle("other", next, ok)
       /\ UNCHANGED <<start, flags, sides>>

ResetModuleConfig ==
  LET reset == ApplyTo(FromConfig(file), config)
  IN \E ok \in BOOLEAN :
       /\ ok => Valid(reset)
       /\ ~attached => ok = Valid(reset)
       /\ UpdateConfig(Bumped(reset), ok)
       /\ Settle("other", Bumped(reset), ok)
       /\ UNCHANGED <<start, flags, sides>>

SetRackRto(r) ==
  LET next == Bumped([config EXCEPT !.rack_rto = r])
  IN \E ok \in BOOLEAN :
       /\ ok => Valid([config EXCEPT !.rack_rto = r])
       /\ SetRtoTuning(next, ok)
       /\ Settle("other", next, ok)
       /\ UNCHANGED <<start, flags, ccMap, dscpMap, redMap, redActive>>

ResetRackRto ==
  LET next == Bumped([config EXCEPT !.rack_rto = file.rack_rto])
  IN \E ok \in BOOLEAN :
       /\ SetRtoTuning(next, ok)
       /\ Settle("other", next, ok)
       /\ UNCHANGED <<start, flags, ccMap, dscpMap, redMap, redActive>>

SetRetransmitDscp(d) ==
  LET next == [config EXCEPT !.retransmit_dscp = d]
  IN \E ok \in BOOLEAN :
       /\ IF Valid(next) THEN ApplyDscp(d, ok) ELSE ~ok /\ UNCHANGED dscpMap
       /\ Settle("other", next, ok)
       /\ UNCHANGED <<start, flags, ccMap, rtoMap, redMap, redActive>>

ResetRetransmitDscp ==
  \E ok \in BOOLEAN :
    /\ ApplyDscp(file.retransmit_dscp, ok)
    /\ Settle("other",
              [config EXCEPT !.retransmit_dscp = file.retransmit_dscp], ok)
    /\ UNCHANGED <<start, flags, ccMap, rtoMap, redMap, redActive>>

SetRedundancy(r) ==
  LET next == [config EXCEPT !.redundancy = r]
  IN \E ok \in BOOLEAN :
       /\ IF Valid(next) THEN ApplyRedundancy(r, accelerating, ok)
                         ELSE ~ok /\ UNCHANGED <<redMap, redActive>>
       /\ Settle("other", next, ok)
       /\ UNCHANGED <<start, flags, ccMap, rtoMap, dscpMap>>

ResetRedundancy ==
  \E ok \in BOOLEAN :
    /\ ApplyRedundancy(file.redundancy, accelerating, ok)
    /\ Settle("other", [config EXCEPT !.redundancy = file.redundancy], ok)
    /\ UNCHANGED <<start, flags, ccMap, rtoMap, dscpMap>>

Next ==
  \/ \E ms \in {None} \cup ModuleSets :
       EnableRefused(ms) \/ EnableNotDefault(ms) \/ Enable(ms)
  \/ DrainNotClosed \/ DrainStillCopying \/ DrainStillAttached \/ Drain
  \/ \E m \in Modules : DisableModule(m)
  \/ \E t \in Tunings : SetModuleConfig(t)
  \/ ResetModuleConfig
  \/ \E r \in Rtos : SetRackRto(r)
  \/ ResetRackRto
  \/ \E d \in Dscps : SetRetransmitDscp(d)
  \/ ResetRetransmitDscp
  \/ \E r \in Redundancies : SetRedundancy(r)
  \/ ResetRedundancy

Spec == Init /\ [][Next]_vars

-----------------------------------------------------------------------------
(* Types of the daemon's own state.                                        *)
TypeOK == /\ tc \in {"absent", "empty", "loaded"}
          /\ {capable, policyLoaded, attached, accelerating, draining,
              redActive, reply.ok} \subseteq BOOLEAN
          /\ config.generation \in 1..U32Max
          /\ config.enabled_modules \subseteq Modules

(* Whatever sequence of requests, refused ones and failed writes led       *)
(* there, each map holds values its BPF program can run on: pacing has a   *)
(* limit, no gain wraps 32 bits, the floors are below the caps.            *)
(* DisableModule and the resets write without validating (or validate only *)
(* part), so this rests on what earlier requests left in memory.           *)
MapsSound == /\ attached => CcMapSound(ccMap)
             /\ RtoMapSound(rtoMap)
             /\ DscpMapSound(dscpMap)
             /\ RedundancyMapSound(redMap)

(* What `status` reports as running is what the kernel runs, generation    *)
(* aside: the modules and coefficients, the RTO tuning, the DSCP marking   *)
(* and the redundancy.                                                     *)
StatusIsKernel ==
  /\ attached => ccMap = KernelConfig([config EXCEPT !.generation = ccMap.generation])
  /\ rtoMap.enabled = config.rack_rto.enabled
  /\ rtoMap.enabled => rtoMap = KernelRto(config.rack_rto, rtoMap.generation)
  /\ dscpMap.enabled = config.retransmit_dscp.enabled
  /\ dscpMap.enabled => dscpMap = KernelDscp(config.retransmit_dscp)
  /\ redMap.enabled = redActive
  /\ redMap.enabled => redMap = KernelRedundancy(config.redundancy, TRUE)

(* The configuration in memory would pass validate at any time, so no      *)
(* later request is refused for what an earlier one left behind.           *)
ConfigStaysValid == Valid(config)

(* A request that fails leaves no trace, in memory or in a map.  A Drain   *)
(* keeps the configuration; an Enable changes it only if the kernel runs   *)
(* the change.                                                             *)
FailsWithoutTrace ==
  ~reply'.ok =>
    CASE reply'.request = "Drain" -> UNCHANGED <<config, ccMap, rtoMap, dscpMap>>
      [] reply'.request = "Enable" -> /\ UNCHANGED sides
                                      /\ config' # config => ccMap' = KernelConfig(config')
      [] OTHER -> UNCHANGED <<config, flags, ccMap, sides>>

(* A configuration the kernel is given carries a larger generation than    *)
(* any before it, until the number saturates: an event's generation names  *)
(* one configuration.                                                      *)
GenerationGrows ==
  /\ config'.generation >= config.generation
  /\ ccMap' # ccMap /\ ccMap'.generation # U32Max =>
       /\ ccMap'.generation > config.generation
       /\ ccMap'.generation > ccMap.generation

(* What a request does to the configuration it does whole or not at all.   *)
RequestsAtomic == FailsWithoutTrace /\ GenerationGrows
=============================================================================
