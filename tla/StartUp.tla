------------------------------ MODULE StartUp -------------------------------
(***************************************************************************)
(* What skyline-speederd finds out about its host and what it then loads:  *)
(* probe_capabilities and validate_capabilities, --validate-only with      *)
(* --verify-bpf, the loads of the policy and TC programs at start, and the *)
(* load of skyline_cc at an Enable (main.rs).                              *)
(*                                                                         *)
(* The host may change between any two of these steps: modules come and    *)
(* go, the module tree of the running kernel is removed by an upgrade, the *)
(* BPF objects are replaced, an interface is made anew under its name.  A  *)
(* module tcp_<x> is named x here, skyline_cc.bpf.o is its ABI and whether *)
(* it has the map skyline_cc_txs.  The rest of Enable and Drain is         *)
(* SpeederDaemon.                                                          *)
(***************************************************************************)
EXTENDS Naturals, FiniteSets

CONSTANTS Hosts,      \* the hosts a start may meet
          Fallbacks,  \* what fallback_cc may be
          PlainNames, \* names made of [A-Za-z0-9_-] only
          Canon,      \* [names -> the name with - for _]
          Provides,   \* [modules -> the algorithms loading one registers]
          EarlyLoss,  \* the configuration has the early-loss module
          ChangesMax  \* bound on changes of the host

VARIABLES host,     \* the machine
          fallback, \* fallback_cc of the file
          phase,    \* off, probed, policy, tc, attaching, serving
          report,   \* Daemon::capabilities: what each check said
          notes,    \* the notes of status(): report, tc_error, tc and policy errors
          policy,   \* the sockops program is attached
          hook,     \* the kind of device the TC program is attached to, or none
          cc,       \* none, or the struct_ops map skyline_cc is attached through
          verified, \* history: {} or the host --validate-only --verify-bpf accepted
          unloaded, \* history: an algorithm's module was unloaded since the attach
          enabled,  \* history: how the last attach ended
          changes

vars == <<host, fallback, phase, report, notes, policy, hook, cc,
          verified, unloaded, enabled, changes>>

None == "none"

Algorithms == PlainNames \cup {"skyline_cc"}

HostRecord ==
  [btf : {"ok", "absent", "bad"}, struct_ops : BOOLEAN, rack_reo_hook : BOOLEAN,
   tx_start_op : BOOLEAN, bpffs : BOOLEAN, cgroup_v2 : BOOLEAN, cgroup_path : BOOLEAN,
   registered : SUBSET Algorithms, dep : SUBSET DOMAIN Provides,
   alias : SUBSET (PlainNames \X DOMAIN Provides), disabled : BOOLEAN,
   fq : SUBSET {"builtin", "loaded", "default", "dep"},
   interface : {"unset", "ethernet", "tunnel", "missing"}, tc_tool : BOOLEAN,
   cc : [abi : {"ours", "other", "none", "missing"}, txs : BOOLEAN],
   policy_object : BOOLEAN, tc_object : BOOLEAN]

(* No module registers an algorithm of another kind of name, or skyline_cc.*)
StartAssumption ==
  /\ Hosts \subseteq HostRecord
  /\ \A m \in DOMAIN Provides : Provides[m] \subseteq PlainNames \ {"skyline_cc"}

-----------------------------------------------------------------------------
(* The kernel's side.                                                      *)

(* modprobe finds a module through modules.dep or an alias for it.         *)
SameModule(a, b) == Canon[a] = Canon[b]

Resolved(h, name) ==
  {m \in h.dep : SameModule(m, name)}
  \cup {a[2] : a \in {b \in h.alias : SameModule(b[1], name)}}

(* A root write of tcp_congestion_control: request_module, then look again.*)
Autoload(h, name) ==
  IF name \in h.registered \/ h.disabled THEN h.registered
  ELSE h.registered \cup UNION {Provides[m] : m \in Resolved(h, name)}

KernelTakes(h, name) == name \in Autoload(h, name)

KernelHasFq(h) ==
  h.fq \cap {"builtin", "loaded"} # {} \/ ("dep" \in h.fq /\ ~h.disabled)

-----------------------------------------------------------------------------
(* ModuleIndex::can_load                                                   *)
CanLoad(h, name) ==
  /\ ~h.disabled
  /\ \/ \E m \in h.dep : SameModule(m, name)
     \/ \E a \in h.alias : SameModule(a[1], name)

FallbackAvailability(h, name) ==
  IF name \in h.registered THEN "Registered"
  ELSE IF name \in PlainNames /\ CanLoad(h, name) THEN "Loadable"
  ELSE "Missing"

(* A default qdisc of fq counts too: the sysctl takes only what is there.  *)
FqIsAvailable(h) ==
  \/ "builtin" \in h.fq \/ "loaded" \in h.fq \/ "default" \in h.fq
  \/ "dep" \in h.fq /\ ~h.disabled

(* probe_btf_capabilities: nothing is known of a BTF that does not parse.  *)
ProbeBtf(h) ==
  [struct_ops |-> h.btf = "ok" /\ h.struct_ops,
   rack_reo_hook |-> h.btf = "ok" /\ h.rack_reo_hook,
   tx_start_op |-> h.btf = "ok" /\ h.tx_start_op]

(* require_ethernet: a type that cannot be read is let through.            *)
RequireEthernet(type) == type \in {"ethernet", "unreadable"}

InterfaceType(h) == IF h.interface = "missing" THEN "unreadable" ELSE h.interface

ProbeNotes(h) ==
  {n \in {"btf", "loadable", "fallback", "cgroup", "early-loss", "interface",
          "tunnel", "tc-tool"} :
     \/ n = "btf" /\ h.btf = "bad"
     \/ n = "loadable" /\ FallbackAvailability(h, fallback) = "Loadable"
     \/ n = "fallback" /\ FallbackAvailability(h, fallback) = "Missing"
     \/ n = "cgroup" /\ ~h.cgroup_path
     \/ n = "early-loss" /\ EarlyLoss /\ ~ProbeBtf(h).rack_reo_hook
     \/ n = "interface" /\ h.interface = "missing"
     \/ n = "tunnel" /\ h.interface # "unset" /\ ~RequireEthernet(InterfaceType(h))
     \/ n = "tc-tool" /\ h.interface # "unset" /\ ~h.tc_tool}

ProbeCapabilities(h) ==
  [btf |-> h.btf # "absent",
   bpffs |-> h.bpffs,
   cgroup_v2 |-> h.cgroup_v2,
   fq_available |-> FqIsAvailable(h),
   struct_ops |-> ProbeBtf(h).struct_ops,
   fallback_cc_available |-> FallbackAvailability(h, fallback) # "Missing"]

ValidateCapabilities(r) == \A check \in DOMAIN r : r[check]

-----------------------------------------------------------------------------
(* The objects.                                                            *)

(* load_cc_object with struct_ops_map_for_kernel: the one map to create.   *)
WantedMap(h) ==
  IF ProbeBtf(h).tx_start_op /\ h.cc.txs THEN "skyline_cc_txs" ELSE "skyline_cc"

CheckObjectAbi(h) == h.cc.abi = "ours"

(* libbpf loads an object that has the map, on a kernel that has its type  *)
(* and, for skyline_cc_txs, the op.                                        *)
KernelLoads(h, map) ==
  /\ h.cc.abi # "missing" /\ h.struct_ops
  /\ map = "skyline_cc_txs" => h.cc.txs /\ h.tx_start_op

LoadCcObject(h) == CheckObjectAbi(h) /\ KernelLoads(h, WantedMap(h))

(* slip: skyline_cc is loaded like the others, with the map of the old      *)
(* layout and whatever its ABI.                                            *)
VerifyBpfObjectsAlike(h) ==
  KernelLoads(h, "skyline_cc") /\ h.policy_object /\ h.tc_object

VerifyBpfObjects(h) == LoadCcObject(h) /\ h.policy_object /\ h.tc_object

-----------------------------------------------------------------------------
(* A host but for what is loaded at the moment.                            *)
Machine(h) == [h EXCEPT !.registered = {}]

Init == /\ host \in Hosts /\ fallback \in Fallbacks
        /\ phase = "off" /\ report = None /\ notes = {}
        /\ policy = FALSE /\ hook = None /\ cc = None
        /\ verified = {} /\ unloaded = FALSE /\ enabled = None /\ changes = 0

(* run: Daemon::new.                                                       *)
Run ==
  /\ phase = "off"
  /\ phase' = "probed"
  /\ report' = ProbeCapabilities(host) /\ notes' = ProbeNotes(host)
  /\ UNCHANGED <<host, fallback, policy, hook, cc, verified, unloaded, enabled, changes>>

(* run with --validate-only --verify-bpf, to its exit.                     *)
ValidateOnly ==
  /\ phase = "probed"
  /\ phase' = "off" /\ report' = None /\ notes' = {}
  /\ verified' = IF ValidateCapabilities(report) /\ VerifyBpfObjects(host)
                 THEN {Machine(host)} ELSE verified
  /\ UNCHANGED <<host, fallback, policy, hook, cc, unloaded, enabled, changes>>

(* serve: apply_rack_tuning, whose failure ends the start.                 *)
Serve ==
  /\ phase = "probed"
  /\ \/ phase' = "policy" /\ UNCHANGED <<report, notes>>
     \/ phase' = "off" /\ report' = None /\ notes' = {}
  /\ UNCHANGED <<host, fallback, policy, hook, cc, verified, unloaded, enabled, changes>>

(* start_policy, PolicyRuntime::load: nothing in it ends the start.        *)
StartPolicy ==
  /\ phase = "policy"
  /\ phase' = "tc"
  /\ \E attached \in BOOLEAN :
       /\ attached => host.policy_object /\ host.cgroup_path /\ host.cgroup_v2
       /\ policy' = attached
       /\ notes' = IF attached THEN notes ELSE notes \cup {"policy"}
  /\ UNCHANGED <<host, fallback, report, hook, cc, verified, unloaded, enabled, changes>>

(* start_tc, TcRuntime::load up to the type of the interface ...           *)
ReadType ==
  /\ phase = "tc"
  /\ IF host.interface = "unset" THEN phase' = "serving" /\ UNCHANGED notes
     ELSE IF RequireEthernet(InterfaceType(host)) THEN phase' = "attaching" /\ UNCHANGED notes
     ELSE phase' = "serving" /\ notes' = notes \cup {"tc"}
  /\ UNCHANGED <<host, fallback, report, policy, hook, cc, verified, unloaded, enabled, changes>>

(* ... and load_tc_observer, by the index the name has now.                *)
LoadTcObserver ==
  /\ phase = "attaching"
  /\ phase' = "serving"
  /\ hook' \in {None} \cup (IF host.tc_object /\ host.interface # "missing"
                            THEN {host.interface} ELSE {})
  /\ notes' = IF hook' = None THEN notes \cup {"tc"} ELSE notes
  /\ UNCHANGED <<host, fallback, report, policy, cc, verified, unloaded, enabled, changes>>

-----------------------------------------------------------------------------
(* What BpfRuntime::load does once fallback_cc is the default: load, write *)
(* the maps, attach.  The kernel refuses a name that is registered.        *)
AttachStructOps(h) ==
  IF LoadCcObject(h) /\ "skyline_cc" \notin h.registered
  THEN /\ cc' = WantedMap(h) /\ enabled' = "attached"
       /\ host' = [h EXCEPT !.registered = @ \cup {"skyline_cc"}]
  ELSE cc' = None /\ enabled' = "refused" /\ host' = h

(* publish_or_attach without a runtime: the report is the one of the start.*)
Load ==
  /\ phase = "serving" /\ cc = None /\ ValidateCapabilities(report)
  /\ IF KernelTakes(host, fallback)
     THEN AttachStructOps([host EXCEPT !.registered = Autoload(host, fallback)])
     ELSE enabled' = "no fallback" /\ UNCHANGED <<host, cc>>
  /\ unloaded' = FALSE
  /\ UNCHANGED <<fallback, phase, report, notes, policy, hook, verified, changes>>

(* A drain, to its end: fallback_cc again, then unregister_struct_ops.     *)
Drain ==
  /\ phase = "serving" /\ cc # None /\ KernelTakes(host, fallback)
  /\ host' = [host EXCEPT !.registered = Autoload(host, fallback) \ {"skyline_cc"}]
  /\ cc' = None /\ enabled' = None
  /\ UNCHANGED <<fallback, phase, report, notes, policy, hook, verified, unloaded, changes>>

(* Daemon's drops.                                                         *)
Stop ==
  /\ phase = "serving"
  /\ phase' = "off" /\ report' = None /\ notes' = {}
  /\ policy' = FALSE /\ hook' = None /\ cc' = None /\ enabled' = None /\ unloaded' = FALSE
  /\ host' = IF cc = None THEN host
             ELSE [host EXCEPT !.registered = @ \ {"skyline_cc"}]
  /\ UNCHANGED <<fallback, verified, changes>>

-----------------------------------------------------------------------------
(* Other programs, the administrator and the package manager.              *)
Changes(h) ==
  {[h EXCEPT !.registered = @ \cup Provides[m]] : m \in IF h.disabled THEN {} ELSE h.dep}
  \cup {[h EXCEPT !.disabled = TRUE],                         \* kernel.modules_disabled
        [h EXCEPT !.dep = {}, !.alias = {}, !.fq = @ \ {"dep"}],  \* the tree is removed
        [h EXCEPT !.cgroup_path = ~@]}
  \cup {[h EXCEPT !.cc = o] : o \in {[abi |-> "other", txs |-> TRUE],
                                     [abi |-> "ours", txs |-> TRUE]}}
  \cup (IF cc # None THEN {}                    \* another daemon's skyline_cc
        ELSE {[h EXCEPT !.registered = @ \cup {"skyline_cc"}]})
  \cup IF hook # None \/ h.interface = "unset" THEN {}
       ELSE {[h EXCEPT !.interface = i] : i \in {"ethernet", "tunnel", "missing"}}

(* rmmod of a module whose algorithm nothing uses.                         *)
Unloads(h) ==
  {[h EXCEPT !.registered = @ \ Provides[m]] : m \in {n \in h.dep : Provides[n] # {}}}

HostChanges ==
  /\ changes < ChangesMax
  /\ changes' = changes + 1
  /\ \/ host' \in Changes(host) \ {host} /\ UNCHANGED unloaded
     \/ host' \in Unloads(host) \ {host} /\ unloaded' = TRUE
  /\ UNCHANGED <<fallback, phase, report, notes, policy, hook, cc, verified, enabled>>

Next == \/ Run \/ ValidateOnly \/ Serve \/ StartPolicy \/ ReadType
        \/ LoadTcObserver \/ Load \/ Drain \/ Stop \/ HostChanges

Spec == Init /\ [][Next]_vars

-----------------------------------------------------------------------------
(* A host on which everything skyline_cc needs would be taken by the       *)
(* kernel is never refused by the probe: not for a fallback that is a      *)
(* module still to be loaded, not for an sch_fq found in one place only.   *)
NoUsableHostRefused ==
  phase = "probed" /\ changes = 0
  /\ host.btf = "ok" /\ host.struct_ops /\ host.bpffs /\ host.cgroup_v2
  /\ KernelHasFq(host) /\ KernelTakes(host, fallback)
    => ValidateCapabilities(report)

(* What --validate-only --verify-bpf accepted, an Enable on the same host  *)
(* loads: the two select the same map of the same object.                  *)
VerifiedHostAttaches ==
  [][enabled = None /\ enabled' = "refused" /\ "skyline_cc" \notin host.registered
       => Machine(host) \notin verified]_vars

(* skyline_cc runs only from an object of this daemon's ABI, through the   *)
(* layout with the TX_START op exactly when kernel and object have it, in  *)
(* force until the object on disk or the attachment changes.               *)
AttachedObjectFits ==
  [][cc = None /\ cc' # None =>
       /\ host.cc.abi = "ours"
       /\ cc' = "skyline_cc_txs" <=> host.cc.txs /\ host.tx_start_op /\ host.btf = "ok"]_vars

(* While skyline_cc is attached, fallback_cc is one the kernel takes, so a *)
(* drain can hand new connections back: Load wrote it before it attached,  *)
(* whatever the probe of long ago made of a name with a module that        *)
(* registers nothing, and whatever happened to the module tree since.      *)
(* Only unloading the module of an idle fallback takes that away.          *)
DrainCanHandBack == cc # None /\ ~unloaded => KernelTakes(host, fallback)

(* A part that did not load at start is always told of in status: the TC   *)
(* program where an interface is configured, and the policy program.       *)
NothingMissesSilently ==
  phase = "serving" =>
    /\ hook = None /\ host.interface # "unset" => "tc" \in notes
    /\ ~policy => "policy" \in notes

(* A start neither refuses a host it could serve nor serves one it could   *)
(* not hand back, and says what it lacks.                                  *)
StartsHonestly == [](NoUsableHostRefused /\ DrainCanHandBack /\ NothingMissesSilently)
                  /\ VerifiedHostAttaches /\ AttachedObjectFits
=============================================================================
