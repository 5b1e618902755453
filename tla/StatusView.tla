----------------------------- MODULE StatusView -----------------------------
(***************************************************************************)
(* What ssctl tells the operator (ssctl/src/view.rs: status, flows and the *)
(* line under every other command) of the host the daemon has made.        *)
(*                                                                         *)
(* The daemon's requests are here with every place they can end at and     *)
(* what they leave behind there (their steps are SpeederDaemon's), beside  *)
(* a guard pass, other programs on the host and connections that come and  *)
(* go.  A page is its verdict, the marks of its rows, its notes and its    *)
(* ATTENTION section; words and layout are left out.                       *)
(***************************************************************************)
EXTENDS Naturals, FiniteSets

CONSTANTS Module,    \* the modules of skyline_cc
          Qdiscs,    \* summaries of a root qdisc (guard.rs, summary)
          FlowsMax   \* bound on connections on skyline_cc

VARIABLES attached,     \* Daemon::runtime is Some
          accelerating, draining,
          armed,        \* the guard's
          modules,      \* enabled_modules of the configuration
          rto, dscp,    \* rack_rto.enabled, retransmit_dscp.enabled
          redundancy,   \* redundancy.enabled
          copying,      \* TcRuntime::redundancy_active
          declared,     \* the file turns rack_rto and retransmit_dscp on
          tc,           \* unset, failed or loaded
          policy,       \* absent, unlinked or linked
          cc,           \* the host's default congestion control
          qdisc,        \* the summary of the managed NIC's root qdisc
          flows,        \* connections on skyline_cc
          seen          \* skyline_policy has seen a connection

daemon == <<attached, accelerating, draining, armed>>
features == <<modules, rto, dscp, redundancy>>
start == <<declared, tc, policy>>
host == <<cc, qdisc, flows, seen>>
vars == <<daemon, features, copying, start, host>>

-----------------------------------------------------------------------------
(* carrying_traffic                                                        *)
CarryingTraffic == attached /\ cc = "skyline_cc"

(* RuntimeStatus::draining is set only with a runtime; view.rs, draining.  *)
IsDraining == attached /\ draining /\ ~CarryingTraffic

(* slip: status knows no drain, only a default that is not skyline_cc.     *)
StatusVerdictNoDrain ==
  CASE CarryingTraffic -> "ACCELERATING"
    [] ~CarryingTraffic /\ attached -> "ATTACHED, NOT DEFAULT"
    [] OTHER -> "STANDBY"

StatusVerdict ==
  CASE CarryingTraffic -> "ACCELERATING"
    [] IsDraining -> "DRAINING"
    [] ~CarryingTraffic /\ ~IsDraining /\ attached -> "ATTACHED, NOT DEFAULT"
    [] OTHER -> "STANDBY"

FlowsVerdict ==
  CASE ~attached -> "NOT ACCELERATING"
    [] IsDraining -> "DRAINING"
    [] attached /\ ~IsDraining /\ ~CarryingTraffic -> "BYPASSED"
    [] CarryingTraffic /\ ~IsDraining /\ flows = 0 -> "IDLE"
    [] OTHER -> "ACCELERATING"

(* The last line of every other command.                                   *)
ActionState ==
  IF CarryingTraffic THEN "accelerating"
  ELSE IF attached THEN "attached, but not the host default" ELSE "not attached"

(* TAKEOVER: the mark of the host default.                                 *)
DefaultCcRow ==
  CASE CarryingTraffic -> "Good"
    [] attached /\ ~CarryingTraffic /\ ~IsDraining -> "Bad"
    [] OTHER -> "Off"

(* The modules row, and parameters: a tick means acting on traffic now.    *)
Ticked(module) == attached /\ module \in modules

(* DRIFT GUARD                                                             *)
ArmedRow == IF armed THEN "Good" ELSE IF IsDraining THEN "Off" ELSE "Warn"

GuardCcRow ==
  IF ~armed THEN "Off" ELSE IF cc = "skyline_cc" THEN "Good" ELSE "Bad"

StartsWithMqFq(q) == q \in {"mq/fq", "mq/fq_codel", "mq/fq_pie"}

QdiscRow ==
  IF ~armed THEN "Off"
  ELSE IF qdisc = "fq" \/ StartsWithMqFq(qdisc) THEN "Good" ELSE "Warn"

(* The capability notes, with what the daemon's status() adds to them.     *)
Notes == {n \in {"tc", "policy"} : \/ n = "tc" /\ tc = "failed"
                                   \/ n = "policy" /\ policy # "linked"}

(* declared_but_off                                                        *)
DeclaredButOff == {f \in {"rack_rto", "retransmit_dscp"} :
                     declared /\ ~(IF f = "rack_rto" THEN rto ELSE dscp)}

(* ATTENTION                                                               *)
Attention ==
  {w \in {"not attached", "bypassed", "not armed", "rto sees nothing"} :
     \/ w = "not attached" /\ ~attached
     \/ w = "bypassed" /\ attached /\ ~CarryingTraffic /\ ~IsDraining
     \/ w = "not armed" /\ attached /\ ~armed /\ ~IsDraining
     \/ w = "rto sees nothing" /\ policy # "absent" /\ rto /\ ~seen}
  \cup DeclaredButOff \cup Notes

(* PARAMETERS: the features that do not wait for the attach, and copies.   *)
RtoRow == IF rto THEN "Good" ELSE "Off"
DscpRow == IF dscp THEN "Good" ELSE "Off"

CopiesRow ==
  CASE copying -> [mark |-> "Good", say |-> "running"]
    [] ~copying /\ redundancy /\ IsDraining -> [mark |-> "Off", say |-> "stopped by the drain"]
    [] ~copying /\ redundancy /\ attached /\ ~IsDraining ->
         [mark |-> "Warn",
          say |-> IF tc # "loaded" THEN "TC program not loaded" ELSE "see the last enable"]
    [] OTHER -> [mark |-> "Off", say |-> "off"]

-----------------------------------------------------------------------------
(* The host, as a daemon that has just started finds it.                   *)
Init == /\ attached = FALSE /\ accelerating = FALSE /\ draining = FALSE /\ armed = FALSE
        /\ modules \in SUBSET Module /\ rto = FALSE /\ dscp = FALSE
        /\ redundancy \in BOOLEAN /\ copying = FALSE /\ declared \in BOOLEAN
        /\ tc \in {"unset", "failed", "loaded"} /\ policy \in {"absent", "unlinked", "linked"}
        /\ cc = "fallback" /\ qdisc \in Qdiscs
        /\ flows = 0 /\ seen = FALSE

(* apply_redundancy: fails where copies are asked for and none can be made.*)
ApplyRedundancy(on, ok) ==
  /\ tc # "loaded" => ok = ~on
  /\ copying' = IF ok THEN on ELSE copying

(* A pass of the guard leaves the qdisc alone, or makes it fq.             *)
Enforced == qdisc' \in {qdisc, IF qdisc \in {"fq", "fq_codel", "cake"} THEN "fq" ELSE "mq/fq"}

Enable ==
  /\ attached' = TRUE /\ cc' = "skyline_cc" /\ armed' = TRUE
  /\ accelerating' = TRUE /\ draining' = FALSE
  /\ modules' \in SUBSET Module
  /\ \E ok \in BOOLEAN : ApplyRedundancy(redundancy, ok)
  /\ Enforced
  /\ UNCHANGED <<rto, dscp, redundancy, start, flows, seen>>

(* Attached or published, then the sysctl is refused.  A load has written  *)
(* fallback_cc by then; that may also be all that happened.                *)
EnableNotDefault ==
  /\ IF attached THEN UNCHANGED <<attached, cc>>
     ELSE attached' \in BOOLEAN /\ cc' = "fallback"
  /\ IF attached' THEN modules' \in SUBSET Module ELSE UNCHANGED modules
  /\ UNCHANGED <<accelerating, draining, armed, rto, dscp, redundancy, copying, start,
                 qdisc, flows, seen>>

(* Drain, to each place it can end at.                                     *)
DrainNotWritten ==
  /\ armed' = FALSE
  /\ UNCHANGED <<attached, accelerating, draining, features, copying, start, host>>

DrainPolicyFails ==
  /\ policy # "absent"
  /\ armed' = FALSE /\ cc' = "fallback"
  /\ UNCHANGED <<attached, accelerating, draining, features, copying, start, qdisc, flows, seen>>

DrainStillCopying ==
  /\ tc = "loaded"
  /\ armed' = FALSE /\ cc' = "fallback" /\ accelerating' = FALSE
  /\ UNCHANGED <<attached, draining, features, copying, start, qdisc, flows, seen>>

DrainStillAttached ==
  /\ attached
  /\ armed' = FALSE /\ cc' = "fallback" /\ accelerating' = FALSE /\ draining' = TRUE
  /\ ApplyRedundancy(FALSE, TRUE)
  /\ UNCHANGED <<attached, features, start, qdisc, flows, seen>>

DrainDone ==
  /\ flows = 0
  /\ attached' = FALSE /\ armed' = FALSE /\ cc' = "fallback"
  /\ accelerating' = FALSE /\ draining' = FALSE
  /\ ApplyRedundancy(FALSE, TRUE)
  /\ UNCHANGED <<features, start, qdisc, flows, seen>>

DisableModule(module) ==
  /\ modules' = modules \ {module}
  /\ UNCHANGED <<daemon, rto, dscp, redundancy, copying, start, host>>

SetRackRto(on) ==
  /\ policy # "absent" /\ rto' = on
  /\ UNCHANGED <<daemon, modules, dscp, redundancy, copying, start, host>>

SetRetransmitDscp(on) ==
  /\ on => tc = "loaded"
  /\ dscp' = on
  /\ UNCHANGED <<daemon, modules, rto, redundancy, copying, start, host>>

SetRedundancy(on) ==
  /\ ApplyRedundancy(on /\ accelerating, TRUE) /\ redundancy' = on
  /\ UNCHANGED <<daemon, modules, rto, dscp, start, host>>

(* periodic_pass                                                           *)
GuardPass ==
  /\ armed
  /\ cc' = "skyline_cc"
  /\ Enforced
  /\ UNCHANGED <<daemon, features, copying, start, flows, seen>>

(* Other programs; the kernel takes skyline_cc only while it is registered.*)
Others ==
  /\ \/ /\ cc' \in {"fallback", "bbr"} \cup (IF attached THEN {"skyline_cc"} ELSE {})
        /\ cc' # cc /\ UNCHANGED qdisc
     \/ qdisc' \in Qdiscs /\ UNCHANGED cc
  /\ UNCHANGED <<daemon, features, copying, start, flows, seen>>

Connections ==
  /\ \/ /\ CarryingTraffic /\ flows < FlowsMax /\ flows' = flows + 1
        /\ seen' \in {seen, seen \/ policy = "linked"}
     \/ flows > 0 /\ flows' = flows - 1 /\ UNCHANGED seen
  /\ UNCHANGED <<daemon, features, copying, start, cc, qdisc>>

Next == \/ Enable \/ EnableNotDefault
        \/ DrainNotWritten \/ DrainPolicyFails \/ DrainStillCopying
        \/ DrainStillAttached \/ DrainDone
        \/ \E module \in Module : DisableModule(module)
        \/ \E on \in BOOLEAN : SetRackRto(on) \/ SetRetransmitDscp(on) \/ SetRedundancy(on)
        \/ GuardPass \/ Others \/ Connections

Spec == Init /\ [][Next]_vars

-----------------------------------------------------------------------------
(* status, flows and the other commands never tell different stories of    *)
(* one reply: a drain is a drain in both reports, a bypass in both, and a  *)
(* host is called accelerating only where new connections use skyline_cc.  *)
ReportsAgree ==
  /\ StatusVerdict = "ACCELERATING" <=> FlowsVerdict \in {"IDLE", "ACCELERATING"}
  /\ StatusVerdict = "DRAINING" <=> FlowsVerdict = "DRAINING"
  /\ StatusVerdict = "ATTACHED, NOT DEFAULT" <=> FlowsVerdict = "BYPASSED"
  /\ StatusVerdict = "STANDBY" <=> FlowsVerdict = "NOT ACCELERATING"
  /\ StatusVerdict = "ACCELERATING" <=> ActionState = "accelerating"

(* A drain that timed out is never shown as a fault, and once another      *)
(* program has made skyline_cc the default again it is never shown as a    *)
(* drain: that host is accelerated, with no guard.                         *)
DrainIsNeitherMore ==
  /\ StatusVerdict = "DRAINING" => Attention \subseteq {"rto sees nothing"} \cup DeclaredButOff \cup Notes
  /\ draining /\ cc = "skyline_cc" => "not armed" \in Attention

(* A report without ATTENTION is a host that is taken over and guarded,    *)
(* with every program loaded and every feature of the file in force; or    *)
(* one the operator is draining.                                           *)
QuietIsTakenOver ==
  Attention = {} =>
    /\ (CarryingTraffic /\ armed) \/ StatusVerdict = "DRAINING"
    /\ tc # "failed" /\ policy = "linked"
    /\ declared => rto /\ dscp

(* What is ticked has a program to act: marking and copies the TC program, *)
(* dynamic RTO the policy object, modules and copies an attached           *)
(* skyline_cc.  A program that went missing at the start stays missing.    *)
TicksCanAct ==
  /\ DscpRow = "Good" => tc = "loaded"
  /\ RtoRow = "Good" => policy # "absent"
  /\ CopiesRow.mark = "Good" => tc = "loaded" /\ StatusVerdict # "STANDBY"
  /\ (\E module \in Module : Ticked(module)) => StatusVerdict # "STANDBY"

(* First-flight copies are ticked exactly while the TC program makes them, *)
(* and copies that should run and do not are warned of, a drain aside.     *)
CopiesRowTrue ==
  /\ CopiesRow.mark = "Good" <=> copying
  /\ redundancy /\ attached /\ ~copying /\ ~IsDraining => CopiesRow.mark = "Warn"
  /\ CopiesRow.say = "stopped by the drain" => draining /\ ~accelerating

(* What a row of TAKEOVER or DRIFT GUARD alarms of is told under ATTENTION *)
(* too, and the other way round: a default lost to others, with the guard  *)
(* that is about to win it back, and a guard that is not armed.            *)
AlarmsExplained ==
  /\ DefaultCcRow = "Bad" <=> "bypassed" \in Attention
  /\ GuardCcRow = "Bad" => "bypassed" \in Attention
  /\ attached => (ArmedRow = "Warn" <=> "not armed" \in Attention)

(* What the pages say of the host is true: they agree with each other, the *)
(* report without ATTENTION is the good one, a drain is shown as a drain,  *)
(* and a row is ticked only where something stands behind the tick.        *)
PagesTrue == /\ ReportsAgree /\ DrainIsNeitherMore /\ QuietIsTakenOver
             /\ TicksCanAct /\ CopiesRowTrue /\ AlarmsExplained

(* The row of a root qdisc is ticked only where the guard's own test       *)
(* (guard.rs, verdict) finds every queue on fq.                            *)
TickedQdiscIsFq == QdiscRow = "Good" => qdisc \in {"fq", "mq/fq"}

=============================================================================
