---------------------------- MODULE SpeederDaemon ----------------------------
(***************************************************************************)
(* The life of skyline_cc on a host: skyline-speederd's request thread     *)
(* (one request at a time: Enable, Drain, SetRedundancy, Shutdown), its    *)
(* guard thread, the kernel state they write (the default congestion       *)
(* control, the struct_ops registration, the cgroup policy switch, the TC  *)
(* copy switch), the sockets the kernel puts on skyline_cc, and whatever   *)
(* else on the host writes the same sysctl.  Every write to the kernel is  *)
(* a step of its own and may fail; the daemon may be killed at any step.   *)
(***************************************************************************)
EXTENDS Integers, FiniteSets

CONSTANTS Skyline,      \* "skyline_cc"
          Fallback,     \* config.fallback_cc
          Others,       \* what other programs write to the sysctl
          Socks,        \* TCP connections
          CountReadable \* the flow_count lookup of active_flows never fails

\* fallback_cc = "skyline_cc" is refused by SkylineConfig::validate, and only
\* skyline-speederd writes skyline_cc to the sysctl.
ASSUME SpeederAssumption ==
  /\ Skyline # Fallback
  /\ Skyline \notin Others
  /\ IsFiniteSet(Socks)
  /\ CountReadable \in BOOLEAN

VARIABLES
  cc,           \* kernel: net.ipv4.tcp_congestion_control
  registered,   \* kernel: who registered skyline_cc: none, ours or leftover
  policy,       \* kernel: skyline_policy: absent, off or on (policy_enabled)
  copying,      \* kernel: the TC filter on the NIC makes first-flight copies
  sock,         \* kernel: per socket, its way onto our skyline_cc
  flows,        \* kernel: the flow_count map
  pc,           \* where the request thread is
  answer,       \* whether the last request succeeded: ok or error
  runtime,      \* Daemon::runtime is Some
  tcLoaded,     \* Daemon::tc holds a loaded object
  accelerating, \* Daemon::accelerating
  draining,     \* Daemon::draining
  redundancy,   \* config.redundancy.enabled
  armed,        \* GuardState::armed
  lock,         \* holder of the GuardState mutex: free, main or worker
  gpc,          \* the guard thread: off, sleep, wake, read, write or qdisc
  late          \* history: sockets counted since the last active_flows()

hostVars == <<cc, registered, policy, copying>>
sockVars == <<sock, flows, late>>
daemonVars == <<runtime, tcLoaded, accelerating, draining, redundancy>>
guardVars == <<armed, lock, gpc>>
reqVars == <<pc, answer>>
vars == <<hostVars, sockVars, daemonVars, guardVars, reqVars>>

Init ==
  /\ cc \in Others \union {Fallback}
  /\ registered = "none"
  /\ policy = "absent"
  /\ copying = FALSE
  /\ sock = [s \in Socks |-> "off"]
  /\ flows = 0
  /\ pc = "down"
  /\ answer = "ok"
  /\ runtime = FALSE
  /\ tcLoaded = FALSE
  /\ accelerating = FALSE
  /\ draining = FALSE
  /\ redundancy = FALSE
  /\ armed = FALSE
  /\ lock = "free"
  /\ gpc = "off"
  /\ late = {}

At(p) == pc = p
Goto(p) == pc' = p /\ UNCHANGED answer
Answer(a) == pc' = "idle" /\ answer' = a

\* Our struct_ops object is gone: its sockets and its flow_count with it.
ForgetSockets ==
  /\ sock' = [s \in Socks |-> "off"]
  /\ flows' = 0
  /\ late' = {}
-----------------------------------------------------------------------------
(***************************************************************************)
(* Start, stop and crash.                                                  *)
(***************************************************************************)
StartKeepsCopying ==                \* slip: no zero-initialisation of the maps
  /\ At("down")
  /\ policy' \in {"absent", "off"}
  /\ tcLoaded' \in BOOLEAN
  /\ redundancy' \in BOOLEAN
  /\ gpc' \in {"sleep", "off"}
  /\ Answer("ok")
  /\ UNCHANGED <<cc, registered, copying, sockVars, runtime, accelerating,
                 draining, armed, lock>>

\* Daemon::new and serve(): the policy and TC objects load or do not, each
\* switched off; a fresh TC filter replaces one a killed daemon left behind.
Start ==
  /\ At("down")
  /\ policy' \in {"absent", "off"}
  /\ \/ tcLoaded' = TRUE /\ copying' = FALSE
     \/ tcLoaded' = FALSE /\ UNCHANGED copying
  /\ redundancy' \in BOOLEAN
  /\ gpc' \in {"sleep", "off"}      \* "off": [guard] interval_s = 0
  /\ Answer("ok")
  /\ UNCHANGED <<cc, registered, sockVars, runtime, accelerating, draining,
                 armed, lock>>

\* SIGTERM's or a client's Shutdown leaves the accept loop; Daemon's Drop
\* starts by telling the guard thread to stop.
Shutdown ==
  /\ At("idle")
  /\ Goto("stop_join")
  /\ UNCHANGED <<hostVars, sockVars, daemonVars, guardVars>>

StopWithoutJoin ==                  \* slip: the guard thread is not joined
  /\ At("stop_join")
  /\ Goto("stop_runtime")
  /\ UNCHANGED <<hostVars, sockVars, daemonVars, guardVars>>

\* Guard::stop: join the guard thread, which ends a pass it is in first.
StopGuard ==
  /\ At("stop_join")
  /\ gpc \in {"sleep", "off"}
  /\ gpc' = "off"
  /\ Goto("stop_runtime")
  /\ UNCHANGED <<hostVars, sockVars, daemonVars, armed, lock>>

\* Dropping a BpfRuntime: unregister, ignoring a failure.
DropRuntime ==
  /\ registered' \in {"none", "leftover"}
  /\ runtime' = FALSE
  /\ ForgetSockets

StopRuntime ==
  /\ At("stop_runtime")
  /\ IF runtime THEN DropRuntime ELSE UNCHANGED <<registered, runtime, sockVars>>
  /\ Goto("stop_links")
  /\ UNCHANGED <<cc, policy, copying, tcLoaded, accelerating, draining,
                 redundancy, guardVars>>

\* Process memory is gone; a policy link goes with its file descriptor.
Vanish ==
  /\ pc' = "down"
  /\ answer' = "ok"
  /\ policy' = "absent"
  /\ runtime' = FALSE
  /\ tcLoaded' = FALSE
  /\ accelerating' = FALSE
  /\ draining' = FALSE
  /\ redundancy' = FALSE
  /\ armed' = FALSE
  /\ lock' = "free"
  /\ gpc' = "off"

\* TcRuntime and PolicyRuntime drop.  No sysctl is written on stop.
StopLinks ==
  /\ At("stop_links")
  /\ copying' = (copying /\ ~tcLoaded)
  /\ Vanish
  /\ UNCHANGED <<cc, registered, sockVars>>

\* SIGKILL: no Drop runs, so a registration of ours stays behind, and so does
\* the TC filter.
Crash ==
  /\ ~At("down")
  /\ registered' = IF registered = "ours" THEN "leftover" ELSE registered
  /\ ForgetSockets
  /\ Vanish
  /\ UNCHANGED <<cc, copying>>
-----------------------------------------------------------------------------
(***************************************************************************)
(* Request::Enable.                                                        *)
(***************************************************************************)
\* publish_or_attach: update_config on a runtime, BpfRuntime::load without.
Enable ==
  /\ At("idle")
  /\ Goto(IF runtime THEN "en_publish" ELSE "en_fallback")
  /\ UNCHANGED <<hostVars, sockVars, daemonVars, guardVars>>

EnPublish ==
  /\ At("en_publish")
  /\ Goto("en_policy") \/ Answer("error")
  /\ UNCHANGED <<hostVars, sockVars, daemonVars, guardVars>>

\* load: fallback_cc becomes the default before anything is attached.
EnFallback ==
  /\ At("en_fallback")
  /\ \/ cc' = Fallback /\ Goto("en_attach")
     \/ UNCHANGED cc /\ Answer("error")
  /\ UNCHANGED <<registered, policy, copying, sockVars, daemonVars, guardVars>>

\* load: the object loads, number 1 is published, the struct_ops attaches --
\* which the kernel refuses while another skyline_cc is registered.
EnAttach ==
  /\ At("en_attach")
  /\ \/ registered = "none" /\ registered' = "ours" /\ Goto("en_threads")
     \/ UNCHANGED registered /\ Answer("error")
  /\ UNCHANGED <<cc, policy, copying, sockVars, daemonVars, guardVars>>

\* load: the event reader and the sampler start, or the runtime is dropped.
EnThreads ==
  /\ At("en_threads")
  /\ \/ runtime' = TRUE /\ Goto("en_policy") /\ UNCHANGED <<registered, sockVars>>
     \/ DropRuntime /\ Answer("error")
  /\ UNCHANGED <<cc, policy, copying, tcLoaded, accelerating, draining,
                 redundancy, guardVars>>

\* set_policy_enabled(true): a failure is a note in the answer.
EnPolicy ==
  /\ At("en_policy")
  /\ \/ policy # "absent" /\ policy' = "on"
     \/ UNCHANGED policy
  /\ Goto("en_default")
  /\ UNCHANGED <<cc, registered, copying, sockVars, daemonVars, guardVars>>

\* The kernel refuses a name that is not registered.
WriteSkyline == registered # "none" /\ cc' = Skyline

EnDefault ==
  /\ At("en_default")
  /\ \/ WriteSkyline /\ Goto("en_arm")
     \/ UNCHANGED cc /\ Answer("error")
  /\ UNCHANGED <<registered, policy, copying, sockVars, daemonVars, guardVars>>

\* arm_and_enforce, up to the pass: take the lock, arm.
EnArm ==
  /\ At("en_arm")
  /\ lock = "free"
  /\ lock' = "main"
  /\ armed' = TRUE
  /\ Goto("en_read")
  /\ UNCHANGED <<hostVars, sockVars, daemonVars, gpc>>

\* enforce_congestion_control reads the sysctl; "qdisc" also when it cannot.
EnRead ==
  /\ At("en_read")
  /\ Goto("en_qdisc") \/ (cc # Skyline /\ Goto("en_write"))
  /\ UNCHANGED <<hostVars, sockVars, daemonVars, guardVars>>

EnWrite ==
  /\ At("en_write")
  /\ WriteSkyline \/ UNCHANGED cc
  /\ Goto("en_qdisc")
  /\ UNCHANGED <<registered, policy, copying, sockVars, daemonVars, guardVars>>

EnKeepsDraining ==                  \* slip: draining is not cleared
  /\ At("en_qdisc")
  /\ lock' = "free"
  /\ accelerating' = TRUE
  /\ Goto("en_redundancy")
  /\ UNCHANGED <<hostVars, sockVars, runtime, tcLoaded, draining, redundancy,
                 armed, gpc>>

\* The qdisc half of the pass ends, the lock goes, the flags follow.
EnEnforced ==
  /\ At("en_qdisc")
  /\ lock' = "free"
  /\ accelerating' = TRUE
  /\ draining' = FALSE
  /\ Goto("en_redundancy")
  /\ UNCHANGED <<hostVars, sockVars, runtime, tcLoaded, redundancy, armed, gpc>>

\* apply_redundancy for a configuration and an accelerating flag.
Applied(enabled, active) ==
  \/ tcLoaded /\ copying' = (enabled /\ active)
  \/ ~tcLoaded /\ ~(enabled /\ active) /\ UNCHANGED copying

NotApplied(enabled, active) ==
  /\ tcLoaded \/ (enabled /\ active)
  /\ UNCHANGED copying

\* A failure here is a note in the answer too.
EnRedundancy ==
  /\ At("en_redundancy")
  /\ Applied(redundancy, accelerating) \/ NotApplied(redundancy, accelerating)
  /\ Answer("ok")
  /\ UNCHANGED <<cc, registered, policy, sockVars, daemonVars, guardVars>>
-----------------------------------------------------------------------------
(***************************************************************************)
(* Request::Drain.                                                         *)
(***************************************************************************)
Drain ==
  /\ At("idle")
  /\ Goto("dr_disarm")
  /\ UNCHANGED <<hostVars, sockVars, daemonVars, guardVars>>

DrDisarmUnlocked ==                 \* slip: disarmed without waiting for a pass
  /\ At("dr_disarm")
  /\ armed' = FALSE
  /\ Goto("dr_fallback")
  /\ UNCHANGED <<hostVars, sockVars, daemonVars, lock, gpc>>

\* disarm_and: take the lock, disarm ...
DrDisarm ==
  /\ At("dr_disarm")
  /\ lock = "free"
  /\ lock' = "main"
  /\ armed' = FALSE
  /\ Goto("dr_fallback")
  /\ UNCHANGED <<hostVars, sockVars, daemonVars, gpc>>

DrFallbackLocked ==                 \* slip: a failed write keeps the lock
  /\ At("dr_fallback")
  /\ \/ cc' = Fallback /\ lock' = "free" /\ Goto("dr_policy")
     \/ UNCHANGED <<cc, lock>> /\ Answer("error")
  /\ UNCHANGED <<registered, policy, copying, sockVars, daemonVars, armed, gpc>>

\* ... and write fallback_cc with the lock still held.
DrFallback ==
  /\ At("dr_fallback")
  /\ \/ cc' = Fallback /\ Goto("dr_policy")
     \/ UNCHANGED cc /\ Answer("error")
  /\ lock' = "free"
  /\ UNCHANGED <<registered, policy, copying, sockVars, daemonVars, armed, gpc>>

\* set_policy_enabled(false): switching off what was never loaded is done.
DrPolicy ==
  /\ At("dr_policy")
  /\ \/ policy = "absent" /\ UNCHANGED policy /\ Goto("dr_redundancy")
     \/ policy # "absent" /\ policy' = "off" /\ Goto("dr_redundancy")
     \/ policy # "absent" /\ UNCHANGED policy /\ Answer("error")
  /\ UNCHANGED <<cc, registered, copying, sockVars, daemonVars, guardVars>>

DrRedundancy ==
  /\ At("dr_redundancy")
  /\ accelerating' = FALSE
  /\ \/ Applied(redundancy, FALSE) /\ draining' = TRUE /\ Goto("dr_wait")
     \/ NotApplied(redundancy, FALSE) /\ UNCHANGED draining /\ Answer("error")
  /\ UNCHANGED <<cc, registered, policy, sockVars, runtime, tcLoaded,
                 redundancy, guardVars>>

\* active_flows(): 0 without a runtime, and 0 when the map cannot be read.
ActiveFlows ==
  IF ~runtime THEN {0} ELSE IF CountReadable THEN {flows} ELSE {flows, 0}

\* The polling loop ends on a count of 0 or at the deadline.
DrWait ==
  /\ At("dr_wait")
  /\ Goto("dr_check")
  /\ UNCHANGED <<hostVars, sockVars, daemonVars, guardVars>>

DrNoRecheck ==                      \* slip: the deadline counts as drained
  /\ At("dr_check")
  /\ Goto("dr_unregister")
  /\ late' = {}
  /\ UNCHANGED <<hostVars, sock, flows, daemonVars, guardVars>>

\* The count is read once more; the deadline may have ended the loop.
DrCheck ==
  /\ At("dr_check")
  /\ \E n \in ActiveFlows :
       IF n > 0 THEN Answer("error") ELSE Goto("dr_unregister")
  /\ late' = {}
  /\ UNCHANGED <<hostVars, sock, flows, daemonVars, guardVars>>

\* unregister_struct_ops, then the runtime is dropped.
DrUnregister ==
  /\ At("dr_unregister")
  /\ \/ /\ runtime
        /\ registered' = "none"
        /\ ForgetSockets
        /\ runtime' = FALSE
        /\ draining' = FALSE
        /\ Answer("ok")
     \/ /\ runtime
        /\ Answer("error")
        /\ UNCHANGED <<registered, runtime, draining, sockVars>>
     \/ /\ ~runtime
        /\ draining' = FALSE
        /\ Answer("ok")
        /\ UNCHANGED <<registered, runtime, sockVars>>
  /\ UNCHANGED <<cc, policy, copying, tcLoaded, accelerating, redundancy,
                 guardVars>>
-----------------------------------------------------------------------------
\* Request::SetRedundancy and ResetRedundancy: one map write, and the old
\* configuration again when it fails or validate refuses the new one.
SetRedundancy(enabled) ==
  /\ At("idle")
  /\ \/ Applied(enabled, accelerating) /\ redundancy' = enabled /\ Answer("ok")
     \/ UNCHANGED <<copying, redundancy>> /\ Answer("error")
  /\ UNCHANGED <<cc, registered, policy, sockVars, runtime, tcLoaded,
                 accelerating, draining, guardVars>>
-----------------------------------------------------------------------------
(***************************************************************************)
(* The guard thread: periodic_pass every interval_s.                       *)
(***************************************************************************)
GuardGoto(g) ==
  /\ gpc' = g
  /\ UNCHANGED <<armed, sockVars, daemonVars, reqVars>>

\* recv_timeout times out; once stop has dropped the sender it no longer does.
GuardWake ==
  /\ gpc = "sleep"
  /\ ~At("stop_join")
  /\ GuardGoto("wake")
  /\ UNCHANGED <<hostVars, lock>>

GuardLock ==
  /\ gpc = "wake"
  /\ lock = "free"
  /\ \/ armed /\ lock' = "worker" /\ GuardGoto("read")
     \/ ~armed /\ UNCHANGED lock /\ GuardGoto("sleep")
  /\ UNCHANGED hostVars

GuardReadsUnlocks ==                \* slip: the lock is released before the write
  /\ gpc = "read"
  /\ lock' = IF cc = Skyline THEN lock ELSE "free"
  /\ GuardGoto(IF cc = Skyline THEN "qdisc" ELSE "write")
  /\ UNCHANGED hostVars

\* enforce_congestion_control: the default is right, or wrong, or unreadable.
GuardReads ==
  /\ gpc = "read"
  /\ GuardGoto(IF cc = Skyline THEN "qdisc" ELSE "write")
  /\ UNCHANGED <<hostVars, lock>>

GuardReadFails ==
  /\ gpc = "read"
  /\ GuardGoto("qdisc")
  /\ UNCHANGED <<hostVars, lock>>

GuardWrites ==
  /\ gpc = "write"
  /\ WriteSkyline
  /\ GuardGoto("qdisc")
  /\ UNCHANGED <<registered, policy, copying, lock>>

GuardWriteFails ==
  /\ gpc = "write"
  /\ GuardGoto("qdisc")
  /\ UNCHANGED <<hostVars, lock>>

GuardEndsLocked ==                  \* slip: the lock is not released
  /\ gpc = "qdisc"
  /\ GuardGoto("sleep")
  /\ UNCHANGED <<hostVars, lock>>

\* The qdisc half of the pass, and the lock goes.
GuardEnds ==
  /\ gpc = "qdisc"
  /\ lock' = "free"
  /\ GuardGoto("sleep")
  /\ UNCHANGED hostVars
-----------------------------------------------------------------------------
(***************************************************************************)
(* Sockets: off our skyline_cc, assigned it as the default at creation,    *)
(* chosen by the policy program, counted by skyline_init, or on it but     *)
(* uncounted because their storage could not be allocated.                 *)
(***************************************************************************)
SockGoto(s, state) ==
  /\ sock' = [sock EXCEPT ![s] = state]
  /\ UNCHANGED <<hostVars, daemonVars, guardVars, reqVars>>

\* A new socket gets the default congestion control.
Create(s) ==
  /\ sock[s] = "off"
  /\ cc = Skyline
  /\ registered = "ours"
  /\ SockGoto(s, "assigned")
  /\ UNCHANGED <<flows, late>>

\* skyline_select_congestion_control reads policy_enabled ...
PolicyReads(s) ==
  /\ sock[s] = "off"
  /\ policy = "on"
  /\ SockGoto(s, "chosen")
  /\ UNCHANGED <<flows, late>>

\* skyline_init: counted once, if the flow state can be allocated.
Joins(s) ==
  \/ /\ SockGoto(s, "counted")
     /\ flows' = flows + 1
     /\ late' = late \union {s}
  \/ SockGoto(s, "uncounted") /\ UNCHANGED <<flows, late>>

\* ... and then sets the socket's congestion control, if it is registered.
PolicySwitches(s) ==
  /\ sock[s] = "chosen"
  /\ \/ registered = "ours" /\ Joins(s)
     \/ registered # "ours" /\ SockGoto(s, "off") /\ UNCHANGED <<flows, late>>

\* The handshake completes and skyline_init runs, or the attempt is dropped.
Establish(s) == sock[s] = "assigned" /\ Joins(s)

Abandon(s) ==
  /\ sock[s] = "assigned"
  /\ SockGoto(s, "off")
  /\ UNCHANGED <<flows, late>>

ReleaseUnconditional(s) ==          \* slip: flow->counted is not looked at
  /\ sock[s] \in {"counted", "uncounted"}
  /\ flows' = flows - 1
  /\ late' = late \ {s}
  /\ SockGoto(s, "off")

\* skyline_release: only what was counted is taken off the count.
Release(s) ==
  /\ sock[s] \in {"counted", "uncounted"}
  /\ flows' = IF sock[s] = "counted" THEN flows - 1 ELSE flows
  /\ late' = late \ {s}
  /\ SockGoto(s, "off")

\* "One-click" scripts, sysctl --system, infra/boot-disable.sh's last resort.
ExternalWrite ==
  /\ cc' \in Others \union {Fallback}
  /\ UNCHANGED <<registered, policy, copying, sockVars, daemonVars, guardVars,
                 reqVars>>
-----------------------------------------------------------------------------
EnableStep ==
  \/ EnPublish \/ EnFallback \/ EnAttach \/ EnThreads \/ EnPolicy \/ EnDefault
  \/ EnArm \/ EnRead \/ EnWrite \/ EnEnforced \/ EnRedundancy

DrainStep ==
  \/ DrDisarm \/ DrFallback \/ DrPolicy \/ DrRedundancy \/ DrWait \/ DrCheck
  \/ DrUnregister

StopStep == StopGuard \/ StopRuntime \/ StopLinks

Request == Enable \/ Drain \/ Shutdown \/ \E b \in BOOLEAN : SetRedundancy(b)

GuardStep ==
  \/ GuardWake \/ GuardLock \/ GuardReads \/ GuardReadFails \/ GuardWrites
  \/ GuardWriteFails \/ GuardEnds

SockStep(s) ==
  \/ Create(s) \/ PolicyReads(s) \/ PolicySwitches(s) \/ Establish(s)
  \/ Abandon(s) \/ Release(s)

Next ==
  \/ Start \/ Crash \/ Request \/ EnableStep \/ DrainStep \/ StopStep
  \/ GuardStep \/ ExternalWrite
  \/ \E s \in Socks : SockStep(s)

Spec == Init /\ [][Next]_vars

\* The threads run; neither waits for the mutex for ever while it keeps being
\* released; and the kernel does not refuse the guard's sysctl accesses for
\* ever.  No request, socket, external write or crash is owed.
Fairness ==
  /\ WF_vars(EnableStep \/ DrainStep \/ StopStep)
  /\ WF_vars(GuardStep)
  /\ SF_vars(EnArm) /\ SF_vars(DrDisarm)
  /\ SF_vars(GuardLock) /\ SF_vars(GuardReads) /\ SF_vars(GuardWrites)

FairSpec == Spec /\ Fairness
-----------------------------------------------------------------------------
Pcs == {"down", "idle", "stop_join", "stop_runtime", "stop_links",
        "en_publish", "en_fallback", "en_attach", "en_threads", "en_policy",
        "en_default", "en_arm", "en_read", "en_write", "en_qdisc",
        "en_redundancy", "dr_disarm", "dr_fallback", "dr_policy",
        "dr_redundancy", "dr_wait", "dr_check", "dr_unregister"}

\* Every variable keeps its type; in particular the 64-bit flow_count is never
\* taken below zero.
TypeOK ==
  /\ cc \in Others \union {Fallback, Skyline}
  /\ registered \in {"none", "ours", "leftover"}
  /\ policy \in {"absent", "off", "on"}
  /\ copying \in BOOLEAN
  /\ sock \in [Socks -> {"off", "assigned", "chosen", "counted", "uncounted"}]
  /\ flows \in Nat
  /\ pc \in Pcs
  /\ answer \in {"ok", "error"}
  /\ runtime \in BOOLEAN
  /\ tcLoaded \in BOOLEAN
  /\ accelerating \in BOOLEAN
  /\ draining \in BOOLEAN
  /\ redundancy \in BOOLEAN
  /\ armed \in BOOLEAN
  /\ lock \in {"free", "main", "worker"}
  /\ gpc \in {"off", "sleep", "wake", "read", "write", "qdisc"}
  /\ late \in SUBSET Socks

DrainClosed == {"dr_wait", "dr_check", "dr_unregister"}

\* Drain waits and unregisters with both ways onto skyline_cc closed: the
\* default names something else, the cgroup policy is off, and the guard is
\* disarmed, whatever pass it was in when the drain began and whoever else
\* writes the sysctl (Request::Drain, disarm_and).
DispatchClosed ==
  pc \in DrainClosed => cc # Skyline /\ policy # "on" /\ ~armed

\* "A pass can never put skyline_cc back after that write": the default turns
\* to skyline_cc only while the guard is armed or in an Enable that has just
\* attached or published (guard.rs, disarm_and).
NoRestoreAfterDisarm ==
  [][cc # Skyline /\ cc' = Skyline => armed \/ At("en_default")]_vars

\* "An armed pass after it would try to write a skyline_cc the kernel no longer
\* knows": a pass, the guard's or Enable's, never runs once skyline_cc has been
\* unregistered or before it is (Daemon's Drop, arm_and_enforce).
PassHasItsAlgorithm ==
  gpc \in {"read", "write"} \/ pc \in {"en_read", "en_write"}
    => registered = "ours" /\ runtime

\* "The struct_ops unregister below never runs while the namespace default still
\* names it": neither a drain nor a load that is rolled back unregisters the
\* algorithm new sockets are being given; only a stop does.
UnregisterNotDefault ==
  [][registered = "ours" /\ registered' # "ours" /\ cc = Skyline
       => At("stop_runtime") \/ pc' = "down"]_vars

\* What a drain that timed out leaves behind is what draining reports: a
\* registered skyline_cc that is not the default, the guard disarmed and no
\* first-flight copies (RuntimeStatus::draining).
DrainingIsDrained ==
  At("idle") /\ draining =>
    /\ cc # Skyline
    /\ ~armed
    /\ tcLoaded => ~copying

\* "Nothing is copied until an Enable says skyline_cc is live, whatever a
\* previous incarnation left behind": while this daemon has the TC program,
\* copies are made only with skyline_cc attached, also after failed writes and
\* after a daemon that was killed while copying (TcRuntime::load, Drain).
CopiesOnlyWithRuntime ==
  tcLoaded /\ copying /\ ~At("stop_links") => runtime /\ registered = "ours"

\* flow_count is the number of sockets skyline_init counted and skyline_release
\* has not seen, over every order of policy switches, handshakes, releases and
\* storage failures (skyline_init, skyline_release).
FlowCountExact ==
  flows = Cardinality({s \in Socks : sock[s] = "counted"})

\* "Once it has confirmed there are no active connections it unregisters the
\* struct_ops": the only connections a drain can unregister under are those
\* whose handshake or policy switch completed after the count was read.
DrainSparesCounted ==
  [][At("dr_unregister") /\ runtime /\ ~runtime' /\ pc' = "idle"
       => \A s \in Socks : sock[s] = "counted" => s \in late]_vars

\* Every request is answered: neither thread waits for ever for the guard's
\* mutex, a drain's wait ends, and a stop's join of the guard thread returns.
RequestsAnswered == pc \notin {"idle", "down"} ~> pc \in {"idle", "down"}

\* While the guard runs and is armed, a default someone else changed comes back.
GuardRestores ==
  armed /\ cc # Skyline /\ gpc # "off" ~> cc = Skyline \/ ~armed \/ gpc = "off"
=============================================================================
