------------------------- MODULE SpeederDaemonProofs -------------------------
(***************************************************************************)
(* SpeederDaemon for every set of sockets and of foreign congestion        *)
(* controls: its safety invariants and action properties.                  *)
(*                                                                         *)
(* The argument: the mutex is held exactly in the critical sections        *)
(* (LockInv), so armed cannot change under a pass; the guard is armed only *)
(* with a runtime, and a runtime is a registration of ours (RuntimeInv);   *)
(* hence between a drain's fallback_cc write and its unregister nobody can *)
(* write skyline_cc (ClosedInv).                                           *)
(***************************************************************************)
EXTENDS SpeederDaemon, FiniteSetTheorems, TLAPS

\* Who holds the mutex, and what holding it means for armed.
LockInv ==
  /\ lock = "main" <=> pc \in {"en_read", "en_write", "en_qdisc", "dr_fallback"}
  /\ lock = "worker" <=> gpc \in {"read", "write", "qdisc"}
  /\ gpc \in {"read", "write", "qdisc"} => armed
  /\ pc \in {"en_read", "en_write", "en_qdisc"} => armed
  /\ pc \in {"stop_runtime", "stop_links", "down"} => gpc = "off"
  /\ pc = "down" => ~armed

\* Which steps have a runtime, and that a runtime is our registration.
RuntimeInv ==
  /\ armed /\ pc \notin {"stop_links", "down"} => runtime
  /\ runtime => registered = "ours"
  /\ registered = "ours" => runtime \/ pc = "en_threads"
  /\ pc \in {"en_fallback", "en_attach", "en_threads", "stop_links", "down"}
       => ~runtime
  /\ pc = "en_threads" => registered = "ours"
  /\ pc \in {"en_publish", "en_policy", "en_default", "en_arm", "en_read",
             "en_write", "en_qdisc", "en_redundancy"} => runtime

\* From the fallback_cc write on, nothing leads to skyline_cc.
ClosedInv ==
  /\ pc \in {"en_attach", "en_threads", "dr_policy", "dr_redundancy"}
            \union DrainClosed => cc # Skyline
  /\ pc \in {"dr_fallback", "dr_policy", "dr_redundancy"} \union DrainClosed
       => ~armed
  /\ pc \in {"dr_redundancy"} \union DrainClosed => policy # "on"

\* What the flags say about the default, the guard and the copies.
FlagInv ==
  /\ pc \in DrainClosed => draining
  /\ draining /\ pc \notin {"en_arm", "en_read", "en_write", "en_qdisc"}
       => cc # Skyline /\ ~armed /\ ~accelerating /\ (tcLoaded => ~copying)
  /\ accelerating /\ pc # "stop_links" => runtime
  /\ tcLoaded /\ copying /\ pc # "stop_links" => runtime
  /\ pc = "down" => ~tcLoaded /\ ~accelerating /\ ~draining

\* flow_count counts, and at a drain's unregister every counted socket came
\* after the count was read.
Counted == {s \in Socks : sock[s] = "counted"}
CountInv ==
  /\ flows = Cardinality(Counted)
  /\ pc = "dr_unregister" /\ CountReadable /\ runtime => Counted \subseteq late

IndInv == TypeOK /\ LockInv /\ RuntimeInv /\ ClosedInv /\ FlagInv
-----------------------------------------------------------------------------
\* What one socket joining or leaving does to the count.
LEMMA CountedFinite == IsFiniteSet(Counted)
BY SpeederAssumption, FS_Subset DEF Counted

LEMMA CountJoins ==
  ASSUME TypeOK, CountInv, NEW s \in Socks, sock[s] # "counted",
         sock' = [sock EXCEPT ![s] = "counted"]
  PROVE  Cardinality(Counted') = flows + 1
<1>1. Counted' = Counted \union {s} /\ s \notin Counted
  BY DEF TypeOK, Counted
<1> QED
  BY <1>1, CountedFinite, FS_AddElement, ZenonT(30) DEF CountInv

LEMMA CountLeaves ==
  ASSUME TypeOK, CountInv, NEW s \in Socks, sock[s] = "counted",
         sock' = [sock EXCEPT ![s] = "off"]
  PROVE  Cardinality(Counted') = flows - 1
<1>1. Counted' = Counted \ {s} /\ s \in Counted
  BY DEF TypeOK, Counted
<1> QED
  BY <1>1, CountedFinite, FS_RemoveElement DEF CountInv

LEMMA CountSame ==
  ASSUME TypeOK, CountInv, NEW s \in Socks, NEW state, state # "counted",
         sock[s] # "counted", sock' = [sock EXCEPT ![s] = state]
  PROVE  Counted' = Counted
BY DEF TypeOK, Counted

LEMMA CountForgets == ForgetSockets => Counted' = {} /\ flows' = 0
BY DEF ForgetSockets, Counted

LEMMA CountIsNat == CountInv => flows \in Nat
BY CountedFinite, FS_CardinalityType DEF CountInv

\* Zero is read only when no socket is counted.
LEMMA ZeroMeansNone == CountInv /\ flows = 0 => Counted = {}
BY CountedFinite, FS_EmptySet, ZenonT(30) DEF CountInv
-----------------------------------------------------------------------------
LEMMA CountStep == TypeOK /\ CountInv /\ [Next]_vars => CountInv'
<1> SUFFICES ASSUME TypeOK, CountInv, [Next]_vars PROVE CountInv'
  OBVIOUS
<1>1. ASSUME UNCHANGED <<sock, flows, late>>,
             pc' = "dr_unregister" => pc = "dr_unregister",
             runtime' => runtime \/ pc # "dr_unregister"
      PROVE  CountInv'
  BY <1>1 DEF CountInv, Counted
<1>2. ASSUME ForgetSockets PROVE CountInv'
  BY <1>2, CountForgets, FS_EmptySet DEF CountInv
<1>3. CASE DrCheck
  <2>1. Counted' = Counted /\ flows' = flows
    BY <1>3 DEF DrCheck, Counted
  <2>2. ASSUME pc' = "dr_unregister", CountReadable, runtime' PROVE Counted = {}
    <3>1. runtime /\ flows = 0
      BY <1>3, <2>2, CountIsNat DEF DrCheck, ActiveFlows, Goto, Answer, daemonVars
    <3> QED
      BY <3>1, ZeroMeansNone
  <2> QED
    BY <2>1, <2>2 DEF CountInv
<1>4. ASSUME NEW s \in Socks, SockStep(s) PROVE CountInv'
  <2>1. pc' = pc /\ runtime' = runtime
    BY <1>4 DEF SockStep, Create, PolicyReads, PolicySwitches, Establish,
       Abandon, Release, Joins, SockGoto, reqVars, daemonVars
  <2>2. ASSUME sock[s] # "counted", Joins(s) PROVE CountInv'
    <3>1. CASE sock' = [sock EXCEPT ![s] = "counted"] /\ flows' = flows + 1
               /\ late' = late \union {s}
      BY <2>1, <3>1, <2>2, CountJoins, ZenonT(30) DEF CountInv, Counted, TypeOK
    <3>2. CASE sock' = [sock EXCEPT ![s] = "uncounted"] /\ UNCHANGED <<flows, late>>
      BY <2>1, <3>2, <2>2, CountSame, ZenonT(30) DEF CountInv
    <3> QED
      BY <2>2, <3>1, <3>2 DEF Joins, SockGoto
  <2>3. ASSUME NEW state \in {"off", "assigned", "chosen"}, sock[s] # "counted",
               sock' = [sock EXCEPT ![s] = state], UNCHANGED <<flows, late>>
        PROVE  CountInv'
    BY <2>1, <2>3, CountSame, ZenonT(30) DEF CountInv
  <2>4. CASE Release(s)
    <3>1. CASE sock[s] = "counted"
      BY <2>1, <2>4, <3>1, CountLeaves, ZenonT(30)
         DEF CountInv, Counted, Release, SockGoto, TypeOK
    <3>2. CASE sock[s] # "counted"
      <4>1. Counted' = Counted /\ flows' = flows /\ late' = late \ {s}
        BY <2>4, <3>2, CountSame, ZenonT(30) DEF Release, SockGoto
      <4>2. s \notin Counted
        BY <3>2 DEF Counted
      <4> QED
        BY <2>1, <4>1, <4>2 DEF CountInv
    <3> QED
      BY <3>1, <3>2
  <2> QED
    BY <1>4, <2>2, <2>3, <2>4 DEF SockStep, Create, PolicyReads,
       PolicySwitches, Establish, Abandon, SockGoto
<1>5. CASE EnableStep
  BY <1>1, <1>2, <1>5 DEF EnableStep, EnPublish, EnFallback, EnAttach, EnThreads,
     EnPolicy, EnDefault, EnArm, EnRead, EnWrite, EnEnforced, EnRedundancy,
     DropRuntime, Goto, Answer, At, sockVars, daemonVars
<1>6. CASE DrainStep
  BY <1>1, <1>2, <1>3, <1>6, ZenonT(30) DEF DrainStep, DrDisarm, DrFallback, DrPolicy,
     DrRedundancy, DrWait, DrUnregister, Goto, Answer, At, sockVars, daemonVars
<1>7. CASE StopStep
  BY <1>1, <1>2, <1>7 DEF StopStep, StopGuard, StopRuntime, StopLinks,
     DropRuntime, Vanish, Goto, At, sockVars, daemonVars
<1>8. CASE GuardStep
  BY <1>1, <1>8 DEF GuardStep, GuardWake, GuardLock, GuardReads, GuardReadFails,
     GuardWrites, GuardWriteFails, GuardEnds, GuardGoto, sockVars, daemonVars,
     reqVars
<1>9. CASE Start \/ Crash \/ Request \/ ExternalWrite
  BY <1>1, <1>2, <1>9 DEF Start, Crash, Request, Enable, Drain, Shutdown,
     SetRedundancy, ExternalWrite, Vanish, Goto, Answer, At, sockVars,
     daemonVars, reqVars
<1>10. CASE UNCHANGED vars
  BY <1>1, <1>10 DEF vars, sockVars, daemonVars, reqVars
<1> QED
  BY <1>4, <1>5, <1>6, <1>7, <1>8, <1>9, <1>10 DEF Next

-----------------------------------------------------------------------------
\* TypeOK in three parts; the type of flow_count follows from CountInv.
StateTypes ==
  /\ cc \in Others \union {Fallback, Skyline}
  /\ registered \in {"none", "ours", "leftover"}
  /\ policy \in {"absent", "off", "on"}
  /\ pc \in Pcs
  /\ answer \in {"ok", "error"}
  /\ lock \in {"free", "main", "worker"}
  /\ gpc \in {"off", "sleep", "wake", "read", "write", "qdisc"}

SockTypes ==
  /\ sock \in [Socks -> {"off", "assigned", "chosen", "counted", "uncounted"}]
  /\ late \in SUBSET Socks

FlagTypes ==
  /\ copying \in BOOLEAN
  /\ runtime \in BOOLEAN
  /\ tcLoaded \in BOOLEAN
  /\ accelerating \in BOOLEAN
  /\ draining \in BOOLEAN
  /\ redundancy \in BOOLEAN
  /\ armed \in BOOLEAN

LEMMA StateTypesStep == StateTypes /\ [Next]_vars => StateTypes'
<1> SUFFICES ASSUME StateTypes, [Next]_vars PROVE StateTypes'
  BY SMTT(30)
<1> USE SpeederAssumption
<1> USE DEF StateTypes, Pcs,
    vars, hostVars, sockVars, daemonVars, guardVars, reqVars
<1>1. CASE EnableStep
  BY <1>1, SMTT(30) DEF EnableStep, EnPublish, EnFallback, EnAttach, EnThreads, EnPolicy,
     EnDefault, EnArm, EnRead, EnWrite, EnEnforced, EnRedundancy, DropRuntime,
     WriteSkyline, Applied, NotApplied, Goto, Answer, At
<1>2. CASE DrainStep
  BY <1>2 DEF DrainStep, DrDisarm, DrFallback, DrPolicy, DrRedundancy, DrWait,
     DrCheck, DrUnregister, Applied, NotApplied, Goto, Answer, At
<1>3. CASE StopStep
  BY <1>3 DEF StopStep, StopGuard, StopRuntime, StopLinks, DropRuntime, Vanish,
     Goto, At
<1>4. CASE GuardStep
  BY <1>4 DEF GuardStep, GuardWake, GuardLock, GuardReads, GuardReadFails,
     GuardWrites, GuardWriteFails, GuardEnds, GuardGoto, WriteSkyline, At
<1>5. CASE Start \/ Crash \/ Request \/ ExternalWrite
  BY <1>5, SMTT(30) DEF Start, Crash, Request, Enable, Drain, Shutdown, SetRedundancy,
     ExternalWrite, Vanish, Applied, NotApplied, Goto, Answer, At
<1>6. ASSUME NEW s \in Socks, SockStep(s) PROVE StateTypes'
  BY <1>6 DEF SockStep, Create, PolicyReads, PolicySwitches, Establish, Abandon,
     Release, Joins, SockGoto
<1>7. CASE UNCHANGED vars
  BY <1>7
<1> QED
  BY <1>1, <1>2, <1>3, <1>4, <1>5, <1>6, <1>7 DEF Next

LEMMA SockTypesStep == SockTypes /\ [Next]_vars => SockTypes'
<1> SUFFICES ASSUME SockTypes, [Next]_vars PROVE SockTypes'
  OBVIOUS
<1> USE SpeederAssumption
<1> USE DEF SockTypes,
    vars, hostVars, sockVars, daemonVars, guardVars, reqVars
<1>1. CASE EnableStep
  BY <1>1, SMTT(30) DEF EnableStep, EnPublish, EnFallback, EnAttach, EnThreads, EnPolicy,
     EnDefault, EnArm, EnRead, EnWrite, EnEnforced, EnRedundancy, DropRuntime,
     WriteSkyline, Applied, NotApplied, Goto, Answer, At,
     ForgetSockets
<1>2. CASE DrainStep
  BY <1>2 DEF DrainStep, DrDisarm, DrFallback, DrPolicy, DrRedundancy, DrWait,
     DrCheck, DrUnregister, Applied, NotApplied, Goto, Answer, At,
     ForgetSockets
<1>3. CASE StopStep
  BY <1>3 DEF StopStep, StopGuard, StopRuntime, StopLinks, DropRuntime, Vanish,
     Goto, At,
     ForgetSockets
<1>4. CASE GuardStep
  BY <1>4 DEF GuardStep, GuardWake, GuardLock, GuardReads, GuardReadFails,
     GuardWrites, GuardWriteFails, GuardEnds, GuardGoto, WriteSkyline, At
<1>5. CASE Start \/ Crash \/ Request \/ ExternalWrite
  BY <1>5 DEF Start, Crash, Request, Enable, Drain, Shutdown, SetRedundancy,
     ExternalWrite, Vanish, Applied, NotApplied, Goto, Answer, At,
     ForgetSockets
<1>6. ASSUME NEW s \in Socks, SockStep(s) PROVE SockTypes'
  BY <1>6 DEF SockStep, Create, PolicyReads, PolicySwitches, Establish, Abandon,
     Release, Joins, SockGoto
<1>7. CASE UNCHANGED vars
  BY <1>7
<1> QED
  BY <1>1, <1>2, <1>3, <1>4, <1>5, <1>6, <1>7, SMTT(30) DEF Next

LEMMA FlagTypesStep == FlagTypes /\ [Next]_vars => FlagTypes'
<1> SUFFICES ASSUME FlagTypes, [Next]_vars PROVE FlagTypes'
  OBVIOUS
<1> USE SpeederAssumption
<1> USE DEF FlagTypes,
    vars, hostVars, sockVars, daemonVars, guardVars, reqVars
<1>1. CASE EnableStep
  BY <1>1, ZenonT(30)
     DEF EnableStep, EnPublish, EnFallback, EnAttach, EnThreads, EnPolicy,
     EnDefault, EnArm, EnRead, EnWrite, EnEnforced, EnRedundancy, DropRuntime,
     WriteSkyline, Applied, NotApplied, Goto, Answer, At
<1>2. CASE DrainStep
  BY <1>2, ZenonT(30) DEF DrainStep, DrDisarm, DrFallback, DrPolicy, DrRedundancy, DrWait,
     DrCheck, DrUnregister, Applied, NotApplied, Goto, Answer, At
<1>3. CASE StopStep
  BY <1>3, ZenonT(30)
     DEF StopStep, StopGuard, StopRuntime, StopLinks, DropRuntime, Vanish,
     Goto, At
<1>4. CASE GuardStep
  BY <1>4 DEF GuardStep, GuardWake, GuardLock, GuardReads, GuardReadFails,
     GuardWrites, GuardWriteFails, GuardEnds, GuardGoto, WriteSkyline, At
<1>5. CASE Start \/ Crash \/ Request \/ ExternalWrite
  BY <1>5, ZenonT(30) DEF Start, Crash, Request, Enable, Drain, Shutdown, SetRedundancy,
     ExternalWrite, Vanish, Applied, NotApplied, Goto, Answer, At
<1>6. ASSUME NEW s \in Socks, SockStep(s) PROVE FlagTypes'
  BY <1>6 DEF SockStep, Create, PolicyReads, PolicySwitches, Establish, Abandon,
     Release, Joins, SockGoto
<1>7. CASE UNCHANGED vars
  BY <1>7
<1> QED
  BY <1>1, <1>2, <1>3, <1>4, <1>5, <1>6, <1>7, SMTT(30) DEF Next

LEMMA LockStep == TypeOK /\ LockInv /\ [Next]_vars => LockInv'
<1> SUFFICES ASSUME TypeOK, LockInv, [Next]_vars PROVE LockInv'
  OBVIOUS
<1> USE SpeederAssumption
<1> USE DEF LockInv, TypeOK,
    vars, hostVars, sockVars, daemonVars, guardVars, reqVars
<1>1. CASE EnableStep
  BY <1>1, ZenonT(10) DEF EnableStep, EnPublish, EnFallback, EnAttach, EnThreads, EnPolicy,
     EnDefault, EnArm, EnRead, EnWrite, EnEnforced, EnRedundancy, DropRuntime,
     WriteSkyline, Applied, NotApplied, Goto, Answer, At
<1>2. CASE DrainStep
  BY <1>2 DEF DrainStep, DrDisarm, DrFallback, DrPolicy, DrRedundancy, DrWait,
     DrCheck, DrUnregister, Applied, NotApplied, Goto, Answer, At
<1>3. CASE StopStep
  BY <1>3, SMTT(30) DEF StopStep, StopGuard, StopRuntime, StopLinks, DropRuntime, Vanish,
     Goto, At
<1>4. CASE GuardStep
  BY <1>4, SMTT(30) DEF GuardStep, GuardWake, GuardLock, GuardReads, GuardReadFails,
     GuardWrites, GuardWriteFails, GuardEnds, GuardGoto, WriteSkyline, At
<1>5. CASE Start \/ Crash \/ Request \/ ExternalWrite
  BY <1>5, SMTT(30) DEF Start, Crash, Request, Enable, Drain, Shutdown, SetRedundancy,
     ExternalWrite, Vanish, Applied, NotApplied, Goto, Answer, At
<1>6. ASSUME NEW s \in Socks, SockStep(s) PROVE LockInv'
  BY <1>6 DEF SockStep, Create, PolicyReads, PolicySwitches, Establish, Abandon,
     Release, Joins, SockGoto
<1>7. CASE UNCHANGED vars
  BY <1>7, SMTT(30)
<1> QED
  BY <1>1, <1>2, <1>3, <1>4, <1>5, <1>6, <1>7 DEF Next

LEMMA RuntimeStep ==
  TypeOK /\ LockInv /\ RuntimeInv /\ ClosedInv /\ [Next]_vars => RuntimeInv'
<1> SUFFICES ASSUME TypeOK, LockInv, RuntimeInv, ClosedInv, [Next]_vars PROVE RuntimeInv'
  BY SMTT(30)
<1> USE SpeederAssumption
<1> USE DEF LockInv, RuntimeInv, ClosedInv, DrainClosed, TypeOK,
    vars, hostVars, sockVars, daemonVars, guardVars, reqVars
<1>1. CASE EnableStep
  BY <1>1, SMTT(30) DEF EnableStep, EnPublish, EnFallback, EnAttach, EnThreads, EnPolicy,
     EnDefault, EnArm, EnRead, EnWrite, EnEnforced, EnRedundancy, DropRuntime,
     WriteSkyline, Applied, NotApplied, Goto, Answer, At
<1>2. CASE DrainStep
  BY <1>2, SMTT(30) DEF DrainStep, DrDisarm, DrFallback, DrPolicy, DrRedundancy, DrWait,
     DrCheck, DrUnregister, Applied, NotApplied, Goto, Answer, At
<1>3. CASE StopStep
  BY <1>3, SMTT(30) DEF StopStep, StopGuard, StopRuntime, StopLinks, DropRuntime, Vanish,
     Goto, At
<1>4. CASE GuardStep
  BY <1>4, SMTT(30) DEF GuardStep, GuardWake, GuardLock, GuardReads, GuardReadFails,
     GuardWrites, GuardWriteFails, GuardEnds, GuardGoto, WriteSkyline, At
<1>5. CASE Start \/ Crash \/ Request \/ ExternalWrite
  BY <1>5, SMTT(30) DEF Start, Crash, Request, Enable, Drain, Shutdown, SetRedundancy,
     ExternalWrite, Vanish, Applied, NotApplied, Goto, Answer, At
<1>6. ASSUME NEW s \in Socks, SockStep(s) PROVE RuntimeInv'
  BY <1>6 DEF SockStep, Create, PolicyReads, PolicySwitches, Establish, Abandon,
     Release, Joins, SockGoto
<1>7. CASE UNCHANGED vars
  BY <1>7, SMTT(30)
<1> QED
  BY <1>1, <1>2, <1>3, <1>4, <1>5, <1>6, <1>7 DEF Next

LEMMA ClosedStep ==
  TypeOK /\ LockInv /\ RuntimeInv /\ ClosedInv /\ [Next]_vars => ClosedInv'
<1> SUFFICES ASSUME TypeOK, LockInv, RuntimeInv, ClosedInv, [Next]_vars PROVE ClosedInv'
  BY SMTT(30)
<1> USE SpeederAssumption
<1> USE DEF LockInv, RuntimeInv, ClosedInv, DrainClosed, TypeOK,
    vars, hostVars, sockVars, daemonVars, guardVars, reqVars
<1>1. CASE EnableStep
  BY <1>1, ZenonT(10) DEF EnableStep, EnPublish, EnFallback, EnAttach, EnThreads, EnPolicy,
     EnDefault, EnArm, EnRead, EnWrite, EnEnforced, EnRedundancy, DropRuntime,
     WriteSkyline, Applied, NotApplied, Goto, Answer, At
<1>2. CASE DrainStep
  BY <1>2, SMTT(30) DEF DrainStep, DrDisarm, DrFallback, DrPolicy, DrRedundancy, DrWait,
     DrCheck, DrUnregister, Applied, NotApplied, Goto, Answer, At
<1>3. CASE StopStep
  BY <1>3, SMTT(30) DEF StopStep, StopGuard, StopRuntime, StopLinks, DropRuntime, Vanish,
     Goto, At
<1>4. CASE GuardStep
  BY <1>4, SMTT(30) DEF GuardStep, GuardWake, GuardLock, GuardReads, GuardReadFails,
     GuardWrites, GuardWriteFails, GuardEnds, GuardGoto, WriteSkyline, At
<1>5. CASE Start \/ Crash \/ Request \/ ExternalWrite
  BY <1>5, SMTT(30) DEF Start, Crash, Request, Enable, Drain, Shutdown, SetRedundancy,
     ExternalWrite, Vanish, Applied, NotApplied, Goto, Answer, At
<1>6. ASSUME NEW s \in Socks, SockStep(s) PROVE ClosedInv'
  BY <1>6 DEF SockStep, Create, PolicyReads, PolicySwitches, Establish, Abandon,
     Release, Joins, SockGoto
<1>7. CASE UNCHANGED vars
  BY <1>7, SMTT(30)
<1> QED
  BY <1>1, <1>2, <1>3, <1>4, <1>5, <1>6, <1>7 DEF Next

LEMMA FlagStep == IndInv /\ [Next]_vars => FlagInv'
<1> SUFFICES ASSUME IndInv, [Next]_vars PROVE FlagInv'
  BY SMTT(30)
<1> USE SpeederAssumption
<1> USE DEF IndInv, LockInv, RuntimeInv, ClosedInv, FlagInv,
    DrainClosed, TypeOK, vars, hostVars, sockVars, daemonVars, guardVars, reqVars
<1>1. CASE EnableStep
  BY <1>1, SMTT(30) DEF EnableStep, EnPublish, EnFallback, EnAttach, EnThreads, EnPolicy,
     EnDefault, EnArm, EnRead, EnWrite, EnEnforced, EnRedundancy, DropRuntime,
     WriteSkyline, Applied, NotApplied, Goto, Answer, At
<1>2. CASE DrainStep
  BY <1>2, SMTT(30) DEF DrainStep, DrDisarm, DrFallback, DrPolicy, DrRedundancy, DrWait,
     DrCheck, DrUnregister, Applied, NotApplied, Goto, Answer, At
<1>3. CASE StopStep
  BY <1>3, SMTT(30) DEF StopStep, StopGuard, StopRuntime, StopLinks, DropRuntime, Vanish,
     Goto, At
<1>4. CASE GuardStep
  BY <1>4, SMTT(30) DEF GuardStep, GuardWake, GuardLock, GuardReads, GuardReadFails,
     GuardWrites, GuardWriteFails, GuardEnds, GuardGoto, WriteSkyline, At
<1>5. CASE Start \/ Crash \/ Request \/ ExternalWrite
  BY <1>5, SMTT(30) DEF Start, Crash, Request, Enable, Drain, Shutdown, SetRedundancy,
     ExternalWrite, Vanish, Applied, NotApplied, Goto, Answer, At
<1>6. ASSUME NEW s \in Socks, SockStep(s) PROVE FlagInv'
  BY <1>6, SMTT(30) DEF SockStep, Create, PolicyReads, PolicySwitches, Establish, Abandon,
     Release, Joins, SockGoto
<1>7. CASE UNCHANGED vars
  BY <1>7
<1> QED
  BY <1>1, <1>2, <1>3, <1>4, <1>5, <1>6, <1>7, ZenonT(10) DEF Next
-----------------------------------------------------------------------------
LEMMA TypeSplit == TypeOK <=> StateTypes /\ SockTypes /\ FlagTypes /\ flows \in Nat
BY DEF TypeOK, StateTypes, SockTypes, FlagTypes

LEMMA InitInv == Init => IndInv /\ CountInv
<1> SUFFICES ASSUME Init PROVE IndInv /\ CountInv
  OBVIOUS
<1> USE SpeederAssumption
<1>1. StateTypes
  BY DEF Init, StateTypes, Pcs
<1>2. SockTypes /\ FlagTypes
  BY ZenonT(30) DEF Init, SockTypes, FlagTypes
<1>3. CountInv
  BY FS_EmptySet DEF Init, CountInv, Counted
<1>4. LockInv /\ RuntimeInv /\ ClosedInv /\ FlagInv
  BY DEF Init, LockInv, RuntimeInv, ClosedInv, FlagInv, DrainClosed
<1> QED
  BY <1>1, <1>2, <1>3, <1>4, TypeSplit, CountIsNat DEF IndInv

\* The strengthening holds in every reachable state.
THEOREM Inductive == Spec => [](IndInv /\ CountInv)
<1>1. IndInv /\ CountInv /\ [Next]_vars => (IndInv /\ CountInv)'
  <2> SUFFICES ASSUME IndInv, CountInv, [Next]_vars
               PROVE  (IndInv /\ CountInv)'
    OBVIOUS
  <2>1. CountInv' /\ (flows \in Nat)'
    <3>1. CountInv'
      BY CountStep DEF IndInv
    <3>2. (CountInv => flows \in Nat)'
      BY CountIsNat, PTL
    <3> QED
      BY <3>1, <3>2
  <2>2. StateTypes' /\ SockTypes' /\ FlagTypes'
    BY TypeSplit, StateTypesStep, SockTypesStep, FlagTypesStep DEF IndInv
  <2>3. TypeOK'
    BY <2>1, <2>2 DEF TypeOK, StateTypes, SockTypes, FlagTypes
  <2>4. LockInv' /\ RuntimeInv' /\ ClosedInv' /\ FlagInv'
    BY LockStep, RuntimeStep, ClosedStep, FlagStep DEF IndInv
  <2> QED
    BY <2>1, <2>3, <2>4 DEF IndInv
<1> QED
  BY <1>1, InitInv, PTL DEF Spec

\* Type correctness; flow_count never goes below zero.
THEOREM TypeCorrect == Spec => []TypeOK
BY Inductive, PTL DEF IndInv

\* A drain waits and unregisters with every way onto skyline_cc closed, for any
\* guard pass it met and any foreign writes of the sysctl.
THEOREM DrainClosesDispatch == Spec => []DispatchClosed
<1>1. IndInv => DispatchClosed
  BY DEF IndInv, ClosedInv, DispatchClosed, DrainClosed
<1> QED
  BY <1>1, Inductive, PTL

\* No guard pass, periodic or Enable's, runs without our skyline_cc registered.
THEOREM PassesAreCovered == Spec => []PassHasItsAlgorithm
<1>1. IndInv => PassHasItsAlgorithm
  BY DEF IndInv, TypeOK, LockInv, RuntimeInv, PassHasItsAlgorithm
<1> QED
  BY <1>1, Inductive, PTL

\* draining reports a state in which the default, the guard and the copies are
\* off skyline_cc.
THEOREM DrainingTruthful == Spec => []DrainingIsDrained
<1>1. IndInv => DrainingIsDrained
  BY DEF IndInv, FlagInv, DrainingIsDrained, At
<1> QED
  BY <1>1, Inductive, PTL

\* A daemon that has the TC program copies only with skyline_cc attached.
THEOREM CopiesAreCovered == Spec => []CopiesOnlyWithRuntime
<1>1. IndInv => CopiesOnlyWithRuntime
  BY DEF IndInv, FlagInv, RuntimeInv, CopiesOnlyWithRuntime, At
<1> QED
  BY <1>1, Inductive, PTL

\* flow_count is exact for any number of sockets.
THEOREM CountIsExact == Spec => []FlowCountExact
<1>1. CountInv => FlowCountExact
  BY DEF CountInv, Counted, FlowCountExact
<1> QED
  BY <1>1, Inductive, PTL

\* The default turns to skyline_cc only under an armed guard or in an Enable.
THEOREM DisarmIsFinal == Spec => NoRestoreAfterDisarm
<1>1. IndInv /\ [Next]_vars
        => [cc # Skyline /\ cc' = Skyline => armed \/ At("en_default")]_vars
  <2> SUFFICES ASSUME IndInv, [Next]_vars, cc # Skyline, cc' = Skyline
               PROVE  armed \/ At("en_default")
    OBVIOUS
  <2> QED
    BY SpeederAssumption, ZenonT(30)
       DEF IndInv, LockInv, Next, Start, Crash, Request, Enable, Drain, Shutdown,
       SetRedundancy, EnableStep, EnPublish, EnFallback, EnAttach, EnThreads,
       EnPolicy, EnDefault, EnArm, EnRead, EnWrite, EnEnforced, EnRedundancy,
       DrainStep, DrDisarm, DrFallback, DrPolicy, DrRedundancy, DrWait, DrCheck,
       DrUnregister, StopStep, StopGuard, StopRuntime, StopLinks, GuardStep,
       GuardWake, GuardLock, GuardReads, GuardReadFails, GuardWrites,
       GuardWriteFails, GuardEnds, ExternalWrite, SockStep, Create, PolicyReads,
       PolicySwitches, Establish, Abandon, Release, Joins, SockGoto, At,
       vars, hostVars
<1> QED
  BY <1>1, Inductive, PTL DEF Spec, NoRestoreAfterDisarm

\* Neither a drain nor a rolled-back load unregisters the default algorithm.
THEOREM DefaultStaysRegistered == Spec => UnregisterNotDefault
<1> DEFINE Step == registered = "ours" /\ registered' # "ours" /\ cc = Skyline
                     => At("stop_runtime") \/ pc' = "down"
<1>1. IndInv /\ [Next]_vars => [Step]_vars
  <2> SUFFICES ASSUME IndInv, [Next]_vars,
                      registered = "ours", registered' # "ours", cc = Skyline
               PROVE  At("stop_runtime") \/ pc' = "down"
    BY SMTT(30)
  <2> USE DEF IndInv, ClosedInv, DrainClosed, At, vars, hostVars
  <2>1. CASE EnableStep
    BY <2>1, SMTT(30) DEF EnableStep, EnPublish, EnFallback, EnAttach, EnThreads,
       EnPolicy, EnDefault, EnArm, EnRead, EnWrite, EnEnforced, EnRedundancy
  <2>2. CASE DrainStep
    BY <2>2, ZenonT(30)
       DEF DrainStep, DrDisarm, DrFallback, DrPolicy, DrRedundancy, DrWait,
       DrCheck, DrUnregister
  <2>3. CASE StopStep \/ Start \/ Crash \/ Request \/ ExternalWrite
    BY <2>3 DEF StopStep, StopGuard, StopRuntime, StopLinks, Start, Crash,
       Request, Enable, Drain, Shutdown, SetRedundancy, ExternalWrite, Vanish
  <2>4. CASE GuardStep
    BY <2>4, SMTT(30) DEF GuardStep, GuardWake, GuardLock, GuardReads, GuardReadFails,
       GuardWrites, GuardWriteFails, GuardEnds
  <2>5. ASSUME NEW s \in Socks, SockStep(s) PROVE registered' = registered
    BY <2>5 DEF SockStep, Create, PolicyReads, PolicySwitches, Establish,
       Abandon, Release, Joins, SockGoto
  <2> QED
    BY <2>1, <2>2, <2>3, <2>4, <2>5 DEF Next
<1> QED
  BY <1>1, Inductive, PTL DEF Spec, UnregisterNotDefault

\* With a readable flow_count, the only connections a drain can unregister under
\* are those that joined after it read the count.
THEOREM DrainIsPatient ==
  ASSUME CountReadable
  PROVE  Spec => DrainSparesCounted
<1> DEFINE Step == At("dr_unregister") /\ runtime /\ ~runtime' /\ pc' = "idle"
                     => \A s \in Socks : sock[s] = "counted" => s \in late
<1>1. CountInv => Step
  BY DEF CountInv, Counted, At
<1> QED
  BY <1>1, Inductive, PTL DEF DrainSparesCounted
=============================================================================
