------------------------------ MODULE TcRunner ------------------------------
(***************************************************************************)
(* run_tc, run_bounded and reap_later (guard.rs) under their two callers:  *)
(* the guard's periodic thread, and the request thread, which runs the     *)
(* pass of an enable and the live read of a status.  A tc needs the        *)
(* kernel's rtnl lock, which others may hold for as long as they like; it  *)
(* sleeps uninterruptibly there, so a kill takes effect, and a replace     *)
(* happens, only once the lock is free.                                    *)
(***************************************************************************)
EXTENDS Naturals, FiniteSets

CONSTANTS Slots,        \* names for tc processes, enough for all that exist
          CallsMax,     \* bound on the tc calls of one pass
          SpawnFailsMax,\* bound on thread spawns that fail
          NoChild

Threads == {"worker", "request"}

ASSUME TcAssumption == IsFiniteSet(Slots)

VARIABLES rtnl,      \* "free" or "stuck"
          proc,      \* [Slots -> [state, op]] tc processes
          unreaped,  \* TC_UNREAPED
          reapers,   \* killed processes a reaper thread waits for
          job,       \* [Threads -> "none", "pass", "status" or "drain"]
          at,        \* [Threads -> where it is]
          calls,     \* [Threads -> tc calls its job still makes]
          child,     \* [Threads -> its tc process]
          lock,      \* holder of the guard's state lock, or "nobody"
          spawnFails,
          timeouts   \* history: [Threads -> timeouts of the job under one stuck rtnl]

kernel == <<rtnl, proc>>
vars == <<kernel, unreaped, reapers, job, at, calls, child, lock, spawnFails, timeouts>>

NoProc == [state |-> "gone", op |-> "show"]
Alive == {s \in Slots : proc[s].state \in {"running", "killed"}}
Killed == {s \in Slots : proc[s].state = "killed"}

Init == /\ rtnl = "free" /\ proc = [s \in Slots |-> NoProc]
        /\ unreaped = 0 /\ reapers = {}
        /\ job = [t \in Threads |-> "none"] /\ at = [t \in Threads |-> "idle"]
        /\ calls = [t \in Threads |-> 0] /\ child = [t \in Threads |-> NoChild]
        /\ lock = "nobody" /\ spawnFails = 0
        /\ timeouts = [t \in Threads |-> 0]

(* The kernel: rtnl is taken and given back; with it, a tc does its work   *)
(* and exits, killed or not.                                               *)
RtnlTaken == /\ rtnl = "free" /\ rtnl' = "stuck"
             /\ UNCHANGED <<proc, unreaped, reapers, job, at, calls, child, lock, spawnFails,
                            timeouts>>
RtnlGivenBack == /\ rtnl = "stuck" /\ rtnl' = "free"
                 /\ timeouts' = [t \in Threads |-> 0]
                 /\ UNCHANGED <<proc, unreaped, reapers, job, at, calls, child, lock, spawnFails>>
TcExits(s) == /\ rtnl = "free" /\ s \in Alive
              /\ proc' = [proc EXCEPT ![s].state =
                            IF @ = "running" THEN "exited"
                            ELSE IF s \in reapers THEN "zombie" ELSE "gone"]
              /\ UNCHANGED <<rtnl, unreaped, reapers, job, at, calls, child, lock, spawnFails,
                             timeouts>>

(* The reaper: wait(), then count the process down.                        *)
Reap(s) == /\ s \in reapers /\ proc[s].state = "zombie"
           /\ reapers' = reapers \ {s} /\ unreaped' = unreaped - 1
           /\ proc' = [proc EXCEPT ![s] = NoProc]
           /\ UNCHANGED <<rtnl, job, at, calls, child, lock, spawnFails, timeouts>>

-----------------------------------------------------------------------------
Begin(t, j) == /\ job[t] = "none"
               /\ job' = [job EXCEPT ![t] = j] /\ at' = [at EXCEPT ![t] = "waiting"]
               /\ calls' = [calls EXCEPT ![t] = IF j = "drain" THEN 0 ELSE CallsMax]
               /\ timeouts' = [timeouts EXCEPT ![t] = 0]
               /\ UNCHANGED <<kernel, unreaped, reapers, child, lock, spawnFails>>

(* periodic_pass, arm_and_enforce and disarm_and keep the lock for their   *)
(* whole job; status copies the state under it and reads the host after.   *)
Lock(t) == /\ at[t] = "waiting" /\ lock = "nobody"
           /\ lock' = IF job[t] = "status" THEN "nobody" ELSE t
           /\ at' = [at EXCEPT ![t] = "ready"]
           /\ UNCHANGED <<kernel, unreaped, reapers, job, calls, child, spawnFails, timeouts>>

Finish(t) == /\ at[t] = "ready" /\ calls[t] = 0
             /\ lock' = IF lock = t THEN "nobody" ELSE lock
             /\ job' = [job EXCEPT ![t] = "none"] /\ at' = [at EXCEPT ![t] = "idle"]
             /\ UNCHANGED <<kernel, unreaped, reapers, calls, child, spawnFails, timeouts>>

Return(t) == at' = [at EXCEPT ![t] = "ready"]

(* slip: run_tc does not look at the processes it left behind.             *)
RunTcAlways(t) == /\ at[t] = "ready" /\ calls[t] > 0
                  /\ calls' = [calls EXCEPT ![t] = @ - 1]
                  /\ at' = [at EXCEPT ![t] = "checked"]
                  /\ UNCHANGED <<kernel, unreaped, reapers, job, child, lock, spawnFails, timeouts>>

(* run_tc: skipped while a killed tc has not exited.                       *)
RunTc(t) == /\ at[t] = "ready" /\ calls[t] > 0
            /\ calls' = [calls EXCEPT ![t] = @ - 1]
            /\ IF unreaped > 0 THEN Return(t) ELSE at' = [at EXCEPT ![t] = "checked"]
            /\ UNCHANGED <<kernel, unreaped, reapers, job, child, lock, spawnFails, timeouts>>

(* reap_later, in the caller's thread up to the spawn of the reaper.       *)
ReapLater(s, spawned) ==
  IF spawned THEN unreaped' = unreaped + 1 /\ reapers' = reapers \cup {s} /\ UNCHANGED spawnFails
  ELSE /\ spawnFails < SpawnFailsMax /\ spawnFails' = spawnFails + 1
       /\ UNCHANGED <<unreaped, reapers>>

(* run_bounded: spawn tc and the thread that drains its stdout ...         *)
Spawn(t) ==
  /\ at[t] = "checked"
  /\ \/ \E s \in Slots, op \in IF job[t] = "pass" THEN {"show", "replace"} ELSE {"show"} :
          /\ proc[s].state = "gone"
          /\ \/ /\ proc' = [proc EXCEPT ![s] = [state |-> "running", op |-> op]]
                /\ child' = [child EXCEPT ![t] = s]
                /\ at' = [at EXCEPT ![t] = "running"]
                /\ UNCHANGED <<unreaped, reapers, spawnFails>>
             \/ /\ spawnFails < SpawnFailsMax /\ spawnFails' = spawnFails + 1
                /\ proc' = [proc EXCEPT ![s] = [state |-> "killed", op |-> op]]
                /\ unreaped' = unreaped + 1 /\ reapers' = reapers \cup {s}
                /\ Return(t) /\ UNCHANGED child
     \/ /\ spawnFails < SpawnFailsMax /\ spawnFails' = spawnFails + 1     \* no tc at all
        /\ Return(t) /\ UNCHANGED <<proc, child, unreaped, reapers>>
  /\ UNCHANGED <<rtnl, job, calls, lock, timeouts>>

(* ... until it has exited or the deadline passes.                         *)
Exited(t) == /\ at[t] = "running" /\ proc[child[t]].state = "exited"
             /\ proc' = [proc EXCEPT ![child[t]] = NoProc]
             /\ child' = [child EXCEPT ![t] = NoChild] /\ Return(t)
             /\ UNCHANGED <<rtnl, unreaped, reapers, job, calls, lock, spawnFails, timeouts>>

(* slip: the killed tc is waited for on the spot.                          *)
TimeoutWaits(t) == /\ at[t] = "running" /\ proc[child[t]].state = "running"
                   /\ proc' = [proc EXCEPT ![child[t]].state = "killed"]
                   /\ reapers' = reapers \cup {child[t]} /\ unreaped' = unreaped + 1
                   /\ UNCHANGED <<rtnl, job, at, calls, child, lock, spawnFails, timeouts>>

Timeout(t) ==
  /\ at[t] = "running" /\ proc[child[t]].state = "running"
  /\ proc' = [proc EXCEPT ![child[t]].state = "killed"]
  /\ timeouts' = [timeouts EXCEPT ![t] = IF rtnl = "stuck" THEN @ + 1 ELSE @]
  /\ \E spawned \in BOOLEAN : ReapLater(child[t], spawned)
  /\ child' = [child EXCEPT ![t] = NoChild] /\ Return(t)
  /\ UNCHANGED <<rtnl, job, calls, lock>>

Step(t) == Lock(t) \/ Finish(t) \/ RunTc(t) \/ Spawn(t) \/ Exited(t) \/ Timeout(t)

Next == \/ RtnlTaken \/ RtnlGivenBack
        \/ \E s \in Slots : TcExits(s) \/ Reap(s)
        \/ Begin("worker", "pass")
        \/ \E j \in {"pass", "status", "drain"} : Begin("request", j)
        \/ \E t \in Threads : Step(t)

Spec == Init /\ [][Next]_vars

(* Threads and processes run; a waiter gets a lock that is free time and   *)
(* again, because the periodic thread sleeps an interval between passes.   *)
(* Nobody promises that rtnl is ever given back.                           *)
LiveSpec == /\ Spec
            /\ \A t \in Threads : WF_vars(Step(t)) /\ SF_vars(Lock(t))
            /\ \A s \in Slots : WF_vars(TcExits(s)) /\ WF_vars(Reap(s))

-----------------------------------------------------------------------------
(* Types, and that the counter neither leaks nor underflows: it is the     *)
(* number of killed tc that some reaper thread still has to see exit.      *)
CountsTheUnreaped == /\ unreaped \in Nat /\ unreaped = Cardinality(reapers)
                     /\ \A s \in reapers : proc[s].state \in {"killed", "zombie"}

(* One stuck rtnl costs a pass, and the live read of a status, at most one *)
(* timeout; each thread whose spawn of a reaper failed may add one.        *)
OneTimeoutPerPass == \A t \in Threads : timeouts[t] <= 1 + spawnFails

(* The two threads leave at most one killed tc each behind: the check and  *)
(* the start are not one step, so both may pass the check.                 *)
FewLeftBehind == Cardinality(Killed) <= 2 + spawnFails

(* At most one tc qdisc replace is ever on its way, killed ones included:  *)
(* a late one cannot meet a newer one.                                     *)
OneReplaceInFlight ==
  Cardinality({s \in Alive : proc[s].op = "replace"}) <= 1 + spawnFails

(* Whatever tc does in the kernel, what it costs the daemon is bounded:    *)
(* the processes it leaves, the timeouts of a pass, and the replaces that  *)
(* may still take effect; and the counter that bounds them is exact.       *)
TcContained == CountsTheUnreaped /\ OneTimeoutPerPass /\ FewLeftBehind /\ OneReplaceInFlight

(* A drain gets the guard's lock even if rtnl is never given back.         *)
DrainGetsTheLock == (job["request"] = "drain") ~> (lock = "request")

=============================================================================
