--------------------------- MODULE TcRunnerProofs ---------------------------
(***************************************************************************)
(* What a tc that hangs costs the daemon is bounded, for any number of tc  *)
(* calls in a pass, of processes the kernel has room for and of thread     *)
(* spawns that fail.  CountsTheUnreaped and the three bounds of            *)
(* TcContained are not inductive one by one; IndInv adds who owns which    *)
(* process, that a pass runs under the guard's lock, and that the          *)
(* processes left behind and the threads past run_tc's check are together  *)
(* at most two.                                                            *)
(***************************************************************************)
EXTENDS TcRunner, FiniteSetTheorems, TLAPS

(* A thread between run_tc's check and the end of its tc; the killed tc    *)
(* nobody waits for; and the replaces somebody is still waiting for.       *)
Busy(t) == at[t] \in {"checked", "running"}
Slot(t) == IF Busy(t) THEN 1 ELSE 0
Orphans == Killed \ reapers
OnItsWay == {s \in Alive \ Orphans : proc[s].op = "replace"}
Blocked == rtnl = "stuck" /\ \E s \in reapers : proc[s].state = "killed"

Process == [state : {"gone", "running", "exited", "killed", "zombie"},
            op : {"show", "replace"}]
TypeInv ==
  /\ rtnl \in {"free", "stuck"}
  /\ proc \in [Slots -> Process]
  /\ reapers \subseteq Slots
  /\ job \in [Threads -> {"none", "pass", "status", "drain"}]
  /\ at \in [Threads -> {"idle", "waiting", "ready", "checked", "running"}]
  /\ child \in [Threads -> Slots \cup {NoChild}]
  /\ lock \in Threads \cup {"nobody"}
  /\ spawnFails \in Nat
  /\ timeouts \in [Threads -> Nat]

ThreadInv ==
  \A t \in Threads : /\ job[t] = "none" <=> at[t] = "idle"
                     /\ job[t] = "pass" /\ at[t] # "waiting" => lock = t

OwnInv ==
  /\ \A t \in Threads : at[t] = "running" =>
       child[t] \in Slots /\ proc[child[t]].state \in {"running", "exited"}
  /\ \A t, u \in Threads : at[t] = "running" /\ at[u] = "running" /\ child[t] = child[u] => t = u
  /\ \A s \in Slots : proc[s].state = "running" /\ proc[s].op = "replace" =>
       \E t \in Threads : at[t] = "running" /\ child[t] = s /\ job[t] = "pass"

CountInv == /\ CountsTheUnreaped
            /\ unreaped + Slot("worker") + Slot("request") <= 2
            /\ Cardinality(Orphans) <= spawnFails

ReplaceInv ==
  /\ \A r, s \in OnItsWay : r = s
  /\ \A t \in Threads : job[t] = "pass" /\ at[t] = "checked" => OnItsWay = {}

TimeoutInv ==
  /\ rtnl = "free" => \A t \in Threads : timeouts[t] = 0
  /\ \A t \in Threads : \/ timeouts[t] <= spawnFails
                        \/ timeouts[t] = spawnFails + 1 /\ Blocked /\ ~Busy(t)

IndInv == TypeInv /\ ThreadInv /\ OwnInv /\ CountInv /\ ReplaceInv /\ TimeoutInv

LEMMA InitOK == Init => IndInv
<1> SUFFICES ASSUME Init PROVE IndInv
  OBVIOUS
<1>1. TypeInv
  BY DEF Init, TypeInv, Process, NoProc, Threads
<1>2. ThreadInv /\ OwnInv
  BY DEF Init, ThreadInv, OwnInv, NoProc, Threads
<1>3. Killed = {} /\ Alive = {}
  BY DEF Init, Killed, Alive, NoProc
<1>4. CountInv
  BY <1>3, FS_EmptySet DEF Init, CountInv, CountsTheUnreaped, Orphans, Slot, Busy, Threads
<1>5. ReplaceInv /\ TimeoutInv
  BY <1>3 DEF Init, ReplaceInv, OnItsWay, TimeoutInv
<1> QED  BY <1>1, <1>2, <1>4, <1>5 DEF IndInv

-----------------------------------------------------------------------------
(* Sets of processes are finite, and what they count.                      *)
LEMMA Finite ==
  ASSUME TypeInv
  PROVE  /\ IsFiniteSet(reapers) /\ IsFiniteSet(Orphans) /\ IsFiniteSet(Killed)
         /\ Cardinality(Orphans) \in Nat /\ Cardinality(reapers) \in Nat
         /\ Cardinality(Killed) \in Nat
<1>1. /\ IsFiniteSet(reapers) /\ IsFiniteSet(Orphans) /\ IsFiniteSet(Killed)
  BY FS_Subset, TcAssumption DEF TypeInv, Orphans, Killed
<1> QED  BY <1>1, FS_CardinalityType

(* What no process takes part in: rtnl and the threads' own steps.         *)
ProcsKept == UNCHANGED <<proc, unreaped, reapers, spawnFails>>

LEMMA SetsKept ==
  ASSUME ProcsKept
  PROVE  UNCHANGED <<Alive, Killed, Orphans, OnItsWay, CountsTheUnreaped>>
BY DEF ProcsKept, Alive, Killed, Orphans, OnItsWay, CountsTheUnreaped

LEMMA RtnlOK == ASSUME IndInv, RtnlTaken \/ RtnlGivenBack PROVE IndInv'
<1>0. ProcsKept /\ UNCHANGED <<job, at, child, lock>>
  BY DEF RtnlTaken, RtnlGivenBack, ProcsKept
<1>1. TypeInv'
  BY <1>0 DEF IndInv, TypeInv, RtnlTaken, RtnlGivenBack, ProcsKept
<1>2. ThreadInv' /\ OwnInv'
  BY <1>0 DEF IndInv, ThreadInv, OwnInv, ProcsKept
<1>3. CountInv' /\ ReplaceInv'
  BY <1>0, SetsKept DEF IndInv, CountInv, ReplaceInv, ProcsKept, Slot, Busy
<1>4. TimeoutInv'
  <2>1. CASE RtnlTaken
    <3>1. \A t \in Threads : timeouts'[t] = 0
      BY <2>1 DEF RtnlTaken, IndInv, TimeoutInv
    <3> QED  BY <1>0, <2>1, <3>1 DEF RtnlTaken, IndInv, TypeInv, TimeoutInv, ProcsKept
  <2>2. CASE RtnlGivenBack
    BY <1>0, <2>2 DEF RtnlGivenBack, IndInv, TypeInv, TimeoutInv, ProcsKept
  <2> QED  BY <2>1, <2>2
<1> QED  BY <1>1, <1>2, <1>3, <1>4 DEF IndInv

-----------------------------------------------------------------------------
(* A step of thread t that starts, kills and collects nothing: the others' *)
(* place and lock are as they were.                                        *)
OthersKept(t) == \A u \in Threads \ {t} :
                   at'[u] = at[u] /\ job'[u] = job[u] /\ child'[u] = child[u]
                   /\ timeouts'[u] = timeouts[u] /\ (lock = u <=> lock' = u)

LEMMA ThreadStep ==
  ASSUME IndInv, NEW t \in Threads, ProcsKept, UNCHANGED rtnl, OthersKept(t), TypeInv',
         at[t] # "running", at'[t] # "running", child'[t] = child[t],
         job'[t] = "none" <=> at'[t] = "idle",
         job'[t] = "pass" /\ at'[t] # "waiting" => lock' = t,
         timeouts'[t] \in {0, timeouts[t]},
         at'[t] = "checked" =>
           at[t] = "ready" /\ unreaped = 0 /\ job'[t] = job[t] /\ timeouts'[t] = timeouts[t]
  PROVE  IndInv'
<1>0. /\ Threads = {"worker", "request"}
      /\ \A u \in Threads : u = t \/ u \in Threads \ {t}
  BY DEF Threads
<1>1. ThreadInv'
  BY DEF OthersKept, IndInv, ThreadInv
<1>2. OwnInv'
  <2>1. \A u \in Threads : at'[u] = "running" =>
          at[u] = "running" /\ child'[u] = child[u] /\ job'[u] = job[u]
    BY DEF OthersKept
  <2>2. \A u \in Threads : at[u] = "running" =>
          at'[u] = "running" /\ child'[u] = child[u] /\ job'[u] = job[u]
    BY DEF OthersKept
  <2> QED  BY <2>1, <2>2 DEF ProcsKept, IndInv, OwnInv
<1>3. CountInv'
  <2>0. \A u \in Threads : Slot(u)' \in {0, 1} /\ Slot(u) \in {0, 1}
    BY DEF Slot
  <2>1. \A u \in Threads \ {t} : Slot(u)' = Slot(u)
    BY DEF Slot, Busy, OthersKept
  <2>2. unreaped \in Nat /\ unreaped' = unreaped
    BY DEF ProcsKept, IndInv, CountInv, CountsTheUnreaped
  <2>3. unreaped' + Slot("worker")' + Slot("request")' <= 2
    <3>1. CASE at'[t] = "checked"
      BY <1>0, <2>0, <2>2, <3>1
    <3>2. CASE at'[t] # "checked"
      <4>1. Slot(t)' = 0
        BY <3>2 DEF Slot, Busy
      <4> QED  BY <1>0, <2>0, <2>1, <2>2, <4>1 DEF IndInv, CountInv
    <3> QED  BY <3>1, <3>2
  <2> QED  BY <2>3, SetsKept DEF ProcsKept, IndInv, CountInv
<1>4. ReplaceInv'
  <2>1. OnItsWay' = OnItsWay
    BY SetsKept
  <2>2. ASSUME at'[t] = "checked", job'[t] = "pass" PROVE OnItsWay = {}
    <3>1. reapers = {}
      BY <2>2, Finite, FS_EmptySet DEF IndInv, CountInv, CountsTheUnreaped
    <3>2. \A s \in OnItsWay : proc[s].state = "running" /\ proc[s].op = "replace" /\ s \in Slots
      BY <3>1 DEF OnItsWay, Alive, Orphans, Killed
    <3>3. \A s \in OnItsWay : \E u \in Threads : at[u] = "running" /\ job[u] = "pass"
      BY <3>2 DEF IndInv, OwnInv
    <3>4. \A u \in Threads : at[u] = "running" /\ job[u] = "pass" => lock = u
      BY DEF IndInv, ThreadInv
    <3>5. lock = t
      BY <2>2 DEF IndInv, ThreadInv
    <3> QED  BY <3>3, <3>4, <3>5
  <2>3. \A u \in Threads \ {t} : job'[u] = "pass" /\ at'[u] = "checked" => OnItsWay = {}
    BY DEF OthersKept, IndInv, ReplaceInv
  <2> QED  BY <1>0, <2>1, <2>2, <2>3 DEF IndInv, ReplaceInv
<1>5. TimeoutInv'
  <2>1. Blocked' = Blocked
    BY DEF Blocked, ProcsKept
  <2>2. spawnFails \in Nat /\ spawnFails' = spawnFails
    BY DEF IndInv, TypeInv, ProcsKept
  <2>3. ASSUME NEW u \in Threads \ {t}
        PROVE \/ timeouts'[u] <= spawnFails'
              \/ timeouts'[u] = spawnFails' + 1 /\ Blocked' /\ ~Busy(u)'
    BY <2>1, <2>2 DEF OthersKept, IndInv, TimeoutInv, Busy
  <2>4. \/ timeouts'[t] <= spawnFails'
        \/ timeouts'[t] = spawnFails' + 1 /\ Blocked' /\ ~Busy(t)'
    <3>1. CASE at'[t] = "checked"
      <4>1. reapers = {}
        BY <3>1, Finite, FS_EmptySet DEF IndInv, CountInv, CountsTheUnreaped
      <4>2. ~Blocked
        BY <4>1 DEF Blocked
      <4> QED  BY <2>2, <3>1, <4>2 DEF IndInv, TimeoutInv
    <3>2. CASE at'[t] # "checked"
      <4>1. ~Busy(t)'
        BY <3>2 DEF Busy
      <4> QED  BY <2>1, <2>2, <4>1 DEF IndInv, TimeoutInv
    <3> QED  BY <3>1, <3>2
  <2>5. rtnl' = "free" => \A u \in Threads : timeouts'[u] = 0
    BY DEF OthersKept, IndInv, TimeoutInv
  <2> QED  BY <1>0, <2>3, <2>4, <2>5 DEF TimeoutInv
<1> QED  BY <1>1, <1>2, <1>3, <1>4, <1>5 DEF IndInv

LEMMA BeginOK ==
  ASSUME IndInv, NEW t \in Threads, NEW j \in {"pass", "status", "drain"}, Begin(t, j)
  PROVE  IndInv'
<1>1. /\ ProcsKept /\ UNCHANGED <<rtnl, child, lock>> /\ at[t] = "idle"
      /\ job' = [job EXCEPT ![t] = j] /\ at' = [at EXCEPT ![t] = "waiting"]
      /\ timeouts' = [timeouts EXCEPT ![t] = 0]
  BY DEF Begin, ProcsKept, kernel, IndInv, ThreadInv
<1>2. TypeInv'
  BY <1>1 DEF IndInv, TypeInv, ProcsKept
<1>3. /\ OthersKept(t) /\ at'[t] = "waiting" /\ job'[t] = j /\ timeouts'[t] = 0
      /\ child'[t] = child[t]
  BY <1>1 DEF IndInv, TypeInv, OthersKept
<1> QED  BY <1>1, <1>2, <1>3, ThreadStep

LEMMA LockOK == ASSUME IndInv, NEW t \in Threads, Lock(t) PROVE IndInv'
<1>1. /\ ProcsKept /\ UNCHANGED <<rtnl, job, child, timeouts>> /\ at[t] = "waiting"
      /\ at' = [at EXCEPT ![t] = "ready"] /\ lock = "nobody"
      /\ lock' = (IF job[t] = "status" THEN "nobody" ELSE t)
  BY DEF Lock, ProcsKept, kernel
<1>2. TypeInv'
  BY <1>1 DEF IndInv, TypeInv, ProcsKept
<1>3. /\ OthersKept(t) /\ at'[t] = "ready" /\ job[t] # "none"
      /\ job[t] = "pass" => lock' = t
  BY <1>1 DEF IndInv, TypeInv, ThreadInv, OthersKept, Threads
<1> QED  BY <1>1, <1>2, <1>3, ThreadStep

LEMMA FinishOK == ASSUME IndInv, NEW t \in Threads, Finish(t) PROVE IndInv'
<1>1. /\ ProcsKept /\ UNCHANGED <<rtnl, child, timeouts>> /\ at[t] = "ready"
      /\ at' = [at EXCEPT ![t] = "idle"] /\ job' = [job EXCEPT ![t] = "none"]
      /\ lock' = (IF lock = t THEN "nobody" ELSE lock)
  BY DEF Finish, ProcsKept, kernel
<1>2. TypeInv'
  BY <1>1 DEF IndInv, TypeInv, ProcsKept
<1>3. OthersKept(t) /\ at'[t] = "idle" /\ job'[t] = "none"
  BY <1>1 DEF IndInv, TypeInv, OthersKept, Threads
<1> QED  BY <1>1, <1>2, <1>3, ThreadStep

LEMMA RunTcOK == ASSUME IndInv, NEW t \in Threads, RunTc(t) PROVE IndInv'
<1>1. /\ ProcsKept /\ UNCHANGED <<rtnl, job, child, lock, timeouts>> /\ at[t] = "ready"
      /\ at' = [at EXCEPT ![t] = IF unreaped > 0 THEN "ready" ELSE "checked"]
  BY DEF RunTc, Return, ProcsKept, kernel
<1>2. TypeInv'
  BY <1>1 DEF IndInv, TypeInv, ProcsKept
<1>3. /\ OthersKept(t) /\ at'[t] = (IF unreaped > 0 THEN "ready" ELSE "checked")
      /\ job[t] # "none" /\ (job[t] = "pass" => lock = t)
  BY <1>1 DEF IndInv, TypeInv, ThreadInv, OthersKept
<1>4. unreaped \in Nat
  BY DEF IndInv, CountInv, CountsTheUnreaped
<1> QED  BY <1>1, <1>2, <1>3, <1>4, ThreadStep

-----------------------------------------------------------------------------
(* tc itself, and the reaper: the threads do not move.                     *)
LEMMA TcExitsOK == ASSUME IndInv, NEW s \in Slots, TcExits(s) PROVE IndInv'
<1> DEFINE x == IF proc[s].state = "running" THEN "exited"
                ELSE IF s \in reapers THEN "zombie" ELSE "gone"
<1>0. /\ rtnl = "free" /\ proc[s].state \in {"running", "killed"} /\ proc \in [Slots -> Process]
      /\ UNCHANGED <<rtnl, unreaped, reapers, job, at, child, lock, spawnFails, timeouts>>
  BY DEF TcExits, Alive, IndInv, TypeInv
<1>1. /\ proc' \in [Slots -> Process]
      /\ \A r \in Slots \ {s} : proc'[r] = proc[r]
      /\ proc'[s].state = x /\ proc'[s].op = proc[s].op
  BY <1>0 DEF TcExits, Process
<1> HIDE DEF x
<1>2. x \notin {"running", "killed"} /\ (proc[s].state = "running" => x = "exited")
      /\ (proc[s].state = "killed" /\ s \in reapers => x = "zombie")
  BY <1>0 DEF x
<1>3. TypeInv'
  BY <1>0, <1>1 DEF IndInv, TypeInv
<1>4. ThreadInv'
  BY <1>0 DEF IndInv, ThreadInv
<1>5. OwnInv'
  BY <1>0, <1>1, <1>2 DEF IndInv, OwnInv
<1>6. CountInv'
  <2>1. CountsTheUnreaped'
    BY <1>0, <1>1, <1>2 DEF IndInv, CountInv, CountsTheUnreaped, TypeInv
  <2>2. Orphans' \subseteq Orphans
    BY <1>0, <1>1, <1>2 DEF Orphans, Killed
  <2>3. Cardinality(Orphans') <= Cardinality(Orphans) /\ Cardinality(Orphans') \in Nat
        /\ Cardinality(Orphans) \in Nat
    BY <2>2, Finite, FS_Subset, FS_CardinalityType DEF IndInv
  <2> QED  BY <1>0, <2>1, <2>3 DEF IndInv, CountInv, Slot, Busy, TypeInv
<1>7. ReplaceInv'
  <2>1. OnItsWay' \subseteq OnItsWay
    BY <1>0, <1>1, <1>2 DEF OnItsWay, Orphans, Alive, Killed
  <2> QED  BY <1>0, <2>1 DEF IndInv, ReplaceInv
<1>8. TimeoutInv'
  BY <1>0 DEF IndInv, TimeoutInv, TypeInv
<1> QED  BY <1>3, <1>4, <1>5, <1>6, <1>7, <1>8 DEF IndInv

LEMMA ReapOK == ASSUME IndInv, NEW s \in Slots, Reap(s) PROVE IndInv'
<1>0. /\ s \in reapers /\ proc[s].state = "zombie" /\ proc \in [Slots -> Process]
      /\ reapers' = reapers \ {s} /\ unreaped' = unreaped - 1
      /\ UNCHANGED <<rtnl, job, at, child, lock, spawnFails, timeouts>>
  BY DEF Reap, IndInv, TypeInv
<1>1. /\ proc' \in [Slots -> Process]
      /\ \A r \in Slots \ {s} : proc'[r] = proc[r]
      /\ proc'[s].state = "gone"
  BY <1>0 DEF Reap, Process, NoProc
<1>2. TypeInv'
  BY <1>0, <1>1 DEF IndInv, TypeInv
<1>3. ThreadInv'
  BY <1>0 DEF IndInv, ThreadInv
<1>4. OwnInv'
  BY <1>0, <1>1 DEF IndInv, OwnInv
<1>5. CountInv'
  <2>1. Cardinality(reapers') = Cardinality(reapers) - 1 /\ Cardinality(reapers') \in Nat
    BY <1>0, Finite, FS_RemoveElement, FS_CardinalityType DEF IndInv
  <2>2. CountsTheUnreaped'
    BY <1>0, <1>1, <2>1 DEF IndInv, CountInv, CountsTheUnreaped, TypeInv
  <2>3. Orphans' = Orphans
    BY <1>0, <1>1 DEF Orphans, Killed
  <2>4. unreaped \in Nat /\ \A t \in Threads : Slot(t) \in {0, 1} /\ Slot(t)' = Slot(t)
    BY <1>0 DEF IndInv, CountInv, CountsTheUnreaped, Slot, Busy
  <2> QED  BY <1>0, <2>2, <2>3, <2>4 DEF IndInv, CountInv, Threads
<1>6. ReplaceInv'
  <2>1. OnItsWay' = OnItsWay
    BY <1>0, <1>1 DEF OnItsWay, Orphans, Alive, Killed
  <2> QED  BY <1>0, <2>1 DEF IndInv, ReplaceInv
<1>7. TimeoutInv'
  <2>1. Blocked => Blocked'
    BY <1>0, <1>1 DEF Blocked, IndInv, TypeInv
  <2> QED  BY <1>0, <2>1 DEF IndInv, TimeoutInv, Busy
<1> QED  BY <1>2, <1>3, <1>4, <1>5, <1>6, <1>7 DEF IndInv

-----------------------------------------------------------------------------
(* The steps of run_bounded.  A pass has the lock, so no two threads are   *)
(* past the check of a pass.                                               *)
LEMMA OnePass ==
  ASSUME IndInv, NEW t \in Threads, NEW u \in Threads, job[t] = "pass", job[u] = "pass",
         at[t] \in {"ready", "checked", "running"}, at[u] \in {"ready", "checked", "running"}
  PROVE  t = u
BY DEF IndInv, ThreadInv

(* A thread goes back to its job with one process more to reap, or with    *)
(* one more failure.                                                       *)
LEMMA FewerFree ==
  ASSUME IndInv, NEW t \in Threads, Busy(t),
         \A u \in Threads \ {t} : at'[u] = at[u]
  PROVE  /\ at'[t] = "ready" /\ unreaped' \in {unreaped, unreaped + 1}
              => unreaped' + Slot("worker")' + Slot("request")' <= 2
         /\ Busy(t)' /\ unreaped' = unreaped
              => unreaped' + Slot("worker")' + Slot("request")' <= 2
<1>1. /\ \A u \in Threads : Slot(u) \in {0, 1} /\ Slot(u)' \in {0, 1}
      /\ \A u \in Threads \ {t} : Slot(u)' = Slot(u)
      /\ Slot(t) = 1 /\ unreaped \in Nat
      /\ unreaped + Slot("worker") + Slot("request") <= 2
      /\ Threads = {"worker", "request"}
  BY DEF Slot, Busy, IndInv, CountInv, CountsTheUnreaped, Threads
<1>2. at'[t] = "ready" => Slot(t)' = 0
  BY DEF Slot, Busy
<1> QED  BY <1>1, <1>2

LEMMA TypesAtReturn ==
  ASSUME IndInv, NEW t \in Threads, NEW a \in {"ready", "running"}, at' = [at EXCEPT ![t] = a]
  PROVE  /\ at' \in [Threads -> {"idle", "waiting", "ready", "checked", "running"}]
         /\ at'[t] = a /\ \A u \in Threads \ {t} : at'[u] = at[u]
BY DEF IndInv, TypeInv

(* The thread keeps its job, and with it its lock.                         *)
LEMMA JobKept ==
  ASSUME IndInv, NEW t \in Threads, Busy(t), at'[t] \in {"ready", "running"},
         \A u \in Threads \ {t} : at'[u] = at[u], UNCHANGED <<job, lock>>
  PROVE  ThreadInv'
<1>1. job[t] # "none" /\ (job[t] = "pass" => lock = t)
  BY DEF Busy, IndInv, ThreadInv
<1>2. \A u \in Threads : u = t \/ u \in Threads \ {t}
  OBVIOUS
<1> QED  BY <1>1, <1>2 DEF IndInv, ThreadInv

Started(t, s, op) ==
  /\ at[t] = "checked" /\ proc[s].state = "gone"
  /\ proc' = [proc EXCEPT ![s] = [state |-> "running", op |-> op]]
  /\ child' = [child EXCEPT ![t] = s]
  /\ at' = [at EXCEPT ![t] = "running"]
  /\ UNCHANGED <<unreaped, reapers, spawnFails, rtnl, job, lock, timeouts>>

LEMMA StartedOK ==
  ASSUME IndInv, NEW t \in Threads, NEW s \in Slots,
         NEW op \in {"show", "replace"}, op = "replace" => job[t] = "pass", Started(t, s, op)
  PROVE  IndInv'
<1>0. /\ at[t] = "checked" /\ proc[s].state = "gone" /\ proc \in [Slots -> Process]
      /\ child \in [Threads -> Slots \cup {NoChild}] /\ s \notin reapers
      /\ UNCHANGED <<unreaped, reapers, spawnFails, rtnl, job, lock, timeouts>>
  BY DEF Started, IndInv, TypeInv, CountInv, CountsTheUnreaped
<1>1. /\ proc' \in [Slots -> Process]
      /\ \A r \in Slots \ {s} : proc'[r] = proc[r]
      /\ proc'[s].state = "running" /\ proc'[s].op = op
  BY <1>0 DEF Started, Process
<1>2. /\ child' \in [Threads -> Slots \cup {NoChild}] /\ child'[t] = s
      /\ \A u \in Threads \ {t} : child'[u] = child[u]
  BY <1>0 DEF Started
<1>3. /\ at' \in [Threads -> {"idle", "waiting", "ready", "checked", "running"}]
      /\ at'[t] = "running" /\ \A u \in Threads \ {t} : at'[u] = at[u]
  BY TypesAtReturn, Zenon DEF Started
<1>4. TypeInv'
  BY <1>0, <1>1, <1>2, <1>3 DEF IndInv, TypeInv
<1>5. ThreadInv'
  BY <1>0, <1>3, JobKept DEF Busy
<1>6. OwnInv'
  <2>1. \A u \in Threads \ {t} : at[u] = "running" =>
          child[u] \in Slots \ {s} /\ proc[child[u]].state \in {"running", "exited"}
    BY <1>0 DEF IndInv, OwnInv
  <2>2. \A u \in Threads : at'[u] = "running" =>
          child'[u] \in Slots /\ proc'[child'[u]].state \in {"running", "exited"}
    BY <1>1, <1>2, <1>3, <2>1
  <2>3. \A u, v \in Threads :
          at'[u] = "running" /\ at'[v] = "running" /\ child'[u] = child'[v] => u = v
    BY <1>2, <1>3, <2>1 DEF IndInv, OwnInv
  <2>4. \A r \in Slots : proc'[r].state = "running" /\ proc'[r].op = "replace" =>
          \E u \in Threads : at'[u] = "running" /\ child'[u] = r /\ job'[u] = "pass"
    <3>1. op = "replace" => at'[t] = "running" /\ child'[t] = s /\ job'[t] = "pass"
      BY <1>0, <1>2, <1>3
    <3>2. ASSUME NEW r \in Slots \ {s}, proc[r].state = "running", proc[r].op = "replace"
          PROVE  \E u \in Threads : at'[u] = "running" /\ child'[u] = r /\ job'[u] = "pass"
      <4>1. PICK u \in Threads : at[u] = "running" /\ child[u] = r /\ job[u] = "pass"
        BY <3>2 DEF IndInv, OwnInv
      <4>2. u # t
        BY <1>0, <4>1, SMTT(30)
      <4> QED  BY <1>0, <1>2, <1>3, <4>1, <4>2
    <3> QED  BY <1>1, <3>1, <3>2
  <2> QED  BY <2>2, <2>3, <2>4 DEF OwnInv
<1>7. CountInv'
  <2>1. Orphans' = Orphans
    BY <1>0, <1>1 DEF Orphans, Killed
  <2>2. CountsTheUnreaped'
    BY <1>0, <1>1 DEF IndInv, CountInv, CountsTheUnreaped, TypeInv
  <2>3. Busy(t) /\ Busy(t)'
    BY <1>0, <1>3 DEF Busy
  <2> QED  BY <1>0, <1>3, <2>1, <2>2, <2>3, FewerFree, SMTT(30) DEF IndInv, CountInv
<1>8. ReplaceInv'
  <2>1. CASE op = "show"
    <3>1. OnItsWay' = OnItsWay
      BY <1>0, <1>1, <2>1 DEF OnItsWay, Orphans, Alive, Killed
    <3> QED  BY <1>0, <1>3, <3>1 DEF IndInv, ReplaceInv
  <2>2. CASE op = "replace"
    <3>1. OnItsWay = {}
      BY <1>0, <2>2 DEF IndInv, ReplaceInv
    <3>2. OnItsWay' \subseteq {s}
      BY <1>0, <1>1, <3>1 DEF OnItsWay, Orphans, Alive, Killed
    <3>3. \A u \in Threads : job'[u] = "pass" => at'[u] # "checked"
      BY <1>0, <1>3, <2>2, OnePass
    <3> QED  BY <3>2, <3>3 DEF ReplaceInv
  <2> QED  BY <2>1, <2>2
<1>9. TimeoutInv'
  <2>1. Blocked => Blocked'
    BY <1>0, <1>1 DEF Blocked, IndInv, TypeInv
  <2>2. timeouts[t] <= spawnFails
    BY <1>0 DEF IndInv, TimeoutInv, Busy
  <2> QED  BY <1>0, <1>3, <2>1, <2>2 DEF IndInv, TimeoutInv, Busy
<1> QED  BY <1>4, <1>5, <1>6, <1>7, <1>8, <1>9 DEF IndInv

(* A process is killed and left to a reaper, or to nobody.                 *)
LEMMA LeftOK ==
  ASSUME IndInv, NEW t \in Threads, NEW s \in Slots, Busy(t), s \notin reapers,
         proc[s].state # "killed", at[t] = "running" => child[t] = s,
         \A u \in Threads \ {t} : at[u] = "running" => child[u] # s,
         proc' \in [Slots -> Process], \A r \in Slots \ {s} : proc'[r] = proc[r],
         proc'[s].state = "killed",
         proc'[s].op = "replace" => job[t] = "pass" /\ OnItsWay \subseteq {s},
         at' = [at EXCEPT ![t] = "ready"], UNCHANGED <<rtnl, job, lock>>,
         child' \in [Threads -> Slots \cup {NoChild}],
         \A u \in Threads \ {t} : child'[u] = child[u],
         timeouts' \in [Threads -> Nat], timeouts'[t] \in {timeouts[t], timeouts[t] + 1},
         rtnl = "free" => timeouts'[t] = timeouts[t],
         \A u \in Threads \ {t} : timeouts'[u] = timeouts[u],
         \/ /\ unreaped' = unreaped + 1 /\ reapers' = reapers \cup {s}
            /\ spawnFails' \in {spawnFails, spawnFails + 1}
         \/ /\ unreaped' = unreaped /\ reapers' = reapers
            /\ spawnFails' = spawnFails + 1
  PROVE  IndInv'
<1>0. spawnFails \in Nat /\ unreaped \in Nat /\ \A u \in Threads : u = t \/ u \in Threads \ {t}
  BY DEF IndInv, TypeInv, CountInv, CountsTheUnreaped
<1>1. /\ at' \in [Threads -> {"idle", "waiting", "ready", "checked", "running"}]
      /\ at'[t] = "ready" /\ \A u \in Threads \ {t} : at'[u] = at[u]
  BY TypesAtReturn, ZenonT(30)
<1>2. TypeInv'
  BY <1>0, <1>1 DEF IndInv, TypeInv
<1>3. ThreadInv'
  BY <1>1, JobKept, ZenonT(10)
<1>4. OwnInv'
  <2>1. \A u \in Threads : at'[u] = "running" =>
          /\ u # t /\ at[u] = "running" /\ child'[u] = child[u]
          /\ child[u] \in Slots \ {s} /\ proc[child[u]].state \in {"running", "exited"}
    BY <1>1 DEF IndInv, OwnInv
  <2>2. \A u, v \in Threads :
          at'[u] = "running" /\ at'[v] = "running" /\ child'[u] = child'[v] => u = v
    BY <2>1 DEF IndInv, OwnInv
  <2>3. ASSUME NEW r \in Slots, proc'[r].state = "running", proc'[r].op = "replace"
        PROVE  \E u \in Threads : at'[u] = "running" /\ child'[u] = r /\ job'[u] = "pass"
    <3>1. r # s /\ proc[r].state = "running" /\ proc[r].op = "replace"
      BY <2>3
    <3>2. PICK u \in Threads : at[u] = "running" /\ child[u] = r /\ job[u] = "pass"
      BY <3>1 DEF IndInv, OwnInv
    <3>3. u # t
      BY <3>1, <3>2
    <3> QED  BY <1>1, <3>2, <3>3
  <2> QED  BY <2>1, <2>2, <2>3 DEF OwnInv
<1>5. CountInv'
  <2>1. unreaped' + Slot("worker")' + Slot("request")' <= 2
    BY <1>0, <1>1, FewerFree, SMTT(30)
  <2>2. CASE unreaped' = unreaped + 1 /\ reapers' = reapers \cup {s}
             /\ spawnFails' \in {spawnFails, spawnFails + 1}
    <3>1. Cardinality(reapers') = Cardinality(reapers) + 1
      BY <2>2, Finite, FS_AddElement, ZenonT(30) DEF IndInv
    <3>2. CountsTheUnreaped'
      BY <1>0, <2>2, <3>1 DEF IndInv, CountInv, CountsTheUnreaped, TypeInv
    <3>3. Orphans' = Orphans
      BY <2>2 DEF Orphans, Killed
    <3> QED  BY <1>0, <2>1, <2>2, <3>2, <3>3, Finite, SMTT(30) DEF IndInv, CountInv
  <2>3. CASE unreaped' = unreaped /\ reapers' = reapers /\ spawnFails' = spawnFails + 1
    <3>1. CountsTheUnreaped'
      BY <2>3, SMTT(30) DEF IndInv, CountInv, CountsTheUnreaped, TypeInv
    <3>2. Orphans' = Orphans \cup {s} /\ s \notin Orphans
      BY <2>3, SMTT(30) DEF Orphans, Killed
    <3>3. Cardinality(Orphans') = Cardinality(Orphans) + 1 /\ Cardinality(Orphans) \in Nat
      BY <3>2, Finite, FS_AddElement, ZenonT(30) DEF IndInv
    <3> QED  BY <1>0, <2>1, <2>3, <3>1, <3>3 DEF IndInv, CountInv
  <2> QED  BY <2>2, <2>3, SMTT(30)
<1>6. ReplaceInv'
  <2>1. OnItsWay' \subseteq OnItsWay \cup {s}
    BY DEF OnItsWay, Orphans, Alive, Killed
  <2>2. CASE proc'[s].op = "replace"
    <3>1. \A u \in Threads : job'[u] = "pass" => at'[u] # "checked"
      BY <1>1, <2>2, OnePass DEF Busy
    <3> QED  BY <2>1, <2>2, <3>1 DEF ReplaceInv
  <2>3. CASE proc'[s].op # "replace"
    <3>1. OnItsWay' \subseteq OnItsWay
      BY <2>1, <2>3, ZenonT(10) DEF OnItsWay
    <3> QED  BY <1>1, <3>1, SMTT(30) DEF IndInv, ReplaceInv
  <2> QED  BY <2>2, <2>3, ZenonT(10)
<1>7. TimeoutInv'
  <2>1. Blocked => Blocked'
    BY DEF Blocked, IndInv, TypeInv
  <2>2. timeouts[t] <= spawnFails /\ timeouts[t] \in Nat /\ ~Busy(t)'
    BY <1>1, SMTT(30) DEF IndInv, TimeoutInv, TypeInv, Busy
  <2>3. \/ timeouts'[t] <= spawnFails'
        \/ timeouts'[t] = spawnFails' + 1 /\ Blocked' /\ ~Busy(t)'
    <3>1. CASE spawnFails' = spawnFails + 1
      BY <1>0, <2>2, <3>1, SMTT(30)
    <3>2. CASE spawnFails' = spawnFails
      <4>1. s \in reapers'
        BY <1>0, <3>2
      <4>2. rtnl = "stuck" => Blocked'
        BY <4>1, ZenonT(10) DEF Blocked
      <4>3. rtnl \in {"free", "stuck"}
        BY SMTT(30) DEF IndInv, TypeInv
      <4> QED  BY <1>0, <2>2, <3>2, <4>2, <4>3, SMTT(30)
    <3> QED  BY <3>1, <3>2, ZenonT(10)
  <2>4. ASSUME NEW u \in Threads \ {t}
        PROVE  \/ timeouts'[u] <= spawnFails'
               \/ timeouts'[u] = spawnFails' + 1 /\ Blocked' /\ ~Busy(u)'
    <3>1. timeouts'[u] = timeouts[u] /\ timeouts[u] \in Nat /\ (Busy(u)' <=> Busy(u))
      BY <1>1, SMTT(30) DEF IndInv, TypeInv, Busy
    <3>2. \/ timeouts[u] <= spawnFails
          \/ timeouts[u] = spawnFails + 1 /\ Blocked /\ ~Busy(u)
      BY ZenonT(10) DEF IndInv, TimeoutInv
    <3> QED  BY <1>0, <2>1, <3>1, <3>2, SMTT(30)
  <2>5. rtnl' = "free" => \A u \in Threads : timeouts'[u] = 0
    BY <1>0, ZenonT(10) DEF IndInv, TimeoutInv
  <2> QED  BY <1>0, <2>3, <2>4, <2>5, ZenonT(10) DEF TimeoutInv
<1> QED  BY <1>2, <1>3, <1>4, <1>5, <1>6, <1>7, ZenonT(10) DEF IndInv

LEMMA TimeoutOK == ASSUME IndInv, NEW t \in Threads, Timeout(t) PROVE IndInv'
<1> DEFINE s == child[t]
<1>0. /\ Busy(t) /\ at[t] = "running" /\ s \in Slots /\ proc[s].state = "running"
      /\ s \notin reapers /\ proc \in [Slots -> Process]
      /\ \A u \in Threads \ {t} : at[u] = "running" => child[u] # s
  BY DEF Timeout, Busy, IndInv, OwnInv, TypeInv, CountInv, CountsTheUnreaped
<1>1. /\ proc' \in [Slots -> Process] /\ \A r \in Slots \ {s} : proc'[r] = proc[r]
      /\ proc'[s].state = "killed" /\ proc'[s].op = proc[s].op
  BY <1>0 DEF Timeout, Process
<1>2. proc[s].op = "replace" => job[t] = "pass" /\ OnItsWay \subseteq {s}
  <2>1. ASSUME proc[s].op = "replace" PROVE job[t] = "pass" /\ s \in OnItsWay
    <3>1. PICK u \in Threads : at[u] = "running" /\ child[u] = s /\ job[u] = "pass"
      BY <1>0, <2>1 DEF IndInv, OwnInv
    <3>2. u = t
      BY <1>0, <3>1
    <3> QED  BY <1>0, <2>1, <3>1, <3>2 DEF OnItsWay, Orphans, Alive, Killed
  <2> QED  BY <2>1 DEF IndInv, ReplaceInv
<1>3. /\ child' \in [Threads -> Slots \cup {NoChild}]
      /\ \A u \in Threads \ {t} : child'[u] = child[u]
  BY DEF Timeout, IndInv, TypeInv
<1>4. /\ timeouts' \in [Threads -> Nat] /\ timeouts'[t] \in {timeouts[t], timeouts[t] + 1}
      /\ rtnl = "free" => timeouts'[t] = timeouts[t]
      /\ \A u \in Threads \ {t} : timeouts'[u] = timeouts[u]
  BY DEF Timeout, IndInv, TypeInv
<1>5. PICK spawned \in BOOLEAN : ReapLater(s, spawned)
  BY DEF Timeout
<1>6. \/ /\ unreaped' = unreaped + 1 /\ reapers' = reapers \cup {s}
         /\ spawnFails' \in {spawnFails, spawnFails + 1}
      \/ /\ unreaped' = unreaped /\ reapers' = reapers
         /\ spawnFails' = spawnFails + 1
  BY <1>5 DEF ReapLater
<1>7. at' = [at EXCEPT ![t] = "ready"] /\ UNCHANGED <<rtnl, job, lock>>
  BY DEF Timeout, Return
<1> HIDE DEF s
<1>8. proc[s].state # "killed" /\ (at[t] = "running" => child[t] = s)
  BY <1>0 DEF s
<1> QED  BY <1>0, <1>1, <1>2, <1>3, <1>4, <1>6, <1>7, <1>8, LeftOK, ZenonT(30)

LEMMA ExitedOK == ASSUME IndInv, NEW t \in Threads, Exited(t) PROVE IndInv'
<1> DEFINE s == child[t]
<1>0. /\ at[t] = "running" /\ s \in Slots /\ proc[s].state = "exited"
      /\ s \notin reapers /\ proc \in [Slots -> Process]
      /\ \A u \in Threads \ {t} : at[u] = "running" => child[u] # s
      /\ UNCHANGED <<rtnl, unreaped, reapers, job, lock, spawnFails, timeouts>>
  BY DEF Exited, IndInv, OwnInv, TypeInv, CountInv, CountsTheUnreaped
<1>1. /\ proc' \in [Slots -> Process] /\ \A r \in Slots \ {s} : proc'[r] = proc[r]
      /\ proc'[s].state = "gone"
  BY <1>0 DEF Exited, Process, NoProc
<1>2. /\ child' \in [Threads -> Slots \cup {NoChild}]
      /\ \A u \in Threads \ {t} : child'[u] = child[u]
  BY DEF Exited, IndInv, TypeInv
<1>3. /\ at' \in [Threads -> {"idle", "waiting", "ready", "checked", "running"}]
      /\ at'[t] = "ready" /\ \A u \in Threads \ {t} : at'[u] = at[u]
  BY TypesAtReturn, ZenonT(30) DEF Exited, Return
<1>4. child[t] = s
  OBVIOUS
<1> HIDE DEF s
<1>5. TypeInv'
  BY <1>0, <1>1, <1>2, <1>3 DEF IndInv, TypeInv
<1>6. ThreadInv'
  BY <1>0, <1>3, JobKept DEF Busy
<1>7. OwnInv'
  <2>1. \A u \in Threads : at'[u] = "running" =>
          /\ u # t /\ at[u] = "running" /\ child'[u] = child[u]
          /\ child[u] \in Slots \ {s} /\ proc[child[u]].state \in {"running", "exited"}
    BY <1>0, <1>2, <1>3 DEF IndInv, OwnInv
  <2>2. \A u, v \in Threads :
          at'[u] = "running" /\ at'[v] = "running" /\ child'[u] = child'[v] => u = v
    BY <2>1, SMTT(30) DEF IndInv, OwnInv
  <2>3. ASSUME NEW r \in Slots, proc'[r].state = "running", proc'[r].op = "replace"
        PROVE  \E u \in Threads : at'[u] = "running" /\ child'[u] = r /\ job'[u] = "pass"
    <3>1. r # s /\ proc[r].state = "running" /\ proc[r].op = "replace"
      BY <1>1, <2>3
    <3>2. PICK u \in Threads : at[u] = "running" /\ child[u] = r /\ job[u] = "pass"
      BY <3>1 DEF IndInv, OwnInv
    <3>3. u # t
      BY <1>4, <3>1, <3>2
    <3> QED  BY <1>0, <1>2, <1>3, <3>2, <3>3
  <2>4. \A u \in Threads : at'[u] = "running" =>
          child'[u] \in Slots /\ proc'[child'[u]].state \in {"running", "exited"}
    BY <1>1, <2>1, SMTT(30)
  <2> QED  BY <2>2, <2>3, <2>4 DEF OwnInv
<1>8. CountInv'
  <2>1. Orphans' = Orphans
    BY <1>0, <1>1 DEF Orphans, Killed
  <2>2. CountsTheUnreaped'
    BY <1>0, <1>1 DEF IndInv, CountInv, CountsTheUnreaped, TypeInv
  <2>3. Busy(t) /\ unreaped' \in {unreaped, unreaped + 1}
    BY <1>0 DEF Busy
  <2> QED  BY <1>0, <1>3, <2>1, <2>2, <2>3, FewerFree, SMTT(30) DEF IndInv, CountInv
<1>9. ReplaceInv' /\ TimeoutInv'
  <2>1. OnItsWay' = OnItsWay
    BY <1>0, <1>1 DEF OnItsWay, Orphans, Alive, Killed
  <2>2. Blocked => Blocked'
    BY <1>0, <1>1 DEF Blocked, IndInv, TypeInv
  <2>3. ReplaceInv'
    BY <1>0, <1>3, <2>1 DEF IndInv, ReplaceInv
  <2> QED  BY <1>0, <1>3, <2>2, <2>3, SMTT(30) DEF IndInv, TimeoutInv, Busy
<1> QED  BY <1>5, <1>6, <1>7, <1>8, <1>9, SMTT(30) DEF IndInv

(* No tc at all: one more failure.                                         *)
LEMMA NoTcOK ==
  ASSUME IndInv, NEW t \in Threads, at[t] = "checked",
         at' = [at EXCEPT ![t] = "ready"], spawnFails' = spawnFails + 1,
         UNCHANGED <<proc, child, unreaped, reapers, rtnl, job, lock, timeouts>>
  PROVE  IndInv'
<1>1. /\ at' \in [Threads -> {"idle", "waiting", "ready", "checked", "running"}]
      /\ at'[t] = "ready" /\ \A u \in Threads \ {t} : at'[u] = at[u]
  BY TypesAtReturn, Zenon
<1>2. TypeInv'
  BY <1>1 DEF IndInv, TypeInv
<1>3. ThreadInv'
  BY <1>1, JobKept DEF Busy
<1>4. OwnInv'
  <2>1. \A u \in Threads : at'[u] = "running" <=> at[u] = "running"
    BY <1>1
  <2> QED  BY <2>1 DEF IndInv, OwnInv
<1>5. UNCHANGED <<Orphans, OnItsWay, Blocked, CountsTheUnreaped>>
  BY DEF Orphans, OnItsWay, Blocked, CountsTheUnreaped, Killed, Alive
<1>6. CountInv'
  <2>1. Busy(t) /\ unreaped' \in {unreaped, unreaped + 1}
    BY DEF Busy
  <2>2. unreaped' + Slot("worker")' + Slot("request")' <= 2
    BY <1>1, <2>1, FewerFree
  <2> QED  BY <1>5, <2>2, Finite DEF IndInv, CountInv, TypeInv
<1>7. ReplaceInv'
  BY <1>1, <1>5 DEF IndInv, ReplaceInv
<1>8. TimeoutInv'
  BY <1>1, <1>5 DEF IndInv, TimeoutInv, TypeInv
<1> QED  BY <1>2, <1>3, <1>4, <1>6, <1>7, <1>8 DEF IndInv

LEMMA SpawnOK == ASSUME IndInv, NEW t \in Threads, Spawn(t) PROVE IndInv'
<1>0. at[t] = "checked" /\ UNCHANGED <<rtnl, job, lock, timeouts>>
  BY DEF Spawn
<1>1. CASE /\ spawnFails' = spawnFails + 1 /\ Return(t)
           /\ UNCHANGED <<proc, child, unreaped, reapers>>
  BY <1>0, <1>1, NoTcOK, Zenon DEF Return
<1>2. ASSUME NEW s \in Slots, NEW op \in IF job[t] = "pass" THEN {"show", "replace"} ELSE {"show"},
             proc[s].state = "gone",
             proc' = [proc EXCEPT ![s] = [state |-> "running", op |-> op]],
             child' = [child EXCEPT ![t] = s], at' = [at EXCEPT ![t] = "running"],
             UNCHANGED <<unreaped, reapers, spawnFails>>
      PROVE  IndInv'
  BY <1>0, <1>2, StartedOK, Zenon DEF Started
<1>3. ASSUME NEW s \in Slots, NEW op \in IF job[t] = "pass" THEN {"show", "replace"} ELSE {"show"},
             proc[s].state = "gone", spawnFails' = spawnFails + 1,
             proc' = [proc EXCEPT ![s] = [state |-> "killed", op |-> op]],
             unreaped' = unreaped + 1, reapers' = reapers \cup {s}, Return(t), UNCHANGED child
      PROVE  IndInv'
  <2>0. /\ op \in {"show", "replace"} /\ (op = "replace" => job[t] = "pass")
        /\ proc \in [Slots -> Process] /\ s \notin reapers
        /\ \A u \in Threads : at[u] = "running" => child[u] # s
        /\ timeouts \in [Threads -> Nat] /\ child \in [Threads -> Slots \cup {NoChild}]
    BY <1>3, ZenonT(10) DEF IndInv, TypeInv, OwnInv, CountInv, CountsTheUnreaped
  <2>1. /\ proc' \in [Slots -> Process] /\ \A r \in Slots \ {s} : proc'[r] = proc[r]
        /\ proc'[s].state = "killed" /\ proc'[s].op = op
    BY <1>3, <2>0, ZenonT(10) DEF Process
  <2>2. op = "replace" => OnItsWay \subseteq {s}
    BY <1>0, <2>0, ZenonT(10) DEF IndInv, ReplaceInv
  <2>3. Busy(t) /\ at' = [at EXCEPT ![t] = "ready"] /\ proc[s].state # "killed"
    BY <1>0, <1>3 DEF Busy, Return
  <2> QED  BY <1>0, <1>3, <2>0, <2>1, <2>2, <2>3, LeftOK, ZenonT(30)
<1> QED  BY <1>1, <1>2, <1>3 DEF Spawn

-----------------------------------------------------------------------------
LEMMA NextOK == ASSUME IndInv, [Next]_vars PROVE IndInv'
<1>1. CASE RtnlTaken \/ RtnlGivenBack
  BY <1>1, RtnlOK
<1>2. ASSUME NEW s \in Slots, TcExits(s) \/ Reap(s) PROVE IndInv'
  BY <1>2, TcExitsOK, ReapOK
<1>3. ASSUME NEW t \in Threads, NEW j \in {"pass", "status", "drain"}, Begin(t, j) PROVE IndInv'
  BY <1>3, BeginOK
<1>4. ASSUME NEW t \in Threads, Step(t) PROVE IndInv'
  BY <1>4, LockOK, FinishOK, RunTcOK, SpawnOK, ExitedOK, TimeoutOK DEF Step
<1>5. CASE UNCHANGED vars
  <2>1. ProcsKept /\ UNCHANGED <<rtnl, job, at, child, lock, timeouts>>
    BY <1>5, SMTT(30) DEF vars, kernel, ProcsKept
  <2>2. TypeInv' /\ ThreadInv' /\ OwnInv'
    BY <2>1, SMTT(30) DEF ProcsKept, IndInv, TypeInv, ThreadInv, OwnInv
  <2>3. CountInv' /\ ReplaceInv' /\ TimeoutInv'
    BY <2>1, SetsKept, ZenonT(10) DEF ProcsKept, IndInv, CountInv, ReplaceInv, TimeoutInv, Blocked, Slot, Busy
  <2> QED  BY <2>2, <2>3 DEF IndInv
<1>6. "worker" \in Threads /\ "request" \in Threads
  BY DEF Threads
<1> QED  BY <1>1, <1>2, <1>3, <1>4, <1>5, <1>6 DEF Next

(* The bounds follow: what is left behind is somebody's to reap or an      *)
(* orphan, and so is a replace that is still on its way.                   *)
LEMMA Bounds == ASSUME IndInv PROVE TcContained
<1>0. /\ CountsTheUnreaped /\ unreaped \in Nat /\ spawnFails \in Nat
      /\ Cardinality(Orphans) \in Nat /\ Cardinality(Orphans) <= spawnFails
      /\ IsFiniteSet(Orphans) /\ IsFiniteSet(reapers)
  BY Finite DEF IndInv, TypeInv, CountInv, CountsTheUnreaped
<1>1. Cardinality(reapers) <= 2 /\ Cardinality(reapers) \in Nat
  <2>1. \A t \in Threads : Slot(t) \in {0, 1}
    BY DEF Slot
  <2> QED  BY <1>0, <2>1 DEF IndInv, CountInv, CountsTheUnreaped, Threads
<1>2. ASSUME NEW A, NEW n \in Nat, IsFiniteSet(A), Cardinality(A) <= n,
             NEW S \in SUBSET (A \cup Orphans)
      PROVE  Cardinality(S) <= n + spawnFails
  <2>1. /\ IsFiniteSet(A \cup Orphans) /\ IsFiniteSet(A \cap Orphans)
        /\ Cardinality(A \cup Orphans)
             = Cardinality(A) + Cardinality(Orphans) - Cardinality(A \cap Orphans)
    <3>1. A \cap Orphans \in SUBSET A
      OBVIOUS
    <3> QED  BY <1>0, <1>2, <3>1, FS_Union, FS_Subset
  <2>2. /\ Cardinality(A) \in Nat /\ Cardinality(A \cap Orphans) \in Nat
        /\ IsFiniteSet(S) /\ Cardinality(S) \in Nat /\ Cardinality(A \cup Orphans) \in Nat
        /\ Cardinality(S) <= Cardinality(A \cup Orphans)
    BY <1>2, <2>1, FS_Subset, FS_CardinalityType
  <2> QED  BY <1>0, <1>2, <2>1, <2>2
<1>3. FewLeftBehind
  <2>1. Killed \in SUBSET (reapers \cup Orphans)
    BY DEF Orphans
  <2> QED  BY <1>0, <1>1, <1>2, <2>1 DEF FewLeftBehind
<1>4. OneReplaceInFlight
  <2>1. {s \in Alive : proc[s].op = "replace"} \in SUBSET (OnItsWay \cup Orphans)
    BY DEF OnItsWay
  <2>2. IsFiniteSet(OnItsWay) /\ Cardinality(OnItsWay) <= 1
    <3>1. CASE OnItsWay = {}
      BY <3>1, FS_EmptySet
    <3>2. CASE OnItsWay # {}
      <4>1. PICK s \in OnItsWay : TRUE
        BY <3>2
      <4>2. OnItsWay = {s}
        BY <4>1 DEF IndInv, ReplaceInv
      <4>3. IsFiniteSet({s}) /\ Cardinality({s}) = 1
        BY FS_Singleton
      <4> QED  BY <4>2, <4>3
    <3> QED  BY <3>1, <3>2
  <2> QED  BY <1>2, <2>1, <2>2 DEF OneReplaceInFlight
<1>5. OneTimeoutPerPass
  BY <1>0 DEF IndInv, TimeoutInv, OneTimeoutPerPass, TypeInv
<1> QED  BY <1>0, <1>3, <1>4, <1>5, SMTT(30) DEF TcContained

(* However many passes, status reads and enables there are, and however    *)
(* long rtnl is held (run_tc, run_bounded and reap_later, in guard.rs):    *)
(* TC_UNREAPED is exact, a pass has one timeout, two killed tc are left    *)
(* behind and one replace is on its way at most, one more of each for      *)
(* every thread that could not be spawned.                                 *)
THEOREM Contained == Spec => []TcContained
<1>1. Init => IndInv
  BY InitOK
<1>2. IndInv /\ [Next]_vars => IndInv'
  BY NextOK
<1>3. IndInv => TcContained
  BY Bounds
<1> QED  BY <1>1, <1>2, <1>3, PTL DEF Spec
=============================================================================
