----------------------------- MODULE GuardQdisc -----------------------------
(***************************************************************************)
(* The qdisc half of the guard (guard.rs): one pass reads                  *)
(* net.core.default_qdisc, reads the root qdisc of every managed device,   *)
(* and turns the replaceable ones into fq with tc, against other programs  *)
(* that change the default and the roots between any two of its steps.     *)
(*                                                                         *)
(* A qdisc is its kind and whether somebody configured it ("set": a cake   *)
(* with a bandwidth, an fq with a maxrate).  A root is a qdisc with the    *)
(* major number of its handle and, for mq, one child per transmit queue.   *)
(* tc fails where the environment says so.  The lock and arming are those  *)
(* of SpeederDaemon, tc's timeout is TcRunner, managed_devices is          *)
(* GuardDevices.                                                           *)
(***************************************************************************)
EXTENDS Integers, FiniteSets, Sequences, SequencesExt

CONSTANTS Devs,        \* network devices the guard may have to manage
          TxQueues,    \* [Devs -> number of transmit queues]
          Defaults,    \* values other programs give default_qdisc
          Installed,   \* roots other programs install
          IntervalS,   \* [guard] interval_s
          FailuresMax, \* bound on the count of consecutive failures
          NoRoot       \* a device that is down: tc lists no root

GuardAssumption == /\ IntervalS \in Nat
                   /\ FailuresMax \in Nat \ {0}

REPLACEABLE_KINDS == {"fq_codel", "cake"}       \* of the source's fourteen
DELIBERATE_KINDS == {"noqueue", "htb"}          \* of the source's thirteen
RETRY_BACKOFF_MIN == 30
RETRY_BACKOFF_MAX == 300

\* Majors: 0 is the kernel's own, 1 a script's, the rest the range from 8000:.
AutoMajors == 2..4
CLSACT == 9                                     \* ffff:

VARIABLES default,    \* net.core.default_qdisc
          root,       \* [Devs -> root or NoRoot]
          managed,    \* the devices managed_devices finds now
          quiet,      \* nothing else changes the host and tc works, from now on
          pc,         \* where the pass is, "idle" between passes
          trigger,    \* "Enable" or "Periodic"
          seen,       \* [Devs -> what tc showed of it], read at the scan
          todo,       \* targets not enforced yet
          dev,        \* the device being replaced
          current,    \* replace_root's `current`
          round,      \* "First" or "Fallback"
          cmds,       \* replace commands still to run
          stuck,      \* [Devs -> NoStuck or a failed replace]
          touched,    \* history: devices changed by others since last read
          defTouched  \* history: the default changed since last read

host == <<default, root, managed, quiet>>
ghost == <<touched, defTouched>>
vars == <<host, pc, trigger, seen, todo, dev, current, round, cmds, stuck, ghost>>

NoStuck == [summary |-> {}, failures |-> 0, left |-> 0]
Nothing == [kind |-> "none", major |-> 0, set |-> FALSE, children |-> {}, majors |-> {}]
Failed == [Nothing EXCEPT !.kind = "error"]

-----------------------------------------------------------------------------
(* What tc prints of a device, as lines, and what RootQdisc::parse makes   *)
(* of it.  clsact is there too: skyline_tc hangs off it.                   *)
Show(r) ==
  {[kind |-> "clsact", major |-> CLSACT, parent |-> CLSACT, queue |-> 1, set |-> FALSE]}
  \cup IF r = NoRoot THEN {}
       ELSE {[kind |-> r.kind, major |-> r.major, parent |-> -1, queue |-> 0, set |-> r.set]}
            \cup {[kind |-> r.kids[q].kind, major |-> 0, parent |-> r.major, queue |-> q,
                   set |-> r.kids[q].set] : q \in DOMAIN r.kids}

CakeShaping(kind, set) == kind = "cake" /\ set

Parse(lines) ==
  LET own == {l \in lines : /\ l.kind # "clsact"
                            /\ l.major # CLSACT
                            /\ l.parent # CLSACT}
      top == {l \in own : l.parent = -1}
  IN IF top = {} THEN Nothing
     ELSE LET r == CHOOSE l \in top : TRUE
              kids == {l \in own : r.kind = "mq" /\ l.parent = r.major}
          IN [kind |-> r.kind, major |-> r.major,
              set |-> CakeShaping(r.kind, r.set),
              children |-> {[kind |-> l.kind, queue |-> l.queue,
                             set |-> CakeShaping(l.kind, l.set)] : l \in kids},
              majors |-> {l.major : l \in lines} \cup {l.parent : l \in lines \ {r}}]

Summary(p) == {p.kind} \cup {c.kind : c \in p.children}

KindVerdict(kind, shaping) ==
  CASE kind = "fq" -> "Fq"
    [] kind # "fq" /\ (shaping \/ kind \in DELIBERATE_KINDS) -> "Deliberate"
    [] kind \in REPLACEABLE_KINDS /\ ~shaping -> "Replace"
    [] OTHER -> "Unknown"

(* slip: one replaceable child is enough.                                  *)
VerdictEager(p) ==
  LET verdicts == {KindVerdict(c.kind, c.set) : c \in p.children}
  IN IF p.kind # "mq" THEN KindVerdict(p.kind, p.set)
     ELSE IF "Replace" \in verdicts THEN "Replace"
     ELSE IF verdicts = {"Fq"} THEN "Fq" ELSE "Unknown"

Verdict(p) ==
  LET verdicts == {KindVerdict(c.kind, c.set) : c \in p.children}
  IN IF p.kind # "mq" THEN KindVerdict(p.kind, p.set)
     ELSE CASE p.children = {} -> "Unknown"
            [] "Deliberate" \in verdicts -> "Deliberate"
            [] "Unknown" \in verdicts /\ "Deliberate" \notin verdicts -> "Unknown"
            [] verdicts = {"Fq", "Replace"} \/ verdicts = {"Replace"} -> "Replace"
            [] OTHER -> "Fq"

UnusedMajors(p) == AutoMajors \ p.majors

(* The commands, in order; none at all is FreshMqNeedsFqDefault.           *)
ReplacePlan(p, queues, defaultIsFq, rnd) ==
  LET odd == {c \in p.children : c.kind # "fq"}
  IN IF p.kind = "mq" /\ p.major # 0
     THEN IF /\ Cardinality(odd) > 1 /\ odd = p.children
             /\ defaultIsFq /\ rnd = "First" /\ UnusedMajors(p) # {}
          THEN <<[op |-> "root mq", queue |-> 0,
                  major |-> CHOOSE h \in UnusedMajors(p) : \A k \in UnusedMajors(p) : h <= k]>>
          ELSE SetToSeq({[op |-> "child", queue |-> c.queue, major |-> p.major] : c \in odd})
     ELSE IF queues > 1
          THEN IF defaultIsFq THEN <<[op |-> "root mq", queue |-> 0, major |-> 0]>> ELSE <<>>
          ELSE <<[op |-> "root fq", queue |-> 0, major |-> 0]>>

RetryBackoff(interval, failures) ==
  LET Least(a, b) == IF a < b THEN a ELSE b
      Most(a, b) == IF a > b THEN a ELSE b
      base == Most(interval, RETRY_BACKOFF_MIN)
      wanted == Least(base * 2^Least(failures - 1, 16), Most(RETRY_BACKOFF_MAX, interval))
  IN IF interval = 0 THEN wanted
     ELSE interval * Most(1, (wanted + interval - 1) \div interval)

-----------------------------------------------------------------------------
(* The kernel's side of tc qdisc replace, and of a device coming up.       *)
Plain(kind) == [kind |-> kind, set |-> FALSE]
Single(kind, major) == [kind |-> kind, major |-> major, set |-> FALSE, kids |-> <<>>]
FreshMq(d, major) == [kind |-> "mq", major |-> major, set |-> FALSE,
                      kids |-> [q \in 1..TxQueues[d] |-> Plain(default)]]
AutoRoot(d) == IF TxQueues[d] > 1 THEN FreshMq(d, 0) ELSE Single(default, 0)

AutoMajor(r) == CHOOSE m \in AutoMajors \ {r.major} : TRUE

(* The root a command leaves, as a set that is empty when the kernel      *)
(* refuses it.  A change to a qdisc of the same kind and handle is ignored. *)
Replaced(d, c) ==
  LET r == root[d]
  IN CASE r = NoRoot -> {}
       [] r # NoRoot /\ c.op = "root fq" ->
            {Single("fq", AutoMajor(r))}
       [] r # NoRoot /\ c.op = "root mq" /\ c.major = 0 ->
            IF r.kind = "mq" /\ r.major # 0 THEN {r}
            ELSE {FreshMq(d, AutoMajor(r))}
       [] r # NoRoot /\ c.op = "root mq" /\ c.major # 0 ->
            IF r.major # c.major THEN {FreshMq(d, c.major)}
            ELSE IF r.kind = "mq" THEN {r} ELSE {}
       [] r # NoRoot /\ c.op = "child" ->
            IF r.kind # "mq" \/ r.major # c.major THEN {}
            ELSE IF r.kids[c.queue].kind = "fq" THEN {r}
            ELSE {[r EXCEPT !.kids[c.queue] = Plain("fq")]}

-----------------------------------------------------------------------------
Init == /\ default \in Defaults
        /\ root = [d \in Devs |-> AutoRoot(d)]
        /\ managed = Devs
        /\ quiet = FALSE
        /\ pc = "idle" /\ trigger = "Periodic"
        /\ seen = [d \in Devs |-> Nothing]
        /\ todo = {} /\ dev \in Devs /\ current = Nothing
        /\ round = "First" /\ cmds = <<>>
        /\ stuck = [d \in Devs |-> NoStuck]
        /\ touched = {} /\ defTouched = FALSE

(* Other programs, and the devices.                                        *)
Idle == UNCHANGED <<pc, trigger, seen, todo, dev, current, round, cmds, stuck>>

OthersSetDefault == /\ ~quiet
                    /\ default' \in Defaults \ {default}
                    /\ defTouched' = (pc # "idle")
                    /\ UNCHANGED <<root, managed, quiet, touched>> /\ Idle
OthersInstall(d) == /\ ~quiet
                    /\ \E r \in Installed : /\ Len(r.kids) \in {0, TxQueues[d]}
                                            /\ root' = [root EXCEPT ![d] = r]
                    /\ touched' = IF pc = "idle" THEN {} ELSE touched \cup {d}
                    /\ UNCHANGED <<default, managed, quiet, defTouched>> /\ Idle
LinkChange(d) == /\ ~quiet
                 /\ root' = [root EXCEPT ![d] = IF @ = NoRoot THEN AutoRoot(d) ELSE NoRoot]
                 /\ touched' = IF pc = "idle" THEN {} ELSE touched \cup {d}
                 /\ UNCHANGED <<default, managed, quiet, defTouched>> /\ Idle
TopologyChange == /\ ~quiet
                  /\ managed' \in (SUBSET Devs) \ {managed}
                  /\ UNCHANGED <<default, root, quiet, ghost>> /\ Idle
FallQuiet == /\ ~quiet /\ quiet' = TRUE
             /\ UNCHANGED <<default, root, managed, ghost>> /\ Idle

-----------------------------------------------------------------------------
(* A pass: enforce_default_qdisc ...                                       *)
Tick == /\ pc = "idle" /\ IntervalS > 0
        /\ pc' = "default" /\ trigger' = "Periodic"
        /\ stuck' = [d \in Devs |-> IF stuck[d].left > IntervalS
                                    THEN [stuck[d] EXCEPT !.left = @ - IntervalS]
                                    ELSE [stuck[d] EXCEPT !.left = 0]]
        /\ UNCHANGED <<host, seen, todo, dev, current, round, cmds, ghost>>

ArmAndEnforce == /\ pc = "idle" /\ ~quiet
                 /\ pc' = "default" /\ trigger' = "Enable"
                 /\ stuck' = [d \in Devs |-> NoStuck]
                 /\ UNCHANGED <<host, seen, todo, dev, current, round, cmds, ghost>>

EnforceDefaultQdisc ==
  /\ pc = "default" /\ pc' = "scan"
  /\ \/ default' = "fq"
     \/ ~quiet /\ UNCHANGED default             \* unreadable, or not writable
  /\ UNCHANGED <<root, managed, quiet, trigger, seen, todo, dev, current, round, cmds,
                 stuck, ghost>>

(* ... then every managed device's root, read before any is enforced.      *)
Scan ==
  /\ pc = "scan"
  /\ \/ /\ seen' = [d \in Devs |-> IF d \in managed THEN Parse(Show(root[d])) ELSE Nothing]
        /\ todo' = managed
     \/ /\ ~quiet                               \* a tc qdisc show that fails
        /\ \E d \in managed :
             seen' = [e \in Devs |-> IF e = d THEN Failed ELSE Parse(Show(root[e]))]
        /\ todo' = managed
     \/ /\ ~quiet                               \* tc_interface does not exist
        /\ UNCHANGED seen /\ todo' = {}
  /\ pc' = "device"
  /\ stuck' = [d \in Devs |-> IF d \in todo' THEN stuck[d] ELSE NoStuck]
  /\ touched' = {}
  /\ UNCHANGED <<host, trigger, dev, current, round, cmds, defTouched>>

(* slip: a root that could not be replaced once is left for good.          *)
BackingForever(d) == trigger = "Periodic" /\ stuck[d].summary = Summary(seen[d])

(* enforce_device, up to replace_root.                                     *)
Backing(d) == /\ trigger = "Periodic"
              /\ stuck[d].summary = Summary(seen[d])
              /\ stuck[d].left > 0

EnforceDevice ==
  /\ pc = "device"
  /\ \E d \in todo :
       /\ todo' = todo \ {d}
       /\ \/ /\ seen[d].kind \in {"none", "error"}
             /\ UNCHANGED <<pc, dev, current, round, stuck>>
          \/ /\ seen[d].kind \notin {"none", "error"}
             /\ Verdict(seen[d]) # "Replace"
             /\ stuck' = [stuck EXCEPT ![d] = NoStuck]
             /\ UNCHANGED <<pc, dev, current, round>>
          \/ /\ seen[d].kind \notin {"none", "error"}
             /\ Verdict(seen[d]) = "Replace" /\ Backing(d)
             /\ UNCHANGED <<pc, dev, current, round, stuck>>
          \/ /\ seen[d].kind \notin {"none", "error"}
             /\ Verdict(seen[d]) = "Replace" /\ ~Backing(d)
             /\ pc' = "plan" /\ dev' = d
             /\ current' = seen[d] /\ round' = "First"
             /\ UNCHANGED stuck
  /\ UNCHANGED <<host, trigger, seen, cmds, ghost>>

EndPass == /\ pc = "device" /\ todo = {}
           /\ pc' = "idle"
           /\ seen' = [d \in Devs |-> Nothing]
           /\ touched' = {} /\ defTouched' = FALSE
           /\ UNCHANGED <<host, trigger, todo, dev, current, round, cmds, stuck>>

-----------------------------------------------------------------------------
(* replace_root: at most two rounds of commands, each followed by a look.  *)
ReplaceFails ==
  LET summary == Summary(seen[dev])
      failures == IF stuck[dev].summary = summary /\ stuck[dev].failures < FailuresMax
                  THEN stuck[dev].failures + 1
                  ELSE IF stuck[dev].summary = summary THEN FailuresMax ELSE 1
  IN /\ pc' = "device" /\ cmds' = <<>> /\ current' = Nothing /\ round' = "First"
     /\ stuck' = [stuck EXCEPT ![dev] = [summary |-> summary, failures |-> failures,
                                         left |-> RetryBackoff(IntervalS, failures)]]

ReplaceSucceeds == /\ pc' = "device" /\ cmds' = <<>>
                   /\ current' = Nothing /\ round' = "First"
                   /\ stuck' = [stuck EXCEPT ![dev] = NoStuck]

PlanRound ==
  /\ pc = "plan"
  /\ \E isFq \in IF quiet THEN {default = "fq"} ELSE {default = "fq", FALSE} :
       LET plan == ReplacePlan(current, TxQueues[dev], isFq, round)
       IN IF plan = <<>> THEN ReplaceFails
          ELSE cmds' = plan /\ pc' = "command" /\ UNCHANGED <<current, round, stuck>>
  /\ defTouched' = FALSE
  /\ UNCHANGED <<host, trigger, seen, todo, dev, touched>>

RunCommand ==
  /\ pc = "command"
  /\ \/ /\ \E r \in Replaced(dev, Head(cmds)) : root' = [root EXCEPT ![dev] = r]
        /\ cmds' = Tail(cmds)
        /\ pc' = IF Len(cmds) = 1 THEN "reread" ELSE "command"
        /\ UNCHANGED <<current, round, stuck>>
     \/ /\ Replaced(dev, Head(cmds)) = {} \/ ~quiet
        /\ ReplaceFails
        /\ UNCHANGED root
  /\ UNCHANGED <<default, managed, quiet, trigger, seen, todo, dev, ghost>>

Reread ==
  /\ pc = "reread"
  /\ \/ LET now == Parse(Show(root[dev]))
        IN /\ touched' = touched \ {dev}
           /\ CASE now # Nothing /\ Verdict(now) = "Fq" -> ReplaceSucceeds
                [] now # Nothing /\ Verdict(now) = "Replace" /\ round = "First" ->
                     /\ pc' = "plan" /\ round' = "Fallback" /\ current' = now
                     /\ UNCHANGED <<cmds, stuck>>
                [] OTHER -> ReplaceFails
     \/ ~quiet /\ ReplaceFails /\ UNCHANGED touched
  /\ UNCHANGED <<host, trigger, seen, todo, dev, defTouched>>

Guard == \/ EnforceDefaultQdisc \/ Scan \/ EnforceDevice \/ EndPass
         \/ PlanRound \/ RunCommand \/ Reread

Next == \/ OthersSetDefault \/ TopologyChange \/ FallQuiet
        \/ \E d \in Devs : OthersInstall(d) \/ LinkChange(d)
        \/ Tick \/ ArmAndEnforce \/ Guard

Spec == Init /\ [][Next]_vars

(* The thread wakes every interval, and every host call of a pass returns. *)
LiveSpec == Spec /\ WF_vars(Tick) /\ WF_vars(Guard)

-----------------------------------------------------------------------------
(* Types.                                                                  *)
TypeOK == /\ pc \in {"idle", "default", "scan", "device", "plan", "command", "reread"}
          /\ todo \subseteq Devs /\ managed \subseteq Devs
          /\ \A d \in Devs : stuck[d].failures \in 0..FailuresMax
          /\ pc = "command" => cmds # <<>>

(* A replace never takes away what somebody built on purpose: a deliberate *)
(* or unknown root, a shaped child, or an fq child with parameters of its  *)
(* own.  A device somebody changed after the guard looked is excepted.     *)
Own(k) == k.set /\ k.kind \in {"fq", "cake"}
SparesOthersWork ==
  [][\A d \in Devs \ touched :
       cmds' # cmds /\ root'[d] # root[d] =>
         /\ Verdict(Parse(Show(root[d]))) = "Replace"
         /\ \A q \in DOMAIN root[d].kids :
              Own(root[d].kids[q]) => q \in DOMAIN root'[d].kids
                                      /\ root'[d].kids[q] = root[d].kids[q]]_vars

(* An mq the guard creates has fq children, unless the default was changed *)
(* after the guard read it for this very plan.                             *)
FreshMqIsFq ==
  [][\A d \in Devs :
       (cmds' # cmds /\ root'[d] # root[d] /\ ~defTouched /\ Head(cmds).op = "root mq")
       => \A q \in DOMAIN root'[d].kids : root'[d].kids[q].kind = "fq"]_vars

(* What a pass does to a device is what it set out to do.                  *)
ReplacesRightly == []TypeOK /\ SparesOthersWork /\ FreshMqIsFq

(* Once nothing else changes the host and tc works, every managed device   *)
(* that carries a replaceable root ends on fq, however its replaces failed *)
(* before, and stays there.                                                *)
Settled == \A d \in managed :
             root[d] = NoRoot \/ Verdict(Parse(Show(root[d]))) # "Replace"
EventuallyFq == quiet ~> [](Settled)
=============================================================================
