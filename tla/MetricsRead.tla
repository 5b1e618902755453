----------------------------- MODULE MetricsRead ----------------------------
(***************************************************************************)
(* skyline_cc's counters from the ACK that counts to the line ssctl shows. *)
(* A run of cong_control (skyline_cc.bpf.c) increments its CPU's counters  *)
(* one after another, without atomics; a run in process context is         *)
(* interrupted by one in softirq between a load and its store.  A reader   *)
(* on another CPU copies the struct counter by counter in memory order     *)
(* (read_metrics), and view.rs compares the counters of one copy.          *)
(***************************************************************************)
EXTENDS Naturals, Sequences

CONSTANTS CPU,       \* CPUs, 1 .. n
          RunsMax,   \* bound on runs of cong_control
          ReadsMax   \* bound on readings of the map

CpuAssumption == CPU \in Nat \ {0}

VARIABLES mem,      \* the per-CPU copies of the metrics map
          at,       \* [cpu][context]: the counter incremented next, or "idle"
          loaded,   \* [cpu]: what the interruptible run has loaded, as {} or {v}
          runs,     \* runs started
          copied,   \* the reading being made: how many (cpu, counter) pairs are in it
          total,    \* and the sums so far
          readings  \* finished readings

vars == <<mem, at, loaded, runs, copied, total, readings>>

(* slip: guardrail_rounds moved up in the struct, next to its kin.         *)
CountersReordered == <<"ack_events", "loss_events", "guardrail_rounds", "guardrail_hits", "cwnd_cap_hits">>

(* The counters the rates are made of, in the order of struct              *)
(* skyline_metrics.                                                        *)
Counters == <<"ack_events", "loss_events", "guardrail_hits", "guardrail_rounds", "cwnd_cap_hits">>
Counter == {"ack_events", "loss_events", "guardrail_hits", "guardrail_rounds", "cwnd_cap_hits"}
Zero == [c \in Counter |-> 0]
Cpus == 1 .. CPU

Init == /\ mem = [p \in Cpus |-> Zero]
        /\ at = [p \in Cpus |-> [x \in {"task", "softirq"} |-> "idle"]]
        /\ loaded = [p \in Cpus |-> {}]
        /\ runs = 0 /\ copied = 0 /\ total = Zero /\ readings = <<>>

-----------------------------------------------------------------------------
(* skyline_cong_control, by the counters it increments.                    *)
After(c) == CASE c = "idle" -> {"guardrail_rounds", "loss_events", "ack_events"}
              [] c = "guardrail_rounds" -> {"guardrail_hits", "loss_events", "ack_events"}
              [] c = "guardrail_hits" -> {"loss_events", "ack_events"}
              [] c = "loss_events" -> {"ack_events"}
              [] c = "ack_events" -> {"cwnd_cap_hits", "idle"}
              [] c = "cwnd_cap_hits" -> {"idle"}

Runs(p, x) == x = "task" => at[p]["softirq"] = "idle"
Goes(p, x) == \E c \in After(at[p][x]) : at' = [at EXCEPT ![p][x] = c]

Starts(p, x) == /\ at[p][x] = "idle" /\ Runs(p, x) /\ runs < RunsMax
                /\ runs' = runs + 1 /\ Goes(p, x)
                /\ UNCHANGED <<mem, loaded, copied, total, readings>>

Loads(p) == /\ at[p]["task"] # "idle" /\ Runs(p, "task") /\ loaded[p] = {}
            /\ loaded' = [loaded EXCEPT ![p] = {mem[p][at[p]["task"]]}]
            /\ UNCHANGED <<mem, at, runs, copied, total, readings>>

Stores(p) == /\ Runs(p, "task")
             /\ \E v \in loaded[p] : mem' = [mem EXCEPT ![p][at[p]["task"]] = v + 1]
             /\ loaded' = [loaded EXCEPT ![p] = {}] /\ Goes(p, "task")
             /\ UNCHANGED <<runs, copied, total, readings>>

(* In softirq: the reader is the only one to see the counters in between.  *)
Counts(p) == /\ at[p]["softirq"] # "idle"
             /\ mem' = [mem EXCEPT ![p][at[p]["softirq"]] = @ + 1]
             /\ Goes(p, "softirq")
             /\ UNCHANGED <<loaded, runs, copied, total, readings>>

-----------------------------------------------------------------------------
(* read_metrics: lookup_percpu copies CPU by CPU, counter by counter, and  *)
(* accumulate sums.                                                        *)
Read == /\ Len(readings) < ReadsMax
        /\ LET n == Len(Counters)
               p == (copied \div n) + 1
               c == Counters[(copied % n) + 1]
               sum == [total EXCEPT ![c] = @ + mem[p][c]]
           IN IF copied + 1 = n * CPU
              THEN copied' = 0 /\ total' = Zero /\ readings' = Append(readings, sum)
              ELSE copied' = copied + 1 /\ total' = sum /\ UNCHANGED readings
        /\ UNCHANGED <<mem, at, loaded, runs>>

Next == \/ \E p \in Cpus : \/ \E x \in {"task", "softirq"} : Starts(p, x)
                           \/ Loads(p) \/ Stores(p) \/ Counts(p)
        \/ Read

Spec == Init /\ [][Next]_vars

-----------------------------------------------------------------------------
(* rate_mark, the threshold in percent.                                    *)
RateMark(part, whole, warnAbove) ==
  IF whole = 0 THEN "Off"
  ELSE IF part = 0 THEN "Good"
  ELSE IF part * 100 < warnAbove * whole THEN "Info" ELSE "Warn"

(* decisions: the counters it compares, each with what it is a share of.   *)
Decisions(m) ==
  LET loss == RateMark(m.loss_events, m.ack_events, 2)
  IN IF m.guardrail_hits > 0 /\ m.guardrail_rounds = 0
     THEN [daemon |-> "before 0.5.0", loss |-> loss,
           guardrail |-> RateMark(m.guardrail_hits, m.ack_events, 5), cap |-> "none"]
     ELSE [daemon |-> "0.5.0 or later", loss |-> loss,
           guardrail |-> RateMark(m.guardrail_hits, m.guardrail_rounds, 5),
           cap |-> RateMark(m.cwnd_cap_hits, m.ack_events, 5)]

-----------------------------------------------------------------------------
(* However a reading cuts into the runs that count, and whatever an        *)
(* interrupted increment loses, ssctl never takes this daemon for one from *)
(* before 0.5.0 (view.rs, decisions): a guardrail hit is never read        *)
(* without a round.  It rests on two orders, of the increments in          *)
(* skyline_cc.bpf.c and of the members of the struct.                      *)
CountedApart ==
  \A i \in DOMAIN readings : Decisions(readings[i]).daemon = "0.5.0 or later"

=============================================================================
