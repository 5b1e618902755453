----------------------------- MODULE MCProcess -----------------------------
(* What skyline-speederd does around its requests, for TLC: the error      *)
(* reports it leaves (ErrorReports) beside the parts of Process, how it    *)
(* starts, its event log, the readings it keeps and the pages ssctl shows. *)
(* They share no state, so a behaviour is one of a single part, named by   *)
(* `part`, while the others rest where they began.                         *)
EXTENDS Process, TLC

CONSTANTS f1, f2, f3, t1, NoOne

VARIABLES part,
          final, staged, text, rec, ask

log == <<handle, where, rotated, len, lines, torn, tampered>>
start == <<host, fallback, phase, report, notes, policy, hook, cc, verified,
           unloaded, enabled, changes>>
window == <<sampled, readings, next, idle, up, failed>>
status == <<attached, accelerating, draining, armed, modules, rto, dscp, redundancy,
            copying, declared, tc, sockops, default, qdisc, flows, seen>>
reports == <<final, staged, text, rec, ask>>

-----------------------------------------------------------------------------
(* StartUp: every host that differs from a good one in at most two ways.   *)
(* cubic is a module or built in; tcp_diag registers no algorithm;         *)
(* tcp_h-y is found under the name h_y.                                    *)
MCFallbacks == {"cubic", "diag", "h_y", "../cubic"}
MCPlainNames == {"cubic", "diag", "h_y", "h-y", "reno", "c3"}
MCCanon == [n \in MCPlainNames \cup {"../cubic"} |-> IF n = "h-y" THEN "h_y" ELSE n]
MCProvides == [m \in {"cubic", "diag", "h-y"} |-> IF m = "diag" THEN {} ELSE {m}]

Good == [btf |-> "ok", struct_ops |-> TRUE, rack_reo_hook |-> FALSE,
         tx_start_op |-> FALSE, bpffs |-> TRUE, cgroup_v2 |-> TRUE,
         cgroup_path |-> TRUE, registered |-> {"reno"},
         dep |-> {"cubic", "diag", "h-y"}, alias |-> {}, disabled |-> FALSE,
         fq |-> {"dep"}, interface |-> "ethernet", tc_tool |-> TRUE,
         cc |-> [abi |-> "ours", txs |-> TRUE],
         policy_object |-> TRUE, tc_object |-> TRUE]

Alternatives ==
  [btf |-> {"absent", "bad"}, struct_ops |-> {FALSE}, rack_reo_hook |-> {TRUE},
   tx_start_op |-> {TRUE}, bpffs |-> {FALSE}, cgroup_v2 |-> {FALSE},
   cgroup_path |-> {FALSE}, registered |-> {{"reno", "cubic"}, {"reno", "skyline_cc"}},
   dep |-> {{}}, alias |-> {{<<"cubic", "cubic">>}}, disabled |-> {TRUE},
   fq |-> {{"builtin"}, {"loaded"}, {"loaded", "default"}, {}},
   interface |-> {"unset", "tunnel", "missing"}, tc_tool |-> {FALSE},
   cc |-> {[abi |-> "ours", txs |-> FALSE], [abi |-> "other", txs |-> TRUE],
           [abi |-> "none", txs |-> FALSE], [abi |-> "missing", txs |-> FALSE]},
   policy_object |-> {FALSE}, tc_object |-> {FALSE}]

OneOff(h) == UNION {{[h EXCEPT ![f] = v] : v \in Alternatives[f]} : f \in DOMAIN Good}

MCHosts == {Good} \cup OneOff(Good) \cup UNION {OneOff(h) : h \in OneOff(Good)}

-----------------------------------------------------------------------------
(* ErrorReports: three failures, room for two reports.                     *)
R == INSTANCE ErrorReports WITH
       Failures <- {f1, f2, f3}, Threads <- {t1}, DAEMON_REPORTS_MAX <- 2,
       CountMax <- 2, Inodes <- 1..6, None <- NoOne

-----------------------------------------------------------------------------
StartRests == U!Init /\ host = Good /\ fallback = "cubic"
StatusRests == /\ S!Init
               /\ modules = {} /\ ~redundancy /\ ~declared /\ tc = "unset"
               /\ sockops = "absent" /\ qdisc = "fq"

PInit == /\ Init /\ R!Init /\ W!Init
         /\ \/ part = "start" /\ U!Init /\ StatusRests
            \/ part = "status" /\ StartRests /\ S!Init
            \/ part \in {"log", "reports", "window"} /\ StartRests /\ StatusRests

PNext == /\ UNCHANGED part
         /\ \/ part = "start" /\ U!Next /\ UNCHANGED <<log, window, status, reports>>
            \/ part = "log" /\ Next /\ UNCHANGED <<start, window, status, reports>>
            \/ part = "window" /\ W!Next /\ UNCHANGED <<log, start, status, reports>>
            \/ part = "status" /\ S!Next /\ UNCHANGED <<log, start, window, reports>>
            \/ part = "reports" /\ R!Next /\ UNCHANGED <<log, start, window, status>>

PSpec == PInit /\ [][PNext]_<<part, log, start, window, status, reports>>

(* ErrorReports: reports are whole, few, sent on a yes only and removed    *)
(* only when answered.                                                     *)
ReportsKept == R!ReportsKept
=============================================================================
