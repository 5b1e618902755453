----------------------------- MODULE MCPrograms -----------------------------
(* The BPF programs for TLC: the egress hook (TcEgress) beside those of    *)
(* Programs, the RTO callback, skyline_cc's round clock and its counters.  *)
(* They share no state, so a behaviour is one of a single part, named by   *)
(* `part`, while the others rest where they began.                         *)
EXTENDS Programs

VARIABLES part,
          tcp, dscp, red, todo, pass, stage, queue

egress == <<tcp, dscp, red, todo, pass, stage, queue>>
rounds == <<delivered, next, out, gap, parity>>
metrics == <<mem, counting, loaded, runs, copied, total, readings>>

-----------------------------------------------------------------------------
(* TcEgress: a sequence space of 8, which the stream leaves twice: the ISN *)
(* is close to its end, and the data more than once as long.               *)
Isn == {7}
Dscp == {[enabled |-> TRUE, dscp_value |-> 46], [enabled |-> FALSE, dscp_value |-> 0]}
Redundancy == {[enabled |-> TRUE, bytes |-> 3, delay_us |-> 10],
                 [enabled |-> TRUE, bytes |-> 2, delay_us |-> 5]}
Ext(walked, size) == [walked |-> walked, size |-> size]
Chain == {<<>>, <<Ext(FALSE, 8)>>,
            <<Ext(TRUE, 8), Ext(TRUE, 8)>>,
            <<Ext(TRUE, 8), Ext(TRUE, 8), Ext(TRUE, 8)>>,
            <<Ext(TRUE, 8), Ext(TRUE, 24)>>}

E == INSTANCE TcEgress WITH
       SeqSpace <- 8, Window <- 3, StreamMax <- 9, MaxHeaders <- 2, MaxBytes <- 24,
       at <- stage

ASSUME E!SpaceAssumption

-----------------------------------------------------------------------------
(* RtoTuning: two enabled configurations whose bounds do not overlap and a *)
(* disabled one, with the ceiling half on in one of the enabled ones.  The *)
(* unit of time is 10 ms for the floor and 10 s for the ceiling.           *)
Low == [enabled |-> TRUE, srtt_permille |-> 1000, floor_us |-> 2, ceiling_us |-> 5,
          warmup_samples |-> 0, normal |-> 0, congested |-> 0]
High == [enabled |-> TRUE, srtt_permille |-> 3000, floor_us |-> 8, ceiling_us |-> 20,
           warmup_samples |-> 1, normal |-> 1000, congested |-> 2000]
Off == [enabled |-> FALSE, srtt_permille |-> 1000, floor_us |-> 3, ceiling_us |-> 20,
          warmup_samples |-> 2, normal |-> 0, congested |-> 0]

MCTuning == {Low, High, Off}
MCBase == {1, 9}

-----------------------------------------------------------------------------
ERests == /\ E!Init /\ tcp.cc = "cubic" /\ tcp.open = "active" /\ red.bytes = 2
TRests == Init /\ ~sock.known

PInit == /\ R!Init /\ M!Init
         /\ \/ part = "egress" /\ E!Init /\ TRests
            \/ part = "rto" /\ ERests /\ Init
            \/ part \in {"rounds", "metrics"} /\ ERests /\ TRests

PNext == /\ UNCHANGED part
         /\ \/ part = "egress" /\ E!Next /\ UNCHANGED <<vars, rounds, metrics>>
            \/ part = "rto" /\ Next /\ UNCHANGED <<egress, rounds, metrics>>
            \/ part = "rounds" /\ R!Next /\ UNCHANGED <<egress, vars, metrics>>
            \/ part = "metrics" /\ M!Next /\ UNCHANGED <<egress, vars, rounds>>

PSpec == PInit /\ [][PNext]_<<part, egress, vars, rounds, metrics>>

(* TcEgress: each packet leaves the hook marked and copied exactly when it *)
(* is to be, wherever the sequence space wraps.                            *)
EgressExact == E!EgressExact
=============================================================================
