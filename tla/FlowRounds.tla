----------------------------- MODULE FlowRounds -----------------------------
(***************************************************************************)
(* The round clock of skyline_cc.bpf.c: a round ends at the ACK of a       *)
(* packet sent once `next` packets had been delivered.  tp->delivered, the *)
(* count a packet carries from when it was sent and `next` are 32-bit      *)
(* counters that wrap; `gap` and `age` are the true distances, which the   *)
(* code does not have.                                                     *)
(***************************************************************************)
EXTENDS Integers, Sequences, FiniteSets

CONSTANTS Space,   \* 2^32
          Flight   \* most packets outstanding

(* A packet is timed against a round that began up to three flights after  *)
(* it was sent: one ahead of it, one behind it, one in the round.          *)
SpaceAssumption == /\ Space \in Nat /\ Flight \in Nat \ {0}
                   /\ 6 * Flight <= Space

VARIABLES delivered,  \* tp->delivered
          next,       \* flow->next_round_delivered
          out,        \* packets not yet acknowledged: count carried, true age, sacked
          gap,        \* the true next - delivered
          parity      \* flips at every round end

vars == <<delivered, next, out, gap, parity>>

Init == /\ delivered = 0 /\ next = 0 /\ gap = 0 /\ out = <<>> /\ parity = 0

-----------------------------------------------------------------------------
(* slip: the comparison made on plain integers.                            *)
ReachedPlain(prior, end) == prior >= end
skyline_round_reached(prior, end) == (prior + Space - end) % Space < Space \div 2

Packet == [prior |-> delivered, age |-> 0, sacked |-> FALSE]

(* The kernel's TCP: sending, and resending a packet marked lost.          *)
Send == /\ Len(out) < Flight
        /\ out' = Append(out, Packet)
        /\ UNCHANGED <<delivered, next, gap, parity>>

Resend == /\ \E i \in DOMAIN out : ~out[i].sacked /\ out' = [out EXCEPT ![i] = Packet]
          /\ UNCHANGED <<delivered, next, gap, parity>>

(* What an ACK covering the packets D leaves outstanding: those behind a   *)
(* hole are kept, and counted by packets_out, until it is filled.          *)
Covered(D) == [i \in DOMAIN out |-> [prior |-> out[i].prior,
                                     age |-> out[i].age + Cardinality(D),
                                     sacked |-> out[i].sacked \/ i \in D]]
Kept(q) == LET holes == {i \in DOMAIN q : ~q[i].sacked}
           IN IF holes = {} THEN <<>>
              ELSE SubSeq(q, CHOOSE i \in holes : \A j \in holes : i <= j, Len(q))

(* The rate sample is that of the packet sent last among those delivered.  *)
Sampled(D) == CHOOSE i \in D : \A j \in D : out[i].age <= out[j].age

NextAfter(q, d) == (d + Len(q)) % Space

(* The bound on how far behind a round's end is followed.                  *)
Behind(g) == IF g < -3 * Flight THEN -3 * Flight ELSE g

(* skyline_new_round, and an adoption at the same boundary: it puts `next` *)
(* at delivered, which the sample of this ACK does not reach.              *)
Ack(D) ==
  LET d == (delivered + Cardinality(D)) % Space
      q == Kept(Covered(D))
      reached == skyline_round_reached(out[Sampled(D)].prior, next)
  IN /\ delivered' = d /\ out' = q
     /\ \/ reached /\ next' = NextAfter(q, d) /\ gap' = Len(q) /\ parity' = 1 - parity
        \/ reached /\ next' = d /\ gap' = 0 /\ parity' = 1 - parity     \* adopts
        \/ ~reached /\ gap' = Behind(gap - Cardinality(D)) /\ UNCHANGED <<next, parity>>

Unsacked == {i \in DOMAIN out : ~out[i].sacked}
AckArrives == \E D \in SUBSET Unsacked : D # {} /\ Ack(D)

Next == Send \/ Resend \/ AckArrives

Spec == Init /\ [][Next]_vars

-----------------------------------------------------------------------------
TypeOK == /\ delivered \in 0 .. Space - 1 /\ next \in 0 .. Space - 1
          /\ gap \in -2 * Flight .. Flight /\ parity \in {0, 1}
          /\ Len(out) <= Flight

(* Wherever the counters have wrapped to, an ACK ends the round exactly    *)
(* when the packet it times was sent after every packet counted by `next`  *)
(* had been delivered.                                                     *)
RoundsExact ==
  \A i \in DOMAIN out : ~out[i].sacked =>
    (skyline_round_reached(out[i].prior, next) <=> gap + out[i].age <= 0)

(* A round that ends has seen everything outstanding when it began         *)
(* delivered: at least a flight's worth, so that filter, EMA and guardrail *)
(* run on whole round trips.                                               *)
RoundsAreFlights == [][parity' # parity => gap <= 0]_vars

(* Rounds end when they should, wherever the counters have wrapped to.     *)
RoundsRight == [](TypeOK /\ RoundsExact) /\ RoundsAreFlights
=============================================================================
