------------------------------ MODULE FlowModel -----------------------------
(***************************************************************************)
(* skyline_update_model (skyline_cc.bpf.c) for one flow with M2 on: the    *)
(* bandwidth filter, the end of STARTUP and the guardrail, ACK by ACK.     *)
(* Where rounds end is FlowRounds' matter; here any ACK may end one.  What *)
(* a sample is worth (app-limited, spanning a timer, of a retransmission)  *)
(* and what the queue looks like are inputs.                               *)
(***************************************************************************)
EXTENDS Naturals, Sequences, FiniteSetsExt

CONSTANTS Rate,      \* delivery rates a sample may show, 0 for none
          Window,    \* bw_window_rtts
          Plateau,   \* startup_plateau_rtts
          Growth,    \* startup_growth_permille
          AdoptMax   \* bound on configurations adopted

ModelAssumption == Window \in 1 .. 10 /\ 0 \in Rate /\ Rate \subseteq Nat

VARIABLES mode, plateau, \* flow->mode, flow->plateau_rounds
          bw,            \* flow->bw_bps
          samples,       \* the first Window of flow->bw_samples
          round_rate,    \* flow->round_rate_bps
          prior,         \* flow->prior_round_bw_bps
          clamped,       \* flow->queue_clamped
          measured,      \* measured rounds since the adoption, counted up to Plateau
          tick,          \* flips at every measured round
          adopted        \* configurations adopted

model == <<mode, plateau, bw, samples, round_rate, prior, clamped>>
vars == <<model, measured, tick, adopted>>

Empty == [i \in 1 .. Window |-> 0]

Init == /\ mode = "STARTUP" /\ plateau = 0 /\ bw = 0 /\ samples = Empty
        /\ round_rate = 0 /\ prior = 0 /\ clamped = FALSE
        /\ measured = 0 /\ tick = 0 /\ adopted = 0

-----------------------------------------------------------------------------
(* The filter: a round that took a sample pushes its best one, and the     *)
(* estimate is the best of the window.                                     *)
Pushes(newRound) == newRound /\ round_rate > 0

Shifted == [i \in 1 .. Window |-> IF i = 1 THEN round_rate ELSE samples[i - 1]]
Best(s) == Max({s[i] : i \in 1 .. Window})

(* A sample is taken when it is not app-limited, spans no timer and, while *)
(* the filter is empty, is not a retransmission's.                         *)
Takes(rate, usable, retrans, estimate) == rate > 0 /\ usable /\ (estimate > 0 \/ ~retrans)

Raised(old, rate) == IF rate > old THEN rate ELSE old

(* STARTUP's plateau: only a measured round can show that the estimate has *)
(* stopped growing.                                                        *)
(* slip: only an estimate that shrank counts as one that did not grow.     *)
StalledShrunk(estimate) == estimate < prior
Stalled(estimate) == prior > 0 /\ estimate * 1000 < prior * (1000 + Growth)

PlateauAfter(pushed, estimate) ==
  IF ~pushed THEN plateau ELSE IF Stalled(estimate) THEN plateau + 1 ELSE 0

ModeAfter(m, p, c) == IF m = "STARTUP" /\ p < Plateau /\ ~c THEN "STARTUP" ELSE "CRUISE"

(* The end of a round: guardrail, plateau, mode.                           *)
EndRound(pushed, estimate, congested) ==
  LET p == IF mode = "STARTUP" THEN PlateauAfter(pushed, estimate) ELSE plateau
  IN /\ clamped' = congested
     /\ plateau' = p /\ mode' = ModeAfter(mode, p, congested)
     /\ prior' = estimate

(* skyline_update_model.                                                   *)
Ack(newRound, rate, usable, retrans, congested) ==
  LET pushed == Pushes(newRound)
      filter == IF pushed THEN Shifted ELSE samples
      held == IF pushed THEN Best(filter) ELSE bw
      takes == Takes(rate, usable, retrans, held)
      estimate == IF takes THEN Raised(held, rate) ELSE held
      kept == IF pushed THEN 0 ELSE round_rate
  IN /\ samples' = filter
     /\ bw' = estimate
     /\ round_rate' = IF takes THEN Raised(kept, rate) ELSE kept
     /\ \/ newRound /\ EndRound(pushed, estimate, congested)
        \/ ~newRound /\ UNCHANGED <<mode, plateau, clamped, prior>>
     /\ measured' = IF pushed THEN Min({measured + 1, Plateau}) ELSE measured
     /\ tick' = IF pushed THEN 1 - tick ELSE tick
     /\ UNCHANGED adopted

(* skyline_reset_generation at a round boundary; the ACK that adopts ends  *)
(* no round of the new model, and its sample is the first of it.           *)
Adopt(rate, usable, retrans) ==
  LET takes == Takes(rate, usable, retrans, 0)
  IN /\ adopted < AdoptMax /\ adopted' = adopted + 1
     /\ mode' = "STARTUP" /\ plateau' = 0 /\ prior' = 0 /\ clamped' = FALSE
     /\ samples' = Empty
     /\ bw' = IF takes THEN rate ELSE 0
     /\ round_rate' = bw'
     /\ measured' = 0 /\ UNCHANGED tick

AckArrives == \E newRound, usable, retrans, congested \in BOOLEAN, rate \in Rate :
                Ack(newRound, rate, usable, retrans, congested)
Adoption == \E usable, retrans \in BOOLEAN, rate \in Rate : Adopt(rate, usable, retrans)

Next == AckArrives \/ Adoption

Spec == Init /\ [][Next]_vars

(* A transfer that keeps its socket full: usable samples keep coming, and  *)
(* rounds keep ending (FlowRounds).                                        *)

-----------------------------------------------------------------------------
TypeOK == /\ mode \in {"STARTUP", "CRUISE"} /\ plateau \in 0 .. Plateau
          /\ bw \in Rate /\ round_rate \in Rate /\ prior \in Rate
          /\ \A i \in 1 .. Window : samples[i] \in Rate

(* The estimate is the best sample of the last Window measured rounds and  *)
(* of the round under way, at every ACK: however rounds with and without   *)
(* samples alternate, nothing older survives and nothing newer is lost.    *)
FilterIsMax == bw = Max({round_rate} \cup {samples[i] : i \in 1 .. Window})

(* "keeps the filter either empty ... or holding the last real estimate":  *)
(* once a flow has an estimate it has one until it adopts a configuration, *)
(* however many rounds without a usable sample follow.                     *)
EstimateKept == [][bw > 0 /\ adopted' = adopted => bw' > 0]_vars

(* STARTUP ends on evidence only: by the guardrail, or after Plateau       *)
(* measured rounds since the adoption; rounds whose samples were all       *)
(* app-limited never end it.                                               *)
NoEarlyCruise == [][mode = "STARTUP" /\ mode' = "CRUISE" => clamped' \/ measured' = Plateau]_vars

(* CRUISE is final for a configuration.                                    *)
CruiseIsFinal == [][mode = "CRUISE" /\ adopted' = adopted => mode' = "CRUISE"]_vars

(* With a window at least as long as the plateau, STARTUP cannot last: a   *)
(* flow that keeps measuring its path reaches CRUISE, since a bounded rate *)
(* cannot keep growing.                                                    *)
StartupEnds == []<>(tick = 0) /\ []<>(tick = 1) => <>[](mode = "CRUISE")

(* A flow's model follows its path: the estimate is the best of the window *)
(* and is never lost, and STARTUP ends once, on evidence, and always.      *)
ModelFollows == /\ [](TypeOK /\ FilterIsMax) /\ EstimateKept
                /\ NoEarlyCruise /\ CruiseIsFinal /\ StartupEnds
=============================================================================
