----------------------------- MODULE FlowWindow -----------------------------
(***************************************************************************)
(* The congestion window of one flow (skyline_cc.bpf.c): what cong_control,*)
(* ssthresh, undo_cwnd and set_state do to tp->snd_cwnd as the kernel takes*)
(* the socket through Open, CWR, Recovery and Loss, with M2                *)
(* (adaptive-cwnd) on, off, and before any configuration was adopted.      *)
(* Within one ACK the kernel first changes the state, then calls           *)
(* cong_control.  The kernel's own steps (tcp_enter_cwr, tcp_enter_recovery*)
(* tcp_enter_loss, tcp_undo_cwnd_reduction, the transmit paths) are        *)
(* external.  Disorder is Open here: no handler tells them apart.          *)
(***************************************************************************)
EXTENDS Integers

CONSTANTS Modes,      \* of "none", "m2", "prr", "plain": what the flow may run on
          Windows,    \* initial windows
          Cap, Floor, \* max_cwnd_packets, min_cwnd_packets
          Targets,    \* BDP targets the model may compute, in packets
          Infinite,   \* TCP_INFINITE_SSTHRESH, and the window clamp
          AckMax,     \* bound on packets one ACK delivers
          PipeMax,    \* bound on packets in flight
          OutMax,     \* bound on packets sent in a reduction
          AdoptMax    \* bound on configurations adopted

MIN_CWND == 4         \* SKYLINE_MIN_CWND
BETA == 700           \* SKYLINE_CUBIC_BETA_PERMILLE

ASSUME WindowAssumption == /\ Cap \in Nat /\ Floor \in Nat /\ Infinite \in Nat
                           /\ AckMax \in Nat /\ PipeMax \in Nat /\ OutMax \in Nat
                           /\ AdoptMax \in Nat /\ Targets \subseteq Nat \ {0}
                           /\ MIN_CWND <= Floor /\ Floor <= Cap /\ Cap < Infinite
                           /\ Windows \subseteq 1 .. Cap

VARIABLES w,       \* the socket and the flow state, see TypeOK
          mode,    \* flow->config: "none" before one was adopted, "m2" with M2 on,
                   \* "prr" and "plain" with M2 off, PRR on and off
          adopted, \* configurations adopted
          entry    \* of an episode under way that M2-off code entered: the window
                   \* and the flight at its ssthresh() call

vars == <<w, mode, adopted, entry>>

Reductions == {"CWR", "Recovery"}
Larger(a, b) == IF a > b THEN a ELSE b
Smaller(a, b) == IF a < b THEN a ELSE b

-----------------------------------------------------------------------------
(* skyline_reset_generation, of the fields modelled here.                  *)
Reset(s) == [s EXCEPT !.prior = s.cwnd, !.delivered = 0, !.active = FALSE, !.est = 0]

(* skyline_init, when it adopts a configuration and when it does not.      *)
Started(cwnd) == [ca |-> "Open", cwnd |-> cwnd, ssthresh |-> Infinite, pipe |-> 0, out |-> 0,
                  kprior |-> 0, kssthresh |-> 0, undo |-> FALSE,
                  prior |-> 0, delivered |-> 0, active |-> FALSE, est |-> 0]

NoEntry == [m2off |-> FALSE, cwnd |-> 0, pipe |-> 0]

Init == /\ \E m \in Modes, c \in Windows :
             /\ mode = m
             /\ w = IF m = "none" THEN Started(c) ELSE Reset(Started(c))
        /\ adopted = 0 /\ entry = NoEntry

(* skyline_ssthresh: M2 on keeps the window, M2 off cuts it.               *)
SsthreshOf(s) == IF mode = "m2" THEN Larger(s.cwnd, 2) ELSE Larger((s.cwnd * BETA) \div 1000, 2)
Ssthresh(s) == [s EXCEPT !.ssthresh = SsthreshOf(s),
                         !.prior = IF mode = "none" THEN @ ELSE s.cwnd]

(* skyline_undo_cwnd over tcp_reno_undo_cwnd.                              *)
UndoCwnd(s) == Larger(s.prior, Larger(s.cwnd, s.kprior))

(* skyline_set_state.                                                      *)
(* slip: the count of an earlier reduction is kept.                        *)
SetStateKeepsCount(s, new) ==
  CASE new = "Loss" -> [s EXCEPT !.ca = new, !.active = TRUE]
    [] new \in Reductions -> [s EXCEPT !.ca = new, !.active = TRUE]
    [] new = "Open" -> IF ~s.active \/ mode \in {"none", "m2"}
                       THEN [s EXCEPT !.ca = new, !.active = FALSE]
                       ELSE [s EXCEPT !.ca = new, !.active = FALSE,
                                      !.cwnd = Larger(s.ssthresh, MIN_CWND)]
SetState(s, new) ==
  CASE new = "Loss" -> [s EXCEPT !.ca = new, !.active = TRUE]
    [] new \in Reductions -> [s EXCEPT !.ca = new, !.delivered = 0, !.active = TRUE]
    [] new = "Open" -> IF ~s.active \/ mode \in {"none", "m2"}
                       THEN [s EXCEPT !.ca = new, !.active = FALSE]
                       ELSE [s EXCEPT !.ca = new, !.active = FALSE,
                                      !.cwnd = Larger(s.ssthresh, MIN_CWND)]

-----------------------------------------------------------------------------
(* tcp_slow_start: never past ssthresh, and down to it from above.         *)
SlowStart(c, ssthresh, n) == Smaller(Smaller(c + n, ssthresh), Infinite)
Capped(c) == Smaller(c, Cap)

(* skyline_set_cwnd_target.                                                *)
(* slip: tcp_slow_start is called above ssthresh too.                      *)
TargetSlowStartsAbove(s, n) ==
  IF s.est = 0
  THEN LET grown == Capped(IF n > 0 THEN SlowStart(s.cwnd, s.ssthresh, n) ELSE s.cwnd)
       IN IF s.ca = "Loss" THEN Larger(grown, Floor) ELSE grown
  ELSE Larger(Capped(s.est), Floor)
(* slip: a flow without an estimate escapes the cap.                       *)
TargetUncapped(s, n) ==
  IF s.est = 0
  THEN LET grown == IF n > 0 /\ s.cwnd < s.ssthresh THEN SlowStart(s.cwnd, s.ssthresh, n)
                                                     ELSE s.cwnd
       IN IF s.ca = "Loss" THEN Larger(grown, Floor) ELSE grown
  ELSE Larger(Capped(s.est), Floor)
Target(s, n) ==
  IF s.est = 0
  THEN LET grown == Capped(IF n > 0 /\ s.cwnd < s.ssthresh THEN SlowStart(s.cwnd, s.ssthresh, n)
                                                            ELSE s.cwnd)
       IN IF s.ca = "Loss" THEN Larger(grown, Floor) ELSE grown
  ELSE Larger(Capped(s.est), Floor)

(* skyline_grow_cwnd: slow start, then k more packets of the CUBIC curve   *)
(* or its Reno floor, at most one for two acked over what was pending.     *)
Grown(s, n, k) ==
  LET slow == IF s.cwnd < s.ssthresh THEN SlowStart(s.cwnd, s.ssthresh, n) ELSE s.cwnd
      left == n - (slow - s.cwnd)
  IN IF left = 0 THEN Capped(slow)
     ELSE Larger(Capped(slow + Smaller(k, 1 + left \div 2)), MIN_CWND)

(* tcp_reno_cong_avoid, for a flow that has no configuration.              *)
Reno(s, n, k) ==
  LET slow == IF s.cwnd < s.ssthresh THEN SlowStart(s.cwnd, s.ssthresh, n) ELSE s.cwnd
      left == n - (slow - s.cwnd)
  IN IF left = 0 THEN slow ELSE Smaller(slow + Smaller(k, 1 + left), Infinite)

(* skyline_apply_prr: what it lets out, given the count with this ACK.     *)
Released(s, n, bonus) ==
  LET delta == s.ssthresh - s.pipe
      share == (s.ssthresh * s.delivered + s.prior - 1) \div s.prior - s.out
      bound == Smaller(Larger(s.delivered - s.out, n) + (IF bonus THEN 1 ELSE 0), delta)
  IN Larger(IF delta < 0 THEN share ELSE bound, IF s.out = 0 THEN 1 ELSE 0)

ApplyPrr(s, n, bonus) ==
  IF n = 0 \/ s.prior = 0 THEN s
  ELSE LET t == [s EXCEPT !.delivered = @ + n]
       IN [t EXCEPT !.cwnd = Larger(t.pipe + Released(t, n, bonus), MIN_CWND)]

(* skyline_cong_control's last part, on configuration m.                   *)
Control(s, m, n, bonus, limited, k) ==
  CASE m = "none" -> IF limited THEN [s EXCEPT !.cwnd = Reno(s, n, k)] ELSE s
    [] m = "m2" -> [s EXCEPT !.cwnd = Target(s, n)]
    [] m = "prr" /\ s.ca \in Reductions -> ApplyPrr(s, n, bonus)
    [] m = "plain" /\ s.ca \in Reductions -> s
    [] OTHER -> IF n > 0 /\ limited THEN [s EXCEPT !.cwnd = Grown(s, n, k)] ELSE s

-----------------------------------------------------------------------------
(* The kernel's side of an ACK, before cong_control (external).            *)
(* tcp_init_cwnd_reduction.                                                *)
Reduce(s) == Ssthresh([s EXCEPT !.kprior = s.cwnd, !.out = 0])

(* tcp_current_ssthresh, kept for an undo.                                 *)
CurrentSsthresh(s) == Larger(s.ssthresh, s.cwnd \div 2 + s.cwnd \div 4)

EnterCwr(s) == SetState([Reduce(s) EXCEPT !.kssthresh = 0, !.undo = FALSE], "CWR")

EnterRecovery(s) ==
  IF s.ca = "CWR"
  THEN SetState([s EXCEPT !.kssthresh = 0, !.undo = TRUE], "Recovery")
  ELSE SetState([Reduce(s) EXCEPT !.kssthresh = CurrentSsthresh(s), !.undo = TRUE], "Recovery")

(* tcp_undo_cwnd_reduction.                                                *)
(* (What an undo needed is dead after it, as prr_out is outside of         *)
(* reductions: both are cleared here to keep the state small.)             *)
UndoReduction(s) == [s EXCEPT !.undo = FALSE, !.kprior = 0, !.kssthresh = 0,
                              !.cwnd = IF s.kssthresh > 0 THEN UndoCwnd(s) ELSE @,
                              !.ssthresh = Larger(@, s.kssthresh)]

(* What the ACK may do to the state, and when.                             *)
Changes == {"stay", "cwr", "recovery", "exit", "undo", "late"}
May(s, change) == CASE change = "stay" -> TRUE
                    [] change = "cwr" -> s.ca = "Open"
                    [] change = "recovery" -> s.ca \in {"Open", "CWR"}
                    [] change = "exit" -> s.ca # "Open"
                    [] change = "undo" -> s.undo /\ s.ca \in {"Recovery", "Loss"}
                    [] change = "late" -> s.undo /\ s.ca = "Open"
Changed(s, change) == CASE change = "stay" -> s
                        [] change = "cwr" -> EnterCwr(s)
                        [] change = "recovery" -> EnterRecovery(s)
                        [] change = "exit" -> SetState([s EXCEPT !.out = 0], "Open")
                        [] change = "undo" -> SetState(UndoReduction([s EXCEPT !.out = 0]), "Open")
                        [] change = "late" -> UndoReduction(s)

(* The record the properties read: of a reduction entered with M2 off,     *)
(* until it ends or a configuration is adopted.                            *)
EntryOf(s) == [m2off |-> TRUE, cwnd |-> s.cwnd, pipe |-> s.pipe]
EntryAfter(s, moved) ==
  CASE moved.ca = "Open" -> NoEntry
    [] s.ca = "Open" /\ moved.ca # "Open" -> IF mode \in {"prr", "plain"} THEN EntryOf(w) ELSE NoEntry
    [] OTHER -> entry

(* What the ACK may come to: with PRR, one more packet when it moved       *)
(* snd_una and marked none lost; in growth, by how full the window was and *)
(* where the curve stands.                                                 *)
Outcomes(s, m, n, l) ==
  CASE m = "m2" -> {Control(s, m, n, FALSE, FALSE, 0)}
    [] m = "prr" /\ s.ca \in Reductions -> {Control(s, m, n, b, FALSE, 0) : b \in {l = 0, FALSE}}
    [] OTHER -> {Control(s, m, n, FALSE, FALSE, 0)}
                  \cup {Control(s, m, n, FALSE, TRUE, k) : k \in 0 .. 2}

(* An ACK that delivers n packets and marks l lost; m is the configuration *)
(* after it, adopted at once by a flow without one and at a round boundary *)
(* by the others.  The estimate exists from the first usable sample on.    *)
Ack(n, l, change, adopts, m) ==
  LET fresh == [w EXCEPT !.pipe = @ - n - l]
      moved == Changed(fresh, change)
      base == IF adopts THEN Reset(moved) ELSE moved
  IN /\ m = "prr" => base.delivered + n <= OutMax
     /\ w' \in UNION {Outcomes([base EXCEPT !.est = est], m, n, l) :
                        est \in IF m # "m2" THEN {0}
                                ELSE (IF base.est = 0 THEN {0} ELSE {}) \cup Targets}
     /\ mode' = m
     /\ adopted' = adopted + (IF adopts THEN 1 ELSE 0)
     /\ entry' = IF adopts THEN NoEntry ELSE EntryAfter(fresh, moved)

AckArrives == \E change \in {c \in Changes : May(w, c)}, n \in 0 .. AckMax, l \in 0 .. 1 :
  /\ n + l \in 1 .. w.pipe
  /\ \/ Ack(n, l, change, FALSE, mode)
     \/ adopted < AdoptMax /\ \E m \in Modes \ {"none"} : Ack(n, l, change, TRUE, m)

(* tcp_enter_loss: everything in flight but r packets is lost; a new       *)
(* timeout cuts again when the flow made progress since the last one.      *)
Timeout == \E r \in 0 .. w.pipe, again \in BOOLEAN :
  LET flat == [w EXCEPT !.pipe = r, !.out = 0]
      cuts == w.ca = "Open" \/ (w.ca = "Loss" /\ again)
      cut == IF cuts THEN [Ssthresh(flat) EXCEPT !.kprior = w.cwnd, !.undo = TRUE,
                                                 !.kssthresh = CurrentSsthresh(w)]
                     ELSE flat
  IN /\ w.pipe > 0
     /\ w' = SetState([cut EXCEPT !.cwnd = r + 1], "Loss")
     /\ entry' = IF ~cuts THEN entry
                 ELSE IF mode \in {"prr", "plain"} THEN EntryOf(w) ELSE NoEntry
     /\ UNCHANGED <<mode, adopted>>

(* The transmit paths count in prr_out what they send in a reduction.      *)
Send == /\ w.pipe < Smaller(w.cwnd, PipeMax)
        /\ w.ca \in Reductions => w.out < OutMax
        /\ w' = [w EXCEPT !.pipe = @ + 1, !.out = IF w.ca \in Reductions THEN @ + 1 ELSE @]
        /\ UNCHANGED <<mode, adopted, entry>>

Next == AckArrives \/ Timeout \/ Send

Spec == Init /\ [][Next]_vars

-----------------------------------------------------------------------------
TypeOK == /\ w.ca \in {"Open", "Loss"} \cup Reductions
          /\ w.cwnd \in Nat \ {0} /\ w.ssthresh \in Nat \ {0, 1}
          /\ w.pipe \in 0 .. PipeMax /\ w.out \in 0 .. OutMax /\ w.delivered \in 0 .. OutMax
          /\ w.prior \in Nat /\ w.kprior \in Nat /\ w.kssthresh \in Nat
          /\ w.est \in Targets \cup {0}
          /\ w.active \in BOOLEAN /\ w.undo \in BOOLEAN
          /\ mode \in Modes /\ adopted \in 0 .. AdoptMax

(* The steps the properties speak of.                                      *)
Acked == w'.pipe < w.pipe /\ ~Timeout
Leaves == w.ca # "Open" /\ w'.ca = "Open"
Exits == Leaves /\ w'.undo = w.undo /\ adopted' = adopted

(* With M2 on, every ACK leaves the window within the configured bounds,   *)
(* whatever the kernel, an earlier configuration or a timeout left there:  *)
(* under the cap, and above the floor once there is an estimate or while   *)
(* a timeout is being recovered from.                                      *)
M2Bounded == mode' = "m2" /\ Acked =>
               /\ w'.cwnd <= Cap
               /\ w'.est > 0 \/ w'.ca = "Loss" => w'.cwnd >= Floor
M2Bounds == [][M2Bounded]_vars

(* "M2 on means never reduce because of loss": while a flow has no         *)
(* estimate to follow, no sequence of CWR, Recovery, exits and undos takes *)
(* the window below where it was; only a timeout does, and the cap.        *)
LossCutsNothing == mode = "m2" /\ mode' = "m2" /\ w.est = 0 /\ w'.est = 0
                     /\ adopted' = adopted /\ ~Timeout
                   => w'.cwnd >= Capped(w.cwnd)
NeverCutByLoss == [][LossCutsNothing]_vars

(* PRR brings the flight down: in a reduction that M2-off code entered,    *)
(* neither the window nor the flight ever exceeds what the episode began   *)
(* with, across CWR that turns into Recovery and ACKs with and without     *)
(* loss marks (the fixed floor of 4 aside).  An episode that begins with a *)
(* window of 1 reduces nothing, as ssthresh() returns at least 2.          *)
EpisodeTop == Larger(Larger(entry.cwnd, entry.pipe), MIN_CWND)
PrrNeverRaises == mode = "prr" /\ w.ca \in Reductions /\ entry.m2off /\ entry.cwnd > 1
                    => /\ w.cwnd <= EpisodeTop
                       /\ w.pipe <= EpisodeTop

(* With M2 off the cut of a reduction outlives it, with PRR and without:   *)
(* an ACK that ends CWR, Recovery or Loss without an undo leaves the CUBIC *)
(* share of the window the episode began with, plus that ACK's own growth. *)
ReductionSticks == [][Exits /\ entry.m2off =>
                        w'.cwnd <= Larger((entry.cwnd * BETA) \div 1000, MIN_CWND) + AckMax]_vars

(* With M2 off a reduction takes the window down and leaves it there.      *)
ReductionHolds == [](TypeOK /\ PrrNeverRaises) /\ ReductionSticks
=============================================================================
