-------------------------- MODULE FlowWindowProofs --------------------------
(***************************************************************************)
(* FlowWindow, for every cap, floor, target and initial window and for any *)
(* bound on flights.  With M2 on, every ACK leaves the window within its   *)
(* bounds, and no sequence of loss events cuts the window of a flow that   *)
(* has no estimate; with M2 off, a reduction takes the window down and     *)
(* leaves it there.                                                        *)
(*                                                                         *)
(* With M2 on an ACK's window is Target of what the kernel's part of the   *)
(* ACK left, so the bounds are Target's (TargetBounds); and the kernel's   *)
(* part never lowers the window (LossKeepsWindow), because ssthresh() and  *)
(* set_state() leave it alone and an undo is a maximum, nor does Target    *)
(* below ssthresh (TargetKeeps).  Both need that every field is a number,  *)
(* which is what WindowInv is for.  With M2 off the argument is EpisodeInv *)
(* below: what ties PRR's counters to the flight the episode began with.   *)
(***************************************************************************)
EXTENDS FlowWindow, TLAPS

States == {"Open", "CWR", "Recovery", "Loss"}
Sockets == [ca : States, cwnd : Nat, ssthresh : Nat, pipe : Nat, out : Nat,
            kprior : Nat, kssthresh : Nat, undo : BOOLEAN,
            prior : Nat, delivered : Nat, active : BOOLEAN, est : Nat]
WindowInv == w \in Sockets /\ adopted \in Nat

-----------------------------------------------------------------------------
\* skyline_set_cwnd_target keeps the window under the cap, and above the floor
\* with an estimate and in Loss.
LEMMA TargetBounds ==
  ASSUME NEW s \in Sockets, NEW n \in Nat
  PROVE  /\ Target(s, n) \in Nat
         /\ Target(s, n) <= Cap
         /\ s.est > 0 \/ s.ca = "Loss" => Target(s, n) >= Floor
<1>1. s.cwnd \in Nat /\ s.ssthresh \in Nat /\ s.est \in Nat
  BY DEF Sockets
<1>2. SlowStart(s.cwnd, s.ssthresh, n) \in Nat
  BY <1>1, WindowAssumption DEF SlowStart, Smaller
<1> QED
  BY <1>1, <1>2, WindowAssumption DEF Target, Capped, Larger, Smaller, MIN_CWND

\* Without an estimate it never cuts below what it finds, the cap aside:
\* tcp_slow_start is called below ssthresh only.
LEMMA TargetKeeps ==
  ASSUME NEW s \in Sockets, NEW n \in Nat, s.est = 0
  PROVE  Target(s, n) >= Capped(s.cwnd)
<1>1. s.cwnd \in Nat /\ s.ssthresh \in Nat
  BY DEF Sockets
<1>2. s.cwnd < s.ssthresh => /\ SlowStart(s.cwnd, s.ssthresh, n) \in Nat
                             /\ SlowStart(s.cwnd, s.ssthresh, n) >= s.cwnd
                                  \/ SlowStart(s.cwnd, s.ssthresh, n) >= Cap
  BY <1>1, WindowAssumption DEF SlowStart, Smaller
<1> QED
  BY <1>1, <1>2, WindowAssumption DEF Target, Capped, Larger, Smaller, MIN_CWND

-----------------------------------------------------------------------------
\* The handlers keep every field a number.
LEMMA SsthreshType ==
  ASSUME NEW s \in Sockets
  PROVE  Ssthresh(s) \in Sockets /\ Ssthresh(s).cwnd = s.cwnd /\ Ssthresh(s).est = s.est
<1>1. s.cwnd \in Nat
  BY DEF Sockets
<1>2. (s.cwnd * BETA) \div 1000 \in Nat
  BY <1>1 DEF BETA
<1>3. SsthreshOf(s) \in Nat
  BY <1>1, <1>2 DEF SsthreshOf, Larger
<1> QED
  BY <1>1, <1>3, Zenon DEF Ssthresh, Sockets

\* set_state: with M2 on it leaves the window alone.
LEMMA SetStateType ==
  ASSUME NEW s \in Sockets, NEW new \in States
  PROVE  /\ SetState(s, new) \in Sockets
         /\ SetState(s, new).est = s.est
         /\ mode = "m2" => SetState(s, new).cwnd = s.cwnd
<1>1. Larger(s.ssthresh, MIN_CWND) \in Nat
  BY DEF Sockets, Larger, MIN_CWND
<1>2. CASE new = "Loss"
  BY <1>2, Zenon DEF SetState, Sockets, States, Reductions
<1>3. CASE new \in Reductions
  BY <1>3, Zenon DEF SetState, Sockets, States, Reductions
<1>4. CASE new = "Open"
  BY <1>1, <1>4, Zenon DEF SetState, Sockets, States, Reductions
<1> QED
  BY <1>2, <1>3, <1>4 DEF States, Reductions

LEMMA ReduceType ==
  ASSUME NEW s \in Sockets
  PROVE  /\ Reduce(s) \in Sockets /\ Reduce(s).cwnd = s.cwnd /\ Reduce(s).est = s.est
         /\ CurrentSsthresh(s) \in Nat
<1>1. s.cwnd \in Nat /\ s.ssthresh \in Nat
  BY DEF Sockets
<1>2. s.cwnd \div 2 \in Nat /\ s.cwnd \div 4 \in Nat
  BY <1>1
<1>3. CurrentSsthresh(s) \in Nat
  BY <1>1, <1>2 DEF CurrentSsthresh, Larger
<1>4. [s EXCEPT !.kprior = s.cwnd, !.out = 0] \in Sockets
  BY <1>1, Zenon DEF Sockets
<1> QED
  BY <1>3, <1>4, SsthreshType, Zenon DEF Reduce, Sockets

LEMMA UndoType ==
  ASSUME NEW s \in Sockets
  PROVE  /\ UndoReduction(s) \in Sockets
         /\ UndoReduction(s).cwnd >= s.cwnd
         /\ UndoReduction(s).est = s.est
<1>1. /\ UndoCwnd(s) \in Nat /\ UndoCwnd(s) >= s.cwnd
      /\ Larger(s.ssthresh, s.kssthresh) \in Nat
  BY DEF UndoCwnd, Larger, Sockets
<1>2. PICK c \in Nat : /\ c = IF s.kssthresh > 0 THEN UndoCwnd(s) ELSE s.cwnd
                       /\ c >= s.cwnd
  BY <1>1 DEF Sockets
<1>3. PICK d \in Nat : d = Larger(s.ssthresh, s.kssthresh)
  BY <1>1
<1> DEFINE t == [s EXCEPT !.undo = FALSE, !.kprior = 0, !.kssthresh = 0]
           u == [t EXCEPT !.cwnd = c, !.ssthresh = d]
<1>4. t \in Sockets /\ t.est = s.est
  BY Zenon DEF Sockets
<1>5. UndoReduction(s) = u
  BY <1>2, <1>3 DEF UndoReduction, Sockets
<1> HIDE DEF t
<1>6. u \in Sockets /\ u.cwnd = c /\ u.est = t.est
  BY <1>4, Zenon DEF Sockets
<1> QED
  BY <1>2, <1>4, <1>5, <1>6

-----------------------------------------------------------------------------
\* The kernel's part of an ACK, whatever it does to the state: with M2 on it
\* never lowers the window.
LEMMA LossKeepsWindow ==
  ASSUME NEW s \in Sockets, NEW change \in Changes
  PROVE  /\ Changed(s, change) \in Sockets
         /\ Changed(s, change).est = s.est
         /\ mode = "m2" => Changed(s, change).cwnd >= s.cwnd
<1>0. s.cwnd \in Nat /\ "CWR" \in States /\ "Recovery" \in States /\ "Open" \in States
  BY DEF Sockets, States
<1>1. CASE change = "stay"
  BY <1>0, <1>1 DEF Changed
<1>2. CASE change = "cwr"
  <2>1. Changed(s, change) = SetState([Reduce(s) EXCEPT !.kssthresh = 0, !.undo = FALSE], "CWR")
    BY <1>2 DEF Changed, EnterCwr
  <2>2. Reduce(s).cwnd = s.cwnd /\ Reduce(s) \in Sockets /\ Reduce(s).est = s.est
    BY ReduceType
  <2> DEFINE t == [Reduce(s) EXCEPT !.kssthresh = 0, !.undo = FALSE]
  <2>3. t \in Sockets /\ t.cwnd = s.cwnd /\ t.est = s.est
    BY <2>2, Zenon DEF Sockets
  <2>4. Changed(s, change) = SetState(t, "CWR")
    BY <2>1
  <2> HIDE DEF t
  <2>5. /\ SetState(t, "CWR") \in Sockets
        /\ SetState(t, "CWR").est = t.est
        /\ mode = "m2" => SetState(t, "CWR").cwnd = t.cwnd
    BY <1>0, <2>3, SetStateType
  <2> QED
    BY <1>0, <2>3, <2>4, <2>5
<1>3. CASE change = "recovery"
  <2> DEFINE t == [s EXCEPT !.kssthresh = 0, !.undo = TRUE]
             u == [Reduce(s) EXCEPT !.kssthresh = CurrentSsthresh(s), !.undo = TRUE]
  <2>1. t \in Sockets /\ t.cwnd = s.cwnd /\ t.est = s.est
    BY Zenon DEF Sockets
  <2>2. /\ Reduce(s).cwnd = s.cwnd /\ Reduce(s) \in Sockets /\ Reduce(s).est = s.est
        /\ CurrentSsthresh(s) \in Nat
    BY ReduceType
  <2>3. u \in Sockets /\ u.cwnd = s.cwnd /\ u.est = s.est
    BY <2>2, Zenon DEF Sockets
  <2>4. \/ Changed(s, change) = SetState(t, "Recovery")
        \/ Changed(s, change) = SetState(u, "Recovery")
    BY <1>3 DEF Changed, EnterRecovery
  <2> HIDE DEF t, u
  <2>5. /\ SetState(t, "Recovery") \in Sockets
        /\ SetState(t, "Recovery").est = t.est
        /\ mode = "m2" => SetState(t, "Recovery").cwnd = t.cwnd
    BY <1>0, <2>1, SetStateType
  <2>6. /\ SetState(u, "Recovery") \in Sockets
        /\ SetState(u, "Recovery").est = u.est
        /\ mode = "m2" => SetState(u, "Recovery").cwnd = u.cwnd
    BY <1>0, <2>3, SetStateType
  <2> QED
    BY <1>0, <2>1, <2>3, <2>4, <2>5, <2>6
<1>4. CASE change = "exit"
  <2> DEFINE t == [s EXCEPT !.out = 0]
  <2>1. t \in Sockets /\ t.cwnd = s.cwnd /\ t.est = s.est
    BY DEF Sockets
  <2>2. Changed(s, change) = SetState(t, "Open")
    BY <1>4 DEF Changed
  <2> HIDE DEF t
  <2>3. /\ SetState(t, "Open") \in Sockets
        /\ SetState(t, "Open").est = t.est
        /\ mode = "m2" => SetState(t, "Open").cwnd = t.cwnd
    BY <1>0, <2>1, SetStateType
  <2> QED
    BY <1>0, <2>1, <2>2, <2>3
<1>5. CASE change = "undo"
  <2> DEFINE t == [s EXCEPT !.out = 0]
             u == UndoReduction(t)
  <2>1. t \in Sockets /\ t.cwnd = s.cwnd /\ t.est = s.est
    BY DEF Sockets
  <2>2. Changed(s, change) = SetState(u, "Open")
    BY <1>5 DEF Changed
  <2> HIDE DEF t
  <2>3. u \in Sockets /\ u.cwnd >= t.cwnd /\ u.est = t.est
    BY <2>1, UndoType
  <2> HIDE DEF u
  <2>4. /\ SetState(u, "Open") \in Sockets
        /\ SetState(u, "Open").est = u.est
        /\ mode = "m2" => SetState(u, "Open").cwnd = u.cwnd
    BY <1>0, <2>3, SetStateType
  <2> QED
    BY <1>0, <2>1, <2>2, <2>3, <2>4
<1>6. CASE change = "late"
  <2>1. Changed(s, change) = UndoReduction(s)
    BY <1>6 DEF Changed
  <2> QED
    BY <2>1, UndoType
<1> QED
  BY <1>1, <1>2, <1>3, <1>4, <1>5, <1>6 DEF Changes

-----------------------------------------------------------------------------
\* skyline_cong_control's last part keeps every field a number.
LEMMA ReleasedType ==
  ASSUME NEW s \in Sockets, NEW n \in Nat, NEW bonus, s.prior > 0
  PROVE  Released(s, n, bonus) \in Int
<1>1. /\ s.ssthresh \in Nat /\ s.pipe \in Nat /\ s.out \in Nat
      /\ s.delivered \in Nat /\ s.prior \in Nat
  BY DEF Sockets
<1>2. s.ssthresh * s.delivered \in Int
  BY <1>1
<1>3. ASSUME NEW a \in Int, NEW b \in Nat, b > 0
      PROVE  (a + b - 1) \div b \in Int
  BY <1>3
<1>4. (s.ssthresh * s.delivered + s.prior - 1) \div s.prior \in Int
  BY <1>1, <1>2, <1>3
<1> DEFINE q == (s.ssthresh * s.delivered + s.prior - 1) \div s.prior
<1>5. q \in Int
  BY <1>4
<1>6. Released(s, n, bonus)
        = LET delta == s.ssthresh - s.pipe
              share == q - s.out
              bound == Smaller(Larger(s.delivered - s.out, n) + (IF bonus THEN 1 ELSE 0), delta)
          IN Larger(IF delta < 0 THEN share ELSE bound, IF s.out = 0 THEN 1 ELSE 0)
  BY DEF Released
<1> HIDE DEF q
<1> QED
  BY <1>1, <1>5, <1>6 DEF Smaller, Larger

LEMMA GrowthType ==
  ASSUME NEW s \in Sockets, NEW n \in Nat, NEW k \in Nat
  PROVE  Grown(s, n, k) \in Nat /\ Reno(s, n, k) \in Nat
<1>1. s.cwnd \in Nat /\ s.ssthresh \in Nat
  BY DEF Sockets
<1>2. ASSUME NEW left \in Nat
      PROVE  left \div 2 \in Nat
  BY <1>2
<1> DEFINE slow == IF s.cwnd < s.ssthresh THEN SlowStart(s.cwnd, s.ssthresh, n) ELSE s.cwnd
           left == n - (slow - s.cwnd)
<1>3. slow \in Nat /\ left \in Nat
  BY <1>1, WindowAssumption DEF SlowStart, Smaller
<1>4. /\ Grown(s, n, k) = IF left = 0 THEN Capped(slow)
                          ELSE Larger(Capped(slow + Smaller(k, 1 + left \div 2)), MIN_CWND)
      /\ Reno(s, n, k) = IF left = 0 THEN slow
                         ELSE Smaller(slow + Smaller(k, 1 + left), Infinite)
  BY DEF Grown, Reno
<1> HIDE DEF left, slow
<1>5. left \div 2 \in Nat
  BY <1>2, <1>3
<1> QED
  BY <1>3, <1>4, <1>5, WindowAssumption DEF Capped, Smaller, Larger, MIN_CWND

LEMMA PrrType ==
  ASSUME NEW s \in Sockets, NEW n \in Nat, NEW bonus
  PROVE  ApplyPrr(s, n, bonus) \in Sockets
<1>1. CASE n = 0 \/ s.prior = 0
  BY <1>1 DEF ApplyPrr
<1>2. CASE ~(n = 0 \/ s.prior = 0)
  <2> DEFINE t == [s EXCEPT !.delivered = @ + n]
  <2>1. t \in Sockets /\ t.prior > 0 /\ t.pipe \in Nat
    BY <1>2 DEF Sockets
  <2>2. ApplyPrr(s, n, bonus)
          = [t EXCEPT !.cwnd = Larger(t.pipe + Released(t, n, bonus), MIN_CWND)]
    BY <1>2 DEF ApplyPrr
  <2> HIDE DEF t
  <2>3. Larger(t.pipe + Released(t, n, bonus), MIN_CWND) \in Nat
    BY <2>1, ReleasedType DEF Larger, MIN_CWND
  <2> QED
    BY <2>1, <2>2, <2>3 DEF Sockets
<1> QED
  BY <1>1, <1>2

LEMMA OutcomesType ==
  ASSUME NEW s \in Sockets, NEW m, NEW n \in Nat, NEW l \in 0 .. 1,
         NEW x \in Outcomes(s, m, n, l)
  PROVE  x \in Sockets
<1>1. ASSUME NEW c \in Nat
      PROVE  [s EXCEPT !.cwnd = c] \in Sockets
  BY DEF Sockets
<1> DEFINE prr == {Control(s, m, n, b, FALSE, 0) : b \in {l = 0, FALSE}}
           still == {Control(s, m, n, FALSE, FALSE, 0)}
           grows == {Control(s, m, n, FALSE, TRUE, k) : k \in 0 .. 2}
<1>2. Outcomes(s, m, n, l) = CASE m = "m2" -> still
                               [] m = "prr" /\ s.ca \in Reductions -> prr
                               [] OTHER -> still \cup grows
  BY DEF Outcomes
<1>3. x \in still => x = Control(s, m, n, FALSE, FALSE, 0)
  OBVIOUS
<1>4. x \in prr => \E b : x = Control(s, m, n, b, FALSE, 0)
  BY Zenon
<1>5. x \in grows => \E k \in 0 .. 2 : x = Control(s, m, n, FALSE, TRUE, k)
  BY Zenon
<1> HIDE DEF prr, still, grows
<1>6. CASE m = "m2"
  <2>1. x = [s EXCEPT !.cwnd = Target(s, n)]
    BY <1>2, <1>3, <1>6 DEF Control
  <2> QED
    BY <1>1, <2>1, TargetBounds
<1>7. CASE m = "prr" /\ s.ca \in Reductions
  <2>1. PICK b : x = Control(s, m, n, b, FALSE, 0)
    BY <1>2, <1>4, <1>7, Zenon
  <2>2. x = ApplyPrr(s, n, b)
    BY <1>7, <2>1, Zenon DEF Control
  <2> QED
    BY <2>2, PrrType
<1>8. CASE m # "m2" /\ ~(m = "prr" /\ s.ca \in Reductions)
  <2>1. x \in still \cup grows
    BY <1>2, <1>8, Zenon
  <2>2. CASE x \in still
    <3>1. x = s
      BY <1>3, <1>8, <2>2, Zenon DEF Control
    <3> QED
      BY <3>1
  <2>3. CASE x \in grows
    <3>1. PICK k \in 0 .. 2 : x = Control(s, m, n, FALSE, TRUE, k)
      BY <1>5, <2>3, Zenon
    <3>2. \/ x = s
          \/ x = [s EXCEPT !.cwnd = Reno(s, n, k)]
          \/ x = [s EXCEPT !.cwnd = Grown(s, n, k)]
      BY <1>8, <3>1, Zenon DEF Control
    <3> QED
      BY <1>1, <3>2, GrowthType
  <2> QED
    BY <2>1, <2>2, <2>3
<1> QED
  BY <1>6, <1>7, <1>8

-----------------------------------------------------------------------------
\* An ACK: its fields stay numbers; with M2 on after it, its window is Target
\* of a window that is no smaller than before when nothing was adopted.
LEMMA AckWindow ==
  ASSUME WindowInv, NEW n \in 0 .. AckMax, NEW l \in 0 .. 1, n + l \in 1 .. w.pipe,
         NEW change \in Changes, NEW adopts \in BOOLEAN, NEW m,
         Ack(n, l, change, adopts, m)
  PROVE  /\ WindowInv'
         /\ m = "m2" => \E s \in Sockets :
              /\ w' = [s EXCEPT !.cwnd = Target(s, n)]
              /\ mode = "m2" => s.cwnd >= w.cwnd
<1>1. n \in Nat /\ l \in Nat /\ w \in Sockets /\ adopted \in Nat
  BY WindowAssumption DEF WindowInv
<1> DEFINE fresh == [w EXCEPT !.pipe = @ - n - l]
           moved == Changed(fresh, change)
           base == IF adopts THEN Reset(moved) ELSE moved
<1>2. fresh \in Sockets /\ fresh.cwnd = w.cwnd
  BY <1>1 DEF Sockets
<1>3. PICK est : /\ w' \in Outcomes([base EXCEPT !.est = est], m, n, l)
                 /\ est \in Targets \/ est = 0
  BY Zenon DEF Ack
<1>4. adopted' \in Nat
  BY <1>1 DEF Ack
<1> HIDE DEF fresh
<1>5. moved \in Sockets /\ (mode = "m2" => moved.cwnd >= w.cwnd)
  BY <1>2, LossKeepsWindow
<1> HIDE DEF moved
<1>6. base \in Sockets /\ base.cwnd = moved.cwnd
  BY <1>5, Zenon DEF Reset, Sockets
<1> HIDE DEF base
<1> DEFINE s == [base EXCEPT !.est = est]
<1>7. s \in Sockets /\ s.cwnd = base.cwnd
  <2>1. est \in Nat
    BY <1>3, WindowAssumption
  <2> QED
    BY <1>6, <2>1 DEF Sockets
<1>8. w' \in Outcomes(s, m, n, l)
  BY <1>3
<1> HIDE DEF s
<1>9. w' \in Sockets
  BY <1>1, <1>7, <1>8, OutcomesType
<1>10. m = "m2" => w' = [s EXCEPT !.cwnd = Target(s, n)]
  BY <1>8 DEF Outcomes, Control
<1> QED
  BY <1>4, <1>5, <1>6, <1>7, <1>9, <1>10 DEF WindowInv

\* A timeout, and a transmission.
LEMMA TimeoutType ==
  ASSUME WindowInv, Timeout
  PROVE  WindowInv'
<1>1. w \in Sockets /\ adopted' \in Nat /\ w.cwnd \in Nat
  BY SMTT(30) DEF WindowInv, Timeout, Sockets
<1>2. PICK r \in 0 .. w.pipe, cuts \in BOOLEAN :
        w' = SetState([(IF cuts
                        THEN [Ssthresh([w EXCEPT !.pipe = r, !.out = 0])
                                EXCEPT !.kprior = w.cwnd, !.undo = TRUE,
                                       !.kssthresh = CurrentSsthresh(w)]
                        ELSE [w EXCEPT !.pipe = r, !.out = 0]) EXCEPT !.cwnd = r + 1], "Loss")
  BY Zenon DEF Timeout
<1> DEFINE flat == [w EXCEPT !.pipe = r, !.out = 0]
           cut == IF cuts THEN [Ssthresh(flat) EXCEPT !.kprior = w.cwnd, !.undo = TRUE,
                                                      !.kssthresh = CurrentSsthresh(w)]
                          ELSE flat
           last == [cut EXCEPT !.cwnd = r + 1]
<1>3. flat \in Sockets /\ r \in Nat
  <2>1. w.pipe \in Nat
    BY <1>1 DEF Sockets
  <2>2. r \in Nat
    BY <2>1
  <2> QED
    BY <1>1, <2>2, Zenon DEF Sockets
<1>4. w' = SetState(last, "Loss")
  BY <1>2
<1> HIDE DEF flat
<1>5. Ssthresh(flat) \in Sockets /\ CurrentSsthresh(w) \in Nat
  BY <1>1, <1>3, SsthreshType, ReduceType
<1>6. [Ssthresh(flat) EXCEPT !.kprior = w.cwnd, !.undo = TRUE,
                             !.kssthresh = CurrentSsthresh(w)] \in Sockets
  BY <1>1, <1>5, Zenon DEF Sockets
<1>7. cut \in Sockets
  BY <1>3, <1>6
<1> HIDE DEF cut
<1>8. last \in Sockets
  BY <1>3, <1>7 DEF Sockets
<1> HIDE DEF last
<1>9. w' \in Sockets
  BY <1>4, <1>8, SetStateType DEF States
<1> QED
  BY <1>1, <1>9 DEF WindowInv

LEMMA SendType ==
  ASSUME WindowInv, Send
  PROVE  WindowInv' /\ w'.cwnd = w.cwnd /\ ~Acked
<1>1. w \in Sockets /\ w.pipe \in Nat /\ w.out \in Nat /\ adopted' \in Nat
  BY DEF Send, WindowInv, Sockets
<1> DEFINE o == IF w.ca \in Reductions THEN w.out + 1 ELSE w.out
           p == w.pipe + 1
           t == [w EXCEPT !.pipe = p, !.out = o]
<1>2. o \in Nat /\ p \in Nat /\ p > w.pipe
  BY <1>1
<1>3. w' = t
  BY <1>1 DEF Send, Sockets
<1> HIDE DEF o, p
<1>4. t \in Sockets /\ t.cwnd = w.cwnd /\ t.pipe = p
  BY <1>1, <1>2, Zenon DEF Sockets
<1> HIDE DEF t
<1> QED
  BY <1>1, <1>2, <1>3, <1>4 DEF WindowInv, Acked

\* Every field of the socket and of the flow state stays a number.
THEOREM WindowInvariant == Spec => []WindowInv
<1>1. Init => WindowInv
  <2> SUFFICES ASSUME Init
               PROVE  WindowInv
    OBVIOUS
  <2>1. PICK c \in Windows : w = Started(c) \/ w = Reset(Started(c))
    BY DEF Init
  <2>2. c \in Nat
    BY WindowAssumption
  <2>3. Started(c) \in Sockets
    BY <2>2, WindowAssumption DEF Started, Sockets, States
  <2>4. Reset(Started(c)) \in Sockets
    BY <2>3, Zenon DEF Reset, Sockets
  <2> QED
    BY <2>1, <2>3, <2>4 DEF Init, WindowInv
<1>2. WindowInv /\ [Next]_vars => WindowInv'
  <2> SUFFICES ASSUME WindowInv, [Next]_vars
               PROVE  WindowInv'
    OBVIOUS
  <2>1. CASE AckArrives
    BY <2>1, AckWindow, Zenon DEF AckArrives
  <2>2. CASE Timeout
    BY <2>2, TimeoutType
  <2>3. CASE Send
    BY <2>3, SendType
  <2>4. CASE UNCHANGED vars
    BY <2>4 DEF vars, WindowInv
  <2> QED
    BY <2>1, <2>2, <2>3, <2>4 DEF Next
<1> QED
  BY <1>1, <1>2, PTL DEF Spec

\* With M2 on, every ACK leaves the window within the configured bounds, in
\* whatever state and with whatever window the kernel, an earlier
\* configuration or a timeout left the flow (skyline_set_cwnd_target).
THEOREM M2StaysBounded == Spec => M2Bounds
<1>1. WindowInv /\ [Next]_vars => [M2Bounded]_vars
  <2> SUFFICES ASSUME WindowInv, [Next]_vars
               PROVE  [M2Bounded]_vars
    OBVIOUS
  <2>1. CASE AckArrives
    <3> SUFFICES ASSUME mode' = "m2"
                 PROVE  M2Bounded
      BY DEF M2Bounded
    <3>1. PICK n \in 0 .. AckMax, l \in 0 .. 1, change \in Changes, adopts \in BOOLEAN,
                m \in Modes \cup {mode} :
            n + l \in 1 .. w.pipe /\ Ack(n, l, change, adopts, m)
      BY <2>1, Zenon DEF AckArrives
    <3>2. m = "m2"
      BY <3>1, Zenon DEF Ack
    <3>3. PICK s \in Sockets : w' = [s EXCEPT !.cwnd = Target(s, n)]
      BY <3>1, <3>2, AckWindow
    <3>4. w'.cwnd = Target(s, n) /\ w'.est = s.est /\ w'.ca = s.ca
      BY <3>3 DEF Sockets
    <3> QED
      BY <3>4, TargetBounds, WindowAssumption DEF M2Bounded
  <2>2. CASE Timeout
    BY <2>2 DEF M2Bounded, Acked
  <2>3. CASE Send
    BY <2>3, SendType DEF M2Bounded
  <2>4. CASE UNCHANGED vars
    BY <2>4
  <2> QED
    BY <2>1, <2>2, <2>3, <2>4 DEF Next
<1> QED
  BY <1>1, WindowInvariant, PTL DEF Spec, M2Bounds

\* With M2 on and no estimate, no loss event but a timeout lowers the window
\* (skyline_ssthresh, skyline_undo_cwnd, skyline_set_state and the slow start
\* of skyline_set_cwnd_target together).
THEOREM LossNeverCuts == Spec => NeverCutByLoss
<1>1. WindowInv /\ [Next]_vars => [LossCutsNothing]_vars
  <2> SUFFICES ASSUME WindowInv, [Next]_vars
               PROVE  [LossCutsNothing]_vars
    OBVIOUS
  <2>0. w.cwnd \in Nat /\ Capped(w.cwnd) <= w.cwnd
    BY WindowAssumption DEF WindowInv, Sockets, Capped, Smaller
  <2>1. CASE AckArrives
    <3> SUFFICES ASSUME mode = "m2", mode' = "m2", w'.est = 0
                 PROVE  w'.cwnd >= Capped(w.cwnd)
      BY DEF LossCutsNothing
    <3>1. PICK n \in 0 .. AckMax, l \in 0 .. 1, change \in Changes, adopts \in BOOLEAN,
                m \in Modes \cup {mode} :
            n + l \in 1 .. w.pipe /\ Ack(n, l, change, adopts, m)
      BY <2>1, Zenon DEF AckArrives
    <3>2. m = "m2"
      BY <3>1, Zenon DEF Ack
    <3>3. PICK s \in Sockets : /\ w' = [s EXCEPT !.cwnd = Target(s, n)]
                               /\ s.cwnd >= w.cwnd
      BY <3>1, <3>2, AckWindow
    <3>4. w'.cwnd = Target(s, n) /\ s.est = 0 /\ s.cwnd \in Nat
      BY <3>3 DEF Sockets
    <3>5. Target(s, n) >= Capped(s.cwnd) /\ Target(s, n) \in Nat
      BY <3>4, TargetKeeps, TargetBounds, WindowAssumption
    <3> QED
      BY <2>0, <3>3, <3>4, <3>5, WindowAssumption DEF Capped, Smaller
  <2>2. CASE Timeout
    BY <2>2 DEF LossCutsNothing
  <2>3. CASE Send
    BY <2>0, <2>3, SendType DEF LossCutsNothing
  <2>4. CASE UNCHANGED vars
    BY <2>4
  <2> QED
    BY <2>1, <2>2, <2>3, <2>4 DEF Next
<1> QED
  BY <1>1, WindowInvariant, PTL DEF Spec, NeverCutByLoss

-----------------------------------------------------------------------------
(* Reductions with M2 off.  What an episode was entered with fixes its     *)
(* ssthresh and PRR's prior window; and what has been delivered in it has  *)
(* left the flight, which only what was sent in it (prr_out) has refilled. *)
(* Both survive CWR turning into Recovery, where prr_delivered starts over *)
(* and prr_out does not.                                                   *)
Cut(c) == Larger((c * BETA) \div 1000, 2)
Top(e) == Larger(Larger(e.cwnd, e.pipe), MIN_CWND)
Entries == [m2off : BOOLEAN, cwnd : Nat, pipe : Nat]

(* s is in the episode e; n packets are still to be counted as delivered.  *)
Episode(s, e, n) ==
  e.m2off => /\ s.ca # "Open" /\ s.active /\ s.ssthresh = Cut(e.cwnd)
             /\ s.ca \in Reductions => /\ s.prior = e.cwnd
                                       /\ s.pipe + s.delivered + n <= e.pipe + s.out

InRange(s) == /\ s.cwnd >= 1 /\ s.ssthresh >= 2 /\ s.pipe <= PipeMax /\ s.out <= OutMax
              /\ s.delivered <= OutMax /\ s.est \in Targets \cup {0}

EpisodeInv == /\ entry \in Entries /\ Episode(w, entry, 0)
              /\ entry.m2off => mode \in {"prr", "plain"}
              /\ InRange(w) /\ mode \in Modes /\ adopted <= AdoptMax
              /\ PrrNeverRaises

LEMMA CutBounds ==
  ASSUME NEW c \in Nat PROVE Cut(c) \in Nat /\ Cut(c) >= 2 /\ (c > 1 => Cut(c) <= c)
<1>1. (c * BETA) \div 1000 \in Nat /\ (c * BETA) \div 1000 <= c
  BY DEF BETA
<1> QED
  BY <1>1 DEF Cut, Larger

(* PRR's proportional share never exceeds what was delivered.              *)
LEMMA ShareBound ==
  ASSUME NEW a \in Nat, NEW p \in Nat, p > 0, a <= p, NEW d \in Nat
  PROVE  (a * d + p - 1) \div p \in Int /\ (a * d + p - 1) \div p <= d
<1>1. a * d \in Nat /\ p * d \in Nat /\ a * d <= p * d
  OBVIOUS
<1>2. p * (d + 1) = p * d + p
  OBVIOUS
<1> DEFINE q == (a * d + p - 1) \div p
<1>3. ASSUME NEW x \in Nat PROVE x \div p \in Nat /\ p * (x \div p) <= x
  BY <1>3
<1>4. a * d + p - 1 \in Nat
  BY <1>1
<1>5. q \in Nat /\ p * q <= a * d + p - 1
  BY <1>3, <1>4
<1> HIDE DEF q
<1>6. p * q < p * (d + 1)
  <2>1. p * q \in Nat
    BY <1>5
  <2> QED  BY <1>1, <1>2, <1>5, <2>1
<1>7. q < d + 1
  <2> SUFFICES ASSUME q >= d + 1 PROVE FALSE
    BY <1>5
  <2>1. p * q >= p * (d + 1)
    BY <1>5
  <2> QED  BY <1>1, <1>2, <1>5, <1>6, <2>1
<1> QED  BY <1>5, <1>7 DEF q

-----------------------------------------------------------------------------
(* skyline_apply_prr within an episode.                                    *)
LEMMA PrrBound ==
  ASSUME NEW s \in Sockets, NEW e \in Entries, NEW n \in Nat, NEW bonus,
         Episode(s, e, n), e.m2off, e.cwnd > 1, s.ca \in Reductions,
         s.pipe + 1 <= Top(e), s.cwnd <= Top(e)
  PROVE  ApplyPrr(s, n, bonus).cwnd <= Top(e)
<1>1. CASE n = 0 \/ s.prior = 0
  BY <1>1 DEF ApplyPrr
<1>2. CASE ~(n = 0 \/ s.prior = 0)
  <2> DEFINE t == [s EXCEPT !.delivered = @ + n]
             top == Top(e)
             r == Released(t, n, bonus)
  <2>1. /\ s.ssthresh \in Nat /\ s.pipe \in Nat /\ s.out \in Nat
        /\ s.delivered \in Nat /\ s.prior \in Nat /\ e.cwnd \in Nat /\ e.pipe \in Nat
    BY DEF Sockets, Entries
  <2>2. /\ t \in Sockets /\ t.delivered = s.delivered + n /\ t.ssthresh = s.ssthresh
        /\ t.pipe = s.pipe /\ t.out = s.out /\ t.prior = s.prior
    BY <2>1 DEF Sockets
  <2>3. ApplyPrr(s, n, bonus) = [t EXCEPT !.cwnd = Larger(t.pipe + r, MIN_CWND)]
    BY <1>2 DEF ApplyPrr
  <2> HIDE DEF t
  <2>4. /\ t.prior = e.cwnd /\ t.ssthresh \in Nat /\ t.ssthresh <= e.cwnd
        /\ t.pipe + t.delivered <= e.pipe + t.out
        /\ t.delivered \in Nat /\ t.pipe \in Nat /\ t.out \in Nat /\ t.prior \in Nat
    BY <2>1, <2>2, CutBounds DEF Episode
  <2>5. /\ top \in Nat /\ e.cwnd <= top /\ e.pipe <= top /\ MIN_CWND <= top
        /\ t.pipe + 1 <= top
    BY <2>1, <2>2 DEF Top, Larger, MIN_CWND
  <2> DEFINE q == (t.ssthresh * t.delivered + t.prior - 1) \div t.prior
  <2>6. q \in Int /\ q <= t.delivered
    BY <2>1, <2>4, ShareBound
  <2>7. r = LET delta == t.ssthresh - t.pipe
                share == q - t.out
                bound == Smaller(Larger(t.delivered - t.out, n) + (IF bonus THEN 1 ELSE 0), delta)
            IN Larger(IF delta < 0 THEN share ELSE bound, IF t.out = 0 THEN 1 ELSE 0)
    BY DEF Released
  <2> HIDE DEF q, top, r
  <2>8. r \in Int /\ t.pipe + r <= top
    BY <2>1, <2>4, <2>5, <2>6, <2>7 DEF Smaller, Larger
  <2>9. Larger(t.pipe + r, MIN_CWND) <= top
    BY <2>4, <2>5, <2>8 DEF Larger, MIN_CWND
  <2>10. ApplyPrr(s, n, bonus).cwnd = Larger(t.pipe + r, MIN_CWND)
    BY <2>2, <2>3 DEF Sockets
  <2> QED  BY <2>9, <2>10 DEF top
<1> QED  BY <1>1, <1>2

(* PRR leaves all but the window and its count alone.                      *)
LEMMA PrrFields ==
  ASSUME NEW s \in Sockets, NEW n \in Nat, NEW bonus, NEW x, x = ApplyPrr(s, n, bonus)
  PROVE  /\ x.ca = s.ca /\ x.ssthresh = s.ssthresh /\ x.pipe = s.pipe /\ x.out = s.out
         /\ x.prior = s.prior /\ x.active = s.active /\ x.undo = s.undo /\ x.est = s.est
         /\ x.delivered \in {s.delivered, s.delivered + n}
         /\ x.cwnd >= 1 \/ x.cwnd = s.cwnd
<1>1. CASE n = 0 \/ s.prior = 0
  BY <1>1 DEF ApplyPrr
<1>2. CASE ~(n = 0 \/ s.prior = 0)
  <2> DEFINE t == [s EXCEPT !.delivered = @ + n]
             c == Larger(t.pipe + Released(t, n, bonus), MIN_CWND)
  <2>1. /\ t \in Sockets /\ t.prior > 0 /\ t.delivered = s.delivered + n /\ t.ssthresh = s.ssthresh
        /\ t.pipe = s.pipe /\ t.out = s.out /\ t.prior = s.prior /\ t.ca = s.ca
        /\ t.active = s.active /\ t.undo = s.undo /\ t.est = s.est /\ t.pipe \in Nat
    BY <1>2 DEF Sockets
  <2>2. x = [t EXCEPT !.cwnd = c]
    BY <1>2 DEF ApplyPrr
  <2> HIDE DEF t
  <2>3. c >= 1
    BY <2>1, ReleasedType DEF Larger, MIN_CWND
  <2> HIDE DEF c
  <2> QED  BY <2>1, <2>2, <2>3 DEF Sockets
<1> QED  BY <1>1, <1>2

(* Growth after a reduction has ended: at most a packet for each acked.    *)
LEMMA GrownBound ==
  ASSUME NEW s \in Sockets, NEW n \in Nat, n > 0, NEW k \in Nat,
         s.cwnd >= s.ssthresh, s.cwnd >= MIN_CWND
  PROVE  Grown(s, n, k) <= s.cwnd + n
<1>1. s.cwnd \in Nat /\ s.ssthresh \in Nat
  BY DEF Sockets
<1>2. n \div 2 \in Nat /\ 1 + n \div 2 <= n
  OBVIOUS
<1>3. Grown(s, n, k) = Larger(Capped(s.cwnd + Smaller(k, 1 + n \div 2)), MIN_CWND)
  BY <1>1 DEF Grown
<1> QED  BY <1>1, <1>2, <1>3, WindowAssumption DEF Capped, Smaller, Larger, MIN_CWND

(* No growth leaves an empty window.                                       *)
LEMMA NeverEmpty ==
  ASSUME NEW s \in Sockets, InRange(s), NEW n \in Nat, NEW k \in Nat
  PROVE  Target(s, n) >= 1 /\ Grown(s, n, k) >= 1 /\ Reno(s, n, k) >= 1
<1>1. s.cwnd \in Nat /\ s.ssthresh \in Nat /\ s.cwnd >= 1 /\ s.ssthresh >= 2 /\ s.est \in Nat
  BY DEF Sockets, InRange
<1>2. /\ SlowStart(s.cwnd, s.ssthresh, n) \in Nat /\ SlowStart(s.cwnd, s.ssthresh, n) >= 1
      /\ s.cwnd < s.ssthresh => SlowStart(s.cwnd, s.ssthresh, n) <= s.cwnd + n
  BY <1>1, WindowAssumption DEF SlowStart, Smaller, MIN_CWND
<1>3. Target(s, n) >= 1
  BY <1>1, <1>2, WindowAssumption DEF Target, Capped, Smaller, Larger, MIN_CWND
<1> DEFINE slow == IF s.cwnd < s.ssthresh THEN SlowStart(s.cwnd, s.ssthresh, n) ELSE s.cwnd
           left == n - (slow - s.cwnd)
<1>4. slow \in Nat /\ slow >= 1 /\ left \in Nat
  BY <1>1, <1>2
<1>5. /\ Grown(s, n, k) = IF left = 0 THEN Capped(slow)
                          ELSE Larger(Capped(slow + Smaller(k, 1 + left \div 2)), MIN_CWND)
      /\ Reno(s, n, k) = IF left = 0 THEN slow
                         ELSE Smaller(slow + Smaller(k, 1 + left), Infinite)
  BY DEF Grown, Reno
<1> HIDE DEF left, slow
<1>6. left \div 2 \in Nat
  BY <1>4
<1> QED
  BY <1>3, <1>4, <1>5, <1>6, WindowAssumption DEF Capped, Smaller, Larger, MIN_CWND

-----------------------------------------------------------------------------
(* What cong_control may leave, case by case.                              *)
LEMMA OutcomesAre ==
  ASSUME NEW s \in Sockets, NEW m, NEW n \in Nat, NEW l \in 0 .. 1,
         NEW x \in Outcomes(s, m, n, l)
  PROVE  \/ m = "m2" /\ x = [s EXCEPT !.cwnd = Target(s, n)]
         \/ m = "prr" /\ s.ca \in Reductions /\ \E b : x = ApplyPrr(s, n, b)
         \/ m # "m2" /\ ~(m = "prr" /\ s.ca \in Reductions) /\ x = s
         \/ /\ m # "m2" /\ ~(m \in {"prr", "plain"} /\ s.ca \in Reductions)
            /\ \E k \in 0 .. 2 : \/ m = "none" /\ x = [s EXCEPT !.cwnd = Reno(s, n, k)]
                                 \/ n > 0 /\ x = [s EXCEPT !.cwnd = Grown(s, n, k)]
<1> DEFINE prr == {Control(s, m, n, b, FALSE, 0) : b \in {l = 0, FALSE}}
           still == {Control(s, m, n, FALSE, FALSE, 0)}
           grows == {Control(s, m, n, FALSE, TRUE, k) : k \in 0 .. 2}
<1>2. Outcomes(s, m, n, l) = CASE m = "m2" -> still
                               [] m = "prr" /\ s.ca \in Reductions -> prr
                               [] OTHER -> still \cup grows
  BY DEF Outcomes
<1>3. x \in still => x = Control(s, m, n, FALSE, FALSE, 0)
  OBVIOUS
<1>4. x \in prr => \E b : x = Control(s, m, n, b, FALSE, 0)
  BY Zenon
<1>5. x \in grows => \E k \in 0 .. 2 : x = Control(s, m, n, FALSE, TRUE, k)
  BY Zenon
<1> HIDE DEF prr, still, grows
<1>6. CASE m = "m2"
  BY <1>2, <1>3, <1>6 DEF Control
<1>7. CASE m = "prr" /\ s.ca \in Reductions
  <2>1. PICK b : x = Control(s, m, n, b, FALSE, 0)
    BY <1>2, <1>4, <1>7, Zenon
  <2>2. x = ApplyPrr(s, n, b)
    BY <1>7, <2>1, Zenon DEF Control
  <2> QED  BY <1>7, <2>2
<1>8. CASE m # "m2" /\ ~(m = "prr" /\ s.ca \in Reductions)
  <2>1. x \in still \cup grows
    BY <1>2, <1>8, Zenon
  <2>2. CASE x \in still
    <3>1. x = s
      BY <1>3, <1>8, <2>2, Zenon DEF Control
    <3> QED  BY <1>8, <3>1
  <2>3. CASE x \in grows
    <3>1. PICK k \in 0 .. 2 : x = Control(s, m, n, FALSE, TRUE, k)
      BY <1>5, <2>3, Zenon
    <3>2. \/ x = s
          \/ m = "none" /\ x = [s EXCEPT !.cwnd = Reno(s, n, k)]
          \/ /\ ~(m = "plain" /\ s.ca \in Reductions) /\ n > 0
             /\ x = [s EXCEPT !.cwnd = Grown(s, n, k)]
      BY <1>8, <3>1, Zenon DEF Control
    <3>3. m = "none" => ~(m \in {"prr", "plain"})
      OBVIOUS
    <3> QED  BY <1>8, <3>1, <3>2, <3>3, Zenon
  <2> QED  BY <2>1, <2>2, <2>3
<1> QED  BY <1>6, <1>7, <1>8

(* All but the window and PRR's count are left alone.                      *)
LEMMA OutcomeFields ==
  ASSUME NEW s \in Sockets, InRange(s), NEW m, NEW n \in Nat, NEW l \in 0 .. 1,
         NEW x \in Outcomes(s, m, n, l)
  PROVE  /\ x.ca = s.ca /\ x.ssthresh = s.ssthresh /\ x.pipe = s.pipe /\ x.out = s.out
         /\ x.prior = s.prior /\ x.active = s.active /\ x.undo = s.undo /\ x.est = s.est
         /\ x.delivered = s.delivered \/ (m = "prr" /\ x.delivered = s.delivered + n)
         /\ x.cwnd >= 1
<1>0. s.cwnd >= 1
  BY DEF InRange
<1>1. ASSUME NEW c, c >= 1, x = [s EXCEPT !.cwnd = c]
      PROVE  /\ x.ca = s.ca /\ x.ssthresh = s.ssthresh /\ x.pipe = s.pipe /\ x.out = s.out
             /\ x.prior = s.prior /\ x.active = s.active /\ x.undo = s.undo /\ x.est = s.est
             /\ x.delivered = s.delivered /\ x.cwnd >= 1
  BY <1>1 DEF Sockets
<1>2. CASE m = "m2" /\ x = [s EXCEPT !.cwnd = Target(s, n)]
  <2>1. Target(s, n) >= 1
    BY NeverEmpty
  <2> QED  BY <1>1, <1>2, <2>1
<1>3. CASE m = "prr" /\ \E b : x = ApplyPrr(s, n, b)
  <2>1. PICK b : x = ApplyPrr(s, n, b)
    BY <1>3
  <2> QED  BY <1>0, <1>3, <2>1, PrrFields
<1>4. CASE x = s
  BY <1>0, <1>4
<1>5. ASSUME NEW k \in 0 .. 2,
             \/ x = [s EXCEPT !.cwnd = Reno(s, n, k)] \/ x = [s EXCEPT !.cwnd = Grown(s, n, k)]
      PROVE  /\ x.ca = s.ca /\ x.ssthresh = s.ssthresh /\ x.pipe = s.pipe /\ x.out = s.out
             /\ x.prior = s.prior /\ x.active = s.active /\ x.undo = s.undo /\ x.est = s.est
             /\ x.delivered = s.delivered /\ x.cwnd >= 1
  <2>1. Reno(s, n, k) >= 1 /\ Grown(s, n, k) >= 1
    BY NeverEmpty
  <2> QED  BY <1>1, <1>5, <2>1
<1> QED  BY <1>2, <1>3, <1>4, <1>5, OutcomesAre

-----------------------------------------------------------------------------
(* The kernel's part of an ACK with M2 off.                                *)
LEMMA SetStateFields ==
  ASSUME NEW s \in Sockets, NEW new \in States, NEW t, t = SetState(s, new)
  PROVE  /\ t.ca = new /\ t.ssthresh = s.ssthresh /\ t.pipe = s.pipe /\ t.out = s.out
         /\ t.prior = s.prior /\ t.undo = s.undo /\ t.est = s.est
         /\ t.delivered \in {0, s.delivered} /\ (t.cwnd = s.cwnd \/ t.cwnd >= 1)
         /\ new # "Open" => t.active /\ t.cwnd = s.cwnd
         /\ new \in Reductions => t.delivered = 0
         /\ new = "Open" /\ s.active /\ mode \in {"prr", "plain"}
              => t.cwnd = Larger(s.ssthresh, MIN_CWND)
<1>1. CASE new = "Loss"
  BY <1>1, Zenon DEF SetState, Sockets, Reductions
<1>2. CASE new \in Reductions
  BY <1>2 DEF SetState, Sockets, Reductions
<1>3. CASE new = "Open" /\ (~s.active \/ mode \in {"none", "m2"})
  BY <1>3 DEF SetState, Sockets, Reductions
<1>4. CASE new = "Open" /\ ~(~s.active \/ mode \in {"none", "m2"})
  <2> DEFINE c == Larger(s.ssthresh, MIN_CWND)
  <2>1. c >= 1
    BY DEF Sockets, Larger, MIN_CWND
  <2>2. t = [s EXCEPT !.ca = new, !.active = FALSE, !.cwnd = c]
    BY <1>4 DEF SetState, Reductions
  <2> HIDE DEF c
  <2>3. /\ t.ca = new /\ t.ssthresh = s.ssthresh /\ t.pipe = s.pipe /\ t.out = s.out
        /\ t.prior = s.prior /\ t.undo = s.undo /\ t.est = s.est
        /\ t.delivered = s.delivered /\ t.cwnd = c
    BY <2>2 DEF Sockets
  <2> QED  BY <1>4, <2>1, <2>3 DEF c, Reductions
<1> QED  BY <1>1, <1>2, <1>3, <1>4 DEF States, Reductions

(* An episode begins: the state is one of a reduction, or Loss.            *)
LEMMA ReduceFields ==
  ASSUME NEW s \in Sockets, NEW t, t = Ssthresh(s)
  PROVE  /\ t.ca = s.ca /\ t.cwnd = s.cwnd /\ t.pipe = s.pipe /\ t.out = s.out
         /\ t.delivered = s.delivered /\ t.undo = s.undo /\ t.est = s.est
         /\ t.active = s.active /\ t.ssthresh >= 2
         /\ mode \in {"prr", "plain"} => t.ssthresh = Cut(s.cwnd) /\ t.prior = s.cwnd
<1>1. s.cwnd \in Nat /\ (s.cwnd * BETA) \div 1000 \in Nat
  BY DEF Sockets, BETA
<1>2. SsthreshOf(s) >= 2
  BY <1>1 DEF SsthreshOf, Larger
<1>3. mode \in {"prr", "plain"} => SsthreshOf(s) = Cut(s.cwnd)
  BY DEF SsthreshOf, Cut
<1> DEFINE a == SsthreshOf(s)
           p == IF mode = "none" THEN s.prior ELSE s.cwnd
<1>4. t = [s EXCEPT !.ssthresh = a, !.prior = p]
  BY DEF Ssthresh, Sockets
<1> HIDE DEF a, p
<1>5. /\ t.ca = s.ca /\ t.cwnd = s.cwnd /\ t.pipe = s.pipe /\ t.out = s.out
      /\ t.delivered = s.delivered /\ t.undo = s.undo /\ t.est = s.est
      /\ t.active = s.active /\ t.ssthresh = a /\ t.prior = p
  BY <1>4 DEF Sockets
<1> QED  BY <1>2, <1>3, <1>5 DEF a, p

LEMMA Enters ==
  ASSUME NEW s \in Sockets, NEW change \in {"cwr", "recovery"}, s.ca = "Open",
         NEW t, t = Changed(s, change)
  PROVE  /\ t.ca \in Reductions /\ t.active /\ t.cwnd = s.cwnd /\ t.pipe = s.pipe
         /\ t.out = 0 /\ t.delivered = 0 /\ t.est = s.est /\ t.ssthresh >= 2
         /\ mode \in {"prr", "plain"} => t.ssthresh = Cut(s.cwnd) /\ t.prior = s.cwnd
<1> DEFINE a == [s EXCEPT !.kprior = s.cwnd, !.out = 0]
           b == Ssthresh(a)
<1>1. /\ a \in Sockets /\ a.ca = s.ca /\ a.cwnd = s.cwnd /\ a.pipe = s.pipe /\ a.out = 0
      /\ a.est = s.est
  BY Zenon DEF Sockets
<1>2. Reduce(s) = b
  BY DEF Reduce
<1> HIDE DEF a
<1>3. /\ b \in Sockets /\ b.cwnd = s.cwnd /\ b.pipe = s.pipe /\ b.out = 0
      /\ b.est = s.est /\ b.ssthresh >= 2
      /\ mode \in {"prr", "plain"} => b.ssthresh = Cut(s.cwnd) /\ b.prior = s.cwnd
  BY <1>1, SsthreshType, ReduceFields
<1> HIDE DEF b
<1>4. CurrentSsthresh(s) \in Nat
  BY ReduceType
<1>5. PICK k \in Nat, u \in BOOLEAN, new \in Reductions :
        t = SetState([b EXCEPT !.kssthresh = k, !.undo = u], new)
  BY <1>2, <1>4, Zenon DEF Changed, EnterCwr, EnterRecovery, Reductions
<1> DEFINE c == [b EXCEPT !.kssthresh = k, !.undo = u]
<1>6. /\ c \in Sockets /\ c.cwnd = b.cwnd /\ c.pipe = b.pipe /\ c.out = b.out
      /\ c.est = b.est /\ c.ssthresh = b.ssthresh /\ c.prior = b.prior
  BY <1>3, Zenon DEF Sockets
<1>7. t = SetState(c, new) /\ new \in States /\ new # "Open"
  BY <1>5 DEF States, Reductions
<1> HIDE DEF c
<1>8. /\ t.ca = new /\ t.ssthresh = c.ssthresh /\ t.pipe = c.pipe /\ t.out = c.out
      /\ t.prior = c.prior /\ t.est = c.est /\ t.active /\ t.cwnd = c.cwnd /\ t.delivered = 0
  BY <1>6, <1>7, SetStateFields
<1> QED  BY <1>3, <1>6, <1>8

(* CWR turns into Recovery.                                                *)
LEMMA Continues ==
  ASSUME NEW s \in Sockets, s.ca = "CWR", NEW t, t = Changed(s, "recovery")
  PROVE  /\ t.ca = "Recovery" /\ t.active /\ t.cwnd = s.cwnd /\ t.pipe = s.pipe
         /\ t.out = s.out /\ t.delivered = 0 /\ t.est = s.est
         /\ t.ssthresh = s.ssthresh /\ t.prior = s.prior
<1> DEFINE a == [s EXCEPT !.kssthresh = 0, !.undo = TRUE]
<1>1. /\ a \in Sockets /\ a.cwnd = s.cwnd /\ a.pipe = s.pipe /\ a.out = s.out
      /\ a.est = s.est /\ a.ssthresh = s.ssthresh /\ a.prior = s.prior
  BY Zenon DEF Sockets
<1>2. t = SetState(a, "Recovery") /\ "Recovery" \in States /\ "Recovery" \in Reductions
  BY DEF Changed, EnterRecovery, States, Reductions
<1> HIDE DEF a
<1>3. /\ t.ca = "Recovery" /\ t.ssthresh = a.ssthresh /\ t.pipe = a.pipe /\ t.out = a.out
      /\ t.prior = a.prior /\ t.est = a.est /\ t.active /\ t.cwnd = a.cwnd /\ t.delivered = 0
  BY <1>1, <1>2, SetStateFields
<1> QED  BY <1>1, <1>3

(* A reduction is undone.                                                  *)
LEMMA UndoFields ==
  ASSUME NEW s \in Sockets, NEW t, t = UndoReduction(s)
  PROVE  /\ t.ca = s.ca /\ t.pipe = s.pipe /\ t.out = s.out /\ t.delivered = s.delivered
         /\ t.est = s.est /\ t.undo = FALSE /\ t.cwnd >= s.cwnd /\ t.ssthresh >= s.ssthresh
<1>0. s.cwnd \in Nat /\ s.ssthresh \in Nat /\ s.kssthresh \in Nat
  BY DEF Sockets
<1>1. UndoCwnd(s) \in Nat /\ UndoCwnd(s) >= s.cwnd
  BY DEF UndoCwnd, Larger, Sockets
<1> DEFINE c == IF s.kssthresh > 0 THEN UndoCwnd(s) ELSE s.cwnd
           d == Larger(s.ssthresh, s.kssthresh)
<1>2. c >= s.cwnd /\ d >= s.ssthresh
  BY <1>0, <1>1 DEF Larger
<1>3. t = [s EXCEPT !.undo = FALSE, !.kprior = 0, !.kssthresh = 0, !.cwnd = c, !.ssthresh = d]
  BY DEF UndoReduction, Sockets
<1> HIDE DEF c, d
<1>4. /\ t.ca = s.ca /\ t.pipe = s.pipe /\ t.out = s.out /\ t.delivered = s.delivered
      /\ t.est = s.est /\ t.undo = FALSE /\ t.cwnd = c /\ t.ssthresh = d
  BY <1>3 DEF Sockets
<1> QED  BY <1>2, <1>4

(* A reduction, or a loss, ends: without an undo, at its ssthresh.         *)
LEMMA Ends ==
  ASSUME NEW s \in Sockets, s.cwnd >= 1, s.ssthresh >= 2,
         NEW change \in {"exit", "undo"}, NEW t, t = Changed(s, change)
  PROVE  /\ t.ca = "Open" /\ t.pipe = s.pipe /\ t.out = 0 /\ t.delivered \in {0, s.delivered}
         /\ t.est = s.est /\ t.cwnd >= 1 /\ t.ssthresh >= 2
         /\ change = "undo" => ~t.undo
         /\ change = "exit" /\ s.active /\ mode \in {"prr", "plain"}
              => t.cwnd = Larger(s.ssthresh, MIN_CWND) /\ t.ssthresh = s.ssthresh
<1> DEFINE a == [s EXCEPT !.out = 0]
           b == UndoReduction(a)
<1>0. "Open" \in States /\ s.cwnd \in Nat /\ s.ssthresh \in Nat
  BY DEF States, Sockets
<1>1. /\ a \in Sockets /\ a.cwnd = s.cwnd /\ a.pipe = s.pipe /\ a.out = 0 /\ a.est = s.est
      /\ a.ssthresh = s.ssthresh /\ a.delivered = s.delivered /\ a.active = s.active
  BY DEF Sockets
<1>e. CASE change = "exit"
  <2>1. t = SetState(a, "Open")
    BY <1>e DEF Changed
  <2> HIDE DEF a
  <2> QED  BY <1>0, <1>1, <1>e, <2>1, SetStateFields
<1>u. CASE change = "undo"
  <2>1. t = SetState(b, "Open")
    BY <1>u DEF Changed
  <2> HIDE DEF a
  <2>2. /\ b \in Sockets /\ b.pipe = a.pipe /\ b.out = a.out /\ b.delivered = a.delivered
        /\ b.est = a.est /\ b.undo = FALSE /\ b.cwnd >= a.cwnd /\ b.ssthresh >= a.ssthresh
    BY <1>1, UndoType, UndoFields, ZenonT(30)
  <2> HIDE DEF b
  <2>3. b.cwnd \in Nat /\ b.ssthresh \in Nat
    BY <2>2 DEF Sockets
  <2>4. /\ t.ca = "Open" /\ t.ssthresh = b.ssthresh /\ t.pipe = b.pipe /\ t.out = b.out
        /\ t.undo = b.undo /\ t.est = b.est
        /\ t.delivered \in {0, b.delivered} /\ (t.cwnd = b.cwnd \/ t.cwnd >= 1)
    BY <1>0, <2>1, <2>2, SetStateFields
  <2>5. t.cwnd >= 1 /\ t.ssthresh >= 2
    BY <1>0, <1>1, <2>2, <2>3, <2>4
  <2> QED  BY <1>1, <1>u, <2>2, <2>4, <2>5
<1> QED  BY <1>e, <1>u

LEMMA ChangedRange ==
  ASSUME NEW s \in Sockets, InRange(s), NEW change \in Changes, May(s, change),
         NEW t, t = Changed(s, change)
  PROVE  InRange(t) /\ t.pipe = s.pipe
<1>0. OutMax \in Nat /\ s.cwnd \in Nat /\ s.ssthresh \in Nat
  BY WindowAssumption DEF Sockets
<1>1. CASE change = "stay"
  BY <1>1 DEF Changed
<1>2. CASE change \in {"cwr", "recovery"} /\ s.ca = "Open"
  <2>1. /\ t.cwnd = s.cwnd /\ t.pipe = s.pipe
        /\ t.out = 0 /\ t.delivered = 0 /\ t.est = s.est /\ t.ssthresh >= 2
    BY <1>2, Enters
  <2> QED  BY <1>0, <2>1 DEF InRange
<1>3. CASE change = "recovery" /\ s.ca = "CWR"
  <2>1. /\ t.cwnd = s.cwnd /\ t.pipe = s.pipe /\ t.out = s.out /\ t.delivered = 0
        /\ t.est = s.est /\ t.ssthresh = s.ssthresh
    BY <1>3, Continues
  <2> QED  BY <1>0, <2>1 DEF InRange
<1>4. CASE change \in {"exit", "undo"}
  <2>1. /\ t.pipe = s.pipe /\ t.out = 0 /\ t.delivered \in {0, s.delivered}
        /\ t.est = s.est /\ t.cwnd >= 1 /\ t.ssthresh >= 2
    BY <1>4, Ends DEF InRange
  <2> QED  BY <1>0, <2>1 DEF InRange
<1>5. CASE change = "late"
  <2>1. t = UndoReduction(s)
    BY <1>5 DEF Changed
  <2>2. t.cwnd \in Nat /\ t.ssthresh \in Nat
    BY <2>1, UndoType DEF Sockets
  <2>3. /\ t.pipe = s.pipe /\ t.out = s.out /\ t.delivered = s.delivered
        /\ t.est = s.est /\ t.cwnd >= s.cwnd /\ t.ssthresh >= s.ssthresh
    BY <2>1, UndoFields, Zenon
  <2> QED  BY <1>0, <2>2, <2>3 DEF InRange
<1> QED  BY <1>1, <1>2, <1>3, <1>4, <1>5, Zenon DEF Changes, May

-----------------------------------------------------------------------------
LEMMA NoEntryType == NoEntry \in Entries /\ ~NoEntry.m2off
BY DEF NoEntry, Entries

LEMMA EntryOfType ==
  ASSUME NEW s \in Sockets
  PROVE  /\ EntryOf(s) \in Entries /\ EntryOf(s).m2off
         /\ EntryOf(s).cwnd = s.cwnd /\ EntryOf(s).pipe = s.pipe
BY DEF EntryOf, Entries, Sockets

(* The socket after an ACK has taken n + l packets out of its flight.      *)
Delivers(fresh, n, l) ==
  /\ fresh.pipe = w.pipe - n - l /\ fresh.ca = w.ca /\ fresh.cwnd = w.cwnd
  /\ fresh.out = w.out /\ fresh.delivered = w.delivered /\ fresh.active = w.active
  /\ fresh.ssthresh = w.ssthresh /\ fresh.prior = w.prior /\ fresh.undo = w.undo
  /\ fresh.est = w.est

(* An ACK that adopts nothing, up to cong_control's last part.             *)
LEMMA ChangedEpisode ==
  ASSUME w \in Sockets, EpisodeInv, NEW n \in Nat, NEW l \in 0 .. 1, n + l \in 1 .. w.pipe,
         NEW change \in Changes, May(w, change),
         NEW fresh \in Sockets, Delivers(fresh, n, l),
         NEW moved, moved = Changed(fresh, change),
         NEW e, e = EntryAfter(fresh, moved)
  PROVE  /\ e \in Entries /\ Episode(moved, e, n)
         /\ e.m2off => mode \in {"prr", "plain"}
         /\ e.m2off /\ mode = "prr" /\ moved.ca \in Reductions /\ e.cwnd > 1
              => moved.pipe + 1 <= Top(e) /\ moved.cwnd <= Top(e)
<1>0. /\ w.cwnd \in Nat /\ w.pipe \in Nat /\ w.out \in Nat /\ w.delivered \in Nat
      /\ w.pipe - n - l \in Nat /\ w.pipe - n - l < w.pipe
  BY DEF Sockets
<1>1. /\ fresh \in Sockets /\ fresh.pipe = w.pipe - n - l /\ fresh.ca = w.ca
      /\ fresh.cwnd = w.cwnd /\ fresh.out = w.out /\ fresh.delivered = w.delivered
      /\ fresh.active = w.active /\ fresh.ssthresh = w.ssthresh /\ fresh.prior = w.prior
      /\ fresh.undo = w.undo
  BY DEF Delivers
<1>2. CASE moved.ca = "Open"
  <2>1. e = NoEntry
    BY <1>2 DEF EntryAfter
  <2> QED  BY <2>1, NoEntryType DEF Episode
<1>3. CASE w.ca = "Open" /\ moved.ca # "Open"
  <2>1. change \in {"cwr", "recovery"}
    <3>1. change \in {"exit", "undo"} => FALSE
      BY <1>1, <1>3, Zenon DEF May
    <3>2. change = "stay" => FALSE
      BY <1>1, <1>3 DEF Changed
    <3>3. change = "late" => FALSE
      BY <1>1, <1>3, UndoFields, Zenon DEF Changed
    <3> QED  BY <3>1, <3>2, <3>3 DEF Changes
  <2>2. /\ moved.ca \in Reductions /\ moved.active /\ moved.cwnd = w.cwnd
        /\ moved.pipe = w.pipe - n - l /\ moved.out = 0 /\ moved.delivered = 0
        /\ mode \in {"prr", "plain"} => moved.ssthresh = Cut(w.cwnd) /\ moved.prior = w.cwnd
    <3>1. fresh \in Sockets /\ fresh.ca = "Open"
      BY <1>1, <1>3
    <3>2. /\ moved.ca \in Reductions /\ moved.active /\ moved.cwnd = fresh.cwnd
          /\ moved.pipe = fresh.pipe /\ moved.out = 0 /\ moved.delivered = 0
          /\ mode \in {"prr", "plain"}
               => moved.ssthresh = Cut(fresh.cwnd) /\ moved.prior = fresh.cwnd
      BY <2>1, <3>1, Enters
    <3> QED  BY <1>1, <3>2
  <2>3. e = IF mode \in {"prr", "plain"} THEN EntryOf(w) ELSE NoEntry
    BY <1>1, <1>3 DEF EntryAfter
  <2>4. CASE mode \in {"prr", "plain"}
    <3>1. e \in Entries /\ e.cwnd = w.cwnd /\ e.pipe = w.pipe /\ e.m2off
      BY <2>3, <2>4, EntryOfType
    <3>2. Episode(moved, e, n)
      BY <1>0, <1>3, <2>2, <2>4, <3>1 DEF Episode
    <3>3. moved.pipe + 1 <= Top(e) /\ moved.cwnd <= Top(e)
      BY <1>0, <2>2, <3>1 DEF Top, Larger, MIN_CWND
    <3> QED  BY <2>4, <3>1, <3>2, <3>3
  <2>5. CASE ~(mode \in {"prr", "plain"})
    BY <2>3, <2>5, NoEntryType DEF Episode
  <2> QED  BY <2>4, <2>5
<1>4. CASE w.ca # "Open" /\ moved.ca # "Open"
  <2>1. e = entry
    BY <1>1, <1>4 DEF EntryAfter
  <2>2. \/ change = "stay" /\ moved = fresh
        \/ change = "recovery" /\ w.ca = "CWR"
    <3>1. change \in {"exit", "undo"} => FALSE
      <4>1. w.cwnd >= 1 /\ w.ssthresh >= 2
        BY DEF EpisodeInv, InRange
      <4> QED  BY <1>1, <1>4, <4>1, Ends, ZenonT(10)
    <3>2. change \in {"cwr", "late"} => FALSE
      BY <1>4, Zenon DEF May
    <3>3. change = "stay" => moved = fresh
      BY DEF Changed
    <3>4. change = "recovery" => w.ca = "CWR"
      BY <1>4 DEF May
    <3> QED  BY <3>1, <3>2, <3>3, <3>4 DEF Changes
  <2>3. /\ moved.pipe = w.pipe - n - l /\ moved.cwnd = w.cwnd /\ moved.out = w.out
        /\ moved.ssthresh = w.ssthresh /\ moved.prior = w.prior
        /\ moved.delivered \in {0, w.delivered} /\ (w.active => moved.active)
        /\ moved.ca \in Reductions => w.ca \in Reductions
    <3>1. CASE moved = fresh
      BY <1>1, <3>1
    <3>2. CASE change = "recovery" /\ w.ca = "CWR"
      <4>1. /\ moved.active /\ moved.cwnd = fresh.cwnd /\ moved.pipe = fresh.pipe
            /\ moved.out = fresh.out /\ moved.delivered = 0
            /\ moved.ssthresh = fresh.ssthresh /\ moved.prior = fresh.prior
        BY <1>1, <3>2, Continues
      <4> QED  BY <1>1, <3>2, <4>1, ZenonT(10) DEF Reductions
    <3> QED  BY <2>2, <3>1, <3>2
  <2>4. entry \in Entries /\ entry.cwnd \in Nat /\ entry.pipe \in Nat
    BY DEF EpisodeInv, Entries
  <2>5. Episode(moved, entry, n)
    BY <1>0, <1>4, <2>3, <2>4, SMTT(30) DEF EpisodeInv, Episode
  <2>6. entry.m2off /\ mode = "prr" /\ moved.ca \in Reductions /\ entry.cwnd > 1
          => moved.pipe + 1 <= Top(entry) /\ moved.cwnd <= Top(entry)
    <3>1. entry.m2off /\ mode = "prr" /\ w.ca \in Reductions /\ entry.cwnd > 1
            => w.pipe <= Top(entry) /\ w.cwnd <= Top(entry)
      BY DEF EpisodeInv, PrrNeverRaises, EpisodeTop, Top
    <3>2. Top(entry) \in Nat
      BY <2>4 DEF Top, Larger, MIN_CWND
    <3> QED  BY <1>0, <2>3, <3>1, <3>2
  <2> QED  BY <2>1, <2>4, <2>5, <2>6 DEF EpisodeInv
<1> QED  BY <1>2, <1>3, <1>4

(* cong_control's last part, in the episode.                               *)
LEMMA OutcomeEpisode ==
  ASSUME NEW s \in Sockets, InRange(s), NEW m, NEW n \in Nat, NEW l \in 0 .. 1,
         NEW x \in Outcomes(s, m, n, l), NEW e \in Entries, Episode(s, e, n),
         e.m2off /\ m = "prr" /\ s.ca \in Reductions /\ e.cwnd > 1
           => s.pipe + 1 <= Top(e) /\ s.cwnd <= Top(e)
  PROVE  /\ Episode(x, e, 0)
         /\ e.m2off /\ m = "prr" /\ x.ca \in Reductions /\ e.cwnd > 1
              => x.pipe <= Top(e) /\ x.cwnd <= Top(e)
<1>1. /\ x.ca = s.ca /\ x.ssthresh = s.ssthresh /\ x.pipe = s.pipe /\ x.out = s.out
      /\ x.prior = s.prior /\ x.active = s.active
      /\ x.delivered \in {s.delivered, s.delivered + n}
  BY OutcomeFields
<1>2. /\ s.pipe \in Nat /\ s.out \in Nat /\ s.delivered \in Nat /\ e.pipe \in Nat
      /\ Top(e) \in Nat
  BY DEF Sockets, Entries, Top, Larger, MIN_CWND
<1>3. Episode(x, e, 0)
  BY <1>1, <1>2, SMTT(30) DEF Episode
<1>4. ASSUME e.m2off, m = "prr", s.ca \in Reductions, e.cwnd > 1
      PROVE  x.pipe <= Top(e) /\ x.cwnd <= Top(e)
  <2>1. PICK b : x = ApplyPrr(s, n, b)
    BY <1>4, OutcomesAre
  <2>2. x.cwnd <= Top(e)
    BY <1>4, <2>1, PrrBound
  <2> QED  BY <1>1, <1>2, <1>4, <2>2
<1> QED  BY <1>1, <1>3, <1>4

(* An ACK without an undo ends an episode at its share, plus its growth.   *)
LEMMA ExitSticks ==
  ASSUME w \in Sockets, EpisodeInv, entry.m2off, w.ca # "Open",
         NEW n \in 0 .. AckMax, NEW l \in 0 .. 1, NEW change \in Changes, May(w, change),
         NEW fresh \in Sockets, Delivers(fresh, n, l),
         NEW moved \in Sockets, moved = Changed(fresh, change), moved.ca = "Open",
         moved.undo = w.undo,
         NEW s \in Sockets, s.ca = moved.ca, s.cwnd = moved.cwnd, s.ssthresh = moved.ssthresh,
         NEW x \in Outcomes(s, mode, n, l)
  PROVE  x.cwnd <= Larger((entry.cwnd * BETA) \div 1000, MIN_CWND) + AckMax
<1>0. /\ n \in Nat /\ AckMax \in Nat /\ n <= AckMax /\ entry.cwnd \in Nat
      /\ mode \in {"prr", "plain"} /\ w.active /\ w.ssthresh = Cut(entry.cwnd)
      /\ w.cwnd >= 1 /\ w.ssthresh >= 2
  BY WindowAssumption DEF EpisodeInv, Episode, Entries, InRange
<1>f. /\ fresh.ca = w.ca /\ fresh.active /\ fresh.ssthresh = w.ssthresh /\ fresh.cwnd = w.cwnd
  BY <1>0 DEF Delivers
<1>1. change = "exit"
  <2>1. change = "stay" => FALSE
    BY <1>f DEF Changed
  <2>2. change \in {"cwr", "late"} => FALSE
    BY Zenon DEF May
  <2>3. change = "recovery" => FALSE
    <3>1. change = "recovery" => fresh.ca = "CWR"
      BY <1>f DEF May
    <3>2. change = "recovery" => moved.ca = "Recovery"
      BY <3>1, Continues
    <3> QED  BY <3>2
  <2>4. change = "undo" => FALSE
    <3>1. change = "undo" => w.undo
      BY DEF May
    <3>2. change = "undo" => ~moved.undo
      BY <1>0, <1>f, Ends
    <3> QED  BY <3>1, <3>2
  <2> QED  BY <2>1, <2>2, <2>3, <2>4 DEF Changes
<1>2. moved.cwnd = Larger(fresh.ssthresh, MIN_CWND) /\ moved.ssthresh = fresh.ssthresh
  <2>1. moved = Changed(fresh, "exit") /\ fresh.cwnd >= 1 /\ fresh.ssthresh >= 2
    BY <1>0, <1>1, <1>f
  <2> QED  BY <1>0, <1>f, <2>1, Ends
<1> DEFINE share == (entry.cwnd * BETA) \div 1000
<1>3. share \in Nat
  BY <1>0 DEF BETA
<1>4. fresh.ssthresh = Larger(share, 2)
  BY <1>0, <1>f DEF Cut
<1> HIDE DEF share
<1>5. s.cwnd = Larger(share, MIN_CWND) /\ s.cwnd >= s.ssthresh /\ s.cwnd >= MIN_CWND /\ s.cwnd \in Nat
  BY <1>2, <1>3, <1>4 DEF Larger, MIN_CWND
<1>6. \/ x = s
      \/ n > 0 /\ \E k \in 0 .. 2 : x = [s EXCEPT !.cwnd = Grown(s, n, k)]
  <2>1. s.ca \notin Reductions /\ mode # "m2" /\ mode # "none"
    BY <1>0 DEF Reductions
  <2> QED  BY <1>0, <2>1, OutcomesAre
<1>7. CASE x = s
  BY <1>0, <1>5, <1>7 DEF share
<1>8. CASE n > 0 /\ \E k \in 0 .. 2 : x = [s EXCEPT !.cwnd = Grown(s, n, k)]
  <2>1. PICK k \in 0 .. 2 : x = [s EXCEPT !.cwnd = Grown(s, n, k)]
    BY <1>8
  <2>2. Grown(s, n, k) \in Nat /\ Grown(s, n, k) <= s.cwnd + n
    <3>1. k \in Nat /\ n \in Nat /\ n > 0 /\ s.cwnd >= s.ssthresh /\ s.cwnd >= MIN_CWND
      BY <1>0, <1>5, <1>8
    <3>2. Grown(s, n, k) \in Nat
      BY <3>1, GrowthType, Zenon
    <3> QED  BY <3>1, <3>2, GrownBound
  <2>3. x.cwnd = Grown(s, n, k)
    BY <2>1 DEF Sockets
  <2> QED  BY <1>0, <1>5, <2>2, <2>3 DEF share
<1> QED  BY <1>6, <1>7, <1>8

-----------------------------------------------------------------------------
(* The steps.                                                              *)
LEMMA AckEpisode ==
  ASSUME WindowInv, EpisodeInv, NEW n \in 0 .. AckMax, NEW l \in 0 .. 1, n + l \in 1 .. w.pipe,
         NEW change \in Changes, May(w, change), NEW adopts \in BOOLEAN, NEW m \in Modes,
         adopts \/ m = mode, adopts => adopted < AdoptMax, Ack(n, l, change, adopts, m)
  PROVE  /\ EpisodeInv'
         /\ Exits /\ entry.m2off
              => w'.cwnd <= Larger((entry.cwnd * BETA) \div 1000, MIN_CWND) + AckMax
<1> DEFINE fresh == [w EXCEPT !.pipe = @ - n - l]
           moved == Changed(fresh, change)
           base == IF adopts THEN Reset(moved) ELSE moved
           e == EntryAfter(fresh, moved)
<1>1. /\ n \in Nat /\ l \in Nat /\ w \in Sockets /\ adopted \in Nat /\ AdoptMax \in Nat
      /\ w.pipe \in Nat /\ w.pipe - n - l \in Nat /\ w.pipe - n - l <= w.pipe
      /\ OutMax \in Nat /\ PipeMax \in Nat
  BY WindowAssumption DEF WindowInv, Sockets
<1>2. fresh \in Sockets /\ Delivers(fresh, n, l)
  BY <1>1 DEF Sockets, Delivers
<1>3. PICK est : /\ w' \in Outcomes([base EXCEPT !.est = est], m, n, l)
                 /\ est \in Targets \cup {0}
  BY DEF Ack
<1>4. /\ mode' = m /\ adopted' = adopted + (IF adopts THEN 1 ELSE 0)
      /\ entry' = IF adopts THEN NoEntry ELSE e
      /\ m = "prr" => base.delivered + n <= OutMax
  BY DEF Ack
<1> HIDE DEF fresh
<1>5. InRange(fresh) /\ May(fresh, change)
  <2>1. InRange(fresh)
    BY <1>1, <1>2 DEF EpisodeInv, InRange, Delivers
  <2>2. fresh.ca = w.ca /\ fresh.undo = w.undo
    BY <1>2, ZenonT(10) DEF Delivers
  <2>3. May(fresh, change) = May(w, change)
    BY <2>2, Zenon DEF May
  <2> QED  BY <2>1, <2>3
<1>6. moved \in Sockets
  BY <1>2, LossKeepsWindow
<1>7. InRange(moved)
  BY <1>2, <1>5, ChangedRange, SMTT(30)
<1>8. ~adopts => /\ e \in Entries /\ Episode(moved, e, n)
                 /\ e.m2off => mode \in {"prr", "plain"}
                 /\ e.m2off /\ mode = "prr" /\ moved.ca \in Reductions /\ e.cwnd > 1
                      => moved.pipe + 1 <= Top(e) /\ moved.cwnd <= Top(e)
  BY <1>1, <1>2, ChangedEpisode, ZenonT(10)
<1> HIDE DEF moved, e
<1>9. /\ base \in Sockets /\ base.cwnd = moved.cwnd /\ base.ssthresh = moved.ssthresh
      /\ base.pipe = moved.pipe /\ base.out = moved.out
      /\ base.delivered \in {0, moved.delivered} /\ (~adopts => base = moved)
  BY <1>6, Zenon DEF Reset, Sockets
<1> HIDE DEF base
<1> DEFINE s == [base EXCEPT !.est = est]
<1>10. /\ s \in Sockets /\ s.cwnd = base.cwnd /\ s.ssthresh = base.ssthresh
       /\ s.pipe = base.pipe /\ s.out = base.out /\ s.delivered = base.delivered
       /\ s.ca = base.ca /\ s.active = base.active /\ s.prior = base.prior
       /\ s.undo = base.undo /\ s.est = est
  <2>1. est \in Nat
    BY <1>3, WindowAssumption
  <2> QED  BY <1>9, <2>1 DEF Sockets
<1>11. w' \in Outcomes(s, m, n, l)
  BY <1>3
<1> HIDE DEF s
<1>12. InRange(s)
  <2>1. s.delivered <= OutMax
    BY <1>1, <1>7, <1>9, <1>10 DEF InRange
  <2> QED  BY <1>3, <1>7, <1>9, <1>10, <2>1 DEF InRange
<1>13. /\ w'.ca = s.ca /\ w'.ssthresh = s.ssthresh /\ w'.pipe = s.pipe /\ w'.out = s.out
       /\ w'.undo = s.undo /\ w'.est = s.est /\ w'.cwnd >= 1
       /\ w'.delivered = s.delivered \/ (m = "prr" /\ w'.delivered = s.delivered + n)
  <2>1. n \in Nat /\ s \in Sockets
    BY <1>1, <1>10, Zenon
  <2> QED  BY <1>11, <1>12, <2>1, OutcomeFields, SMTT(30)
<1>14. InRange(w)'
  BY <1>4, <1>10, <1>12, <1>13, ZenonT(10) DEF InRange
<1>15. mode' \in Modes /\ adopted' <= AdoptMax
  BY <1>1, <1>4 DEF EpisodeInv
<1>16. CASE adopts
  <2>1. entry' = NoEntry /\ adopted' # adopted
    BY <1>1, <1>4, <1>16
  <2>2. entry' \in Entries /\ ~entry'.m2off
    BY <2>1, NoEntryType
  <2>3. EpisodeInv'
    BY <1>14, <1>15, <2>2 DEF EpisodeInv, Episode, PrrNeverRaises
  <2> QED  BY <2>1, <2>3 DEF Exits
<1>17. CASE ~adopts
  <2>1. entry' = e /\ m = mode /\ mode' = mode /\ base = moved
    BY <1>4, <1>9, <1>17
  <2>2. Episode(s, e, n)
    BY <1>8, <1>10, <1>17, <2>1, ZenonT(10) DEF Episode
  <2>3. e.m2off /\ m = "prr" /\ s.ca \in Reductions /\ e.cwnd > 1
          => s.pipe + 1 <= Top(e) /\ s.cwnd <= Top(e)
    BY <1>8, <1>10, <1>17, <2>1, ZenonT(10)
  <2>4. /\ Episode(w', e, 0)
        /\ e.m2off /\ m = "prr" /\ w'.ca \in Reductions /\ e.cwnd > 1
              => w'.pipe <= Top(e) /\ w'.cwnd <= Top(e)
    BY <1>1, <1>8, <1>10, <1>11, <1>12, <1>17, <2>2, <2>3, OutcomeEpisode, ZenonT(10)
  <2>5. PrrNeverRaises'
    BY <2>1, <2>4 DEF PrrNeverRaises, EpisodeTop, Top
  <2>6. EpisodeInv'
    BY <1>8, <1>14, <1>15, <1>17, <2>1, <2>4, <2>5, SMTT(30) DEF EpisodeInv
  <2>7. ASSUME Exits, entry.m2off
        PROVE  w'.cwnd <= Larger((entry.cwnd * BETA) \div 1000, MIN_CWND) + AckMax
    <3>1. w.ca # "Open" /\ moved.ca = "Open" /\ moved.undo = w.undo
      BY <1>10, <1>13, <2>1, <2>7, ZenonT(10) DEF Exits, Leaves
    <3>2. moved = Changed(fresh, change)
      BY DEF moved
    <3>3. w' \in Outcomes(s, mode, n, l)
      BY <1>11, <2>1
    <3>4. s.ca = moved.ca /\ s.cwnd = moved.cwnd /\ s.ssthresh = moved.ssthresh
      BY <1>10, <2>1
    <3>5. w \in Sockets /\ s \in Sockets
      BY <1>1, <1>10, Zenon
    <3> QED  BY <1>2, <1>6, <2>7, <3>1, <3>2, <3>3, <3>4, <3>5, ExitSticks, SMTT(30)
  <2> QED  BY <2>6, <2>7
<1> QED  BY <1>16, <1>17

LEMMA TimeoutEpisode ==
  ASSUME WindowInv, EpisodeInv, Timeout
  PROVE  EpisodeInv' /\ w'.ca = "Loss"
<1>0. /\ w \in Sockets /\ w.cwnd \in Nat /\ w.pipe \in Nat /\ OutMax \in Nat /\ PipeMax \in Nat
      /\ mode' = mode /\ adopted' = adopted
  BY WindowAssumption, SMTT(30) DEF WindowInv, Sockets, Timeout
<1>1. PICK r \in 0 .. w.pipe, cuts \in BOOLEAN :
        /\ w' = SetState([(IF cuts
                           THEN [Ssthresh([w EXCEPT !.pipe = r, !.out = 0])
                                   EXCEPT !.kprior = w.cwnd, !.undo = TRUE,
                                          !.kssthresh = CurrentSsthresh(w)]
                           ELSE [w EXCEPT !.pipe = r, !.out = 0]) EXCEPT !.cwnd = r + 1], "Loss")
        /\ entry' = IF ~cuts THEN entry
                    ELSE IF mode \in {"prr", "plain"} THEN EntryOf(w) ELSE NoEntry
  BY Zenon DEF Timeout
<1> DEFINE flat == [w EXCEPT !.pipe = r, !.out = 0]
           late == [Ssthresh(flat) EXCEPT !.kprior = w.cwnd, !.undo = TRUE,
                                          !.kssthresh = CurrentSsthresh(w)]
           cut == IF cuts THEN late ELSE flat
           last == [cut EXCEPT !.cwnd = r + 1]
<1>2. r \in Nat /\ r <= w.pipe
  BY <1>0
<1>3. /\ flat \in Sockets /\ flat.pipe = r /\ flat.out = 0 /\ flat.cwnd = w.cwnd
      /\ flat.ssthresh = w.ssthresh /\ flat.delivered = w.delivered /\ flat.est = w.est
  BY <1>0, <1>2, Zenon DEF Sockets
<1>4. w' = SetState(last, "Loss")
  BY <1>1
<1> HIDE DEF flat
<1>5. /\ Ssthresh(flat) \in Sockets /\ Ssthresh(flat).pipe = r /\ Ssthresh(flat).out = 0
      /\ Ssthresh(flat).delivered = w.delivered /\ Ssthresh(flat).est = w.est
      /\ Ssthresh(flat).ssthresh >= 2
      /\ mode \in {"prr", "plain"} => Ssthresh(flat).ssthresh = Cut(w.cwnd)
  BY <1>3, SsthreshType, ReduceFields
<1>6. CurrentSsthresh(w) \in Nat
  BY <1>0, ReduceType
<1>7. /\ late \in Sockets /\ late.pipe = r /\ late.out = 0 /\ late.delivered = w.delivered
      /\ late.est = w.est /\ late.ssthresh = Ssthresh(flat).ssthresh
  BY <1>0, <1>5, <1>6, Zenon DEF Sockets
<1> HIDE DEF late
<1>8. /\ cut \in Sockets /\ cut.pipe = r /\ cut.out = 0 /\ cut.delivered = w.delivered
      /\ cut.est = w.est /\ cut.ssthresh >= 2
      /\ cuts /\ mode \in {"prr", "plain"} => cut.ssthresh = Cut(w.cwnd)
      /\ ~cuts => cut.ssthresh = w.ssthresh
  BY <1>3, <1>5, <1>7, ZenonT(10) DEF EpisodeInv, InRange
<1> HIDE DEF cut
<1>9. /\ last \in Sockets /\ last.pipe = r /\ last.out = 0 /\ last.delivered = w.delivered
      /\ last.est = w.est /\ last.ssthresh = cut.ssthresh /\ last.cwnd = r + 1
  BY <1>2, <1>8 DEF Sockets
<1> HIDE DEF last
<1>10. /\ w'.ca = "Loss" /\ w'.active /\ w'.pipe = r /\ w'.out = 0 /\ w'.est = w.est
       /\ w'.delivered \in {0, w.delivered} /\ w'.ssthresh = cut.ssthresh /\ w'.cwnd = r + 1
  <2>1. "Loss" \in States
    BY DEF States
  <2>2. /\ w'.ca = "Loss" /\ w'.active /\ w'.pipe = last.pipe /\ w'.out = last.out
        /\ w'.est = last.est /\ w'.delivered \in {0, last.delivered}
        /\ w'.ssthresh = last.ssthresh /\ w'.cwnd = last.cwnd
    BY <1>4, <1>9, <2>1, SetStateFields, SMTT(30)
  <2> QED  BY <1>9, <2>2, ZenonT(10)
<1>11. InRange(w)'
  BY <1>0, <1>2, <1>8, <1>10 DEF EpisodeInv, InRange
<1>12. "Loss" \notin Reductions /\ "Loss" # "Open"
  BY DEF Reductions
<1>13. /\ entry' \in Entries /\ Episode(w', entry', 0)
       /\ entry'.m2off => mode \in {"prr", "plain"}
  <2>1. CASE ~cuts
    BY <1>1, <1>8, <1>10, <1>12, <2>1 DEF EpisodeInv, Episode
  <2>2. CASE cuts /\ mode \in {"prr", "plain"}
    <3>1. entry' \in Entries /\ entry'.cwnd = w.cwnd
      BY <1>0, <1>1, <2>2, EntryOfType
    <3> QED  BY <1>8, <1>10, <1>12, <2>2, <3>1 DEF Episode
  <2>3. CASE cuts /\ ~(mode \in {"prr", "plain"})
    BY <1>1, <2>3, NoEntryType DEF Episode
  <2> QED  BY <2>1, <2>2, <2>3
<1>14. PrrNeverRaises'
  BY <1>10, <1>12 DEF PrrNeverRaises
<1> QED  BY <1>0, <1>10, <1>11, <1>13, <1>14 DEF EpisodeInv

LEMMA SendEpisode ==
  ASSUME WindowInv, EpisodeInv, Send
  PROVE  EpisodeInv' /\ w'.ca = w.ca
<1> DEFINE o == IF w.ca \in Reductions THEN w.out + 1 ELSE w.out
           p == w.pipe + 1
<1>1. /\ w \in Sockets /\ w.pipe \in Nat /\ w.out \in Nat /\ w.cwnd \in Nat
      /\ w.delivered \in Nat /\ PipeMax \in Nat /\ OutMax \in Nat
      /\ entry' = entry /\ mode' = mode /\ adopted' = adopted
      /\ entry \in Entries /\ entry.pipe \in Nat /\ Top(entry) \in Nat
  BY WindowAssumption DEF Send, WindowInv, Sockets, EpisodeInv, Entries, Top, Larger, MIN_CWND
<1>2. p \in Nat /\ p <= w.cwnd /\ p <= PipeMax /\ o \in Nat /\ o <= OutMax
  BY <1>1 DEF Send, Smaller, EpisodeInv, InRange
<1>3. w' = [w EXCEPT !.pipe = p, !.out = o]
  BY <1>1 DEF Send, Sockets
<1>o. w.ca \in Reductions => o = w.out + 1
  OBVIOUS
<1>p. p = w.pipe + 1
  OBVIOUS
<1> HIDE DEF o, p
<1>4. /\ w'.pipe = p /\ w'.out = o /\ w'.ca = w.ca /\ w'.cwnd = w.cwnd /\ w'.est = w.est
      /\ w'.delivered = w.delivered /\ w'.ssthresh = w.ssthresh /\ w'.prior = w.prior
      /\ w'.active = w.active
  BY <1>1, <1>3 DEF Sockets
<1>5. InRange(w)'
  BY <1>2, <1>4, ZenonT(10) DEF EpisodeInv, InRange
<1>6. Episode(w', entry', 0)
  BY <1>1, <1>2, <1>4, <1>o, <1>p, SMTT(30) DEF EpisodeInv, Episode
<1>7. PrrNeverRaises'
  <2>1. entry.m2off /\ mode = "prr" /\ w.ca \in Reductions /\ entry.cwnd > 1
          => w.cwnd <= Top(entry)
    BY DEF EpisodeInv, PrrNeverRaises, EpisodeTop, Top
  <2>2. entry.m2off /\ mode = "prr" /\ w.ca \in Reductions /\ entry.cwnd > 1
          => w'.cwnd <= Top(entry) /\ w'.pipe <= Top(entry)
    BY <1>1, <1>2, <1>4, <2>1
  <2> QED  BY <1>1, <1>4, <2>2, ZenonT(10) DEF PrrNeverRaises, EpisodeTop, Top
<1> QED  BY <1>1, <1>4, <1>5, <1>6, <1>7 DEF EpisodeInv

LEMMA InitEpisode == Init => EpisodeInv
<1> SUFFICES ASSUME Init PROVE EpisodeInv
  OBVIOUS
<1>1. PICK m \in Modes, c \in Windows :
        mode = m /\ (w = Started(c) \/ w = Reset(Started(c)))
  BY DEF Init
<1>2. c \in Nat /\ c >= 1 /\ Infinite >= 2
  BY WindowAssumption DEF MIN_CWND
<1>3. /\ w.ca = "Open" /\ w.cwnd = c /\ w.ssthresh = Infinite /\ w.pipe = 0 /\ w.out = 0
      /\ w.delivered = 0 /\ w.est = 0
  <2> DEFINE first == Started(c)
  <2>1. /\ first \in Sockets /\ first.ca = "Open" /\ first.cwnd = c
        /\ first.ssthresh = Infinite /\ first.pipe = 0 /\ first.out = 0
        /\ first.delivered = 0 /\ first.est = 0
    BY <1>2, WindowAssumption, ZenonT(10) DEF Started, Sockets, States
  <2>2. w = first \/ w = Reset(first)
    BY <1>1
  <2> HIDE DEF first
  <2> QED  BY <2>1, <2>2, Zenon DEF Reset, Sockets
<1>4. InRange(w)
  BY <1>2, <1>3, WindowAssumption DEF InRange
<1>5. entry \in Entries /\ ~entry.m2off /\ adopted <= AdoptMax
  BY NoEntryType, WindowAssumption DEF Init
<1> QED  BY <1>1, <1>4, <1>5 DEF EpisodeInv, Episode, PrrNeverRaises

LEMMA StepEpisode ==
  ASSUME WindowInv, EpisodeInv, [Next]_vars
  PROVE  /\ EpisodeInv'
         /\ Exits /\ entry.m2off
              => w'.cwnd <= Larger((entry.cwnd * BETA) \div 1000, MIN_CWND) + AckMax
<1>1. CASE AckArrives
  <2>1. PICK change \in Changes, n \in 0 .. AckMax, l \in 0 .. 1,
             adopts \in BOOLEAN, m \in Modes :
          /\ May(w, change) /\ n + l \in 1 .. w.pipe /\ Ack(n, l, change, adopts, m)
          /\ adopts \/ m = mode
          /\ adopts => adopted < AdoptMax
    <3>1. PICK change \in {c \in Changes : May(w, c)}, n \in 0 .. AckMax, l \in 0 .. 1 :
            /\ n + l \in 1 .. w.pipe
            /\ \/ Ack(n, l, change, FALSE, mode)
               \/ adopted < AdoptMax /\ \E m \in Modes \ {"none"} : Ack(n, l, change, TRUE, m)
      BY <1>1, Zenon DEF AckArrives
    <3>2. mode \in Modes
      BY DEF EpisodeInv
    <3>3. CASE Ack(n, l, change, FALSE, mode)
      BY <3>1, <3>2, <3>3, Zenon
    <3>4. CASE adopted < AdoptMax /\ \E m \in Modes \ {"none"} : Ack(n, l, change, TRUE, m)
      BY <3>1, <3>4, Zenon
    <3> QED  BY <3>1, <3>3, <3>4, Zenon
  <2> QED  BY <2>1, AckEpisode
<1>2. CASE Timeout
  BY <1>2, TimeoutEpisode DEF Exits, Leaves
<1>3. CASE Send
  BY <1>3, SendEpisode DEF Exits, Leaves
<1>4. CASE UNCHANGED vars
  BY <1>4, ZenonT(10) DEF vars, EpisodeInv, Episode, InRange, PrrNeverRaises, EpisodeTop, Exits, Leaves
<1> QED  BY <1>1, <1>2, <1>3, <1>4 DEF Next

\* With M2 off a reduction takes the window down and leaves it there: PRR lets
\* neither the window nor the flight above what the episode began with
\* (skyline_apply_prr), and an exit without an undo leaves the window at the
\* CUBIC share (skyline_ssthresh, skyline_set_state), for any windows, flights
\* and lengths of an episode.
THEOREM ReductionsHold == Spec => ReductionHolds
<1>1. Init => EpisodeInv
  BY InitEpisode
<1>2. WindowInv /\ EpisodeInv /\ [Next]_vars => EpisodeInv'
  BY StepEpisode
<1>3. WindowInv /\ EpisodeInv /\ [Next]_vars
        => [Exits /\ entry.m2off =>
              w'.cwnd <= Larger((entry.cwnd * BETA) \div 1000, MIN_CWND) + AckMax]_vars
  BY StepEpisode
<1>4. WindowInv /\ EpisodeInv => TypeOK /\ PrrNeverRaises
  <2> SUFFICES ASSUME WindowInv, EpisodeInv PROVE TypeOK /\ PrrNeverRaises
    OBVIOUS
  <2>1. /\ w.ca \in States /\ w.cwnd \in Nat /\ w.ssthresh \in Nat /\ w.pipe \in Nat
        /\ w.out \in Nat /\ w.delivered \in Nat /\ w.prior \in Nat /\ w.kprior \in Nat
        /\ w.kssthresh \in Nat /\ w.active \in BOOLEAN /\ w.undo \in BOOLEAN /\ adopted \in Nat
    BY DEF WindowInv, Sockets
  <2>2. TypeOK
    BY <2>1, WindowAssumption DEF TypeOK, EpisodeInv, InRange, States, Reductions
  <2> QED  BY <2>2 DEF EpisodeInv
<1> QED  BY WindowInvariant, <1>1, <1>2, <1>3, <1>4, PTL
         DEF Spec, ReductionHolds, ReductionSticks
=============================================================================
