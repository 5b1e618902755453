---------------------------- MODULE MetricsWindow ---------------------------
(***************************************************************************)
(* MetricsSamples and its sampler thread (main.rs): the history behind     *)
(* metrics_recent, the counters' increase over about the last minute.  The *)
(* sampler looks up every Poll seconds, late by as much, and reads when    *)
(* SampleEvery have passed; a reading of the map may fail; skyline_cc is   *)
(* attached and removed.  Ages are seconds before now, counts are how far  *)
(* the counter has moved on since.                                         *)
(***************************************************************************)
EXTENDS Naturals, Sequences

CONSTANTS METRICS_SAMPLE_EVERY, METRICS_RECENT_WINDOW,
          Poll,     \* longest time between two looks of the sampler
          AgeMax    \* bound on ages: older than anything kept

WindowAssumption ==
  /\ METRICS_SAMPLE_EVERY \in Nat \ {0} /\ METRICS_RECENT_WINDOW \in Nat
  /\ Poll \in Nat \ {0} /\ AgeMax \in Nat
  /\ METRICS_RECENT_WINDOW + METRICS_SAMPLE_EVERY + Poll <= AgeMax

VARIABLES attached,
          readings,  \* Seq of [age, behind], oldest first
          next,      \* seconds until the next reading is due
          idle,      \* seconds since the sampler last looked
          up,        \* history: seconds since the attach, capped
          failed     \* history: a reading failed since the attach

vars == <<attached, readings, next, idle, up, failed>>

Init == /\ attached = FALSE /\ readings = <<>> /\ next = 0 /\ idle = 0
        /\ up = 0 /\ failed = FALSE

Capped(n) == IF n > AgeMax THEN AgeMax ELSE n

Attach == /\ ~attached /\ attached' = TRUE
          /\ readings' = <<>> /\ next' = 0 /\ idle' = Poll /\ up' = 0 /\ failed' = FALSE
Remove == /\ attached /\ attached' = FALSE
          /\ readings' = <<>> /\ UNCHANGED <<next, idle, up, failed>>

(* A second passes, with or without an event counted.                      *)
Second == /\ attached /\ idle < Poll
          /\ \E moved \in {0, 1} :
               readings' = [i \in DOMAIN readings |->
                              [age |-> Capped(readings[i].age + 1),
                               behind |-> Capped(readings[i].behind + moved)]]
          /\ next' = IF next = 0 THEN 0 ELSE next - 1
          /\ idle' = idle + 1 /\ up' = Capped(up + 1)
          /\ UNCHANGED <<attached, failed>>

Push(rs) ==
  LET all == Append(rs, [age |-> 0, behind |-> 0])
      keep == METRICS_RECENT_WINDOW \div METRICS_SAMPLE_EVERY + 2
  IN IF Len(all) > keep THEN Tail(all) ELSE all

Look == /\ attached /\ idle > 0 /\ idle' = 0
        /\ \/ next > 0 /\ UNCHANGED <<readings, next, failed>>
           \/ /\ next = 0 /\ next' = METRICS_SAMPLE_EVERY
              /\ \/ readings' = Push(readings) /\ UNCHANGED failed
                 \/ failed' = TRUE /\ UNCHANGED readings
        /\ UNCHANGED <<attached, up>>

Next == Attach \/ Remove \/ Second \/ Look
Spec == Init /\ [][Next]_vars

(* slip: the newest reading while none is a window old.                    *)
WindowStartNewest ==
  LET old == {i \in DOMAIN readings : readings[i].age >= METRICS_RECENT_WINDOW}
  IN IF old = {} THEN Len(readings) ELSE CHOOSE i \in old : \A j \in old : j <= i

(* The reading metrics_recent compares with: the newest a window old, or   *)
(* the oldest.                                                             *)
WindowStart ==
  LET old == {i \in DOMAIN readings : readings[i].age >= METRICS_RECENT_WINDOW}
  IN IF old = {} THEN 1 ELSE CHOOSE i \in old : \A j \in old : j <= i
Window == readings[WindowStart]

-----------------------------------------------------------------------------
(* While every reading works, metrics_recent never covers less than the    *)
(* window once the attach is that old and a reading was due by then, and   *)
(* never more than one sampling interval and a look over it.               *)
CoversTheWindow ==
  attached /\ ~failed /\ readings # <<>> =>
    /\ up >= METRICS_RECENT_WINDOW + Poll => Window.age >= METRICS_RECENT_WINDOW
    /\ Window.age <= METRICS_RECENT_WINDOW + METRICS_SAMPLE_EVERY + Poll

(* Younger than the window, it covers everything since the first look; and *)
(* readings stay in order, so the increase it reports never misses events  *)
(* a shorter one would show.                                               *)
NothingIsSkipped ==
  /\ \A i, j \in DOMAIN readings :
       i < j => readings[i].age >= readings[j].age /\ readings[i].behind >= readings[j].behind
  /\ attached /\ ~failed /\ readings # <<>> /\ up < METRICS_RECENT_WINDOW =>
       Window.age + Poll >= up

(* metrics_recent is over the window it says it is over.                   *)
WindowHonest == CoversTheWindow /\ NothingIsSkipped
=============================================================================
