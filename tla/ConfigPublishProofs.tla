------------------------- MODULE ConfigPublishProofs -------------------------
(***************************************************************************)
(* ConfigPublish for every number of flows, words and configurations and   *)
(* every even size of the number space: the type invariant, the three      *)
(* safety invariants, and the refinement of ConfigRegister.                *)
(*                                                                         *)
(* The argument: the writer only ever writes the slot config_seq does not  *)
(* name (WriterInv), so what a copy has taken so far agrees with the       *)
(* published slot as long as no publication completed since it began       *)
(* (CopyInv, with the history variable lag), and an equal number means no  *)
(* publication completed, because fewer than SeqSpace can.                 *)
(***************************************************************************)
EXTENDS ConfigPublish, TLAPS

\* The writer's progress: its number is config_seq's successor, so its slot is
\* the other one; what it wrote there is the pending configuration; and the
\* slot config_seq names is whole from the first publication on.
WriterInv ==
  /\ wpc \in {"unloaded", "attach"} => ~attached
  /\ wpc = "idle" => attached
  /\ attached \/ wpc = "attach" => daemonSeq = seq
  /\ ~attached /\ wpc # "attach" => seq = 0 /\ daemonSeq = 1
  /\ wpc \in {"slot", "seq"} => next = NextSeq(seq) /\ pending \in Configs
  /\ wpc \in {"slot", "seq"} =>
       \A w \in Words \ unwritten : slots[Slot(next)][w] = pending
  /\ wpc = "seq" => unwritten = {}
  /\ attached \/ wpc = "attach" => \E c \in Configs : Published = Whole(c)
  /\ ~attached => \A f \in Flows : fpc[f] = "closed"

\* A copy in progress: rseq is lag publications behind config_seq, and while
\* lag is 0 the words copied so far are those of the published slot.
CopyInv == \A f \in Flows : fpc[f] = "copy" =>
  /\ rseq[f] + lag[f] \in {seq, seq + SeqSpace}
  /\ lag[f] = 0 => \A w \in Words \ togo[f] : copy[f][w] = Published[w]

\* A flow's configuration: whole, age publications old, the published one
\* while age is 0, and the only one the current round has run on.
FlowInv == \A f \in Flows :
  /\ fpc[f] = "closed" => ~HasConfig(f)
  /\ used[f] \subseteq {fconfig[f]}
  /\ HasConfig(f) =>
       /\ fseq[f] + age[f] \in {seq, seq + SeqSpace}
       /\ age[f] = 0 => fconfig[f] = Published
       /\ \E c \in Configs : fconfig[f] = Whole(c)

IndInv == TypeOK /\ WriterInv /\ CopyInv /\ FlowInv
-----------------------------------------------------------------------------
\* A number that is met again after fewer publications than there are numbers
\* has not moved (NumbersStayDistinct).
LEMMA SameNumber ==
  ASSUME NEW space \in Nat, NEW n \in 0..(space - 1), NEW k \in 0..(space - 1),
         n + k = n \/ n + k = n + space
  PROVE  k = 0
<1>1. n \in Int /\ k \in Int /\ 0 <= k /\ k < space
  OBVIOUS
<1> QED
  BY <1>1

\* A publication moves the current number, and the distance to one that is
\* held, by one, modulo the number space.
LEMMA NumberMoves ==
  ASSUME NEW n \in 0..(SeqSpace - 1), NEW r \in 0..(SeqSpace - 1), NEW k \in Nat,
         r + k \in {n, n + SeqSpace}, k + 1 < SeqSpace
  PROVE  r + (k + 1) \in {NextSeq(n), NextSeq(n) + SeqSpace}
<1>1. SeqSpace \in Nat /\ SeqSpace > 2
  BY ConfigPublishAssumption
<1>2. CASE r + k = n
  BY <1>1, <1>2 DEF NextSeq
<1>3. CASE r + k = n + SeqSpace
  <2>1. n + 1 # SeqSpace
    BY <1>1, <1>3
  <2> QED
    BY <1>1, <1>3, <2>1 DEF NextSeq
<1> QED
  BY <1>2, <1>3

\* Consecutive numbers name different slots, also where the number wraps
\* (update_config_maps: "the one current number does not name").
LEMMA NextSlot ==
  ASSUME NEW n \in 0..(SeqSpace - 1)
  PROVE  /\ NextSeq(n) \in 0..(SeqSpace - 1)
         /\ Slot(n) \in 0..1
         /\ Slot(NextSeq(n)) # Slot(n)
BY ConfigPublishAssumption DEF NextSeq, Slot

LEMMA UnsetIsSlotValue == Unset \in SlotValues /\ Unset[AbiWord] = Zero
BY ConfigPublishAssumption DEF Unset, Whole, SlotValues

LEMMA TypeInit == Init => TypeOK
<1> SUFFICES ASSUME Init PROVE TypeOK
  OBVIOUS
<1> USE ConfigPublishAssumption, UnsetIsSlotValue DEF Init
<1>1. /\ slots \in [0..1 -> SlotValues]
      /\ copy \in [Flows -> SlotValues]
      /\ fconfig \in [Flows -> SlotValues]
  OBVIOUS
<1>2. 0 \in 0..(SeqSpace - 1) /\ 1 \in 0..(SeqSpace - 1)
  OBVIOUS
<1>3. /\ rseq \in [Flows -> 0..(SeqSpace - 1)]
      /\ fseq \in [Flows -> 0..(SeqSpace - 1)]
      /\ lag \in [Flows -> 0..(SeqSpace - 1)]
      /\ age \in [Flows -> 0..(SeqSpace - 1)]
  BY <1>2
<1>4. /\ fpc \in [Flows -> {"closed", "idle", "copy"}]
      /\ cause \in [Flows -> {"ack", "init", "round"}]
      /\ togo \in [Flows -> SUBSET Words]
      /\ used \in [Flows -> SUBSET SlotValues]
  OBVIOUS
<1> QED
  BY <1>1, <1>2, <1>3, <1>4, ZenonT(30) DEF TypeOK

LEMMA TypeStep == TypeOK /\ [Next]_vars => TypeOK'
<1> SUFFICES ASSUME TypeOK, [Next]_vars PROVE TypeOK'
  OBVIOUS
<1> USE ConfigPublishAssumption, UnsetIsSlotValue
<1> USE DEF TypeOK, vars, writerVars, copyVars, flowVars
<1>1. ASSUME NEW c \in Configs, Load(c) PROVE TypeOK'
  BY <1>1 DEF Load, StartPublishing
<1>2. ASSUME NEW c \in Configs, UpdateConfig(c) PROVE TypeOK'
  BY <1>2 DEF UpdateConfig, StartPublishing, NextSeq
<1>3. ASSUME NEW w \in Words, WriteSlotWord(w) PROVE TypeOK'
  BY <1>3, NextSlot DEF WriteSlotWord, SlotValues
<1>4. CASE WriteSeq
  BY <1>4 DEF WriteSeq, NumbersStayDistinct
<1>5. CASE UpdateFails
  BY <1>5 DEF UpdateFails
<1>6. CASE Attach
  BY <1>6 DEF Attach
<1>7. CASE LoadFails
  BY <1>7 DEF LoadFails
<1>8. ASSUME NEW f \in Flows, Establish(f) PROVE TypeOK'
  BY <1>8 DEF Establish
<1>9. ASSUME NEW f \in Flows, FlowInit(f) PROVE TypeOK'
  BY <1>9 DEF FlowInit, BeginAdopt
<1>10. ASSUME NEW f \in Flows, FirstAck(f) PROVE TypeOK'
  BY <1>10 DEF FirstAck, BeginAdopt
<1>11. ASSUME NEW f \in Flows, RoundAck(f) PROVE TypeOK'
  BY <1>11 DEF RoundAck, BeginAdopt
<1>12. ASSUME NEW f \in Flows, MidRoundAck(f) PROVE TypeOK'
  BY <1>12 DEF MidRoundAck
<1>13. ASSUME NEW f \in Flows, NEW w \in Words, CopyWord(f, w) PROVE TypeOK'
  BY <1>13, NextSlot DEF CopyWord, SlotValues
<1>14. ASSUME NEW f \in Flows, EndAdopt(f) PROVE TypeOK'
  BY <1>14 DEF EndAdopt, Return, UsedAfter
<1>15. ASSUME NEW f \in Flows, RejectCopy(f) PROVE TypeOK'
  BY <1>15 DEF RejectCopy, Return
<1>16. ASSUME NEW f \in Flows, Close(f) PROVE TypeOK'
  BY <1>16 DEF Close
<1>17. CASE UNCHANGED vars
  BY <1>17
<1> QED
  BY ZenonT(30), <1>1, <1>2, <1>3, <1>4, <1>5, <1>6, <1>7, <1>8, <1>9, <1>10, <1>11,
     <1>12, <1>13, <1>14, <1>15, <1>16, <1>17 DEF Next, Writer, Reader

\* Type correctness of the configuration channel for every instance.
THEOREM TypeCorrect == Spec => []TypeOK
BY TypeInit, TypeStep, PTL DEF Spec
-----------------------------------------------------------------------------
LEMMA IndInit == Init => WriterInv /\ CopyInv /\ FlowInv
BY UnsetIsSlotValue, ConfigPublishAssumption
   DEF Init, WriterInv, CopyInv, FlowInv, HasConfig

\* The slot the writer fills is never the published one.
LEMMA WriterSlot ==
  IndInv /\ wpc \in {"slot", "seq"} =>
    Slot(next) # Slot(seq) /\ Slot(next) \in 0..1 /\ Slot(seq) \in 0..1
<1>1. IndInv /\ wpc \in {"slot", "seq"} =>
        TypeOK /\ next = NextSeq(seq)
  BY DEF IndInv, WriterInv
<1>2. TypeOK => seq \in 0..(SeqSpace - 1)
  BY SMTT(30) DEF TypeOK
<1> QED
  BY <1>1, <1>2, NextSlot

LEMMA WriterStep == IndInv /\ [Next]_vars => WriterInv'
<1> SUFFICES ASSUME IndInv, [Next]_vars PROVE WriterInv'
  OBVIOUS
<1> USE ConfigPublishAssumption
<1> USE DEF IndInv, TypeOK, WriterInv, Published, vars, writerVars
<1>1. ASSUME NEW c \in Configs, Load(c) PROVE WriterInv'
  BY <1>1 DEF Load, StartPublishing, copyVars, NextSeq
<1>2. ASSUME NEW c \in Configs, UpdateConfig(c) PROVE WriterInv'
  BY <1>2, SMTT(30) DEF UpdateConfig, StartPublishing, copyVars
<1>3. ASSUME NEW w \in Words, WriteSlotWord(w) PROVE WriterInv'
  BY <1>3, WriterSlot DEF WriteSlotWord, SlotValues, copyVars
<1>4. CASE WriteSeq
  <2>1. Slot(next) \in 0..1
    BY <1>4, WriterSlot DEF WriteSeq
  <2>2. slots[Slot(next)] = Whole(pending)
    BY <1>4, <2>1 DEF WriteSeq, SlotValues, Whole
  <2> QED
    BY <1>4, <2>2, SMTT(30) DEF WriteSeq
<1>5. CASE UpdateFails
  BY <1>5 DEF UpdateFails, copyVars
<1>6. CASE Attach
  BY <1>6 DEF Attach, copyVars
<1>7. CASE LoadFails
  BY <1>7 DEF LoadFails, copyVars
<1>8. ASSUME NEW f \in Flows, Reader(f) PROVE WriterInv'
  <2>1. UNCHANGED writerVars /\ attached
    BY <1>8, ZenonT(10) DEF Reader, Establish, FlowInit, FirstAck, RoundAck, MidRoundAck,
       CopyWord, EndAdopt, RejectCopy, Close, BeginAdopt, Return
  <2> QED
    BY <2>1, SMTT(30)
<1>9. CASE UNCHANGED vars
  BY <1>9, ZenonT(10) DEF copyVars
<1> QED
  BY <1>1, <1>2, <1>3, <1>4, <1>5, <1>6, <1>7, <1>8, <1>9, ZenonT(10) DEF Next, Writer

\* Between completed publications the published configuration does not move:
\* a slot write, a failed update or any reader step leaves it alone.
LEMMA PublishedMoves ==
  ASSUME IndInv, [Next]_vars
  PROVE  \/ WriteSeq
         \/ LoadFails
         \/ seq' = seq /\ Published' = Published /\ (Attach \/ attached' = attached)
<1> DEFINE Still == seq' = seq /\ Published' = Published /\ attached' = attached
<1> USE DEF IndInv, TypeOK, Published, vars, writerVars
<1>1. ASSUME NEW w \in Words, WriteSlotWord(w) PROVE Still
  BY <1>1, WriterSlot, SMTT(30) DEF WriteSlotWord
<1>2. ASSUME NEW f \in Flows, Reader(f) PROVE Still
  BY <1>2, ZenonT(10) DEF Reader, Establish, FlowInit, FirstAck, RoundAck, MidRoundAck,
     CopyWord, EndAdopt, RejectCopy, Close, BeginAdopt, Return
<1> QED
  BY <1>1, <1>2 DEF Next, Writer, Load, UpdateConfig, StartPublishing,
     UpdateFails, Attach

\* A copy that is accepted saw no publication, and is the published slot.
LEMMA AcceptedCopy ==
  ASSUME IndInv, NEW f \in Flows, EndAdopt(f)
  PROVE  lag[f] = 0 /\ copy[f] = Published /\ attached
<1> USE DEF IndInv, TypeOK
<1>1. fpc[f] = "copy" /\ rseq[f] = seq /\ togo[f] = {}
  BY ZenonT(10) DEF EndAdopt, CopyAccepted
<1>2. lag[f] = 0
  <2>1. rseq[f] + lag[f] = seq \/ rseq[f] + lag[f] = seq + SeqSpace
    BY <1>1, ZenonT(10) DEF CopyInv
  <2>2. lag[f] \in 0..(SeqSpace - 1) /\ seq \in 0..(SeqSpace - 1)
    OBVIOUS
  <2>3. SeqSpace \in Nat
    BY ConfigPublishAssumption
  <2>4. seq + lag[f] = seq \/ seq + lag[f] = seq + SeqSpace
    BY <1>1, <2>1
  <2> HIDE DEF IndInv, TypeOK
  <2> QED
    BY <2>2, <2>3, <2>4, SameNumber, SMTT(30)
<1>3. \A w \in Words : copy[f][w] = Published[w]
  BY <1>1, <1>2 DEF CopyInv
<1>4. Published \in SlotValues
  BY NextSlot, SMTT(30) DEF Published
<1> QED
  BY <1>1, <1>2, <1>3, <1>4, SMTT(30) DEF SlotValues, WriterInv

LEMMA CopyStep == IndInv /\ [Next]_vars => CopyInv'
<1> SUFFICES ASSUME IndInv, [Next]_vars, NEW g \in Flows, (fpc[g] = "copy")'
             PROVE  /\ (rseq[g] + lag[g] \in {seq, seq + SeqSpace})'
                    /\ (lag[g] = 0)' => \A w \in Words \ togo'[g] :
                                          copy'[g][w] = Published'[w]
  BY DEF CopyInv
<1> DEFINE Goal == /\ (rseq[g] + lag[g] \in {seq, seq + SeqSpace})'
                   /\ (lag[g] = 0)' => \A w \in Words \ togo'[g] :
                                         copy'[g][w] = Published'[w]
<1> USE ConfigPublishAssumption
<1> USE DEF IndInv, TypeOK, CopyInv
<1>1. CASE WriteSeq
  <2>1. fpc[g] = "copy" /\ lag'[g] = lag[g] + 1 /\ lag[g] + 1 < SeqSpace
    BY <1>1 DEF WriteSeq, NumbersStayDistinct
  <2>2. seq' = NextSeq(seq) /\ rseq' = rseq
    BY <1>1 DEF WriteSeq, WriterInv
  <2>3. /\ seq \in 0..(SeqSpace - 1) /\ rseq[g] \in 0..(SeqSpace - 1)
        /\ lag[g] \in Nat /\ rseq[g] + lag[g] \in {seq, seq + SeqSpace}
    BY <2>1
  <2>4. rseq[g] + (lag[g] + 1) \in {NextSeq(seq), NextSeq(seq) + SeqSpace}
    BY <2>1, <2>3, NumberMoves, ZenonT(30)
  <2> HIDE DEF IndInv, TypeOK, CopyInv
  <2> HIDE ConfigPublishAssumption
  <2> QED
    BY <2>1, <2>2, <2>3, <2>4
<1>2. CASE LoadFails
  BY <1>2, SMTT(30) DEF LoadFails, WriterInv, copyVars
<1>3. ASSUME seq' = seq, Published' = Published PROVE Goal
  <2> USE <1>3
  <2>1. ASSUME UNCHANGED <<fpc, rseq, copy, togo, lag>> PROVE Goal
    BY <2>1, ZenonT(10)
  <2>2. ASSUME NEW f \in Flows, NEW why, BeginAdopt(f, why) PROVE Goal
    BY <2>2 DEF BeginAdopt
  <2>3. ASSUME NEW f \in Flows, NEW w \in Words, CopyWord(f, w) PROVE Goal
    <3>1. fpc[g] = "copy" /\ rseq' = rseq /\ lag' = lag
      BY <2>3 DEF CopyWord
    <3>2. ASSUME lag[g] = 0 PROVE Slot(rseq[g]) = Slot(seq)
      BY <3>1, <3>2, SMTT(30)
    <3>3. ASSUME lag[g] = 0, NEW v \in Words \ togo'[g]
          PROVE  copy'[g][v] = Published'[v]
      BY <2>3, <3>1, <3>2, <3>3, SMTT(30) DEF CopyWord, SlotValues, Published
    <3> QED
      BY <3>1, <3>3, ZenonT(10)
  <2>4. ASSUME NEW f \in Flows, Establish(f) PROVE Goal
    BY <2>4, ZenonT(10) DEF Establish
  <2>5. ASSUME NEW f \in Flows, Return(f) PROVE Goal
    BY <2>5 DEF Return
  <2>6. ASSUME NEW f \in Flows, Close(f) PROVE Goal
    BY <2>6, SMTT(30) DEF Close
  <2>7. ASSUME NEW f \in Flows, Reader(f) PROVE Goal
    BY <2>1, <2>2, <2>3, <2>4, <2>5, <2>6, <2>7, ZenonT(30)
       DEF Reader, FlowInit, FirstAck, RoundAck, MidRoundAck, EndAdopt,
           RejectCopy, copyVars
  <2>8. CASE Writer
    BY <1>1, <1>2, <2>1, <2>8, ZenonT(10) DEF Writer, Load, UpdateConfig, StartPublishing,
       WriteSlotWord, UpdateFails, Attach, copyVars
  <2> QED
    BY <2>1, <2>7, <2>8, SMTT(30) DEF Next, vars, copyVars
<1> QED
  BY <1>1, <1>2, <1>3, PublishedMoves

LEMMA FlowStep == IndInv /\ [Next]_vars => FlowInv'
<1> SUFFICES ASSUME IndInv, [Next]_vars, NEW g \in Flows
             PROVE  /\ (fpc[g] = "closed" => ~HasConfig(g))'
                    /\ (used[g] \subseteq {fconfig[g]})'
                    /\ HasConfig(g)' =>
                         /\ (fseq[g] + age[g] \in {seq, seq + SeqSpace})'
                         /\ (age[g] = 0 => fconfig[g] = Published)'
                         /\ \E c \in Configs : fconfig'[g] = Whole(c)
  BY ZenonT(30) DEF FlowInv
<1> DEFINE Goal == /\ (fpc[g] = "closed" => ~HasConfig(g))'
                   /\ (used[g] \subseteq {fconfig[g]})'
                   /\ HasConfig(g)' =>
                        /\ (fseq[g] + age[g] \in {seq, seq + SeqSpace})'
                        /\ (age[g] = 0 => fconfig[g] = Published)'
                        /\ \E c \in Configs : fconfig'[g] = Whole(c)
<1> USE ConfigPublishAssumption
<1> USE DEF IndInv, TypeOK, FlowInv, HasConfig
<1>1. CASE WriteSeq
  <2>1. seq' = NextSeq(seq) /\ UNCHANGED <<fpc, fconfig, fseq, used>>
    BY <1>1 DEF WriteSeq, WriterInv
  <2>2. HasConfig(g) => age'[g] = age[g] + 1 /\ age[g] + 1 < SeqSpace
    BY <1>1 DEF WriteSeq, NumbersStayDistinct
  <2>3. ASSUME HasConfig(g)
        PROVE  fseq'[g] + age'[g] \in {seq', seq' + SeqSpace} /\ age'[g] # 0
    <3>1. /\ seq \in 0..(SeqSpace - 1) /\ fseq[g] \in 0..(SeqSpace - 1)
          /\ age[g] \in Nat /\ fseq[g] + age[g] \in {seq, seq + SeqSpace}
      BY <2>3
    <3>2. fseq[g] + (age[g] + 1) \in {NextSeq(seq), NextSeq(seq) + SeqSpace}
      BY <2>2, <2>3, <3>1, NumberMoves, ZenonT(30)
    <3> HIDE DEF IndInv, TypeOK, FlowInv, HasConfig
    <3> HIDE ConfigPublishAssumption
    <3> QED
      BY <2>1, <2>2, <2>3, <3>1, <3>2
  <2> QED
    BY <2>1, <2>3
<1>2. CASE LoadFails
  BY <1>2, SMTT(30) DEF LoadFails, WriterInv, copyVars, flowVars
<1>3. ASSUME seq' = seq, Published' = Published PROVE Goal
  <2>0. /\ fpc \in [Flows -> {"closed", "idle", "copy"}]
        /\ rseq \in [Flows -> 0..(SeqSpace - 1)]
        /\ copy \in [Flows -> SlotValues]
        /\ fconfig \in [Flows -> SlotValues]
        /\ fseq \in [Flows -> 0..(SeqSpace - 1)]
        /\ used \in [Flows -> SUBSET SlotValues]
        /\ age \in [Flows -> 0..(SeqSpace - 1)]
        /\ seq \in 0..(SeqSpace - 1)
        /\ SeqSpace \in Nat
        /\ FlowInv /\ WriterInv
    OBVIOUS
  <2> HIDE DEF IndInv, TypeOK
  <2> HIDE ConfigPublishAssumption
  <2> USE <1>3, <2>0
  <2>1. ASSUME UNCHANGED flowVars, fpc'[g] = "closed" => fpc[g] = "closed"
        PROVE  Goal
    BY <2>1 DEF flowVars
  <2>2. ASSUME NEW f \in Flows, RoundAck(f), seq = fseq[f] PROVE Goal
    BY <2>2 DEF RoundAck, BeginAdopt, copyVars
  <2>3. ASSUME NEW f \in Flows, MidRoundAck(f) PROVE Goal
    BY <2>3 DEF MidRoundAck, copyVars
  <2>4. ASSUME NEW f \in Flows, EndAdopt(f) PROVE Goal
    <3>1. fpc[f] = "copy" /\ rseq[f] = seq
      BY <2>4, ZenonT(10) DEF EndAdopt, CopyAccepted
    <3>2. lag[f] = 0 /\ copy[f] = Published /\ attached
      BY <2>4, AcceptedCopy
    <3>3. \E c \in Configs : Published = Whole(c)
      BY <3>2, SMTT(30) DEF WriterInv
    <3> QED
      BY <2>4, <3>1, <3>2, <3>3, SMTT(30) DEF EndAdopt, UsedAfter, Return
  <2>5. ASSUME NEW f \in Flows, RejectCopy(f) PROVE Goal
    BY <2>5, ZenonT(10) DEF RejectCopy, Return
  <2>6. ASSUME NEW f \in Flows, Close(f) PROVE Goal
    BY <2>6, UnsetIsSlotValue DEF Close
  <2>7. ASSUME NEW f \in Flows, Reader(f) PROVE Goal
    <3>1. ASSUME NEW why, BeginAdopt(f, why) PROVE Goal
      BY <2>1, <3>1, ZenonT(10) DEF BeginAdopt
    <3>2. CASE Establish(f)
      BY <2>1, <3>2, ZenonT(10) DEF Establish
    <3>3. ASSUME NEW w \in Words, CopyWord(f, w) PROVE Goal
      BY <2>1, <3>3, ZenonT(10) DEF CopyWord
    <3> QED
      BY <2>2, <2>3, <2>4, <2>5, <2>6, <2>7, <3>1, <3>2, <3>3, ZenonT(30)
         DEF Reader, FlowInit, FirstAck, RoundAck
  <2>8. CASE Writer
    BY <1>1, <1>2, <2>1, <2>8, ZenonT(10) DEF Writer, Load, UpdateConfig, StartPublishing,
       WriteSlotWord, UpdateFails, Attach, copyVars
  <2> QED
    BY <2>1, <2>7, <2>8, ZenonT(10) DEF Next, vars, copyVars
<1> QED
  BY <1>1, <1>2, <1>3, PublishedMoves, ZenonT(10)

\* The strengthening holds in every reachable state.
THEOREM Inductive == Spec => []IndInv
<1>1. Init => IndInv
  BY TypeInit, IndInit DEF IndInv
<1>2. IndInv /\ [Next]_vars => IndInv'
  BY TypeStep, WriterStep, CopyStep, FlowStep DEF IndInv
<1> QED
  BY <1>1, <1>2, PTL DEF Spec
-----------------------------------------------------------------------------
\* No flow runs on a mix of two configurations, for any interleaving of
\* publications, failures, wraps of the number and copies.
THEOREM NoTorn == Spec => []NoTornConfig
<1>1. IndInv => NoTornConfig
  BY DEF IndInv, FlowInv, NoTornConfig
<1> QED
  BY <1>1, Inductive, PTL

\* Skipping the adoption because the numbers agree never skips a newer
\* configuration.
THEOREM NumberIsEnough == Spec => []NumberNamesConfig
<1>1. IndInv => NumberNamesConfig
  <2> SUFFICES ASSUME IndInv, NEW f \in Flows, HasConfig(f), fseq[f] = seq
               PROVE  fconfig[f] = Published
    BY DEF NumberNamesConfig
  <2>1. seq + age[f] = seq \/ seq + age[f] = seq + SeqSpace
    BY DEF IndInv, FlowInv
  <2>2. age[f] \in 0..(SeqSpace - 1) /\ seq \in 0..(SeqSpace - 1)
    BY DEF IndInv, TypeOK
  <2>3. SeqSpace \in Nat
    BY ConfigPublishAssumption
  <2>4. age[f] = 0
    BY <2>1, <2>2, <2>3, SameNumber
  <2> QED
    BY <2>4 DEF IndInv, FlowInv
<1> QED
  BY <1>1, Inductive, PTL

\* No round runs on two configurations.
THEOREM RoundsAreWhole == Spec => []RoundOnOneConfig
<1>1. IndInv => RoundOnOneConfig
  BY SMTT(30) DEF IndInv, FlowInv, RoundOnOneConfig
<1> QED
  BY <1>1, Inductive, PTL
-----------------------------------------------------------------------------
\* A step of the two maps and the word-wise copies is a publication, an
\* adoption, a socket closing, or invisible.
LEMMA StepRefines == IndInv /\ IndInv' /\ [Next]_vars
                       => [Register!RegNext]_(Register!regVars)
<1> SUFFICES ASSUME IndInv, IndInv', [Next]_vars
             PROVE  [Register!RegNext]_(Register!regVars)
  OBVIOUS
<1> DEFINE Current == IF attached THEN Published ELSE Unset
<1> USE DEF IndInv, TypeOK, Register!RegNext, Register!regVars
<1>1. CASE WriteSeq
  <2>1. UNCHANGED <<attached, fconfig>>
    BY <1>1 DEF WriteSeq
  <2>2. CASE attached
    <3>1. Current' \in {Whole(c) : c \in Configs}
      BY <2>1, <2>2, ZenonT(10) DEF WriterInv
    <3> QED
      BY <2>1, <3>1 DEF Register!Publish
  <2>3. CASE ~attached
    BY <2>1, <2>3
  <2> QED
    BY <2>2, <2>3
<1>2. CASE LoadFails
  BY <1>2 DEF LoadFails, flowVars
<1>3. CASE Attach
  <2>1. Current' \in {Whole(c) : c \in Configs}
    BY <1>3, ZenonT(10) DEF Attach, WriterInv
  <2> QED
    BY <1>3, <2>1 DEF Attach, flowVars, Register!Publish
<1>4. ASSUME seq' = seq, Published' = Published, UNCHANGED attached
      PROVE  [Register!RegNext]_(Register!regVars)
  <2> HIDE DEF IndInv, TypeOK
  <2> USE <1>4
  <2>1. ASSUME UNCHANGED fconfig PROVE UNCHANGED Register!regVars
    BY <2>1
  <2>2. ASSUME NEW f \in Flows, EndAdopt(f) PROVE Register!Adopt(f)
    <3>1. fconfig' = [fconfig EXCEPT ![f] = copy[f]] /\ copy[f][AbiWord] # Zero
      BY <2>2, ZenonT(10) DEF EndAdopt, CopyAccepted
    <3>2. copy[f] = Published /\ attached
      BY <2>2, AcceptedCopy
    <3>3. Published # Unset
      BY <3>1, <3>2, UnsetIsSlotValue
    <3> QED
      BY <3>1, <3>2, <3>3, SMTT(30) DEF Register!Adopt
  <2>3. ASSUME NEW f \in Flows, Close(f) PROVE Register!Forget(f)
    BY <2>3 DEF Close, Register!Forget
  <2>4. ASSUME NEW f \in Flows, Reader(f), ~EndAdopt(f), ~Close(f)
        PROVE  UNCHANGED fconfig
    BY <2>4, ZenonT(10) DEF Reader, Establish, FlowInit, FirstAck, RoundAck, MidRoundAck,
       CopyWord, RejectCopy, BeginAdopt, flowVars
  <2>5. CASE Writer
    BY <2>1, <2>5, ZenonT(10) DEF Writer, Load, UpdateConfig, StartPublishing,
       WriteSlotWord, WriteSeq, UpdateFails, Attach, LoadFails, flowVars
  <2> QED
    BY <2>1, <2>2, <2>3, <2>4, <2>5 DEF Next, vars, flowVars
<1> QED
  BY <1>1, <1>2, <1>3, <1>4, PublishedMoves, ZenonT(10)

\* The two-slot protocol implements the atomic register.
THEOREM Refinement == Spec => ImplementsRegister
<1>1. Init => Register!RegInit
  BY DEF Init, Register!RegInit
<1> QED
  BY <1>1, StepRefines, Inductive, PTL DEF Spec, ImplementsRegister, Register!RegSpec
=============================================================================
