---------------------------- MODULE ConfigPublish ----------------------------
(***************************************************************************)
(* How a configuration reaches a flow.                                     *)
(*                                                                         *)
(* skyline-speederd (one writer) publishes configuration number N by       *)
(* writing it into config_slots[N & 1] and then setting config_seq to N,   *)
(* two bpf() calls either of which may fail.  skyline_cc (one reader per   *)
(* flow, on any CPU, with no lock against the writer) reads config_seq,    *)
(* copies the slot it names word by word, and keeps the copy only if       *)
(* config_seq did not move.                                                *)
(*                                                                         *)
(* A configuration is a struct of Words; a word is represented by the      *)
(* configuration it belongs to, so a copy is whole when its words agree.   *)
(* The module covers one loaded skyline_cc object: maps, writer, readers.  *)
(***************************************************************************)
EXTENDS Integers

CONSTANTS Flows,      \* sockets that may run skyline_cc
          Words,      \* the words of struct skyline_config
          AbiWord,    \* the word holding abi_version
          Configs,    \* configurations skyline-speederd may publish
          Zero,       \* a word of a zeroed map or of a fresh sk_storage
          SeqSpace    \* number of values of config_seq, 2^32 in the code

ASSUME ConfigPublishAssumption ==
  /\ AbiWord \in Words
  /\ Zero \notin Configs
  /\ SeqSpace \in Nat
  /\ SeqSpace > 2
  /\ SeqSpace % 2 = 0

VARIABLES slots,      \* config_slots, the two-entry array map
          seq,        \* config_seq, the one-entry array map
          attached,   \* skyline_cc is registered through this object
          wpc,        \* writer: unloaded, slot, seq, attach or idle
          daemonSeq,  \* BpfRuntime::config_seq
          next,       \* number being published
          pending,    \* configuration being published
          unwritten,  \* words of it not yet in the slot
          fpc,        \* per flow: closed, idle or copy
          cause,      \* per flow, what the copy is for: ack, init or round
          rseq,       \* per flow, config_seq as read before the copy
          copy,       \* per flow, the local copy
          togo,       \* per flow, words not yet copied
          fconfig,    \* per flow, flow->config
          fseq,       \* per flow, flow->config_seq
          used,       \* per flow, configurations the ACKs of this round ran on
          lag,        \* history: publications since rseq was read
          age         \* history: publications since fseq was read

writerVars == <<slots, seq, attached, wpc, daemonSeq, next, pending, unwritten>>
copyVars == <<fpc, cause, rseq, copy, togo, lag>>
flowVars == <<fconfig, fseq, used, age>>
vars == <<writerVars, copyVars, flowVars>>

OneSlot(n) == 0                    \* slip: a single slot
Slot(n) == n % 2
Whole(c) == [w \in Words |-> c]
Unset == Whole(Zero)
Published == slots[Slot(seq)]
HasConfig(f) == fconfig[f][AbiWord] # Zero

Init ==
  /\ slots = [i \in 0..1 |-> Unset]
  /\ seq = 0
  /\ attached = FALSE
  /\ wpc = "unloaded"
  /\ daemonSeq = 1
  /\ next = 0
  /\ pending = Zero
  /\ unwritten = {}
  /\ fpc = [f \in Flows |-> "closed"]
  /\ cause = [f \in Flows |-> "ack"]
  /\ rseq = [f \in Flows |-> 0]
  /\ copy = [f \in Flows |-> Unset]
  /\ togo = [f \in Flows |-> {}]
  /\ fconfig = [f \in Flows |-> Unset]
  /\ fseq = [f \in Flows |-> 0]
  /\ used = [f \in Flows |-> {}]
  /\ lag = [f \in Flows |-> 0]
  /\ age = [f \in Flows |-> 0]
-----------------------------------------------------------------------------
(***************************************************************************)
(* The writer: BpfRuntime::load, update_config and update_config_maps.     *)
(***************************************************************************)
NextSeq(n) == IF n + 1 = SeqSpace THEN 0 ELSE n + 1

StartPublishing(n, c) ==
  /\ next' = n
  /\ pending' = c
  /\ unwritten' = Words
  /\ wpc' = "slot"
  /\ UNCHANGED <<slots, seq, attached, daemonSeq, copyVars, flowVars>>

\* The first publication of a freshly loaded object: number 1, before attach.
Load(c) == wpc = "unloaded" /\ StartPublishing(daemonSeq, c)

UpdateConfig(c) == wpc = "idle" /\ StartPublishing(NextSeq(daemonSeq), c)

\* One word of the map update's memory copy into the inactive slot.
WriteSlotWord(w) ==
  /\ wpc = "slot"
  /\ w \in unwritten
  /\ slots' = [slots EXCEPT ![Slot(next)][w] = pending]
  /\ unwritten' = unwritten \ {w}
  /\ wpc' = IF unwritten' = {} THEN "seq" ELSE "slot"
  /\ UNCHANGED <<seq, attached, daemonSeq, next, pending, copyVars, flowVars>>

\* No flow sits through 2^32 publications between reading a number and
\* comparing it, so no number is seen again while it is still held.
NumbersStayDistinct ==
  \A f \in Flows : lag[f] + 1 < SeqSpace /\ age[f] + 1 < SeqSpace

WriteSeq ==
  /\ wpc = "seq"
  /\ NumbersStayDistinct
  /\ seq' = next
  /\ daemonSeq' = next
  /\ wpc' = IF attached THEN "idle" ELSE "attach"
  /\ lag' = [f \in Flows |-> IF fpc[f] = "copy" THEN lag[f] + 1 ELSE 0]
  /\ age' = [f \in Flows |-> IF HasConfig(f) THEN age[f] + 1 ELSE 0]
  /\ UNCHANGED <<slots, attached, next, pending, unwritten,
                 fpc, cause, rseq, copy, togo, fconfig, fseq, used>>

\* Slip: the daemon advances its number although the kernel's did not move.

\* A map update that fails before it copied anything (slot), or the second
\* one failing after the first succeeded (seq): the caller reports an error
\* and BpfRuntime::config_seq keeps its value.
UpdateFails ==
  /\ attached
  /\ \/ wpc = "slot" /\ unwritten = Words
     \/ wpc = "seq"
  /\ wpc' = "idle"
  /\ UNCHANGED <<slots, seq, attached, daemonSeq, next, pending, unwritten,
                 copyVars, flowVars>>

Attach ==
  /\ wpc = "attach"
  /\ attached' = TRUE
  /\ wpc' = "idle"
  /\ UNCHANGED <<slots, seq, daemonSeq, next, pending, unwritten,
                 copyVars, flowVars>>

\* Any failure of load() before the attach drops the object and its maps; the
\* next Enable starts from a fresh one.
LoadFails ==
  /\ ~attached
  /\ \/ wpc = "slot" /\ unwritten = Words
     \/ wpc \in {"seq", "attach"}
  /\ slots' = [i \in 0..1 |-> Unset]
  /\ seq' = 0
  /\ daemonSeq' = 1
  /\ wpc' = "unloaded"
  /\ UNCHANGED <<attached, next, pending, unwritten, copyVars, flowVars>>
-----------------------------------------------------------------------------
(***************************************************************************)
(* The readers: skyline_adopt_config and its callers skyline_init and      *)
(* skyline_cong_control.                                                   *)
(***************************************************************************)
\* skyline_adopt_config up to the copy: read config_seq.
BeginAdopt(f, why) ==
  /\ fpc' = [fpc EXCEPT ![f] = "copy"]
  /\ cause' = [cause EXCEPT ![f] = why]
  /\ rseq' = [rseq EXCEPT ![f] = seq]
  /\ togo' = [togo EXCEPT ![f] = Words]
  /\ lag' = [lag EXCEPT ![f] = 0]
  /\ UNCHANGED <<copy, writerVars, flowVars>>

\* The kernel puts a socket on skyline_cc.
Establish(f) ==
  /\ attached
  /\ fpc[f] = "closed"
  /\ fpc' = [fpc EXCEPT ![f] = "idle"]
  /\ UNCHANGED <<cause, rseq, copy, togo, lag, writerVars, flowVars>>

\* skyline_init: after the handshake, or when the socket returns to skyline_cc.
FlowInit(f) == fpc[f] = "idle" /\ BeginAdopt(f, "init")

\* skyline_cong_control without a configuration: take one now.
FirstAck(f) == fpc[f] = "idle" /\ ~HasConfig(f) /\ BeginAdopt(f, "ack")

\* Slip: a flow that has a configuration never looks at config_seq again.
RoundAckKeeps(f) ==
  /\ fpc[f] = "idle"
  /\ HasConfig(f)
  /\ used' = [used EXCEPT ![f] = {fconfig[f]}]
  /\ UNCHANGED <<writerVars, copyVars, fconfig, fseq, age>>

\* skyline_cong_control at a round boundary: adopt if the number changed,
\* otherwise run the new round on the configuration at hand.
RoundAck(f) ==
  /\ fpc[f] = "idle"
  /\ HasConfig(f)
  /\ \/ seq # fseq[f] /\ BeginAdopt(f, "round")
     \/ /\ seq = fseq[f]
        /\ used' = [used EXCEPT ![f] = {fconfig[f]}]
        /\ UNCHANGED <<writerVars, copyVars, fconfig, fseq, age>>

\* Slip: a newer configuration is taken in the middle of a round.
MidRoundAdopts(f) ==
  /\ fpc[f] = "idle"
  /\ HasConfig(f)
  /\ fconfig' = [fconfig EXCEPT ![f] = Published]
  /\ fseq' = [fseq EXCEPT ![f] = seq]
  /\ used' = [used EXCEPT ![f] = @ \union {Published}]
  /\ age' = [age EXCEPT ![f] = 0]
  /\ UNCHANGED <<writerVars, copyVars>>

\* skyline_cong_control in the middle of a round: the configuration stays.
MidRoundAck(f) ==
  /\ fpc[f] = "idle"
  /\ HasConfig(f)
  /\ used' = [used EXCEPT ![f] = @ \union {fconfig[f]}]
  /\ UNCHANGED <<writerVars, copyVars, fconfig, fseq, age>>

CopyWord(f, w) ==
  /\ fpc[f] = "copy"
  /\ w \in togo[f]
  /\ copy' = [copy EXCEPT ![f][w] = slots[Slot(rseq[f])][w]]
  /\ togo' = [togo EXCEPT ![f] = @ \ {w}]
  /\ UNCHANGED <<fpc, cause, rseq, lag, writerVars, flowVars>>

AcceptedUnchecked(f) == copy[f][AbiWord] # Zero    \* slip: no second read
CopyAccepted(f) == seq = rseq[f] /\ copy[f][AbiWord] # Zero

\* What the round has run on once the call that adopted returns: init runs no
\* ACK, an ACK that adopts starts a new round on what it adopted.
UsedAfter(f, config) == IF cause[f] = "init" THEN {} ELSE {config}

\* skyline_adopt_config returns; its locals are gone.
Return(f) ==
  /\ fpc' = [fpc EXCEPT ![f] = "idle"]
  /\ rseq' = [rseq EXCEPT ![f] = 0]
  /\ copy' = [copy EXCEPT ![f] = Unset]
  /\ lag' = [lag EXCEPT ![f] = 0]
  /\ UNCHANGED <<cause, togo, writerVars>>

EndAdopt(f) ==
  /\ fpc[f] = "copy"
  /\ togo[f] = {}
  /\ CopyAccepted(f)
  /\ fconfig' = [fconfig EXCEPT ![f] = copy[f]]
  /\ fseq' = [fseq EXCEPT ![f] = rseq[f]]
  /\ used' = [used EXCEPT ![f] = UsedAfter(f, copy[f])]
  /\ age' = [age EXCEPT ![f] = lag[f]]
  /\ Return(f)

\* The copy raced a publication and is thrown away: init changes nothing, the
\* first ACK grows the window as Reno would, and a round boundary starts the
\* round on the old configuration.
RejectCopy(f) ==
  /\ fpc[f] = "copy"
  /\ togo[f] = {}
  /\ ~CopyAccepted(f)
  /\ used' = IF cause[f] = "round"
               THEN [used EXCEPT ![f] = {fconfig[f]}] ELSE used
  /\ Return(f)
  /\ UNCHANGED <<fconfig, fseq, age>>

\* The socket goes, and its sk_storage with it.
Close(f) ==
  /\ fpc[f] = "idle"
  /\ fpc' = [fpc EXCEPT ![f] = "closed"]
  /\ fconfig' = [fconfig EXCEPT ![f] = Unset]
  /\ fseq' = [fseq EXCEPT ![f] = 0]
  /\ used' = [used EXCEPT ![f] = {}]
  /\ age' = [age EXCEPT ![f] = 0]
  /\ UNCHANGED <<cause, rseq, copy, togo, lag, writerVars>>
-----------------------------------------------------------------------------
Writer ==
  \/ \E c \in Configs : Load(c) \/ UpdateConfig(c)
  \/ \E w \in Words : WriteSlotWord(w)
  \/ WriteSeq \/ UpdateFails \/ Attach \/ LoadFails

Reader(f) ==
  \/ Establish(f) \/ FlowInit(f) \/ FirstAck(f) \/ RoundAck(f) \/ MidRoundAck(f)
  \/ \E w \in Words : CopyWord(f, w)
  \/ EndAdopt(f) \/ RejectCopy(f) \/ Close(f)

Next == Writer \/ \E f \in Flows : Reader(f)

Spec == Init /\ [][Next]_vars

\* A BPF program that started runs to its end, and a connection that has data
\* to move keeps reaching the ends of its rounds.
FlowProgress(f) ==
  \/ FirstAck(f) \/ RoundAck(f)
  \/ \E w \in Words : CopyWord(f, w)
  \/ EndAdopt(f) \/ RejectCopy(f)

FairSpec == Spec /\ \A f \in Flows : WF_vars(FlowProgress(f))
-----------------------------------------------------------------------------
SlotValues == [Words -> Configs \union {Zero}]

\* Every variable keeps its type; the numbers stay inside their 32-bit space.
TypeOK ==
  /\ slots \in [0..1 -> SlotValues]
  /\ seq \in 0..(SeqSpace - 1)
  /\ attached \in BOOLEAN
  /\ wpc \in {"unloaded", "slot", "seq", "attach", "idle"}
  /\ daemonSeq \in 0..(SeqSpace - 1)
  /\ next \in 0..(SeqSpace - 1)
  /\ pending \in Configs \union {Zero}
  /\ unwritten \in SUBSET Words
  /\ fpc \in [Flows -> {"closed", "idle", "copy"}]
  /\ cause \in [Flows -> {"ack", "init", "round"}]
  /\ rseq \in [Flows -> 0..(SeqSpace - 1)]
  /\ copy \in [Flows -> SlotValues]
  /\ togo \in [Flows -> SUBSET Words]
  /\ fconfig \in [Flows -> SlotValues]
  /\ fseq \in [Flows -> 0..(SeqSpace - 1)]
  /\ used \in [Flows -> SUBSET SlotValues]
  /\ lag \in [Flows -> 0..(SeqSpace - 1)]
  /\ age \in [Flows -> 0..(SeqSpace - 1)]

\* "A copy taken while config_seq stays put is whole": no flow ever runs on a
\* mix of two configurations, however publications, failed publications and
\* copies interleave (skyline_adopt_config).
NoTornConfig ==
  \A f \in Flows : HasConfig(f) => \E c \in Configs : fconfig[f] = Whole(c)

\* A flow whose number equals config_seq has the configuration published under
\* it, so the comparison that skips the adoption at a round boundary never
\* skips a newer configuration (skyline_cong_control).
NumberNamesConfig ==
  \A f \in Flows : HasConfig(f) /\ fseq[f] = seq => fconfig[f] = Published

\* "No round runs on a mix of two" (skyline_cong_control).
RoundOnOneConfig ==
  \A f \in Flows : \A a, b \in used[f] : a = b

\* The two maps and the word-by-word copies implement the atomic register:
\* every adoption takes the configuration current at one instant.
Register == INSTANCE ConfigRegister
  WITH Values <- {Whole(c) : c \in Configs},
       current <- IF attached THEN Published ELSE Unset,
       adopted <- fconfig
ImplementsRegister == Register!RegSpec

\* Once skyline-speederd stops publishing, a flow that stays open ends up on
\* the configuration published last, also after copies thrown away and after
\* publications that failed half-way.
EventuallyUpToDate ==
  \A f \in Flows : \A c \in Configs :
    <>[](attached /\ wpc = "idle" /\ Published = Whole(c) /\ fpc[f] # "closed")
      => <>[](fconfig[f] = Whole(c))
=============================================================================
