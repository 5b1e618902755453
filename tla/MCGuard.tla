------------------------------ MODULE MCGuard ------------------------------
(* The guard's three parts for TLC, side by side: what it does to a device *)
(* (GuardQdisc), which devices it looks at (GuardDevices) and how it runs  *)
(* tc (TcRunner).  They share no state, so a behaviour is one of a single  *)
(* part, named by `part`, while the others rest where they began: the      *)
(* states to visit are the sum of the parts' and not their product.        *)
EXTENDS TcRunner, Integers, Sequences, TLC

CONSTANTS Devs, IntervalS, FailuresMax, NoRoot

VARIABLES part,
          default, root, managed, quiet, pc, trigger, seen, todo, dev, current,
          round, cmds, stuck, touched, defTouched,
          lower, link, devRoot, changes, stack, visited, targets, asked, walk

qdisc == <<default, root, managed, quiet, pc, trigger, seen, todo, dev, current,
           round, cmds, stuck, touched, defTouched>>
devices == <<lower, link, devRoot, changes, stack, visited, targets, asked, walk>>

TxQueues == [d \in Devs |-> 2]
Defaults == {"fq", "cake"}
Devices == 0..3
MAX_LOWER_DEPTH == 2
ChangesMax == 1

(* Roots another program may install: of one queue or two, made by hand or *)
(* by the kernel, of kinds the guard replaces and of kinds it leaves.      *)
Leaf(kind, set) == [kind |-> kind, set |-> set]
RootOf(kind, major, set, kids) == [kind |-> kind, major |-> major, set |-> set, kids |-> kids]
Installed ==
  {RootOf("htb", 1, FALSE, <<>>), RootOf("cake", 1, TRUE, <<>>), RootOf("cake", 2, FALSE, <<>>),
   RootOf("mq", 2, FALSE, <<Leaf("cake", FALSE), Leaf("cake", FALSE)>>),
   RootOf("mq", 1, FALSE, <<Leaf("fq", TRUE), Leaf("cake", FALSE)>>),
   RootOf("mq", 1, FALSE, <<Leaf("cake", FALSE), Leaf("cake", TRUE)>>)}

Q == INSTANCE GuardQdisc
D == INSTANCE GuardDevices WITH root <- devRoot, pc <- walk

ASSUME Q!GuardAssumption
ASSUME D!DevicesAssumption

QRests == Q!Init /\ default = "fq"
DRests == D!Init /\ lower = [d \in Devices |-> {}] /\ link = {}
                 /\ devRoot = [d \in Devices |-> "queue"]

GInit == \/ part = "qdisc" /\ Q!Init /\ DRests /\ Init
         \/ part = "devices" /\ QRests /\ D!Init /\ Init
         \/ part = "runner" /\ QRests /\ DRests /\ Init

GNext == /\ UNCHANGED part
         /\ \/ part = "qdisc" /\ Q!Next /\ UNCHANGED <<devices, vars>>
            \/ part = "devices" /\ D!Next /\ UNCHANGED <<qdisc, vars>>
            \/ part = "runner" /\ Next /\ UNCHANGED <<qdisc, devices>>

GSpec == GInit /\ [][GNext]_<<part, qdisc, devices, vars>>

(* GuardQdisc: a replace hits only a root that is to be replaced, keeps    *)
(* every queue somebody set up, and leaves fq on every queue it makes.     *)
ReplacesRightly == Q!ReplacesRightly

(* GuardDevices: the walk of follow_noqueue finds the NICs the traffic of  *)
(* the interface leaves by, all of them and no other device.               *)
TargetsRight == D!TargetsRight
=============================================================================
