---------------------------- MODULE GuardDevices ----------------------------
(***************************************************************************)
(* managed_devices and follow_noqueue (guard.rs): the devices whose root   *)
(* qdisc the guard manages.  The walk reads sysfs and runs tc one device   *)
(* at a time, while interfaces are stacked and unstacked under it.         *)
(*                                                                         *)
(* A root is "noqueue", "queue" (any other) or "none" (down, or tc failed, *)
(* which the walk treats alike).  The kernel keeps stacking acyclic; the   *)
(* lower_* links are taken in any order.                                   *)
(***************************************************************************)
EXTENDS Naturals, FiniteSets, Sequences, SequencesExt

CONSTANTS Devices,          \* 0 is runtime.tc_interface; stacking goes upwards
          MAX_LOWER_DEPTH,  \* how far below the interface the walk looks
          ChangesMax        \* bound on the changes made during a walk

DevicesAssumption == 0 \in Devices /\ MAX_LOWER_DEPTH \in Nat

VARIABLES lower,    \* [Devices -> devices under it]
          link,     \* devices with a `device` link: NICs
          root,     \* [Devices -> "noqueue", "queue" or "none"]
          changes,  \* history: changes since the walk began
          stack,    \* the active calls of follow_noqueue, outermost first
          visited,
          targets,  \* set of [name, uppers]
          asked,    \* history: devices tc was run for
          pc

topology == <<lower, link, root, changes>>
vars == <<topology, stack, visited, targets, asked, pc>>

Stackings == {f \in [Devices -> SUBSET Devices] :
                \A d \in Devices : \A e \in f[d] : d < e}

Init == /\ lower \in Stackings
        /\ link \in SUBSET (Devices \ {0})
        /\ root \in [Devices -> {"noqueue", "queue"}]
        /\ changes = 0
        /\ stack = <<>> /\ visited = {} /\ targets = {} /\ asked = {}
        /\ pc = "start"

Restack == /\ pc # "done" /\ changes < ChangesMax
           /\ changes' = changes + 1
           /\ \E d, e \in Devices :
                /\ d < e
                /\ lower' = [lower EXCEPT ![d] = IF e \in @ THEN @ \ {e} ELSE @ \cup {e}]
           /\ UNCHANGED <<link, root, stack, visited, targets, asked, pc>>

Requeue == /\ pc # "done" /\ changes < ChangesMax
           /\ changes' = changes + 1
           /\ \E d \in Devices, k \in {"noqueue", "queue", "none"} :
                root' = [root EXCEPT ![d] = k]
           /\ UNCHANGED <<lower, link, stack, visited, targets, asked, pc>>

-----------------------------------------------------------------------------
Frame(d, uppers) == [device |-> d, uppers |-> uppers, rest |-> {}, open |-> FALSE]
Target(d, uppers) == [name |-> d, uppers |-> uppers]
Depth == Len(stack) - 1

(* managed_devices                                                         *)
Start == /\ pc = "start"
         /\ asked' = {0}
         /\ IF root[0] = "noqueue"
            THEN /\ visited' = {0} /\ stack' = <<Frame(0, <<>>)>>
                 /\ pc' = "walk" /\ UNCHANGED targets
            ELSE /\ targets' = {Target(0, <<>>)}
                 /\ pc' = "done" /\ UNCHANGED <<visited, stack>>
         /\ UNCHANGED topology

(* follow_noqueue: read the lowers ...                                     *)
Follow ==
  /\ pc = "walk" /\ stack # <<>> /\ ~Last(stack).open
  /\ LET f == Last(stack)
     IN \/ /\ lower[f.device] = {}
           /\ stack' = Front(stack)
           /\ targets' = targets \cup (IF f.device \in link
                                       THEN {Target(f.device, f.uppers)} ELSE {})
        \/ /\ lower[f.device] # {} /\ Depth >= MAX_LOWER_DEPTH
           /\ stack' = Front(stack)
           /\ UNCHANGED targets
        \/ /\ lower[f.device] # {} /\ Depth < MAX_LOWER_DEPTH
           /\ stack' = Front(stack) \o <<[f EXCEPT !.open = TRUE, !.rest = lower[f.device]]>>
           /\ UNCHANGED targets
  /\ UNCHANGED <<topology, visited, asked, pc>>

(* slip: what is under noqueue is managed, NIC or not.                     *)
VisitAny ==
  /\ pc = "walk" /\ stack # <<>> /\ Last(stack).open
  /\ \E d \in Last(stack).rest :
       LET f == Last(stack)
           top == Front(stack) \o <<[f EXCEPT !.rest = @ \ {d}]>>
           below == <<f.device>> \o f.uppers
       IN /\ visited' = visited \cup {d} /\ asked' = asked \cup {d}
          /\ IF d \in visited THEN stack' = top /\ UNCHANGED targets
             ELSE IF root[d] = "noqueue"
             THEN stack' = top \o <<Frame(d, below)>> /\ UNCHANGED targets
             ELSE stack' = top /\ targets' = targets \cup {Target(d, below)}
  /\ UNCHANGED <<topology, pc>>

(* ... and look at each that was not looked at before.                     *)
Visit ==
  /\ pc = "walk" /\ stack # <<>> /\ Last(stack).open
  /\ \E d \in Last(stack).rest :
       LET f == Last(stack)
           top == Front(stack) \o <<[f EXCEPT !.rest = @ \ {d}]>>
           below == <<f.device>> \o f.uppers
       IN /\ visited' = visited \cup {d}
          /\ \/ /\ d \in visited \/ (d \notin link /\ lower[d] = {})
                /\ stack' = top /\ UNCHANGED <<targets, asked>>
             \/ /\ d \notin visited /\ (d \in link \/ lower[d] # {})
                /\ asked' = asked \cup {d}
                /\ IF root[d] = "noqueue"
                   THEN stack' = top \o <<Frame(d, below)>> /\ UNCHANGED targets
                   ELSE /\ stack' = top
                        /\ targets' = targets \cup (IF d \in link THEN {Target(d, below)} ELSE {})
  /\ UNCHANGED <<topology, pc>>

Return ==
  /\ pc = "walk"
  /\ \/ /\ stack # <<>> /\ Last(stack).open /\ Last(stack).rest = {}
        /\ stack' = Front(stack) /\ UNCHANGED pc
     \/ /\ stack = <<>> /\ pc' = "done" /\ UNCHANGED stack
  /\ UNCHANGED <<topology, visited, targets, asked>>

Next == Restack \/ Requeue \/ Start \/ Follow \/ Visit \/ Return
Spec == Init /\ [][Next]_vars

-----------------------------------------------------------------------------
(* A reference: what lies under the interface through noqueue devices.     *)
Height == LET h[d \in Devices] ==
                IF lower[d] = {} THEN 0
                ELSE 1 + CHOOSE n \in {h[e] : e \in lower[d]} : \A e \in lower[d] : h[e] <= n
          IN h[0]
Reached == LET under[d \in Devices] ==
                 {d} \cup IF root[d] = "noqueue" THEN UNION {under[e] : e \in lower[d]} ELSE {}
           IN under[0]
Egress == IF root[0] # "noqueue" THEN {0}
          ELSE {d \in Reached \cap link : root[d] # "noqueue" \/ lower[d] = {}}

(* The guard touches nothing but the interface and NICs, tc is never run   *)
(* for a VM's tap or a container's veth that carries nothing, no device is *)
(* managed twice, and no target is deeper than the limit: whatever changes *)
(* under the walk.                                                         *)
OnlyNics == /\ \A t \in targets : t.name = 0 \/ t.name \in link
            /\ \A t, u \in targets : t.name = u.name => t = u
            /\ \A t \in targets : Len(t.uppers) <= MAX_LOWER_DEPTH
            /\ changes = 0 => \A d \in asked : d = 0 \/ d \in link \/ lower[d] # {}

(* A walk nothing disturbs finds the egress: every NIC under the interface *)
(* through noqueue devices when the stack is no higher than the limit, and *)
(* never a device that is not.  The label is the path.                     *)
FindsTheEgress ==
  changes = 0 =>
    /\ \A t \in targets : t.name \in Egress
    /\ \A t \in targets : LET path == <<t.name>> \o t.uppers
                          IN /\ Last(path) = 0
                             /\ \A i \in 1..Len(path) - 1 : path[i] \in lower[path[i + 1]]
    /\ pc = "done" /\ Height <= MAX_LOWER_DEPTH => {t.name : t \in targets} = Egress

(* The devices a pass looks at are the right ones, also while they change. *)
TargetsRight == OnlyNics /\ FindsTheEgress
=============================================================================
