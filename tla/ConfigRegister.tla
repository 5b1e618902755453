--------------------------- MODULE ConfigRegister ---------------------------
(***************************************************************************)
(* What the configuration channel between skyline-speederd and skyline_cc  *)
(* promises: one atomic register.  A publication replaces the current      *)
(* configuration in one step, and a flow adopts the current configuration  *)
(* in one step.  Nothing in between is visible.                            *)
(***************************************************************************)
CONSTANTS Flows,          \* the sockets on skyline_cc
          Values,         \* what skyline-speederd may publish
          Unset           \* no configuration

VARIABLES current,        \* the configuration published last
          adopted         \* per flow, the configuration it runs on

regVars == <<current, adopted>>

RegInit == /\ current = Unset
           /\ adopted = [f \in Flows |-> Unset]

Publish == /\ current' \in Values
           /\ UNCHANGED adopted

Adopt(f) == /\ current # Unset
            /\ adopted' = [adopted EXCEPT ![f] = current]
            /\ UNCHANGED current

Forget(f) == /\ adopted' = [adopted EXCEPT ![f] = Unset]
             /\ UNCHANGED current

RegNext == Publish \/ \E f \in Flows : Adopt(f) \/ Forget(f)

RegSpec == RegInit /\ [][RegNext]_regVars
=============================================================================
