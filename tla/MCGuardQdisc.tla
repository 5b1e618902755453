---------------------------- MODULE MCGuardQdisc ----------------------------
(* GuardQdisc for TLC: one device with two transmit queues, and two roots  *)
(* another program may install: one whose queues are all the kernel's, and *)
(* one in which somebody already gave a queue fq.                          *)
EXTENDS GuardQdisc, TLC

MqOf(major, a, b) == [kind |-> "mq", major |-> major, set |-> FALSE, kids |-> <<a, b>>]
LiveInstalled ==
  {MqOf(2, Plain("cake"), Plain("cake")),
   MqOf(1, [kind |-> "fq", set |-> TRUE], Plain("cake"))}

OneMultiqueue == [d \in Devs |-> 2]

ASSUME GuardAssumption
=============================================================================
