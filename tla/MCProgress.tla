----------------------------- MODULE MCProgress -----------------------------
(* What must eventually happen, for TLC: a tc that hangs does not hold up  *)
(* a drain (TcRunner), a signal stops the daemon (Serve) and a flow leaves *)
(* startup (FlowModel).  They share no state, so a behaviour is one of a   *)
(* single part, named by `part`, while the others rest where they began;   *)
(* what is fair is fair in the part that moves.                            *)
EXTENDS Integers, Sequences, FiniteSets

CONSTANTS Slots, NoChild, Daemons, NONE, STALE

VARIABLES part,
          rtnl, proc, unreaped, reapers, job, at, calls, child, lock, spawnFails, timeouts,
          path, phase, queue, pieces, watcher, filters, kills,
          mode, plateau, bw, samples, round_rate, prior, clamped, measured, tick, adopted

runner == <<rtnl, proc, unreaped, reapers, job, at, calls, child, lock, spawnFails,
            timeouts>>
serve == <<path, phase, queue, pieces, watcher, filters, kills>>
model == <<mode, plateau, bw, samples, round_rate, prior, clamped, measured, tick,
           adopted>>
vars == <<part, runner, serve, model>>

T == INSTANCE TcRunner WITH CallsMax <- 2, SpawnFailsMax <- 0
S == INSTANCE Serve WITH PiecesMax <- 3, KillsMax <- 2, QueueMax <- 3
F == INSTANCE FlowModel WITH
       Rate <- 0..2, Window <- 3, Plateau <- 3, Growth <- 250, AdoptMax <- 1

ASSUME F!ModelAssumption

SRests == S!Init /\ path = NONE

Init == \/ part = "serve" /\ T!Init /\ S!Init /\ F!Init
        \/ part \in {"runner", "model"} /\ T!Init /\ SRests /\ F!Init

TMoves == part = "runner" /\ UNCHANGED <<part, serve, model>>
SMoves == part = "serve" /\ UNCHANGED <<part, runner, model>>
FMoves == part = "model" /\ UNCHANGED <<part, runner, serve>>

Next == \/ TMoves /\ T!Next
        \/ SMoves /\ S!Next
        \/ FMoves /\ F!Next

Spec == Init /\ [][Next]_vars
        /\ \A t \in T!Threads : WF_vars(TMoves /\ T!Step(t)) /\ SF_vars(TMoves /\ T!Lock(t))
        /\ \A s \in Slots : WF_vars(TMoves /\ T!TcExits(s)) /\ WF_vars(TMoves /\ T!Reap(s))
        /\ \A d \in Daemons : /\ WF_vars(SMoves /\ S!Run(d)) /\ SF_vars(SMoves /\ S!Notify(d))
                              /\ WF_vars(SMoves /\ S!ReadEnds(d))

(* TcRunner: a drain gets the guard's lock, even if rtnl never comes back. *)
DrainGetsTheLock == T!DrainGetsTheLock

(* Serve: a daemon that has got SIGTERM or SIGINT stops, even while a      *)
(* client that never finishes its line is being read, cleans up after      *)
(* itself, and leaves a path the next daemon can bind.                     *)
StopsCleanly == S!StopsCleanly

(* FlowModel: the estimate is the best of the window and is never lost,    *)
(* and a flow whose rounds keep being measured ends in CRUISE, once and on *)
(* evidence.                                                               *)
ModelFollows == F!ModelFollows
=============================================================================
