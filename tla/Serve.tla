------------------------------- MODULE Serve --------------------------------
(***************************************************************************)
(* The daemon process around its requests (main.rs: prepare_socket_path,   *)
(* serve, handle_stream, read_request, the signal watcher, main): how it   *)
(* takes the socket path, serves one client at a time and stops, with      *)
(* clients that stall and kills at any moment.  A daemon is started once   *)
(* the one before it is gone, as systemd does.                             *)
(*                                                                         *)
(* The socket file is the daemon that bound it, STALE when that one is     *)
(* gone, or NONE.  A request line arrives in pieces.  What requests do is  *)
(* ConfigRequests and SpeederDaemon; here one only takes its time.         *)
(***************************************************************************)
EXTENDS Naturals, Sequences

CONSTANTS Daemons,    \* daemon processes
          PiecesMax,  \* pieces of a line up to MAX_REQUEST_BYTES
          KillsMax,   \* bound on SIGKILLs
          QueueMax,   \* bound on queued connections
          NONE, STALE

VARIABLES path,      \* what the socket file leads to
          phase,     \* [Daemons -> how far serve() is]
          queue,     \* [Daemons -> connections not accepted yet]
          pieces,    \* [Daemons -> pieces read of the current line]
          watcher,   \* [Daemons -> the shutdown signal watcher]
          filters,   \* daemons whose TC filters are on the NIC
          kills

vars == <<path, phase, queue, pieces, watcher, filters, kills>>

Listening(d) == phase[d] \in {"bound", "accepting", "reading", "shutdown"}

Init == /\ path \in {NONE, STALE}
        /\ phase = [d \in Daemons |-> "off"] /\ queue = [d \in Daemons |-> <<>>]
        /\ pieces = [d \in Daemons |-> 0] /\ watcher = [d \in Daemons |-> "none"]
        /\ filters = {} /\ kills = 0

Go(d, to) == phase' = [phase EXCEPT ![d] = to]

(* The process is gone: its listener and its queue with it, its socket     *)
(* file not.                                                               *)
Ends(d, file) == /\ Go(d, "off") /\ path' = file
                 /\ queue' = [queue EXCEPT ![d] = <<>>]
                 /\ pieces' = [pieces EXCEPT ![d] = 0]
                 /\ watcher' = [watcher EXCEPT ![d] = "none"]
Left(d) == IF path = d THEN STALE ELSE path

Rest == UNCHANGED <<queue, pieces, watcher, kills>>

-----------------------------------------------------------------------------
Start(d) == /\ phase[d] = "off" /\ \A e \in Daemons : phase[e] = "off"
            /\ Go(d, "started") /\ UNCHANGED <<path, filters>> /\ Rest

(* prepare_socket_path: look, connect ...                                  *)
PrepareSocketPath(d) ==
  /\ phase[d] = "started"
  /\ \/ path = NONE /\ Go(d, "free") /\ UNCHANGED <<path, queue, pieces, watcher>>
     \/ /\ path # NONE /\ path \in Daemons /\ Listening(path)    \* owned by a running daemon
        /\ Ends(d, path)
     \/ /\ path # NONE /\ ~(path \in Daemons /\ Listening(path))
        /\ Go(d, "refused") /\ UNCHANGED <<path, queue, pieces, watcher>>
  /\ UNCHANGED <<filters, kills>>

(* ... and remove the file that refused, or whatever is there by now.      *)
RemoveStale(d) ==
  /\ phase[d] = "refused"
  /\ IF path = NONE THEN Ends(d, path)
     ELSE /\ path' = NONE /\ Go(d, "free") /\ UNCHANGED <<queue, pieces, watcher>>
  /\ UNCHANGED <<filters, kills>>

(* apply_rack_tuning may fail; start_policy and start_tc never do.         *)
StartSides(d) ==
  /\ phase[d] = "free"
  /\ \/ Go(d, "sides") /\ filters' = filters \cup {d}
        /\ UNCHANGED <<path, queue, pieces, watcher>>
     \/ Ends(d, path) /\ UNCHANGED filters
  /\ UNCHANGED kills

Bind(d) ==
  /\ phase[d] = "sides"
  /\ IF path # NONE THEN Ends(d, path) /\ filters' = filters \ {d}
     ELSE /\ Go(d, "bound") /\ path' = d
          /\ UNCHANGED <<filters, queue, pieces, watcher>>
  /\ UNCHANGED kills

(* persist_state, the guard's thread, and then the watcher: any may fail.  *)
Watch(d) ==
  /\ phase[d] = "bound"
  /\ \/ /\ Go(d, "accepting") /\ watcher' = [watcher EXCEPT ![d] = "armed"]
        /\ UNCHANGED <<path, filters, queue, pieces>>
     \/ Ends(d, Left(d)) /\ filters' = filters \ {d}
  /\ UNCHANGED kills

-----------------------------------------------------------------------------
(* Connections: clients, and the watcher's own with its Shutdown.          *)
Connect(c) == /\ path \in Daemons /\ Listening(path) /\ Len(queue[path]) < QueueMax
              /\ queue' = [queue EXCEPT ![path] = Append(@, c)]

Client == /\ Connect("client")
          /\ UNCHANGED <<path, phase, pieces, watcher, filters, kills>>

(* SIGTERM: the watcher's to handle once it is there, deadly before.       *)
Sigterm(d) == /\ phase[d] # "off"
              /\ \/ /\ watcher[d] = "none" /\ Ends(d, Left(d)) /\ UNCHANGED <<filters, kills>>
                 \/ /\ watcher[d] = "armed"
                    /\ watcher' = [watcher EXCEPT ![d] = "signalled"]
                    /\ UNCHANGED <<path, phase, queue, pieces, filters, kills>>

Notify(d) == /\ watcher[d] = "signalled"
             /\ \/ Connect("shutdown") /\ watcher' = [watcher EXCEPT ![d] = "notified"]
                \/ /\ ~(path \in Daemons /\ Listening(path))
                   /\ watcher' = [watcher EXCEPT ![d] = "failed"] /\ UNCHANGED queue
             /\ UNCHANGED <<path, phase, pieces, filters, kills>>

Accept(d) == /\ phase[d] = "accepting" /\ queue[d] # <<>>
             /\ Go(d, "reading")
             /\ UNCHANGED <<path, queue, pieces, watcher, filters, kills>>

(* read_request: the timeout is per read, and each read may bring a piece. *)
Piece(d) == /\ phase[d] = "reading" /\ Head(queue[d]) = "client"
            /\ pieces[d] < PiecesMax
            /\ pieces' = [pieces EXCEPT ![d] = @ + 1]
            /\ UNCHANGED <<path, phase, queue, watcher, filters, kills>>

(* slip: no read timeout.                                                  *)
ReadEndsNever(d) ==
  /\ phase[d] = "reading"
  /\ IF Head(queue[d]) = "client" THEN UNCHANGED vars
     ELSE /\ queue' = [queue EXCEPT ![d] = Tail(@)] /\ Go(d, "shutdown")
          /\ UNCHANGED <<path, pieces, watcher, filters, kills>>

(* The line, its end, the limit or the timeout: handle_stream then answers *)
(* and the loop goes on, unless it was the Shutdown.                       *)
ReadEnds(d) ==
  /\ phase[d] = "reading"
  /\ queue' = [queue EXCEPT ![d] = Tail(@)]
  /\ pieces' = [pieces EXCEPT ![d] = 0]
  /\ Go(d, IF Head(queue[d]) = "shutdown" THEN "shutdown" ELSE "accepting")
  /\ UNCHANGED <<path, watcher, filters, kills>>

(* The loop is over: the listener is closed, the file removed, and with    *)
(* the daemon everything it attached.                                      *)
CloseListener(d) == /\ phase[d] = "shutdown" /\ Go(d, "closed")
                    /\ queue' = [queue EXCEPT ![d] = <<>>]
                    /\ UNCHANGED <<path, pieces, watcher, filters, kills>>

RemoveSocket(d) == /\ phase[d] = "closed" /\ Go(d, "removed") /\ path' = NONE
                   /\ UNCHANGED filters /\ Rest

DropDaemon(d) == /\ phase[d] = "removed" /\ Ends(d, path)
                 /\ filters' = filters \ {d} /\ UNCHANGED kills

Kill(d) == /\ phase[d] # "off" /\ kills < KillsMax /\ kills' = kills + 1
           /\ Ends(d, Left(d)) /\ UNCHANGED filters

Run(d) == \/ PrepareSocketPath(d) \/ RemoveStale(d) \/ StartSides(d) \/ Bind(d) \/ Watch(d)
          \/ Accept(d) \/ ReadEnds(d)
          \/ CloseListener(d) \/ RemoveSocket(d) \/ DropDaemon(d)

Next == \/ Client
        \/ \E d \in Daemons : Start(d) \/ Sigterm(d) \/ Notify(d) \/ Piece(d) \/ Kill(d) \/ Run(d)

Spec == Init /\ [][Next]_vars

(* The daemon's threads run and the read timeout fires.  A connection that *)
(* waits for a place in the backlog gets one.                              *)
LiveSpec == Spec /\ \A d \in Daemons : WF_vars(Run(d)) /\ SF_vars(Notify(d))
                                       /\ WF_vars(ReadEnds(d))

-----------------------------------------------------------------------------
(* The path is free when bind() is called, whatever file kills and failed  *)
(* starts left behind.                                                     *)
PathIsFree == \A d \in Daemons : phase[d] = "sides" => path = NONE

(* A signal that reached the watcher stops the daemon, however many stalled *)
(* clients are served before it.                                           *)
StopsOnSignal == \A d \in Daemons : (watcher[d] = "signalled") ~> (phase[d] = "off")

(* Once the watcher is there only a kill ends the daemon without its       *)
(* cleanup, and a stop that was not killed leaves no TC filters.           *)
StopCleansUp ==
  [][\A d \in Daemons :
       /\ Listening(d) /\ watcher[d] # "none" => phase'[d] # "off" \/ kills' # kills
       /\ phase[d] = "removed" /\ phase'[d] = "off" /\ kills' = kills => d \notin filters']_vars

(* A signal stops the daemon in bounded steps, the stop cleans up, and the *)
(* next daemon can bind.                                                   *)
StopsCleanly == []PathIsFree /\ StopCleansUp /\ StopsOnSignal
=============================================================================
