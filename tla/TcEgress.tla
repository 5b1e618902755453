------------------------------ MODULE TcEgress ------------------------------
(***************************************************************************)
(* skyline_tc.bpf.c: the egress hook, for the packets of one connection.   *)
(* The connection sends, resends and is acknowledged over a stream longer  *)
(* than its sequence space; each packet's pass marks it when it is a       *)
(* retransmission and clones it when it starts early in the stream, while  *)
(* the daemon overwrites the two configuration slots field by field.       *)
(* Stream positions are true ones: 0 is the SYN, data starts at 1.         *)
(***************************************************************************)
EXTENDS Naturals, Sequences, SequencesExt, FiniteSetsExt

CONSTANTS SeqSpace,   \* 2^32
          Isn,        \* initial sequence numbers
          Window,     \* most bytes in flight
          StreamMax,  \* bound on the stream
          Dscp,       \* retransmit_dscp configurations
          Redundancy, \* redundancy configurations
          Chain,      \* IPv6 extension headers of a packet: [walked, size]
          MaxHeaders, \* SKYLINE_IPV6_MAX_EXT_HDRS
          MaxBytes    \* SKYLINE_IPV6_MAX_EXT_BYTES

SpaceAssumption == Window < SeqSpace \div 2

VARIABLES tcp,    \* the socket: isn, cc, una, nxt, open (active or passive)
          dscp,   \* retransmit_dscp_config[0]
          red,    \* redundancy_config[0]
          todo,   \* fields of a map update still to be copied
          pass,   \* the packet in the hook
          at,     \* the hook's next load of a configuration, or "idle"
          queue   \* packets the socket has sent that wait for the neighbour

vars == <<tcp, dscp, red, todo, pass, at, queue>>

Wire(x) == (tcp.isn + x) % SeqSpace
Minus(a, b) == (a + SeqSpace - b) % SeqSpace                \* __u32 subtraction
Positive(a, b) == Minus(a, b) \in 1 .. (SeqSpace \div 2) - 1 \* (__s32)(a - b) > 0

NoMark == 64   \* no DSCP value: the field has six bits
NoPacket == [kind |-> "none"]

Init == /\ \E i \in Isn, c \in {"skyline_cc", "cubic"}, o \in {"active", "passive"} :
             tcp = [isn |-> i, cc |-> c, una |-> 0, nxt |-> 0, open |-> o]
        /\ dscp = [enabled |-> FALSE, dscp_value |-> 0]
        /\ \E r \in Redundancy : red = [r EXCEPT !.enabled = FALSE]
        /\ todo = <<>> /\ pass = NoPacket /\ at = "idle" /\ queue = {}

-----------------------------------------------------------------------------
(* The daemon: a map update, copied field by field in address order.       *)
SetRetransmitDscp == /\ todo = <<>>
                     /\ \E c \in Dscp : todo' = <<<<"enabled", c.enabled>>, <<"dscp_value", c.dscp_value>>>>
                     /\ UNCHANGED <<tcp, dscp, red, pass, at, queue>>

SetRedundancy == /\ todo = <<>>
                 /\ \E r \in Redundancy : todo' = <<<<"red_enabled", r.enabled>>, <<"bytes", r.bytes>>,
                                                    <<"delay_us", r.delay_us>>>>
                 /\ UNCHANGED <<tcp, dscp, red, pass, at, queue>>

WriteField ==
  /\ todo # <<>> /\ todo' = Tail(todo)
  /\ LET f == Head(todo)[1]
         v == Head(todo)[2]
     IN \/ f = "enabled" /\ dscp' = [dscp EXCEPT !.enabled = v] /\ red' = red
        \/ f = "dscp_value" /\ dscp' = [dscp EXCEPT !.dscp_value = v] /\ red' = red
        \/ f = "red_enabled" /\ red' = [red EXCEPT !.enabled = v] /\ dscp' = dscp
        \/ f = "bytes" /\ red' = [red EXCEPT !.bytes = v] /\ dscp' = dscp
        \/ f = "delay_us" /\ red' = [red EXCEPT !.delay_us = v] /\ dscp' = dscp
  /\ UNCHANGED <<tcp, pass, at, queue>>

-----------------------------------------------------------------------------
(* The kernel's TCP, as the hook sees it: a packet passes the hook before  *)
(* snd_nxt covers it, unless it is held back for the neighbour's address.  *)
(* A packet holds its true place in the stream, whether all of it was sent *)
(* before and whether it was held; the hook reads none of these.           *)
Packet(kind, start, payload, exts) ==
  [kind |-> kind, start |-> start, payload |-> payload, exts |-> exts,
   again |-> start < tcp.nxt, held |-> FALSE, sent |-> Max({tcp.nxt, start + payload + (IF payload = 0 THEN 1 ELSE 0)}),
   dscp_on |-> FALSE, mark |-> NoMark, red_on |-> FALSE, limit |-> 0, delay |-> 0,
   copy |-> "none", copy_mark |-> NoMark, bailouts |-> 0]

Emit(p) == /\ at = "idle" /\ queue = {}
           /\ at' = "dscp" /\ pass' = p
           /\ UNCHANGED <<tcp, dscp, red, todo, queue>>

(* A SYN-ACK carries the request socket, a SYN the connection's own.       *)
Handshake == /\ tcp.una = 0
             /\ Emit(Packet(IF tcp.open = "active" THEN "syn" ELSE "synack", 0, 0, <<>>))
SendData == /\ tcp.una > 0
            /\ \E n \in 1 .. 2, e \in Chain :
                 /\ tcp.nxt + n - tcp.una <= Window /\ tcp.nxt + n <= StreamMax
                 /\ Emit(Packet("data", tcp.nxt, n, e))
Resend == /\ tcp.una > 0
          /\ \E s \in tcp.una .. tcp.nxt, n \in 1 .. 2, e \in Chain :
               s + n <= tcp.nxt /\ Emit(Packet("data", s, n, e))
PureAck == tcp.una > 0 /\ Emit([Packet("ack", tcp.nxt, 0, <<>>) EXCEPT !.sent = tcp.nxt])

AckArrives == /\ at = "idle"
              /\ \E u \in tcp.una + 1 .. tcp.nxt : /\ \A p \in queue : u <= p.start
                                                  /\ tcp' = [tcp EXCEPT !.una = u]
              /\ UNCHANGED <<dscp, red, todo, pass, at, queue>>

(* bytes_acked: what acknowledgements have covered, the SYN of an active   *)
(* open included.                                                          *)
BytesAcked == IF tcp.open = "active" THEN tcp.una ELSE Max({tcp.una, 1}) - 1

-----------------------------------------------------------------------------
(* skyline_parse_ipv6 (and skyline_parse_ipv4, for the empty chain): the   *)
(* place of the TCP header past the fixed headers, or NotPlaced.           *)
NotPlaced == 10000
WalkOver(exts) ==
  FoldLeft(LAMBDA off, h : IF off = NotPlaced \/ ~h.walked \/ off + h.size > MaxBytes
                           THEN NotPlaced ELSE off + h.size, 0, exts)

skyline_parse_ipv6(exts) == IF Len(exts) > MaxHeaders THEN NotPlaced ELSE WalkOver(exts)

(* skyline_is_retransmit: the payload is what skb->len leaves behind the   *)
(* headers; a request socket is not a full one.                            *)
(* slip: the two sequence numbers compared as plain integers.              *)
IsRetransmitPlain(p) ==
  LET seq == Wire(p.start)
      end == (seq + p.payload + (IF p.kind = "syn" THEN 1 ELSE 0)) % SeqSpace
  IN p.kind # "synack" /\ end # seq /\ end <= Wire(tcp.nxt)

skyline_is_retransmit(p) ==
  LET bytes == p.payload + FoldLeft(LAMBDA n, h : n + h.size, 0, p.exts)
      header == skyline_parse_ipv6(p.exts)
      payload == IF bytes > header THEN bytes - header ELSE 0
      seq == Wire(p.start)
      end == (seq + payload + (IF p.kind = "syn" THEN 1 ELSE 0)) % SeqSpace
  IN p.kind # "synack" /\ end # seq /\ ~Positive(end, Wire(tcp.nxt))

(* skyline_check_retransmit.                                               *)
CheckRetransmit ==
  /\ at = "dscp"
  /\ LET placed == skyline_parse_ipv6(pass.exts) # NotPlaced
     IN /\ pass' = [pass EXCEPT !.dscp_on = dscp.enabled,
                                !.bailouts = IF dscp.enabled /\ ~placed THEN 1 ELSE 0]
        /\ at' = IF dscp.enabled /\ placed /\ skyline_is_retransmit(pass) THEN "mark" ELSE "copy"
  /\ UNCHANGED <<tcp, dscp, red, todo, queue>>

(* The switch and the value are loaded again for the mark itself.          *)

MarkDscp == /\ at = "mark" /\ at' = "copy"
            /\ pass' = IF dscp.enabled THEN [pass EXCEPT !.mark = dscp.dscp_value]
                                       ELSE [pass EXCEPT !.dscp_on = FALSE]
            /\ UNCHANGED <<tcp, dscp, red, todo, queue>>

(* skyline_redundancy_duplicate.                                           *)
Offset(p) == BytesAcked + Minus(Wire(p.start), Wire(tcp.una))

Placed(p) == [ok |-> skyline_parse_ipv6(p.exts) # NotPlaced, bailouts |-> 0]

Candidate(p, limit) ==
  \/ p.kind = "synack"
  \/ /\ tcp.cc = "skyline_cc"
     /\ \/ p.kind = "syn"
        \/ p.kind = "data" /\ Offset(p) < limit

Duplicate ==
  /\ at = "copy"
  /\ LET seen == [pass EXCEPT !.red_on = red.enabled, !.limit = red.bytes, !.delay = red.delay_us,
                              !.bailouts = @ + (IF red.enabled THEN Placed(pass).bailouts ELSE 0)]
     IN IF red.enabled /\ Placed(pass).ok /\ Candidate(pass, red.bytes)
        THEN /\ at' = "clone"
             /\ pass' = seen
        ELSE at' = "out" /\ pass' = seen
  /\ UNCHANGED <<tcp, dscp, red, todo, queue>>

(* The clone passes the hook inside its original's pass, without a socket: *)
(* skyline_redundancy_copy stamps it and nothing else applies to it.       *)
CloneStamped(p) == [p EXCEPT !.copy = "sent", !.copy_mark = p.mark]

CloneRedirect == /\ at = "clone" /\ at' = "out"
                 /\ pass' \in {CloneStamped(pass), [pass EXCEPT !.copy = "failed"]}
                 /\ UNCHANGED <<tcp, dscp, red, todo, queue>>

(* The hook lets every packet go on, and TCP moves snd_nxt past it.        *)
Leave == /\ at = "out" /\ at' = "idle"
         /\ tcp' = [tcp EXCEPT !.nxt = pass.sent]
         /\ pass' = NoPacket
         /\ UNCHANGED <<dscp, red, todo, queue>>

(* While the neighbour's address is unknown the stack holds a packet back, *)
(* and snd_nxt moves past it before it meets the hook: nothing overtakes   *)
(* it, and no acknowledgement can cover it.                                *)
Defer == /\ tcp.una > 0 /\ queue = {} /\ at = "idle" /\ tcp.nxt + 1 - tcp.una <= Window
         /\ tcp.nxt + 1 <= StreamMax
         /\ queue' = {Packet("data", tcp.nxt, 1, <<>>)}
         /\ tcp' = [tcp EXCEPT !.nxt = @ + 1]
         /\ UNCHANGED <<dscp, red, todo, pass, at>>

Release == /\ at = "idle" /\ at' = "dscp"
           /\ \E p \in queue : /\ pass' = [p EXCEPT !.sent = tcp.nxt, !.held = TRUE]
                                /\ queue' = queue \ {p}
           /\ UNCHANGED <<tcp, dscp, red, todo>>

-----------------------------------------------------------------------------
Hook == CheckRetransmit \/ MarkDscp \/ Duplicate \/ CloneRedirect \/ Leave

Next == \/ SetRetransmitDscp \/ SetRedundancy \/ WriteField
        \/ Handshake \/ SendData \/ Resend \/ PureAck \/ AckArrives
        \/ Defer \/ Release \/ Hook

Spec == Init /\ [][Next]_vars

-----------------------------------------------------------------------------
TypeOK == /\ tcp.una \in 0 .. tcp.nxt /\ tcp.nxt \in 0 .. StreamMax
          /\ tcp.nxt - tcp.una <= Window
          /\ dscp.enabled \in BOOLEAN /\ red.enabled \in BOOLEAN
          /\ at \in {"idle", "dscp", "mark", "copy", "clone", "out"}
          /\ (at = "idle") = (pass = NoPacket)
          /\ at # "idle" => pass.mark \in 0 .. NoMark

(* Where the walk must succeed: at most MaxHeaders headers, all of them of *)
(* the kinds it knows, and MaxBytes at most.                               *)
Walkable(exts) == /\ Len(exts) <= MaxHeaders
                  /\ \A i \in DOMAIN exts : exts[i].walked
                  /\ FoldLeft(LAMBDA n, h : n + h.size, 0, exts) <= MaxBytes

(* While the feature is on, the packets marked are those that carry bytes  *)
(* sent before and those that were held back for the neighbour.            *)
MarkedIffResent ==
  pass.dscp_on =>
    (pass.mark # NoMark
       <=> /\ pass.again \/ pass.held
           /\ pass.kind \in {"syn", "data"} /\ Walkable(pass.exts))

(* While the feature is on, the packets copied are SYNs, SYN-ACKs and those *)
(* that start within the first `bytes` of the stream, of which the SYN of  *)
(* an active open is one.                                                  *)
StreamOffset(p) == p.start - (IF tcp.open = "active" THEN 0 ELSE 1)
CopiedIffEarly ==
  pass.red_on =>
    (pass.copy # "none"
       <=> /\ Walkable(pass.exts)
           /\ \/ pass.kind = "synack"
              \/ pass.kind = "syn" /\ tcp.cc = "skyline_cc"
              \/ pass.kind = "data" /\ tcp.cc = "skyline_cc" /\ StreamOffset(pass) < pass.limit)

(* A copy is its original, later: it carries the mark its original was     *)
(* given in the same pass, and leaves delay_us after it by some            *)
(* configuration that was published.                                       *)
CopyFollowsOriginal ==
  pass.copy = "sent" => /\ pass.copy_mark = pass.mark
                        /\ pass.delay \in {r.delay_us : r \in Redundancy}

(* A packet leaves the hook marked exactly when it is to be marked and     *)
(* copied, after itself, exactly when it is to be copied, wherever the     *)
(* sequence space wraps and however often the stream has gone round it;    *)
(* and one the IPv6 walk gives up on is counted once, however many         *)
(* features parsed it.                                                     *)
EgressExact ==
  /\ TypeOK
  /\ at = "out" => MarkedIffResent /\ CopiedIffEarly /\ CopyFollowsOriginal /\ pass.bailouts <= 1
=============================================================================
