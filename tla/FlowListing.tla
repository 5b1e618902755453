---------------------------- MODULE FlowListing -----------------------------
(***************************************************************************)
(* The connections `flows` reports (flows.rs): ss -tin is run, what it     *)
(* prints is read line by line, and the connections on skyline_cc are      *)
(* counted, sorted and cut to FLOW_ROWS_MAX.                               *)
(*                                                                         *)
(* A line is blank, a header, a summary (a socket), broken (fewer than     *)
(* five fields) or a continuation with some tokens of the detail of the    *)
(* socket above; ss breaks a detail into lines where it likes.  A token is *)
(* a congestion control, a counter with its value, or a rate's name whose  *)
(* value is the token after it.                                            *)
(***************************************************************************)
EXTENDS Naturals, Sequences, SequencesExt

CONSTANTS Sockets,       \* the connections ss may print
          Detail,        \* [Sockets -> the tokens of its -i detail]
          FLOW_ROWS_MAX,
          LinesMax,      \* bound on lines
          SkylineCc      \* the congestion control asked for

VARIABLES printed,  \* history: the sockets printed so far
          rest,     \* ss: what is left of the detail of the last socket
          lines,    \* lines printed
          current,  \* <<>>, or the socket above and its detail as read
          report,   \* the FlowReport
          malformed,
          done

vars == <<printed, rest, lines, current, report, malformed, done>>

EmptyReport == [accelerated |-> <<>>, tcp_total |-> 0, on_skyline_cc |-> 0,
                truncated |-> 0, source_error |-> FALSE]

Init == /\ printed = {} /\ rest = <<>> /\ lines = 0
        /\ current = <<>> /\ report = EmptyReport /\ malformed = 0 /\ done = FALSE

-----------------------------------------------------------------------------
Counter(key, tokens) ==     \* the last one counts; none, or one that does not parse, is 0
  LET at == {i \in DOMAIN tokens : tokens[i][1] = key}
  IN  IF at = {} THEN 0 ELSE tokens[CHOOSE i \in at : \A j \in at : j <= i][2]

Rate(key, tokens) ==        \* the value is the token after the name, if it is a rate
  LET at == {i \in DOMAIN tokens : tokens[i][1] = key}
      i == CHOOSE n \in at : \A j \in at : j <= n
  IN  IF at = {} \/ i = Len(tokens) \/ tokens[i + 1][1] # "rate" THEN 0 ELSE tokens[i + 1][2]

ApplyInfo(socket, tokens) ==
  [socket |-> socket, bytes_sent |-> Counter("bytes_sent", tokens),
   pacing |-> Rate("pacing_rate", tokens)]

(* finish: files the socket above if its detail names the algorithm.       *)
Finish(r) ==
  IF current = <<>> \/ <<"cc", SkylineCc>> \notin Range(current[2]) THEN r
  ELSE [r EXCEPT !.on_skyline_cc = @ + 1,
                 !.accelerated = Append(@, ApplyInfo(current[1], current[2]))]

Reads == /\ ~done /\ lines < LinesMax
         /\ lines' = lines + 1 /\ done' = done

-----------------------------------------------------------------------------
(* parse, one line at a time.                                              *)
Blank == Reads /\ UNCHANGED <<printed, rest, current, report, malformed>>

Continuation ==
  /\ Reads /\ rest # <<>>
  /\ \E n \in 1..Len(rest) :
       /\ rest' = SubSeq(rest, n + 1, Len(rest))
       /\ current' = IF current = <<>> THEN current
                     ELSE <<current[1], current[2] \o SubSeq(rest, 1, n)>>
  /\ UNCHANGED <<printed, report, malformed>>

(* slip: the socket above is kept for the lines below a broken one.        *)
BrokenKeepsCurrent(socket) ==
  /\ Reads /\ rest = <<>> /\ socket \notin printed
  /\ malformed' = malformed + 1
  /\ rest' = Detail[socket]
  /\ UNCHANGED <<printed, current, report>>

(* A summary that does not have five fields, and its detail below it.      *)
Broken(socket) ==
  /\ Reads /\ rest = <<>> /\ socket \notin printed
  /\ report' = Finish(report) /\ current' = <<>>
  /\ malformed' = malformed + 1
  /\ rest' = Detail[socket]
  /\ UNCHANGED printed

Header ==
  /\ Reads /\ rest = <<>> /\ lines = 0
  /\ report' = Finish(report) /\ current' = <<>>
  /\ UNCHANGED <<printed, rest, malformed>>

Summary(socket) ==
  /\ Reads /\ rest = <<>> /\ socket \notin printed
  /\ report' = [Finish(report) EXCEPT !.tcp_total = @ + 1]
  /\ current' = <<socket, <<>>>>
  /\ rest' = Detail[socket] /\ printed' = printed \cup {socket}
  /\ UNCHANGED malformed

ByBytesSent(a, b) == a.bytes_sent > b.bytes_sent

Limit(rows) == IF Len(rows) > FLOW_ROWS_MAX THEN SubSeq(rows, 1, FLOW_ROWS_MAX) ELSE rows

(* The end of parse: sorted by bytes sent, then cut.                       *)
Cut(r) ==
  [r EXCEPT !.accelerated = Limit(SortSeq(@, ByBytesSent)),
            !.truncated = IF Len(r.accelerated) > FLOW_ROWS_MAX
                          THEN Len(r.accelerated) - FLOW_ROWS_MAX ELSE 0]

EndOfOutput ==
  /\ ~done /\ rest = <<>>
  /\ done' = TRUE /\ current' = <<>>
  /\ report' = [Cut(Finish(report)) EXCEPT
                  !.source_error = report.tcp_total = 0 /\ malformed > 0]
  /\ UNCHANGED <<printed, rest, lines, malformed>>

(* ss is missing, or was killed at its timeout: what it printed is lost.   *)
Failed ==
  /\ ~done
  /\ done' = TRUE /\ current' = <<>> /\ rest' = <<>>
  /\ report' = [EmptyReport EXCEPT !.source_error = TRUE]
  /\ UNCHANGED <<printed, lines, malformed>>

Next == \/ Blank \/ Continuation \/ Header \/ EndOfOutput \/ Failed
        \/ \E socket \in Sockets : Summary(socket) \/ Broken(socket)

Spec == Init /\ [][Next]_vars

-----------------------------------------------------------------------------
On(socket) == <<"cc", SkylineCc>> \in Range(Detail[socket])

(* The counts are exact, however ss breaks its lines and however many rows *)
(* the cap leaves out, of the sockets whose summary could be read.         *)
CountsExact ==
  done /\ ~report.source_error =>
    /\ report.tcp_total = Cardinality(printed)
    /\ report.on_skyline_cc = Cardinality({s \in printed : On(s)})
    /\ Len(report.accelerated) + report.truncated = report.on_skyline_cc
    /\ Len(report.accelerated) <= FLOW_ROWS_MAX

(* The rows are the busiest connections, most bytes sent first, and each   *)
(* row has its own socket's numbers.                                       *)
BusiestFirst ==
  done /\ ~report.source_error =>
    LET rows == report.accelerated
    IN  /\ \A i \in DOMAIN rows : rows[i] = ApplyInfo(rows[i].socket, Detail[rows[i].socket])
        /\ \A i, j \in DOMAIN rows : i < j => rows[i].bytes_sent >= rows[j].bytes_sent
        /\ \A s \in printed : On(s) /\ (\A i \in DOMAIN rows : rows[i].socket # s)
             => \A i \in DOMAIN rows :
                  rows[i].bytes_sent >= ApplyInfo(s, Detail[s]).bytes_sent

(* The listing is exact: its counts, and the rows it shows.                *)
ListingExact == CountsExact /\ BusiestFirst
=============================================================================
