---------------------------- MODULE ErrorReports ----------------------------
(***************************************************************************)
(* Error reports: the daemon records what it stops on, or a thread panics  *)
(* on, as files (reports.rs); the next ssctl on a terminal asks about them *)
(* after its own command, and sends or removes them (feedback.rs, and run  *)
(* in ssctl's main.rs).  Recorders and ssctl share only the directory.     *)
(*                                                                         *)
(* A failure is its fingerprint.  A report is written to a staged file and *)
(* renamed; files are inodes, so that a handle keeps writing to the inode  *)
(* it opened wherever that is renamed to.  A report's text is its count,   *)
(* its length (the digits in a message vary) and, when two writes overlap, *)
(* no JSON any more.                                                       *)
(***************************************************************************)
EXTENDS Naturals, FiniteSets, Sequences, SequencesExt

CONSTANTS Failures,   \* fingerprints
          Threads,    \* daemon threads that may record at the same time
          DAEMON_REPORTS_MAX,
          CountMax,   \* bound on a report's count
          Inodes,     \* enough for every file at once
          None

VARIABLES final,    \* [Failures -> inode at <fingerprint>.json, or None]
          staged,   \* [Failures -> inode at <fingerprint>.tmp, or None]
          text,     \* [Inodes -> contents]
          rec,      \* [Threads -> where a recorder is]
          ask       \* the running ssctl

vars == <<final, staged, text, rec, ask>>

EmptyText == [count |-> 0, len |-> 0, whole |-> FALSE]
Idle == [at |-> "idle", failure |-> None, report |-> EmptyText, inode |-> None]
NoSsctl == [at |-> "off", mode |-> "Never", error |-> FALSE, events |-> <<>>, seen |-> {},
            yes |-> FALSE, failed |-> FALSE]

Readable(f) == final[f] # None /\ text[final[f]].whole
Recorded == {f \in Failures : Readable(f)}
Waiting == {f \in Failures : final[f] # None}

(* An inode nobody names or has open is gone.                              *)
Collect(fin, stg) ==
  text' = [i \in Inodes |->
             IF \/ \E f \in Failures : fin[f] = i \/ stg[f] = i
                \/ \E t \in Threads : rec'[t].inode = i THEN text[i] ELSE EmptyText]

Init == /\ final = [f \in Failures |-> None] /\ staged = [f \in Failures |-> None]
        /\ text = [i \in Inodes |-> EmptyText]
        /\ rec = [t \in Threads |-> Idle] /\ ask = NoSsctl

-----------------------------------------------------------------------------

(* record_in: add to the report there is, or make one unless there are too *)
(* many ...                                                                *)
Look(t) ==
  /\ rec[t].at = "idle"
  /\ \E f \in Failures, l \in {1, 2} :
       LET Report(n, len) == [Idle EXCEPT !.at = "stage", !.failure = f,
                              !.report = [count |-> n, len |-> len, whole |-> TRUE]]
       IN \/ /\ Readable(f) /\ text[final[f]].count < CountMax
             /\ rec' = [rec EXCEPT ![t] = Report(text[final[f]].count + 1, text[final[f]].len)]
          \/ /\ ~Readable(f) /\ Cardinality(Waiting) < DAEMON_REPORTS_MAX
             /\ rec' = [rec EXCEPT ![t] = Report(1, l)]
  /\ UNCHANGED <<final, staged, text, ask>>

(* slip: the report is written in place.                                   *)
StageInPlace(t) ==
  LET f == rec[t].failure
      used == {final[g] : g \in Failures}
      i == IF final[f] # None THEN final[f] ELSE CHOOSE j \in Inodes \ used : TRUE
  IN /\ rec[t].at = "stage"
     /\ final' = [final EXCEPT ![f] = i] /\ text' = [text EXCEPT ![i] = EmptyText]
     /\ rec' = [rec EXCEPT ![t].at = "write", ![t].inode = i]
     /\ UNCHANGED <<staged, ask>>

(* ... open the staged file, emptying one that is there ...                *)
Stage(t) ==
  LET f == rec[t].failure
      used == {final[g] : g \in Failures} \cup {staged[g] : g \in Failures}
              \cup {rec[u].inode : u \in Threads}
      i == IF staged[f] # None THEN staged[f] ELSE CHOOSE j \in Inodes \ used : TRUE
  IN /\ rec[t].at = "stage"
     /\ staged' = [staged EXCEPT ![f] = i] /\ text' = [text EXCEPT ![i] = EmptyText]
     /\ rec' = [rec EXCEPT ![t].at = "write", ![t].inode = i]
     /\ UNCHANGED <<final, ask>>

(* ... write it, over what another recorder may have written from the same *)
(* start ...                                                               *)
Write(t) ==
  LET old == text[rec[t].inode]
      new == rec[t].report
  IN /\ rec[t].at = "write"
     /\ text' = [text EXCEPT ![rec[t].inode] =
                   IF old.len <= new.len THEN new ELSE [old EXCEPT !.whole = FALSE]]
     /\ rec' = [rec EXCEPT ![t].at = "rename"]
     /\ UNCHANGED <<final, staged, ask>>

(* ... and give it its name.                                               *)
Rename(t) ==
  LET f == rec[t].failure
  IN /\ rec[t].at = "rename"
     /\ IF staged[f] = None THEN UNCHANGED <<final, staged>>      \* only said on stderr
        ELSE final' = [final EXCEPT ![f] = staged[f]] /\ staged' = [staged EXCEPT ![f] = None]
     /\ rec' = [rec EXCEPT ![t] = Idle]
     /\ Collect(final', staged')
     /\ UNCHANGED ask

-----------------------------------------------------------------------------
(* Feedback::detect                                                        *)
Detect(root, answer, json, terminal) ==
  CASE ~root -> "Never"
    [] root /\ answer = "yes" -> "Send"
    [] root /\ answer = "no" -> "Never"
    [] root /\ answer = "" /\ (json \/ ~terminal) -> "Never"
    [] OTHER -> "Ask"

(* run and main: how the command ended decides whether its own error is    *)
(* worth a report.                                                         *)
WorthReporting(outcome, serviceFailed) ==
  \/ outcome \in {"enable refused", "undecodable reply"}
  \/ outcome = "unreachable" /\ (serviceFailed \/ Recorded # {})

Ssctl ==
  /\ ask.at = "off"
  /\ \E root, json, terminal, serviceFailed \in BOOLEAN, answer \in {"", "yes", "no"},
        outcome \in {"ok", "refused", "enable refused", "undecodable reply", "unreachable"} :
       LET mode == Detect(root, answer, json, terminal)
       IN /\ mode # "Never"
          /\ ask' = [NoSsctl EXCEPT !.at = "offer", !.mode = mode,
                                    !.error = WorthReporting(outcome, serviceFailed)]
  /\ UNCHANGED <<final, staged, text, rec>>

(* offer: the events, the error's own first; there may be nothing to send, *)
(* or nobody to ask on /dev/tty.                                           *)
Offer ==
  /\ ask.at = "offer"
  /\ \/ ((~ask.error /\ Recorded = {}) \/ ask.mode = "Ask") /\ ask' = NoSsctl
     \/ /\ ask.error \/ Recorded # {}
        /\ ask' = [ask EXCEPT !.at = IF ask.mode = "Ask" THEN "asked" ELSE "sending",
                                !.yes = (ask.mode = "Send"),
                                !.seen = Recorded,
                                !.events = (IF ask.error THEN <<None>> ELSE <<>>)
                                           \o SetToSeq(Recorded)]
  /\ UNCHANGED <<final, staged, text, rec>>

(* y sends; v shows them and asks again; anything else, the timeout and    *)
(* the end of the terminal included, is a no and removes them.             *)
Answer ==
  /\ ask.at = "asked"
  /\ \/ ask' = [ask EXCEPT !.at = "sending", !.yes = TRUE] /\ UNCHANGED final
     \/ /\ final' = [f \in Failures |-> IF f \in ask.seen THEN None ELSE final[f]]
        /\ ask' = NoSsctl
  /\ UNCHANGED <<staged, rec>>
  /\ Collect(final', staged)

(* Each is removed once it is sent; the first that cannot be ends it.      *)
Send ==
  /\ ask.at = "sending"
  /\ \/ /\ ask.events = <<>> /\ ask' = NoSsctl /\ UNCHANGED final
     \/ /\ ask.events # <<>>
        /\ LET f == Head(ask.events)
           IN final' = IF f = None THEN final ELSE [final EXCEPT ![f] = None]
        /\ ask' = [ask EXCEPT !.events = Tail(@)]
     \/ /\ ask.events # <<>> /\ ask' = [NoSsctl EXCEPT !.failed = TRUE] /\ UNCHANGED final
  /\ UNCHANGED <<staged, rec>>
  /\ Collect(final', staged)

Next == \/ \E t \in Threads : Look(t) \/ Stage(t) \/ Write(t) \/ Rename(t)
        \/ Ssctl \/ Offer \/ Answer \/ Send
Spec == Init /\ [][Next]_vars

-----------------------------------------------------------------------------
(* The directory never holds more than the limit, and one more for every   *)
(* other thread that looked at the same moment.                            *)
ReportsBounded == Cardinality(Waiting) <= DAEMON_REPORTS_MAX + Cardinality(Threads) - 1

(* A report disappears only because its own send succeeded or the operator *)
(* said no to a question that covered it; after a failed send, it and the  *)
(* ones behind it are still there, for the next ssctl.                     *)
RemovedOnlyWhenAnswered ==
  [][/\ \A f \in Failures :
          final[f] # None /\ final'[f] = None =>
            /\ f \in ask.seen
            /\ \/ ask.at = "asked"
               \/ ask.at = "sending" /\ ask.yes /\ Head(ask.events) = f
     /\ ask'.failed /\ ask.at = "sending" => final' = final]_vars

(* Nothing is sent that nobody agreed to send: neither to a question nor   *)
(* in advance.                                                             *)
SentOnlyOnYes == ask.at = "sending" => ask.yes

(* reports.rs:85: "A whole file or none: ssctl may be reading the          *)
(* directory right now."                                                   *)
WholeFileOrNone == \A f \in Failures : final[f] # None => text[final[f]].whole

(* A report is whole, is kept until its own answer and leaves the host     *)
(* only on a yes, and the directory stays within its limit, with ssctl and *)
(* the daemon at work on it at the same time.                              *)
ReportsKept == /\ [](ReportsBounded /\ SentOnlyOnYes /\ WholeFileOrNone)
               /\ RemovedOnlyWhenAnswered
=============================================================================
