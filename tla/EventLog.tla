------------------------------ MODULE EventLog ------------------------------
(***************************************************************************)
(* EventLog (main.rs): the capped file behind runtime.events_path, with    *)
(* its one rotated predecessor.  Renames, opens and writes may fail, a     *)
(* failed write may leave part of the line, an operator truncates or       *)
(* deletes the file under the open handle, and the daemon restarts.        *)
(*                                                                         *)
(* A file is its size and the lines in it, numbered as they are written.   *)
(***************************************************************************)
EXTENDS Integers, Sequences

CONSTANTS MaxBytes,   \* runtime.events_max_bytes
          LineSizes,  \* lengths of event lines
          LineMax,    \* the longest
          LinesMax,   \* bound on the lines written
          TornMax,    \* bound on the bytes failed writes leave
          NoFile

ASSUME EventLogAssumption ==
  /\ MaxBytes \in Nat /\ LineMax \in Nat /\ LinesMax \in Nat /\ TornMax \in Nat
  /\ LineSizes \subseteq Nat /\ \A n \in LineSizes : n > 0 /\ n <= LineMax

VARIABLES handle,   \* the file behind EventLog::file
          where,    \* what names it: "path", "rotated" or "unlinked"
          rotated,  \* the file at events_path.1 when that is not the handle's
          len,      \* EventLog::len
          lines,    \* history: lines written so far
          torn,     \* history: bytes left by failed writes
          tampered  \* history: somebody truncated or deleted the file

vars == <<handle, where, rotated, len, lines, torn, tampered>>

Empty == [size |-> 0, text |-> <<>>]
Size(f) == IF f = NoFile THEN 0 ELSE f.size

Init == /\ handle = Empty /\ where = "path" /\ rotated = NoFile /\ len = 0
        /\ lines = 0 /\ torn = 0 /\ tampered = FALSE

-----------------------------------------------------------------------------
(* append's last part, on file f with l bytes accounted for: write_all.    *)
WriteAll(f, l, n) ==
  \/ /\ lines < LinesMax
     /\ lines' = lines + 1
     /\ handle' = [size |-> f.size + n, text |-> Append(f.text, lines + 1)]
     /\ len' = l + n
     /\ UNCHANGED torn
  \/ \E k \in 0..n - 1 :
       /\ torn + k <= TornMax
       /\ torn' = torn + k
       /\ handle' = [f EXCEPT !.size = @ + k]
       /\ len' = l /\ UNCHANGED lines

(* slip: the line that reaches the cap still goes in.                      *)
RotatesLate(n) == handle.size > MaxBytes

(* The file is full: more than the cap by our count, and by its real size, *)
(* which is read again before anything is moved.                           *)
Rotates(n) == /\ len + n > MaxBytes
              /\ handle.size > 0 /\ handle.size + n > MaxBytes

(* Accounted bytes after that look.                                        *)
Seen(n) == IF len + n > MaxBytes THEN handle.size ELSE len

AppendInPlace(n) == /\ ~Rotates(n)
                    /\ WriteAll(handle, Seen(n), n)
                    /\ UNCHANGED <<where, rotated, tampered>>

(* rotate(): the rename fails, and the line is dropped ...                 *)
RenameFails(n) == /\ Rotates(n) /\ where = "path"
                  /\ len' = Seen(n)
                  /\ UNCHANGED <<handle, where, rotated, lines, torn, tampered>>

(* ... or the rename works (or there is nothing to rename) but the new     *)
(* file cannot be opened, and the old handle stays ...                     *)
ReopenFails(n) == /\ Rotates(n)
                  /\ len' = Seen(n)
                  /\ where' = IF where = "path" THEN "rotated" ELSE where
                  /\ rotated' = IF where = "path" THEN NoFile ELSE rotated
                  /\ UNCHANGED <<handle, lines, torn, tampered>>

(* slip: the line goes to the file that was just closed.                   *)
RotateLoses(n) == /\ Rotates(n)
                  /\ rotated' = IF where = "unlinked" THEN rotated ELSE handle
                  /\ where' = "path" /\ handle' = Empty /\ len' = 0
                  /\ lines < LinesMax /\ lines' = lines + 1
                  /\ UNCHANGED <<torn, tampered>>

(* ... or both work, and the line starts the new file.                     *)
Rotate(n) == /\ Rotates(n)
             /\ rotated' = IF where = "unlinked" THEN rotated ELSE handle
             /\ where' = "path"
             /\ WriteAll(Empty, 0, n)
             /\ UNCHANGED tampered

-----------------------------------------------------------------------------
(* An operator, and a restart: open() takes the file at the path as it is. *)
Truncate == /\ where = "path" /\ handle' = Empty /\ tampered' = TRUE
            /\ UNCHANGED <<where, rotated, len, lines, torn>>
Delete == /\ where = "path" /\ where' = "unlinked" /\ tampered' = TRUE
          /\ UNCHANGED <<handle, rotated, len, lines, torn>>
Restart == /\ \/ /\ where = "path" /\ len' = handle.size
                 /\ UNCHANGED <<handle, rotated, where>>
              \/ /\ where # "path" /\ where' = "path"
                 /\ handle' = Empty /\ len' = 0
                 /\ rotated' = IF where = "rotated" THEN handle ELSE rotated
           /\ UNCHANGED <<lines, torn, tampered>>

Next == \/ \E n \in LineSizes : \/ AppendInPlace(n) \/ RenameFails(n)
                                \/ ReopenFails(n) \/ Rotate(n)
        \/ Truncate \/ Delete \/ Restart

Spec == Init /\ [][Next]_vars

-----------------------------------------------------------------------------
File == [size : Nat, text : Seq(Nat)]

(* Types.                                                                  *)
TypeOK == /\ handle \in File
          /\ where \in {"path", "rotated", "unlinked"}
          /\ rotated = NoFile \/ rotated \in File
          /\ where = "rotated" => rotated = NoFile
          /\ len \in Nat /\ lines \in Nat /\ torn \in Nat /\ tampered \in BOOLEAN

(* The comment on EventLog: at most about 2 * max_bytes is ever held, with *)
(* files that were deleted but are still open counted.  A cap smaller than *)
(* a line holds one line; torn lines are what "about" stands for.          *)
Cap == IF MaxBytes > LineMax THEN MaxBytes ELSE LineMax
SpaceBounded == Size(handle) + Size(rotated) <= 2 * (Cap + torn)

(* What a reader of events_path.1 and then events_path finds, if nobody    *)
(* tampered, is the most recent lines with none missing, none twice and in *)
(* order: infra/snapshot-skyline-events.sh reads across one rotation.      *)
Readable == LET before == IF rotated = NoFile THEN <<>> ELSE rotated.text
            IN before \o handle.text
RecentLinesComplete ==
  ~tampered => LET n == Len(Readable)
               IN /\ n <= lines
                  /\ \A i \in 1..n : Readable[i] = lines - n + i

(* A file that was emptied in place is not rotated away: the previous one, *)
(* with the lines before it, survives until the file is really full.       *)
RotatesOnlyFull ==
  [][rotated' # rotated /\ rotated' # NoFile =>
       rotated'.size > 0 /\ rotated'.size + LineMax > MaxBytes]_vars

(* The log can be read across one rotation, and rotates no sooner.         *)
LogReadable == [](TypeOK /\ RecentLinesComplete) /\ RotatesOnlyFull
=============================================================================
