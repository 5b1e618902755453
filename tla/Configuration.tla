--------------------------- MODULE Configuration ----------------------------
(***************************************************************************)
(* The configuration and its ways in: the file the daemon starts from      *)
(* (ConfigFile), the requests whoever makes them (ConfigRequests), and the *)
(* command lines of ssctl where nobody else makes any (SsctlClient).  A    *)
(* behaviour is one of a single part, while the others rest.               *)
(***************************************************************************)
EXTENDS SsctlClient

CONSTANTS Required, Defaulted, Optional, Texts   \* ConfigFile

VARIABLES part,
          text, outcome, parsed, unknown

F == INSTANCE ConfigFile WITH Files <- Texts, file <- text, config <- parsed

ASSUME TomlAssumption == F!FileAssumption

toml == <<text, outcome, parsed, unknown>>
clients == <<up, queue, client, accepted, crashes>>
parts == <<part, daemon, clients, toml>>

AInit == /\ Invoked /\ F!Init
         /\ \/ part = "requests" /\ Init
            \/ part \in {"clients", "file"} /\ CInit

ANext == /\ UNCHANGED part
         /\ \/ part = "requests" /\ Next /\ UNCHANGED <<clients, toml>>
            \/ part = "clients" /\ CNext /\ UNCHANGED toml
            \/ part = "file" /\ F!Load /\ UNCHANGED <<daemon, clients>>

ASpec == AInit /\ [][ANext]_parts

(* SsctlClient: where only ssctl makes requests, each section of the       *)
(* configuration is the file's or what one command line says, never a mix; *)
(* and bare commands are accepted and a request sent is one JSON carries.  *)
ClientsMixNothing == part = "clients" => CommandsWhole

(* ConfigFile: a file is in force key by key as written, or is refused     *)
(* with everything that is wrong with its keys said.                       *)
ReadsWhatIsWritten == F!ReadsWhatIsWritten
=============================================================================
