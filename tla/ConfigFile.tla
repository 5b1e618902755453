----------------------------- MODULE ConfigFile -----------------------------
(***************************************************************************)
(* SkylineConfig::load (skyline-common): from the text of a configuration  *)
(* file to a configuration or to a refusal that says which keys are not    *)
(* the configuration's, and where they belong.  The file is the entries of *)
(* its TOML table: a key in a place, which is the top level or a table;    *)
(* serde's decoding is what the attributes of the structs say of each      *)
(* entry.  What a value is does not matter, only where it ends up: a       *)
(* field holds the file's value, its default, or, if it is an Option, none.*)
(***************************************************************************)
EXTENDS FiniteSets

CONSTANTS Required,    \* entries without a serde default
          Defaulted,   \* entries with one
          Optional,    \* Option entries, None unless written
          Files        \* the files, of File

Top == "top level"
Entries == Required \cup Defaulted \cup Optional
Tables == {e[1] : e \in Entries} \ {Top}
TopKeys == {e[2] : e \in {x \in Entries : x[1] = Top}}

(* What a TOML file can be: its headers, and values and tables in places   *)
(* that have one.                                                          *)
File == {f \in [values : SUBSET (STRING \X STRING), tables : SUBSET STRING,
                nested : SUBSET (STRING \X STRING)] :
           /\ Top \notin f.tables
           /\ \A e \in f.values : e[1] \in f.tables \cup {Top}
           /\ \A e \in f.nested : e[1] \in f.tables}

FileAssumption == /\ Required \cap Defaulted = {} /\ Tables \cap TopKeys = {}
                  /\ Entries \subseteq STRING \X STRING
                  /\ Files \subseteq File

VARIABLES file,     \* values, the tables with a header, and tables inside those
          outcome,  \* "none" yet, "config", "parse error", "unknown keys" or "invalid"
          config,   \* entry -> "file", "default" or "none"
          unknown   \* what the refusal says: place, key, whether a table, its homes

vars == <<file, outcome, config, unknown>>

Init == /\ file \in Files
        /\ outcome = "none" /\ config = <<>> /\ unknown = {}

-----------------------------------------------------------------------------
(* serde: a required field must be there, and a value is no table nor a    *)
(* table a value.  An unknown key is passed over.                          *)
Decodes(f) == /\ Required \subseteq f.values
              /\ \A e \in f.values : e[1] = Top => e[2] \notin Tables
              /\ f.tables \cap TopKeys = {}
              /\ f.nested \cap Entries = {}

Decoded(f) == [e \in Entries |-> IF e \in f.values THEN "file"
                                 ELSE IF e \in Optional THEN "none" ELSE "default"]

WithEveryKey(c) == [e \in Entries |-> IF c[e] = "none" THEN "default" ELSE c[e]]

(* toml::Value::try_from: the writer leaves a None out.                    *)
WrittenOut(c) == {e \in Entries : c[e] # "none"}

(* home_of: a key of the top level first, else of every other table that   *)
(* has it.                                                                 *)
HomeOf(known, key, notIn) ==
  IF notIn # Top /\ <<Top, key>> \in known THEN {Top}
  ELSE {t \in Tables \ {notIn} : <<t, key>> \in known}

(* unknown_keys: at the top level and in each table that is one of the     *)
(* configuration's; a table that is not is named and not walked.           *)
(* slip: a key is known wherever it stands.                                *)
UnknownKeysAnywhere(f, known) ==
  {[place |-> e[1], key |-> e[2], table |-> FALSE, homes |-> {}] :
     e \in {x \in f.values : \A k \in known : k[2] # x[2]}}
  \cup {[place |-> Top, key |-> t, table |-> TRUE, homes |-> {}] : t \in f.tables \ Tables}
UnknownKeys(f, known) ==
  {[place |-> e[1], key |-> e[2], table |-> FALSE, homes |-> HomeOf(known, e[2], e[1])] :
     e \in {x \in f.values \ known : x[1] \in Tables \cup {Top}}}
  \cup {[place |-> e[1], key |-> e[2], table |-> TRUE, homes |-> {}] :
          e \in {x \in f.nested : x[1] \in Tables}}
  \cup {[place |-> Top, key |-> t, table |-> TRUE, homes |-> {}] : t \in f.tables \ Tables}

(* load: from_toml, then validate, which may refuse what was decoded.      *)
Load == /\ outcome = "none"
        /\ LET c == Decoded(file)
               u == UnknownKeys(file, WrittenOut(WithEveryKey(c)))
           IN \/ /\ ~Decodes(file)
                 /\ outcome' = "parse error" /\ UNCHANGED <<config, unknown>>
              \/ /\ Decodes(file) /\ u # {}
                 /\ outcome' = "unknown keys" /\ unknown' = u /\ UNCHANGED config
              \/ /\ Decodes(file) /\ u = {}
                 /\ outcome' = "invalid" /\ UNCHANGED <<config, unknown>>
              \/ /\ Decodes(file) /\ u = {}
                 /\ outcome' = "config" /\ config' = c /\ UNCHANGED unknown
        /\ UNCHANGED file

Spec == Init /\ [][Load]_vars

-----------------------------------------------------------------------------
TypeOK == /\ outcome \in {"none", "config", "parse error", "unknown keys", "invalid"}
          /\ file \in File
          /\ outcome = "unknown keys" <=> unknown # {}

(* "the daemon ran on the value the operator meant to replace": a file that*)
(* is accepted is in force key by key; nothing written in it, at the top   *)
(* level, in a table or in a table of a table, was passed over.            *)
NothingPassedOver ==
  outcome = "config" =>
    /\ file.values = {e \in Entries : config[e] = "file"}
    /\ file.tables \subseteq Tables /\ file.nested = {}

(* The refusal is complete: with the keys it names taken out, and those    *)
(* only, the same file is accepted, so an operator does not meet them one  *)
(* by one.                                                                 *)
Mended == [values |-> {e \in file.values : \A u \in unknown :
                         /\ <<u.place, u.key>> # e
                         /\ ~(u.table /\ u.place = Top /\ u.key = e[1])},
           tables |-> {t \in file.tables : \A u \in unknown : <<u.place, u.key>> # <<Top, t>>},
           nested |-> {e \in file.nested : \A u \in unknown :
                         /\ <<u.place, u.key>> # e
                         /\ ~(u.table /\ u.place = Top /\ u.key = e[1])}]
RefusalIsComplete ==
  outcome = "unknown keys" =>
    /\ Decodes(Mended)
    /\ Mended.values \subseteq Entries /\ Mended.tables \subseteq Tables /\ Mended.nested = {}
    /\ \A u \in unknown : <<u.place, u.key>> \notin Entries

(* A key that is the configuration's, only not here, is said to be, set or *)
(* not and optional or not; and where the message points the key is one.   *)
HintsAreTrue ==
  \A u \in unknown : ~u.table =>
    /\ \A h \in u.homes : <<h, u.key>> \in Entries
    /\ (\E e \in Entries : e[2] = u.key) => u.homes # {}

(* A file is in force as written or refused with everything that is wrong  *)
(* with its keys said.                                                     *)
ReadsWhatIsWritten == TypeOK /\ NothingPassedOver /\ RefusalIsComplete /\ HintsAreTrue
=============================================================================
