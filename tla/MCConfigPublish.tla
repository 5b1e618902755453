--------------------------- MODULE MCConfigPublish ---------------------------
(* A small instance of ConfigPublish for TLC: two words are enough for a      *)
(* torn copy, and four numbers for every wrap to happen again and again.      *)
EXTENDS ConfigPublish
MCSeqSpace == 4
=============================================================================
