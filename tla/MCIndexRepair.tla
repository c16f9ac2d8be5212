---------------------------- MODULE MCIndexRepair ----------------------------
(***************************************************************************)
(* Two calls want the dictionary kanji, one of them in the background, whose  *)
(* container may be in any state and which is deleted, imported and rolled    *)
(* back; names is loaded already, and its record IDs may clash with those of  *)
(* kanji.                                                                     *)
(***************************************************************************)
EXTENDS IndexRepair, TLC

CONSTANTS kanji, names, a, b

MCFound == [x \in Dict |-> IF x = names THEN {"good"} ELSE {"none", "good", "stale", "damaged"}]
MCOf == [x \in Call |-> kanji]
=============================================================================
