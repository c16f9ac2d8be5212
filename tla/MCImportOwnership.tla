-------------------------- MODULE MCImportOwnership --------------------------
(***************************************************************************)
(* An instance of ImportOwnership for TLC: one session and its import.       *)
(***************************************************************************)
EXTENDS ImportOwnership

CONSTANTS o, k

MCBy == [j \in Op |-> o]
=============================================================================
