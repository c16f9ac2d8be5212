------------------------- MODULE MCOffscreenControl -------------------------
(***************************************************************************)
(* An instance of OffscreenControl for TLC: an import and a lookup.          *)
(***************************************************************************)
EXTENDS OffscreenControl, TLC

CONSTANTS i, l, op

MCName == [r \in Import |-> op]
=============================================================================
