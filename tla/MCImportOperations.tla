------------------------- MODULE MCImportOperations -------------------------
(* Three operations, two of them issued at the same time. *)
EXTENDS ImportOperations, TLC

CONSTANTS a, b, c

MCOperation == {a, b, c}
MCIssuedAt == (a :> 1) @@ (b :> 1) @@ (c :> 2)
=============================================================================
