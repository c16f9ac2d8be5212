----------------------------- MODULE MCBulkImport -----------------------------
(* Model values and symmetry for the runs of BulkImport. *)
EXTENDS BulkImport, TLC

\* Import runs are interchangeable: no action or property orders or names them.
ImportSymmetry == Permutations(Import)

=============================================================================
