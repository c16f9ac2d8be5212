--------------------------- MODULE MCWorkerClient ---------------------------
(* A lookup, a mutation and a one-way request, and two workers that may break. *)
EXTENDS WorkerClient, TLC

CONSTANTS a, m, o

MCCall == {a, m, o}
MCKind == [c \in MCCall |-> CASE c = a -> "lookup" [] c = m -> "mutation" [] c = o -> "oneway"]
=============================================================================
