--------------------------- MODULE AtMostOnceCalls ---------------------------
(***************************************************************************)
(* What a caller of DictionaryWorkerClient may rely on.  A call runs at most *)
(* once, or twice if it only reads, only while its caller waits, and returns *)
(* only when it has run.  A call that failed may have run, but will not run  *)
(* any more.                                                                *)
(***************************************************************************)
EXTENDS Naturals

CONSTANTS
    Call,           \* calls to invoke and post
    Repeatable      \* calls that may run twice, as they only read

VARIABLES
    status,     \* idle, pending, returned or failed
    runs        \* how often the worker has run the call

vars == <<status, runs>>

Init ==
    /\ status = [c \in Call |-> "idle"]
    /\ runs = [c \in Call |-> 0]

\* A call is made.
Issue(c) ==
    /\ status[c] = "idle"
    /\ status' = [status EXCEPT ![c] = "pending"]
    /\ UNCHANGED runs

\* The worker runs it.
Run(c) ==
    /\ status[c] = "pending" /\ (runs[c] = 0 \/ (runs[c] = 1 /\ c \in Repeatable))
    /\ runs' = [runs EXCEPT ![c] = @ + 1]
    /\ UNCHANGED status

\* Its answer reaches the caller.
Return(c) ==
    /\ status[c] = "pending" /\ runs[c] > 0
    /\ status' = [status EXCEPT ![c] = "returned"]
    /\ UNCHANGED runs

\* Calls fail together, some of them while they are made.
Fail(C) ==
    /\ \A c \in C : status[c] \in {"idle", "pending"}
    /\ status' = [c \in Call |-> IF c \in C THEN "failed" ELSE status[c]]
    /\ UNCHANGED runs

Next ==
    \/ \E c \in Call : Issue(c) \/ Run(c) \/ Return(c)
    \/ \E C \in SUBSET Call : Fail(C)

Spec == Init /\ [][Next]_vars
=============================================================================
