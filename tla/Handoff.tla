------------------------------ MODULE Handoff ------------------------------
(***************************************************************************)
(* What the background page may rely on when it hands requests to the        *)
(* offscreen document.  A request runs only if it was handed over, at most    *)
(* once, or twice if it transfers nothing.  One that was refused, or that was *)
(* withdrawn before it was handed over, never runs.  One that failed is in    *)
(* doubt: it may have run, and may still run.                                *)
(***************************************************************************)
EXTENDS Naturals

CONSTANTS
    Req,            \* requests of sendMessageViaPort
    Repeatable      \* requests that may be handed over twice

VARIABLES
    status,     \* idle, pending, answered, failed (in doubt) or refused
    withdrawn,  \* requests withdrawn before they were handed over
    handed,     \* how often a request was handed over
    runs        \* how often it has run

vars == <<status, withdrawn, handed, runs>>

Init ==
    /\ status = [r \in Req |-> "idle"] /\ withdrawn = {}
    /\ handed = [r \in Req |-> 0] /\ runs = [r \in Req |-> 0]

Limit(r) == IF r \in Repeatable THEN 2 ELSE 1

\* A request is made, or refused at once.
Issue(r) ==
    /\ status[r] = "idle"
    /\ \E s \in {"pending", "refused"} : status' = [status EXCEPT ![r] = s]
    /\ UNCHANGED <<withdrawn, handed, runs>>

\* It goes out.
HandOver(r) ==
    /\ status[r] = "pending" /\ r \notin withdrawn /\ handed[r] < Limit(r)
    /\ handed' = [handed EXCEPT ![r] = @ + 1]
    /\ UNCHANGED <<status, withdrawn, runs>>

\* Requests are withdrawn while they wait; it is too late for those handed over.
Withdraw(R) ==
    /\ \A r \in R : status[r] = "pending" /\ handed[r] = 0
    /\ withdrawn' = withdrawn \cup R
    /\ UNCHANGED <<status, handed, runs>>

\* The document runs what it was handed, whether or not anybody still waits for it.
Run(r) ==
    /\ runs[r] < handed[r]
    /\ runs' = [runs EXCEPT ![r] = @ + 1]
    /\ UNCHANGED <<status, withdrawn, handed>>

Answer(r) ==
    /\ status[r] = "pending" /\ runs[r] > 0
    /\ status' = [status EXCEPT ![r] = "answered"]
    /\ UNCHANGED <<withdrawn, handed, runs>>

\* Nothing was handed over, and nothing will be.
Refuse(r) ==
    /\ status[r] = "pending" /\ handed[r] = 0
    /\ status' = [status EXCEPT ![r] = "refused"]
    /\ UNCHANGED <<withdrawn, handed, runs>>

Fail(r) ==
    /\ status[r] = "pending" /\ r \notin withdrawn
    /\ status' = [status EXCEPT ![r] = "failed"]
    /\ UNCHANGED <<withdrawn, handed, runs>>

Next ==
    \/ \E r \in Req : Issue(r) \/ HandOver(r) \/ Run(r) \/ Answer(r) \/ Refuse(r) \/ Fail(r)
    \/ \E R \in SUBSET Req : Withdraw(R)

Spec == Init /\ [][Next]_vars
=============================================================================
