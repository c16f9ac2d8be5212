---------------------------- MODULE ImportOutcomes ----------------------------
(***************************************************************************)
(* What DictionaryDatabase promises about dictionary imports, whatever its  *)
(* storage does: an import becomes listed in one step and at most once,     *)
(* before its caller is told anything; the caller is told the truth or,     *)
(* when the worker dies, nothing; and what was removed does not come back.  *)
(***************************************************************************)
CONSTANT Import

VARIABLES
    listed,     \* the installed dictionaries
    published,  \* the imports that were ever listed
    told        \* what each import's caller has been told

vars == <<listed, published, told>>

Init ==
    /\ listed = {}
    /\ published = {}
    /\ told = [r \in Import |-> "nothing"]

\* The import becomes visible as a whole.
Publish(r) ==
    /\ told[r] = "nothing"
    /\ r \notin published
    /\ listed' = listed \cup {r}
    /\ published' = published \cup {r}
    /\ UNCHANGED told

TellPublished(r) ==
    /\ told[r] = "nothing" /\ r \in published
    /\ told' = [told EXCEPT ![r] = "published"]
    /\ UNCHANGED <<listed, published>>

TellFailed(r) ==
    /\ told[r] = "nothing" /\ r \notin published
    /\ told' = [told EXCEPT ![r] = "failed"]
    /\ UNCHANGED <<listed, published>>

\* The worker dies: the callers still waiting will not hear from it.
LoseCallers(lost) ==
    /\ told' = [r \in Import |-> IF r \in lost THEN "unknown" ELSE told[r]]
    /\ \A r \in lost : told[r] = "nothing"
    /\ UNCHANGED <<listed, published>>

\* A deletion removes one dictionary, a purge all of them.
Remove(gone) ==
    /\ gone # {} /\ gone \subseteq listed
    /\ listed' = listed \ gone
    /\ UNCHANGED <<published, told>>

Next ==
    \/ \E r \in Import : Publish(r) \/ TellPublished(r) \/ TellFailed(r)
    \/ \E lost \in SUBSET Import : LoseCallers(lost)
    \/ \E gone \in SUBSET Import : Remove(gone)

Spec == Init /\ [][Next]_vars

=============================================================================
