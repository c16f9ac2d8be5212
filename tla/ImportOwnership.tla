-------------------------- MODULE ImportOwnership --------------------------
(***************************************************************************)
(* How the background page keeps an import session alive: whose it is, which *)
(* imports it owns, and when both may be forgotten.                          *)
(*                                                                          *)
(* A settings page holds a port open while it imports.  Its imports are sent *)
(* to the dictionary worker, and the session, which keeps import mode on,    *)
(* outlives the page until the outcome of each is known.                     *)
(***************************************************************************)
EXTENDS Naturals, Sequences

CONSTANTS
    Owner,        \* sessions (ownerId)
    Op,           \* imports (operationId)
    By,           \* the session of each import
    MaxConnects,  \* bound: how often a page connects its port
    MaxFaults     \* bound: lost or garbled messages

ASSUME OwnerAssumption == By \in [Op -> Owner]
ASSUME BoundAssumption == MaxConnects \in Nat /\ MaxFaults \in Nat

VARIABLES
    connected,   \* _dictionaryImportOwnerConnections
    connects,
    orphaned,    \* _orphanedDictionaryImportOwners
    owners,      \* _dictionaryImportOwners
    requests,    \* calls of _setDictionaryImportMode that wait for their turn
    cancelling,  \* operations which the running transition has still to cancel
    op,          \* _ownedDictionaryImports
    call,        \* how far the request that brought an import is
    mail,        \* terminal message on its way to the relay
    purge,       \* operations which the purge under way may retire
    freeing,     \* sessions which the purge has still to release
    faults,
    worker,      \* what has become of an import in the dictionary worker
    announced,   \* history: imports whose publication was announced or is owed
    silent       \* history: imports whose relay ended, or was bypassed, without an answer

purging == <<purge, freeing>>
session == <<connected, connects, orphaned, owners>>
vars == <<session, requests, cancelling, op, call, mail, purging, faults, worker, announced, silent>>

Fresh == [registered |-> FALSE, cancelled |-> FALSE, settled |-> FALSE, completed |-> FALSE,
          attempted |-> FALSE, relay |-> FALSE, reconciling |-> FALSE, unknown |-> FALSE]

Init ==
    /\ connected = {} /\ connects = [o \in Owner |-> 0] /\ orphaned = {} /\ owners = {}
    /\ requests = <<>> /\ cancelling = {}
    /\ op = [k \in Op |-> Fresh] /\ call = [k \in Op |-> "none"] /\ mail = [k \in Op |-> "none"]
    /\ purge = {} /\ freeing = {} /\ faults = 0
    /\ worker = [k \in Op |-> "none"] /\ announced = {} /\ silent = {}

Fault == faults < MaxFaults /\ faults' = faults + 1
Ask(what, o) == requests' = Append(requests, [what |-> what, owner |-> o])

-------------------------------------------------------------------------------
(* The registry *)

Registered(f, o) == {k \in Op : By[k] = o /\ f[k].registered}

\* _releaseOrphanedDictionaryImportOwner, when the operations are f and the requests rest.
ReleaseOrphaned(o, f, rest) ==
    IF o \in orphaned /\ o \notin connected /\ Registered(f, o) = {}
    THEN orphaned' = orphaned \ {o} /\ requests' = Append(rest, [what |-> "release", owner |-> o])
    ELSE requests' = rest /\ UNCHANGED orphaned

\* Mutant: a cancelled operation does not wait for an answer.
MutForgettable(r) == r.settled /\ (r.completed \/ r.cancelled)

\* The condition of _retireOwnedDictionaryImport.
Forgettable(r) == r.settled /\ (r.completed \/ (r.cancelled /\ ~r.relay /\ ~r.reconciling))

\* Mutant: nobody looks whether the session may end.
MutRetired(o, f) == UNCHANGED <<orphaned, requests>>

\* An operation has been dropped from the registry f.
Retired(o, f) == ReleaseOrphaned(o, f, requests)

\* Operation k becomes r, and is then retired if it may be.
Becomes(k, r) ==
    LET f == [op EXCEPT ![k] = r]
        g == [op EXCEPT ![k] = [r EXCEPT !.registered = FALSE]]
    IN  IF r.registered /\ Forgettable(r)
        THEN op' = g /\ Retired(By[k], g)
        ELSE op' = f /\ UNCHANGED <<orphaned, requests>>

\* _reconcileOwnedDictionaryImport
Reconciling(r) == IF r.registered /\ ~r.completed THEN [r EXCEPT !.reconciling = TRUE] ELSE r

-------------------------------------------------------------------------------
(* The port of a page *)

Connect(o) ==
    /\ o \notin connected /\ connects[o] < MaxConnects
    /\ connected' = connected \cup {o} /\ connects' = [connects EXCEPT ![o] = @ + 1]
    /\ orphaned' = orphaned \ {o} /\ Ask("enter", o)
    /\ UNCHANGED <<owners, cancelling, op, call, mail, purging, faults, worker, announced, silent>>

\* What a lost page leaves: an import that was not handed over is cancelled, one that
\* was keeps its session.
Left(r) ==
    IF r.attempted
    THEN IF r.relay THEN r ELSE Reconciling(r)
    ELSE [r EXCEPT !.cancelled = TRUE]

Disconnect(o) ==
    /\ o \in connected /\ connected' = connected \ {o}
    /\ op' = [k \in Op |-> IF k \in Registered(op, o) THEN Left(op[k]) ELSE op[k]]
    /\ IF Registered(op, o) = {}
       THEN UNCHANGED orphaned /\ Ask("release", o)
       ELSE orphaned' = orphaned \cup {o} /\ UNCHANGED requests
    /\ UNCHANGED <<connects, owners, cancelling, call, mail, purging, faults, worker, announced, silent>>

\* The page ends its session; it asks again only once its request has been handled, a
\* bound of the model.
EndSession(o) ==
    /\ o \in connected /\ ~\E n \in DOMAIN requests : requests[n] = [what |-> "release", owner |-> o]
    /\ Ask("release", o)
    /\ UNCHANGED <<session, cancelling, op, call, mail, purging, faults, worker, announced, silent>>

-------------------------------------------------------------------------------
(* _setDictionaryImportMode, as far as sessions go *)

\* What the end of a session does to an operation; its relay is detached from the page.
Released(r) == [r EXCEPT !.cancelled = TRUE]

Transition ==
    /\ cancelling = {} /\ requests # <<>>
    /\ LET r == Head(requests) IN
         \/ /\ r.what = "enter" /\ owners' = owners \cup {r.owner}
            /\ ReleaseOrphaned(r.owner, op, Tail(requests)) /\ UNCHANGED <<cancelling, op>>
         \/ /\ r.what = "release" /\ r.owner \in owners
            /\ requests' = Tail(requests) /\ UNCHANGED orphaned
            /\ owners' = owners \ {r.owner}
            /\ cancelling' = Registered(op, r.owner)
            /\ op' = [k \in Op |-> IF k \in Registered(op, r.owner) THEN Released(op[k]) ELSE op[k]]
         \/ /\ r.what = "release" /\ r.owner \notin owners
            /\ requests' = Tail(requests) /\ UNCHANGED <<orphaned, owners, cancelling, op>>
    /\ UNCHANGED <<connected, connects, call, mail, purging, faults, worker, announced, silent>>

\* The worker has answered the cancellation of k, or failed to.
CancelEnds(k) ==
    /\ k \in cancelling /\ cancelling' = cancelling \ {k}
    /\ Becomes(k, op[k])
    /\ UNCHANGED <<connected, connects, owners, call, mail, purging, faults, worker, announced, silent>>

-------------------------------------------------------------------------------
(* The request that brings an import *)

Register(k) ==
    /\ call[k] = "none" /\ By[k] \in owners
    /\ call' = [call EXCEPT ![k] = "before"]
    /\ op' = [op EXCEPT ![k].registered = TRUE]
    /\ UNCHANGED <<session, requests, cancelling, mail, purging, faults, worker, announced, silent>>

Settled(r) == [r EXCEPT !.settled = TRUE, !.completed = @ \/ ~r.attempted]

\* The download or the preparation of the runtime fails, or finds the import cancelled.
NotSent(k) ==
    /\ call[k] = "before" /\ call' = [call EXCEPT ![k] = "ended"]
    /\ Becomes(k, Settled(op[k]))
    /\ UNCHANGED <<connected, connects, owners, cancelling, mail, purging, faults, worker, announced, silent>>

\* _superviseOwnedDictionaryImport, and the request leaves for the worker.
Send(k) ==
    /\ call[k] = "before" /\ ~op[k].cancelled
    /\ call' = [call EXCEPT ![k] = "sent"]
    /\ op' = [op EXCEPT ![k].attempted = TRUE, ![k].relay = TRUE]
    /\ UNCHANGED <<session, requests, cancelling, mail, purging, faults, worker, announced, silent>>

\* Mutant: a failed acknowledgement counts as a refusal.
MutUnacknowledged(r) == [r EXCEPT !.settled = TRUE, !.completed = TRUE, !.relay = FALSE]

\* The acknowledgement has failed: the import may have arrived.
Unacknowledged(r) == Reconciling([r EXCEPT !.settled = TRUE])

\* sendMessageViaPort settles: acknowledged, refused for certain, or neither.
SentEnds(k) ==
    /\ call[k] = "sent" /\ call' = [call EXCEPT ![k] = "ended"]
    /\ \/ /\ worker[k] # "none" /\ Becomes(k, [op[k] EXCEPT !.settled = TRUE])
          /\ UNCHANGED <<worker, silent, faults>>
       \/ /\ worker[k] = "none" /\ worker' = [worker EXCEPT ![k] = "refused"]
          /\ Becomes(k, [op[k] EXCEPT !.settled = TRUE, !.completed = TRUE, !.relay = FALSE])
          /\ UNCHANGED <<silent, faults>>
       \/ /\ Fault /\ Becomes(k, Unacknowledged(op[k]))
          /\ silent' = silent \cup {k} /\ UNCHANGED worker
    /\ UNCHANGED <<connected, connects, owners, cancelling, mail, purging, announced>>

-------------------------------------------------------------------------------
(* The dictionary worker *)

\* The request arrives; after a failed acknowledgement it may be late.
Deliver(k) ==
    /\ op[k].attempted /\ worker[k] = "none"
    /\ worker' = [worker EXCEPT ![k] = "running"]
    /\ UNCHANGED <<session, requests, cancelling, op, call, mail, purging, faults, announced, silent>>

\* The import ends; its terminal message may be lost.
WorkerEnds(k) ==
    /\ worker[k] = "running"
    /\ \E outcome \in {"published", "failed", "unknown"} :
         /\ worker' = [worker EXCEPT ![k] = outcome]
         /\ \/ mail' = [mail EXCEPT ![k] = outcome] /\ UNCHANGED <<faults, silent>>
            \/ Fault /\ silent' = silent \cup {k} /\ UNCHANGED mail
    /\ UNCHANGED <<session, requests, cancelling, op, call, purging, announced>>

\* Recovery finds out what became of an import.
Recovered(k) ==
    /\ worker[k] = "unknown"
    /\ \E outcome \in {"published", "failed"} : worker' = [worker EXCEPT ![k] = outcome]
    /\ UNCHANGED <<session, requests, cancelling, op, call, mail, purging, faults, announced, silent>>

-------------------------------------------------------------------------------
(* Answers *)

\* _completeOwnedDictionaryImport
Complete(k, published) ==
    /\ Becomes(k, [op[k] EXCEPT !.completed = TRUE, !.relay = FALSE])
    /\ announced' = IF published /\ op[k].registered /\ ~op[k].completed
                    THEN announced \cup {k} ELSE announced

\* The worker does not know the outcome either (terminalOutcomeUnknown); the relay ends.
Undecided(r) == IF r.registered THEN [r EXCEPT !.unknown = TRUE, !.relay = FALSE]
                ELSE [r EXCEPT !.relay = FALSE]

\* The terminal message reaches the relay.
Receive(k) ==
    /\ mail[k] # "none" /\ mail' = [mail EXCEPT ![k] = "none"]
    /\ IF ~op[k].relay
       THEN UNCHANGED <<op, orphaned, requests, announced, silent>>
       ELSE IF mail[k] = "unknown"
       THEN /\ op' = [op EXCEPT ![k] = Reconciling(Undecided(op[k]))]
            /\ silent' = silent \cup {k}
            /\ UNCHANGED <<orphaned, requests, announced>>
       ELSE Complete(k, mail[k] = "published") /\ UNCHANGED silent
    /\ UNCHANGED <<connected, connects, owners, cancelling, call, purging, faults, worker>>

\* A message cannot be read; the relay stays, a receipt is asked for.
Garbled(k) ==
    /\ op[k].relay /\ Fault
    /\ op' = [op EXCEPT ![k] = Reconciling(@)] /\ silent' = silent \cup {k}
    /\ UNCHANGED <<session, requests, cancelling, call, mail, purging, worker, announced>>

\* An error of the transport ends the relay, whatever the worker does.
TransportFails(k) ==
    /\ op[k].relay /\ Fault
    /\ op' = [op EXCEPT ![k] = Reconciling([@ EXCEPT !.relay = FALSE])]
    /\ silent' = silent \cup {k}
    /\ UNCHANGED <<session, requests, cancelling, call, mail, purging, worker, announced>>

Unanswered(k) == op[k].registered /\ op[k].attempted /\ ~op[k].completed
Decided(k) == worker[k] \in {"published", "failed"}

\* _onApiGetDictionaryImportOperationStatus with an authoritative answer; r is the
\* operation as the caller leaves it.
Answer(k, r) ==
    IF op[k].registered /\ ~op[k].completed
    THEN /\ Becomes(k, [r EXCEPT !.completed = TRUE, !.relay = FALSE])
         /\ announced' = IF worker[k] = "published" THEN announced \cup {k} ELSE announced
    ELSE Becomes(k, r) /\ UNCHANGED announced

\* The query of _reconcileOwnedDictionaryImport settles.
QueryEnds(k) ==
    /\ op[k].reconciling
    /\ LET r == [op[k] EXCEPT !.reconciling = FALSE] IN
         \/ Decided(k) /\ Answer(k, r) /\ UNCHANGED faults
         \/ (IF Decided(k) THEN Fault ELSE UNCHANGED faults) /\ Becomes(k, r) /\ UNCHANGED announced
    /\ UNCHANGED <<connected, connects, owners, cancelling, call, mail, purging, worker, silent>>

\* A page asks for the status of an import.
PageAsks(k) ==
    /\ Unanswered(k) /\ Decided(k) /\ Answer(k, op[k])
    /\ UNCHANGED <<connected, connects, owners, cancelling, call, mail, purging, faults, worker, silent>>

-------------------------------------------------------------------------------
(* Explicit reset: _onApiPurgeDatabase, _retirePurgedOrphanedDictionaryImports *)

PurgeBegins ==
    /\ purge = {} /\ freeing = {}
    /\ purge' = {k \in Op : op[k].registered /\ op[k].unknown} /\ purge' # {}
    /\ UNCHANGED <<session, requests, cancelling, op, call, mail, freeing, faults, worker, announced, silent>>

\* A captured operation that goes with the storage: nobody is connected for it.
Superseded(k) ==
    op[k].registered /\ op[k].settled /\ op[k].unknown /\ By[k] \in orphaned /\ By[k] \notin connected

PurgeEnds ==
    /\ purge # {} /\ purge' = {}
    /\ LET gone == {k \in purge : Superseded(k)} IN
         /\ op' = [k \in Op |-> IF k \in gone THEN [op[k] EXCEPT !.registered = FALSE] ELSE op[k]]
         /\ freeing' = {By[k] : k \in gone}
    /\ worker' = [k \in Op |-> IF k \in purge THEN "purged" ELSE worker[k]]
    /\ UNCHANGED <<session, requests, cancelling, call, mail, faults, announced, silent>>

FreeSession(o) ==
    /\ o \in freeing /\ freeing' = freeing \ {o} /\ ReleaseOrphaned(o, op, requests)
    /\ UNCHANGED <<connected, connects, owners, cancelling, op, call, mail, purge, faults, worker, announced, silent>>

-------------------------------------------------------------------------------

\* Calls that settle, and messages that arrive, sooner or later.
Step(k) == NotSent(k) \/ SentEnds(k) \/ WorkerEnds(k) \/ Receive(k) \/ QueryEnds(k) \/ CancelEnds(k)

Next ==
    \/ \E o \in Owner : Connect(o) \/ Disconnect(o) \/ EndSession(o) \/ FreeSession(o)
    \/ \E k \in Op : Register(k) \/ Send(k) \/ Deliver(k) \/ Step(k)
                        \/ Garbled(k) \/ TransportFails(k) \/ Recovered(k) \/ PageAsks(k)
    \/ Transition \/ PurgeBegins \/ PurgeEnds

Spec == Init /\ [][Next]_vars

FairSpec ==
    /\ Spec /\ WF_vars(Transition) /\ WF_vars(PurgeEnds)
    /\ \A k \in Op : WF_vars(NotSent(k)) /\ WF_vars(SentEnds(k)) /\ WF_vars(WorkerEnds(k))
                        /\ WF_vars(Receive(k)) /\ WF_vars(QueryEnds(k)) /\ WF_vars(CancelEnds(k))
    /\ \A o \in Owner : WF_vars(FreeSession(o))

-------------------------------------------------------------------------------
(* Properties *)

Record == [registered : BOOLEAN, cancelled : BOOLEAN, settled : BOOLEAN, completed : BOOLEAN,
           attempted : BOOLEAN, relay : BOOLEAN, reconciling : BOOLEAN, unknown : BOOLEAN]
Request == [what : {"enter", "release"}, owner : Owner]
Outcomes == {"published", "failed", "unknown"}
Open == {"none", "running", "unknown"}

TypeOK ==
    /\ connected \subseteq Owner /\ connects \in [Owner -> Nat]
    /\ orphaned \subseteq Owner /\ owners \subseteq Owner
    /\ requests \in Seq(Request) /\ cancelling \subseteq Op
    /\ op \in [Op -> Record] /\ call \in [Op -> {"none", "before", "sent", "ended"}]
    /\ mail \in [Op -> {"none"} \cup Outcomes]
    /\ purge \subseteq Op /\ freeing \subseteq Owner /\ faults \in Nat
    /\ worker \in [Op -> Open \cup Outcomes \cup {"refused", "purged"}]
    /\ announced \subseteq Op /\ silent \subseteq Op

\* The request that brought an import and its entry agree.
CallShape(k) ==
    /\ call[k] = "none" => op[k] = Fresh
    /\ call[k] \in {"before", "sent"} => op[k].registered /\ ~op[k].settled
    /\ call[k] = "before" => ~op[k].attempted
    /\ call[k] = "sent" => op[k].attempted

\* A relay that is open belongs to an import whose outcome is not known yet; one that
\* is closed has brought the outcome, or has been given up.
RelayShape(k) ==
    /\ op[k].relay => op[k].attempted /\ op[k].registered /\ ~op[k].completed
    /\ op[k].attempted /\ ~op[k].relay => op[k].completed \/ k \in silent
    /\ op[k].unknown =>
         ~op[k].relay /\ mail[k] = "none" /\ worker[k] \in Outcomes \cup {"purged"}
    /\ mail[k] \in {"published", "failed"} => worker[k] = mail[k]
    /\ mail[k] = "unknown" => worker[k] \in Outcomes

\* An import without an outcome is registered, or was cancelled and has lost its relay.
OpenShape(k) ==
    /\ worker[k] # "none" => op[k].attempted
    /\ op[k].registered /\ ~op[k].cancelled => By[k] \in owners
    /\ op[k].attempted /\ worker[k] \in Open =>
         ~op[k].completed /\ (op[k].registered \/ (op[k].cancelled /\ k \in silent))
    /\ worker[k] = "published" =>
         /\ op[k].completed => k \in announced
         /\ op[k].registered \/ k \in announced \/ (op[k].cancelled /\ k \in silent)

OwnershipInv ==
    /\ TypeOK
    /\ \A k \in Op : CallShape(k) /\ RelayShape(k) /\ OpenShape(k)
    /\ \A k \in purge : op[k].unknown

\* An import that was handed over, that nobody has cancelled and whose outcome is not
\* settled keeps its session in import mode, whether its page is there or not
\* (_retireOwnedDictionaryImport, _settleDictionaryImportOwnership).
SessionKept ==
    \A k \in Op : worker[k] \in {"running", "unknown"} /\ ~op[k].cancelled => By[k] \in owners

\* A publication is announced, or owed to its session, before its import is forgotten,
\* unless the session was ended explicitly and no answer had come through.
PublicationAnnounced ==
    \A k \in Op : worker[k] = "published" /\ ~op[k].registered =>
        k \in announced \/ (op[k].cancelled /\ k \in silent)

\* The session of a page that is gone ends, unless the outcome of one of its imports
\* stays open.
SessionsEnd ==
    \A o \in Owner : connects[o] = MaxConnects /\ o \notin connected
        ~> o \notin owners \/ \E k \in Op : By[k] = o /\ Unanswered(k)
=============================================================================
