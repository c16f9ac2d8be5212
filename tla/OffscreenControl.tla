-------------------------- MODULE OffscreenControl --------------------------
(***************************************************************************)
(* The control port between the background page and the offscreen document:  *)
(* OffscreenProxy.  The document is created on demand and registers a port;  *)
(* requests go over the current port and are answered on it.  Document and   *)
(* port may fail silently, so a request that is not answered in time gives up *)
(* its port, and is sent once more over a new one unless it transfers objects. *)
(***************************************************************************)
EXTENDS Naturals, FiniteSets

CONSTANTS
    Req,          \* requests of sendMessageViaPort
    Transferring, \* requests that transfer objects
    Import,       \* imports, which may be cancelled; they transfer a response port
    Name,         \* operationId of each import
    Registry,     \* limit of _pendingImportOperations
    MaxFaults     \* bound: documents lost, failed calls and undeliverable messages

ASSUME RequestAssumption == Transferring \subseteq Req /\ Import \subseteq Transferring /\ IsFiniteSet(Import)
ASSUME BoundAssumption == Registry \in Nat \ {0} /\ MaxFaults \in Nat

VARIABLES
    document,     \* whether the offscreen document exists
    creating,     \* _creatingOffscreen: none, probing or absent
    registering,  \* _registeringOffscreenPort and how far it is
    answered,     \* whether createAndRegisterPortOffscreen has been answered
    offers,       \* calls of it which the document has still to serve
    current,      \* _currentOffscreenPort, 0 for none
    ports,        \* how many ports the document has registered
    phase,        \* how far a request is
    attempt,      \* its attempt
    pending,      \* imports in _pendingImportOperations
    cancelled,    \* those marked cancelled
    outcome,      \* how a request was settled
    via,          \* the port over which an attempt was posted, 0 for none
    page,         \* what has become of an attempt in the document
    replies,      \* attempts whose answer is on its way
    runs,         \* history: how often the document has run a request
    faults

link == <<document, creating, registering, answered, offers, current, ports>>
calls == <<phase, attempt, pending, outcome>>
remote == <<page, replies, runs>>
vars == <<link, calls, cancelled, via, remote, faults>>

Init ==
    /\ document = FALSE /\ creating = "none" /\ registering = "none"
    /\ answered = FALSE /\ offers = 0 /\ current = 0 /\ ports = 0
    /\ phase = [r \in Req |-> "none"] /\ attempt = [r \in Req |-> 1]
    /\ pending = {} /\ cancelled = {} /\ outcome = [r \in Req |-> "none"]
    /\ via = [r \in Req |-> [n \in {1, 2} |-> 0]] /\ page = [r \in Req |-> [n \in {1, 2} |-> "none"]]
    /\ replies = {} /\ runs = [r \in Req |-> 0] /\ faults = 0

Fault == faults < MaxFaults /\ faults' = faults + 1

Via(r) == via[r][attempt[r]]
Attempts(r) == IF r \in Transferring THEN 1 ELSE 2

-------------------------------------------------------------------------------
(* What ends for all who wait for it *)

\* Mutant: the requests on the port keep waiting.
MutAbandoned(ph, p) == ph

\* _clearCurrentOffscreenPort: requests on port p are rejected.
Abandoned(ph, p) == [r \in Req |-> IF ph[r] = "sent" /\ Via(r) = p THEN "failed" ELSE ph[r]]

\* The creation of the document has ended.
Awaited(ph, ok) ==
    [r \in Req |-> IF ph[r] = "preparing" THEN (IF ok THEN "prepared" ELSE "failed") ELSE ph[r]]

\* The registration of a port has ended.
Resumed(ph, ok) ==
    [r \in Req |-> IF ph[r] \in {"ensuring", "reensuring"} /\ ok THEN "resume"
                   ELSE IF ph[r] = "ensuring" THEN "recover"
                   ELSE IF ph[r] = "reensuring" THEN "failed" ELSE ph[r]]

-------------------------------------------------------------------------------
(* _ensureOffscreenDocument *)

Probing(c) == IF c = "none" THEN "probing" ELSE c

CreatingEnds(ok) ==
    /\ creating' = "none" /\ phase' = Awaited(phase, ok)
    /\ registering' = IF registering # "document" THEN registering
                      ELSE IF ok THEN "documented" ELSE "broken"

Probe ==
    /\ creating = "probing"
    /\ \/ document /\ CreatingEnds(TRUE) /\ UNCHANGED <<current, faults>>
       \/ ~document /\ creating' = "absent" /\ current' = 0 /\ phase' = Abandoned(phase, current)
          /\ UNCHANGED <<registering, faults>>
       \/ Fault /\ CreatingEnds(FALSE) /\ UNCHANGED current
    /\ UNCHANGED <<document, answered, offers, ports, attempt, pending, outcome, cancelled, via, remote>>

Create ==
    /\ creating = "absent"
    /\ \/ document' = TRUE /\ CreatingEnds(TRUE) /\ UNCHANGED faults
       \/ Fault /\ CreatingEnds(FALSE) /\ UNCHANGED document
    /\ UNCHANGED <<answered, offers, current, ports, attempt, pending, outcome, cancelled, via, remote>>

-------------------------------------------------------------------------------
(* _ensureOffscreenPort, as the one call that registers a port *)

RegistrationEnds(ok) == registering' = "none" /\ phase' = Resumed(phase, ok)

\* The document is there, or could not be created.
Ask ==
    /\ \/ registering = "documented" /\ current # 0 /\ RegistrationEnds(TRUE) /\ UNCHANGED <<answered, offers>>
       \/ registering = "broken" /\ RegistrationEnds(FALSE) /\ UNCHANGED <<answered, offers>>
       \/ /\ registering = "documented" /\ current = 0
          /\ answered' = FALSE
          /\ IF document THEN registering' = "asking" /\ offers' = offers + 1
             ELSE registering' = "broken" /\ UNCHANGED offers
          /\ UNCHANGED phase
    /\ UNCHANGED <<document, creating, current, ports, attempt, pending, outcome, cancelled, via, remote, faults>>

\* registerOffscreenPort, for the oldest call which the document has not served.
PortArrives ==
    /\ document /\ offers > 0
    /\ offers' = offers - 1 /\ answered' = TRUE
    /\ ports' = ports + 1 /\ current' = ports + 1
    /\ LET ph == Abandoned(phase, current) IN
         IF registering = "waiting" THEN registering' = "none" /\ phase' = Resumed(ph, TRUE)
         ELSE phase' = ph /\ UNCHANGED registering
    /\ UNCHANGED <<document, creating, attempt, pending, outcome, cancelled, via, remote, faults>>

\* The call is answered, and the port awaited.
Asked ==
    /\ registering = "asking"
    /\ \/ answered /\ current # 0 /\ RegistrationEnds(TRUE) /\ UNCHANGED faults
       \/ answered /\ current = 0 /\ registering' = "waiting" /\ UNCHANGED <<phase, faults>>
       \/ Fault /\ RegistrationEnds(FALSE)
    /\ UNCHANGED <<document, creating, answered, offers, current, ports, attempt, pending, outcome,
                   cancelled, via, remote>>

\* Mutant: the port is awaited for ever.
MutPortTimeout == FALSE /\ UNCHANGED vars

\* No port has come within five seconds.
PortTimeout ==
    /\ registering = "waiting" /\ RegistrationEnds(FALSE)
    /\ UNCHANGED <<document, creating, answered, offers, current, ports, attempt, pending, outcome,
                   cancelled, via, remote, faults>>

-------------------------------------------------------------------------------
(* sendMessageViaPort *)

\* _ensureOffscreenPort, for request r, which waits in phase w unless there is a port.
Ensure(r, w) ==
    IF current # 0
    THEN phase' = [phase EXCEPT ![r] = "resume"] /\ UNCHANGED <<registering, creating>>
    ELSE /\ phase' = [phase EXCEPT ![r] = w]
         /\ IF registering = "none"
            THEN registering' = "document" /\ creating' = Probing(creating)
            ELSE UNCHANGED <<registering, creating>>

Settle(r, o) ==
    /\ phase' = [phase EXCEPT ![r] = "done"] /\ outcome' = [outcome EXCEPT ![r] = o]
    /\ pending' = pending \ {r}

Taken(r) == \E q \in pending : Name[q] = Name[r]

Send(r) ==
    /\ phase[r] = "none"
    /\ IF r \in Import /\ (Taken(r) \/ Cardinality(pending) >= Registry)
       THEN /\ phase' = [phase EXCEPT ![r] = "done"] /\ outcome' = [outcome EXCEPT ![r] = "refused"]
            /\ UNCHANGED <<pending, creating, registering>>
       ELSE /\ Ensure(r, "ensuring") /\ pending' = IF r \in Import THEN pending \cup {r} ELSE pending
            /\ UNCHANGED outcome
    /\ UNCHANGED <<document, answered, offers, current, ports, attempt, cancelled, via, remote, faults>>

\* The first registration failed: prepare.
Recover(r) ==
    /\ phase[r] = "recover"
    /\ phase' = [phase EXCEPT ![r] = "preparing"] /\ creating' = Probing(creating)
    /\ UNCHANGED <<document, registering, answered, offers, current, ports, attempt, pending, outcome,
                   cancelled, via, remote, faults>>

Prepared(r) ==
    /\ phase[r] = "prepared" /\ Ensure(r, "reensuring")
    /\ UNCHANGED <<document, answered, offers, current, ports, attempt, pending, outcome, cancelled, via,
                   remote, faults>>

\* Mutant: a request that was cancelled while it waited for the port is sent.
MutWithdrawn(r) == FALSE

\* Cancelled before the runtime admitted it.
Withdrawn(r) == r \in cancelled

Posted(r) == page' = [page EXCEPT ![r][attempt[r]] = IF document THEN "posted" ELSE "lost"]

\* _sendOffscreenControlMessage, up to postMessage, once there is a port.
Dispatch(r) ==
    /\ phase[r] = "resume" /\ current # 0 /\ ~Withdrawn(r)
    /\ \/ /\ Posted(r) /\ via' = [via EXCEPT ![r][attempt[r]] = current]
          /\ phase' = [phase EXCEPT ![r] = "sent"] /\ UNCHANGED <<current, pending, outcome, faults>>
       \/ \* postMessage cannot clone the message
          /\ Fault /\ Settle(r, IF r \in Import THEN "refused" ELSE "failed")
          /\ UNCHANGED <<current, page, via>>
       \/ \* postMessage fails otherwise
          /\ Fault /\ current' = 0
          /\ LET ph == Abandoned(phase, current) IN
               IF r \in Import
               THEN /\ phase' = [ph EXCEPT ![r] = "done"] /\ outcome' = [outcome EXCEPT ![r] = "refused"]
                    /\ pending' = pending \ {r}
               ELSE phase' = [ph EXCEPT ![r] = "failed"] /\ UNCHANGED <<pending, outcome>>
          /\ UNCHANGED <<page, via>>
    /\ UNCHANGED <<document, creating, registering, answered, offers, ports, attempt, cancelled, replies, runs>>

\* There is no port any more, or the request was cancelled.
Undispatched(r) ==
    /\ phase[r] = "resume"
    /\ \/ current = 0 /\ phase' = [phase EXCEPT ![r] = "failed"] /\ UNCHANGED <<outcome, pending>>
       \/ current # 0 /\ Withdrawn(r) /\ Settle(r, "refused")
    /\ UNCHANGED <<link, attempt, cancelled, via, remote, faults>>

\* What an error of the transport means for a request whose last attempt it was.
LastError(r) == IF r \in Import /\ Via(r) = 0 THEN "refused" ELSE "failed"

\* An error of the transport ends the attempt.
AttemptFails(r) ==
    /\ phase[r] = "failed"
    /\ IF attempt[r] < Attempts(r)
       THEN /\ attempt' = [attempt EXCEPT ![r] = @ + 1] /\ Ensure(r, "ensuring")
            /\ UNCHANGED <<pending, outcome>>
       ELSE Settle(r, LastError(r)) /\ UNCHANGED <<attempt, registering, creating>>
    /\ UNCHANGED <<document, answered, offers, current, ports, cancelled, via, remote, faults>>

\* The deadline of a request passes; its port is given up.
Timeout(r) ==
    /\ phase[r] = "sent"
    /\ current' = IF current = Via(r) THEN 0 ELSE current
    /\ phase' = [Abandoned(phase, Via(r)) EXCEPT ![r] = "failed"]
    /\ UNCHANGED <<document, creating, registering, answered, offers, ports, attempt, pending, outcome,
                   cancelled, via, remote, faults>>

\* _onOffscreenControlMessage
Receive(r, n) ==
    /\ <<r, n>> \in replies /\ replies' = replies \ {<<r, n>>}
    /\ IF via[r][n] # current
       THEN UNCHANGED <<current, phase, outcome, pending>>
       ELSE IF phase[r] = "sent" /\ attempt[r] = n
       THEN Settle(r, "answered") /\ UNCHANGED current
       ELSE current' = 0 /\ phase' = Abandoned(phase, current) /\ UNCHANGED <<outcome, pending>>
    /\ UNCHANGED <<document, creating, registering, answered, offers, ports, attempt, cancelled, via,
                   page, runs, faults>>

\* onmessageerror: an answer cannot be read.
MessageError(r, n) ==
    /\ <<r, n>> \in replies /\ Fault /\ replies' = replies \ {<<r, n>>}
    /\ IF via[r][n] = current THEN current' = 0 /\ phase' = Abandoned(phase, current) ELSE UNCHANGED <<current, phase>>
    /\ UNCHANGED <<document, creating, registering, answered, offers, ports, attempt, pending, outcome,
                   cancelled, via, page, runs>>

\* sendMessagePromise: any message of the runtime looks for the document, and one that
\* cancels an import marks it.
Message ==
    /\ creating' = Probing(creating)
    /\ \/ creating = "none" /\ UNCHANGED cancelled
       \/ \E r \in pending \ cancelled : cancelled' = cancelled \cup {r}
    /\ UNCHANGED <<document, registering, answered, offers, current, ports, calls, via, remote, faults>>

-------------------------------------------------------------------------------
(* The offscreen document *)

Run(r, n) ==
    /\ page[r][n] = "posted" /\ page' = [page EXCEPT ![r][n] = "running"]
    /\ runs' = [runs EXCEPT ![r] = @ + 1]
    /\ UNCHANGED <<link, calls, cancelled, via, replies, faults>>

Answer(r, n) ==
    /\ page[r][n] = "running" /\ page' = [page EXCEPT ![r][n] = "ended"]
    /\ replies' = replies \cup {<<r, n>>}
    /\ UNCHANGED <<link, calls, cancelled, via, runs, faults>>

\* The document goes, and nobody is told.
DocumentLost ==
    /\ document /\ Fault /\ document' = FALSE /\ offers' = 0
    /\ registering' = IF registering = "asking" /\ ~answered THEN "broken" ELSE registering
    /\ page' = [r \in Req |-> [n \in {1, 2} |->
                   IF page[r][n] \in {"posted", "running"} THEN "lost" ELSE page[r][n]]]
    /\ UNCHANGED <<creating, answered, current, ports, calls, cancelled, via, replies, runs>>

-------------------------------------------------------------------------------

Continue(r) == Recover(r) \/ Prepared(r) \/ Dispatch(r) \/ Undispatched(r) \/ AttemptFails(r) \/ Timeout(r)

Next ==
    \/ Probe \/ Create \/ Ask \/ PortArrives \/ Asked \/ PortTimeout \/ Message \/ DocumentLost
    \/ \E r \in Req : Send(r) \/ Continue(r)
    \/ \E r \in Req, n \in {1, 2} : Run(r, n) \/ Answer(r, n) \/ Receive(r, n) \/ MessageError(r, n)

Spec == Init /\ [][Next]_vars

FairSpec ==
    /\ Spec /\ WF_vars(Probe) /\ WF_vars(Create) /\ WF_vars(Ask) /\ WF_vars(PortArrives) /\ WF_vars(Asked)
    /\ WF_vars(PortTimeout)
    /\ \A r \in Req : WF_vars(Continue(r))

-------------------------------------------------------------------------------
(* Properties *)

States == {"none", "posted", "running", "ended", "lost"}
Phases == {"none", "ensuring", "recover", "preparing", "prepared", "reensuring", "resume", "sent", "failed", "done"}

TypeOK ==
    /\ document \in BOOLEAN /\ answered \in BOOLEAN
    /\ creating \in {"none", "probing", "absent"}
    /\ registering \in {"none", "document", "documented", "broken", "asking", "waiting"}
    /\ offers \in Nat /\ current \in Nat /\ ports \in Nat /\ faults \in Nat
    /\ phase \in [Req -> Phases] /\ attempt \in [Req -> {1, 2}]
    /\ pending \subseteq Import /\ cancelled \subseteq Import
    /\ outcome \in [Req -> {"none", "answered", "failed", "refused"}]
    /\ via \in [Req -> [{1, 2} -> Nat]]
    /\ page \in [Req -> [{1, 2} -> States]]
    /\ replies \subseteq Req \X {1, 2} /\ runs \in [Req -> Nat]

\* A request that waits for an answer waits on the current port: whenever a port is
\* given up, everybody who waits on it is told (_clearCurrentOffscreenPort).
NobodyLeftBehind == \A r \in Req : phase[r] = "sent" => Via(r) = current /\ current # 0

\* Who waits for the document or for a port has somebody who brings it.
SomebodyWorks ==
    /\ (\E r \in Req : phase[r] \in {"ensuring", "reensuring"}) => registering # "none"
    /\ (\E r \in Req : phase[r] = "preparing") \/ registering = "document" => creating # "none"

ControlInv == TypeOK /\ NobodyLeftBehind /\ SomebodyWorks

One(r, n, S) == IF page[r][n] \in S THEN 1 ELSE 0
Handed(r) == One(r, 1, States \ {"none"}) + One(r, 2, States \ {"none"})
Status == [r \in Req |-> IF phase[r] = "done" THEN outcome[r] ELSE IF phase[r] = "none" THEN "idle" ELSE "pending"]

Requests == INSTANCE Handoff WITH
    Repeatable <- Req \ Transferring, status <- Status,
    withdrawn <- {r \in cancelled : via[r][1] = 0}, handed <- [r \in Req |-> Handed(r)]

\* OffscreenProxy keeps its promise to the background page: a refusal
\* (DictionaryImportNotAdmittedError) is certain, a cancellation that is not too late
\* holds, and only requests without transfers go out twice.
HandoffSpec == Requests!Spec

\* Every request is settled, by an answer, a deadline or the failure to reach the
\* document.
RequestsSettle == \A r \in Req : phase[r] # "none" ~> phase[r] = "done"
=============================================================================
