---------------------------- MODULE WorkerClient ----------------------------
(***************************************************************************)
(* DictionaryWorkerClient: calls to a worker that can be replaced.           *)
(*                                                                          *)
(* A worker that breaks, or lets a call miss its deadline, is terminated     *)
(* with everything that waits for it; the next request starts another one.   *)
(* A lookup is sent once more then, within its deadline, and nothing else    *)
(* is.  Messages and events of a terminated worker may still come.           *)
(***************************************************************************)
EXTENDS Naturals

CONSTANTS
    Call,       \* calls to invoke and post
    Kind,       \* the kind of each call
    Breakable   \* bound: the workers, by generation, that may break

Kinds == {"lookup",     \* retryable, with a deadline
          "mutation",   \* anything else with a deadline
          "import",     \* streamed: no deadline
          "oneway"}     \* post: the caller does not wait

ASSUME KindAssumption == Kind \in [Call -> Kinds]

VARIABLES
    stage,      \* idle, pending, retrying (the attempt has failed, invoke goes on),
                \* returned, failed (for a one-way call: forgotten)
    attempt,    \* attempts begun
    late,       \* the deadline has passed
    worker,     \* _worker, by its _generation
    fatal,      \* _fatalError # null
    handlers,   \* the requests in _responseHandlers
    oneWay,     \* _oneWayRequestIds
    inbox,      \* requests on their way to the worker
    responses,  \* responses on their way back
    broken,     \* workers that have raised an error, or cannot be written to
    runs        \* history: how often a worker has run each call

client == <<stage, attempt, worker, fatal, handlers, oneWay>>
outside == <<responses, broken, runs>>
vars == <<stage, attempt, late, worker, fatal, handlers, oneWay,
          inbox, responses, broken, runs>>

Init ==
    /\ stage = [c \in Call |-> "idle"]
    /\ attempt = [c \in Call |-> 0]
    /\ late = [c \in Call |-> FALSE]
    /\ worker = 1 /\ fatal = FALSE
    /\ handlers = {} /\ oneWay = {}
    /\ inbox = {} /\ responses = {} /\ broken = {}
    /\ runs = [c \in Call |-> 0]

\* Mutant: whatever has a deadline is tried twice.
MutAttempts(c) == IF Kind[c] \in {"lookup", "mutation"} THEN 2 ELSE 1

Attempts(c) == IF Kind[c] = "lookup" THEN 2 ELSE 1
HasDeadline(c) == Kind[c] \in {"lookup", "mutation"}
Alive(w) == w = worker /\ ~fatal

-------------------------------------------------------------------------------
(* Failure of the worker *)

\* The calls whose handlers are called with an error, which allows another
\* attempt or not.
Rejected(C, retryable) ==
    [c \in Call |->
        IF c \notin C THEN stage[c]
        ELSE IF retryable /\ attempt[c] < Attempts(c) THEN "retrying" ELSE "failed"]

\* Mutant: the handlers are called, and kept.
MutKeepHandlers(w, retryable) ==
    IF ~Alive(w)
    THEN UNCHANGED <<client, inbox>>
    ELSE /\ fatal' = TRUE
         /\ stage' = Rejected({c \in Call : stage[c] = "pending"}, retryable)
         /\ oneWay' = {} /\ inbox' = {}
         /\ UNCHANGED <<attempt, worker, handlers>>

\* _setFatalError: everybody who waits is told, and the worker is terminated with
\* what it has not run.
SetFatal(w, retryable) ==
    IF ~Alive(w)
    THEN UNCHANGED <<client, inbox>>
    ELSE /\ fatal' = TRUE
         /\ stage' = Rejected({c \in Call : stage[c] = "pending"}, retryable)
         /\ handlers' = {} /\ oneWay' = {} /\ inbox' = {}
         /\ UNCHANGED <<attempt, worker>>

\* An error or messageerror event of a worker, or a response without an ID.
WorkerFails(w) ==
    /\ w \in broken
    /\ SetFatal(w, TRUE)
    /\ UNCHANGED <<late, outside>>

\* The timer of an attempt.
TimesOut(id) ==
    /\ id \in handlers /\ late[id.call]
    /\ SetFatal(id.worker, TRUE)
    /\ UNCHANGED <<late, outside>>

DeadlinePasses(c) ==
    /\ HasDeadline(c) /\ stage[c] \in {"pending", "retrying"} /\ ~late[c]
    /\ late' = [late EXCEPT ![c] = TRUE]
    /\ UNCHANGED <<client, inbox, outside>>

-------------------------------------------------------------------------------
(* Requests: _invokeOnce and post *)

\* _getWorkerForRequest throws: a broken worker cannot be replaced.
NotRestarted(c) ==
    /\ fatal
    /\ stage' = [stage EXCEPT ![c] = "failed"]
    /\ attempt' = [attempt EXCEPT ![c] = @ + 1]
    /\ UNCHANGED <<late, worker, fatal, handlers, oneWay, inbox, outside>>

\* The worker of the request, a new one if the last one has failed, and its ID:
\* _requestId goes on over all workers, so no two attempts share one.
Current == IF fatal THEN worker + 1 ELSE worker
NewId(c) == [call |-> c, attempt |-> attempt[c] + 1, worker |-> Current]
Begin(c) ==
    /\ attempt' = [attempt EXCEPT ![c] = @ + 1]
    /\ worker' = Current

\* Mutant: a new worker is started, and the old failure kept.
MutPosted(c) ==
    /\ Begin(c) /\ UNCHANGED fatal
    /\ stage' = [stage EXCEPT ![c] = "pending"]
    /\ IF Kind[c] = "oneway"
       THEN oneWay' = oneWay \cup {NewId(c)} /\ UNCHANGED handlers
       ELSE handlers' = handlers \cup {NewId(c)} /\ UNCHANGED oneWay
    /\ inbox' = inbox \cup {NewId(c)}
    /\ UNCHANGED <<late, responses, broken, runs>>

\* The message is on its way.
Posted(c) ==
    /\ Begin(c) /\ fatal' = FALSE
    /\ stage' = [stage EXCEPT ![c] = "pending"]
    /\ IF Kind[c] = "oneway"
       THEN oneWay' = oneWay \cup {NewId(c)} /\ UNCHANGED handlers
       ELSE handlers' = handlers \cup {NewId(c)} /\ UNCHANGED oneWay
    /\ inbox' = inbox \cup {NewId(c)}
    /\ UNCHANGED <<late, responses, broken, runs>>

\* Its parameters cannot be cloned: no harm to anybody else.
NotCloned(c) ==
    /\ Begin(c) /\ fatal' = FALSE
    /\ stage' = [stage EXCEPT ![c] = "failed"]
    /\ UNCHANGED <<late, handlers, oneWay, inbox, outside>>

\* postMessage throws otherwise: the worker is given up, and nobody tries again.
NotPosted(c) ==
    /\ Current \in Breakable
    /\ Begin(c) /\ fatal' = TRUE
    /\ stage' = Rejected({d \in Call : stage[d] = "pending" \/ d = c}, FALSE)
    /\ handlers' = {} /\ oneWay' = {} /\ inbox' = {}
    /\ broken' = broken \cup {Current}
    /\ UNCHANGED <<late, responses, runs>>

Request(c) == NotRestarted(c) \/ Posted(c) \/ NotCloned(c) \/ NotPosted(c)

\* invoke, to its first attempt, or post
Issue(c) == stage[c] = "idle" /\ Request(c)

\* invoke goes on after an attempt that failed with its worker.
Retry(c) ==
    /\ stage[c] = "retrying"
    /\ \/ ~late[c] /\ Request(c)
       \/ /\ late[c]
          /\ stage' = [stage EXCEPT ![c] = "failed"]
          /\ UNCHANGED <<attempt, late, worker, fatal, handlers, oneWay, inbox, outside>>

-------------------------------------------------------------------------------
(* The worker, and its responses *)

Breaks ==
    /\ ~fatal /\ worker \in Breakable \ broken
    /\ broken' = broken \cup {worker}
    /\ UNCHANGED <<client, late, inbox, responses, runs>>

\* A worker runs a request: _onMessageAsync.  It posts one response, which the
\* client can read or not, or none when neither the response nor its error can
\* be posted.
Runs(id) ==
    /\ id \in inbox
    /\ inbox' = inbox \ {id}
    /\ runs' = [runs EXCEPT ![id.call] = @ + 1]
    /\ \/ responses' = responses \cup {[id |-> id, valid |-> TRUE]} /\ UNCHANGED broken
       \/ /\ worker \in Breakable
          /\ responses' = responses \cup {[id |-> id, valid |-> FALSE]}
          /\ broken' = broken \cup {worker}
       \/ UNCHANGED <<responses, broken>>
    /\ UNCHANGED <<client, late>>

\* Mutant: a response is taken whatever worker has sent it.
MutIsStale(w) == fatal

IsStale(w) == w # worker \/ fatal

\* A response settles its call, with a result or with an error of the action.
Settles(id) ==
    /\ handlers' = handlers \ {id} /\ oneWay' = oneWay \ {id}
    /\ stage' = [stage EXCEPT ![id.call] = "returned"]
    /\ UNCHANGED <<attempt, worker, fatal, inbox>>

\* _onMessage.  An unknown ID, or an error that cannot be read, ends the worker.
Response(m) ==
    /\ responses' = responses \ {m}
    /\ IF IsStale(m.id.worker)
       THEN UNCHANGED <<client, inbox>>
       ELSE IF m.id \in oneWay \/ (m.id \in handlers /\ m.valid)
       THEN Settles(m.id)
       ELSE SetFatal(worker, TRUE)
    /\ UNCHANGED <<late, broken, runs>>

-------------------------------------------------------------------------------

Client(c) == Issue(c) \/ Retry(c) \/ DeadlinePasses(c)

Next ==
    \/ \E c \in Call : Client(c)
    \/ \E id \in handlers : TimesOut(id)
    \/ \E w \in broken : WorkerFails(w)
    \/ Breaks
    \/ \E id \in inbox : Runs(id)
    \/ \E m \in responses : Response(m)

Spec == Init /\ [][Next]_vars

\* Timers fire and settled promises go on.  The worker owes nothing.
FairSpec ==
    /\ Spec
    /\ \A c \in Call : WF_vars(Retry(c)) /\ WF_vars(DeadlinePasses(c))
    /\ WF_vars(\E id \in handlers : TimesOut(id))

-------------------------------------------------------------------------------
(* Properties *)

Ids == [call : Call, attempt : 1..2, worker : 1..worker]
Waiting == handlers \cup oneWay

TypeOK ==
    /\ stage \in [Call -> {"idle", "pending", "retrying", "returned", "failed"}]
    /\ attempt \in [Call -> 0..2] /\ late \in [Call -> BOOLEAN]
    /\ worker \in Nat \ {0} /\ fatal \in BOOLEAN
    /\ handlers \subseteq Ids /\ oneWay \subseteq Ids
    /\ inbox \subseteq Ids
    /\ responses \subseteq [id : Ids, valid : BOOLEAN]
    /\ broken \subseteq 1..worker
    /\ runs \in [Call -> Nat]

\* Whoever waits is registered once, under the ID of his last request, with the
\* worker that is there; nobody waits for a worker that is not.
WaitingShape ==
    /\ fatal => Waiting = {}
    /\ \A id \in Waiting :
          id.worker = worker /\ stage[id.call] = "pending"
    /\ \A id \in handlers : Kind[id.call] # "oneway"
    /\ \A id \in oneWay : Kind[id.call] = "oneway"
    /\ \A i, j \in Waiting : i.call = j.call => i = j
    /\ \A c \in Call : stage[c] = "pending" => \E id \in Waiting : id.call = c

\* What a worker still has to run, or has answered, somebody waits for, as long
\* as the worker is alive; it is answered once, after it has run.
TransitShape ==
    /\ inbox \subseteq Waiting
    /\ \A m \in responses :
          /\ Alive(m.id.worker) => m.id \in Waiting
          /\ m.id \notin inbox /\ runs[m.id.call] > 0
          /\ ~m.valid => m.id.worker \in broken
    /\ \A m, n \in responses : m.id = n.id => m = n

\* No request is ahead of its call, and each attempt runs at most once.
AttemptShape ==
    /\ \A id \in Waiting : id.attempt <= attempt[id.call]
    /\ \A m \in responses : m.id.attempt <= attempt[m.id.call]
    /\ \A c \in Call :
          /\ attempt[c] <= Attempts(c) /\ runs[c] <= attempt[c]
          /\ stage[c] = "idle" <=> attempt[c] = 0
          /\ stage[c] = "retrying" => attempt[c] < Attempts(c)
          /\ late[c] => stage[c] # "idle"
    /\ \A id \in inbox : runs[id.call] < attempt[id.call]

\* The inductive invariant.
ClientInv == TypeOK /\ WaitingShape /\ TransitShape /\ AttemptShape

\* A worker is terminated only when it has broken or has let a deadline pass: no
\* response or event of a predecessor, and no acknowledgement, ends it.
HealthyWorkerKept ==
    [][~fatal /\ fatal' =>
          worker \in broken \/ worker' \in broken' \/ \E c \in Call : stage[c] = "pending" /\ late[c]]_vars

\* Nothing is sent for a call whose deadline has passed (invoke).
SentInTime == [][\A c \in Call : late[c] => \A id \in inbox' \ inbox : id.call # c]_vars

Calls == INSTANCE AtMostOnceCalls WITH
    Repeatable <- {c \in Call : Kind[c] = "lookup"},
    status <- [c \in Call |-> IF stage[c] = "retrying" THEN "pending" ELSE stage[c]]

\* Mutations run at most once, lookups at most twice, over worker failures, lost
\* and late messages; nothing runs once its caller has been told that it failed.
CallsSpec == Calls!Spec

\* Every call with a deadline ends.
EveryCallEnds ==
    \A c \in Call : HasDeadline(c) => (stage[c] = "pending" ~> stage[c] \in {"returned", "failed"})
=============================================================================
