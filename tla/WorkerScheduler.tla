--------------------------- MODULE WorkerScheduler ---------------------------
(***************************************************************************)
(* The request scheduler of OffscreenDictionaryWorkerHandler, and the        *)
(* readiness of its database.                                                *)
(*                                                                          *)
(* Lookups run concurrently; every other request waits in one queue, and     *)
(* waits again for the lookups that run when its turn comes.  A lookup       *)
(* received behind queued requests joins the queue.  Status requests bypass  *)
(* all of this, and may open the database on their own.                      *)
(***************************************************************************)
EXTENDS Naturals, Sequences, FiniteSets

CONSTANTS
    Request,    \* messages to the worker
    Kind,       \* the kinds of request that occur
    Nobody,     \* no request
    MaxFaults   \* bound: openings, closes and resets that fail

Kinds == {"lookup", "mutation", "translatorPrepare", "refresh", "purge",
          "suspend", "resume", "import", "status"}

ASSUME RequestAssumption == IsFiniteSet(Request) /\ Nobody \notin Request
ASSUME KindAssumption == Kind \subseteq Kinds /\ MaxFaults \in Nat

Stages ==
    {"unsent", "queued",   \* not received; in the request queue
     "draining",           \* has its turn, waits for lookups
     "waiting",            \* for _prepareDatabasePromise
     "joining",            \* a purge that waits for _prepareDatabasePromise
     "closing",            \* in DictionaryDatabase.close
     "resetting", "reopening",   \* in DictionaryDatabase.purge
     "body",               \* past the preparation, in its own database work
     "failed", "answered"} \* has thrown; response posted

VARIABLES
    kind,             \* the action of each message
    stage,            \* how far the handler is with it: see Stages
    queue,            \* _requestQueue: what is chained and not started
    current,          \* the exclusive request that has its turn
    awaited,          \* the lookups it waits for first
    queuedExclusive,  \* _queuedExclusiveRequestCount
    queuedImport,     \* _queuedImportRequestCount
    importActive,     \* _activeImportAbortController # null
    suspended,        \* _databaseSuspended
    ready,            \* _databaseReady
    promise,          \* _prepareDatabasePromise: none, opens, or waits for a purge
    db,               \* DictionaryDatabase: closed, opening (_db still null),
                      \* halfopen (_db set), open
    ahead,            \* history: the requests pending when this one came
    faults            \* failures so far

requests == <<kind, ahead>>
turns == <<queue, current, awaited, queuedExclusive>>
imports == <<queuedImport, importActive>>
database == <<suspended, ready, promise, db>>
vars == <<kind, stage, queue, current, awaited, queuedExclusive, queuedImport,
          importActive, suspended, ready, promise, db, ahead, faults>>

Init ==
    /\ kind = [r \in Request |-> "none"]
    /\ stage = [r \in Request |-> "unsent"]
    /\ queue = << >>
    /\ current = Nobody
    /\ awaited = {}
    /\ queuedExclusive = 0 /\ queuedImport = 0
    /\ importActive = FALSE
    /\ suspended = FALSE /\ ready = FALSE
    /\ promise = "none"
    /\ db = "closed"
    /\ ahead = [r \in Request |-> {}]
    /\ faults = 0

Fault == faults < MaxFaults /\ faults' = faults + 1

-------------------------------------------------------------------------------
(* Requests *)

Finished == {"unsent", "answered"}
Pending == {r \in Request : stage[r] \notin Finished /\ kind[r] # "status"}

\* _activeConcurrentLookupPromises
ActiveLookups ==
    {r \in Request : kind[r] = "lookup" /\ stage[r] \in {"waiting", "body", "failed"}}

Waiting == {r \in Request : stage[r] = "waiting"}
Closing == {r \in Request : stage[r] = "closing"}
IsPurging == current # Nobody /\ stage[current] \in {"resetting", "reopening"}

Goes(W, to) == stage' = [r \in Request |-> IF r \in W THEN to ELSE stage[r]]
ImportIn(W) == current \in W /\ kind[current] = "import"

\* Requests W go on once the database is there.  An import among them leaves the
\* count of the queued ones and becomes the active one, unless its receipt is
\* there: then it throws at once.
Proceed(W) ==
    /\ Goes(W, "body")
    /\ importActive' \in {importActive, importActive \/ ImportIn(W)}
    /\ queuedImport' = IF ImportIn(W) THEN queuedImport - 1 ELSE queuedImport

\* Mutant: an import that throws before it runs is still counted.
MutFail(W) == Goes(W, "failed") /\ UNCHANGED imports

\* Requests W throw.  An import that has not run yet leaves the count.
Fail(W) ==
    /\ Goes(W, "failed")
    /\ queuedImport' = IF ImportIn(W) THEN queuedImport - 1 ELSE queuedImport
    /\ UNCHANGED importActive

-------------------------------------------------------------------------------
(* Readiness *)

\* DictionaryDatabase.isPrepared: the connection exists, if only just.
IsPrepared == db \in {"halfopen", "open"}

\* The translator is prepared as soon as the connection is found; it may throw.
TranslatorPrepares(W) ==
    \/ ready' = TRUE /\ Proceed(W) /\ UNCHANGED faults
    \/ Fault /\ ready' = FALSE /\ Fail(W)

\* Mutant: a ready flag is believed without a look at the connection.
MutEnsurePrepared(r, wasReady, prepared) ==
    IF promise # "none"
    THEN /\ Goes({r}, "waiting")
         /\ ready' = wasReady
         /\ UNCHANGED <<imports, promise, db, faults>>
    ELSE IF wasReady
    THEN Proceed({r}) /\ ready' = TRUE /\ db' = (IF prepared THEN db ELSE "closed")
         /\ UNCHANGED <<promise, faults>>
    ELSE IF prepared
    THEN TranslatorPrepares({r}) /\ UNCHANGED <<promise, db>>
    ELSE /\ Goes({r}, "waiting")
         /\ ready' = FALSE
         /\ promise' = IF IsPurging THEN "purge" ELSE "open"
         /\ db' = IF IsPurging THEN db ELSE "opening"
         /\ UNCHANGED <<imports, faults>>

\* _ensureDatabasePrepared for request r, not suspended, when _databaseReady is
\* wasReady and isPrepared() is prepared.  While the database is purged its
\* prepare() waits for the purge instead of opening anything.
EnsurePrepared(r, wasReady, prepared) ==
    IF promise # "none"
    THEN /\ Goes({r}, "waiting")
         /\ ready' = wasReady
         /\ UNCHANGED <<imports, promise, db, faults>>
    ELSE IF wasReady /\ prepared
    THEN Proceed({r}) /\ ready' = TRUE /\ UNCHANGED <<promise, db, faults>>
    ELSE IF prepared
    THEN TranslatorPrepares({r}) /\ UNCHANGED <<promise, db>>
    ELSE /\ Goes({r}, "waiting")
         /\ ready' = FALSE
         /\ promise' = IF IsPurging THEN "purge" ELSE "open"
         /\ db' = IF IsPurging THEN db ELSE "opening"
         /\ UNCHANGED <<imports, faults>>

\* The prepare promise rejects for everybody who waits, and is forgotten; so does
\* the opening for a close that waits for it.
PreparationFails ==
    /\ Fault
    /\ ready' = FALSE
    /\ Fail(Waiting \cup Closing)
    /\ promise' = "none"

\* openOpfsDatabase returns: the connection exists before the stores, the schema
\* and the recovery are done.
OpeningConnects ==
    /\ db = "opening"
    /\ db' = "halfopen"
    /\ UNCHANGED <<requests, stage, turns, imports, suspended, ready, promise, faults>>

\* DictionaryDatabase.prepare, called by _ensureDatabasePrepared, ends.
OpeningEnds ==
    /\ promise = "open"
    /\ \/ db = "halfopen" /\ db' = "open" /\ promise' = "none" /\ TranslatorPrepares(Waiting)
       \/ db' = "closed" /\ PreparationFails
    /\ UNCHANGED <<requests, turns, suspended>>

-------------------------------------------------------------------------------
(* Receipt of a message: _onMessage *)

Arrives(r, k) ==
    /\ stage[r] = "unsent" /\ k \in Kind
    /\ kind' = [kind EXCEPT ![r] = k]
    /\ ahead' = [ahead EXCEPT ![r] = Pending]

ImportsBusy == queuedImport > 0 \/ importActive

Chain(r) ==
    /\ Goes({r}, "queued")
    /\ queue' = Append(queue, r)
    /\ UNCHANGED <<current, awaited>>

\* A status request (lookupOnly) bypasses the queue.  It may be answered from
\* memory, and is when access is suspended.
ReceiveStatus(r) ==
    /\ Arrives(r, "status")
    /\ \/ Goes({r}, "answered") /\ UNCHANGED <<imports, ready, promise, db, faults>>
       \/ ~suspended /\ EnsurePrepared(r, ready, IsPrepared)
    /\ UNCHANGED <<turns, suspended>>

\* An import is refused (ImportOperations has the reasons) or counted and queued.
ReceiveImport(r) ==
    /\ Arrives(r, "import")
    /\ \/ Goes({r}, "answered") /\ UNCHANGED <<turns, queuedImport>>
       \/ /\ Chain(r)
          /\ queuedImport' = queuedImport + 1
          /\ queuedExclusive' = queuedExclusive + 1
    /\ UNCHANGED <<importActive, database, faults>>

\* A lookup starts to run: _startConcurrentLookup.
StartLookup(r) ==
    /\ IF suspended
       THEN Fail({r}) /\ UNCHANGED <<ready, promise, db, faults>>
       ELSE EnsurePrepared(r, ready, IsPrepared)
    /\ UNCHANGED suspended

\* Mutant: a lookup waits for the request that has its turn, not for the queue.
MutReceiveLookup(r) ==
    /\ Arrives(r, "lookup")
    /\ \/ ImportsBusy /\ Goes({r}, "answered") /\ UNCHANGED <<turns, imports, database, faults>>
       \/ ~ImportsBusy /\ current = Nobody /\ StartLookup(r) /\ UNCHANGED turns
       \/ /\ ~ImportsBusy /\ current # Nobody /\ Chain(r)
          /\ UNCHANGED <<queuedExclusive, imports, database, faults>>

\* A lookup is refused while an import waits or runs, starts at once when nothing
\* exclusive is pending, and joins the queue otherwise.
ReceiveLookup(r) ==
    /\ Arrives(r, "lookup")
    /\ \/ ImportsBusy /\ Goes({r}, "answered") /\ UNCHANGED <<turns, imports, database, faults>>
       \/ ~ImportsBusy /\ queuedExclusive = 0 /\ StartLookup(r) /\ UNCHANGED turns
       \/ /\ ~ImportsBusy /\ queuedExclusive > 0 /\ Chain(r)
          /\ UNCHANGED <<queuedExclusive, imports, database, faults>>

\* Any other request is refused while an import waits or runs, and queued otherwise.
ReceiveExclusive(r, k) ==
    /\ k \notin {"status", "import", "lookup"}
    /\ Arrives(r, k)
    /\ \/ ImportsBusy /\ Goes({r}, "answered") /\ UNCHANGED turns
       \/ ~ImportsBusy /\ Chain(r) /\ queuedExclusive' = queuedExclusive + 1
    /\ UNCHANGED <<imports, database, faults>>

-------------------------------------------------------------------------------
(* The request queue *)

\* A lookup at the head of the queue starts, and the queue goes on.
DequeueLookup ==
    /\ current = Nobody /\ queue # << >> /\ kind[Head(queue)] = "lookup"
    /\ queue' = Tail(queue)
    /\ StartLookup(Head(queue))
    /\ UNCHANGED <<requests, current, awaited, queuedExclusive>>

\* Mutant: the snapshot of the lookups to wait for is left out.
MutDequeueExclusive ==
    /\ current = Nobody /\ queue # << >> /\ kind[Head(queue)] # "lookup"
    /\ queue' = Tail(queue)
    /\ current' = Head(queue)
    /\ awaited' = {}
    /\ Goes({Head(queue)}, "draining")
    /\ UNCHANGED <<requests, queuedExclusive, imports, database, faults>>

\* Mutant: the snapshot counts the lookups that are still in the queue.
MutDequeueQueued ==
    /\ current = Nobody /\ queue # << >> /\ kind[Head(queue)] # "lookup"
    /\ queue' = Tail(queue)
    /\ current' = Head(queue)
    /\ awaited' = {l \in Pending : kind[l] = "lookup"}
    /\ Goes({Head(queue)}, "draining")
    /\ UNCHANGED <<requests, queuedExclusive, imports, database, faults>>

\* An exclusive request has its turn, and waits for the lookups that run now.
DequeueExclusive ==
    /\ current = Nobody /\ queue # << >> /\ kind[Head(queue)] # "lookup"
    /\ queue' = Tail(queue)
    /\ current' = Head(queue)
    /\ awaited' = ActiveLookups
    /\ Goes({Head(queue)}, "draining")
    /\ UNCHANGED <<requests, queuedExclusive, imports, database, faults>>

\* The promises of the awaited lookups have settled.
Drained(r) == current = r /\ stage[r] = "draining" /\ \A l \in awaited : stage[l] = "answered"

Shared == UNCHANGED <<requests, turns>>

\* _invokeAction refuses what requires the database while access is suspended.
InvokeSuspended(r) ==
    /\ Drained(r)
    /\ suspended /\ kind[r] \notin {"suspend", "resume"}
    /\ Fail({r})
    /\ Shared /\ UNCHANGED <<database, faults>>

\* Actions which start by preparing the database, imports included.
InvokePrepared(r) ==
    /\ Drained(r)
    /\ ~suspended /\ kind[r] \in {"mutation", "import"}
    /\ EnsurePrepared(r, ready, IsPrepared)
    /\ Shared /\ UNCHANGED suspended

\* translatorPrepareOffscreen
InvokeTranslatorPrepare(r) ==
    /\ Drained(r)
    /\ ~suspended /\ kind[r] = "translatorPrepare"
    /\ EnsurePrepared(r, FALSE, IsPrepared)
    /\ Shared /\ UNCHANGED suspended

\* databaseRefreshOffscreen, to the close of an open database
InvokeRefresh(r) ==
    /\ Drained(r)
    /\ ~suspended /\ kind[r] = "refresh"
    /\ IF IsPrepared
       THEN ready' = FALSE /\ Goes({r}, "closing") /\ UNCHANGED <<imports, promise, db, faults>>
       ELSE EnsurePrepared(r, FALSE, FALSE)
    /\ Shared /\ UNCHANGED suspended

\* databaseSetSuspendedOffscreen(true), to the close of an open database
InvokeSuspend(r) ==
    /\ Drained(r)
    /\ kind[r] = "suspend"
    /\ suspended' = TRUE /\ ready' = FALSE
    /\ Goes({r}, IF IsPrepared THEN "closing" ELSE "body")
    /\ Shared /\ UNCHANGED <<imports, promise, db, faults>>

\* databaseSetSuspendedOffscreen(false)
InvokeResume(r) ==
    /\ Drained(r)
    /\ kind[r] = "resume"
    /\ suspended' = FALSE
    /\ EnsurePrepared(r, ready, IsPrepared)
    /\ Shared

\* DictionaryDatabase.close ends, after an opening in flight; cleanup errors come
\* when the connection is gone.
Closes(r) ==
    /\ current = r /\ stage[r] = "closing"
    /\ \/ /\ db = "open" /\ kind[r] = "refresh"
          /\ EnsurePrepared(r, ready, FALSE)
       \/ /\ db = "open" /\ kind[r] = "suspend"
          /\ Goes({r}, "body") /\ db' = "closed"
          /\ UNCHANGED <<imports, ready, promise, faults>>
       \/ /\ db = "open" /\ Fault
          /\ Goes({r}, "failed") /\ db' = "closed"
          /\ UNCHANGED <<imports, ready, promise>>
    /\ Shared /\ UNCHANGED suspended

\* databasePurgeOffscreen joins a preparation in flight, whatever comes of it;
\* the purge then releases the connection before its first await.
InvokePurge(r) ==
    /\ \/ Drained(r) /\ ~suspended /\ kind[r] = "purge"
       \/ current = r /\ stage[r] = "joining" /\ promise = "none"
    /\ IF promise # "none"
       THEN Goes({r}, "joining") /\ UNCHANGED <<ready, db>>
       ELSE Goes({r}, "resetting") /\ ready' = FALSE /\ db' = "closed"
    /\ Shared /\ UNCHANGED <<imports, suspended, promise, faults>>

\* The stores are reset and the files deleted: the purge opens a new database.
PurgeReopens(r) ==
    /\ current = r /\ stage[r] = "resetting"
    /\ Goes({r}, "reopening")
    /\ db' = "opening"
    /\ Shared /\ UNCHANGED <<imports, suspended, ready, promise, faults>>

\* The purge ends; those who waited for it go on, or fail with it.  It fails too
\* when only the resets failed, and then leaves an open database.
PurgeEnds(r) ==
    /\ current = r /\ stage[r] = "reopening"
    /\ promise' = "none"
    /\ \/ /\ db = "halfopen" /\ db' = "open"
          /\ IF promise = "purge"
             THEN TranslatorPrepares(Waiting \cup {r})
             ELSE Proceed({r}) /\ UNCHANGED <<ready, faults>>
       \/ /\ Fault
          /\ db' \in IF db = "halfopen" THEN {"open", "closed"} ELSE {"closed"}
          /\ Fail(Waiting \cup {r}) /\ UNCHANGED ready
    /\ Shared /\ UNCHANGED suspended

\* A lookup or a status request ends.
Answer(r) ==
    /\ stage[r] \in {"body", "failed"} /\ kind[r] \in {"lookup", "status"}
    /\ Goes({r}, "answered")
    /\ Shared /\ UNCHANGED <<imports, database, faults>>

\* An exclusive request ends: the finally of its action, its response, and the
\* finally of its place in the queue.
FinishExclusive(r) ==
    /\ current = r /\ stage[r] \in {"body", "failed"}
    /\ Goes({r}, "answered")
    /\ current' = Nobody /\ awaited' = {}
    /\ queuedExclusive' = queuedExclusive - 1
    /\ importActive' = (importActive /\ kind[r] # "import")
    /\ UNCHANGED <<requests, queue, queuedImport, database, faults>>

-------------------------------------------------------------------------------

Receive == \E r \in Request :
    \/ ReceiveStatus(r) \/ ReceiveImport(r) \/ ReceiveLookup(r)
    \/ \E k \in Kind : ReceiveExclusive(r, k)

Work(r) ==
    \/ InvokeSuspended(r) \/ InvokePrepared(r) \/ InvokeTranslatorPrepare(r)
    \/ InvokeRefresh(r) \/ InvokeSuspend(r) \/ InvokeResume(r) \/ InvokePurge(r)
    \/ Closes(r) \/ PurgeReopens(r) \/ PurgeEnds(r)
    \/ Answer(r) \/ FinishExclusive(r)

Next ==
    \/ Receive
    \/ OpeningConnects \/ OpeningEnds
    \/ DequeueLookup \/ DequeueExclusive
    \/ \E r \in Request : Work(r)

Spec == Init /\ [][Next]_vars

\* Every await in the worker settles, and the promise queue goes on.
FairSpec ==
    /\ Spec
    /\ WF_vars(OpeningConnects) /\ WF_vars(OpeningEnds)
    /\ WF_vars(DequeueLookup) /\ WF_vars(DequeueExclusive)
    /\ \A r \in Request : WF_vars(Work(r))

-------------------------------------------------------------------------------
(* Properties *)

TypeOK ==
    /\ kind \in [Request -> Kind \cup {"none"}]
    /\ stage \in [Request -> Stages]
    /\ queue \in Seq(Request)
    /\ current \in Request \cup {Nobody}
    /\ awaited \subseteq Request
    /\ queuedExclusive \in Nat /\ queuedImport \in Nat
    /\ importActive \in BOOLEAN /\ suspended \in BOOLEAN /\ ready \in BOOLEAN
    /\ promise \in {"none", "open", "purge"}
    /\ db \in {"closed", "opening", "halfopen", "open"}
    /\ ahead \in [Request -> SUBSET Request]
    /\ faults \in 0..MaxFaults

Exclusive == Kinds \ {"lookup", "status"}
Started(r) == stage[r] \notin {"unsent", "queued", "draining", "answered"}

\* The queue holds each request that is chained and not started, once; status
\* requests never join it.
QueueShape ==
    /\ \A r \in Request : stage[r] = "queued" <=> \E i \in DOMAIN queue : queue[i] = r
    /\ \A i, j \in DOMAIN queue : queue[i] = queue[j] => i = j
    /\ \A r \in Request : kind[r] = "none" <=> stage[r] = "unsent"
    /\ \A r \in Request : kind[r] = "status" => stage[r] # "queued"

\* One exclusive request has its turn, and each stage belongs to the requests
\* that can be in it.  While it drains, it waits for every lookup that runs.
TurnShape ==
    /\ \A r \in Request :
          /\ r = current <=> kind[r] \in Exclusive /\ stage[r] \notin {"queued", "answered"}
          /\ kind[r] \in {"lookup", "status"} =>
                stage[r] \in {"queued", "waiting", "body", "failed", "answered"}
          /\ stage[r] \in {"joining", "resetting", "reopening"} => kind[r] = "purge"
          /\ stage[r] = "closing" => kind[r] \in {"refresh", "suspend"}
          /\ stage[r] = "waiting" => kind[r] \notin {"suspend", "purge"}
    /\ \A l \in awaited : kind[l] = "lookup" /\ stage[l] # "queued"
    /\ current # Nobody /\ stage[current] = "draining" => ActiveLookups \subseteq awaited

\* What was pending when a request came is before it in the queue, has its turn,
\* or runs; and runs as an awaited lookup once the request has its turn.
OrderShape ==
    /\ \A r \in Request : \A e \in ahead[r] : kind[e] \notin {"none", "status"}
    /\ \A i \in DOMAIN queue : \A e \in ahead[queue[i]] :
          \/ stage[e] = "answered" \/ e = current \/ e \in ActiveLookups
          \/ \E j \in DOMAIN queue : j < i /\ queue[j] = e
    /\ current # Nobody /\ stage[current] = "draining" =>
          \A e \in ahead[current] : stage[e] = "answered" \/ e \in ActiveLookups

\* Requests other than status requests wait only for the database to open, and
\* only while access is not suspended.  A purge opens the database itself, after
\* it has closed it; a close has something to close, and a refresh is not suspended.
DatabaseShape ==
    /\ \A r \in Request : stage[r] = "waiting" /\ kind[r] # "status" =>
          promise = "open" /\ ~suspended
    /\ IsPurging => promise # "open"
    /\ current # Nobody /\ stage[current] = "resetting" => db = "closed"
    /\ current # Nobody /\ stage[current] = "closing" =>
          IsPrepared /\ (kind[current] = "refresh" => ~suspended)

\* While an exclusive request works, whatever it waits for, no lookup runs: not
\* one received before it, and not one received meanwhile
\* (_activeConcurrentLookupPromises, _queuedExclusiveRequestCount).
MutationAlone == current # Nobody /\ Started(current) => ActiveLookups = {}

\* Requests take effect in the order of their receipt: a lookup runs when every
\* exclusive request received before it has ended, and an exclusive request when
\* everything received before it has (the chain of _onMessage).
InOrder ==
    \A r \in Request : \A e \in ahead[r] :
        Started(r) /\ kind[r] # "status" /\ (kind[r] # "lookup" \/ kind[e] # "lookup")
            => stage[e] = "answered"

\* Past _ensureDatabasePrepared a request finds the database open, not about to
\* open or closed meanwhile, and access not suspended.
BodiesFindDatabase ==
    \A r \in Request :
        stage[r] = "body" /\ kind[r] \notin {"status", "suspend", "purge"}
            => db = "open" /\ ~suspended

\* _prepareDatabasePromise is there exactly while something settles it, and
\* requests wait for it only then; a database that opens has somebody to tell.
PromiseSettles ==
    /\ promise = "open" => db \in {"opening", "halfopen"}
    /\ promise = "purge" => IsPurging
    /\ Waiting # {} => promise # "none"
    /\ db \in {"opening", "halfopen"} =>
          promise = "open" \/ (current # Nobody /\ stage[current] = "reopening")

QueuedImports ==
    {r \in Request : kind[r] = "import" /\ stage[r] \in {"queued", "draining", "waiting"}}
PendingExclusive == {r \in Pending : kind[r] # "lookup"}

\* Both counters are exact, on every path out of an import, so lookups are
\* refused as busy, or queued, exactly while there is a reason.
CountsExact ==
    /\ queuedImport = Cardinality(QueuedImports)
    /\ queuedExclusive = Cardinality(PendingExclusive)
    /\ importActive =>
          current # Nobody /\ kind[current] = "import" /\ stage[current] = "body"

\* What the five properties above rest on, and with them an inductive invariant.
SchedulerInv == TypeOK /\ QueueShape /\ TurnShape /\ OrderShape /\ DatabaseShape

\* What requests find when they arrive is true: the queue and its turn, the shared
\* prepare promise and the counters by which lookups are refused or queued.
BookkeepingSound == SchedulerInv /\ PromiseSettles /\ CountsExact

\* The offscreen-dictionary-worker-readiness test expects, once suspension has been
\* answered, that the handler does not count as ready.
SuspendedNotReady ==
    suspended /\ ~(current # Nobody /\ kind[current] = "suspend") => ~ready

\* Every message is answered.
EveryRequestAnswered == \A r \in Request : stage[r] # "unsent" ~> stage[r] = "answered"
=============================================================================
