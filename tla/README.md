# Manabitan: specifications

TLA+ specifications of the parts of Manabitan whose correctness depends on the order in which
things happen: how a dictionary import becomes visible or disappears without a trace, which
import requests are admitted, how the dictionary worker orders its requests, what a caller may
rely on when that worker or the document around it breaks, how the background page keeps an import
session alive and announces its result, and how lookup indexes are loaded and repaired while the
files below them change. Each part has a module translated from the source, a model
that TLC checks on a small instance, and theorems that TLAPS proves for every instance.

All paths below are relative to `src/ext/js/` unless they begin with `src/`.

## 1. The system

Manabitan is a browser extension (a pop-up dictionary). Dictionaries are large archives; they are
imported into a SQLite database (WebAssembly, in the origin private file system, OPFS) and two
families of files beside it: *term content* (compressed glossaries) and *term records* (shards
with an index). One dedicated worker owns all of them. Every other context talks to it:

    settings page --(extension message, owner port)--> background page (backend.js)
        |                                                  |
        | import archive, transferred                      | control requests, acknowledged
        v                                                  v
    offscreen document (offscreen.js, offscreen-proxy.js: control port, import relay)
                               |
                               |  DictionaryWorkerClient: request IDs, deadlines, retries
                               v
    dictionary worker (offscreen-dictionary-worker.js: queue, registry, readiness)
                               |
                               v
    DictionaryImporter -> DictionaryImportSession -> DictionaryDatabase
                               |                        |
                               v                        v
         content store, record store (OPFS)     SQLite + import journal

| Component | State | Operations | What is hard | What makes it correct |
|---|---|---|---|---|
| **Bulk import lifecycle** (`dictionary/dictionary-database.js`, `dictionary-import-journal.js`, `dictionary-import-session.js`) | summary rows, publication markers, import journal; `_bulkImportState`, `_bulkImportJournalRecord`, `_bulkImportTransactionOpen`, the connection | start, write, finish, abort, recover, prepare, close, purge, delete | three stores without a common transaction; each await can fail, and the worker can be terminated at it; a rollback that fails itself | an installed dictionary is whole; bytes of a failed import are removed, now or at a later start; the lifecycle is never left reserved; the caller is told the truth |
| **Content and record stores** (`dictionary/term-content-opfs-store.js`, `term-record-opfs-store.js`) | files, write queue, import session, index | append, begin/end/roll back a session, delete, verify | partial writes, truncation, index out of date | bytes of the lifecycle above; the index agrees with the files |
| **Import operations** (`background/offscreen-dictionary-worker.js`) | `_importOperations`, `_pendingImportCancellations`, `_retiredImportIssuedAt`, abort controllers | admit, cancel, prune, evict, run, answer | cancellation overtakes its request; requests come twice, late and after a restart; the registry is bounded | an operation is admitted once, a cancelled one never, a published one is not repeated; terminal answers are true |
| **Request scheduler and readiness** (`background/offscreen-dictionary-worker.js`) | `_requestQueue`, active lookups, counters, `_databaseReady`, `_prepareDatabasePromise`, `_databaseSuspended` | receive, queue, run, prepare, refresh, suspend, resume, purge | lookups run concurrently, status requests bypass the queue, one preparation is shared by many, close/open/purge wait for each other | mutations run alone and in order, bodies find an open database, everything is answered |
| **Worker client** (`background/dictionary-worker-client.js`) | `_worker`, `_fatalError`, `_responseHandlers`, `_oneWayRequestIds` | invoke, post, time out, restart | failure of one worker while its messages are still on their way | mutations sent once, lookups twice at most, nothing after the caller was told; a healthy worker is never ended by its predecessor |
| **Importer** (`dictionary/dictionary-importer.js`, `term-bank-source-pipeline.js`) | progress of one archive | read, convert, write, cancel | cancellation against finalization | only its control of the lifecycle is modelled |
| **Offscreen control** (`background/offscreen-proxy.js`, `offscreen.js`) | `_creatingOffscreen`, `_registeringOffscreenPort`, `_currentOffscreenPort`, `_pendingImportOperations` | create, register a port, send, acknowledge, time out, retry, cancel | document and port fail silently; answers come late; a cancellation overtakes its import | a refusal is certain, a cancellation in time holds, nobody waits on a port that was given up |
| **Import response relay** (`offscreen.js`) | response ports of imports | relay | lost packets | settles once; not modelled |
| **Import ownership** (`background/backend.js`, `comm/dictionary-import-owner-client.js`) | owner connections, orphans, `_dictionaryImportOwners`, `_ownedDictionaryImports` | connect, register, hand over, answer, cancel, query, purge, release | the page disappears in the middle, messages are lost, a purge runs beside | the session outlives what may still change the dictionaries, and ends |
| **Update notification** (`background/backend.js`) | import mode, deferred and pending notifications, invalidation generations, the shared refresh, a retry timer | invalidate, refresh, announce, defer, retry | each await can fail; several callers share a refresh; an exit from import mode runs beside other changes | every change is announced, after the caches of its time are gone |
| **Index loading and repair** (`dictionary/term-record-opfs-store.js`) | containers, loaded indexes, generations, repairs, health, mutation queue | load, repair, supersede, back off, begin/end/roll back a session, delete | loads and repairs go on while the container is replaced | lookups come from the container in use; a dictionary is condemned only for cause; repairs exclude mutations |
| **Settings pages** (`pages/settings/dictionary-*.js`) | page queue, staged titles | import, update | update of an installed title | the old dictionary survives until the new one is installed |
| **Lookup, index formats, display, popups, messaging, utilities, options, Anki, external tools** | see `PROJECT.json` | | tokens that discard late results; caches | see `PROJECT.json` for why each is left out so far |

`PROJECT.json` lists every component with its status, and every hazard (what a test would hardly
reach) at its source line with the properties that cover it. A hazard without a property names
the module planned for it.

## 2. Modules

| Module | Models | Lines of code | Role |
|---|---|---|---|
| `BulkImport` | the lifecycle of `DictionaryDatabase`, its journal, both stores, its callers | `dictionary-database.js` 756-1180, 1310-1999, 2344-2375, 4325-4473, 5327-5368; `dictionary-import-journal.js` 40-132; `dictionary-import-session.js` 114-238; the sessions and deletions of both stores | component |
| `ImportOutcomes` | atomic imports with truthful answers | | abstract specification |
| `BulkImportProofs` | | | proofs |
| `ImportOperations` | registry, fence, horizon, the run of an import, restart | `offscreen-dictionary-worker.js` 325-593, 737-761; `dictionary-importer.js` 2703-2776 | component |
| `ImportOperationsProofs` | | | proofs |
| `WorkerScheduler` | queue, concurrent lookups, readiness, close, purge | `offscreen-dictionary-worker.js` 77-258, 407-682; `dictionary-database.js` 756-892, 1840-1934, 9435-9445 | component |
| `WorkerSchedulerProofs` | | | proofs |
| `WorkerClient` | calls to a worker that can be replaced | `dictionary-worker-client.js` | component |
| `AtMostOnceCalls` | calls that run once, or twice if they only read | | abstract specification |
| `WorkerClientProofs` | | | proofs |
| `OffscreenControl` | document, control port, requests, pending imports | `offscreen-proxy.js` 87-486; `offscreen.js` 484-513 | component |
| `Handoff` | requests handed over once, or twice if they transfer nothing | | abstract specification |
| `OffscreenControlProofs` | | | proofs |
| `ImportOwnership` | sessions of pages and the imports they own | `backend.js` 388-396, 473-656, 758-976, 2309-2387, 6085-6132; `comm/api.js` 550-561 | component |
| `ImportOwnershipProofs` | | | proofs |
| `UpdateNotification` | import mode, invalidation, refresh, announcements | `backend.js` 240-256, 511-541, 957-964, 1972-1991, 2173-2193, 4741-4970, 6085-6206 | component |
| `UpdateNotificationProofs` | | | proofs |
| `IndexRepair` | loads and repairs of lookup indexes, and the mutations of the record store | `term-record-opfs-store.js` 800-1066, 1119-1336, 3583-4394, 4718-4867, 6444-6513 | component |
| `IndexRepairProofs` | | | proofs |
| `MC*` | model values, message kinds, symmetry | | model checking |

The parts interact at these points. `WorkerScheduler` runs the request bodies; the body of an import is
the run modelled in `ImportOperations`, whose step `Commit` is `CommitPublication` of `BulkImport`.
What `BulkImport` asks of its callers (`Quiet`: no prepare, close, purge or deletion between an
importer's placeholder and its `startBulkImport`) is what `WorkerScheduler` proves as
`MutationAlone` and `InOrder`. `ImportOutcomes!TellPublished` and the receipt that `ImportOperations`
consults before it imports (`receipts`) are the same committed summary; `ReceiptSound` says that
reading it while another import is in its transaction is safe. `WorkerClient` is the other side of
the scheduler's messages: at most one run per mutation is what `CallsSpec` promises. `Handoff` is the
step before it, from the background page to the document that holds the client; a request in doubt
there is what `ImportOwnership` has to ask the worker about (`unknown`, answered from the registry of
`ImportOperations` or its durable receipt). `ImportOwnership` says when a session ends,
`UpdateNotification` what happens to changes that were announced while it lasted; the release of a
session in the one is the exit from import mode in the other. `IndexRepair` is the reading side of
the record store whose bytes `BulkImport` follows: its import session, rollback and deletion are
the actions of the same name there, seen from a lookup that runs beside them.

### 2.1 BulkImport

An action is the code between two awaits. One lifecycle operation runs at a time: `op` is which,
`pc` the step it is at, `run` the import it works for, `todo` the parts of the step still to settle
(`Promise.allSettled` over both stores) and `ok` whether one has failed. A call which the code makes
wait for the running operation is a call made when that operation has ended.

- *Durable state*: `row` (summary absent, placeholder with `importSuccess: false`, installed), `markers`
  (`dictionaryImportPublications`), `bytes` (for each store, the pieces of each import in its file) and
  `journal` (none, an empty file left by a failed write, or a record with the session and the
  checkpoint of both stores).
- *Object state*: the fields of the same name. `sqlTxn` and `staged` are SQLite's own view of the
  transaction, kept apart from the object's flag `txnOpen`, so that their disagreement is visible.
- *Failure*: `Fault` in an action is the failure of one storage or SQLite operation (bound `MaxFaults`).
  An undo that fails may have removed part of what it should; a failed journal write may leave an
  empty file.
- *Termination*: `Crash` (bound `MaxCrashes`) keeps the durable state and discards the rest, an open
  transaction included. It stands for the end of the worker, the browser or its process. SQLite
  runs with `synchronous = OFF` during an import, so loss of power is outside the code's promise.
- A COMMIT that reports an error has not committed. Several imports may have placed their summary
  at once, though the page imports one at a time.

### 2.2 ImportOperations

`entry` and `updatedAt` are the registry, `fence` the cancellations that overtook their request,
`retired` the horizon that covers what registry and fence had to forget. `now` is the clock, assumed
not to run backwards. Requests and cancellations may arrive at any time, in any order and
repeatedly, which covers duplication, delay and reordering on their channels. Ties in eviction are
broken arbitrarily. Recording a completion, invalidating caches, delivering the response and
finishing is one step, as the code has no await between them. A cancellation counts as refusing an
operation only when its ID was issued in the past: the code does not remember others. History variables describe the present worker; what
survives a restart is the durable receipt.

### 2.3 WorkerScheduler

A message is a `Request` of a `kind`; its `stage` says how far it is: queued, draining (its turn, waiting for
the lookups that run), waiting for the shared preparation, closing, joining or resetting for a purge,
body, failed, answered. `db` is the connection (closed, opening, half open while the stores are
prepared, open). Actions that behave alike share a kind; an action that touches none of this state
is not listed. A message may arrive between two microtasks, which is more than a browser does.
The body of a request is one step: what happens in it is the business of the other modules. A
status request works also without a database, so its body is not required to find one.

### 2.4 WorkerClient

A request ID is the call, the attempt and the worker it is sent to: `_requestId` runs on over all
workers, so IDs are never reused. `inbox` and `responses` are the messages on their way. Terminating a
worker discards its inbox, but its responses and events may still come. A timer fires at its
deadline or later, not before. A worker that is alive owes nothing: it may answer late, never, or
unreadably. `post` has no caller that waits, so the stage `failed` of a one-way call says that the
client has forgotten it. `Breakable` bounds which workers, by generation, may break.

### 2.5 OffscreenControl

Looking for the document, creating it, asking it for a port and waiting for the port are promises
shared by all who need them (`creating`, `registering`); a request moves through `phase`. `via` and
`page` follow each attempt of a request: the port it was posted over and what became of it in the
document. `DocumentLost` discards what was posted or ran there and tells nobody, so that only the
time-outs of the code notice. A time-out may fire at any moment after the request went out, which covers
late answers as well as lost ones; the acceptance timer of structured lookups is part of it. A port that the
document has registered may arrive after it was given up. `Name` lets imports share an
`operationId`; `Registry` is the limit of `_pendingImportOperations`.

### 2.6 ImportOwnership

`call` is the request that brought an import (before or after its hand-over), `op` its record in
`_ownedDictionaryImports`, `mail` the terminal message on the way to its relay, `worker` what has
become of it. `requests` is the chain of `_setDictionaryImportMode`. A message can be garbled, a transport or an
acknowledgement can fail (`MaxFaults`). In `_completeOwnedDictionaryImport` the retirement that follows
an awaited notification is part of the completion; cancellations at the end of a session go out in any
order. `silent` records that a relay ended, or a session was ended over it, without an answer: an
outcome that nobody can know then is exempt from `PublicationAnnounced`.

### 2.7 UpdateNotification

Each change is a thread of its own (`stage`), and so is the transition of the import mode; an action is
the code between two awaits. An `import` is announced for the session that owns it, an `update` at once,
a `mutation` is a deletion or replacement whose caller announces it later. The refresh of the connection is shared:
`refresher` is the thread whose promise the others await, `again` the flag that asks for another
round. An exit from import mode decides whether the import's connection can be reused when its database is open, before it
clears the caches, and keeps to that (`exit.reuse`). `need`, `cleared`, `covered` and `visible` are history: which invalidation a change has to wait for, and
which changes a refresh has made visible to lookups.

### 2.8 IndexRepair

`shard` numbers the incarnations of a container, so that a loaded index (`served`) can be compared with the one
in use. Loads are shared per dictionary (`registered`), repairs run one after the other (`tail`), and mutations wait for the
repairs they have cancelled (`stage = "draining"`). The generation pair is kept as it is in the code
(`epoch`, `gen`, and the stamps taken from them). A call is about one dictionary; the transient retries of one
load are one attempt. What awaited a load or a repair resumes before the next event: its continuations
run in the same turn of the event loop (`Quiet`).

A rollback goes through its stages one await after the other: the writes of the import are given up and all lookups
invalidated (`Abandons`), the files the checkpoint counts on are looked for (`Unrestored` if one is gone, and then nothing
else has changed), what the import created is removed file by file (`Removes`), `_prepare` forgets what the store
knew (`Forgets`, also when a removal failed) and finds the directory and its files again (`Prepares`). A
preparation that fails leaves a store that knows no container (`shard = 0`). Loads go on meanwhile: between the two
invalidations one may publish the index of a container that is removed afterwards; `_prepare` forgets it.
Giving up the writes ends the session, and the generation that a call relies on which takes a repair over; everybody's
health stays as it was. The health that is left so is exempt from `RepairsReal`, for each dictionary, until `_prepare` forgets
it or somebody invalidates it (`Abandoned`); after `Unrestored` that is the next deletion or repair. `CondemnedForCause` exempts only
containers which the import in question has created (`Provisional`): closing its session makes
them good while they are condemned, and their bytes are not the dictionary's before it is published. After a rollback that failed the database
quarantines its connection and prepares the store anew (`_quarantineBulkImportConnection` in
`dictionary-database.js`), which is part of `BulkImport`, not of this module.

## 3. What the runs check

| Run | Bounds | Distinct states | Shows |
|---|---|---|---|
| `bulk_import_safety` | 2 imports, 1 chunk for each store, 2 faults, 1 crash, symmetry | 255,980 | safety and action properties below, and that the lifecycle implements `ImportOutcomes` |
| `bulk_import_settles` | 2 imports, 1 fault, 1 crash | 172,340 | `LifecycleSettles` |
| `import_operations` | 3 operations issued at 1, 1, 2; window 2; both caps 1; clock to 4; 1 restart | 63,072 | the properties of the registry and of the run, `OperationsSettle` |
| `scheduler_safety` | 4 messages of every kind but `translatorPrepare`, 1 fault, symmetry | 1,606,191 | order, exclusion, readiness, counters |
| `scheduler_settles` | 3 messages of the kinds that wait for one another, 1 fault | 111,000 | `EveryRequestAnswered` |
| `scheduler_suspension` | 3 messages: status, suspend, resume, lookup; no fault | violated | the first finding of section 5 |
| `worker_client_calls` | a lookup, a mutation, a one-way request; two workers may break | 79,472 | the client's promises, that it implements `AtMostOnceCalls`, `EveryCallEnds` |
| `offscreen_control_handoff` | an import and a lookup; 1 document lost, failed call or undeliverable message | 197,570 | `ControlInv`, that the proxy implements `Handoff`, `RequestsSettle` |
| `import_ownership_session` | 1 session with 1 import; its page connects up to 3 times; 3 lost messages or failed acknowledgements | 105,551 | the session is kept as long as it must, and ends |
| `update_notification_settles` | a published import, an update, a deletion; 1 session; 1 failure | 149,861 | nothing is announced early, nothing is forgotten, everything is announced |
| `update_notification_recovery` | the same | violated | the second finding of section 5 |
| `index_repair_mutations` | 2 dictionaries, one of them good and loaded, the other missing, good, stale or damaged; 2 calls, one with background repair; an import, its rollback, a deletion; 2 failures | 231,761 | exclusion, what lookups are served, condemnation, rest |

*Why the bounds are enough.* `BulkImport`: two imports make a dictionary that must survive the failure,
recovery or deletion of another; one chunk is enough, since a checkpoint either holds the chunk or
does not, and partial undo acts on sets; two faults are the failure of an operation and of its
rollback, and with a crash the next start has to finish. Larger instances (3 imports and 1 fault, 2
imports and 3 faults, 2 chunks) were run with the same result. `ImportOperations`: with caps of 1 the
registry and the fence overflow at once, two IDs of the same time meet every boundary, and the clock
passes the window of each. `WorkerScheduler`: four messages are a mutation, a lookup before it, one
after it, and a status request beside them. `WorkerClient`: a lookup is sent to a worker that breaks and
again to one that breaks too, beside a mutation that must not be sent again and a request without answer; a larger
instance (2 lookups, one worker that may break, 1,000,323 states) was run for safety with the same result.
`OffscreenControl`: a lost document takes both requests with it, and the retry of the lookup meets the answer of its first
attempt. Two imports, with one `operationId` or two, registry limits 1 and 2, and 2 faults, were run with the same result. `ImportOwnership`: a page that comes back twice meets its own orphaned import in every state; the proofs
cover any number of imports, and 2 imports with 2 connections and 1 fault were run with the same result.
`UpdateNotification`: one change of each kind beside an exit from import mode, and one failure, which is enough for each catch block.
`IndexRepair`: two calls share or succeed a load and a repair, each mutation meets them at every step, the
second dictionary shows what must not be touched, and two failures make a repair fail and back off.

*Safety, `BulkImport`.* `PublishedIntact`: an installed dictionary keeps every byte. `CheckpointRestorable`:
what a later start may roll back can be rolled back, and cuts into nothing installed. `NoOrphans`:
bytes that never published belong to a journal that removes them. `ReceiptSound`: what a status request
answers as published is committed, though it reads through the connection that imports. `LifecycleSound`:
no transaction is left open for a later mutation to join (`NoStrayTransaction`), the lifecycle is reserved only for an
import whose caller still holds it (`ReservationOwned`), and the inductive invariants of section 4 hold (`ControlInv`,
`StorageInv`). As action properties,
`PublicationComplete` (COMMIT only with every byte in place), `JournalReleasedWhenSettled` and
`RemovedOnlyOnRequest`. Imports that a purge was asked to discard are exempt from the storage
properties: a purge whose resets fail leaves files without owner, and says so by failing.
Content bytes of a deleted dictionary stay in the shared files by design until none is left.

*Safety, `ImportOperations`.* `CancelledStayOut`: an import cancelled before it arrived is never admitted.
`NoReadmission`: an ID is admitted once, whatever eviction and expiry forget. `RegistrySound`: what
waits or runs can be cancelled (`OwnedStayRegistered`), the registries keep their bounds (`WithinCaps`), and the
invariant of section 4 holds. `StoppedStayUnpublished`: a cancellation before finalization prevents publication.
`AnswersTruthful`: terminal answers are true. `PublishedOnce`: what is published is not imported again, not even
by the next worker.

*Safety, `WorkerScheduler`.* `MutationAlone`: no lookup runs beside an exclusive request at work. `InOrder`: requests
take effect in the order in which they came. `BodiesFindDatabase`: past its preparation a request finds the
database open and access not suspended. `BookkeepingSound`: the shared preparation is there exactly while something
settles it (`PromiseSettles`), the counters that refuse or queue lookups are right on every path (`CountsExact`), and so
are the shapes of queue and turn (`SchedulerInv`).

*Safety, `WorkerClient`.* `CallsSpec`: mutations run at most once and lookups at most twice, only while their caller
waits. `HealthyWorkerKept`: only a worker that broke, or let
a deadline pass, is terminated. `ClientInv`: nobody waits for a worker that is gone.

*Safety, `OffscreenControl`.* `HandoffSpec`: a request that was refused, or cancelled before it went out, never runs, and only
requests without transfers go out twice. `ControlInv`: whoever waits for an answer waits on the current port, and whoever
waits for the document or a port has somebody who brings it.

*Safety, `ImportOwnership`.* `SessionKept`: an import that was handed over and is undecided keeps its session in import mode.
`PublicationAnnounced`: a publication is announced, or owed to its session, before its import is forgotten.
`OwnershipInv`: what registry, relay and call say of an import agrees with what became of it.

*Safety, `UpdateNotification`.* `InvalidatedFirst`: a change is announced only when caches cleared after it are gone; an older
successful clearing does not acknowledge a newer one. `ObligationKept`: what is pending has a session, the timer
or a transition that will take it up. `NotificationInv`: the inductive invariant.

*Safety, `IndexRepair`.* `RepairInv`: a repair replaces no container beside a mutation, is under way while it is announced, and
lookups are served from the container in use (`ServedCurrent`); it includes the inductive invariant of section 4 (`StoreInv`). `Condemnation`: a dictionary has to be imported again only if the store has no container of it, or that is
missing, unfinished or damaged, or its record IDs clash, and only a mutation lifts the sentence. What both exempt is said in section 2.8.

*Liveness and fairness.* `LifecycleSettles` and `OperationsSettle` assume weak fairness of the running operation
only: every await of the code settles. Callers owe nothing. `EveryRequestAnswered` assumes that openings,
closes and purges settle and that the promise queue goes on. `EveryCallEnds` assumes that timers fire
and settled promises go on; the worker owes nothing, which is why only calls with a deadline are
promised to end. `RequestsSettle` assumes that the browser answers calls of its own interface and that timers
fire; the document owes nothing. `SessionsEnd` assumes that transitions, calls and messages get through in the end, unless
a fault takes them; the page owes nothing. `EveryChangeAnnounced` assumes that awaits settle, that the retry timer
fires and that sessions end, as `SessionsEnd` says of them. `ComesToRest` assumes that file operations and promise chains
end; it needs no fairness between repairs, as the tail serves them in order. Deadlock is checked there: the
only state in which the store may stop is one in which nothing is under way.

Runs set `CHECK_DEADLOCK FALSE` where the system really comes to rest: every import has ended, every message
is answered, the bounds are used up.

Each property is paired with a mutant of the code in `PROJECT.json`: a definition `Mut...` beside the
one it replaces, with a plausible slip (a dropped guard, a missing reset, a wrong order), under which TLC finds
the property violated.

## 4. What is proved

The theorems hold for any sets of imports, operations, requests or calls, any bounds, caps and
times. They assume only the `ASSUME`s of the module: that the absent value is not an element, that bounds are natural
numbers and caps are positive, that IDs were issued at positive times, that kinds are kinds.

**`BulkImportProofs`.** `ControlInv` is inductive: `TypeOK`, `TaskShape` (which steps
belong to which operation), `SessionShape` (a caller waits for exactly the operation that runs for it),
`OutcomeShape` (what is committed, listed and reported agree), `ReservationShape` (the lifecycle is
reserved for the import that the journal names), `TransactionShape` (the object's view of its
transaction is SQLite's) and `PublicationShape` (what the flushes of a finishing import achieved).
None of the safety properties is inductive alone: that no transaction is left behind, for instance, needs to
know which operation holds one. There is a lemma for each action, a step for each conjunct. From it follow
`ReceiptsAreCommitted`, `NoTransactionLeftBehind`, `ReservationIsOwned`, `PublicationsAreComplete`,
`RemovalsAreRequested`, and `ImplementsOutcomes`: every step of the lifecycle is a step of `ImportOutcomes`
or a stutter. COMMIT is `Publish`, the replies are `TellPublished` and `TellFailed`, a crash is
`LoseCallers`, deletion and purge are `Remove`.

Its second part is about the stored bytes, which need an invariant of their own: `StorageInv`, inductive relative to `ControlInv`:

- `JournalShape`: the file and the object's copy of it are the same record, and its checkpoint was taken before its import wrote;
- `SettledShape`: no record is on disk where a step of a new setup, a sweep or a deletion would contradict it;
- `CoverShape`: every checkpoint that a rollback may use covers the installed dictionaries;
- `RestoreShape`: the checkpointed bytes exist until a rollback has restored exactly them, store by store;
- `PurgeShape`: which imports a purge that fails may leave behind;
- `PublishedIntact` and `NoOrphans` themselves.

The two last are not inductive alone: a rollback cuts back to a checkpoint, and that this spares an installed dictionary follows from
`CoverShape`, which in turn holds for the next checkpoint only because the dictionary was intact when it was taken. A rollback that
failed half-way keeps `RestoreShape` for the stores it has settled, and the journal keeps the rest for the next start. From it
follow `PublishedStaysIntact`, `CheckpointsAreRestorable`, `NothingLeaks`, `JournalIsReleasedWhenSettled` (each step that changes the journal
file is looked at once, `FrameOfJournal`) and `LifecycleIsSound`, for any imports, chunks, faults and terminations.

**`ImportOperationsProofs`.** `OperationsInv`: types, `QueueShape`, `RunShape`, `BarredShape` and
`PublicationShape`. The key is `BarredShape`: whatever registry or fence has forgotten, the age of its ID or the horizon
bars. All safety properties of the run follow (`CancelledOperationsStayOut`, `OperationsAreAdmittedOnce`,
`PublicationsHappenOnce`, `StoppedOperationsStayUnpublished`, `TerminalAnswersAreTrue`,
`OwnedOperationsStayRegistered`, `RegistriesKeepTheirBounds`).

**`WorkerSchedulerProofs`.** The inductive invariant joins `OrderInv` (queue, turn, order, exclusion), `DatabaseInv`
(preparation, bodies) and `CountsExact`. Most actions are an `Advance`: they move requests forward through
their stages without touching queue and turn, and one lemma shows that this keeps the order. Whether a body
finds the database rests on exclusion: nothing closes the database but the exclusive request that has its
turn. The counters are compared with the cardinality of the sets they stand for, with the library's facts on finite
sets.

**`WorkerClientProofs`.** `ClientInv` is inductive as it stands: `WaitingShape` (whoever waits is registered once,
with the worker that is there), `TransitShape` (a live worker has only work that somebody waits for)
and `AttemptShape`. From it follow `HealthyWorkersAreKept`, `RequestsAreSentInTime` and `ImplementsCalls`, the refinement
of `AtMostOnceCalls`, in which a retrying call is still pending.

**`OffscreenControlProofs`.** The invariant joins `ControlInv` with what each request knows of its attempts (`Calls`: phase,
attempt and port agree; `Remote`: what the document ran was posted). `ControlInvariant` and `ProxyImplementsHandoff` follow: posting is
`HandOver`, marking a pending import `Withdraw`, and a request that is refused has no attempt that was posted.

**`ImportOwnershipProofs`.** `OwnershipInv` is inductive as it stands: `CallShape`, `RelayShape` and `OpenShape` for each import, and that a purge
retires only imports of unknown outcome. `SessionIsKept` and `PublicationIsAnnounced` follow, for any sessions and
imports.

**`UpdateNotificationProofs`.** `NotificationInv` is inductive: `ModeShape`, `Remembered` (what is pending will be taken up),
`Generations` (how far invalidation has come for each change) and `ExitCovers`: an exit whose generation is still the
latest has cleared everything it is about to announce. `ObligationIsKept` and `AnnouncedIsInvalidated` follow.

The composite properties of the runs (`LifecycleIsSound`, `RegistryIsSound`, `BookkeepingIsSound`) are theorems as well.

**`IndexRepairProofs`.** `RepairInv` is not inductive: that no repair runs beside a mutation rests on when repairs are queued, cancelled and
drained, and that a served index is of the container in use rests on the generations of the loads still under way. `StoreInv` adds:
- `QueueShape`, `SessionShape`: a mutation is asked for once, each stage belongs to the first of the queue, and what is left of a session or a
  rollback; nothing counts as loaded or condemned while a rollback prepares the store;
- `RepairShape`: a repair past "queued" is the head of the tail; all of them are cancelled while a mutation drains; until a repair
  publishes, the generation it works for is the current one or its dictionary is condemned;
- `LoadShape`: generations only grow, so a stamp that is no longer current never becomes current again, and a load whose stamp is
  current read the container in use;
- `RepairsHeld`, `TakenOver`: a dictionary that is said to be under repair has a repair past "queued", or a call that takes its result over and
  still finds the generation which the repair published.

Most steps of calls and repairs leave the files alone; `CallSteps`, `LoadsKept`, `RepairSteps` and `SettledStep` state once what they keep.
`StoreInvariant` and `RepairsAreReal` follow for any dictionaries, calls and number of failures. `SentencesAreJust` adds `CondemnedForCause`,
inductive relative to `StoreInv`: every step is `Steady` (it lifts no sentence, and passes one only for cause), or is one
of the mutations that are treated alone. The stages of a rollback are steps of their own in the proofs: `AllInvalidated` says what both invalidations
establish (every load under way is of an earlier generation), and `QueueShape` that the first of them happens in the
generation the store began with, which is why `Abandoned` can name what it leaves behind.

**Model-checked only.** Liveness (`LifecycleSettles`, `OperationsSettle`, `EveryRequestAnswered`, `EveryCallEnds`,
`RequestsSettle`, `SessionsEnd`, `EveryChangeAnnounced`, `ComesToRest`) is outside the reach of the prover. All
safety properties of the passing runs, invariants, action properties and refinements, are theorems.

## 5. Findings

`scheduler_suspension`: suspension closes the database only if it is open at that moment, and does not
join a preparation that is under way. A status request bypasses the queue; if it is opening the database just
then, suspension is answered, and afterwards the database is open and the handler ready. The
readiness test (`src/test/offscreen-dictionary-worker-readiness.test.js`, line 112) expects that after suspension it
is not. `databasePurgeOffscreen` does join the preparation. No page of this commit requests
suspension.

`update_notification_recovery`: a deletion that commits while a refresh is under way joins it (`background/backend.js` 4926) and leaves
the second round, made for its sake, to the caller that started the first. If that caller is an exit from import mode with nothing
deferred, and the second round fails, its catch block (6182) records no obligation; the retry it schedules
finds nothing to do. The comment at line 1969 promises to "Retain refresh/invalidation recovery even if
the caller never reaches its page-side database-updated request."

## 6. Not modelled

- In the parts above: storage health and `reimportRequired`, latched errors of the stores, the replacement
  of a title (`replaceDictionaryTitle`), and the validation of a journal's text. A journal that cannot be read
  takes the branch of a read that fails.
- Data: index and record formats, hashing, compression, the read caches and their eviction.
- `onFatalError` and diagnostics of the worker client.
- `OffscreenControl`: messages of the page that are not valid, clipboard requests, a restart of the background's service
  worker. `ImportOwnership`: archive downloads and their quota, restart of the service worker.
- `IndexRepair`: reset of the store, a checkpoint that is rejected before anything is given up, files which a rollback cuts back to their
  length at the checkpoint, the new connection after a failed rollback, the repair inside a rename, cleanup of unused containers, materialized
  records. `ServedCurrent` is about indexes, not about the bytes lookups then read.
- The components that the table of section 1 lists without a module: lookup and language rules are pure
  functions over large tables; popups, display, Anki and external tools are outside the storage core.

## 7. Plan

Done: `BulkImport` and `ImportOutcomes`, `ImportOperations`, `WorkerScheduler`, `WorkerClient` and `AtMostOnceCalls`,
`OffscreenControl` and `Handoff`, `ImportOwnership`, `UpdateNotification`, `IndexRepair`, and the proofs of all their safety properties. Left, most important
first:

1. `TitleReplacement` (`dictionary-database.js` 2077): an update moves the staging title over the installed one; with
   termination at each step, the old dictionary survives until the new one is installed.
2. `ImportRelay` (`offscreen.js` 375-460): one terminal message for the page, and settlement when the worker's action
   ends, composed with `ImportOperations` and `ImportOwnership`.
3. `TaskAccumulator`, `CacheMap`, the weighted LRU map and the retryable promise cache, each against its
   definition; cross-frame messaging; tokens of popups, scanner and audio.

## 8. Running

    tlc -workers 2 -config BulkImport_safety.cfg MCBulkImport
    tlapm BulkImportProofs.tla

`PROJECT.json` maps every definition to the lines it is translated from, and names module,
configuration and properties of every run.
