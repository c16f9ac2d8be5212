------------------------------ MODULE BulkImport ------------------------------
(***************************************************************************)
(* The import lifecycle of DictionaryDatabase: how one bulk import becomes  *)
(* visible, and how a failed or interrupted one disappears, across the      *)
(* three places that hold a dictionary and cannot share a transaction: the  *)
(* SQLite database, the term-content and term-record files in OPFS, and the *)
(* import journal file.                                                     *)
(*                                                                          *)
(* The object runs in one thread; an action is the code between two awaits. *)
(* At most one asynchronous lifecycle operation is under way (`op`, its     *)
(* next step in `pc`).  A call that the code makes wait for the running     *)
(* operation is a call made when that operation has ended.                  *)
(***************************************************************************)
EXTENDS Naturals

CONSTANTS
    Import,     \* import runs; a run is also its session id and its dictionary
    Chunk,      \* the pieces a dictionary writes to each store
    Nobody,     \* the absent import
    MaxFaults,  \* bound: storage and SQLite operations that fail
    MaxCrashes  \* bound: terminations of the worker

ASSUME NobodyAssumption == Nobody \notin Import
ASSUME BoundAssumption == MaxFaults \in Nat /\ MaxCrashes \in Nat

Store == {"content", "records"}
Piece == Import \X Chunk
PiecesOf(r) == {r} \X Chunk

NoCheckpoint == [s \in Store |-> {}]
NoJournal == [kind |-> "none", session |-> Nobody, checkpoint |-> NoCheckpoint]
EmptyJournal == [kind |-> "empty", session |-> Nobody, checkpoint |-> NoCheckpoint]
JournalRecord(r, checkpoint) ==
    [kind |-> "record", session |-> r, checkpoint |-> checkpoint]

VARIABLES
    \* durable
    row,        \* the dictionaries table: summary row of each import
    markers,    \* the dictionaryImportPublications table
    bytes,      \* the persisted pieces of each OPFS store
    journal,    \* the import journal file
    \* the database object
    connected,  \* _db # null
    bulkState,  \* _bulkImportState
    record,     \* _bulkImportJournalRecord
    pending,    \* _importJournalRecoveryPending
    txnOpen,    \* _bulkImportTransactionOpen
    \* the SQLite connection
    sqlTxn,     \* a transaction is open on it
    staged,     \* the import whose final summary that transaction holds
    \* the running operation
    op, pc,
    run,        \* the import it works for, or the dictionary it deletes
    todo,       \* the parts of its current step still to settle
    ok,         \* no part has failed
    \* the callers: DictionaryImportSession
    session,    \* state of each import's session
    swept,      \* imports whose cleanupIncompleteSummary has run
    \* history and bounds
    committed,  \* imports whose COMMIT succeeded
    purged,     \* imports a purge asked to discard
    faults, crashes

durable == <<row, markers, bytes, journal>>
object == <<connected, bulkState, record, pending, txnOpen>>
sqlite == <<sqlTxn, staged>>
task == <<op, pc, run, todo, ok>>
callers == <<session, swept>>
history == <<committed, purged>>
vars == <<row, markers, bytes, journal, connected, bulkState, record, pending,
          txnOpen, sqlTxn, staged, op, pc, run, todo, ok, session, swept,
          committed, purged, faults, crashes>>

Init ==
    /\ row = [r \in Import |-> "absent"]
    /\ markers = {}
    /\ bytes = NoCheckpoint
    /\ journal = NoJournal
    /\ connected = FALSE
    /\ bulkState = "idle"
    /\ record = NoJournal
    /\ pending = FALSE
    /\ txnOpen = FALSE
    /\ sqlTxn = FALSE
    /\ staged = Nobody
    /\ op = "none" /\ pc = "none" /\ run = Nobody /\ todo = {} /\ ok = TRUE
    /\ session = [r \in Import |-> "idle"]
    /\ swept = {}
    /\ committed = {}
    /\ purged = {}
    /\ faults = 0
    /\ crashes = 0

-------------------------------------------------------------------------------
(* Helpers *)

\* An operation that fails uses up one of the faults the bound allows.
Fault == faults < MaxFaults /\ faults' = faults + 1

\* _hasUnresolvedImportJournal
Unresolved == record # NoJournal \/ pending

\* The running operation goes on with step p; its other state is kept.
Goto(p) == pc' = p /\ UNCHANGED <<op, run, todo, ok>>

\* The running operation goes on with step p, which has one part per element.
Begin(p, parts) ==
    /\ pc' = p
    /\ todo' = parts
    /\ ok' = TRUE
    /\ UNCHANGED <<op, run>>

EndTask == op' = "none" /\ pc' = "none" /\ run' = Nobody /\ todo' = {} /\ ok' = TRUE

StartTask(kind, r, p, parts) ==
    op' = kind /\ pc' = p /\ run' = r /\ todo' = parts /\ ok' = TRUE

\* Mutant: the handle is dropped but the connection is not closed.
MutReleaseConnection ==
    /\ connected' = FALSE
    /\ txnOpen' = FALSE
    /\ UNCHANGED <<sqlTxn, staged>>

\* _releaseRuntimeConnection: closing the connection discards its transaction.
ReleaseConnection ==
    /\ connected' = FALSE
    /\ txnOpen' = FALSE
    /\ sqlTxn' = FALSE
    /\ staged' = Nobody

KeepConnection == UNCHANGED <<connected, txnOpen, sqlTxn, staged>>

\* The importer whose session the running operation serves learns the result.
Report(result) == session' = [session EXCEPT ![run] = result] /\ UNCHANGED swept

\* The caller contract of the worker's request queue: nothing else runs between
\* an importer's placeholder row and its call of startBulkImport.
Quiet == \A r \in Import : session[r] # "placed"

-------------------------------------------------------------------------------
(* DictionaryImporter and DictionaryImportSession *)

\* The importer inserts its summary with importSuccess = false.
PlaceSummary(r) ==
    /\ session[r] = "idle"
    /\ op = "none" /\ connected /\ bulkState = "idle"
    /\ row' = [row EXCEPT ![r] = "placeholder"]
    /\ session' = [session EXCEPT ![r] = "placed"]
    /\ UNCHANGED <<markers, bytes, journal, object, sqlite, task, swept, history,
                   faults, crashes>>

\* startBulkImport reserves the lifecycle before its first await.
StartBulkImport(r) ==
    /\ session[r] = "placed"
    /\ op = "none" /\ connected /\ bulkState = "idle"
    /\ bulkState' = "active"
    /\ StartTask("setup", r, IF pending THEN "readJournal" ELSE "checkpoint", {})
    /\ session' = [session EXCEPT ![r] = "starting"]
    /\ UNCHANGED <<durable, connected, record, pending, txnOpen, sqlite, swept,
                   history, faults, crashes>>

StartRejected(r) ==
    /\ session[r] = "placed"
    /\ ~connected \/ bulkState # "idle"
    /\ session' = [session EXCEPT ![r] = "failed"]
    /\ UNCHANGED <<durable, object, sqlite, task, swept, history, faults, crashes>>

\* A queued write of the owning import reaches its OPFS file.
WriteChunk(r, s, c) ==
    /\ session[r] = "active"
    /\ op = "none" /\ bulkState = "active" /\ record.session = r
    /\ <<r, c>> \notin bytes[s]
    /\ bytes' = [bytes EXCEPT ![s] = @ \cup {<<r, c>>}]
    /\ UNCHANGED <<row, markers, journal, object, sqlite, task, callers, history,
                   faults, crashes>>

\* recordFailure: a parse or write error, or a cancellation.  Before the bulk
\* import was started there is nothing to abort.
RecordFailure(r) ==
    /\ session[r] \in {"placed", "active"}
    /\ session' = [session EXCEPT ![r] = IF @ = "placed" THEN "failed" ELSE "failing"]
    /\ UNCHANGED <<durable, object, sqlite, task, swept, history, faults, crashes>>

\* The caller is still the owner and no other finalization has begun.
OwnsActiveImport(r) ==
    /\ record.session = r
    /\ bulkState = "active"
    /\ connected

\* finishBulkImport and abortBulkImport up to their first await.
FinishBulkImport(r) ==
    /\ session[r] = "active" /\ op = "none" /\ OwnsActiveImport(r)
    /\ bulkState' = "finalizing"
    /\ StartTask("finish", r, "endSessions", Store)
    /\ session' = [session EXCEPT ![r] = "finalizing"]
    /\ UNCHANGED <<durable, connected, record, pending, txnOpen, sqlite, swept,
                   history, faults, crashes>>

AbortBulkImport(r) ==
    /\ session[r] = "failing" /\ op = "none" /\ OwnsActiveImport(r)
    /\ bulkState' = "finalizing"
    /\ StartTask("abort", r, "rollback", Store)
    /\ session' = [session EXCEPT ![r] = "finalizing"]
    /\ UNCHANGED <<durable, connected, record, pending, txnOpen, sqlite, swept,
                   history, faults, crashes>>

\* A stale owner is told so; an owner whose lifecycle already ended has nothing
\* to abort, and its finish returns null, which its session reports as failure.
FinalizeRejected(r) ==
    /\ session[r] \in {"active", "failing"}
    /\ op # "setup"
    /\ ~OwnsActiveImport(r)
    /\ session' = [session EXCEPT ![r] =
           IF @ = "failing" /\ record.session = r /\ bulkState = "idle"
           THEN "aborted" ELSE "failed"]
    /\ UNCHANGED <<durable, object, sqlite, task, swept, history, faults, crashes>>

\* cleanupIncompleteSummary and deleteDictionaryImportPlaceholder.
CleanupPlaceholder(r) ==
    /\ session[r] \in {"failed", "aborted"} /\ r \notin swept
    /\ swept' = swept \cup {r}
    /\ \/ /\ op \notin {"open", "close", "purge"} /\ connected
          /\ bulkState = "idle" /\ ~Unresolved
          /\ row' = [row EXCEPT ![r] = IF @ = "placeholder" THEN "absent" ELSE @]
          /\ UNCHANGED faults
       \/ /\ \/ op \in {"open", "close", "purge"} \/ ~connected
             \/ bulkState # "idle" \/ Unresolved
          /\ UNCHANGED <<row, faults>>
       \/ Fault /\ UNCHANGED row
    /\ UNCHANGED <<markers, bytes, journal, object, sqlite, task, session, history,
                   crashes>>

\* Mutant: the open transaction is not excluded.
MutReceipt(r) ==
    /\ connected
    /\ row[r] = "installed" \/ (sqlTxn /\ staged = r)

\* getPublishedDictionaryImport answers a receipt for r: it reads the summaries
\* through the owning connection, which sees its own uncommitted rows.
Receipt(r) ==
    /\ connected /\ ~txnOpen
    /\ row[r] = "installed" \/ (sqlTxn /\ staged = r)

-------------------------------------------------------------------------------
(* _startBulkImportSetup *)

SetupFails(parts) == pc' = "rollback" /\ todo' = parts /\ UNCHANGED <<op, run, ok>>

SetupCheckpoint ==
    /\ op = "setup" /\ pc = "checkpoint"
    /\ \/ /\ record' = JournalRecord(run, bytes)
          /\ Goto("writeJournal")
          /\ UNCHANGED faults
       \/ /\ Fault
          /\ SetupFails({})
          /\ UNCHANGED record
    /\ UNCHANGED <<durable, connected, bulkState, pending, txnOpen, sqlite, callers,
                   history, crashes>>

\* A failed write can leave the file it created empty.
SetupWriteJournal ==
    /\ op = "setup" /\ pc = "writeJournal"
    /\ \/ /\ journal' = record
          /\ Goto("beginSessions")
          /\ UNCHANGED faults
       \/ /\ Fault
          /\ journal' \in {journal, EmptyJournal}
          /\ SetupFails({})
    /\ UNCHANGED <<row, markers, bytes, object, sqlite, callers, history, crashes>>

\* Both store sessions and BEGIN IMMEDIATE; a failure asks for the rollback of
\* the stores whose session was attempted.
SetupBegin ==
    /\ op = "setup" /\ pc = "beginSessions"
    /\ \/ /\ txnOpen' = TRUE
          /\ sqlTxn' = TRUE
          /\ EndTask
          /\ Report("active")
          /\ UNCHANGED faults
       \/ /\ Fault
          /\ \E attempted \in {{"content"}, Store} : SetupFails(attempted)
          /\ UNCHANGED <<txnOpen, sqlTxn, callers>>
    /\ UNCHANGED <<durable, connected, bulkState, record, pending, staged, history,
                   crashes>>

-------------------------------------------------------------------------------
(* _rollbackBulkImport and what its callers do after it *)

\* _rollbackBulkImportSqlite; a failed ROLLBACK leaves the transaction open.
RollbackSqlite ==
    /\ pc = "rollback"
    /\ \/ /\ txnOpen' = FALSE
          /\ IF txnOpen THEN sqlTxn' = FALSE /\ staged' = Nobody ELSE UNCHANGED sqlite
          /\ ok' = TRUE
          /\ UNCHANGED faults
       \/ /\ txnOpen /\ sqlTxn /\ Fault
          /\ ok' = FALSE
          /\ UNCHANGED <<txnOpen, sqlite>>
    /\ pc' = "undo"
    /\ todo' = IF record = NoJournal THEN {} ELSE todo
    /\ UNCHANGED <<durable, connected, bulkState, record, pending, op, run, callers,
                   history, crashes>>

\* rollbackImportSession of one store: it validates that every checkpointed
\* byte still exists before it truncates or removes anything.
UndoStore(s) ==
    /\ pc \in {"undo", "recoverUndo"} /\ s \in todo
    /\ LET target == (IF pc = "undo" THEN record ELSE journal).checkpoint[s] IN
       \/ /\ target \subseteq bytes[s]
          /\ bytes' = [bytes EXCEPT ![s] = target]
          /\ UNCHANGED <<ok, faults>>
       \/ /\ ~(target \subseteq bytes[s])
          /\ ok' = FALSE
          /\ UNCHANGED <<bytes, faults>>
       \/ /\ target \subseteq bytes[s] /\ Fault
          /\ \E left \in SUBSET (bytes[s] \ target) :
                bytes' = [bytes EXCEPT ![s] = target \cup left]
          /\ ok' = FALSE
    /\ todo' = todo \ {s}
    /\ UNCHANGED <<row, markers, journal, object, sqlite, op, pc, run, callers,
                   history, crashes>>

\* Every caller returns the lifecycle to idle; close always releases the
\* connection, the others quarantine it when cleanup was incomplete.
EndRollback(clean) ==
    /\ EndTask
    /\ bulkState' = "idle"
    /\ IF op = "close" \/ ~ok \/ (op = "abort" /\ ~clean)
       THEN ReleaseConnection
       ELSE KeepConnection
    /\ IF op = "close"
       THEN UNCHANGED callers
       ELSE Report(IF op = "abort" /\ ok /\ clean THEN "aborted" ELSE "failed")

\* Mutant: the journal is released whether or not the stores were rolled back.
MutReleaseJournal ==
    /\ pc = "undo" /\ todo = {} /\ record # NoJournal
    /\ journal' = NoJournal
    /\ record' = NoJournal
    /\ EndRollback(TRUE)
    /\ UNCHANGED <<row, markers, bytes, pending, history, faults, crashes>>

\* Both rollbacks succeeded: the journal is released.  The runtime restoration
\* that follows may still fail.
ReleaseJournal ==
    /\ pc = "undo" /\ todo = {} /\ ok /\ record # NoJournal
    /\ journal' = NoJournal
    /\ record' = NoJournal
    /\ \E clean \in BOOLEAN :
          /\ IF clean THEN UNCHANGED faults ELSE Fault
          /\ EndRollback(clean)
    /\ UNCHANGED <<row, markers, bytes, pending, history, crashes>>

\* A rollback or the removal of the journal failed: the journal stays.
RetainJournal ==
    /\ pc = "undo" /\ todo = {} /\ record # NoJournal
    /\ IF ok THEN Fault ELSE UNCHANGED faults
    /\ pending' = TRUE
    /\ EndRollback(FALSE)
    /\ UNCHANGED <<durable, record, history, crashes>>

\* Setup failed before it had a journal record.
NothingToRelease ==
    /\ pc = "undo" /\ todo = {} /\ record = NoJournal
    /\ EndRollback(TRUE)
    /\ UNCHANGED <<durable, record, pending, history, faults, crashes>>

-------------------------------------------------------------------------------
(* finishBulkImport *)

\* endImportSession flushes what is still queued; a failed one may flush part.
EndStoreSession(s) ==
    /\ pc = "endSessions" /\ s \in todo
    /\ \/ /\ bytes' = [bytes EXCEPT ![s] = @ \cup PiecesOf(run)]
          /\ UNCHANGED <<ok, faults>>
       \/ /\ Fault
          /\ \E flushed \in SUBSET PiecesOf(run) :
                bytes' = [bytes EXCEPT ![s] = @ \cup flushed]
          /\ ok' = FALSE
    /\ todo' = todo \ {s}
    /\ UNCHANGED <<row, markers, journal, object, sqlite, op, pc, run, callers,
                   history, crashes>>

\* Mutant: a failed flush does not stop the publication.
MutStoreSessionsEnded ==
    /\ pc = "endSessions" /\ todo = {}
    /\ Begin("stage", {})
    /\ UNCHANGED <<durable, object, sqlite, callers, history, faults, crashes>>

\* Mutant: only the success of both sessions is awaited.
MutStoreSessionsWait ==
    /\ pc = "endSessions" /\ todo = {} /\ ok
    /\ Begin("stage", {})
    /\ UNCHANGED <<durable, object, sqlite, callers, history, faults, crashes>>

StoreSessionsEnded ==
    /\ pc = "endSessions" /\ todo = {}
    /\ IF ok THEN Begin("stage", {}) ELSE Begin("rollback", Store)
    /\ UNCHANGED <<durable, object, sqlite, callers, history, faults, crashes>>

\* Virtual-table sync, indexes and the final summary, inside the transaction.
\* A failing statement may make SQLite roll the transaction back by itself.
StageSummary ==
    /\ pc = "stage"
    /\ \/ /\ staged' = run
          /\ Goto("commit")
          /\ UNCHANGED <<sqlTxn, faults>>
       \/ /\ Fault
          /\ Begin("rollback", Store)
          /\ sqlTxn' \in BOOLEAN
          /\ UNCHANGED staged
    /\ UNCHANGED <<durable, object, callers, history, crashes>>

\* The publication marker and COMMIT.  SQLite now owns the published state and
\* the in-memory record is dropped in the same step.
CommitPublication ==
    /\ pc = "commit"
    /\ \/ /\ row' = [row EXCEPT ![run] = IF @ = "placeholder" THEN "installed" ELSE @]
          /\ markers' = markers \cup {run}
          /\ sqlTxn' = FALSE /\ staged' = Nobody /\ txnOpen' = FALSE
          /\ record' = NoJournal
          /\ committed' = committed \cup {run}
          /\ Goto("clearJournal")
          /\ UNCHANGED faults
       \/ /\ Fault
          /\ Begin("rollback", Store)
          /\ \E rolledBack \in BOOLEAN :
                /\ sqlTxn' = ~rolledBack
                /\ staged' = IF rolledBack THEN Nobody ELSE run
          /\ UNCHANGED <<row, markers, txnOpen, record, committed>>
    /\ UNCHANGED <<bytes, journal, connected, bulkState, pending, callers, purged,
                   crashes>>

\* Mutant: a journal that could not be removed makes the import a failure.
MutClearPublishedJournal ==
    /\ pc = "clearJournal"
    /\ \/ /\ journal' = NoJournal
          /\ markers' = markers \ {run}
          /\ Report("published")
          /\ UNCHANGED <<pending, faults>>
       \/ /\ Fault
          /\ pending' = TRUE
          /\ Report("failed")
          /\ UNCHANGED <<journal, markers>>
    /\ EndTask
    /\ bulkState' = "idle"
    /\ UNCHANGED <<row, bytes, connected, record, txnOpen, sqlite, history, crashes>>

\* Journal removal after COMMIT is housekeeping: its failure is a warning.
ClearPublishedJournal ==
    /\ pc = "clearJournal"
    /\ \/ /\ journal' = NoJournal
          /\ \/ markers' = markers \ {run} /\ UNCHANGED faults
             \/ UNCHANGED markers /\ Fault
          /\ UNCHANGED pending
       \/ /\ Fault
          /\ pending' = TRUE
          /\ UNCHANGED <<journal, markers>>
    /\ EndTask
    /\ bulkState' = "idle"
    /\ Report("published")
    /\ UNCHANGED <<row, bytes, connected, record, txnOpen, sqlite, history, crashes>>

-------------------------------------------------------------------------------
(* prepare, and the recovery it shares with the setup of the next import *)

Prepare ==
    /\ op = "none" /\ ~connected /\ Quiet
    /\ StartTask("open", Nobody, "connect", {})
    /\ UNCHANGED <<durable, object, sqlite, callers, history, faults, crashes>>

\* _cleanupAfterPrepareFailure, and for purge the end of its lifecycle.
PrepareFails ==
    /\ ReleaseConnection
    /\ record' = NoJournal
    /\ bulkState' = "idle"
    /\ EndTask
    /\ UNCHANGED callers

OpenConnection ==
    /\ pc = "connect"
    /\ \/ /\ connected' = TRUE
          /\ Goto("readJournal")
          /\ UNCHANGED <<bulkState, record, txnOpen, sqlite, callers, faults>>
       \/ Fault /\ PrepareFails
    /\ UNCHANGED <<durable, pending, history, crashes>>

\* _recoverInterruptedImportSession throws: setup gives its reservation back,
\* prepare closes the connection it opened.
RecoveryFails ==
    IF op = "setup"
    THEN /\ EndTask
         /\ bulkState' = "idle"
         /\ Report("failed")
         /\ KeepConnection
         /\ UNCHANGED record
    ELSE PrepareFails

Recovered == Goto(IF op = "setup" THEN "checkpoint" ELSE "cleanup")
KeepObject == UNCHANGED <<connected, txnOpen, bulkState, sqlite, callers>>

ReadJournal ==
    /\ pc = "readJournal"
    /\ \/ /\ Fault
          /\ pending' \in {pending, TRUE}
          /\ RecoveryFails
          /\ UNCHANGED journal
       \/ /\ journal.kind # "record"
          /\ journal' = NoJournal
          /\ pending' = FALSE
          /\ Recovered
          /\ KeepObject
          /\ UNCHANGED <<record, faults>>
       \/ /\ journal.kind = "record"
          /\ IF journal.session \in markers
             THEN Goto("recoverClear")
             ELSE Begin("recoverUndo", Store)
          /\ KeepObject
          /\ UNCHANGED <<journal, record, pending, faults>>
    /\ UNCHANGED <<row, markers, bytes, history, crashes>>

\* Mutant: a partial rollback counts as recovered.
MutRecoverySettled ==
    /\ pc = "recoverUndo" /\ todo = {}
    /\ Goto("recoverClear") /\ KeepObject
    /\ UNCHANGED <<durable, record, pending, history, faults, crashes>>

RecoverySettled ==
    /\ pc = "recoverUndo" /\ todo = {}
    /\ \/ ok /\ Goto("recoverClear") /\ KeepObject /\ UNCHANGED <<record, pending>>
       \/ ~ok /\ pending' = TRUE /\ RecoveryFails
    /\ UNCHANGED <<durable, history, faults, crashes>>

RecoveryClearsJournal ==
    /\ pc = "recoverClear"
    /\ \/ /\ journal' = NoJournal
          /\ record' = NoJournal
          /\ \/ markers' = markers \ {journal.session} /\ UNCHANGED faults
             \/ UNCHANGED markers /\ Fault
          /\ pending' = FALSE
          /\ Recovered
          /\ KeepObject
       \/ /\ Fault
          /\ pending' = TRUE
          /\ IF op = "setup" THEN RecoveryFails
             ELSE Goto("cleanup") /\ KeepObject /\ UNCHANGED record
          /\ UNCHANGED <<journal, markers>>
    /\ UNCHANGED <<row, bytes, history, crashes>>

\* Mutant: every summary is swept, not the incomplete ones.
MutStartupCleanup ==
    /\ pc = "cleanup"
    /\ IF Unresolved
       THEN EndTask /\ bulkState' = "idle"
       ELSE /\ Begin("sweep", {r \in Import : row[r] # "absent"})
            /\ UNCHANGED bulkState
    /\ UNCHANGED <<durable, connected, record, pending, txnOpen, sqlite, callers,
                   history, faults, crashes>>

\* Startup cleanup is skipped while the journal is unresolved.
StartupCleanup ==
    /\ pc = "cleanup"
    /\ IF Unresolved
       THEN EndTask /\ bulkState' = "idle"
       ELSE /\ Begin("sweep", {r \in Import : row[r] = "placeholder"})
            /\ UNCHANGED bulkState
    /\ UNCHANGED <<durable, connected, record, pending, txnOpen, sqlite, callers,
                   history, faults, crashes>>

\* _cleanupIncompleteImports deletes each incomplete summary that it found.
SweepIncomplete(r) ==
    /\ pc = "sweep" /\ r \in todo
    /\ todo' = todo \ {r}
    /\ \/ /\ row' = [row EXCEPT ![r] = "absent"]
          /\ pc' = "deleteRecords"
          /\ run' = r
          /\ UNCHANGED faults
       \/ Fault /\ UNCHANGED <<row, pc, run>>
    /\ UNCHANGED <<markers, bytes, journal, object, sqlite, op, ok, callers, history,
                   crashes>>

\* _cleanupMissingTermRecordShards removes the shards no summary refers to.
VerifyIntegrity ==
    /\ pc = "sweep" /\ todo = {}
    /\ LET orphans == {p \in bytes["records"] : row[p[1]] = "absent"} IN
       \E kept \in SUBSET orphans :
          /\ IF kept = {} THEN UNCHANGED faults ELSE Fault
          /\ bytes' = [bytes EXCEPT !["records"] = (@ \ orphans) \cup kept]
    /\ EndTask
    /\ bulkState' = "idle"
    /\ UNCHANGED <<row, markers, journal, connected, record, pending, txnOpen, sqlite,
                   callers, history, crashes>>

-------------------------------------------------------------------------------
(* deleteDictionary, close, purge *)

\* Mutant: the deletion ignores an unresolved journal.
MutDeleteDictionary(r) ==
    /\ op = "none" /\ connected /\ Quiet
    /\ row[r] = "installed"
    /\ row' = [row EXCEPT ![r] = "absent"]
    /\ StartTask("delete", r, "deleteRecords", {})
    /\ UNCHANGED <<markers, bytes, journal, object, sqlite, callers, history, faults,
                   crashes>>

\* Behind the journal barrier; the SQLite deletion is the public boundary.
DeleteDictionary(r) ==
    /\ op = "none" /\ connected /\ Quiet /\ ~Unresolved
    /\ row[r] = "installed"
    /\ row' = [row EXCEPT ![r] = "absent"]
    /\ StartTask("delete", r, "deleteRecords", {})
    /\ UNCHANGED <<markers, bytes, journal, object, sqlite, callers, history, faults,
                   crashes>>

DeleteRecords ==
    /\ pc = "deleteRecords"
    /\ \E kept \in SUBSET (bytes["records"] \cap PiecesOf(run)) :
          /\ IF kept = {} THEN UNCHANGED faults ELSE Fault
          /\ bytes' = [bytes EXCEPT !["records"] = (@ \ PiecesOf(run)) \cup kept]
    /\ Goto("deleteContent")
    /\ UNCHANGED <<row, markers, journal, object, sqlite, callers, history, crashes>>

\* Mutant: the shared content is reset with every deletion.
MutDeleteContent ==
    /\ pc = "deleteContent"
    /\ bytes' = [bytes EXCEPT !["content"] = {}]
    /\ IF op = "delete"
       THEN EndTask
       ELSE pc' = "sweep" /\ run' = Nobody /\ UNCHANGED <<op, todo, ok>>
    /\ UNCHANGED <<row, markers, journal, object, sqlite, callers, history, faults,
                   crashes>>

\* _cleanupTermContentAfterDictionaryDelete resets the shared content files
\* only when no dictionary is left.
DeleteContent ==
    /\ pc = "deleteContent"
    /\ IF \A r \in Import : row[r] = "absent"
       THEN \E kept \in SUBSET bytes["content"] :
               /\ IF kept = {} THEN UNCHANGED faults ELSE Fault
               /\ bytes' = [bytes EXCEPT !["content"] = kept]
       ELSE UNCHANGED <<bytes, faults>>
    /\ IF op = "delete"
       THEN EndTask
       ELSE pc' = "sweep" /\ run' = Nobody /\ UNCHANGED <<op, todo, ok>>
    /\ UNCHANGED <<row, markers, journal, object, sqlite, callers, history, crashes>>

Close ==
    /\ op = "none" /\ connected /\ Quiet
    /\ IF record = NoJournal
       THEN /\ ReleaseConnection
            /\ bulkState' = "idle"
            /\ UNCHANGED task
       ELSE /\ bulkState' = "finalizing"
            /\ StartTask("close", Nobody, "rollback", Store)
            /\ KeepConnection
    /\ UNCHANGED <<durable, record, pending, callers, history, faults, crashes>>

Purge ==
    /\ op = "none" /\ Quiet
    /\ bulkState' = "finalizing"
    /\ ReleaseConnection
    /\ StartTask("purge", Nobody, "reset", Store \cup {"journal"})
    /\ purged' = purged \cup {r \in Import : session[r] # "idle"}
    /\ UNCHANGED <<durable, record, pending, callers, committed, faults, crashes>>

ResetStore(s) ==
    /\ pc = "reset" /\ s \in todo \cap Store
    /\ \E kept \in SUBSET bytes[s] :
          /\ IF kept = {} THEN UNCHANGED faults ELSE Fault
          /\ bytes' = [bytes EXCEPT ![s] = kept]
    /\ todo' = todo \ {s}
    /\ UNCHANGED <<row, markers, journal, object, sqlite, op, pc, run, ok, callers,
                   history, crashes>>

ResetJournal ==
    /\ pc = "reset" /\ "journal" \in todo
    /\ \/ journal' = NoJournal /\ UNCHANGED faults
       \/ Fault /\ UNCHANGED journal
    /\ todo' = todo \ {"journal"}
    /\ UNCHANGED <<row, markers, bytes, object, sqlite, op, pc, run, ok, callers,
                   history, crashes>>

\* The journal bookkeeping is dropped and the database files are deleted.
DeleteDatabase ==
    /\ pc = "reset" /\ todo = {}
    /\ record' = NoJournal
    /\ pending' = FALSE
    /\ \/ /\ row' = [r \in Import |-> "absent"]
          /\ markers' = {}
          /\ UNCHANGED faults
       \/ Fault /\ UNCHANGED <<row, markers>>
    /\ Goto("connect")
    /\ UNCHANGED <<bytes, journal, connected, bulkState, txnOpen, sqlite, callers,
                   history, crashes>>

\* The worker is terminated: only the durable state is left.
Crash ==
    /\ crashes < MaxCrashes /\ crashes' = crashes + 1
    /\ connected \/ op # "none"
    /\ ReleaseConnection
    /\ bulkState' = "idle"
    /\ record' = NoJournal
    /\ pending' = FALSE
    /\ EndTask
    /\ session' = [r \in Import |->
           IF session[r] \in {"placed", "starting", "active", "failing", "finalizing"}
           THEN "lost" ELSE session[r]]
    /\ swept' = swept \cup {r \in Import : session[r] \in {"failed", "aborted"}}
    /\ UNCHANGED <<durable, history, faults>>

-------------------------------------------------------------------------------

ImporterStep(r) ==
    \/ PlaceSummary(r)
    \/ StartBulkImport(r) \/ StartRejected(r)
    \/ RecordFailure(r)
    \/ FinishBulkImport(r) \/ AbortBulkImport(r) \/ FinalizeRejected(r)
    \/ CleanupPlaceholder(r)
    \/ \E s \in Store, c \in Chunk : WriteChunk(r, s, c)

StoreStep(s) == UndoStore(s) \/ EndStoreSession(s) \/ ResetStore(s)

\* The steps of the running operation: every await settles.
TaskStep ==
    \/ SetupCheckpoint \/ SetupWriteJournal \/ SetupBegin
    \/ RollbackSqlite \/ ReleaseJournal \/ RetainJournal \/ NothingToRelease
    \/ StoreSessionsEnded \/ StageSummary \/ CommitPublication
    \/ ClearPublishedJournal
    \/ OpenConnection \/ ReadJournal \/ RecoverySettled \/ RecoveryClearsJournal
    \/ StartupCleanup \/ VerifyIntegrity
    \/ DeleteRecords \/ DeleteContent
    \/ ResetJournal \/ DeleteDatabase
    \/ \E s \in Store : StoreStep(s)
    \/ \E r \in Import : SweepIncomplete(r)

Next ==
    \/ TaskStep
    \/ \E r \in Import : ImporterStep(r) \/ DeleteDictionary(r)
    \/ Prepare \/ Close \/ Purge
    \/ Crash

Spec == Init /\ [][Next]_vars

\* Every await of a running operation settles; callers owe nothing.
FairSpec == Spec /\ WF_vars(TaskStep)

-------------------------------------------------------------------------------
(* Properties *)

Session == {"idle", "placed", "starting", "active", "failing", "finalizing",
            "published", "aborted", "failed", "lost"}
Operation == {"none", "open", "setup", "finish", "abort", "close", "purge", "delete"}
Step == {"none", "checkpoint", "writeJournal", "beginSessions", "rollback", "undo",
         "endSessions", "stage", "commit", "clearJournal", "connect", "readJournal",
         "recoverUndo", "recoverClear", "cleanup", "sweep", "deleteRecords",
         "deleteContent", "reset"}
Checkpoint == [Store -> SUBSET Piece]
Journal == [kind : {"none", "empty", "record"}, session : Import \cup {Nobody},
            checkpoint : Checkpoint]

DurableType ==
    /\ row \in [Import -> {"absent", "placeholder", "installed"}]
    /\ markers \subseteq Import
    /\ bytes \in Checkpoint
    /\ journal \in Journal

ObjectType ==
    /\ connected \in BOOLEAN
    /\ bulkState \in {"idle", "active", "finalizing"}
    /\ record \in Journal
    /\ pending \in BOOLEAN
    /\ txnOpen \in BOOLEAN
    /\ sqlTxn \in BOOLEAN
    /\ staged \in Import \cup {Nobody}

TaskType ==
    /\ op \in Operation
    /\ pc \in Step
    /\ run \in Import \cup {Nobody}
    /\ todo \subseteq Store \cup {"journal"} \cup Import
    /\ ok \in BOOLEAN

CallerType ==
    /\ session \in [Import -> Session]
    /\ swept \subseteq Import
    /\ committed \subseteq Import
    /\ purged \subseteq Import
    /\ faults \in Nat
    /\ crashes \in Nat

\* The variables hold values of the program's types.
TypeOK == DurableType /\ ObjectType /\ TaskType /\ CallerType

\* The files hold a whole dictionary.
Intact(r) == \A s \in Store : PiecesOf(r) \subseteq bytes[s]

\* Whatever fails, crashes, is rolled back or is recovered around it, a dictionary
\* that is listed as installed keeps every byte it published in both stores.
PublishedIntact ==
    \A r \in Import \ purged : row[r] = "installed" => Intact(r)

\* The journal on disk can be rolled back.
Unpublished == journal.kind = "record" /\ journal.session \notin markers

\* A rollback that a later start may still perform is always possible (its
\* checkpointed bytes exist) and never cuts into an installed dictionary.
CheckpointRestorable ==
    Unpublished /\ purged = {} =>
        \A s \in Store :
            /\ journal.checkpoint[s] \subseteq bytes[s]
            /\ \A r \in Import : row[r] = "installed" =>
                    PiecesOf(r) \subseteq journal.checkpoint[s]

\* Bytes of an import that never published are always owned by a durable journal
\* whose rollback removes them: no failure leaks them into the shared files.
NoOrphans ==
    \A r \in Import \ (committed \cup purged) : \A s \in Store :
        bytes[s] \cap PiecesOf(r) # {} =>
            /\ Unpublished /\ journal.session = r
            /\ journal.checkpoint[s] \cap PiecesOf(r) = {}

\* Status requests bypass the queue and read through the connection that imports:
\* what they answer as published is committed, not a staged summary.
ReceiptSound == \A r \in Import : Receipt(r) => row[r] = "installed"

\* Between operations a transaction is open only on behalf of an import whose
\* journal bars every other mutation; none is left open for a later one to join.
NoStrayTransaction == op = "none" /\ sqlTxn => Unresolved

\* When no operation runs, the lifecycle is reserved only by an import whose
\* caller still holds it, with its journal durable and its transaction open:
\* no failure path locks out later imports, deletions and purges.
ReservationOwned ==
    op = "none" /\ bulkState # "idle" =>
        /\ bulkState = "active" /\ connected
        /\ record.kind = "record" /\ journal = record
        /\ session[record.session] \in {"active", "failing"}
        /\ txnOpen /\ sqlTxn

\* COMMIT happens only when every byte of the import is in both stores, its
\* placeholder row is still there to become the summary, and its own journal is
\* the durable one.
PublishesWhole ==
    \A r \in committed' \ committed :
        Intact(r) /\ row[r] = "placeholder" /\ Unpublished /\ journal.session = r
PublicationComplete == [][PublishesWhole]_vars

\* A journal record leaves the disk only when its import is published, or when
\* both stores are back at its checkpoint; a purge alone may discard it.
ReleasesSettled ==
    journal.kind = "record" /\ journal' # journal =>
        \/ journal.session \in markers
        \/ bytes = journal.checkpoint
        \/ op = "purge"
JournalReleasedWhenSettled == [][ReleasesSettled]_vars

\* An installed dictionary leaves the list only by its own deletion or a purge:
\* startup cleanup and failed imports never take one along.
RemovesOnRequest ==
    \A r \in Import : row[r] = "installed" /\ row'[r] # "installed" =>
        op = "purge" \/ (op' = "delete" /\ run' = r)
RemovedOnlyOnRequest == [][RemovesOnRequest]_vars

\* Every lifecycle operation ends, whatever fails in it.
LifecycleSettles == op # "none" ~> op = "none"

-------------------------------------------------------------------------------
(* Refinement: the imports as their callers and lookups see them *)

Listed == {r \in Import : row[r] = "installed"}

\* The reply of a session ends what its caller is told.
Told(r) ==
    CASE session[r] = "published" -> "published"
      [] session[r] \in {"failed", "aborted"} -> "failed"
      [] session[r] = "lost" -> "unknown"
      [] OTHER -> "nothing"

Outcomes == INSTANCE ImportOutcomes
    WITH listed <- Listed, published <- committed, told <- [r \in Import |-> Told(r)]

\* The lifecycle implements atomic imports with truthful answers.
OutcomesSpec == Outcomes!Spec

-------------------------------------------------------------------------------
(* The inductive invariant of the control state *)

\* Which steps belong to which operation, and what an operation works on.
TaskShape ==
    /\ op = "none" <=> pc = "none"
    /\ pc \in {"checkpoint", "writeJournal", "beginSessions"} => op = "setup"
    /\ pc \in {"endSessions", "stage", "commit", "clearJournal"} => op = "finish"
    /\ pc \in {"rollback", "undo"} => op \in {"setup", "finish", "abort", "close"}
    /\ pc \in {"readJournal", "recoverUndo", "recoverClear"} =>
           op \in {"setup", "open", "purge"}
    /\ pc \in {"connect", "cleanup", "sweep"} => op \in {"open", "purge"}
    /\ pc \in {"deleteRecords", "deleteContent"} => op \in {"open", "purge", "delete"}
    /\ pc = "reset" => op = "purge"
    /\ op \in {"setup", "finish", "abort"} => run \in Import

\* A caller waits for exactly the operation that runs for it; a placeholder is
\* never left unstarted while an operation that could sweep it runs.
SessionShape ==
    \A r \in Import :
        /\ session[r] = "starting" <=> op = "setup" /\ run = r
        /\ session[r] = "finalizing" <=> op \in {"finish", "abort"} /\ run = r
        /\ session[r] = "placed" => op \in {"none", "setup", "finish", "abort"}
        /\ session[r] \in {"placed", "starting"} => row[r] = "placeholder"

\* What is committed, listed and reported agree.
OutcomeShape ==
    /\ markers \subseteq committed
    /\ pc = "clearJournal" => run \in committed
    /\ \A r \in Import :
        /\ r \in committed =>
               session[r] \in {"published", "lost"} \/ (pc = "clearJournal" /\ run = r)
        /\ session[r] = "published" => r \in committed
        /\ row[r] = "installed" => r \in committed
        /\ pc \in {"sweep", "deleteRecords", "deleteContent"} /\ r \in todo =>
               row[r] # "installed"

\* The lifecycle is reserved for the import that the journal record names.
OwnedBy(r) ==
    /\ record.kind = "record" /\ record.session = r
    /\ journal = record
    /\ row[r] = "placeholder"

ReservationShape ==
    /\ op \in {"open", "delete"} => bulkState = "idle"
    /\ op = "setup" => bulkState = "active"
    /\ op \in {"finish", "abort", "close", "purge"} => bulkState = "finalizing"
    /\ op \in {"setup", "finish", "abort", "delete"} => connected
    /\ op = "none" /\ bulkState # "idle" =>
           /\ bulkState = "active" /\ connected /\ txnOpen
           /\ \E r \in Import : session[r] \in {"active", "failing"} /\ OwnedBy(r)
    /\ op \in {"finish", "abort"} /\ pc # "clearJournal" => OwnedBy(run)
    /\ pc = "writeJournal" => record.kind = "record" /\ record.session = run
    /\ pc = "beginSessions" => OwnedBy(run)

\* The object's view of its SQLite transaction is SQLite's.
TransactionShape ==
    /\ sqlTxn => txnOpen
    /\ staged # Nobody => sqlTxn
    /\ txnOpen =>
           /\ connected
           /\ \/ op = "none" /\ bulkState = "active" /\ sqlTxn
              \/ op \in {"finish", "abort", "close"} /\ pc # "clearJournal"
    /\ pc \in {"endSessions", "stage", "commit"} => txnOpen /\ sqlTxn
    /\ pc \in {"endSessions", "stage"} => staged = Nobody
    /\ op = "none" /\ txnOpen => staged = Nobody
    /\ pc = "undo" /\ txnOpen => ~ok
    /\ pc \in {"connect", "reset"} => ~connected

\* What the flushes of a finishing import have achieved.
PublicationShape ==
    /\ pc = "endSessions" /\ ok =>
           \A s \in Store \ todo : PiecesOf(run) \subseteq bytes[s]
    /\ pc \in {"stage", "commit"} => Intact(run)

ControlInv ==
    /\ TypeOK
    /\ TaskShape
    /\ SessionShape
    /\ OutcomeShape
    /\ ReservationShape
    /\ TransactionShape
    /\ PublicationShape

-------------------------------------------------------------------------------
(* The inductive invariant of the stored bytes *)

\* A checkpoint that leaves every installed dictionary whole.
Covers(checkpoint) ==
    \A s \in Store, r \in Import \ purged :
        row[r] = "installed" => PiecesOf(r) \subseteq checkpoint[s]

\* A journal names an import that was started, and its checkpoint was taken before
\* that import wrote.
Names(j) ==
    /\ j.session \in Import
    /\ session[j.session] # "idle"
    /\ \A s \in Store : j.checkpoint[s] \cap PiecesOf(j.session) = {}

\* The journal file and the object's copy of it.
JournalShape ==
    /\ record = NoJournal \/ record.kind = "record"
    /\ journal.kind = "record" /\ record # NoJournal => journal = record
    /\ \A j \in {journal, record} : j.kind = "record" => Names(j)
    /\ pc = "clearJournal" =>
           journal.kind = "record" /\ journal.session = run /\ run \in markers

\* No journal is on disk while an operation runs that a rollback must not follow.
SettledShape ==
    /\ op = "none" /\ connected /\ bulkState = "idle" /\ ~pending =>
           journal.kind # "record"
    /\ pc = "cleanup" /\ ~pending => journal.kind # "record"
    /\ pc \in {"rollback", "undo"} /\ record = NoJournal => journal.kind # "record"
    /\ pc \in {"checkpoint", "writeJournal", "sweep", "deleteRecords", "deleteContent"} =>
           journal.kind # "record"
    /\ op = "setup" /\ pc \in {"readJournal", "recoverUndo", "recoverClear"} => pending
    /\ pc \in {"deleteRecords", "deleteContent"} =>
           run \in Import /\ row[run] # "installed"

\* A purge forgets the imports that were started before it.
PurgeShape ==
    \A r \in Import :
        /\ pc = "reset" /\ session[r] # "idle" => r \in purged
        /\ r \in purged => session[r] \notin {"idle", "placed", "starting"}

\* Every checkpoint that a rollback may use covers the installed dictionaries.
CoverShape ==
    /\ record # NoJournal => Covers(record.checkpoint)
    /\ Unpublished => Covers(journal.checkpoint)

\* The checkpointed bytes exist until a rollback has restored exactly them.
RestoreShape ==
    /\ Unpublished /\ purged = {} => \A s \in Store : journal.checkpoint[s] \subseteq bytes[s]
    /\ pc \in {"writeJournal", "beginSessions"} => record.checkpoint = bytes
    /\ pc = "rollback" /\ journal.kind = "record" =>
           \A s \in Store \ todo : bytes[s] = record.checkpoint[s]
    /\ pc = "undo" /\ ok /\ journal.kind = "record" =>
           \A s \in Store \ todo : bytes[s] = record.checkpoint[s]
    /\ pc = "undo" /\ todo # {} => record # NoJournal
    /\ pc = "recoverUndo" =>
           /\ Unpublished
           /\ ok => \A s \in Store \ todo : bytes[s] = journal.checkpoint[s]
    /\ pc = "recoverClear" =>
           /\ journal.kind = "record"
           /\ journal.session \in markers \/ bytes = journal.checkpoint

StorageInv ==
    /\ JournalShape
    /\ SettledShape
    /\ PurgeShape
    /\ CoverShape
    /\ RestoreShape
    /\ PublishedIntact
    /\ NoOrphans

\* The lifecycle answers for itself: what every step relies on holds, of the control
\* state and of the stored bytes, an idle lifecycle leaves an open transaction behind
\* only with a retained journal, and nobody but a caller that still works, or an
\* import it knows, reserves it.
LifecycleSound == ControlInv /\ StorageInv /\ NoStrayTransaction /\ ReservationOwned

=============================================================================
