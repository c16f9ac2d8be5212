--------------------------- MODULE BulkImportProofs ---------------------------
(***************************************************************************)
(* What BulkImport's control state guarantees for any number of imports,    *)
(* pieces, failures and terminations.  ControlInv is inductive: each action *)
(* has a lemma, one step per conjunct (conjuncts whose variables the action *)
(* leaves alone share a step).  The theorems that follow from it come next, *)
(* with the refinement of ImportOutcomes, then the same for StorageInv.     *)
(***************************************************************************)
EXTENDS BulkImport, TLAPS

-------------------------------------------------------------------------------
(* Types of the values that the actions build *)

\* The journal values that setup, rollback and recovery store are journals.
LEMMA JournalTypes ==
    /\ NoJournal \in Journal /\ EmptyJournal \in Journal /\ NoCheckpoint \in Checkpoint
    /\ \A r \in Import, c \in Checkpoint : JournalRecord(r, c) \in Journal
    /\ \A j \in Journal : j.checkpoint \in Checkpoint /\ j.session \in Import \cup {Nobody}
BY DEF NoJournal, EmptyJournal, NoCheckpoint, JournalRecord, Journal, Checkpoint

\* An import's pieces are pieces.
LEMMA PiecesTypes ==
    ASSUME NEW r \in Import
    PROVE  PiecesOf(r) \subseteq Piece
BY DEF PiecesOf, Piece

\* Counting a fault keeps the counter a natural number.
LEMMA FaultType ==
    ASSUME faults \in Nat, Fault
    PROVE  faults' \in Nat
BY DEF Fault

-------------------------------------------------------------------------------
(* The invariant is preserved: DictionaryImporter and DictionaryImportSession *)

\* The placeholder belongs to an import that was never started.
LEMMA PlaceSummaryStep ==
    ASSUME NEW r \in Import, ControlInv, PlaceSummary(r)
    PROVE  ControlInv'
<1>1. TaskType' /\ TaskShape' /\ TransactionShape' /\ PublicationShape'
  BY DEF ControlInv, PlaceSummary, TypeOK, TaskType, task, TaskShape,
         TransactionShape, object, sqlite, PublicationShape, Intact
<1>2. DurableType'
  BY DEF ControlInv, DurableType, PlaceSummary, object, TypeOK
<1>3. ObjectType'
  BY DEF ControlInv, ObjectType, PlaceSummary, object, sqlite, TypeOK
<1>4. CallerType'
  BY DEF ControlInv, CallerType, PlaceSummary, history, Session, TypeOK
<1>5. SessionShape'
  BY DEF ControlInv, SessionShape, PlaceSummary, task, TypeOK, DurableType,
         ObjectType, TaskType, CallerType
<1>6. OutcomeShape'
  BY DEF ControlInv, OutcomeShape, PlaceSummary, task, history
<1>7. ReservationShape'
  BY DEF ControlInv, ReservationShape, PlaceSummary, object, task, OwnedBy
<1> QED
  BY <1>1, <1>2, <1>3, <1>4, <1>5, <1>6, <1>7 DEF ControlInv, TypeOK

\* The reservation is taken together with the import's caller.
LEMMA StartBulkImportStep ==
    ASSUME NEW r \in Import, ControlInv, StartBulkImport(r)
    PROVE  ControlInv'
<1>1. DurableType'
  BY DEF ControlInv, DurableType, StartBulkImport, durable, TypeOK
<1>2. ObjectType'
  BY DEF ControlInv, ObjectType, StartBulkImport, sqlite, TypeOK
<1>3. TaskType'
  BY DEF ControlInv, TaskType, StartBulkImport, durable, StartTask, Operation, Step,
         TypeOK
<1>4. CallerType'
  BY DEF ControlInv, CallerType, StartBulkImport, history, Session, TypeOK
<1>5. TaskShape'
  BY DEF ControlInv, TaskShape, StartBulkImport, StartTask
<1>6. SessionShape'
  BY DEF ControlInv, SessionShape, StartBulkImport, durable, StartTask, TypeOK,
         DurableType, ObjectType, TaskType, CallerType
<1>7. OutcomeShape'
  BY DEF ControlInv, OutcomeShape, StartBulkImport, durable, history, StartTask,
         TaskShape
<1>8. ReservationShape'
  BY DEF ControlInv, ReservationShape, StartBulkImport, durable, StartTask
<1>9. TransactionShape'
  BY DEF ControlInv, TransactionShape, StartBulkImport, sqlite, StartTask
<1>10. PublicationShape'
  BY DEF ControlInv, PublicationShape, StartBulkImport, durable, StartTask
<1> QED
  BY <1>1, <1>2, <1>3, <1>4, <1>5, <1>6, <1>7, <1>8, <1>9, <1>10 DEF ControlInv,
     TypeOK

\* A rejected start leaves the lifecycle to its owner.
LEMMA StartRejectedStep ==
    ASSUME NEW r \in Import, ControlInv, StartRejected(r)
    PROVE  ControlInv'
<1>1. TaskType' /\ TaskShape' /\ TransactionShape' /\ PublicationShape'
  BY DEF ControlInv, StartRejected, TypeOK, TaskType, durable, task, TaskShape,
         TransactionShape, object, sqlite, PublicationShape, Intact
<1>2. DurableType'
  BY DEF ControlInv, DurableType, StartRejected, durable, object, TypeOK
<1>3. ObjectType'
  BY DEF ControlInv, ObjectType, StartRejected, object, sqlite, TypeOK
<1>4. CallerType'
  BY DEF ControlInv, CallerType, StartRejected, history, Session, TypeOK
<1>5. SessionShape'
  BY DEF ControlInv, SessionShape, StartRejected, durable, task
<1>6. OutcomeShape'
  BY DEF ControlInv, OutcomeShape, StartRejected, durable, task, history
<1>7. ReservationShape'
  BY DEF ControlInv, ReservationShape, StartRejected, durable, object, task, OwnedBy
<1> QED
  BY <1>1, <1>2, <1>3, <1>4, <1>5, <1>6, <1>7 DEF ControlInv, TypeOK

\* A write of the active import only adds bytes.
LEMMA WriteChunkStep ==
    ASSUME NEW r \in Import, NEW s \in Store, NEW c \in Chunk, ControlInv, WriteChunk(r, s, c)
    PROVE  ControlInv'
<1>1. /\ ObjectType'
     /\ TaskType'
     /\ CallerType'
     /\ TaskShape'
     /\ SessionShape'
     /\ OutcomeShape'
     /\ ReservationShape'
     /\ TransactionShape'
  BY DEF ControlInv, WriteChunk, TypeOK, ObjectType, object, sqlite, callers,
         TaskType, task, CallerType, history, TaskShape, SessionShape, OutcomeShape,
         ReservationShape, OwnedBy, TransactionShape
<1>2. DurableType'
  BY JournalTypes, PiecesTypes, NobodyAssumption DEF ControlInv, DurableType,
         WriteChunk, object, callers, TypeOK, TaskShape, Store, Checkpoint, Piece,
         PiecesOf, ObjectType, TaskType, CallerType
<1>3. PublicationShape'
  BY DEF ControlInv, PublicationShape, WriteChunk, task, Intact
<1> QED
  BY <1>1, <1>2, <1>3 DEF ControlInv, TypeOK

\* A failing import still owns the lifecycle.
LEMMA RecordFailureStep ==
    ASSUME NEW r \in Import, ControlInv, RecordFailure(r)
    PROVE  ControlInv'
<1>1. TaskType' /\ TaskShape' /\ TransactionShape' /\ PublicationShape'
  BY DEF ControlInv, RecordFailure, TypeOK, TaskType, durable, task, TaskShape,
         TransactionShape, object, sqlite, PublicationShape, Intact
<1>2. DurableType'
  BY DEF ControlInv, DurableType, RecordFailure, durable, object, TypeOK
<1>3. ObjectType'
  BY DEF ControlInv, ObjectType, RecordFailure, object, sqlite, TypeOK
<1>4. CallerType'
  BY DEF ControlInv, CallerType, RecordFailure, history, Session, TypeOK
<1>5. SessionShape'
  BY DEF ControlInv, SessionShape, RecordFailure, durable, task
<1>6. OutcomeShape'
  BY DEF ControlInv, OutcomeShape, RecordFailure, durable, task, history
<1>7. ReservationShape'
  BY DEF ControlInv, ReservationShape, RecordFailure, durable, object, task, OwnedBy
<1> QED
  BY <1>1, <1>2, <1>3, <1>4, <1>5, <1>6, <1>7 DEF ControlInv, TypeOK

\* Finalization takes over the import that the journal names.
LEMMA FinishBulkImportStep ==
    ASSUME NEW r \in Import, ControlInv, FinishBulkImport(r)
    PROVE  ControlInv'
<1>1. DurableType'
  BY DEF ControlInv, DurableType, FinishBulkImport, durable, TypeOK
<1>2. ObjectType'
  BY DEF ControlInv, ObjectType, FinishBulkImport, sqlite, TypeOK
<1>3. TaskType'
  BY DEF ControlInv, TaskType, FinishBulkImport, durable, StartTask, Operation, Step,
         TypeOK
<1>4. CallerType'
  BY DEF ControlInv, CallerType, FinishBulkImport, history, Session, TypeOK
<1>5. TaskShape'
  BY DEF ControlInv, TaskShape, FinishBulkImport, StartTask
<1>6. SessionShape'
  BY DEF ControlInv, SessionShape, FinishBulkImport, durable, StartTask, TypeOK,
         DurableType, ObjectType, TaskType, CallerType
<1>7. OutcomeShape'
  BY DEF ControlInv, OutcomeShape, FinishBulkImport, durable, history, StartTask,
         TaskShape
<1>8. ReservationShape'
  BY DEF ControlInv, ReservationShape, FinishBulkImport, durable, StartTask, OwnedBy,
         TaskShape, TypeOK, OwnsActiveImport, DurableType, ObjectType, TaskType,
         CallerType
<1>9. TransactionShape'
  BY DEF ControlInv, TransactionShape, FinishBulkImport, sqlite, StartTask, TaskShape,
         TypeOK, ReservationShape, OwnsActiveImport, OwnedBy, DurableType, ObjectType,
         TaskType, CallerType
<1>10. PublicationShape'
  BY DEF ControlInv, PublicationShape, FinishBulkImport, durable, StartTask
<1> QED
  BY <1>1, <1>2, <1>3, <1>4, <1>5, <1>6, <1>7, <1>8, <1>9, <1>10 DEF ControlInv,
     TypeOK

\* The abort takes over the import that the journal names.
LEMMA AbortBulkImportStep ==
    ASSUME NEW r \in Import, ControlInv, AbortBulkImport(r)
    PROVE  ControlInv'
<1>1. DurableType'
  BY DEF ControlInv, DurableType, AbortBulkImport, durable, TypeOK
<1>2. ObjectType'
  BY DEF ControlInv, ObjectType, AbortBulkImport, sqlite, TypeOK
<1>3. TaskType'
  BY DEF ControlInv, TaskType, AbortBulkImport, durable, StartTask, Operation, Step,
         TypeOK
<1>4. CallerType'
  BY DEF ControlInv, CallerType, AbortBulkImport, history, Session, TypeOK
<1>5. TaskShape'
  BY DEF ControlInv, TaskShape, AbortBulkImport, StartTask
<1>6. SessionShape'
  BY DEF ControlInv, SessionShape, AbortBulkImport, durable, StartTask, TypeOK,
         DurableType, ObjectType, TaskType, CallerType
<1>7. OutcomeShape'
  BY DEF ControlInv, OutcomeShape, AbortBulkImport, durable, history, StartTask,
         TaskShape
<1>8. ReservationShape'
  BY DEF ControlInv, ReservationShape, AbortBulkImport, durable, StartTask, OwnedBy,
         TaskShape, TypeOK, OwnsActiveImport, DurableType, ObjectType, TaskType,
         CallerType
<1>9. TransactionShape'
  BY DEF ControlInv, TransactionShape, AbortBulkImport, sqlite, StartTask
<1>10. PublicationShape'
  BY DEF ControlInv, PublicationShape, AbortBulkImport, durable, StartTask
<1> QED
  BY <1>1, <1>2, <1>3, <1>4, <1>5, <1>6, <1>7, <1>8, <1>9, <1>10 DEF ControlInv,
     TypeOK

\* A caller that is turned away never owned the running import.
LEMMA FinalizeRejectedStep ==
    ASSUME NEW r \in Import, ControlInv, FinalizeRejected(r)
    PROVE  ControlInv'
<1>1. TaskType' /\ TaskShape' /\ TransactionShape' /\ PublicationShape'
  BY DEF ControlInv, FinalizeRejected, TypeOK, TaskType, durable, task, TaskShape,
         TransactionShape, object, sqlite, PublicationShape, Intact
<1>2. DurableType'
  BY DEF ControlInv, DurableType, FinalizeRejected, durable, object, TypeOK
<1>3. ObjectType'
  BY DEF ControlInv, ObjectType, FinalizeRejected, object, sqlite, TypeOK
<1>4. CallerType'
  BY DEF ControlInv, CallerType, FinalizeRejected, history, Session, TypeOK
<1>5. SessionShape'
  BY DEF ControlInv, SessionShape, FinalizeRejected, durable, task
<1>6. OutcomeShape'
  BY DEF ControlInv, OutcomeShape, FinalizeRejected, durable, task, history
<1>7. ReservationShape'
  BY DEF ControlInv, ReservationShape, FinalizeRejected, durable, object, task,
         OwnedBy, TaskShape, TypeOK, OwnsActiveImport, DurableType, ObjectType,
         TaskType, CallerType
<1> QED
  BY <1>1, <1>2, <1>3, <1>4, <1>5, <1>6, <1>7 DEF ControlInv, TypeOK

\* The cleanup of a failed import leaves the active one's row alone.
LEMMA CleanupPlaceholderStep ==
    ASSUME NEW r \in Import, ControlInv, CleanupPlaceholder(r)
    PROVE  ControlInv'
<1>1. ObjectType' /\ TaskType' /\ TaskShape' /\ TransactionShape' /\ PublicationShape'
  BY DEF ControlInv, CleanupPlaceholder, TypeOK, ObjectType, object, sqlite, TaskType,
         task, TaskShape, TransactionShape, PublicationShape, Intact
<1>2. DurableType'
  BY DEF ControlInv, DurableType, CleanupPlaceholder, object, TypeOK
<1>3. CallerType'
  BY FaultType DEF ControlInv, CallerType, CleanupPlaceholder, history, TypeOK
<1>4. SessionShape'
  BY DEF ControlInv, SessionShape, CleanupPlaceholder, task, TypeOK, DurableType,
         ObjectType, TaskType, CallerType
<1>5. OutcomeShape'
  BY DEF ControlInv, OutcomeShape, CleanupPlaceholder, task, history, TypeOK,
         DurableType, ObjectType, TaskType, CallerType
<1>6. ReservationShape'
  BY DEF ControlInv, ReservationShape, CleanupPlaceholder, object, task, OwnedBy,
         TaskShape
<1> QED
  BY <1>1, <1>2, <1>3, <1>4, <1>5, <1>6 DEF ControlInv, TypeOK

-------------------------------------------------------------------------------
(* The invariant is preserved: _startBulkImportSetup *)

\* The record names the import that is being set up.
LEMMA SetupCheckpointStep ==
    ASSUME ControlInv, SetupCheckpoint
    PROVE  ControlInv'
<1>1. DurableType'
  BY DEF ControlInv, DurableType, SetupCheckpoint, durable, callers, TypeOK
<1>2. ObjectType'
  BY JournalTypes, PiecesTypes DEF ControlInv, ObjectType, SetupCheckpoint, sqlite,
         callers, TypeOK, TaskShape, DurableType, TaskType, CallerType
<1>3. TaskType'
  BY DEF ControlInv, TaskType, SetupCheckpoint, durable, Goto, SetupFails, Operation,
         Step, TypeOK
<1>4. CallerType'
  BY FaultType DEF ControlInv, CallerType, SetupCheckpoint, callers, history, TypeOK
<1>5. TaskShape'
  BY DEF ControlInv, TaskShape, SetupCheckpoint, Goto, SetupFails
<1>6. SessionShape'
  BY DEF ControlInv, SessionShape, SetupCheckpoint, durable, callers, Goto, SetupFails
<1>7. OutcomeShape'
  BY DEF ControlInv, OutcomeShape, SetupCheckpoint, durable, callers, history, Goto,
         SetupFails
<1>8. ReservationShape'
  BY DEF ControlInv, TypeOK, ObjectType, TaskType, TaskShape, ReservationShape, OwnedBy,
         SetupCheckpoint, Goto, SetupFails, JournalRecord, durable
<1>9. TransactionShape'
  BY DEF ControlInv, TransactionShape, SetupCheckpoint, sqlite, Goto, SetupFails
<1>10. PublicationShape'
  BY DEF ControlInv, PublicationShape, SetupCheckpoint, durable, Goto, SetupFails
<1> QED
  BY <1>1, <1>2, <1>3, <1>4, <1>5, <1>6, <1>7, <1>8, <1>9, <1>10 DEF ControlInv,
     TypeOK

\* A successful write makes the journal the record.
LEMMA SetupWriteJournalStep ==
    ASSUME ControlInv, SetupWriteJournal
    PROVE  ControlInv'
<1>1. DurableType'
  BY JournalTypes, PiecesTypes DEF ControlInv, DurableType, SetupWriteJournal, object,
         callers, TypeOK, ObjectType, TaskType, CallerType
<1>2. ObjectType'
  BY DEF ControlInv, ObjectType, SetupWriteJournal, object, sqlite, callers, TypeOK
<1>3. TaskType'
  BY DEF ControlInv, TaskType, SetupWriteJournal, Goto, SetupFails, Operation, Step,
         TypeOK
<1>4. CallerType'
  BY FaultType DEF ControlInv, CallerType, SetupWriteJournal, callers, history, TypeOK
<1>5. TaskShape'
  BY DEF ControlInv, TaskShape, SetupWriteJournal, Goto, SetupFails
<1>6. SessionShape'
  BY DEF ControlInv, SessionShape, SetupWriteJournal, callers, Goto, SetupFails
<1>7. OutcomeShape'
  BY DEF ControlInv, OutcomeShape, SetupWriteJournal, callers, history, Goto,
         SetupFails
<1>8. ReservationShape'
  BY DEF ControlInv, ReservationShape, SetupWriteJournal, object, callers, Goto,
         SetupFails, OwnedBy, TaskShape, TypeOK, SessionShape, DurableType,
         ObjectType, TaskType, CallerType
<1>9. TransactionShape'
  BY DEF ControlInv, TransactionShape, SetupWriteJournal, object, sqlite, Goto,
         SetupFails
<1>10. PublicationShape'
  BY DEF ControlInv, PublicationShape, SetupWriteJournal, Goto, SetupFails
<1> QED
  BY <1>1, <1>2, <1>3, <1>4, <1>5, <1>6, <1>7, <1>8, <1>9, <1>10 DEF ControlInv,
     TypeOK

\* The import becomes active with journal and transaction in place.
LEMMA SetupBeginStep ==
    ASSUME ControlInv, SetupBegin
    PROVE  ControlInv'
<1>1. DurableType'
  BY DEF ControlInv, DurableType, SetupBegin, durable, callers, Report, TypeOK
<1>2. ObjectType'
  BY DEF ControlInv, ObjectType, SetupBegin, callers, Report, TypeOK
<1>3. TaskType'
  <2>1. op' \in Operation /\ pc' \in Step /\ run' \in Import \cup {Nobody}
    BY DEF ControlInv, TypeOK, TaskType, SetupBegin, EndTask, SetupFails, Operation, Step
  <2>2. todo' \subseteq Store /\ ok' \in BOOLEAN
    BY DEF ControlInv, TypeOK, TaskType, SetupBegin, EndTask, SetupFails, Store
  <2> QED
    BY <2>1, <2>2 DEF TaskType
<1>4. CallerType'
  BY FaultType DEF ControlInv, CallerType, SetupBegin, callers, history, Report,
         Session, TypeOK
<1>5. TaskShape'
  BY DEF ControlInv, TaskShape, SetupBegin, EndTask, SetupFails
<1>6. SessionShape'
  BY DEF ControlInv, SessionShape, SetupBegin, durable, callers, EndTask, Report,
         SetupFails, TypeOK, DurableType, ObjectType, TaskType, CallerType
<1>7. OutcomeShape'
  BY DEF ControlInv, OutcomeShape, SetupBegin, durable, callers, history, EndTask,
         Report, SetupFails, TaskShape, TypeOK, SessionShape, DurableType, ObjectType,
         TaskType, CallerType
<1>8. ReservationShape'
  BY DEF ControlInv, ReservationShape, SetupBegin, durable, callers, EndTask, Report,
         SetupFails, OwnedBy, TaskShape, TypeOK, DurableType, ObjectType, TaskType,
         CallerType
<1>9. TransactionShape'
  BY DEF ControlInv, TransactionShape, SetupBegin, EndTask, SetupFails, TaskShape,
         TypeOK, ReservationShape, OwnedBy, DurableType, ObjectType, TaskType,
         CallerType
<1>10. PublicationShape'
  BY DEF ControlInv, PublicationShape, SetupBegin, durable, EndTask, SetupFails
<1> QED
  BY <1>1, <1>2, <1>3, <1>4, <1>5, <1>6, <1>7, <1>8, <1>9, <1>10 DEF ControlInv,
     TypeOK

-------------------------------------------------------------------------------
(* The invariant is preserved: _rollbackBulkImport *)

\* A failed ROLLBACK leaves txnOpen set and the rollback not ok.
LEMMA RollbackSqliteStep ==
    ASSUME ControlInv, RollbackSqlite
    PROVE  ControlInv'
<1>1. DurableType' /\ SessionShape'
  BY DEF ControlInv, RollbackSqlite, TypeOK, DurableType, durable, callers,
         SessionShape
<1>2. ObjectType'
  BY DEF ControlInv, ObjectType, RollbackSqlite, sqlite, callers, TypeOK
<1>3. TaskType'
  BY DEF ControlInv, TaskType, RollbackSqlite, durable, Operation, Step, TypeOK
<1>4. CallerType'
  BY FaultType DEF ControlInv, CallerType, RollbackSqlite, callers, history, TypeOK
<1>5. TaskShape'
  BY DEF ControlInv, TaskShape, RollbackSqlite
<1>6. OutcomeShape'
  BY DEF ControlInv, OutcomeShape, RollbackSqlite, durable, callers, history
<1>7. ReservationShape'
  BY DEF ControlInv, ReservationShape, RollbackSqlite, durable, callers, OwnedBy,
         TaskShape
<1>8. TransactionShape'
  BY DEF ControlInv, TransactionShape, RollbackSqlite, sqlite
<1>9. PublicationShape'
  BY DEF ControlInv, PublicationShape, RollbackSqlite, durable
<1> QED
  BY <1>1, <1>2, <1>3, <1>4, <1>5, <1>6, <1>7, <1>8, <1>9 DEF ControlInv, TypeOK

\* The rollback of a store changes bytes only.
LEMMA UndoStoreStep ==
    ASSUME NEW s \in Store, ControlInv, UndoStore(s)
    PROVE  ControlInv'
<1>1. ObjectType' /\ TaskShape' /\ SessionShape' /\ ReservationShape'
  BY DEF ControlInv, UndoStore, TypeOK, ObjectType, object, sqlite, callers,
         TaskShape, SessionShape, ReservationShape, OwnedBy
<1>2. DurableType'
  BY JournalTypes, PiecesTypes DEF ControlInv, DurableType, UndoStore, object,
         callers, TypeOK, TaskShape, Store, Checkpoint, ObjectType, TaskType,
         CallerType
<1>3. TaskType'
  BY DEF ControlInv, TaskType, UndoStore, TypeOK
<1>4. CallerType'
  BY FaultType DEF ControlInv, CallerType, UndoStore, callers, history, TypeOK
<1>5. OutcomeShape'
  BY DEF ControlInv, OutcomeShape, UndoStore, callers, history
<1>6. TransactionShape'
  BY DEF ControlInv, TransactionShape, UndoStore, object, sqlite
<1>7. PublicationShape'
  BY DEF ControlInv, PublicationShape, UndoStore
<1> QED
  BY <1>1, <1>2, <1>3, <1>4, <1>5, <1>6, <1>7 DEF ControlInv, TypeOK

\* A complete rollback ends with no transaction and the import answered.
LEMMA ReleaseJournalStep ==
    ASSUME ControlInv, ReleaseJournal
    PROVE  ControlInv'
<1>1. DurableType'
  BY JournalTypes, PiecesTypes DEF ControlInv, DurableType, ReleaseJournal,
         EndRollback, callers, Report, TypeOK
<1>2. ObjectType'
  BY JournalTypes, PiecesTypes DEF ControlInv, ObjectType, ReleaseJournal,
         EndRollback, callers, ReleaseConnection, KeepConnection, Report, TypeOK
<1>3. TaskType'
  BY DEF ControlInv, TaskType, ReleaseJournal, EndRollback, EndTask, Operation, Step,
         TypeOK
<1>4. CallerType'
  BY FaultType DEF ControlInv, CallerType, ReleaseJournal, history, EndRollback,
         callers, Report, Session, TypeOK
<1>5. TaskShape'
  BY DEF ControlInv, TaskShape, ReleaseJournal, EndRollback, EndTask
<1>6. SessionShape'
  BY DEF ControlInv, SessionShape, ReleaseJournal, EndRollback, callers, EndTask,
         Report, TypeOK, DurableType, ObjectType, TaskType, CallerType
<1>7. OutcomeShape'
  BY DEF ControlInv, OutcomeShape, ReleaseJournal, history, EndRollback, callers,
         EndTask, Report, TaskShape, TypeOK, SessionShape, DurableType, ObjectType,
         TaskType, CallerType
<1>8. ReservationShape'
  BY DEF ControlInv, ReservationShape, ReleaseJournal, EndRollback, callers, EndTask,
         ReleaseConnection, KeepConnection, Report
<1>9. TransactionShape'
  BY DEF ControlInv, TransactionShape, ReleaseJournal, EndRollback, EndTask,
         ReleaseConnection, KeepConnection
<1>10. PublicationShape'
  BY DEF ControlInv, PublicationShape, ReleaseJournal, EndRollback, EndTask
<1> QED
  BY <1>1, <1>2, <1>3, <1>4, <1>5, <1>6, <1>7, <1>8, <1>9, <1>10 DEF ControlInv,
     TypeOK

\* An incomplete rollback ends with the connection released if need be.
LEMMA RetainJournalStep ==
    ASSUME ControlInv, RetainJournal
    PROVE  ControlInv'
<1>1. DurableType'
  BY DEF ControlInv, DurableType, RetainJournal, durable, EndRollback, callers,
         Report, TypeOK
<1>2. ObjectType'
  BY DEF ControlInv, ObjectType, RetainJournal, EndRollback, callers,
         ReleaseConnection, KeepConnection, Report, TypeOK
<1>3. TaskType'
  BY DEF ControlInv, TaskType, RetainJournal, durable, EndRollback, EndTask,
         Operation, Step, TypeOK
<1>4. CallerType'
  BY FaultType DEF ControlInv, CallerType, RetainJournal, history, EndRollback,
         callers, Report, Session, TypeOK
<1>5. TaskShape'
  BY DEF ControlInv, TaskShape, RetainJournal, EndRollback, EndTask
<1>6. SessionShape'
  BY DEF ControlInv, SessionShape, RetainJournal, durable, EndRollback, callers,
         EndTask, Report, TypeOK, DurableType, ObjectType, TaskType, CallerType
<1>7. OutcomeShape'
  BY DEF ControlInv, OutcomeShape, RetainJournal, durable, history, EndRollback,
         callers, EndTask, Report, TaskShape, TypeOK, SessionShape, DurableType,
         ObjectType, TaskType, CallerType
<1>8. ReservationShape'
  BY DEF ControlInv, ReservationShape, RetainJournal, durable, EndRollback, callers,
         EndTask, ReleaseConnection, KeepConnection, Report
<1>9. TransactionShape'
  BY DEF ControlInv, TransactionShape, RetainJournal, EndRollback, EndTask,
         ReleaseConnection, KeepConnection
<1>10. PublicationShape'
  BY DEF ControlInv, PublicationShape, RetainJournal, durable, EndRollback, EndTask
<1> QED
  BY <1>1, <1>2, <1>3, <1>4, <1>5, <1>6, <1>7, <1>8, <1>9, <1>10 DEF ControlInv,
     TypeOK

\* A setup without a record had opened no transaction.
LEMMA NothingToReleaseStep ==
    ASSUME ControlInv, NothingToRelease
    PROVE  ControlInv'
<1>1. DurableType'
  BY DEF ControlInv, DurableType, NothingToRelease, durable, EndRollback, callers,
         Report, TypeOK
<1>2. ObjectType'
  BY DEF ControlInv, ObjectType, NothingToRelease, EndRollback, callers,
         ReleaseConnection, KeepConnection, Report, TypeOK
<1>3. TaskType'
  BY DEF ControlInv, TaskType, NothingToRelease, durable, EndRollback, EndTask,
         Operation, Step, TypeOK
<1>4. CallerType'
  BY DEF ControlInv, CallerType, NothingToRelease, history, EndRollback, callers,
         Report, Session, TypeOK
<1>5. TaskShape'
  BY DEF ControlInv, TaskShape, NothingToRelease, EndRollback, EndTask
<1>6. SessionShape'
  BY DEF ControlInv, SessionShape, NothingToRelease, durable, EndRollback, callers,
         EndTask, Report, TypeOK, DurableType, ObjectType, TaskType, CallerType
<1>7. OutcomeShape'
  BY DEF ControlInv, OutcomeShape, NothingToRelease, durable, history, EndRollback,
         callers, EndTask, Report, TaskShape, TypeOK, SessionShape, DurableType,
         ObjectType, TaskType, CallerType
<1>8. ReservationShape'
  BY DEF ControlInv, ReservationShape, NothingToRelease, durable, EndRollback,
         callers, EndTask, ReleaseConnection, KeepConnection, Report
<1>9. TransactionShape'
  BY DEF ControlInv, TransactionShape, NothingToRelease, EndRollback, EndTask,
         ReleaseConnection, KeepConnection
<1>10. PublicationShape'
  BY DEF ControlInv, PublicationShape, NothingToRelease, durable, EndRollback, EndTask
<1> QED
  BY <1>1, <1>2, <1>3, <1>4, <1>5, <1>6, <1>7, <1>8, <1>9, <1>10 DEF ControlInv,
     TypeOK

-------------------------------------------------------------------------------
(* The invariant is preserved: finishBulkImport *)

\* A flushed store holds every piece of the import.
LEMMA EndStoreSessionStep ==
    ASSUME NEW s \in Store, ControlInv, EndStoreSession(s)
    PROVE  ControlInv'
<1>1. ObjectType' /\ TaskShape' /\ SessionShape' /\ ReservationShape'
  BY DEF ControlInv, EndStoreSession, TypeOK, ObjectType, object, sqlite, callers,
         TaskShape, SessionShape, ReservationShape, OwnedBy
<1>2. DurableType'
  BY JournalTypes, PiecesTypes DEF ControlInv, DurableType, EndStoreSession, object,
         callers, TypeOK, TaskShape, Store, Checkpoint, ObjectType, TaskType,
         CallerType
<1>3. TaskType'
  BY DEF ControlInv, TaskType, EndStoreSession, TypeOK
<1>4. CallerType'
  BY FaultType DEF ControlInv, CallerType, EndStoreSession, callers, history, TypeOK
<1>5. OutcomeShape'
  BY DEF ControlInv, OutcomeShape, EndStoreSession, callers, history
<1>6. TransactionShape'
  BY DEF ControlInv, TransactionShape, EndStoreSession, object, sqlite
<1>7. PublicationShape'
  <2>1. todo' = todo \ {s} /\ pc' = "endSessions" /\ run' = run
    BY DEF EndStoreSession
  <2>2. bytes \in [Store -> SUBSET Piece]
    BY DEF ControlInv, TypeOK, DurableType, Checkpoint
  <2>3. ok' => ok /\ bytes' = [bytes EXCEPT ![s] = @ \cup PiecesOf(run)]
    BY DEF EndStoreSession
  <2>4. ASSUME ok', NEW t \in Store \ todo' PROVE PiecesOf(run) \subseteq bytes'[t]
    BY <2>1, <2>2, <2>3, <2>4 DEF ControlInv, PublicationShape, EndStoreSession
  <2> QED
    BY <2>1, <2>4 DEF PublicationShape
<1> QED
  BY <1>1, <1>2, <1>3, <1>4, <1>5, <1>6, <1>7 DEF ControlInv, TypeOK

\* The summary is staged only when both stores hold every piece.
LEMMA StoreSessionsEndedStep ==
    ASSUME ControlInv, StoreSessionsEnded
    PROVE  ControlInv'
<1>1. DurableType' /\ ObjectType' /\ CallerType'
  BY DEF ControlInv, StoreSessionsEnded, TypeOK, DurableType, durable, object,
         callers, ObjectType, sqlite, CallerType, history
<1>2. TaskType'
  BY DEF ControlInv, TaskType, StoreSessionsEnded, durable, Begin, Operation, Step,
         TypeOK
<1>3. TaskShape'
  BY DEF ControlInv, TaskShape, StoreSessionsEnded, Begin
<1>4. SessionShape'
  BY DEF ControlInv, SessionShape, StoreSessionsEnded, durable, callers, Begin
<1>5. OutcomeShape'
  BY DEF ControlInv, OutcomeShape, StoreSessionsEnded, durable, callers, history,
         Begin
<1>6. ReservationShape'
  BY DEF ControlInv, ReservationShape, StoreSessionsEnded, durable, object, callers,
         Begin, OwnedBy
<1>7. TransactionShape'
  BY DEF ControlInv, TransactionShape, StoreSessionsEnded, object, sqlite, Begin
<1>8. PublicationShape'
  BY DEF ControlInv, PublicationShape, StoreSessionsEnded, durable, Begin, Intact
<1> QED
  BY <1>1, <1>2, <1>3, <1>4, <1>5, <1>6, <1>7, <1>8 DEF ControlInv, TypeOK

\* The staged summary is in the open transaction.
LEMMA StageSummaryStep ==
    ASSUME ControlInv, StageSummary
    PROVE  ControlInv'
<1>1. DurableType'
  BY DEF ControlInv, DurableType, StageSummary, durable, object, callers, TypeOK
<1>2. ObjectType'
  BY JournalTypes, PiecesTypes DEF ControlInv, ObjectType, StageSummary, object,
         callers, TypeOK, DurableType, TaskType, CallerType
<1>3. TaskType'
  BY DEF ControlInv, TaskType, StageSummary, durable, Goto, Begin, Operation, Step,
         TypeOK
<1>4. CallerType'
  BY FaultType DEF ControlInv, CallerType, StageSummary, callers, history, TypeOK
<1>5. TaskShape'
  BY DEF ControlInv, TaskShape, StageSummary, Goto, Begin
<1>6. SessionShape'
  BY DEF ControlInv, SessionShape, StageSummary, durable, callers, Goto, Begin
<1>7. OutcomeShape'
  BY DEF ControlInv, OutcomeShape, StageSummary, durable, callers, history, Goto,
         Begin
<1>8. ReservationShape'
  BY DEF ControlInv, ReservationShape, StageSummary, durable, object, callers, Goto,
         Begin, OwnedBy
<1>9. TransactionShape'
  BY DEF ControlInv, TransactionShape, StageSummary, object, Goto, Begin, TaskShape
<1>10. PublicationShape'
  BY DEF ControlInv, PublicationShape, StageSummary, durable, Goto, Begin, Intact
<1> QED
  BY <1>1, <1>2, <1>3, <1>4, <1>5, <1>6, <1>7, <1>8, <1>9, <1>10 DEF ControlInv,
     TypeOK

\* COMMIT turns the placeholder into the only new installed row.
LEMMA CommitPublicationStep ==
    ASSUME ControlInv, CommitPublication
    PROVE  ControlInv'
<1>1. DurableType'
  BY JournalTypes, PiecesTypes DEF ControlInv, DurableType, CommitPublication,
         callers, TypeOK, TaskShape, ObjectType, TaskType, CallerType
<1>2. ObjectType'
  BY JournalTypes, PiecesTypes DEF ControlInv, ObjectType, CommitPublication, callers,
         TypeOK, DurableType, TaskType, CallerType
<1>3. TaskType'
  BY DEF ControlInv, TaskType, CommitPublication, Goto, Begin, Operation, Step, TypeOK
<1>4. CallerType'
  BY JournalTypes, PiecesTypes, FaultType DEF ControlInv, CallerType,
         CommitPublication, callers, Session, TypeOK, TaskShape, DurableType,
         ObjectType, TaskType
<1>5. TaskShape'
  BY DEF ControlInv, TaskShape, CommitPublication, Goto, Begin
<1>6. SessionShape'
  BY DEF ControlInv, SessionShape, CommitPublication, callers, Goto, Begin, TaskShape,
         TypeOK, DurableType, ObjectType, TaskType, CallerType
<1>7. OutcomeShape'
  BY DEF ControlInv, OutcomeShape, CommitPublication, callers, Goto, Begin, TypeOK,
         DurableType, ObjectType, TaskType, CallerType
<1>8. ReservationShape'
  BY DEF ControlInv, ReservationShape, CommitPublication, callers, Goto, Begin,
         OwnedBy, TaskShape
<1>9. TransactionShape'
  BY DEF ControlInv, TransactionShape, CommitPublication, Goto, Begin, TaskShape
<1>10. PublicationShape'
  BY DEF ControlInv, PublicationShape, CommitPublication, Goto, Begin
<1> QED
  BY <1>1, <1>2, <1>3, <1>4, <1>5, <1>6, <1>7, <1>8, <1>9, <1>10 DEF ControlInv,
     TypeOK

\* The import reported as published is committed.
LEMMA ClearPublishedJournalStep ==
    ASSUME ControlInv, ClearPublishedJournal
    PROVE  ControlInv'
<1>1. DurableType'
  BY JournalTypes, PiecesTypes DEF ControlInv, DurableType, ClearPublishedJournal,
         Report, TypeOK
<1>2. ObjectType'
  BY DEF ControlInv, ObjectType, ClearPublishedJournal, sqlite, Report, TypeOK
<1>3. TaskType'
  BY DEF ControlInv, TaskType, ClearPublishedJournal, EndTask, Operation, Step, TypeOK
<1>4. CallerType'
  BY FaultType DEF ControlInv, CallerType, ClearPublishedJournal, history, Report,
         Session, TypeOK
<1>5. TaskShape'
  BY DEF ControlInv, TaskShape, ClearPublishedJournal, EndTask
<1>6. SessionShape'
  BY DEF ControlInv, SessionShape, ClearPublishedJournal, EndTask, Report, TypeOK,
         DurableType, ObjectType, TaskType, CallerType
<1>7. OutcomeShape'
  BY DEF ControlInv, OutcomeShape, ClearPublishedJournal, history, EndTask, Report,
         TypeOK, DurableType, ObjectType, TaskType, CallerType
<1>8. ReservationShape'
  BY DEF ControlInv, ReservationShape, ClearPublishedJournal, EndTask, Report
<1>9. TransactionShape'
  BY DEF ControlInv, TransactionShape, ClearPublishedJournal, sqlite, EndTask,
         TaskShape
<1>10. PublicationShape'
  BY DEF ControlInv, PublicationShape, ClearPublishedJournal, EndTask
<1> QED
  BY <1>1, <1>2, <1>3, <1>4, <1>5, <1>6, <1>7, <1>8, <1>9, <1>10 DEF ControlInv,
     TypeOK

-------------------------------------------------------------------------------
(* The invariant is preserved: prepare and recovery *)

\* Opening starts only when nothing is connected, so no lifecycle is reserved.
LEMMA PrepareStep ==
    ASSUME ControlInv, Prepare
    PROVE  ControlInv'
<1>1. DurableType' /\ ObjectType' /\ CallerType'
  BY DEF ControlInv, Prepare, TypeOK, DurableType, durable, object, callers,
         ObjectType, sqlite, CallerType, history
<1>2. TaskType'
  BY DEF ControlInv, TaskType, Prepare, durable, StartTask, Operation, Step, TypeOK
<1>3. TaskShape'
  BY DEF ControlInv, TaskShape, Prepare, StartTask
<1>4. SessionShape'
  BY DEF ControlInv, SessionShape, Prepare, durable, callers, StartTask, TaskShape,
         TypeOK, Quiet, DurableType, ObjectType, TaskType, CallerType
<1>5. OutcomeShape'
  BY DEF ControlInv, OutcomeShape, Prepare, durable, callers, history, StartTask,
         TaskShape
<1>6. ReservationShape'
  BY DEF ControlInv, ReservationShape, Prepare, durable, object, callers, StartTask
<1>7. TransactionShape'
  BY DEF ControlInv, TransactionShape, Prepare, object, sqlite, StartTask
<1>8. PublicationShape'
  BY DEF ControlInv, PublicationShape, Prepare, durable, StartTask
<1> QED
  BY <1>1, <1>2, <1>3, <1>4, <1>5, <1>6, <1>7, <1>8 DEF ControlInv, TypeOK

\* A failed opening leaves nothing connected.
LEMMA OpenConnectionStep ==
    ASSUME ControlInv, OpenConnection
    PROVE  ControlInv'
<1>1. DurableType'
  BY DEF ControlInv, DurableType, OpenConnection, durable, callers, PrepareFails,
         TypeOK
<1>2. ObjectType'
  BY JournalTypes, PiecesTypes DEF ControlInv, ObjectType, OpenConnection, sqlite,
         callers, PrepareFails, ReleaseConnection, TypeOK
<1>3. TaskType'
  BY DEF ControlInv, TaskType, OpenConnection, durable, Goto, PrepareFails, EndTask,
         Operation, Step, TypeOK
<1>4. CallerType'
  BY FaultType DEF ControlInv, CallerType, OpenConnection, callers, history,
         PrepareFails, TypeOK
<1>5. TaskShape'
  BY DEF ControlInv, TaskShape, OpenConnection, Goto, PrepareFails, EndTask
<1>6. SessionShape'
  BY DEF ControlInv, SessionShape, OpenConnection, durable, callers, Goto,
         PrepareFails, EndTask, TaskShape
<1>7. OutcomeShape'
  BY DEF ControlInv, OutcomeShape, OpenConnection, durable, callers, history, Goto,
         PrepareFails, EndTask
<1>8. ReservationShape'
  BY DEF ControlInv, ReservationShape, OpenConnection, durable, callers, Goto,
         PrepareFails, EndTask, ReleaseConnection, OwnedBy
<1>9. TransactionShape'
  BY DEF ControlInv, TransactionShape, OpenConnection, sqlite, Goto, PrepareFails,
         EndTask, ReleaseConnection
<1>10. PublicationShape'
  BY DEF ControlInv, PublicationShape, OpenConnection, durable, Goto, PrepareFails,
         EndTask
<1> QED
  BY <1>1, <1>2, <1>3, <1>4, <1>5, <1>6, <1>7, <1>8, <1>9, <1>10 DEF ControlInv,
     TypeOK

\* Recovery begins without a transaction, in prepare as in setup.
LEMMA ReadJournalStep ==
    ASSUME ControlInv, ReadJournal
    PROVE  ControlInv'
<1>1. DurableType'
  BY JournalTypes, PiecesTypes DEF ControlInv, DurableType, ReadJournal,
         RecoveryFails, KeepObject, Report, PrepareFails, callers, TypeOK
<1>2. ObjectType'
  BY JournalTypes, PiecesTypes DEF ControlInv, ObjectType, ReadJournal, RecoveryFails,
         KeepObject, KeepConnection, Report, PrepareFails, sqlite, callers,
         ReleaseConnection, TypeOK
<1>3. TaskType'
  BY DEF ControlInv, TaskType, ReadJournal, Goto, Begin, RecoveryFails, Recovered,
         EndTask, PrepareFails, Operation, Step, TypeOK
<1>4. CallerType'
  BY FaultType DEF ControlInv, CallerType, ReadJournal, history, RecoveryFails,
         KeepObject, Report, PrepareFails, callers, Session, TypeOK
<1>5. TaskShape'
  BY DEF ControlInv, TaskShape, ReadJournal, Goto, Begin, RecoveryFails, Recovered,
         EndTask, PrepareFails
<1>6. SessionShape'
  BY DEF ControlInv, SessionShape, ReadJournal, Goto, Begin, RecoveryFails, Recovered,
         KeepObject, EndTask, Report, PrepareFails, callers, TaskShape, TypeOK,
         DurableType, ObjectType, TaskType, CallerType
<1>7. OutcomeShape'
  BY DEF ControlInv, OutcomeShape, ReadJournal, history, Goto, Begin, RecoveryFails,
         Recovered, KeepObject, EndTask, Report, PrepareFails, callers, TaskShape,
         TypeOK, SessionShape, DurableType, ObjectType, TaskType, CallerType
<1>8. ReservationShape'
  BY DEF ControlInv, ReservationShape, ReadJournal, Goto, Begin, RecoveryFails,
         Recovered, KeepObject, EndTask, KeepConnection, Report, PrepareFails,
         callers, ReleaseConnection, OwnedBy
<1>9. TransactionShape'
  <2>1. txnOpen = FALSE /\ sqlTxn = FALSE /\ staged = Nobody
    BY DEF ControlInv, TaskShape, TransactionShape, TypeOK, ObjectType, ReadJournal
  <2>2. RecoveryFails => txnOpen' = FALSE /\ sqlTxn' = FALSE /\ staged' = Nobody
    BY <2>1 DEF RecoveryFails, PrepareFails, ReleaseConnection, KeepConnection
  <2>3. KeepObject => txnOpen' = FALSE /\ sqlTxn' = FALSE /\ staged' = Nobody
    BY <2>1 DEF KeepObject, sqlite
  <2>4. txnOpen' = FALSE /\ sqlTxn' = FALSE /\ staged' = Nobody
    BY <2>2, <2>3 DEF ReadJournal
  <2>5. pc' \in {"none", "checkpoint", "cleanup", "recoverClear", "recoverUndo"}
    BY DEF ReadJournal, RecoveryFails, PrepareFails, EndTask, Recovered, Goto, Begin
  <2> QED
    BY <2>4, <2>5 DEF TransactionShape
<1>10. PublicationShape'
  BY DEF ControlInv, PublicationShape, ReadJournal, Goto, Begin, RecoveryFails,
         Recovered, EndTask, PrepareFails
<1> QED
  BY <1>1, <1>2, <1>3, <1>4, <1>5, <1>6, <1>7, <1>8, <1>9, <1>10 DEF ControlInv,
     TypeOK

\* A failed recovery ends the operation that needed it.
LEMMA RecoverySettledStep ==
    ASSUME ControlInv, RecoverySettled
    PROVE  ControlInv'
<1>1. DurableType'
  BY DEF ControlInv, DurableType, RecoverySettled, durable, RecoveryFails, KeepObject,
         Report, PrepareFails, callers, TypeOK
<1>2. ObjectType'
  BY JournalTypes, PiecesTypes DEF ControlInv, ObjectType, RecoverySettled,
         RecoveryFails, KeepObject, KeepConnection, Report, PrepareFails, sqlite,
         callers, ReleaseConnection, TypeOK
<1>3. TaskType'
  BY DEF ControlInv, TaskType, RecoverySettled, durable, Goto, RecoveryFails, EndTask,
         PrepareFails, Operation, Step, TypeOK
<1>4. CallerType'
  BY DEF ControlInv, CallerType, RecoverySettled, history, RecoveryFails, KeepObject,
         Report, PrepareFails, callers, Session, TypeOK
<1>5. TaskShape'
  BY DEF ControlInv, TaskShape, RecoverySettled, Goto, RecoveryFails, EndTask,
         PrepareFails
<1>6. SessionShape'
  BY DEF ControlInv, SessionShape, RecoverySettled, durable, Goto, RecoveryFails,
         KeepObject, EndTask, Report, PrepareFails, callers, TaskShape, TypeOK,
         DurableType, ObjectType, TaskType, CallerType
<1>7. OutcomeShape'
  BY DEF ControlInv, OutcomeShape, RecoverySettled, durable, history, Goto,
         RecoveryFails, KeepObject, EndTask, Report, PrepareFails, callers, TaskShape,
         TypeOK, SessionShape, DurableType, ObjectType, TaskType, CallerType
<1>8. ReservationShape'
  BY DEF ControlInv, ReservationShape, RecoverySettled, durable, Goto, RecoveryFails,
         KeepObject, EndTask, KeepConnection, Report, PrepareFails, callers,
         ReleaseConnection, OwnedBy
<1>9. TransactionShape'
  BY DEF ControlInv, TransactionShape, RecoverySettled, Goto, RecoveryFails,
         KeepObject, EndTask, KeepConnection, PrepareFails, sqlite, ReleaseConnection
<1>10. PublicationShape'
  BY DEF ControlInv, PublicationShape, RecoverySettled, durable, Goto, RecoveryFails,
         EndTask, PrepareFails
<1> QED
  BY <1>1, <1>2, <1>3, <1>4, <1>5, <1>6, <1>7, <1>8, <1>9, <1>10 DEF ControlInv,
     TypeOK

\* Recovery clears the journal before setup or cleanup goes on.
LEMMA RecoveryClearsJournalStep ==
    ASSUME ControlInv, RecoveryClearsJournal
    PROVE  ControlInv'
<1>1. DurableType'
  BY JournalTypes, PiecesTypes DEF ControlInv, DurableType, RecoveryClearsJournal,
         RecoveryFails, KeepObject, Report, PrepareFails, callers, TypeOK
<1>2. ObjectType'
  BY JournalTypes, PiecesTypes DEF ControlInv, ObjectType, RecoveryClearsJournal,
         RecoveryFails, KeepObject, KeepConnection, Report, PrepareFails, sqlite,
         callers, ReleaseConnection, TypeOK
<1>3. TaskType'
  BY DEF ControlInv, TaskType, RecoveryClearsJournal, Goto, RecoveryFails, Recovered,
         EndTask, PrepareFails, Operation, Step, TypeOK
<1>4. CallerType'
  BY FaultType DEF ControlInv, CallerType, RecoveryClearsJournal, history,
         RecoveryFails, KeepObject, Report, PrepareFails, callers, Session, TypeOK
<1>5. TaskShape'
  BY DEF ControlInv, TaskShape, RecoveryClearsJournal, Goto, RecoveryFails, Recovered,
         EndTask, PrepareFails
<1>6. SessionShape'
  BY DEF ControlInv, SessionShape, RecoveryClearsJournal, Goto, RecoveryFails,
         Recovered, KeepObject, EndTask, Report, PrepareFails, callers, TypeOK,
         DurableType, ObjectType, TaskType, CallerType
<1>7. OutcomeShape'
  BY DEF ControlInv, OutcomeShape, RecoveryClearsJournal, history, Goto,
         RecoveryFails, Recovered, KeepObject, EndTask, Report, PrepareFails, callers,
         TaskShape, TypeOK, SessionShape, DurableType, ObjectType, TaskType,
         CallerType
<1>8. ReservationShape'
  BY DEF ControlInv, ReservationShape, RecoveryClearsJournal, Goto, RecoveryFails,
         Recovered, KeepObject, EndTask, KeepConnection, Report, PrepareFails,
         callers, ReleaseConnection, OwnedBy, TaskShape
<1>9. TransactionShape'
  BY DEF ControlInv, TransactionShape, RecoveryClearsJournal, Goto, RecoveryFails,
         Recovered, KeepObject, EndTask, KeepConnection, PrepareFails, sqlite,
         ReleaseConnection
<1>10. PublicationShape'
  BY DEF ControlInv, PublicationShape, RecoveryClearsJournal, Goto, RecoveryFails,
         Recovered, EndTask, PrepareFails
<1> QED
  BY <1>1, <1>2, <1>3, <1>4, <1>5, <1>6, <1>7, <1>8, <1>9, <1>10 DEF ControlInv,
     TypeOK

\* Only incomplete summaries are taken up by the sweep.
LEMMA StartupCleanupStep ==
    ASSUME ControlInv, StartupCleanup
    PROVE  ControlInv'
<1>1. DurableType' /\ CallerType'
  BY DEF ControlInv, StartupCleanup, TypeOK, DurableType, durable, callers,
         CallerType, history
<1>2. ObjectType'
  BY DEF ControlInv, ObjectType, StartupCleanup, sqlite, callers, TypeOK
<1>3. TaskType'
  BY DEF ControlInv, TaskType, StartupCleanup, durable, Begin, EndTask, Operation,
         Step, TypeOK
<1>4. TaskShape'
  BY DEF ControlInv, TaskShape, StartupCleanup, Begin, EndTask
<1>5. SessionShape'
  BY DEF ControlInv, SessionShape, StartupCleanup, durable, callers, Begin, EndTask,
         TaskShape
<1>6. OutcomeShape'
  BY DEF ControlInv, OutcomeShape, StartupCleanup, durable, callers, history, Begin,
         EndTask
<1>7. ReservationShape'
  BY DEF ControlInv, ReservationShape, StartupCleanup, durable, callers, Begin,
         EndTask, OwnedBy
<1>8. TransactionShape'
  BY DEF ControlInv, TransactionShape, StartupCleanup, sqlite, Begin, EndTask,
         TaskShape
<1>9. PublicationShape'
  BY DEF ControlInv, PublicationShape, StartupCleanup, durable, Begin, EndTask
<1> QED
  BY <1>1, <1>2, <1>3, <1>4, <1>5, <1>6, <1>7, <1>8, <1>9 DEF ControlInv, TypeOK

\* The sweep deletes no installed row.
LEMMA SweepIncompleteStep ==
    ASSUME NEW r \in Import, ControlInv, SweepIncomplete(r)
    PROVE  ControlInv'
<1>1. DurableType'
  BY DEF ControlInv, DurableType, SweepIncomplete, object, callers, TypeOK
<1>2. ObjectType'
  BY DEF ControlInv, ObjectType, SweepIncomplete, object, sqlite, callers, TypeOK
<1>3. TaskType'
  BY DEF ControlInv, TaskType, SweepIncomplete, Operation, Step, TypeOK
<1>4. CallerType'
  BY FaultType DEF ControlInv, CallerType, SweepIncomplete, callers, history, TypeOK
<1>5. TaskShape'
  BY DEF ControlInv, TaskShape, SweepIncomplete
<1>6. SessionShape'
  BY DEF ControlInv, SessionShape, SweepIncomplete, callers, TaskShape
<1>7. OutcomeShape'
  BY DEF ControlInv, OutcomeShape, SweepIncomplete, callers, history, TypeOK,
         DurableType, ObjectType, TaskType, CallerType
<1>8. ReservationShape'
  BY DEF ControlInv, ReservationShape, SweepIncomplete, object, callers, OwnedBy,
         TaskShape
<1>9. TransactionShape'
  BY DEF ControlInv, TransactionShape, SweepIncomplete, object, sqlite
<1>10. PublicationShape'
  BY DEF ControlInv, PublicationShape, SweepIncomplete
<1> QED
  BY <1>1, <1>2, <1>3, <1>4, <1>5, <1>6, <1>7, <1>8, <1>9, <1>10 DEF ControlInv,
     TypeOK

\* The removal of orphaned shards changes bytes only.
LEMMA VerifyIntegrityStep ==
    ASSUME ControlInv, VerifyIntegrity
    PROVE  ControlInv'
<1>1. DurableType'
  BY JournalTypes, PiecesTypes DEF ControlInv, DurableType, VerifyIntegrity, callers,
         TypeOK, TaskShape, Store, Checkpoint, ObjectType, TaskType, CallerType
<1>2. ObjectType'
  BY DEF ControlInv, ObjectType, VerifyIntegrity, sqlite, callers, TypeOK
<1>3. TaskType'
  BY DEF ControlInv, TaskType, VerifyIntegrity, EndTask, Operation, Step, TypeOK
<1>4. CallerType'
  BY FaultType DEF ControlInv, CallerType, VerifyIntegrity, callers, history, TypeOK
<1>5. TaskShape'
  BY DEF ControlInv, TaskShape, VerifyIntegrity, EndTask
<1>6. SessionShape'
  BY DEF ControlInv, SessionShape, VerifyIntegrity, callers, EndTask, TaskShape
<1>7. OutcomeShape'
  BY DEF ControlInv, OutcomeShape, VerifyIntegrity, callers, history, EndTask
<1>8. ReservationShape'
  BY DEF ControlInv, ReservationShape, VerifyIntegrity, callers, EndTask
<1>9. TransactionShape'
  BY DEF ControlInv, TransactionShape, VerifyIntegrity, sqlite, EndTask, TaskShape
<1>10. PublicationShape'
  BY DEF ControlInv, PublicationShape, VerifyIntegrity, EndTask
<1> QED
  BY <1>1, <1>2, <1>3, <1>4, <1>5, <1>6, <1>7, <1>8, <1>9, <1>10 DEF ControlInv,
     TypeOK

-------------------------------------------------------------------------------
(* The invariant is preserved: deleteDictionary, close, purge, termination *)

\* Behind the barrier no import is active.
LEMMA DeleteDictionaryStep ==
    ASSUME NEW r \in Import, ControlInv, DeleteDictionary(r)
    PROVE  ControlInv'
<1>1. ObjectType' /\ CallerType'
  BY DEF ControlInv, DeleteDictionary, TypeOK, ObjectType, object, sqlite, callers,
         CallerType, history
<1>2. DurableType'
  BY DEF ControlInv, DurableType, DeleteDictionary, object, callers, TypeOK
<1>3. TaskType'
  BY DEF ControlInv, TaskType, DeleteDictionary, StartTask, Operation, Step, TypeOK
<1>4. TaskShape'
  BY DEF ControlInv, TaskShape, DeleteDictionary, StartTask
<1>5. SessionShape'
  BY DEF ControlInv, SessionShape, DeleteDictionary, callers, StartTask, TaskShape,
         TypeOK, Unresolved, Quiet, DurableType, ObjectType, TaskType, CallerType
<1>6. OutcomeShape'
  BY DEF ControlInv, OutcomeShape, DeleteDictionary, callers, history, StartTask,
         TaskShape
<1>7. ReservationShape'
  <2>1. bulkState = "idle"
    BY DEF ControlInv, ReservationShape, OwnedBy, DeleteDictionary, Unresolved, NoJournal
  <2> QED
    BY <2>1 DEF ControlInv, ReservationShape, DeleteDictionary, StartTask, object
<1>8. TransactionShape'
  <2>1. bulkState = "idle"
    BY DEF ControlInv, ReservationShape, OwnedBy, DeleteDictionary, Unresolved, NoJournal
  <2> QED
    BY <2>1 DEF ControlInv, TransactionShape, DeleteDictionary, StartTask, object, sqlite
<1>9. PublicationShape'
  BY DEF ControlInv, PublicationShape, DeleteDictionary, StartTask
<1> QED
  BY <1>1, <1>2, <1>3, <1>4, <1>5, <1>6, <1>7, <1>8, <1>9 DEF ControlInv, TypeOK

\* The deletion of records changes bytes only.
LEMMA DeleteRecordsStep ==
    ASSUME ControlInv, DeleteRecords
    PROVE  ControlInv'
<1>1. DurableType'
  BY JournalTypes, PiecesTypes DEF ControlInv, DurableType, DeleteRecords, object,
         callers, TypeOK, TaskShape, Store, Checkpoint, ObjectType, TaskType,
         CallerType
<1>2. ObjectType'
  BY DEF ControlInv, ObjectType, DeleteRecords, object, sqlite, callers, TypeOK
<1>3. TaskType'
  BY DEF ControlInv, TaskType, DeleteRecords, Goto, Operation, Step, TypeOK
<1>4. CallerType'
  BY FaultType DEF ControlInv, CallerType, DeleteRecords, callers, history, TypeOK
<1>5. TaskShape'
  BY DEF ControlInv, TaskShape, DeleteRecords, Goto
<1>6. SessionShape'
  BY DEF ControlInv, SessionShape, DeleteRecords, callers, Goto
<1>7. OutcomeShape'
  BY DEF ControlInv, OutcomeShape, DeleteRecords, callers, history, Goto
<1>8. ReservationShape'
  BY DEF ControlInv, ReservationShape, DeleteRecords, object, callers, Goto, OwnedBy
<1>9. TransactionShape'
  BY DEF ControlInv, TransactionShape, DeleteRecords, object, sqlite, Goto
<1>10. PublicationShape'
  BY DEF ControlInv, PublicationShape, DeleteRecords, Goto
<1> QED
  BY <1>1, <1>2, <1>3, <1>4, <1>5, <1>6, <1>7, <1>8, <1>9, <1>10 DEF ControlInv,
     TypeOK

\* The reset of shared content changes bytes only.
LEMMA DeleteContentStep ==
    ASSUME ControlInv, DeleteContent
    PROVE  ControlInv'
<1>1. DurableType'
  BY JournalTypes, PiecesTypes DEF ControlInv, DurableType, DeleteContent, object,
         callers, TypeOK, TaskShape, Store, Checkpoint, ObjectType, TaskType,
         CallerType
<1>2. ObjectType'
  BY DEF ControlInv, ObjectType, DeleteContent, object, sqlite, callers, TypeOK
<1>3. TaskType'
  BY DEF ControlInv, TaskType, DeleteContent, EndTask, Operation, Step, TypeOK
<1>4. CallerType'
  BY FaultType DEF ControlInv, CallerType, DeleteContent, callers, history, TypeOK
<1>5. TaskShape'
  BY DEF ControlInv, TaskShape, DeleteContent, EndTask
<1>6. SessionShape'
  BY DEF ControlInv, SessionShape, DeleteContent, callers, EndTask, TaskShape
<1>7. OutcomeShape'
  BY DEF ControlInv, OutcomeShape, DeleteContent, callers, history, EndTask
<1>8. ReservationShape'
  BY DEF ControlInv, ReservationShape, DeleteContent, object, callers, EndTask,
         OwnedBy, TaskShape
<1>9. TransactionShape'
  BY DEF ControlInv, TransactionShape, DeleteContent, object, sqlite, EndTask
<1>10. PublicationShape'
  BY DEF ControlInv, PublicationShape, DeleteContent, EndTask
<1> QED
  BY <1>1, <1>2, <1>3, <1>4, <1>5, <1>6, <1>7, <1>8, <1>9, <1>10 DEF ControlInv,
     TypeOK

\* Closing claims the lifecycle, or finds nothing to roll back.
LEMMA CloseStep ==
    ASSUME ControlInv, Close
    PROVE  ControlInv'
<1>1. DurableType' /\ CallerType'
  BY DEF ControlInv, Close, TypeOK, DurableType, durable, callers, CallerType, history
<1>2. ObjectType'
  BY DEF ControlInv, ObjectType, Close, callers, ReleaseConnection, KeepConnection,
         TypeOK
<1>3. TaskType'
  BY DEF ControlInv, TaskType, Close, durable, task, StartTask, Operation, Step,
         TypeOK
<1>4. TaskShape'
  BY DEF ControlInv, TaskShape, Close, task, StartTask
<1>5. SessionShape'
  BY DEF ControlInv, SessionShape, Close, durable, task, callers, StartTask,
         TaskShape, TypeOK, Quiet, DurableType, ObjectType, TaskType, CallerType
<1>6. OutcomeShape'
  BY DEF ControlInv, OutcomeShape, Close, durable, task, callers, history, StartTask,
         TaskShape
<1>7. ReservationShape'
  BY DEF ControlInv, ReservationShape, Close, durable, task, callers, StartTask,
         ReleaseConnection, KeepConnection, OwnedBy
<1>8. TransactionShape'
  BY DEF ControlInv, TransactionShape, Close, task, StartTask, ReleaseConnection,
         KeepConnection, TaskShape
<1>9. PublicationShape'
  BY DEF ControlInv, PublicationShape, Close, durable, task, StartTask, Intact
<1> QED
  BY <1>1, <1>2, <1>3, <1>4, <1>5, <1>6, <1>7, <1>8, <1>9 DEF ControlInv, TypeOK

\* A purge claims the lifecycle and releases the connection first.
LEMMA PurgeStep ==
    ASSUME ControlInv, Purge
    PROVE  ControlInv'
<1>1. DurableType'
  BY DEF ControlInv, DurableType, Purge, durable, callers, TypeOK
<1>2. ObjectType'
  BY DEF ControlInv, ObjectType, Purge, callers, ReleaseConnection, TypeOK
<1>3. TaskType'
  BY DEF ControlInv, TaskType, Purge, durable, StartTask, Operation, Step, TypeOK
<1>4. CallerType'
  BY DEF ControlInv, CallerType, Purge, callers, TypeOK
<1>5. TaskShape'
  BY DEF ControlInv, TaskShape, Purge, StartTask
<1>6. SessionShape'
  BY DEF ControlInv, SessionShape, Purge, durable, callers, StartTask, TaskShape,
         TypeOK, Quiet, DurableType, ObjectType, TaskType, CallerType
<1>7. OutcomeShape'
  BY DEF ControlInv, OutcomeShape, Purge, durable, callers, StartTask, TaskShape
<1>8. ReservationShape'
  BY DEF ControlInv, ReservationShape, Purge, durable, callers, StartTask,
         ReleaseConnection
<1>9. TransactionShape'
  BY DEF ControlInv, TransactionShape, Purge, StartTask, ReleaseConnection
<1>10. PublicationShape'
  BY DEF ControlInv, PublicationShape, Purge, durable, StartTask
<1> QED
  BY <1>1, <1>2, <1>3, <1>4, <1>5, <1>6, <1>7, <1>8, <1>9, <1>10 DEF ControlInv,
     TypeOK

\* The reset of a store changes bytes only.
LEMMA ResetStoreStep ==
    ASSUME NEW s \in Store, ControlInv, ResetStore(s)
    PROVE  ControlInv'
<1>1. /\ ObjectType'
     /\ TaskShape'
     /\ SessionShape'
     /\ ReservationShape'
     /\ TransactionShape'
  BY DEF ControlInv, ResetStore, TypeOK, ObjectType, object, sqlite, callers,
         TaskShape, SessionShape, ReservationShape, OwnedBy, TransactionShape
<1>2. DurableType'
  BY JournalTypes, PiecesTypes DEF ControlInv, DurableType, ResetStore, object,
         callers, TypeOK, TaskShape, Store, Checkpoint, ObjectType, TaskType,
         CallerType
<1>3. TaskType'
  BY DEF ControlInv, TaskType, ResetStore, TypeOK
<1>4. CallerType'
  BY FaultType DEF ControlInv, CallerType, ResetStore, callers, history, TypeOK
<1>5. OutcomeShape'
  BY DEF ControlInv, OutcomeShape, ResetStore, callers, history
<1>6. PublicationShape'
  BY DEF ControlInv, PublicationShape, ResetStore
<1> QED
  BY <1>1, <1>2, <1>3, <1>4, <1>5, <1>6 DEF ControlInv, TypeOK

\* The journal may go while a purge holds the lifecycle.
LEMMA ResetJournalStep ==
    ASSUME ControlInv, ResetJournal
    PROVE  ControlInv'
<1>1. ObjectType' /\ TaskShape' /\ SessionShape' /\ TransactionShape'
  BY DEF ControlInv, ResetJournal, TypeOK, ObjectType, object, sqlite, callers,
         TaskShape, SessionShape, TransactionShape
<1>2. DurableType'
  BY JournalTypes, PiecesTypes DEF ControlInv, DurableType, ResetJournal, object,
         callers, TypeOK
<1>3. TaskType'
  BY DEF ControlInv, TaskType, ResetJournal, TypeOK
<1>4. CallerType'
  BY FaultType DEF ControlInv, CallerType, ResetJournal, callers, history, TypeOK
<1>5. OutcomeShape'
  BY DEF ControlInv, OutcomeShape, ResetJournal, callers, history
<1>6. ReservationShape'
  BY DEF ControlInv, ReservationShape, ResetJournal, object, callers, OwnedBy,
         TaskShape
<1>7. PublicationShape'
  BY DEF ControlInv, PublicationShape, ResetJournal
<1> QED
  BY <1>1, <1>2, <1>3, <1>4, <1>5, <1>6, <1>7 DEF ControlInv, TypeOK

\* The purge forgets its journal before it opens the database again.
LEMMA DeleteDatabaseStep ==
    ASSUME ControlInv, DeleteDatabase
    PROVE  ControlInv'
<1>1. DurableType'
  BY DEF ControlInv, DurableType, DeleteDatabase, callers, TypeOK
<1>2. ObjectType'
  BY JournalTypes, PiecesTypes DEF ControlInv, ObjectType, DeleteDatabase, sqlite,
         callers, TypeOK
<1>3. TaskType'
  BY DEF ControlInv, TaskType, DeleteDatabase, Goto, Operation, Step, TypeOK
<1>4. CallerType'
  BY FaultType DEF ControlInv, CallerType, DeleteDatabase, callers, history, TypeOK
<1>5. TaskShape'
  BY DEF ControlInv, TaskShape, DeleteDatabase, Goto
<1>6. SessionShape'
  BY DEF ControlInv, SessionShape, DeleteDatabase, callers, Goto, TaskShape
<1>7. OutcomeShape'
  BY DEF ControlInv, OutcomeShape, DeleteDatabase, callers, history, Goto
<1>8. ReservationShape'
  BY DEF ControlInv, ReservationShape, DeleteDatabase, callers, Goto, OwnedBy,
         TaskShape
<1>9. TransactionShape'
  BY DEF ControlInv, TransactionShape, DeleteDatabase, sqlite, Goto
<1>10. PublicationShape'
  BY DEF ControlInv, PublicationShape, DeleteDatabase, Goto
<1> QED
  BY <1>1, <1>2, <1>3, <1>4, <1>5, <1>6, <1>7, <1>8, <1>9, <1>10 DEF ControlInv,
     TypeOK

\* Termination leaves no reservation, transaction or waiting caller.
LEMMA CrashStep ==
    ASSUME ControlInv, Crash
    PROVE  ControlInv'
<1>1. DurableType'
  BY DEF ControlInv, DurableType, Crash, durable, TypeOK
<1>2. ObjectType'
  BY JournalTypes, PiecesTypes DEF ControlInv, ObjectType, Crash, ReleaseConnection,
         TypeOK
<1>3. TaskType'
  BY DEF ControlInv, TaskType, Crash, durable, EndTask, Operation, Step, TypeOK
<1>4. CallerType'
  BY DEF ControlInv, CallerType, Crash, history, Session, TypeOK
<1>5. TaskShape'
  BY DEF ControlInv, TaskShape, Crash, EndTask
<1>6. SessionShape'
  BY DEF ControlInv, SessionShape, Crash, durable, EndTask
<1>7. OutcomeShape'
  BY DEF ControlInv, OutcomeShape, Crash, durable, history, EndTask, TaskShape,
         TypeOK, SessionShape, DurableType, ObjectType, TaskType, CallerType
<1>8. ReservationShape'
  BY DEF ControlInv, ReservationShape, Crash, durable, EndTask, ReleaseConnection
<1>9. TransactionShape'
  BY DEF ControlInv, TransactionShape, Crash, EndTask, ReleaseConnection
<1>10. PublicationShape'
  BY DEF ControlInv, PublicationShape, Crash, durable, EndTask
<1> QED
  BY <1>1, <1>2, <1>3, <1>4, <1>5, <1>6, <1>7, <1>8, <1>9, <1>10 DEF ControlInv,
     TypeOK
-------------------------------------------------------------------------------
(* Every behaviour *)

\* Every step of the running operation keeps the invariant.
LEMMA TaskSteps ==
    ASSUME ControlInv, TaskStep
    PROVE  ControlInv'
<1>1. ASSUME NEW s \in Store, StoreStep(s) PROVE ControlInv'
  BY <1>1, UndoStoreStep, EndStoreSessionStep, ResetStoreStep DEF StoreStep
<1>2. ASSUME NEW r \in Import, SweepIncomplete(r) PROVE ControlInv'
  BY <1>2, SweepIncompleteStep
<1>3. CASE \/ SetupCheckpoint \/ SetupWriteJournal \/ SetupBegin
           \/ RollbackSqlite \/ ReleaseJournal \/ RetainJournal \/ NothingToRelease
  BY <1>3, SetupCheckpointStep, SetupWriteJournalStep, SetupBeginStep,
     RollbackSqliteStep, ReleaseJournalStep, RetainJournalStep, NothingToReleaseStep
<1>4. CASE \/ StoreSessionsEnded \/ StageSummary \/ CommitPublication
           \/ ClearPublishedJournal
  BY <1>4, StoreSessionsEndedStep, StageSummaryStep, CommitPublicationStep,
     ClearPublishedJournalStep
<1>5. CASE \/ OpenConnection \/ ReadJournal \/ RecoverySettled \/ RecoveryClearsJournal
           \/ StartupCleanup \/ VerifyIntegrity
  BY <1>5, OpenConnectionStep, ReadJournalStep, RecoverySettledStep,
     RecoveryClearsJournalStep, StartupCleanupStep, VerifyIntegrityStep
<1>6. CASE DeleteRecords \/ DeleteContent \/ ResetJournal \/ DeleteDatabase
  BY <1>6, DeleteRecordsStep, DeleteContentStep, ResetJournalStep, DeleteDatabaseStep
<1> QED
  BY <1>1, <1>2, <1>3, <1>4, <1>5, <1>6 DEF TaskStep

\* Every step of an import's caller keeps the invariant.
LEMMA ImporterSteps ==
    ASSUME NEW r \in Import, ControlInv, ImporterStep(r)
    PROVE  ControlInv'
BY PlaceSummaryStep, StartBulkImportStep, StartRejectedStep, WriteChunkStep,
   RecordFailureStep, FinishBulkImportStep, AbortBulkImportStep, FinalizeRejectedStep,
   CleanupPlaceholderStep DEF ImporterStep

\* A stuttering step keeps the invariant: its state is unchanged.
LEMMA StutterStep ==
    ASSUME ControlInv, UNCHANGED vars
    PROVE  ControlInv'
BY DEF ControlInv, TypeOK, DurableType, ObjectType, TaskType, CallerType, TaskShape,
       SessionShape, OutcomeShape, ReservationShape, OwnedBy, TransactionShape,
       PublicationShape, Intact, vars

\* ControlInv is inductive.
LEMMA NextSteps ==
    ASSUME ControlInv, [Next]_vars
    PROVE  ControlInv'
<1>1. CASE TaskStep
  BY <1>1, TaskSteps
<1>2. ASSUME NEW r \in Import, ImporterStep(r) \/ DeleteDictionary(r) PROVE ControlInv'
  BY <1>2, ImporterSteps, DeleteDictionaryStep
<1>3. CASE Prepare \/ Close \/ Purge \/ Crash
  BY <1>3, PrepareStep, CloseStep, PurgeStep, CrashStep
<1>4. CASE UNCHANGED vars
  BY <1>4, StutterStep
<1> QED
  BY <1>1, <1>2, <1>3, <1>4 DEF Next

\* The freshly constructed object satisfies the invariant.
LEMMA InitControl ==
    ASSUME Init
    PROVE  ControlInv
<1>1. TypeOK
  BY JournalTypes DEF Init, TypeOK, DurableType, ObjectType, TaskType, CallerType,
     Operation, Step, Session
<1>2. TaskShape /\ SessionShape /\ OutcomeShape
  BY NobodyAssumption DEF Init, TaskShape, SessionShape, OutcomeShape
<1>3. ReservationShape /\ TransactionShape /\ PublicationShape
  BY DEF Init, ReservationShape, TransactionShape, PublicationShape
<1> QED
  BY <1>1, <1>2, <1>3 DEF ControlInv

\* In every reachable state the caller, the reservation, the journal, the SQLite
\* transaction and the running step of the lifecycle agree.
THEOREM ControlInvariant == Spec => []ControlInv
<1>1. Init => ControlInv
  BY InitControl
<1>2. ControlInv /\ [Next]_vars => ControlInv'
  BY NextSteps
<1> QED
  BY <1>1, <1>2, PTL DEF Spec

\* A receipt answered through the importing connection is of a committed import.
THEOREM ReceiptsAreCommitted == Spec => []ReceiptSound
<1>1. ControlInv => ReceiptSound
  BY NobodyAssumption DEF ControlInv, TransactionShape, ReceiptSound, Receipt
<1> QED
  BY <1>1, ControlInvariant, PTL

\* No operation leaves a transaction behind without a journal that bars mutation.
THEOREM NoTransactionLeftBehind == Spec => []NoStrayTransaction
<1>1. ControlInv => NoStrayTransaction
  BY DEF ControlInv, TransactionShape, ReservationShape, OwnedBy, NoStrayTransaction,
     Unresolved, NoJournal
<1> QED
  BY <1>1, ControlInvariant, PTL

\* No failure path leaks the reservation of the lifecycle.
THEOREM ReservationIsOwned == Spec => []ReservationOwned
<1>1. ControlInv => ReservationOwned
  BY DEF ControlInv, ReservationShape, TransactionShape, OwnedBy, ReservationOwned
<1> QED
  BY <1>1, ControlInvariant, PTL

-------------------------------------------------------------------------------
(* Publication, removal, and the refinement of ImportOutcomes *)

\* Which steps change the listed rows and the committed imports.
LEMMA FrameOfListing ==
    ASSUME [Next]_vars
    PROVE  \/ UNCHANGED <<row, committed>>
           \/ CommitPublication \/ DeleteDatabase
           \/ \E r \in Import : \/ PlaceSummary(r) \/ CleanupPlaceholder(r)
                                \/ SweepIncomplete(r) \/ DeleteDictionary(r)
<1>1. CASE \/ SetupCheckpoint \/ SetupWriteJournal \/ SetupBegin \/ RollbackSqlite
           \/ ReleaseJournal \/ RetainJournal \/ NothingToRelease
  BY <1>1 DEF SetupCheckpoint, SetupWriteJournal, SetupBegin, RollbackSqlite,
     ReleaseJournal, RetainJournal, NothingToRelease, durable, history
<1>2. CASE \/ StoreSessionsEnded \/ StageSummary \/ ClearPublishedJournal
           \/ OpenConnection \/ ReadJournal \/ RecoverySettled
           \/ RecoveryClearsJournal \/ StartupCleanup \/ VerifyIntegrity
  BY <1>2 DEF StoreSessionsEnded, StageSummary, ClearPublishedJournal, OpenConnection,
     ReadJournal, RecoverySettled, RecoveryClearsJournal, StartupCleanup,
     VerifyIntegrity, durable, history
<1>3. CASE DeleteRecords \/ DeleteContent \/ ResetJournal
  BY <1>3 DEF DeleteRecords, DeleteContent, ResetJournal, history
<1>4. ASSUME NEW s \in Store, StoreStep(s) PROVE UNCHANGED <<row, committed>>
  BY <1>4 DEF StoreStep, UndoStore, EndStoreSession, ResetStore, history
<1>5. CASE Prepare \/ Close \/ Purge \/ Crash \/ UNCHANGED vars
  BY <1>5 DEF Prepare, Close, Purge, Crash, durable, history, vars
<1>6. ASSUME NEW r \in Import, ImporterStep(r)
      PROVE  UNCHANGED <<row, committed>> \/ PlaceSummary(r) \/ CleanupPlaceholder(r)
  BY <1>6 DEF ImporterStep, StartBulkImport, StartRejected, RecordFailure,
     FinishBulkImport, AbortBulkImport, FinalizeRejected, WriteChunk, durable, history
<1> QED
  BY <1>1, <1>2, <1>3, <1>4, <1>5, <1>6 DEF Next, TaskStep

\* COMMIT publishes a complete import over its placeholder, under its own journal.
THEOREM PublicationsAreComplete == Spec => PublicationComplete
<1>1. ASSUME ControlInv, [Next]_vars, NEW r \in committed' \ committed
      PROVE  Intact(r) /\ row[r] = "placeholder" /\ Unpublished /\ journal.session = r
  <2>1. CommitPublication
    BY <1>1, FrameOfListing DEF PlaceSummary, CleanupPlaceholder, SweepIncomplete,
       DeleteDictionary, DeleteDatabase, history
  <2>2. r = run /\ run \notin committed
    BY <1>1, <2>1 DEF CommitPublication
  <2>3. OwnedBy(run) /\ Intact(run)
    <3>1. pc = "commit" /\ op = "finish"
      BY <1>1, <2>1 DEF CommitPublication, ControlInv, TaskShape
    <3> QED
      BY <1>1, <3>1 DEF ControlInv, ReservationShape, PublicationShape
  <2> QED
    BY <1>1, <2>2, <2>3 DEF OwnedBy, Unpublished, ControlInv, OutcomeShape
<1>2. ControlInv /\ [Next]_vars => [PublishesWhole]_vars
  BY <1>1 DEF PublishesWhole
<1> QED
  BY <1>2, ControlInvariant, PTL DEF Spec, PublicationComplete

\* An installed dictionary leaves the list only by its deletion or a purge.
THEOREM RemovalsAreRequested == Spec => RemovedOnlyOnRequest
<1>1. ASSUME ControlInv, [Next]_vars, NEW r \in Import,
             row[r] = "installed", row'[r] # "installed"
      PROVE  op = "purge" \/ (op' = "delete" /\ run' = r)
  <2>1. row \in [Import -> {"absent", "placeholder", "installed"}]
    BY <1>1 DEF ControlInv, TypeOK, DurableType
  <2>2. ASSUME NEW q \in Import,
               PlaceSummary(q) \/ CleanupPlaceholder(q) \/ SweepIncomplete(q)
        PROVE  FALSE
    <3>1. q = r
      BY <1>1, <2>1, <2>2 DEF PlaceSummary, CleanupPlaceholder, SweepIncomplete
    <3>2. CASE PlaceSummary(q)
      BY <1>1, <3>1, <3>2 DEF PlaceSummary, ControlInv, TaskShape, OutcomeShape
    <3>3. CASE CleanupPlaceholder(q)
      BY <1>1, <2>1, <3>1, <3>3 DEF CleanupPlaceholder
    <3>4. CASE SweepIncomplete(q)
      BY <1>1, <3>1, <3>4 DEF SweepIncomplete, ControlInv, OutcomeShape
    <3> QED
      BY <2>2, <3>2, <3>3, <3>4
  <2>3. ASSUME NEW q \in Import, DeleteDictionary(q) PROVE op' = "delete" /\ run' = r
    BY <1>1, <2>1, <2>3 DEF DeleteDictionary, StartTask
  <2>4. CASE CommitPublication
    BY <1>1, <2>1, <2>4 DEF CommitPublication
  <2>5. CASE DeleteDatabase
    BY <1>1, <2>5 DEF DeleteDatabase, ControlInv, TaskShape
  <2> QED
    BY <1>1, <2>2, <2>3, <2>4, <2>5, FrameOfListing
<1>2. ControlInv /\ [Next]_vars => [RemovesOnRequest]_vars
  BY <1>1 DEF RemovesOnRequest
<1> QED
  BY <1>2, ControlInvariant, PTL DEF Spec, RemovedOnlyOnRequest

-------------------------------------------------------------------------------
(* The refinement *)

\* A step that changes no listed row, no commit and no answer stutters.
LEMMA SilentStep ==
    ASSUME Listed' = Listed, committed' = committed,
           \A r \in Import : Told(r)' = Told(r)
    PROVE  UNCHANGED Outcomes!vars
BY DEF Outcomes!vars

\* What a session's state says of its answer.
LEMMA ToldValues ==
    ASSUME NEW r \in Import
    PROVE  /\ session[r] = "published" => Told(r) = "published"
           /\ session[r] \in {"failed", "aborted"} => Told(r) = "failed"
           /\ session[r] = "lost" => Told(r) = "unknown"
           /\ session[r] \notin {"published", "failed", "aborted", "lost"} =>
                  Told(r) = "nothing"
           /\ session'[r] = "published" => Told(r)' = "published"
           /\ session'[r] \in {"failed", "aborted"} => Told(r)' = "failed"
           /\ session'[r] = "lost" => Told(r)' = "unknown"
           /\ session'[r] \notin {"published", "failed", "aborted", "lost"} =>
                  Told(r)' = "nothing"
BY DEF Told

\* The states in which a session's caller has its answer, or never gets one.
Answered == {"published", "failed", "aborted", "lost"}

\* One waiting session moves on; an answer it is given is true.
MovesOn(r, state) ==
    /\ session' = [session EXCEPT ![r] = state]
    /\ session[r] \notin Answered
    /\ \/ state \notin Answered
       \/ state \in {"failed", "aborted"} /\ r \notin committed
       \/ state = "published" /\ r \in committed

\* Such a move is an answer of the abstract specification, or a stutter.
LEMMA AnswerStep ==
    ASSUME ControlInv, NEW r \in Import, NEW state, MovesOn(r, state),
           Listed' = Listed, committed' = committed
    PROVE  [Outcomes!Next]_(Outcomes!vars)
<1> USE DEF MovesOn, Answered
<1>1. session \in [Import -> Session]
  BY DEF ControlInv, TypeOK, CallerType
<1>2. session'[r] = state /\ \A q \in Import \ {r} : session'[q] = session[q]
  BY <1>1
<1>3. \A q \in Import \ {r} : Told(q)' = Told(q)
  BY <1>2 DEF Told
<1>4. Told(r) = "nothing"
  BY ToldValues
<1>5. CASE state \notin {"published", "failed", "aborted", "lost"}
  <2>1. Told(r)' = Told(r)
    BY <1>2, <1>4, <1>5, ToldValues
  <2> QED
    BY <1>3, <2>1, SilentStep
<1>6. CASE state \in {"failed", "aborted"} /\ r \notin committed
  <2>1. Told(r)' = "failed"
    BY <1>2, <1>6, ToldValues
  <2>2. Outcomes!TellFailed(r)
    BY <1>3, <1>4, <1>6, <2>1 DEF Outcomes!TellFailed
  <2> QED
    BY <2>2 DEF Outcomes!Next
<1>7. CASE state = "published" /\ r \in committed
  <2>1. Told(r)' = "published"
    BY <1>2, <1>7, ToldValues
  <2>2. Outcomes!TellPublished(r)
    BY <1>3, <1>4, <1>7, <2>1 DEF Outcomes!TellPublished
  <2> QED
    BY <2>2 DEF Outcomes!Next
<1> QED
  BY <1>5, <1>6, <1>7

\* The actions that change neither the rows, nor the commits, nor a session.
LEMMA QuietActions ==
    ASSUME \/ SetupCheckpoint \/ SetupWriteJournal \/ RollbackSqlite
           \/ StoreSessionsEnded \/ StageSummary \/ OpenConnection \/ StartupCleanup
           \/ VerifyIntegrity \/ DeleteRecords \/ DeleteContent \/ ResetJournal
           \/ Prepare \/ Close \/ Purge \/ UNCHANGED vars
           \/ \E s \in Store : StoreStep(s)
           \/ \E r \in Import, s \in Store, c \in Chunk : WriteChunk(r, s, c)
    PROVE  UNCHANGED <<row, committed, session>>
<1> USE DEF durable, callers, history
<1>1. CASE \/ SetupCheckpoint \/ SetupWriteJournal \/ RollbackSqlite
           \/ StoreSessionsEnded \/ StageSummary
  BY <1>1 DEF SetupCheckpoint, SetupWriteJournal, RollbackSqlite, StoreSessionsEnded,
     StageSummary
<1>2. CASE OpenConnection
  BY <1>2 DEF OpenConnection, PrepareFails
<1>3. CASE \/ StartupCleanup \/ VerifyIntegrity \/ DeleteRecords \/ DeleteContent
           \/ ResetJournal
  BY <1>3 DEF StartupCleanup, VerifyIntegrity, DeleteRecords, DeleteContent,
     ResetJournal
<1>4. CASE Prepare \/ Close \/ Purge \/ UNCHANGED vars
  BY <1>4 DEF Prepare, Close, Purge, vars
<1>5. CASE \/ \E s \in Store : StoreStep(s)
           \/ \E r \in Import, s \in Store, c \in Chunk : WriteChunk(r, s, c)
  BY <1>5 DEF StoreStep, UndoStore, EndStoreSession, ResetStore, WriteChunk
<1> QED
  BY <1>1, <1>2, <1>3, <1>4, <1>5

\* An importer's own steps before the database answers.
LEMMA ImporterMoves ==
    ASSUME ControlInv, NEW r \in Import,
           \/ StartBulkImport(r) \/ StartRejected(r) \/ RecordFailure(r)
           \/ FinishBulkImport(r) \/ AbortBulkImport(r) \/ FinalizeRejected(r)
    PROVE  UNCHANGED <<row, committed>> /\ \E state \in Session : MovesOn(r, state)
<1>1. session[r] \in {"placed", "active", "failing"}
  BY DEF StartBulkImport, StartRejected, RecordFailure, FinishBulkImport,
     AbortBulkImport, FinalizeRejected
<1>2. r \notin committed
  BY <1>1 DEF ControlInv, SessionShape, OutcomeShape, TaskShape
<1>3. UNCHANGED <<row, committed>>
  BY DEF StartBulkImport, StartRejected, RecordFailure, FinishBulkImport,
     AbortBulkImport, FinalizeRejected, durable, history
<1>4. \E state \in {"starting", "failing", "finalizing", "failed", "aborted"} :
          session' = [session EXCEPT ![r] = state]
  BY DEF StartBulkImport, StartRejected, RecordFailure, FinishBulkImport,
     AbortBulkImport, FinalizeRejected
<1> QED
  BY <1>1, <1>2, <1>3, <1>4 DEF MovesOn, Answered, Session

\* The answers of the running operation.
LEMMA TaskAnswers ==
    ASSUME ControlInv,
           \/ SetupBegin \/ ReleaseJournal \/ RetainJournal \/ NothingToRelease
           \/ ClearPublishedJournal
           \/ ReadJournal \/ RecoverySettled \/ RecoveryClearsJournal
    PROVE  /\ UNCHANGED <<row, committed>>
           /\ session' = session \/ \E state \in Session : run \in Import /\ MovesOn(run, state)
<1>1. UNCHANGED <<row, committed>>
  BY DEF SetupBegin, ReleaseJournal, RetainJournal, NothingToRelease,
     ClearPublishedJournal, ReadJournal, RecoverySettled, RecoveryClearsJournal,
     durable, history
<1>2. ASSUME op \in {"setup", "finish", "abort"}, pc # "clearJournal"
      PROVE  run \in Import /\ session[run] \notin Answered /\ run \notin committed
  BY <1>2 DEF ControlInv, TaskShape, SessionShape, OutcomeShape, Answered
<1>3. CASE SetupBegin
  <2>1. op = "setup" /\ pc = "beginSessions"
    BY <1>3 DEF SetupBegin
  <2>2. session' = session \/ session' = [session EXCEPT ![run] = "active"]
    BY <1>3 DEF SetupBegin, Report, callers
  <2> QED
    BY <1>1, <1>2, <2>1, <2>2 DEF MovesOn, Answered, Session
<1>4. CASE ReleaseJournal \/ RetainJournal \/ NothingToRelease
  <2>1. pc = "undo" /\ op \in {"setup", "finish", "abort", "close"}
    BY <1>4 DEF ReleaseJournal, RetainJournal, NothingToRelease, ControlInv, TaskShape
  <2>2. op # "close" => session' = [session EXCEPT ![run] = "failed"]
                        \/ session' = [session EXCEPT ![run] = "aborted"]
    BY <1>4 DEF ReleaseJournal, RetainJournal, NothingToRelease, EndRollback, Report
  <2>3. op = "close" => session' = session
    BY <1>4 DEF ReleaseJournal, RetainJournal, NothingToRelease, EndRollback, callers
  <2> QED
    BY <1>1, <1>2, <2>1, <2>2, <2>3 DEF MovesOn, Answered, Session
<1>5. CASE ClearPublishedJournal
  <2>1. /\ run \in Import /\ run \in committed /\ session[run] = "finalizing"
        /\ session' = [session EXCEPT ![run] = "published"]
    BY <1>5 DEF ClearPublishedJournal, Report, ControlInv, TaskShape, SessionShape,
       OutcomeShape
  <2> QED
    BY <1>1, <2>1 DEF MovesOn, Answered, Session
<1>6. CASE ReadJournal \/ RecoverySettled \/ RecoveryClearsJournal
  <2>1. pc \in {"readJournal", "recoverUndo", "recoverClear"}
    BY <1>6 DEF ReadJournal, RecoverySettled, RecoveryClearsJournal
  <2>2. session' = session \/ (op = "setup" /\ session' = [session EXCEPT ![run] = "failed"])
    BY <1>6 DEF ReadJournal, RecoverySettled, RecoveryClearsJournal, RecoveryFails,
       PrepareFails, Report, KeepObject, callers
  <2> QED
    BY <1>1, <1>2, <2>1, <2>2 DEF MovesOn, Answered, Session
<1> QED
  BY <1>3, <1>4, <1>5, <1>6

\* The steps of the abstract specification that change what is listed, and the
\* termination of the worker.
LEMMA ListingSteps ==
    ASSUME ControlInv, ControlInv',
           \/ CommitPublication \/ DeleteDatabase \/ Crash
           \/ \E r \in Import : \/ PlaceSummary(r) \/ CleanupPlaceholder(r)
                                \/ SweepIncomplete(r) \/ DeleteDictionary(r)
    PROVE  [Outcomes!Next]_(Outcomes!vars)
<1>1. /\ row \in [Import -> {"absent", "placeholder", "installed"}]
      /\ session \in [Import -> Session]
  BY DEF ControlInv, TypeOK, DurableType, CallerType
<1>2. CASE CommitPublication
  <2>1. /\ pc = "commit" /\ op = "finish" /\ run \in Import
        /\ row[run] = "placeholder" /\ session[run] = "finalizing"
        /\ run \notin committed
    BY <1>2 DEF CommitPublication, ControlInv, TaskShape, SessionShape, OutcomeShape,
       ReservationShape, OwnedBy
  <2>2. session' = session
    BY <1>2 DEF CommitPublication, callers
  <2>3. Told(run) = "nothing" /\ \A r \in Import : Told(r)' = Told(r)
    BY <2>1, <2>2, ToldValues DEF Told
  <2>4. CASE UNCHANGED <<row, committed>>
    BY <2>3, <2>4, SilentStep DEF Listed
  <2>5. CASE /\ committed' = committed \cup {run}
             /\ row' = [row EXCEPT ![run] = "installed"]
    <3>1. Listed' = Listed \cup {run}
      BY <1>1, <2>1, <2>5 DEF Listed
    <3>2. Outcomes!Publish(run)
      BY <2>1, <2>3, <2>5, <3>1 DEF Outcomes!Publish
    <3> QED
      BY <2>1, <3>2 DEF Outcomes!Next
  <2> QED
    BY <1>2, <2>1, <2>4, <2>5 DEF CommitPublication
<1>3. ASSUME UNCHANGED <<committed, session>>, Listed' \subseteq Listed
      PROVE  [Outcomes!Next]_(Outcomes!vars)
  <2>1. \A r \in Import : Told(r)' = Told(r)
    BY <1>3 DEF Told
  <2>2. CASE Listed' = Listed
    BY <1>3, <2>1, <2>2, SilentStep
  <2>3. CASE Listed' # Listed
    <3>1. Outcomes!Remove(Listed \ Listed')
      BY <1>3, <2>1, <2>3 DEF Outcomes!Remove
    <3>2. Listed \ Listed' \in SUBSET Import
      BY DEF Listed
    <3> QED
      BY <3>1, <3>2 DEF Outcomes!Next
  <2> QED
    BY <2>2, <2>3
<1>4. CASE DeleteDatabase
  BY <1>1, <1>3, <1>4 DEF DeleteDatabase, Listed, callers, history
<1>5. CASE Crash
  <2>1. UNCHANGED <<row, committed>>
    BY <1>5 DEF Crash, durable, history
  <2> DEFINE lost == {r \in Import : session[r] \in {"placed", "starting", "active",
                                                     "failing", "finalizing"}}
  <2>2. \A r \in Import : session'[r] = IF r \in lost THEN "lost" ELSE session[r]
    BY <1>5 DEF Crash
  <2>3. \A r \in Import : Told(r)' = IF r \in lost THEN "unknown" ELSE Told(r)
    BY <2>2, ToldValues DEF Told
  <2>4. \A r \in lost : Told(r) = "nothing"
    BY ToldValues
  <2>5. Outcomes!LoseCallers(lost)
    BY <2>1, <2>3, <2>4 DEF Outcomes!LoseCallers, Listed
  <2> QED
    BY <2>5 DEF Outcomes!Next
<1>6. ASSUME NEW r \in Import, PlaceSummary(r)
      PROVE  [Outcomes!Next]_(Outcomes!vars)
  <2>1. row[r] # "installed" /\ session[r] = "idle"
    BY <1>6 DEF PlaceSummary, ControlInv, TaskShape, OutcomeShape
  <2>2. Listed' = Listed /\ committed' = committed
    BY <1>1, <1>6, <2>1 DEF PlaceSummary, Listed, history
  <2>3. MovesOn(r, "placed")
    BY <1>6, <2>1 DEF PlaceSummary, MovesOn, Answered
  <2> QED
    BY <2>2, <2>3, AnswerStep
<1>7. ASSUME NEW r \in Import, CleanupPlaceholder(r)
      PROVE  [Outcomes!Next]_(Outcomes!vars)
  BY <1>1, <1>3, <1>7 DEF CleanupPlaceholder, Listed, history
<1>8. ASSUME NEW r \in Import, SweepIncomplete(r) \/ DeleteDictionary(r)
      PROVE  [Outcomes!Next]_(Outcomes!vars)
  BY <1>1, <1>3, <1>8 DEF SweepIncomplete, DeleteDictionary, Listed, callers, history
<1> QED
  BY <1>2, <1>4, <1>5, <1>6, <1>7, <1>8

\* Every step of the lifecycle is a step of the abstract specification or a stutter.
LEMMA OutcomesStep ==
    ASSUME ControlInv, ControlInv', [Next]_vars
    PROVE  [Outcomes!Next]_(Outcomes!vars)
<1>1. ASSUME UNCHANGED <<row, committed, session>>
      PROVE  [Outcomes!Next]_(Outcomes!vars)
  BY <1>1, SilentStep DEF Listed, Told
<1>2. ASSUME NEW r \in Import, NEW state \in Session,
             UNCHANGED <<row, committed>>, MovesOn(r, state)
      PROVE  [Outcomes!Next]_(Outcomes!vars)
  BY <1>2, AnswerStep DEF Listed
<1>3. CASE TaskStep
  BY <1>1, <1>2, <1>3, QuietActions, TaskAnswers, ListingSteps DEF TaskStep
<1>4. ASSUME NEW r \in Import, ImporterStep(r) \/ DeleteDictionary(r)
      PROVE  [Outcomes!Next]_(Outcomes!vars)
  BY <1>1, <1>2, <1>4, QuietActions, ImporterMoves, ListingSteps DEF ImporterStep
<1>5. CASE Prepare \/ Close \/ Purge \/ Crash \/ UNCHANGED vars
  BY <1>1, <1>5, QuietActions, ListingSteps
<1> QED
  BY <1>3, <1>4, <1>5 DEF Next

\* The lifecycle implements atomic imports with truthful answers.
THEOREM ImplementsOutcomes == Spec => OutcomesSpec
<1>1. Init => Outcomes!Init
  BY DEF Init, Outcomes!Init, Listed, Told
<1>2. ControlInv /\ ControlInv' /\ [Next]_vars => [Outcomes!Next]_(Outcomes!vars)
  BY OutcomesStep
<1> QED
  BY <1>1, <1>2, ControlInvariant, PTL DEF Spec, OutcomesSpec, Outcomes!Spec

-------------------------------------------------------------------------------
(***************************************************************************)
(* What the stores and the journal hold.  StorageInv is inductive on top of *)
(* ControlInv: each action has a lemma, whose first step covers the         *)
(* conjuncts that the action leaves alone.                                  *)
(***************************************************************************)

(* The values that the actions store *)

\* The types of the stored state.
LEMMA StorageTypes ==
    ASSUME ControlInv
    PROVE  /\ bytes \in [Store -> SUBSET Piece]
           /\ row \in [Import -> {"absent", "placeholder", "installed"}]
           /\ session \in [Import -> Session]
           /\ journal.checkpoint \in [Store -> SUBSET Piece]
           /\ record.checkpoint \in [Store -> SUBSET Piece]
           /\ DOMAIN journal = {"kind", "session", "checkpoint"}
BY DEF ControlInv, TypeOK, DurableType, ObjectType, CallerType, Checkpoint, Journal

\* What the journal values that the actions store look like.
LEMMA JournalKinds ==
    /\ NoJournal.kind = "none" /\ EmptyJournal.kind = "empty"
    /\ \A r, c : JournalRecord(r, c) = [kind |-> "record", session |-> r, checkpoint |-> c]
BY DEF NoJournal, EmptyJournal, JournalRecord

\* Two imports share no piece.
LEMMA PiecesDisjoint ==
    ASSUME NEW q \in Import, NEW r \in Import, q # r
    PROVE  PiecesOf(q) \cap PiecesOf(r) = {}
BY DEF PiecesOf

-------------------------------------------------------------------------------
(* The stored bytes: DictionaryImporter and DictionaryImportSession *)

\* A placeholder row is no installed dictionary.
LEMMA PlaceSummaryStorage ==
    ASSUME NEW r \in Import, ControlInv, StorageInv, PlaceSummary(r)
    PROVE  StorageInv'
<1>1. RestoreShape' /\ NoOrphans'
  BY DEF StorageInv, RestoreShape, Unpublished, NoOrphans, PlaceSummary, object,
     task, history
<1>2. JournalShape'
  BY DEF StorageInv, JournalShape, Names, PlaceSummary, object, task
<1>3. SettledShape'
  BY DEF StorageInv, SettledShape, PlaceSummary, object, task
<1>4. PurgeShape'
  BY DEF ControlInv, TaskShape, SessionShape, StorageInv, PurgeShape, PlaceSummary,
     task, history
<1>5. CoverShape'
  BY DEF StorageInv, CoverShape, Covers, Unpublished, PlaceSummary, object, history
<1>6. PublishedIntact'
  BY DEF StorageInv, PublishedIntact, Intact, PlaceSummary, history
<1> QED
  BY <1>1, <1>2, <1>3, <1>4, <1>5, <1>6 DEF StorageInv

\* Setup recovers first if a journal may still be on disk.
LEMMA StartBulkImportStorage ==
    ASSUME NEW r \in Import, ControlInv, StorageInv, StartBulkImport(r)
    PROVE  StorageInv'
<1>1. CoverShape' /\ PublishedIntact' /\ NoOrphans'
  BY DEF StorageInv, CoverShape, Covers, Unpublished, PublishedIntact, Intact,
     NoOrphans, StartBulkImport, durable, history
<1>2. JournalShape'
  BY DEF StorageInv, JournalShape, Names, StartBulkImport, StartTask, durable
<1>3. SettledShape'
  BY DEF StorageInv, SettledShape, StartBulkImport, StartTask, durable
<1>4. PurgeShape'
  BY DEF StorageInv, PurgeShape, StartBulkImport, StartTask, history
<1>5. RestoreShape'
  BY DEF StorageInv, RestoreShape, Unpublished, StartBulkImport, StartTask,
     durable, history
<1> QED
  BY <1>1, <1>2, <1>3, <1>4, <1>5 DEF StorageInv

\* A rejected start touches no store.
LEMMA StartRejectedStorage ==
    ASSUME NEW r \in Import, ControlInv, StorageInv, StartRejected(r)
    PROVE  StorageInv'
<1>1. SettledShape' /\ CoverShape' /\ RestoreShape' /\ PublishedIntact' /\ NoOrphans'
  BY DEF StorageInv, SettledShape, CoverShape, Covers, Unpublished, RestoreShape,
     PublishedIntact, Intact, NoOrphans, StartRejected, durable, object, task,
     history
<1>2. JournalShape'
  BY DEF StorageInv, JournalShape, Names, StartRejected, durable, object, task
<1>3. PurgeShape'
  BY DEF StorageInv, PurgeShape, StartRejected, task, history
<1> QED
  BY <1>1, <1>2, <1>3 DEF StorageInv

\* The bytes that the active import adds are the ones its journal disowns.
LEMMA WriteChunkStorage ==
    ASSUME NEW r \in Import, NEW s \in Store, NEW c \in Chunk, ControlInv, StorageInv, WriteChunk(r, s, c)
    PROVE  StorageInv'
<1>1. JournalShape' /\ SettledShape' /\ PurgeShape' /\ CoverShape'
  BY DEF StorageInv, JournalShape, Names, SettledShape, PurgeShape, CoverShape,
     Covers, Unpublished, WriteChunk, object, task, callers, history
<1>2. RestoreShape'
  BY DEF ControlInv, TaskShape, StorageInv, RestoreShape, Unpublished, WriteChunk,
     object, task, history
<1>3. PublishedIntact'
  BY DEF StorageInv, PublishedIntact, Intact, WriteChunk, history
<1>4. NoOrphans'
  <2>1. OwnedBy(r) /\ r \notin markers
    BY DEF ControlInv, TaskShape, ReservationShape, OutcomeShape, OwnedBy, WriteChunk
  <2>2. bytes' = [bytes EXCEPT ![s] = @ \cup {<<r, c>>}] /\ <<r, c>> \in PiecesOf(r)
    BY DEF WriteChunk, PiecesOf
  <2>3. ASSUME NEW q \in Import \ {r}, NEW t \in Store
        PROVE  bytes'[t] \cap PiecesOf(q) = bytes[t] \cap PiecesOf(q)
    BY <2>2, StorageTypes, PiecesDisjoint
  <2>4. Unpublished /\ journal.session = r /\ Names(journal)
    BY <2>1 DEF OwnedBy, Unpublished, StorageInv, JournalShape
  <2>5. UNCHANGED <<journal, markers, committed, purged>>
    BY DEF WriteChunk, history
  <2> QED
    BY <2>3, <2>4, <2>5 DEF StorageInv, NoOrphans, Unpublished, Names
<1> QED
  BY <1>1, <1>2, <1>3, <1>4 DEF StorageInv

\* A failure is only noted.
LEMMA RecordFailureStorage ==
    ASSUME NEW r \in Import, ControlInv, StorageInv, RecordFailure(r)
    PROVE  StorageInv'
<1>1. SettledShape' /\ CoverShape' /\ RestoreShape' /\ PublishedIntact' /\ NoOrphans'
  BY DEF StorageInv, SettledShape, CoverShape, Covers, Unpublished, RestoreShape,
     PublishedIntact, Intact, NoOrphans, RecordFailure, durable, object, task,
     history
<1>2. JournalShape'
  BY DEF StorageInv, JournalShape, Names, RecordFailure, durable, object, task
<1>3. PurgeShape'
  BY DEF StorageInv, PurgeShape, RecordFailure, task, history
<1> QED
  BY <1>1, <1>2, <1>3 DEF StorageInv

\* Finalization starts with the journal of its import in place.
LEMMA FinishBulkImportStorage ==
    ASSUME NEW r \in Import, ControlInv, StorageInv, FinishBulkImport(r)
    PROVE  StorageInv'
<1>1. CoverShape' /\ PublishedIntact' /\ NoOrphans'
  BY DEF StorageInv, CoverShape, Covers, Unpublished, PublishedIntact, Intact,
     NoOrphans, FinishBulkImport, durable, history
<1>2. JournalShape'
  BY DEF StorageInv, JournalShape, Names, FinishBulkImport, StartTask, durable
<1>3. SettledShape'
  BY DEF StorageInv, SettledShape, FinishBulkImport, StartTask, durable
<1>4. PurgeShape'
  BY DEF StorageInv, PurgeShape, FinishBulkImport, StartTask, history
<1>5. RestoreShape'
  BY DEF StorageInv, RestoreShape, Unpublished, FinishBulkImport, StartTask,
     durable, history
<1> QED
  BY <1>1, <1>2, <1>3, <1>4, <1>5 DEF StorageInv

\* The rollback starts with the journal of its import in place.
LEMMA AbortBulkImportStorage ==
    ASSUME NEW r \in Import, ControlInv, StorageInv, AbortBulkImport(r)
    PROVE  StorageInv'
<1>1. CoverShape' /\ PublishedIntact' /\ NoOrphans'
  BY DEF StorageInv, CoverShape, Covers, Unpublished, PublishedIntact, Intact,
     NoOrphans, AbortBulkImport, durable, history
<1>2. JournalShape'
  BY DEF StorageInv, JournalShape, Names, AbortBulkImport, StartTask, durable
<1>3. SettledShape'
  <2>1. record # NoJournal
    BY JournalKinds DEF ControlInv, ReservationShape, OwnedBy, AbortBulkImport, OwnsActiveImport
  <2> QED
    BY <2>1 DEF SettledShape, AbortBulkImport, StartTask
<1>4. PurgeShape'
  BY DEF StorageInv, PurgeShape, AbortBulkImport, StartTask, history
<1>5. RestoreShape'
  BY DEF StorageInv, RestoreShape, Unpublished, AbortBulkImport, StartTask,
     durable, history
<1> QED
  BY <1>1, <1>2, <1>3, <1>4, <1>5 DEF StorageInv

\* A rejected caller touches no store.
LEMMA FinalizeRejectedStorage ==
    ASSUME NEW r \in Import, ControlInv, StorageInv, FinalizeRejected(r)
    PROVE  StorageInv'
<1>1. SettledShape' /\ CoverShape' /\ RestoreShape' /\ PublishedIntact' /\ NoOrphans'
  BY DEF StorageInv, SettledShape, CoverShape, Covers, Unpublished, RestoreShape,
     PublishedIntact, Intact, NoOrphans, FinalizeRejected, durable, object, task,
     history
<1>2. JournalShape'
  BY DEF StorageInv, JournalShape, Names, FinalizeRejected, durable, object, task
<1>3. PurgeShape'
  BY DEF StorageInv, PurgeShape, FinalizeRejected, task, history
<1> QED
  BY <1>1, <1>2, <1>3 DEF StorageInv

\* The cleanup of a failed import takes no installed row.
LEMMA CleanupPlaceholderStorage ==
    ASSUME NEW r \in Import, ControlInv, StorageInv, CleanupPlaceholder(r)
    PROVE  StorageInv'
<1>1. JournalShape' /\ PurgeShape' /\ RestoreShape' /\ NoOrphans'
  BY DEF StorageInv, JournalShape, Names, PurgeShape, RestoreShape, Unpublished,
     NoOrphans, CleanupPlaceholder, object, task, history
<1>2. SettledShape'
  BY StorageTypes, JournalKinds DEF ControlInv, TaskShape, StorageInv,
     SettledShape, CleanupPlaceholder, object, task
<1>3. CoverShape'
  BY StorageTypes, JournalKinds DEF ControlInv, TaskShape, OutcomeShape,
     StorageInv, CoverShape, Covers, Unpublished, CleanupPlaceholder, object,
     history
<1>4. PublishedIntact'
  BY StorageTypes, JournalKinds DEF ControlInv, TaskShape, OutcomeShape,
     StorageInv, PublishedIntact, Intact, CleanupPlaceholder, history
<1> QED
  BY <1>1, <1>2, <1>3, <1>4 DEF StorageInv

-------------------------------------------------------------------------------
(* The stored bytes: _startBulkImportSetup *)

\* With no journal on disk every unpublished import is gone from the stores, so the
\* checkpoint holds every installed dictionary and none of the import's own pieces.
LEMMA SetupCheckpointStorage ==
    ASSUME ControlInv, StorageInv, SetupCheckpoint
    PROVE  StorageInv'
<1>1. PublishedIntact' /\ NoOrphans'
  BY DEF StorageInv, PublishedIntact, Intact, NoOrphans, Unpublished,
     SetupCheckpoint, durable, history
<1>2. JournalShape'
  <2>1. run \in Import /\ session[run] = "starting" /\ run \notin committed \cup purged
    BY DEF ControlInv, TaskShape, SessionShape, OutcomeShape, StorageInv, PurgeShape,
       SetupCheckpoint
  <2>2. journal.kind # "record"
    BY DEF StorageInv, SettledShape, SetupCheckpoint
  <2>3. \A s \in Store : bytes[s] \cap PiecesOf(run) = {}
    BY <2>1, <2>2 DEF StorageInv, NoOrphans, Unpublished
  <2>4. UNCHANGED <<journal, session>> /\ pc' # "clearJournal"
    BY DEF SetupCheckpoint, durable, callers, Goto, SetupFails
  <2>5. CASE record' = JournalRecord(run, bytes)
    <3>1. /\ record'.kind = "record" /\ record'.session = run
          /\ record'.checkpoint = bytes
      BY <2>5 DEF JournalRecord
    <3>2. Names(record)'
      BY <3>1, <2>1, <2>3, <2>4 DEF Names
    <3> QED
      BY <3>1, <3>2, <2>2, <2>4 DEF JournalShape
  <2>6. CASE record' = record
    BY <2>2, <2>4, <2>6 DEF StorageInv, JournalShape, Names
  <2> QED
    BY <2>5, <2>6 DEF SetupCheckpoint
<1>3. SettledShape'
  BY DEF StorageInv, SettledShape, SetupCheckpoint, Goto, SetupFails, durable
<1>4. PurgeShape'
  BY DEF StorageInv, PurgeShape, SetupCheckpoint, Goto, SetupFails, callers,
     history
<1>5. CoverShape'
  <2>1. journal'.kind # "record"
    BY DEF StorageInv, SettledShape, SetupCheckpoint, durable
  <2>2. UNCHANGED <<row, purged>>
    BY DEF SetupCheckpoint, durable, history
  <2>3. record' = record \/ record'.checkpoint = bytes
    BY DEF SetupCheckpoint, JournalRecord
  <2>4. Covers(bytes)
    BY DEF StorageInv, PublishedIntact, Intact, Covers
  <2> QED
    BY <2>1, <2>2, <2>3, <2>4 DEF StorageInv, CoverShape, Covers, Unpublished
<1>6. RestoreShape'
  <2>1. journal'.kind # "record"
    BY DEF StorageInv, SettledShape, SetupCheckpoint, durable
  <2>2. /\ pc' = "writeJournal" => record'.checkpoint = bytes
        /\ pc' \in {"writeJournal", "rollback"} /\ bytes' = bytes
    BY DEF SetupCheckpoint, JournalRecord, Goto, SetupFails, durable
  <2> QED
    BY <2>1, <2>2 DEF RestoreShape, Unpublished
<1> QED
  BY <1>1, <1>2, <1>3, <1>4, <1>5, <1>6 DEF StorageInv

\* The journal written is the checkpoint of what is in the stores.
LEMMA SetupWriteJournalStorage ==
    ASSUME ControlInv, StorageInv, SetupWriteJournal
    PROVE  StorageInv'
<1>1. PublishedIntact'
  BY DEF StorageInv, PublishedIntact, Intact, SetupWriteJournal, history
<1>2. JournalShape'
  BY StorageTypes, JournalKinds DEF ControlInv, TaskShape, SessionShape,
     StorageInv, JournalShape, Names, SetupWriteJournal, Goto, SetupFails, object,
     callers
<1>3. SettledShape'
  BY StorageTypes, JournalKinds DEF ControlInv, TaskShape, StorageInv,
     SettledShape, SetupWriteJournal, Goto, SetupFails, object
<1>4. PurgeShape'
  BY DEF StorageInv, PurgeShape, SetupWriteJournal, Goto, SetupFails, callers,
     history
<1>5. CoverShape'
  BY StorageTypes, JournalKinds DEF ControlInv, TaskShape, OutcomeShape,
     StorageInv, CoverShape, Covers, Unpublished, SetupWriteJournal, object,
     history
<1>6. RestoreShape'
  BY StorageTypes, JournalKinds DEF ControlInv, TaskShape, StorageInv,
     RestoreShape, Unpublished, SetupWriteJournal, Goto, SetupFails, object,
     history
<1>7. NoOrphans'
  <2>1. journal.kind # "record" /\ UNCHANGED <<bytes, markers, committed, purged>>
    BY DEF StorageInv, SettledShape, SetupWriteJournal, history
  <2> QED
    BY <2>1 DEF StorageInv, NoOrphans, Unpublished
<1> QED
  BY <1>1, <1>2, <1>3, <1>4, <1>5, <1>6, <1>7 DEF StorageInv

\* A setup that fails has a record to roll back to.
LEMMA SetupBeginStorage ==
    ASSUME ControlInv, StorageInv, SetupBegin
    PROVE  StorageInv'
<1>1. CoverShape' /\ PublishedIntact' /\ NoOrphans'
  BY DEF StorageInv, CoverShape, Covers, Unpublished, PublishedIntact, Intact,
     NoOrphans, SetupBegin, durable, history
<1>2. JournalShape'
  BY StorageTypes, JournalKinds DEF ControlInv, TaskShape, SessionShape,
     StorageInv, JournalShape, Names, SetupBegin, EndTask, Report, SetupFails,
     callers, durable
<1>3. SettledShape'
  <2>1. /\ bulkState' = "active" /\ record # NoJournal /\ record' = record
        /\ pc' \in {"none", "rollback"}
    BY JournalKinds DEF SetupBegin, EndTask, SetupFails, ControlInv, TaskShape,
       ReservationShape, OwnedBy
  <2> QED
    BY <2>1 DEF SettledShape
<1>4. PurgeShape'
  BY StorageTypes, JournalKinds DEF ControlInv, TaskShape, SessionShape,
     StorageInv, PurgeShape, SetupBegin, EndTask, Report, SetupFails, callers,
     history
<1>5. RestoreShape'
  BY DEF StorageInv, RestoreShape, Unpublished, SetupBegin, EndTask, SetupFails,
     durable, history
<1> QED
  BY <1>1, <1>2, <1>3, <1>4, <1>5 DEF StorageInv

-------------------------------------------------------------------------------
(* The stored bytes: _rollbackBulkImport *)

\* Without a record there is nothing on disk to restore either.
LEMMA RollbackSqliteStorage ==
    ASSUME ControlInv, StorageInv, RollbackSqlite
    PROVE  StorageInv'
<1>1. CoverShape' /\ PublishedIntact' /\ NoOrphans'
  BY DEF StorageInv, CoverShape, Covers, Unpublished, PublishedIntact, Intact,
     NoOrphans, RollbackSqlite, durable, history
<1>2. JournalShape'
  BY DEF StorageInv, JournalShape, Names, RollbackSqlite, durable, callers
<1>3. SettledShape'
  BY DEF StorageInv, SettledShape, RollbackSqlite, durable
<1>4. PurgeShape'
  BY DEF StorageInv, PurgeShape, RollbackSqlite, callers, history
<1>5. RestoreShape'
  <2>1. /\ pc = "rollback" /\ pc' = "undo" /\ UNCHANGED <<bytes, journal, markers, record, purged>>
        /\ todo' = IF record = NoJournal THEN {} ELSE todo
    BY DEF RollbackSqlite, durable, history
  <2>2. journal.kind = "record" => record # NoJournal
    BY <2>1 DEF StorageInv, SettledShape
  <2> QED
    BY <2>1, <2>2 DEF StorageInv, RestoreShape, Unpublished
<1> QED
  BY <1>1, <1>2, <1>3, <1>4, <1>5 DEF StorageInv

\* Restoring a store to a covering checkpoint keeps what is installed.
LEMMA UndoStoreStorage ==
    ASSUME NEW s \in Store, ControlInv, StorageInv, UndoStore(s)
    PROVE  StorageInv'
<1>1. JournalShape' /\ SettledShape' /\ PurgeShape' /\ CoverShape'
  BY DEF StorageInv, JournalShape, Names, SettledShape, PurgeShape, CoverShape,
     Covers, Unpublished, UndoStore, object, callers, history
<1>2. RestoreShape'
  <2>1. /\ UNCHANGED <<journal, markers, record, purged, pc>> /\ s \in todo
        /\ pc \in {"undo", "recoverUndo"} /\ todo' = todo \ {s}
    BY DEF UndoStore, object, history
  <2> DEFINE target == (IF pc = "undo" THEN record ELSE journal).checkpoint[s]
  <2>2. /\ bytes' = bytes \/ target \subseteq bytes'[s]
        /\ ok' => ok /\ bytes'[s] = target
        /\ \A t \in Store \ {s} : bytes'[t] = bytes[t]
    BY StorageTypes DEF UndoStore
  <2>3. journal.kind = "record" => target = journal.checkpoint[s]
    BY <2>1 DEF StorageInv, JournalShape, RestoreShape
  <2>4. ok' /\ journal.kind = "record" =>
            \A t \in Store \ todo' : bytes'[t] = journal.checkpoint[t]
    BY <2>1, <2>2, <2>3 DEF StorageInv, RestoreShape, JournalShape
  <2>5. Unpublished' /\ purged' = {} => \A t \in Store : journal.checkpoint[t] \subseteq bytes'[t]
    BY <2>1, <2>2, <2>3 DEF StorageInv, RestoreShape, Unpublished
  <2> QED
    BY <2>1, <2>4, <2>5 DEF StorageInv, RestoreShape, JournalShape, Unpublished
<1>3. PublishedIntact'
  <2>1. /\ UNCHANGED <<row, purged>> /\ s \in todo /\ pc \in {"undo", "recoverUndo"}
    BY DEF UndoStore, history
  <2> DEFINE target == (IF pc = "undo" THEN record ELSE journal).checkpoint[s]
  <2>2. /\ bytes' = bytes \/ target \subseteq bytes'[s]
        /\ \A t \in Store \ {s} : bytes'[t] = bytes[t]
    BY StorageTypes DEF UndoStore
  <2>3. \A r \in Import \ purged : row[r] = "installed" => PiecesOf(r) \subseteq target
    BY <2>1 DEF StorageInv, RestoreShape, CoverShape, Covers
  <2> QED
    BY <2>1, <2>2, <2>3 DEF StorageInv, PublishedIntact, Intact
<1>4. NoOrphans'
  BY StorageTypes, JournalKinds DEF ControlInv, TaskShape, StorageInv, NoOrphans,
     Unpublished, UndoStore, history
<1> QED
  BY <1>1, <1>2, <1>3, <1>4 DEF StorageInv

\* Both stores are back at the checkpoint, which holds nothing of the import.
LEMMA ReleaseJournalStorage ==
    ASSUME ControlInv, StorageInv, ReleaseJournal
    PROVE  StorageInv'
<1>1. PublishedIntact'
  BY DEF StorageInv, PublishedIntact, Intact, ReleaseJournal, history
<1>2. JournalShape'
  BY StorageTypes, JournalKinds DEF ControlInv, TaskShape, SessionShape,
     StorageInv, JournalShape, Names, ReleaseJournal, EndRollback, EndTask,
     callers, Report
<1>3. SettledShape'
  BY StorageTypes, JournalKinds DEF ControlInv, TaskShape, StorageInv,
     SettledShape, ReleaseJournal, EndRollback, EndTask, ReleaseConnection,
     KeepConnection
<1>4. PurgeShape'
  BY StorageTypes, JournalKinds DEF ControlInv, TaskShape, SessionShape,
     StorageInv, PurgeShape, ReleaseJournal, EndRollback, EndTask, callers, Report,
     history
<1>5. CoverShape'
  BY StorageTypes, JournalKinds DEF ControlInv, TaskShape, OutcomeShape,
     StorageInv, CoverShape, Covers, Unpublished, ReleaseJournal, history
<1>6. RestoreShape'
  BY StorageTypes, JournalKinds DEF ControlInv, TaskShape, StorageInv,
     RestoreShape, Unpublished, ReleaseJournal, EndRollback, EndTask, history
<1>7. NoOrphans'
  <2>1. journal.kind = "record" => journal = record /\ \A s \in Store : bytes[s] = record.checkpoint[s]
    BY DEF StorageInv, JournalShape, RestoreShape, ReleaseJournal
  <2>2. \A r \in Import \ (committed \cup purged), s \in Store : bytes[s] \cap PiecesOf(r) = {}
    BY <2>1 DEF StorageInv, NoOrphans, Unpublished
  <2> QED
    BY <2>2 DEF NoOrphans, ReleaseJournal, history
<1> QED
  BY <1>1, <1>2, <1>3, <1>4, <1>5, <1>6, <1>7 DEF StorageInv

\* What was not restored stays behind the journal.
LEMMA RetainJournalStorage ==
    ASSUME ControlInv, StorageInv, RetainJournal
    PROVE  StorageInv'
<1>1. CoverShape' /\ PublishedIntact' /\ NoOrphans'
  BY DEF StorageInv, CoverShape, Covers, Unpublished, PublishedIntact, Intact,
     NoOrphans, RetainJournal, durable, history
<1>2. JournalShape'
  BY StorageTypes, JournalKinds DEF ControlInv, TaskShape, SessionShape,
     StorageInv, JournalShape, Names, RetainJournal, EndRollback, EndTask, callers,
     Report, durable
<1>3. SettledShape'
  BY DEF StorageInv, SettledShape, RetainJournal, EndRollback, EndTask,
     ReleaseConnection, KeepConnection, durable
<1>4. PurgeShape'
  BY StorageTypes, JournalKinds DEF ControlInv, TaskShape, SessionShape,
     StorageInv, PurgeShape, RetainJournal, EndRollback, EndTask, callers, Report,
     history
<1>5. RestoreShape'
  BY DEF StorageInv, RestoreShape, Unpublished, RetainJournal, EndRollback,
     EndTask, durable, history
<1> QED
  BY <1>1, <1>2, <1>3, <1>4, <1>5 DEF StorageInv

\* No record was taken, so no journal was written.
LEMMA NothingToReleaseStorage ==
    ASSUME ControlInv, StorageInv, NothingToRelease
    PROVE  StorageInv'
<1>1. CoverShape' /\ PublishedIntact' /\ NoOrphans'
  BY DEF StorageInv, CoverShape, Covers, Unpublished, PublishedIntact, Intact,
     NoOrphans, NothingToRelease, durable, history
<1>2. JournalShape'
  BY StorageTypes, JournalKinds DEF ControlInv, TaskShape, SessionShape,
     StorageInv, JournalShape, Names, NothingToRelease, EndRollback, EndTask,
     callers, Report, durable
<1>3. SettledShape'
  BY DEF StorageInv, SettledShape, NothingToRelease, EndRollback, EndTask,
     ReleaseConnection, KeepConnection, durable
<1>4. PurgeShape'
  BY StorageTypes, JournalKinds DEF ControlInv, TaskShape, SessionShape,
     StorageInv, PurgeShape, NothingToRelease, EndRollback, EndTask, callers,
     Report, history
<1>5. RestoreShape'
  BY DEF StorageInv, RestoreShape, Unpublished, NothingToRelease, EndRollback,
     EndTask, durable, history
<1> QED
  BY <1>1, <1>2, <1>3, <1>4, <1>5 DEF StorageInv

-------------------------------------------------------------------------------
(* The stored bytes: finishBulkImport *)

\* The bytes flushed are the ones the import's journal disowns.
LEMMA EndStoreSessionStorage ==
    ASSUME NEW s \in Store, ControlInv, StorageInv, EndStoreSession(s)
    PROVE  StorageInv'
<1>1. JournalShape' /\ SettledShape' /\ PurgeShape' /\ CoverShape'
  BY DEF StorageInv, JournalShape, Names, SettledShape, PurgeShape, CoverShape,
     Covers, Unpublished, EndStoreSession, object, callers, history
<1>2. RestoreShape'
  BY StorageTypes, JournalKinds DEF ControlInv, TaskShape, StorageInv,
     RestoreShape, Unpublished, EndStoreSession, object, history
<1>3. PublishedIntact'
  BY StorageTypes, JournalKinds DEF ControlInv, TaskShape, OutcomeShape,
     StorageInv, PublishedIntact, Intact, EndStoreSession, history
<1>4. NoOrphans'
  <2>1. run \in Import /\ OwnedBy(run) /\ run \notin markers
    BY DEF ControlInv, TaskShape, SessionShape, ReservationShape, OutcomeShape, EndStoreSession
  <2>2. UNCHANGED <<journal, markers, committed, purged>>
    BY DEF EndStoreSession, history
  <2>3. ASSUME NEW q \in Import \ {run}, NEW t \in Store
        PROVE  bytes'[t] \cap PiecesOf(q) = bytes[t] \cap PiecesOf(q)
    <3>1. \E flushed \in SUBSET PiecesOf(run) : bytes' = [bytes EXCEPT ![s] = @ \cup flushed]
      BY DEF EndStoreSession
    <3> QED
      BY <2>1, <3>1, StorageTypes, PiecesDisjoint
  <2>4. Unpublished /\ journal.session = run /\ Names(journal)
    BY <2>1 DEF OwnedBy, Unpublished, StorageInv, JournalShape
  <2> QED
    BY <2>2, <2>3, <2>4 DEF StorageInv, NoOrphans, Unpublished, Names
<1> QED
  BY <1>1, <1>2, <1>3, <1>4 DEF StorageInv

\* The journal of the finishing import stays in place.
LEMMA StoreSessionsEndedStorage ==
    ASSUME ControlInv, StorageInv, StoreSessionsEnded
    PROVE  StorageInv'
<1>1. CoverShape' /\ PublishedIntact' /\ NoOrphans'
  BY DEF StorageInv, CoverShape, Covers, Unpublished, PublishedIntact, Intact,
     NoOrphans, StoreSessionsEnded, durable, object, history
<1>2. JournalShape'
  BY DEF StorageInv, JournalShape, Names, StoreSessionsEnded, Begin, durable,
     object, callers
<1>3. SettledShape'
  <2>1. record # NoJournal /\ record' = record
    BY JournalKinds DEF ControlInv, TaskShape, ReservationShape, OwnedBy, StoreSessionsEnded, object
  <2>2. op' = "finish" /\ pc' \in {"stage", "commit", "rollback"}
    BY DEF ControlInv, TaskShape, StoreSessionsEnded, Begin, Goto
  <2> QED
    BY <2>1, <2>2 DEF SettledShape
<1>4. PurgeShape'
  BY DEF StorageInv, PurgeShape, StoreSessionsEnded, Begin, callers, history
<1>5. RestoreShape'
  BY DEF StorageInv, RestoreShape, Unpublished, StoreSessionsEnded, Begin, durable,
     object, history
<1> QED
  BY <1>1, <1>2, <1>3, <1>4, <1>5 DEF StorageInv

\* A staged summary is not yet an installed row.
LEMMA StageSummaryStorage ==
    ASSUME ControlInv, StorageInv, StageSummary
    PROVE  StorageInv'
<1>1. CoverShape' /\ PublishedIntact' /\ NoOrphans'
  BY DEF StorageInv, CoverShape, Covers, Unpublished, PublishedIntact, Intact,
     NoOrphans, StageSummary, durable, object, history
<1>2. JournalShape'
  BY DEF StorageInv, JournalShape, Names, StageSummary, Goto, Begin, durable,
     object, callers
<1>3. SettledShape'
  <2>1. record # NoJournal /\ record' = record
    BY JournalKinds DEF ControlInv, TaskShape, ReservationShape, OwnedBy, StageSummary, object
  <2>2. op' = "finish" /\ pc' \in {"stage", "commit", "rollback"}
    BY DEF ControlInv, TaskShape, StageSummary, Begin, Goto
  <2> QED
    BY <2>1, <2>2 DEF SettledShape
<1>4. PurgeShape'
  BY DEF StorageInv, PurgeShape, StageSummary, Goto, Begin, callers, history
<1>5. RestoreShape'
  BY DEF StorageInv, RestoreShape, Unpublished, StageSummary, Goto, Begin, durable,
     object, history
<1> QED
  BY <1>1, <1>2, <1>3, <1>4, <1>5 DEF StorageInv

\* COMMIT installs the one dictionary that is complete and settles its journal.
LEMMA CommitPublicationStorage ==
    ASSUME ControlInv, StorageInv, CommitPublication
    PROVE  StorageInv'
<1>1. JournalShape'
  <2>1. run \in Import /\ OwnedBy(run) /\ UNCHANGED <<journal, session, run>>
    BY DEF ControlInv, TaskShape, ReservationShape, CommitPublication, Goto, Begin, callers
  <2>2. \/ record' = NoJournal /\ run \in markers'
        \/ record' = record /\ pc' = "rollback"
    BY DEF CommitPublication, Begin
  <2> QED
    BY <2>1, <2>2, JournalKinds DEF StorageInv, JournalShape, Names, OwnedBy
<1>2. SettledShape'
  <2>1. /\ op' = "finish" /\ pc' \in {"clearJournal", "rollback"}
        /\ pc' = "rollback" => record' = record
    BY DEF ControlInv, TaskShape, CommitPublication, Goto, Begin
  <2>2. record # NoJournal
    BY JournalKinds DEF ControlInv, TaskShape, ReservationShape, OwnedBy, CommitPublication
  <2> QED
    BY <2>1, <2>2 DEF SettledShape
<1>3. PurgeShape'
  BY DEF StorageInv, PurgeShape, CommitPublication, Goto, Begin, callers
<1>4. CoverShape'
  <2>1. OwnedBy(run) /\ UNCHANGED <<journal, purged>>
    BY DEF ControlInv, TaskShape, ReservationShape, CommitPublication
  <2>2. CASE record' = NoJournal /\ run \in markers'
    BY <2>1, <2>2 DEF CoverShape, OwnedBy, Unpublished
  <2>3. CASE UNCHANGED <<record, row, markers>>
    BY <2>1, <2>3 DEF StorageInv, CoverShape, Covers, Unpublished
  <2> QED
    BY <2>2, <2>3 DEF CommitPublication
<1>5. RestoreShape'
  BY DEF StorageInv, RestoreShape, Unpublished, CommitPublication, Goto, Begin
<1>6. PublishedIntact'
  <2>1. Intact(run) /\ UNCHANGED <<bytes, purged>>
    BY DEF ControlInv, PublicationShape, CommitPublication
  <2>2. \A r \in Import : row'[r] = "installed" => row[r] = "installed" \/ r = run
    BY StorageTypes DEF CommitPublication
  <2> QED
    BY <2>1, <2>2 DEF StorageInv, PublishedIntact, Intact
<1>7. NoOrphans'
  BY DEF StorageInv, NoOrphans, Unpublished, CommitPublication
<1> QED
  BY <1>1, <1>2, <1>3, <1>4, <1>5, <1>6, <1>7 DEF StorageInv

\* The journal of a published import owns no unpublished bytes.
LEMMA ClearPublishedJournalStorage ==
    ASSUME ControlInv, StorageInv, ClearPublishedJournal
    PROVE  StorageInv'
<1>1. PublishedIntact'
  BY DEF StorageInv, PublishedIntact, Intact, ClearPublishedJournal, history
<1>2. JournalShape'
  BY StorageTypes, JournalKinds DEF ControlInv, TaskShape, SessionShape,
     StorageInv, JournalShape, Names, ClearPublishedJournal, EndTask, Report
<1>3. SettledShape'
  BY StorageTypes, JournalKinds DEF ControlInv, TaskShape, StorageInv,
     SettledShape, ClearPublishedJournal, EndTask
<1>4. PurgeShape'
  BY DEF StorageInv, PurgeShape, ClearPublishedJournal, EndTask, Report, history
<1>5. CoverShape'
  BY StorageTypes, JournalKinds DEF ControlInv, TaskShape, OutcomeShape,
     StorageInv, CoverShape, Covers, Unpublished, ClearPublishedJournal, history
<1>6. RestoreShape'
  BY StorageTypes, JournalKinds DEF ControlInv, TaskShape, StorageInv,
     RestoreShape, Unpublished, ClearPublishedJournal, EndTask, history
<1>7. NoOrphans'
  <2>1. ~Unpublished
    BY DEF StorageInv, JournalShape, Unpublished, ClearPublishedJournal
  <2> QED
    BY <2>1 DEF StorageInv, NoOrphans, ClearPublishedJournal, history
<1> QED
  BY <1>1, <1>2, <1>3, <1>4, <1>5, <1>6, <1>7 DEF StorageInv

-------------------------------------------------------------------------------
(* The stored bytes: prepare and recovery *)

\* Opening touches no store.
LEMMA PrepareStorage ==
    ASSUME ControlInv, StorageInv, Prepare
    PROVE  StorageInv'
<1>1. CoverShape' /\ PublishedIntact' /\ NoOrphans'
  BY DEF StorageInv, CoverShape, Covers, Unpublished, PublishedIntact, Intact,
     NoOrphans, Prepare, durable, object, history
<1>2. JournalShape'
  BY DEF StorageInv, JournalShape, Names, Prepare, StartTask, durable, object,
     callers
<1>3. SettledShape'
  BY DEF StorageInv, SettledShape, Prepare, StartTask, durable, object
<1>4. PurgeShape'
  BY DEF StorageInv, PurgeShape, Prepare, StartTask, callers, history
<1>5. RestoreShape'
  BY DEF StorageInv, RestoreShape, Unpublished, Prepare, StartTask, durable,
     object, history
<1> QED
  BY <1>1, <1>2, <1>3, <1>4, <1>5 DEF StorageInv

\* A failed opening forgets the record; the journal file keeps what it knew.
LEMMA OpenConnectionStorage ==
    ASSUME ControlInv, StorageInv, OpenConnection
    PROVE  StorageInv'
<1>1. PublishedIntact' /\ NoOrphans'
  BY DEF StorageInv, PublishedIntact, Intact, NoOrphans, Unpublished,
     OpenConnection, durable, history
<1>2. JournalShape'
  BY StorageTypes, JournalKinds DEF ControlInv, TaskShape, SessionShape,
     StorageInv, JournalShape, Names, OpenConnection, Goto, callers, PrepareFails,
     EndTask, durable
<1>3. SettledShape'
  BY DEF ControlInv, TaskShape, StorageInv, SettledShape, OpenConnection, Goto,
     PrepareFails, ReleaseConnection, EndTask, durable
<1>4. PurgeShape'
  BY DEF StorageInv, PurgeShape, OpenConnection, Goto, callers, PrepareFails,
     EndTask, history
<1>5. CoverShape'
  BY DEF StorageInv, CoverShape, Covers, Unpublished, OpenConnection, PrepareFails,
     durable, history
<1>6. RestoreShape'
  BY DEF StorageInv, RestoreShape, Unpublished, OpenConnection, Goto, PrepareFails,
     EndTask, durable, history
<1> QED
  BY <1>1, <1>2, <1>3, <1>4, <1>5, <1>6 DEF StorageInv

\* Recovery rolls back exactly the journals whose import is not published.
LEMMA ReadJournalStorage ==
    ASSUME ControlInv, StorageInv, ReadJournal
    PROVE  StorageInv'
<1>1. PublishedIntact'
  BY DEF StorageInv, PublishedIntact, Intact, ReadJournal, history
<1>2. JournalShape'
  <2>1. record' \in {record, NoJournal} /\ journal' \in {journal, NoJournal}
    BY DEF ReadJournal, RecoveryFails, PrepareFails
  <2>2. journal' = NoJournal \/ journal' = journal
    BY <2>1
  <2>3. \A r \in Import : session[r] # "idle" => session'[r] # "idle"
    BY StorageTypes DEF ReadJournal, RecoveryFails, PrepareFails, KeepObject, Report, callers
  <2>4. pc' # "clearJournal"
    BY DEF ReadJournal, RecoveryFails, PrepareFails, EndTask, Recovered, Goto, Begin
  <2> QED
    BY <2>1, <2>3, <2>4, JournalKinds DEF StorageInv, JournalShape, Names
<1>3. SettledShape'
  BY StorageTypes, JournalKinds DEF ControlInv, TaskShape, StorageInv,
     SettledShape, ReadJournal, RecoveryFails, EndTask, KeepConnection,
     PrepareFails, ReleaseConnection, Recovered, Goto, KeepObject, Begin
<1>4. PurgeShape'
  BY StorageTypes, JournalKinds DEF ControlInv, TaskShape, SessionShape,
     StorageInv, PurgeShape, ReadJournal, RecoveryFails, EndTask, Report,
     PrepareFails, callers, Recovered, Goto, Begin, history, KeepConnection,
     ReleaseConnection, KeepObject, sqlite
<1>5. CoverShape'
  BY StorageTypes, JournalKinds DEF ControlInv, TaskShape, OutcomeShape,
     StorageInv, CoverShape, Covers, Unpublished, ReadJournal, RecoveryFails,
     PrepareFails, history
<1>6. RestoreShape'
  BY StorageTypes, JournalKinds DEF ControlInv, TaskShape, StorageInv,
     RestoreShape, Unpublished, ReadJournal, RecoveryFails, EndTask, PrepareFails,
     Recovered, Goto, Begin, history
<1>7. NoOrphans'
  BY DEF StorageInv, NoOrphans, Unpublished, ReadJournal, history
<1> QED
  BY <1>1, <1>2, <1>3, <1>4, <1>5, <1>6, <1>7 DEF StorageInv

\* Recovery goes on only when both stores are back at the journal's checkpoint.
LEMMA RecoverySettledStorage ==
    ASSUME ControlInv, StorageInv, RecoverySettled
    PROVE  StorageInv'
<1>1. PublishedIntact' /\ NoOrphans'
  BY DEF StorageInv, PublishedIntact, Intact, NoOrphans, Unpublished,
     RecoverySettled, durable, history
<1>2. JournalShape'
  BY StorageTypes, JournalKinds DEF ControlInv, TaskShape, SessionShape,
     StorageInv, JournalShape, Names, RecoverySettled, Goto, callers,
     RecoveryFails, EndTask, Report, PrepareFails, durable, KeepObject, sqlite,
     KeepConnection, ReleaseConnection, history
<1>3. SettledShape'
  BY DEF StorageInv, SettledShape, RecoverySettled, Goto, KeepObject,
     RecoveryFails, EndTask, KeepConnection, PrepareFails, ReleaseConnection,
     durable
<1>4. PurgeShape'
  BY StorageTypes, JournalKinds DEF ControlInv, TaskShape, SessionShape,
     StorageInv, PurgeShape, RecoverySettled, Goto, callers, RecoveryFails,
     EndTask, Report, PrepareFails, history, KeepObject, sqlite, KeepConnection,
     ReleaseConnection, durable
<1>5. CoverShape'
  BY DEF StorageInv, CoverShape, Covers, Unpublished, RecoverySettled,
     RecoveryFails, PrepareFails, durable, history
<1>6. RestoreShape'
  BY StorageTypes, JournalKinds DEF ControlInv, TaskShape, StorageInv,
     RestoreShape, Unpublished, RecoverySettled, Goto, RecoveryFails, EndTask,
     PrepareFails, durable, history
<1> QED
  BY <1>1, <1>2, <1>3, <1>4, <1>5, <1>6 DEF StorageInv

\* The recovered journal owned nothing any more.
LEMMA RecoveryClearsJournalStorage ==
    ASSUME ControlInv, StorageInv, RecoveryClearsJournal
    PROVE  StorageInv'
<1>1. PublishedIntact'
  BY DEF StorageInv, PublishedIntact, Intact, RecoveryClearsJournal, history
<1>2. JournalShape'
  BY StorageTypes, JournalKinds DEF ControlInv, TaskShape, SessionShape,
     StorageInv, JournalShape, Names, RecoveryClearsJournal, Recovered, Goto,
     callers, RecoveryFails, EndTask, Report, PrepareFails, KeepObject, sqlite,
     KeepConnection, ReleaseConnection, history
<1>3. SettledShape'
  BY StorageTypes, JournalKinds DEF ControlInv, TaskShape, StorageInv,
     SettledShape, RecoveryClearsJournal, Recovered, Goto, KeepObject,
     RecoveryFails, EndTask, KeepConnection, PrepareFails, ReleaseConnection
<1>4. PurgeShape'
  BY StorageTypes, JournalKinds DEF ControlInv, TaskShape, SessionShape,
     StorageInv, PurgeShape, RecoveryClearsJournal, Recovered, Goto, callers,
     RecoveryFails, EndTask, Report, PrepareFails, history, KeepObject, sqlite,
     KeepConnection, ReleaseConnection
<1>5. CoverShape'
  BY StorageTypes, JournalKinds DEF ControlInv, TaskShape, OutcomeShape,
     StorageInv, CoverShape, Covers, Unpublished, RecoveryClearsJournal,
     RecoveryFails, PrepareFails, history
<1>6. RestoreShape'
  BY StorageTypes, JournalKinds DEF ControlInv, TaskShape, StorageInv,
     RestoreShape, Unpublished, RecoveryClearsJournal, Recovered, Goto,
     RecoveryFails, EndTask, PrepareFails, history
<1>7. NoOrphans'
  <2>1. ~Unpublished \/ bytes = journal.checkpoint
    BY DEF StorageInv, RestoreShape, Unpublished, RecoveryClearsJournal
  <2>2. \A r \in Import \ (committed \cup purged), s \in Store : bytes[s] \cap PiecesOf(r) = {}
    BY <2>1 DEF StorageInv, NoOrphans
  <2> QED
    BY <2>2 DEF NoOrphans, RecoveryClearsJournal, history
<1> QED
  BY <1>1, <1>2, <1>3, <1>4, <1>5, <1>6, <1>7 DEF StorageInv

\* The sweep starts only with no journal left.
LEMMA StartupCleanupStorage ==
    ASSUME ControlInv, StorageInv, StartupCleanup
    PROVE  StorageInv'
<1>1. CoverShape' /\ PublishedIntact' /\ NoOrphans'
  BY DEF StorageInv, CoverShape, Covers, Unpublished, PublishedIntact, Intact,
     NoOrphans, StartupCleanup, durable, history
<1>2. JournalShape'
  BY DEF StorageInv, JournalShape, Names, StartupCleanup, EndTask, Begin, durable,
     callers
<1>3. SettledShape'
  BY StorageTypes, JournalKinds DEF ControlInv, TaskShape, StorageInv,
     SettledShape, StartupCleanup, EndTask, Begin, durable, Unresolved, sqlite,
     callers, history
<1>4. PurgeShape'
  BY DEF StorageInv, PurgeShape, StartupCleanup, EndTask, Begin, callers, history
<1>5. RestoreShape'
  BY DEF StorageInv, RestoreShape, Unpublished, StartupCleanup, EndTask, Begin,
     durable, history
<1> QED
  BY <1>1, <1>2, <1>3, <1>4, <1>5 DEF StorageInv

\* A swept summary was not installed.
LEMMA SweepIncompleteStorage ==
    ASSUME NEW r \in Import, ControlInv, StorageInv, SweepIncomplete(r)
    PROVE  StorageInv'
<1>1. NoOrphans'
  BY DEF StorageInv, NoOrphans, Unpublished, SweepIncomplete, history
<1>2. JournalShape'
  BY DEF StorageInv, JournalShape, Names, SweepIncomplete, object, callers
<1>3. SettledShape'
  BY StorageTypes, JournalKinds DEF ControlInv, TaskShape, StorageInv,
     SettledShape, SweepIncomplete, object
<1>4. PurgeShape'
  BY DEF StorageInv, PurgeShape, SweepIncomplete, callers, history
<1>5. CoverShape'
  BY StorageTypes, JournalKinds DEF ControlInv, TaskShape, OutcomeShape,
     StorageInv, CoverShape, Covers, Unpublished, SweepIncomplete, object, history
<1>6. RestoreShape'
  BY DEF StorageInv, RestoreShape, Unpublished, SweepIncomplete, object, history
<1>7. PublishedIntact'
  BY StorageTypes, JournalKinds DEF ControlInv, TaskShape, OutcomeShape,
     StorageInv, PublishedIntact, Intact, SweepIncomplete, history
<1> QED
  BY <1>1, <1>2, <1>3, <1>4, <1>5, <1>6, <1>7 DEF StorageInv

\* Only the pieces of absent dictionaries are removed.
LEMMA VerifyIntegrityStorage ==
    ASSUME ControlInv, StorageInv, VerifyIntegrity
    PROVE  StorageInv'
<1>1. CoverShape'
  BY DEF StorageInv, CoverShape, Covers, Unpublished, VerifyIntegrity, history
<1>2. JournalShape'
  BY DEF StorageInv, JournalShape, Names, VerifyIntegrity, EndTask, callers
<1>3. SettledShape'
  BY DEF StorageInv, SettledShape, VerifyIntegrity, EndTask
<1>4. PurgeShape'
  BY DEF StorageInv, PurgeShape, VerifyIntegrity, EndTask, callers, history
<1>5. RestoreShape'
  <2>1. journal'.kind # "record" /\ pc' = "none"
    BY DEF StorageInv, SettledShape, VerifyIntegrity, EndTask
  <2> QED
    BY <2>1 DEF RestoreShape, Unpublished
<1>6. PublishedIntact'
  <2>1. ASSUME NEW r \in Import, row[r] = "installed", NEW p \in PiecesOf(r), NEW s \in Store,
               p \in bytes[s]
        PROVE  p \in bytes'[s]
    <3>1. p[1] = r
      BY DEF PiecesOf
    <3> QED
      BY <2>1, <3>1, StorageTypes DEF VerifyIntegrity
  <2> QED
    BY <2>1 DEF StorageInv, PublishedIntact, Intact, VerifyIntegrity, history
<1>7. NoOrphans'
  BY DEF StorageInv, NoOrphans, Unpublished, VerifyIntegrity, history
<1> QED
  BY <1>1, <1>2, <1>3, <1>4, <1>5, <1>6, <1>7 DEF StorageInv

-------------------------------------------------------------------------------
(* The stored bytes: deleteDictionary, close, purge, termination *)

\* The barrier: no journal is on disk when a dictionary is deleted.
LEMMA DeleteDictionaryStorage ==
    ASSUME NEW r \in Import, ControlInv, StorageInv, DeleteDictionary(r)
    PROVE  StorageInv'
<1>1. NoOrphans'
  BY DEF StorageInv, NoOrphans, Unpublished, DeleteDictionary, history
<1>2. JournalShape'
  BY DEF StorageInv, JournalShape, Names, DeleteDictionary, StartTask, object,
     callers
<1>3. SettledShape'
  <2>1. journal.kind # "record" /\ journal' = journal
    BY JournalKinds DEF ControlInv, ReservationShape, OwnedBy, StorageInv, SettledShape,
       DeleteDictionary, Unresolved
  <2>2. op' = "delete" /\ pc' = "deleteRecords" /\ run' = r /\ row'[r] = "absent"
    BY StorageTypes DEF DeleteDictionary, StartTask
  <2> QED
    BY <2>1, <2>2 DEF SettledShape
<1>4. PurgeShape'
  BY DEF StorageInv, PurgeShape, DeleteDictionary, StartTask, callers, history
<1>5. CoverShape'
  BY DEF StorageInv, CoverShape, Covers, Unpublished, DeleteDictionary, object,
     history
<1>6. RestoreShape'
  BY DEF StorageInv, RestoreShape, Unpublished, DeleteDictionary, StartTask,
     object, history
<1>7. PublishedIntact'
  BY DEF StorageInv, PublishedIntact, Intact, DeleteDictionary, history
<1> QED
  BY <1>1, <1>2, <1>3, <1>4, <1>5, <1>6, <1>7 DEF StorageInv

\* Only the pieces of the deleted dictionary are removed.
LEMMA DeleteRecordsStorage ==
    ASSUME ControlInv, StorageInv, DeleteRecords
    PROVE  StorageInv'
<1>1. CoverShape'
  BY DEF StorageInv, CoverShape, Covers, Unpublished, DeleteRecords, object,
     history
<1>2. JournalShape'
  BY DEF StorageInv, JournalShape, Names, DeleteRecords, Goto, object, callers
<1>3. SettledShape'
  BY DEF StorageInv, SettledShape, DeleteRecords, Goto, object
<1>4. PurgeShape'
  BY DEF StorageInv, PurgeShape, DeleteRecords, Goto, callers, history
<1>5. RestoreShape'
  <2>1. journal'.kind # "record" /\ pc' = "deleteContent"
    BY DEF StorageInv, SettledShape, DeleteRecords, Goto
  <2> QED
    BY <2>1 DEF RestoreShape, Unpublished
<1>6. PublishedIntact'
  <2>1. run \in Import /\ row[run] # "installed" /\ UNCHANGED <<row, purged>>
    BY DEF StorageInv, SettledShape, DeleteRecords, history
  <2>2. ASSUME NEW r \in Import \ {run}, NEW s \in Store
        PROVE  bytes[s] \cap PiecesOf(r) \subseteq bytes'[s]
    BY <2>1, StorageTypes, PiecesDisjoint DEF DeleteRecords
  <2> QED
    BY <2>1, <2>2 DEF StorageInv, PublishedIntact, Intact
<1>7. NoOrphans'
  BY DEF StorageInv, NoOrphans, Unpublished, DeleteRecords, history
<1> QED
  BY <1>1, <1>2, <1>3, <1>4, <1>5, <1>6, <1>7 DEF StorageInv

\* The shared content is reset only when nothing is installed.
LEMMA DeleteContentStorage ==
    ASSUME ControlInv, StorageInv, DeleteContent
    PROVE  StorageInv'
<1>1. CoverShape'
  BY DEF StorageInv, CoverShape, Covers, Unpublished, DeleteContent, object,
     history
<1>2. JournalShape'
  BY DEF StorageInv, JournalShape, Names, DeleteContent, EndTask, object, callers
<1>3. SettledShape'
  BY DEF StorageInv, SettledShape, DeleteContent, EndTask, object
<1>4. PurgeShape'
  BY DEF StorageInv, PurgeShape, DeleteContent, EndTask, callers, history
<1>5. RestoreShape'
  <2>1. journal'.kind # "record" /\ pc' \in {"none", "sweep"}
    BY DEF StorageInv, SettledShape, DeleteContent, EndTask
  <2> QED
    BY <2>1 DEF RestoreShape, Unpublished
<1>6. PublishedIntact'
  BY DEF StorageInv, PublishedIntact, Intact, DeleteContent, history
<1>7. NoOrphans'
  BY StorageTypes, JournalKinds DEF ControlInv, TaskShape, StorageInv, NoOrphans,
     Unpublished, DeleteContent, history
<1> QED
  BY <1>1, <1>2, <1>3, <1>4, <1>5, <1>6, <1>7 DEF StorageInv

\* A close with a record rolls it back.
LEMMA CloseStorage ==
    ASSUME ControlInv, StorageInv, Close
    PROVE  StorageInv'
<1>1. CoverShape' /\ PublishedIntact' /\ NoOrphans'
  BY DEF StorageInv, CoverShape, Covers, Unpublished, PublishedIntact, Intact,
     NoOrphans, Close, durable, history
<1>2. JournalShape'
  BY DEF StorageInv, JournalShape, Names, Close, task, StartTask, durable, callers
<1>3. SettledShape'
  BY DEF StorageInv, SettledShape, Close, ReleaseConnection, task, StartTask,
     KeepConnection, durable
<1>4. PurgeShape'
  BY DEF StorageInv, PurgeShape, Close, task, StartTask, callers, history
<1>5. RestoreShape'
  BY DEF StorageInv, RestoreShape, Unpublished, Close, task, StartTask, durable,
     history
<1> QED
  BY <1>1, <1>2, <1>3, <1>4, <1>5 DEF StorageInv

\* A purge forgets every import that was started.
LEMMA PurgeStorage ==
    ASSUME ControlInv, StorageInv, Purge
    PROVE  StorageInv'
<1>1. JournalShape'
  BY DEF StorageInv, JournalShape, Names, Purge, StartTask, durable, callers
<1>2. SettledShape'
  BY DEF StorageInv, SettledShape, Purge, ReleaseConnection, StartTask, durable
<1>3. PurgeShape'
  BY StorageTypes, JournalKinds DEF ControlInv, TaskShape, SessionShape,
     StorageInv, PurgeShape, Purge, StartTask, callers, Quiet, ReleaseConnection,
     durable
<1>4. CoverShape'
  BY DEF StorageInv, CoverShape, Covers, Unpublished, Purge, durable
<1>5. RestoreShape'
  BY DEF StorageInv, RestoreShape, Unpublished, Purge, StartTask, durable
<1>6. PublishedIntact'
  BY DEF StorageInv, PublishedIntact, Intact, Purge, durable
<1>7. NoOrphans'
  BY DEF StorageInv, NoOrphans, Unpublished, Purge, durable
<1> QED
  BY <1>1, <1>2, <1>3, <1>4, <1>5, <1>6, <1>7 DEF StorageInv

\* Every installed dictionary is one that the purge forgets.
LEMMA ResetStoreStorage ==
    ASSUME NEW s \in Store, ControlInv, StorageInv, ResetStore(s)
    PROVE  StorageInv'
<1>1. JournalShape' /\ SettledShape' /\ PurgeShape' /\ CoverShape'
  BY DEF StorageInv, JournalShape, Names, SettledShape, PurgeShape, CoverShape,
     Covers, Unpublished, ResetStore, object, callers, history
<1>2. RestoreShape'
  <2>1. pc' = "reset" /\ UNCHANGED <<journal, markers, purged>>
    BY DEF ResetStore, history
  <2>2. Unpublished => purged # {}
    BY DEF StorageInv, JournalShape, Names, PurgeShape, Unpublished, ResetStore
  <2> QED
    BY <2>1, <2>2 DEF RestoreShape, Unpublished
<1>3. PublishedIntact'
  <2>1. \A r \in Import : row[r] = "installed" => r \in purged
    BY DEF ControlInv, TaskShape, OutcomeShape, StorageInv, PurgeShape, ResetStore
  <2> QED
    BY <2>1 DEF PublishedIntact, ResetStore, history
<1>4. NoOrphans'
  BY DEF StorageInv, NoOrphans, Unpublished, ResetStore, history
<1> QED
  BY <1>1, <1>2, <1>3, <1>4 DEF StorageInv

\* Every unpublished byte belongs to an import that the purge forgets.
LEMMA ResetJournalStorage ==
    ASSUME ControlInv, StorageInv, ResetJournal
    PROVE  StorageInv'
<1>1. PurgeShape' /\ PublishedIntact'
  BY DEF StorageInv, PurgeShape, PublishedIntact, Intact, ResetJournal, callers,
     history
<1>2. JournalShape'
  BY StorageTypes, JournalKinds DEF ControlInv, TaskShape, SessionShape,
     StorageInv, JournalShape, Names, ResetJournal, object, callers
<1>3. SettledShape'
  BY DEF ControlInv, TaskShape, StorageInv, SettledShape, ResetJournal, object
<1>4. CoverShape'
  BY StorageTypes, JournalKinds DEF ControlInv, TaskShape, OutcomeShape,
     StorageInv, CoverShape, Covers, Unpublished, ResetJournal, object, history
<1>5. RestoreShape'
  BY StorageTypes, JournalKinds DEF ControlInv, TaskShape, StorageInv,
     RestoreShape, Unpublished, ResetJournal, object, history
<1>6. NoOrphans'
  <2>1. \A r \in Import : Unpublished /\ journal.session = r => r \in purged
    BY DEF StorageInv, JournalShape, Names, PurgeShape, Unpublished, ResetJournal
  <2> QED
    BY <2>1 DEF StorageInv, NoOrphans, ResetJournal, history
<1> QED
  BY <1>1, <1>2, <1>3, <1>4, <1>5, <1>6 DEF StorageInv

\* A journal left on disk names an import that the purge forgot.
LEMMA DeleteDatabaseStorage ==
    ASSUME ControlInv, StorageInv, DeleteDatabase
    PROVE  StorageInv'
<1>1. JournalShape'
  BY StorageTypes, JournalKinds DEF ControlInv, TaskShape, SessionShape,
     StorageInv, JournalShape, Names, DeleteDatabase, Goto, callers
<1>2. SettledShape'
  BY DEF ControlInv, TaskShape, StorageInv, SettledShape, DeleteDatabase, Goto
<1>3. PurgeShape'
  BY DEF StorageInv, PurgeShape, DeleteDatabase, Goto, callers, history
<1>4. CoverShape'
  BY DEF StorageInv, CoverShape, Covers, Unpublished, DeleteDatabase, history
<1>5. RestoreShape'
  <2>1. pc' = "connect" /\ UNCHANGED <<journal, purged>>
    BY DEF DeleteDatabase, Goto, history
  <2>2. journal.kind = "record" => purged # {}
    BY DEF StorageInv, JournalShape, Names, PurgeShape, DeleteDatabase
  <2> QED
    BY <2>1, <2>2 DEF RestoreShape, Unpublished
<1>6. PublishedIntact'
  BY DEF StorageInv, PublishedIntact, Intact, DeleteDatabase, history
<1>7. NoOrphans'
  BY DEF StorageInv, NoOrphans, Unpublished, DeleteDatabase, history
<1> QED
  BY <1>1, <1>2, <1>3, <1>4, <1>5, <1>6, <1>7 DEF StorageInv

\* A termination leaves the files and the tables as they are.
LEMMA CrashStorage ==
    ASSUME ControlInv, StorageInv, Crash
    PROVE  StorageInv'
<1>1. PublishedIntact' /\ NoOrphans'
  BY DEF StorageInv, PublishedIntact, Intact, NoOrphans, Unpublished, Crash,
     durable, history
<1>2. JournalShape'
  BY StorageTypes, JournalKinds DEF ControlInv, TaskShape, SessionShape,
     StorageInv, JournalShape, Names, Crash, EndTask, durable
<1>3. SettledShape'
  BY DEF StorageInv, SettledShape, Crash, ReleaseConnection, EndTask, durable
<1>4. PurgeShape'
  BY DEF StorageInv, PurgeShape, Crash, EndTask, history
<1>5. CoverShape'
  BY DEF StorageInv, CoverShape, Covers, Unpublished, Crash, durable, history
<1>6. RestoreShape'
  BY DEF StorageInv, RestoreShape, Unpublished, Crash, EndTask, durable, history
<1> QED
  BY <1>1, <1>2, <1>3, <1>4, <1>5, <1>6 DEF StorageInv

-------------------------------------------------------------------------------
(* Every behaviour *)

\* Every step of the running operation keeps the stored bytes accounted for.
LEMMA TaskStorage ==
    ASSUME ControlInv, StorageInv, TaskStep
    PROVE  StorageInv'
<1>1. ASSUME NEW s \in Store, StoreStep(s) PROVE StorageInv'
  BY <1>1, UndoStoreStorage, EndStoreSessionStorage, ResetStoreStorage DEF StoreStep
<1>2. ASSUME NEW r \in Import, SweepIncomplete(r) PROVE StorageInv'
  BY <1>2, SweepIncompleteStorage
<1>3. CASE \/ SetupCheckpoint \/ SetupWriteJournal \/ SetupBegin
           \/ RollbackSqlite \/ ReleaseJournal \/ RetainJournal \/ NothingToRelease
  BY <1>3, SetupCheckpointStorage, SetupWriteJournalStorage, SetupBeginStorage,
     RollbackSqliteStorage, ReleaseJournalStorage, RetainJournalStorage,
     NothingToReleaseStorage
<1>4. CASE \/ StoreSessionsEnded \/ StageSummary \/ CommitPublication
           \/ ClearPublishedJournal
  BY <1>4, StoreSessionsEndedStorage, StageSummaryStorage, CommitPublicationStorage,
     ClearPublishedJournalStorage
<1>5. CASE \/ OpenConnection \/ ReadJournal \/ RecoverySettled \/ RecoveryClearsJournal
           \/ StartupCleanup \/ VerifyIntegrity
  BY <1>5, OpenConnectionStorage, ReadJournalStorage, RecoverySettledStorage,
     RecoveryClearsJournalStorage, StartupCleanupStorage, VerifyIntegrityStorage
<1>6. CASE DeleteRecords \/ DeleteContent \/ ResetJournal \/ DeleteDatabase
  BY <1>6, DeleteRecordsStorage, DeleteContentStorage, ResetJournalStorage,
     DeleteDatabaseStorage
<1> QED
  BY <1>1, <1>2, <1>3, <1>4, <1>5, <1>6 DEF TaskStep

\* Every step of an import's caller keeps the stored bytes accounted for.
LEMMA ImporterStorage ==
    ASSUME NEW r \in Import, ControlInv, StorageInv, ImporterStep(r)
    PROVE  StorageInv'
BY PlaceSummaryStorage, StartBulkImportStorage, StartRejectedStorage,
   WriteChunkStorage, RecordFailureStorage, FinishBulkImportStorage,
   AbortBulkImportStorage, FinalizeRejectedStorage, CleanupPlaceholderStorage
   DEF ImporterStep

\* StorageInv is inductive relative to ControlInv.
LEMMA NextStorage ==
    ASSUME ControlInv, StorageInv, [Next]_vars
    PROVE  StorageInv'
<1>1. CASE TaskStep
  BY <1>1, TaskStorage
<1>2. ASSUME NEW r \in Import, ImporterStep(r) \/ DeleteDictionary(r) PROVE StorageInv'
  BY <1>2, ImporterStorage, DeleteDictionaryStorage
<1>3. CASE Prepare \/ Close \/ Purge \/ Crash
  BY <1>3, PrepareStorage, CloseStorage, PurgeStorage, CrashStorage
<1>4. CASE UNCHANGED vars
  BY <1>4 DEF StorageInv, JournalShape, Names, SettledShape, PurgeShape, CoverShape,
     Covers, RestoreShape, PublishedIntact, Intact, NoOrphans, Unpublished, vars
<1> QED
  BY <1>1, <1>2, <1>3, <1>4 DEF Next

\* The empty stores have nothing to account for.
LEMMA InitStorage ==
    ASSUME Init
    PROVE  StorageInv
<1>1. journal.kind # "record" /\ record = NoJournal /\ record.kind # "record"
  BY JournalKinds DEF Init
<1>2. JournalShape /\ SettledShape /\ PurgeShape
  BY <1>1 DEF Init, JournalShape, SettledShape, PurgeShape
<1>3. CoverShape /\ RestoreShape
  BY <1>1 DEF Init, CoverShape, RestoreShape, Unpublished
<1>4. PublishedIntact /\ NoOrphans
  BY DEF Init, PublishedIntact, NoOrphans, NoCheckpoint
<1> QED
  BY <1>2, <1>3, <1>4 DEF StorageInv

\* In every reachable state the rows, the bytes of the two stores, the journal file
\* and the rollback or recovery under way agree.
THEOREM StorageInvariant == Spec => []StorageInv
<1>1. Init => StorageInv
  BY InitStorage
<1>2. ControlInv /\ StorageInv /\ [Next]_vars => StorageInv'
  BY NextStorage
<1> QED
  BY <1>1, <1>2, ControlInvariant, PTL DEF Spec

\* No failure, crash, rollback or recovery takes a byte from a published dictionary.
THEOREM PublishedStaysIntact == Spec => []PublishedIntact
<1>1. StorageInv => PublishedIntact
  BY DEF StorageInv
<1> QED
  BY <1>1, StorageInvariant, PTL

\* A journal that a later start may still roll back can be rolled back, and the
\* rollback cuts into no installed dictionary.
THEOREM CheckpointsAreRestorable == Spec => []CheckpointRestorable
<1>1. StorageInv => CheckpointRestorable
  BY DEF StorageInv, RestoreShape, CoverShape, Covers, CheckpointRestorable
<1> QED
  BY <1>1, StorageInvariant, PTL

\* Bytes of an unpublished import are always owned by the journal on disk.
THEOREM NothingLeaks == Spec => []NoOrphans
<1>1. StorageInv => NoOrphans
  BY DEF StorageInv
<1> QED
  BY <1>1, StorageInvariant, PTL

\* Which steps change the journal file.
LEMMA FrameOfJournal ==
    ASSUME [Next]_vars
    PROVE  \/ UNCHANGED journal
           \/ SetupWriteJournal \/ ReleaseJournal \/ ClearPublishedJournal
           \/ ReadJournal \/ RecoveryClearsJournal \/ ResetJournal
<1>1. CASE \/ SetupCheckpoint \/ SetupBegin \/ RollbackSqlite \/ RetainJournal
           \/ NothingToRelease
  BY <1>1 DEF SetupCheckpoint, SetupBegin, RollbackSqlite, RetainJournal,
     NothingToRelease, durable
<1>2. CASE \/ StoreSessionsEnded \/ StageSummary \/ CommitPublication
           \/ OpenConnection \/ RecoverySettled \/ StartupCleanup \/ VerifyIntegrity
  BY <1>2 DEF StoreSessionsEnded, StageSummary, CommitPublication, OpenConnection,
     RecoverySettled, StartupCleanup, VerifyIntegrity, durable
<1>3. CASE DeleteRecords \/ DeleteContent \/ DeleteDatabase
  BY <1>3 DEF DeleteRecords, DeleteContent, DeleteDatabase
<1>4. ASSUME NEW s \in Store, StoreStep(s) PROVE UNCHANGED journal
  BY <1>4 DEF StoreStep, UndoStore, EndStoreSession, ResetStore
<1>5. CASE Prepare \/ Close \/ Purge \/ Crash \/ UNCHANGED vars
  BY <1>5 DEF Prepare, Close, Purge, Crash, durable, vars
<1>6. ASSUME NEW r \in Import, ImporterStep(r) \/ DeleteDictionary(r) \/ SweepIncomplete(r)
      PROVE  UNCHANGED journal
  BY <1>6 DEF ImporterStep, PlaceSummary, StartBulkImport, StartRejected, RecordFailure,
     FinishBulkImport, AbortBulkImport, FinalizeRejected, CleanupPlaceholder, WriteChunk,
     DeleteDictionary, SweepIncomplete, durable
<1> QED
  BY <1>1, <1>2, <1>3, <1>4, <1>5, <1>6 DEF Next, TaskStep

\* A journal record leaves the disk only when its import is published or both stores
\* are back at its checkpoint.
THEOREM JournalIsReleasedWhenSettled == Spec => JournalReleasedWhenSettled
<1>1. ASSUME ControlInv, StorageInv, [Next]_vars, journal.kind = "record", journal' # journal
      PROVE  journal.session \in markers \/ bytes = journal.checkpoint \/ op = "purge"
  <2>1. CASE SetupWriteJournal
    BY <1>1, <2>1 DEF StorageInv, SettledShape, SetupWriteJournal
  <2>2. CASE ReleaseJournal
    <3>1. \A s \in Store : bytes[s] = journal.checkpoint[s]
      BY <1>1, <2>2 DEF StorageInv, JournalShape, RestoreShape, ReleaseJournal
    <3> QED
      BY <1>1, <3>1, StorageTypes
  <2>3. CASE ClearPublishedJournal
    BY <1>1, <2>3 DEF StorageInv, JournalShape, ClearPublishedJournal
  <2>4. CASE ReadJournal
    BY <1>1, <2>4 DEF ReadJournal
  <2>5. CASE RecoveryClearsJournal
    BY <1>1, <2>5 DEF StorageInv, RestoreShape, RecoveryClearsJournal
  <2>6. CASE ResetJournal
    BY <1>1, <2>6 DEF ControlInv, TaskShape, ResetJournal
  <2> QED
    BY <1>1, <2>1, <2>2, <2>3, <2>4, <2>5, <2>6, FrameOfJournal
<1>2. ControlInv /\ StorageInv /\ [Next]_vars => [ReleasesSettled]_vars
  BY <1>1 DEF ReleasesSettled
<1> QED
  BY <1>2, ControlInvariant, StorageInvariant, PTL DEF Spec, JournalReleasedWhenSettled

\* Any number of imports, chunks, faults and terminations leave the control state
\* and the stored bytes consistent, and the lifecycle free for its next caller.
THEOREM LifecycleIsSound == Spec => []LifecycleSound
BY ControlInvariant, StorageInvariant, NoTransactionLeftBehind, ReservationIsOwned, PTL
   DEF LifecycleSound

===============================================================================
