--------------------------- MODULE ImportOperations ---------------------------
(***************************************************************************)
(* The import operations of OffscreenDictionaryWorkerHandler: which request *)
(* is admitted, what a cancellation that overtakes or follows it does, what *)
(* the bounded receipt registry remembers, and what it answers.             *)
(*                                                                          *)
(* An operation ID carries the time at which it was issued.  Import requests *)
(* and cancellations travel on different channels: they arrive in any order, *)
(* late, and more than once.  Admission, cancellation and status run in one  *)
(* step each; an admitted import waits in the exclusive request queue.       *)
(***************************************************************************)
EXTENDS Integers, Sequences, FiniteSets

CONSTANTS
    Operation,    \* operation IDs
    IssuedAt,     \* the time in each ID
    Window,       \* lifetime of an ID: ten minutes
    RegistryCap,  \* _importOperations: 128
    FenceCap,     \* _pendingImportCancellations: 128
    Nobody,       \* no operation
    MaxTime,      \* bound: the clock
    MaxRestarts   \* bound: terminations of the worker

ASSUME OperationAssumption ==
    IsFiniteSet(Operation) /\ Nobody \notin Operation /\ IssuedAt \in [Operation -> Nat \ {0}]
ASSUME CapAssumption ==
    /\ Window \in Nat /\ RegistryCap \in Nat \ {0} /\ FenceCap \in Nat \ {0}
    /\ MaxTime \in Nat /\ MaxRestarts \in Nat

VARIABLES
    now,
    \* the worker's memory
    entry,      \* _importOperations: state of each ID
    updatedAt,  \* and the time of its last change
    aborted,    \* operations whose AbortController has fired
    fence,      \* _pendingImportCancellations
    retired,    \* _retiredImportIssuedAt
    queue,      \* admitted imports in the exclusive request queue
    active,     \* the import that runs
    phase,      \* how far it is
    \* durable
    receipts,   \* published summaries, by storageImportOperationId
    \* history of this worker, and bounds
    admitted,   \* operations it admitted
    refused,    \* operations cancelled before it admitted them
    stopped,    \* operations cancelled before they began to finalize
    landed,     \* operations it published
    restarts

request == <<fence, retired, entry, updatedAt>>
run == <<queue, active, phase>>
history == <<admitted, refused, stopped, landed>>
vars == <<now, entry, updatedAt, aborted, fence, retired, queue, active, phase,
          receipts, admitted, refused, stopped, landed, restarts>>

Absent == [o \in Operation |-> "absent"]

Init ==
    /\ now = 1
    /\ entry = Absent
    /\ updatedAt = [o \in Operation |-> 0]
    /\ aborted = {}
    /\ fence = {}
    /\ retired = 0
    /\ queue = << >>
    /\ active = Nobody /\ phase = "idle"
    /\ receipts = {}
    /\ admitted = {} /\ refused = {} /\ stopped = {} /\ landed = {}
    /\ restarts = 0

-------------------------------------------------------------------------------
(* The registry and the cancellation fence *)

Live(o) == now < IssuedAt[o] + Window

\* _getValidImportOperationIssuedAt
Valid(o) == IssuedAt[o] <= now /\ Live(o)

Owned(state) == state \in {"queued", "running"}
Settled(state) == state \notin {"absent", "queued", "running"}

\* Mutant: an operation that still waits or runs is dropped as well.
MutPrunedEntry ==
    [o \in Operation |-> IF updatedAt[o] + Window < now THEN "absent" ELSE entry[o]]

\* _pruneImportOperations, which every request runs first.
PrunedEntry ==
    [o \in Operation |->
        IF Settled(entry[o]) /\ updatedAt[o] + Window < now THEN "absent" ELSE entry[o]]
PrunedFence == {o \in fence : Live(o)}
Registered == {o \in Operation : PrunedEntry[o] # "absent"}

Later(s, t) == IF s < t THEN t ELSE s

\* The entries that admission may evict: settled, and longest unchanged.
Evictable ==
    {o \in Registered :
        /\ Settled(PrunedEntry[o])
        /\ \A q \in Registered : Settled(PrunedEntry[q]) => updatedAt[o] <= updatedAt[q]}

\* The fences that a new one may evict: issued first.
OldestFence == {o \in PrunedFence : \A q \in PrunedFence : IssuedAt[o] <= IssuedAt[q]}

NotBarred(o) ==
    /\ o \notin PrunedFence
    /\ PrunedEntry[o] = "absent"
    /\ retired < IssuedAt[o]

Enqueue(o, kept) ==
    /\ entry' = [kept EXCEPT ![o] = "queued"]
    /\ updatedAt' = [updatedAt EXCEPT ![o] = now]
    /\ fence' = PrunedFence
    /\ queue' = Append(queue, o)
    /\ admitted' = admitted \cup {o}

\* Mutant: the evicted ID is forgotten.
MutAdmitEvicting(o) ==
    /\ Valid(o) /\ NotBarred(o)
    /\ Cardinality(Registered) >= RegistryCap
    /\ \E old \in Evictable :
          /\ Enqueue(o, [PrunedEntry EXCEPT ![old] = "absent"])
          /\ retired' = retired
    /\ UNCHANGED <<now, aborted, active, phase, receipts, refused, stopped, landed,
                   restarts>>

\* _admitImportOperation
Admit(o) ==
    /\ Valid(o) /\ NotBarred(o)
    /\ Cardinality(Registered) < RegistryCap
    /\ Enqueue(o, PrunedEntry)
    /\ UNCHANGED <<now, aborted, retired, active, phase, receipts, refused, stopped,
                   landed, restarts>>

\* A full registry gives up its oldest receipt, and with it every ID that was
\* not issued later than the one it forgets.
AdmitEvicting(o) ==
    /\ Valid(o) /\ NotBarred(o)
    /\ Cardinality(Registered) >= RegistryCap
    /\ \E old \in Evictable :
          /\ IssuedAt[old] < IssuedAt[o]
          /\ Enqueue(o, [PrunedEntry EXCEPT ![old] = "absent"])
          /\ retired' = Later(retired, IssuedAt[old])
    /\ UNCHANGED <<now, aborted, active, phase, receipts, refused, stopped, landed,
                   restarts>>

\* A refused admission and a status request prune and change nothing else.
PruneOnly ==
    /\ entry' = PrunedEntry
    /\ fence' = PrunedFence
    /\ UNCHANGED <<now, updatedAt, aborted, retired, run, receipts, history, restarts>>

\* Cancellation of an admitted operation; a settled one keeps its outcome.
CancelAdmitted(o) ==
    /\ PrunedEntry[o] # "absent"
    /\ entry' = PrunedEntry
    /\ fence' = PrunedFence
    /\ IF Owned(entry[o])
       THEN /\ aborted' = aborted \cup {o}
            /\ stopped' = IF active = o /\ phase \in {"finalizing", "committed"}
                          THEN stopped ELSE stopped \cup {o}
       ELSE UNCHANGED <<aborted, stopped>>
    /\ UNCHANGED <<now, updatedAt, retired, run, receipts, admitted, refused, landed,
                   restarts>>

\* Mutant: the fence that makes room is forgotten.
MutAddFence(o) ==
    IF Cardinality(PrunedFence) < FenceCap
    THEN fence' = PrunedFence \cup {o} /\ UNCHANGED retired
    ELSE \E old \in OldestFence :
            /\ fence' = (PrunedFence \ {old}) \cup {o}
            /\ UNCHANGED retired

\* A full fence gives up its oldest ID, which the horizon then covers.
AddFence(o) ==
    IF Cardinality(PrunedFence) < FenceCap
    THEN fence' = PrunedFence \cup {o} /\ UNCHANGED retired
    ELSE \E old \in OldestFence :
            /\ fence' = (PrunedFence \ {old}) \cup {o}
            /\ retired' = Later(retired, IssuedAt[old])

\* _cancelUnadmittedImportOperation
CancelUnadmitted(o) ==
    /\ PrunedEntry[o] = "absent"
    /\ entry' = PrunedEntry
    /\ IF Valid(o) /\ retired < IssuedAt[o] /\ o \notin PrunedFence
       THEN AddFence(o)
       ELSE fence' = PrunedFence /\ UNCHANGED retired
    /\ refused' = IF o \notin admitted /\ IssuedAt[o] <= now THEN refused \cup {o}
                  ELSE refused
    /\ UNCHANGED <<now, updatedAt, aborted, run, receipts, admitted, stopped, landed,
                   restarts>>

-------------------------------------------------------------------------------
(* _importDictionaryOffscreen *)

Settle(state) ==
    /\ entry' = [entry EXCEPT ![active] = state]
    /\ updatedAt' = [updatedAt EXCEPT ![active] = now]

Finish == active' = Nobody /\ phase' = "idle" /\ UNCHANGED queue

\* The exclusive queue starts the next import.
StartNext ==
    /\ active = Nobody /\ queue # << >>
    /\ active' = Head(queue) /\ queue' = Tail(queue)
    /\ phase' = "opening"
    /\ UNCHANGED <<now, entry, updatedAt, aborted, fence, retired, receipts, history,
                   restarts>>

\* Mutant: the request fails without its operation.
MutPortMissing ==
    /\ phase = "opening"
    /\ UNCHANGED <<entry, updatedAt>>
    /\ Finish
    /\ UNCHANGED <<now, aborted, fence, retired, receipts, history, restarts>>

\* The request came without a response port.
PortMissing ==
    /\ phase = "opening"
    /\ Settle("failed")
    /\ Finish
    /\ UNCHANGED <<now, aborted, fence, retired, receipts, history, restarts>>

\* The database is suspended or does not open, the ID is already published, or
\* the importer throws before it owns storage.
ImportThrows ==
    /\ phase \in {"opening", "importing"}
    /\ Settle(IF active \in aborted THEN "cancelled" ELSE "failed")
    /\ Finish
    /\ UNCHANGED <<now, aborted, fence, retired, receipts, history, restarts>>

\* Mutant: the durable receipt is not consulted.
MutBeginImport ==
    /\ phase = "opening"
    /\ entry' = [entry EXCEPT ![active] = "running"]
    /\ phase' = "importing"
    /\ UNCHANGED <<now, updatedAt, aborted, fence, retired, queue, active, receipts,
                   history, restarts>>

\* The database is open and holds no receipt of this operation.
BeginImport ==
    /\ phase = "opening" /\ active \notin receipts
    /\ entry' = [entry EXCEPT ![active] = "running"]
    /\ phase' = "importing"
    /\ UNCHANGED <<now, updatedAt, aborted, fence, retired, queue, active, receipts,
                   history, restarts>>

\* Mutant: cancellation is not checked again before finalization.
MutBeginFinalization ==
    /\ phase = "importing"
    /\ phase' = "finalizing"
    /\ UNCHANGED <<now, entry, updatedAt, aborted, fence, retired, queue, active,
                   receipts, history, restarts>>

\* The last look at the cancellation signal.
BeginFinalization ==
    /\ phase = "importing" /\ active \notin aborted
    /\ phase' = "finalizing"
    /\ UNCHANGED <<now, entry, updatedAt, aborted, fence, retired, queue, active,
                   receipts, history, restarts>>

\* A failed or cancelled import is undone, was refused by the importer, or its
\* rollback could not be confirmed.
ImportUnpublished ==
    /\ phase \in {"importing", "finalizing"}
    /\ \E outcome \in {"unpublished", "unknown"} : Settle(outcome)
    /\ Finish
    /\ UNCHANGED <<now, aborted, fence, retired, receipts, history, restarts>>

\* finishBulkImport commits the summary that carries the operation ID.
Commit ==
    /\ phase = "finalizing"
    /\ receipts' = receipts \cup {active}
    /\ landed' = landed \cup {active}
    /\ phase' = "committed"
    /\ UNCHANGED <<now, entry, updatedAt, aborted, fence, retired, queue, active,
                   admitted, refused, stopped, restarts>>

\* Mutant: an error after the completion was recorded replaces it.
MutImportPublished ==
    /\ phase = "committed"
    /\ \/ Settle("published")
       \/ Settle(IF active \in aborted THEN "cancelled" ELSE "failed")
    /\ Finish
    /\ UNCHANGED <<now, aborted, fence, retired, receipts, history, restarts>>

\* The completion is recorded first: when the cache invalidation or the delivery
\* of the response then fails, the recorded completion stays.
ImportPublished ==
    /\ phase = "committed"
    /\ Settle("published")
    /\ Finish
    /\ UNCHANGED <<now, aborted, fence, retired, receipts, history, restarts>>

-------------------------------------------------------------------------------
(* The environment *)

Tick ==
    /\ now < MaxTime
    /\ now' = now + 1
    /\ UNCHANGED <<request, aborted, run, receipts, history, restarts>>

\* A published dictionary is deleted, or another replaces it.
RemoveDictionary(o) ==
    /\ active = Nobody /\ o \in receipts
    /\ receipts' = receipts \ {o}
    /\ UNCHANGED <<now, request, aborted, run, history, restarts>>

\* The worker is terminated; a new one starts with an empty memory.
Restart ==
    /\ restarts < MaxRestarts /\ restarts' = restarts + 1
    /\ entry' = Absent
    /\ updatedAt' = [o \in Operation |-> 0]
    /\ aborted' = {} /\ fence' = {} /\ retired' = 0
    /\ queue' = << >> /\ active' = Nobody /\ phase' = "idle"
    /\ admitted' = {} /\ refused' = {} /\ stopped' = {} /\ landed' = {}
    /\ UNCHANGED <<now, receipts>>

-------------------------------------------------------------------------------

Request(o) ==
    \/ Admit(o) \/ AdmitEvicting(o)
    \/ CancelAdmitted(o) \/ CancelUnadmitted(o)
    \/ RemoveDictionary(o)

RunStep ==
    \/ StartNext \/ PortMissing \/ ImportThrows \/ BeginImport
    \/ BeginFinalization \/ ImportUnpublished \/ Commit \/ ImportPublished

Next ==
    \/ \E o \in Operation : Request(o)
    \/ PruneOnly \/ RunStep \/ Tick \/ Restart

Spec == Init /\ [][Next]_vars

\* The request queue goes on with the import at its head, and the import ends.
FairSpec == Spec /\ WF_vars(RunStep)

-------------------------------------------------------------------------------
(* Properties *)

State == {"absent", "queued", "running", "published", "unpublished", "unknown",
          "cancelled", "failed"}
Phase == {"idle", "opening", "importing", "finalizing", "committed"}

\* The variables hold values of the program's types; what the worker remembers
\* is of the past, so the horizon never bars an ID that is still to be issued.
TypeOK ==
    /\ now \in Nat
    /\ entry \in [Operation -> State]
    /\ updatedAt \in [Operation -> 0 .. now]
    /\ aborted \subseteq Operation
    /\ fence \subseteq {o \in Operation : IssuedAt[o] <= now}
    /\ retired \in 0 .. now
    /\ queue \in Seq(Operation)
    /\ active \in Operation \cup {Nobody}
    /\ phase \in Phase
    /\ receipts \subseteq Operation
    /\ admitted \subseteq Operation
    /\ refused \subseteq Operation
    /\ stopped \subseteq Operation
    /\ landed \subseteq Operation
    /\ restarts \in Nat

\* An import whose cancellation reached this worker first is never admitted by
\* it, whatever the fence had to forget in between.
CancelledStayOut == refused \cap admitted = {}

\* A worker admits an operation once: neither the eviction of its receipt nor
\* its expiry opens the registry to the same ID again.
AdmitsNew ==
    \A o \in Operation : entry[o] = "absent" /\ entry'[o] = "queued" => o \notin admitted
NoReadmission == [][AdmitsNew]_vars

\* What waits or runs keeps its registry entry: cancellation can always find it,
\* and no admission, pruning or eviction takes it away.
OwnedStayRegistered ==
    /\ \A i \in 1 .. Len(queue) : entry[queue[i]] = "queued"
    /\ phase # "idle" => active \in Operation
    /\ phase = "opening" => entry[active] = "queued"
    /\ phase \in {"importing", "finalizing", "committed"} => entry[active] = "running"

\* A cancellation that arrives before finalization prevents publication.
StoppedStayUnpublished == stopped \cap landed = {}

\* A terminal answer of the registry is true: published means committed, and an
\* operation answered as cancelled, failed or not published is not committed.
AnswersTruthful ==
    \A o \in Operation :
        /\ entry[o] = "published" => o \in landed
        /\ entry[o] \in {"unpublished", "cancelled", "failed"} => o \notin landed

\* An operation whose publication is still on record is not imported again, not
\* even by the next worker.
CommitsNew == phase = "finalizing" /\ phase' = "committed" => active \notin receipts
PublishedOnce == [][CommitsNew]_vars

\* The registry and the fence keep to their bounds.
WithinCaps ==
    /\ Cardinality({o \in Operation : entry[o] # "absent"}) <= RegistryCap
    /\ Cardinality(fence) <= FenceCap

-------------------------------------------------------------------------------
(* The inductive invariant *)

\* No later admission can take this ID.
Barred(o) == IssuedAt[o] <= retired \/ ~Live(o)

\* The queue holds each import once, and never the one that runs.
QueueShape ==
    /\ \A i, j \in 1 .. Len(queue) : queue[i] = queue[j] => i = j
    /\ \A i \in 1 .. Len(queue) : queue[i] # active /\ entry[queue[i]] = "queued"

\* The registry shows how far the running import is.
RunShape ==
    /\ active \in Operation <=> phase # "idle"
    /\ phase = "opening" => entry[active] = "queued"
    /\ phase \in {"importing", "finalizing", "committed"} => entry[active] = "running"

\* What the registry or the fence has forgotten, age or the horizon bars.
BarredShape ==
    /\ \A o \in Operation :
          entry[o] # "absent" => o \in admitted /\ IssuedAt[o] <= updatedAt[o]
    /\ \A o \in admitted : entry[o] # "absent" \/ Barred(o)
    /\ \A o \in refused : o \in fence \/ Barred(o)
    /\ refused \cap admitted = {}

\* Who has published, and whose cancellation counted.
PublicationShape ==
    /\ landed \subseteq admitted
    /\ stopped \subseteq aborted \cap admitted
    /\ stopped \cap landed = {}
    /\ \A o \in Operation : entry[o] = "queued" => o \notin landed
    /\ \A o \in Operation : entry[o] = "running" => o = active
    /\ phase \in {"importing", "finalizing"} => active \notin landed \cup receipts
    /\ phase = "finalizing" => active \notin stopped
    /\ phase = "committed" => active \in landed
    /\ AnswersTruthful

\* What the worker remembers is enough to keep its promises.
OperationsInv ==
    TypeOK /\ QueueShape /\ RunShape /\ BarredShape /\ PublicationShape

\* The registry is sound: it remembers what later answers need, it never loses an
\* operation that waits or runs, and neither it nor the fence outgrows its bound.
RegistrySound == OperationsInv /\ OwnedStayRegistered /\ WithinCaps

-------------------------------------------------------------------------------
(* Liveness *)

\* Every admitted operation is settled, unless the worker dies.
OperationsSettle == \A o \in Operation : entry[o] = "queued" ~> ~Owned(entry[o])
=============================================================================
