----------------------------- MODULE IndexRepair -----------------------------
(***************************************************************************)
(* The lookup indexes of the term record store: loading them on demand,       *)
(* repairing them in the background, and the storage mutations (import        *)
(* sessions, deletions, rollbacks) that both must give way to.  Every load and *)
(* repair remembers the lookup generation it began with and publishes nothing  *)
(* once that is over; a mutation cancels the repairs and waits for them.       *)
(***************************************************************************)
EXTENDS Naturals, Sequences, FiniteSets

CONSTANTS
    Dict,         \* dictionaries, by the name of their storage
    Call,         \* calls of ensureDictionariesLoaded
    Of,           \* the dictionary each of them is about
    Background,   \* those with repairMode 'background'
    Delete,       \* dictionaries somebody deletes
    Found,        \* what the containers of each dictionary may be found to be
    Warm,         \* those whose index is loaded already, if their container is good
    Nobody,
    MaxFaults     \* bound: failures of the file system, and record IDs that clash

ASSUME CallAssumption == Of \in [Call -> Dict] /\ Background \subseteq Call /\ Call \cap Dict = {}
ASSUME FoundAssumption == Found \in [Dict -> SUBSET {"none", "good", "stale", "damaged"}]
ASSUME NobodyAssumption == Nobody \notin Call \cup Dict
ASSUME BoundAssumption == Delete \subseteq Dict /\ Warm \subseteq Dict /\ MaxFaults \in Nat

VARIABLES
    disk,         \* the container of a dictionary: none, partial, good, stale or damaged
    shard,        \* _shardStateByFileName: which incarnation of it is in use, 0 for none
    shards,       \* how many incarnations there have been
    directory,    \* whether there is a _recordsDirectoryHandle
    deleting,     \* _pendingDictionaryDeletionNames
    importing,    \* _importSessionActive
    session,      \* _importSessionDictionaryNames
    created,      \* dictionaries which the import session has created
    epoch,        \* _persistentLookupGeneration
    gen,          \* _persistentLookupGenerationByDictionary
    served,       \* the incarnation whose loaded index answers lookups, 0 for none
    failure,      \* _persistentIndexFailureByDictionary: none, transient or lasting
    health,       \* _dictionaryHealthByName
    backoff,      \* dictionaries whose next repair has to wait
    queue,        \* storage mutations, in the order of _storageMutationTail
    asked,        \* mutations that were ever requested
    stage,        \* how far the first of them is
    repair,       \* how far the repair of a dictionary is
    tail,         \* _persistentIndexRepairTail, as the repairs in their order
    cancelled,    \* repairs whose control is cancelled
    begun,        \* the generation a repair was begun with
    reload,       \* repairs that load the index afterwards
    registered,   \* whose load is in _persistentIndexLoadPromiseByDictionary
    load,         \* the load of a call, or of the repair of a dictionary
    phase,        \* how far a call is
    seen,         \* the generation a call relies on
    clashed,      \* history: dictionaries whose record IDs were found to clash
    faults

files == <<disk, shard, shards, directory, created>>
owners == <<deleting, importing, session>>
lookup == <<epoch, gen, served, failure, registered>>
status == <<health, backoff>>
turns == <<queue, asked, stage>>
repairs == <<repair, tail, cancelled, begun, reload>>
calls == <<phase, seen>>
vars == <<files, owners, lookup, status, turns, repairs, calls, load, clashed, faults>>

Begin == <<"begin", Nobody>>
Rollback == <<"rollback", Nobody>>
Mutation == {Begin, Rollback} \cup {<<"delete", d>> : d \in Delete}
Loader == Call \cup Dict
On(l) == IF l \in Dict THEN l ELSE Of[l]

NoLoad == [at |-> "none", stamp |-> <<0, 0>>, from |-> 0, saw |-> "none", owner |-> Nobody]

Init ==
    /\ disk \in [Dict -> {"none", "good", "stale", "damaged"}] /\ \A d \in Dict : disk[d] \in Found[d]
    /\ shard = [d \in Dict |-> IF disk[d] = "none" THEN 0 ELSE 1] /\ shards = 1 /\ directory = TRUE
    /\ deleting = {} /\ importing = FALSE /\ session = {} /\ created = {}
    /\ epoch = 0 /\ gen = [d \in Dict |-> 0] /\ backoff = {}
    /\ served = [d \in Dict |-> IF d \in Warm /\ disk[d] = "good" THEN 1 ELSE 0]
    /\ failure = [d \in Dict |-> "none"] /\ health = [d \in Dict |-> "available"]
    /\ queue = <<>> /\ asked = {} /\ stage = "none"
    /\ repair = [d \in Dict |-> "none"] /\ tail = <<>> /\ cancelled = {}
    /\ begun = [d \in Dict |-> <<0, 0>>] /\ reload = {}
    /\ registered = [d \in Dict |-> Nobody] /\ load = [l \in Loader |-> NoLoad]
    /\ phase = [c \in Call |-> "none"] /\ seen = [c \in Call |-> <<0, 0>>]
    /\ clashed = {} /\ faults = 0

\* Whatever awaited a load or a repair that has ended resumes before the next event.
Resuming ==
    {c \in Call : \/ phase[c] \in {"resumed", "repaired", "unrepaired"}
                 \/ (phase[c] \in {"loading", "reloading"} /\ load[c].at \in {"yes", "no"})}
    \cup {d \in Dict : repair[d] = "rebuilt" \/ (repair[d] = "loading" /\ load[d].at \in {"yes", "no"})}

Quiet == Resuming = {}

Fault == faults < MaxFaults /\ faults' = faults + 1

\* _storageMutationActive
Mutating == stage # "none"

-------------------------------------------------------------------------------
(* Generations *)

Now(d) == <<epoch, gen[d]>>
After(stamp) == <<stamp[1], stamp[2] + 1>>

\* Mutant: a dictionary that is condemned meanwhile still counts as current.
MutCurrent(d, stamp) == stamp = Now(d)

\* _isPersistentLookupGenerationCurrent
Current(d, stamp) == stamp = Now(d) /\ health[d] # "reimportRequired"

\* _invalidatePersistentLookupState, for every dictionary of D.
Invalidate(D) ==
    /\ gen' = [d \in Dict |-> IF d \in D THEN gen[d] + 1 ELSE gen[d]]
    /\ served' = [d \in Dict |-> IF d \in D THEN 0 ELSE served[d]]
    /\ failure' = [d \in Dict |-> IF d \in D THEN "none" ELSE failure[d]]
    /\ registered' = [d \in Dict |-> IF d \in D THEN Nobody ELSE registered[d]]
    /\ UNCHANGED epoch

\* _invalidateAllPersistentLookupState
InvalidateAll ==
    /\ epoch' = epoch + 1 /\ gen' = [d \in Dict |-> 0] /\ served' = [d \in Dict |-> 0]
    /\ failure' = [d \in Dict |-> "none"] /\ registered' = [d \in Dict |-> Nobody]
    /\ backoff' = {}

\* _setDictionaryHealth
Becomes(d, h) ==
    /\ health' = [health EXCEPT ![d] = h]
    /\ backoff' = IF h = "available" THEN backoff \ {d} ELSE backoff

-------------------------------------------------------------------------------
(* _tryLoadPersistentDictionaryIndex *)

\* Loader l begins; health' and backoff' are left to whoever calls it.
Start(l, d) ==
    load' = [load EXCEPT ![l] =
        IF health[d] = "reimportRequired" \/ (served[d] = 0 /\ registered[d] = Nobody /\ (~directory \/ shard[d] = 0))
        THEN [NoLoad EXCEPT !.at = "no"]
        ELSE IF served[d] # 0 THEN [NoLoad EXCEPT !.at = "yes"]
        ELSE [at |-> IF registered[d] = Nobody THEN "open" ELSE "joined", stamp |-> Now(d),
              from |-> shard[d], saw |-> "none", owner |-> registered[d]]]

\* What it records at once.
Started(l, d) ==
    /\ Start(l, d)
    /\ LET at == load'[l].at IN
         /\ registered' = IF at = "open" THEN [registered EXCEPT ![d] = l] ELSE registered
         /\ failure' = IF at = "no" /\ health[d] # "reimportRequired"
                       THEN [failure EXCEPT ![d] = IF directory THEN "lasting" ELSE "transient"] ELSE failure
         /\ IF at = "yes" THEN Becomes(d, "available") ELSE UNCHANGED status

\* Mutant: those who joined the load are never told.
MutEnded(l, at) == load' = [load EXCEPT ![l] = [NoLoad EXCEPT !.at = at]]

\* The load of l ends, also for those who joined it.
Ended(l, at) ==
    load' = [k \in Loader |->
                IF k = l \/ (load[k].at = "joined" /\ load[k].owner = l)
                THEN [NoLoad EXCEPT !.at = at] ELSE load[k]]

\* The container is opened and read.
Read(l) ==
    /\ Quiet /\ load[l].at = "open"
    /\ load' = [load EXCEPT ![l].at = "read", ![l].saw = disk[On(l)]]
    /\ UNCHANGED <<files, owners, lookup, status, turns, repairs, calls, clashed, faults>>

Unregistered(l, d) == [registered EXCEPT ![d] = IF @ = l THEN Nobody ELSE @]

\* Mutant: a load publishes what it has read whatever has happened since.
MutPublishable(l, d) == TRUE

\* What was read may be published.
Publishable(l, d) == Current(d, load[l].stamp)

\* Its state may still be the one it began with.
Same(l, d) == ~importing /\ shard[d] = load[l].from

Finish(l) ==
    LET d == On(l) IN
    /\ Quiet /\ load[l].at = "read"
    /\ \/ \* superseded
          /\ ~Publishable(l, d) /\ Ended(l, "no") /\ registered' = Unregistered(l, d)
          /\ UNCHANGED <<epoch, gen, served, failure, status, clashed, faults>>
       \/ \* the container is missing or invalid
          /\ Publishable(l, d) /\ load[l].saw # "good" /\ Ended(l, "no") /\ registered' = Unregistered(l, d)
          /\ failure' = [failure EXCEPT ![d] = "lasting"]
          /\ UNCHANGED <<epoch, gen, served, status, clashed, faults>>
       \/ \* it cannot be read
          /\ Publishable(l, d) /\ (Fault \/ (load[l].saw = "good" /\ ~Same(l, d) /\ UNCHANGED faults))
          /\ Ended(l, "no") /\ registered' = Unregistered(l, d)
          /\ failure' = [failure EXCEPT ![d] = "transient"]
          /\ UNCHANGED <<epoch, gen, served, status, clashed>>
       \/ \* _validatePersistentRecordIdOwnership: its IDs overlap those of another one
          /\ Publishable(l, d) /\ load[l].saw = "good" /\ Same(l, d) /\ Fault
          /\ \E e \in Dict \ {d} :
               /\ served[e] # 0 /\ Invalidate({d, e}) /\ clashed' = clashed \cup {d, e}
               /\ health' = [health EXCEPT ![d] = "reimportRequired", ![e] = "reimportRequired"]
               /\ backoff' = backoff \ {d, e}
          /\ Ended(l, "no")
       \/ /\ Publishable(l, d) /\ load[l].saw = "good" /\ Same(l, d)
          /\ Ended(l, "yes") /\ registered' = Unregistered(l, d)
          /\ served' = [served EXCEPT ![d] = load[l].from] /\ failure' = [failure EXCEPT ![d] = "none"]
          /\ Becomes(d, "available") /\ UNCHANGED <<epoch, gen, clashed, faults>>
    /\ UNCHANGED <<files, owners, turns, repairs, calls>>

-------------------------------------------------------------------------------
(* _tryRepairPersistentDictionaryIndex *)

\* isOwned
Owned(d) == d \notin cancelled /\ ~importing /\ d \notin deleting /\ ~Mutating

\* No repair is begun, and none is joined.
Barred(d) == d \in deleting \/ health[d] = "reimportRequired" \/ importing \/ Mutating

\* A repair of d begins, and may load the index afterwards.
Enqueue(d, loads) ==
    /\ repair' = [repair EXCEPT ![d] = "queued"] /\ tail' = Append(tail, d)
    /\ begun' = [begun EXCEPT ![d] = Now(d)] /\ UNCHANGED cancelled
    /\ reload' = IF loads THEN reload \cup {d} ELSE reload \ {d}

\* Its promise settles; h is what it has made of the health, stamp the generation it
\* has published.
Settles(d, ok, stamp, h) ==
    /\ repair' = [repair EXCEPT ![d] = "none"] /\ tail' = Tail(tail) /\ cancelled' = cancelled \ {d}
    /\ health' = IF d \in cancelled /\ stamp = Now(d) /\ h # "reimportRequired"
                 THEN [health EXCEPT ![d] = "repairPending"] ELSE [health EXCEPT ![d] = h]
    /\ phase' = [c \in Call |->
                    IF Of[c] # d THEN phase[c]
                    ELSE IF phase[c] = "awaiting" THEN "resumed"
                    ELSE IF phase[c] = "repairing" THEN (IF ok THEN "repaired" ELSE "unrepaired") ELSE phase[c]]
    /\ UNCHANGED <<begun, reload, seen>>

\* It gives way to what has happened since.
Superseded(d) ==
    /\ Quiet /\ repair[d] \in {"queued", "reading", "writing", "closed"} /\ Head(tail) = d
    /\ ~(Owned(d) /\ Current(d, begun[d]))
    /\ Settles(d, FALSE, begun[d], health[d])
    /\ UNCHANGED <<files, owners, lookup, backoff, turns, load, clashed, faults>>

Proceeds(d, from) == repair[d] = from /\ Head(tail) = d /\ Owned(d) /\ Current(d, begun[d])

\* _repairPersistentDictionaryIndex
RepairBegins(d) ==
    /\ Quiet /\ Proceeds(d, "queued")
    /\ IF shard[d] = 0 THEN Settles(d, FALSE, begun[d], "reimportRequired")
       ELSE /\ repair' = [repair EXCEPT ![d] = "reading"] /\ health' = [health EXCEPT ![d] = "repairing"]
            /\ UNCHANGED <<tail, cancelled, begun, reload, calls>>
    /\ UNCHANGED <<files, owners, lookup, backoff, turns, load, clashed, faults>>

\* _rebuildLookupIndexForShard, up to what is to be written.
RepairReads(d) ==
    /\ Quiet /\ Proceeds(d, "reading")
    /\ \/ /\ disk[d] \in {"good", "stale"} /\ repair' = [repair EXCEPT ![d] = "writing"]
          /\ UNCHANGED <<lookup, status, tail, cancelled, begun, reload, calls>>
       \/ \* TermRecordIntegrityError
          /\ disk[d] \notin {"good", "stale"} /\ Invalidate({d}) /\ backoff' = backoff \ {d}
          /\ Settles(d, FALSE, begun[d], "reimportRequired")
    /\ UNCHANGED <<files, owners, turns, load, clashed, faults>>

\* The browser storage fails.
RepairFails(d) ==
    /\ Quiet /\ (Proceeds(d, "reading") \/ Proceeds(d, "writing")) /\ Fault
    /\ backoff' = backoff \cup {d} /\ Settles(d, FALSE, begun[d], "temporarilyUnavailable")
    /\ UNCHANGED <<files, owners, lookup, turns, load, clashed>>

\* The container is closed, which replaces the old one.
RepairCloses(d) ==
    /\ Quiet /\ Proceeds(d, "writing") /\ repair' = [repair EXCEPT ![d] = "closing"]
    /\ UNCHANGED <<files, owners, lookup, status, turns, tail, cancelled, begun, reload, calls, load, clashed, faults>>

RepairClosed(d) ==
    /\ Quiet /\ repair[d] = "closing"
    /\ disk' = [disk EXCEPT ![d] = "good"] /\ repair' = [repair EXCEPT ![d] = "closed"]
    /\ UNCHANGED <<shard, shards, directory, created, owners, lookup, status, turns, tail, cancelled, begun,
                   reload, calls, load, clashed, faults>>

\* The index has been rebuilt; what was loaded of the old one is given up.
Repaired(d) ==
    /\ Quiet /\ Proceeds(d, "closed") /\ Invalidate({d})
    /\ IF d \in reload
       THEN repair' = [repair EXCEPT ![d] = "rebuilt"] /\ UNCHANGED <<tail, cancelled, begun, reload, calls, health>>
       ELSE Settles(d, TRUE, After(begun[d]), health[d])
    /\ UNCHANGED <<files, owners, backoff, turns, load, clashed, faults>>

\* loadAfterRepair
RepairLoads(d) ==
    /\ repair[d] = "rebuilt"
    /\ IF Owned(d) /\ Current(d, After(begun[d]))
       THEN /\ Started(d, d) /\ repair' = [repair EXCEPT ![d] = "loading"]
            /\ UNCHANGED <<epoch, gen, served, tail, cancelled, begun, reload, calls>>
       ELSE Settles(d, FALSE, After(begun[d]), health[d]) /\ UNCHANGED <<lookup, backoff, load>>
    /\ UNCHANGED <<files, owners, turns, clashed, faults>>

RepairLoaded(d) ==
    /\ repair[d] = "loading" /\ load[d].at \in {"yes", "no"}
    /\ load' = [load EXCEPT ![d] = NoLoad]
    /\ LET owned == Owned(d) /\ Current(d, After(begun[d])) IN
         IF load[d].at = "no" /\ owned
         THEN /\ Settles(d, FALSE, After(begun[d]), "temporarilyUnavailable") /\ backoff' = backoff \cup {d}
         ELSE Settles(d, load[d].at = "yes" /\ owned, After(begun[d]), health[d]) /\ UNCHANGED backoff
    /\ UNCHANGED <<files, owners, lookup, turns, clashed, faults>>

\* The time to try again has come.
RetryDue(d) ==
    /\ Quiet /\ d \in backoff /\ backoff' = backoff \ {d}
    /\ UNCHANGED <<files, owners, lookup, health, turns, repairs, calls, load, clashed, faults>>

-------------------------------------------------------------------------------
(* ensureDictionariesLoaded, for one dictionary *)

Moves(c, p) == phase' = [phase EXCEPT ![c] = p]

\* The call begins; the generation is that of the whole store so far.
Begins(c) ==
    LET d == Of[c] IN
    /\ Quiet /\ phase[c] = "none" /\ seen' = [seen EXCEPT ![c] = <<epoch, 0>>]
    /\ IF ~directory
       THEN /\ Moves(c, "done")
            /\ IF d \in deleting \/ health[d] = "reimportRequired" THEN UNCHANGED status
               ELSE Becomes(d, "temporarilyUnavailable")
       ELSE /\ Moves(c, IF repair[d] = "none" THEN "resumed" ELSE IF c \in Background THEN "done" ELSE "awaiting")
            /\ UNCHANGED status
    /\ UNCHANGED <<files, owners, lookup, turns, repairs, load, clashed, faults>>

\* Nothing to do, or not now.
Skipped(c) ==
    LET d == Of[c] IN
    \/ d \in deleting \/ health[d] = "reimportRequired" \/ (c \in Background /\ d \in backoff)
    \/ (health[d] = "available" /\ served[d] # 0) \/ seen[c][1] # epoch

Loads(c) ==
    /\ phase[c] = "resumed"
    /\ IF Skipped(c) THEN Moves(c, "done") /\ UNCHANGED <<seen, load, lookup, status>>
       ELSE /\ Moves(c, "loading") /\ seen' = [seen EXCEPT ![c] = Now(Of[c])]
            /\ Started(c, Of[c]) /\ UNCHANGED <<epoch, gen, served>>
    /\ UNCHANGED <<files, owners, turns, repairs, clashed, faults>>

\* The load has ended: what failed for good is to be repaired.
Loaded(c) ==
    LET d == Of[c] IN
    /\ phase[c] = "loading" /\ load[c].at \in {"yes", "no"} /\ load' = [load EXCEPT ![c] = NoLoad]
    /\ \/ /\ load[c].at = "yes" \/ ~Current(d, seen[c])
          /\ Moves(c, "done") /\ UNCHANGED <<status, repairs>>
       \/ /\ load[c].at = "no" /\ Current(d, seen[c])
          /\ failure[d] = "transient" \/ (c \notin Background /\ (Barred(d) \/ (repair[d] = "none" /\ d \in backoff)))
          /\ Moves(c, "done") /\ Becomes(d, "temporarilyUnavailable") /\ UNCHANGED repairs
       \/ /\ load[c].at = "no" /\ Current(d, seen[c]) /\ failure[d] # "transient"
          /\ c \in Background \/ ~(Barred(d) \/ (repair[d] = "none" /\ d \in backoff))
          /\ Moves(c, IF c \in Background THEN "done" ELSE "repairing") /\ Becomes(d, "repairPending")
          /\ IF Barred(d) \/ repair[d] # "none" \/ d \in backoff THEN UNCHANGED repairs
             ELSE Enqueue(d, c \in Background)
    /\ UNCHANGED <<files, owners, lookup, seen, turns, clashed, faults>>

\* The repair has ended, and so may the call.
RepairSeen(c) ==
    LET d == Of[c] IN
    /\ phase[c] \in {"repaired", "unrepaired"}
    /\ IF phase[c] = "repaired" /\ Current(d, After(seen[c]))
       THEN /\ Moves(c, "reloading") /\ seen' = [seen EXCEPT ![c] = After(@)]
            /\ Started(c, d) /\ UNCHANGED <<epoch, gen, served>>
       ELSE /\ Moves(c, "done") /\ UNCHANGED <<seen, lookup, load>>
            /\ IF phase[c] = "unrepaired" /\ Current(d, seen[c]) THEN Becomes(d, "temporarilyUnavailable") ELSE UNCHANGED status
    /\ UNCHANGED <<files, owners, turns, repairs, clashed, faults>>

Reloaded(c) ==
    LET d == Of[c] IN
    /\ phase[c] = "reloading" /\ load[c].at \in {"yes", "no"} /\ load' = [load EXCEPT ![c] = NoLoad]
    /\ Moves(c, "done")
    /\ IF load[c].at = "no" /\ Current(d, seen[c]) THEN Becomes(d, "temporarilyUnavailable") ELSE UNCHANGED status
    /\ UNCHANGED <<files, owners, lookup, seen, turns, repairs, clashed, faults>>

-------------------------------------------------------------------------------
(* _runExclusiveStorageMutation *)

\* An import is begun once, and rolled back only once begun.
Ask(m) ==
    /\ Quiet /\ m \notin asked /\ (m = Rollback => created # {} \/ importing)
    /\ queue' = Append(queue, m) /\ asked' = asked \cup {m}
    /\ UNCHANGED <<files, owners, lookup, status, stage, repairs, calls, load, clashed, faults>>

\* The turn of the first mutation comes: every repair is cancelled.
Turn ==
    /\ Quiet /\ stage = "none" /\ queue # <<>> /\ stage' = "draining"
    /\ cancelled' = {d \in Dict : repair[d] # "none"}
    /\ UNCHANGED <<files, owners, lookup, status, queue, asked, repair, tail, begun, reload, calls, load, clashed, faults>>

Over == stage' = "none" /\ queue' = Tail(queue) /\ UNCHANGED asked

\* _awaitPersistentIndexRepairs
Drained == \A d \in Dict : repair[d] = "none"

\* The mutation runs: an import session begins, a deletion is refused, has nothing to
\* delete or begins, or the writes of an import are given up.
Runs ==
    /\ Quiet /\ stage = "draining" /\ Drained
    /\ LET m == Head(queue) IN
         \/ /\ m[1] = "delete" /\ importing /\ Over
            /\ UNCHANGED <<deleting, importing, session, lookup, status>>
         \/ /\ m[1] = "delete" /\ ~importing /\ Invalidate({m[2]}) /\ Becomes(m[2], "available")
            /\ IF directory
               THEN stage' = "deleting" /\ deleting' = deleting \cup {m[2]} /\ UNCHANGED <<queue, asked>>
               ELSE Over /\ UNCHANGED deleting
            /\ UNCHANGED <<importing, session>>
         \/ /\ m = Begin /\ importing' = TRUE /\ session' = {} /\ Over
            /\ UNCHANGED <<deleting, lookup, status>>
         \/ /\ m = Rollback /\ importing' = FALSE /\ session' = {} /\ stage' = "restoring"
            /\ UNCHANGED <<queue, asked, deleting, lookup, status>>
    /\ UNCHANGED <<files, repairs, calls, load, clashed, faults>>

\* _deleteShardByDictionary ends; the name stays retired if a file remains.
Deleted ==
    LET d == Head(queue)[2] IN
    /\ Quiet /\ stage = "deleting" /\ Over /\ Invalidate({d}) /\ shard' = [shard EXCEPT ![d] = 0]
    /\ \/ disk' = [disk EXCEPT ![d] = "none"] /\ deleting' = deleting \ {d} /\ UNCHANGED faults
       \/ Fault /\ disk' \in {disk, [disk EXCEPT ![d] = "none"]} /\ UNCHANGED deleting
    /\ UNCHANGED <<shards, directory, created, importing, session, status, repairs, calls, load, clashed>>

\* _abandonImportWritesForRollback: the writers have settled, and what was loaded is
\* given up; nobody's health is.
Abandons ==
    /\ Quiet /\ stage = "restoring" /\ stage' = "checking" /\ InvalidateAll
    /\ UNCHANGED <<files, owners, health, queue, asked, repairs, calls, load, clashed, faults>>

\* The files which the checkpoint counts on are gone: nothing is removed.
Unrestored ==
    /\ Quiet /\ stage = "checking" /\ Fault /\ Over
    /\ UNCHANGED <<files, owners, lookup, status, repairs, calls, load, clashed>>

\* What the import created is removed, one container after the other ...
Removes(d) ==
    /\ Quiet /\ stage \in {"checking", "removing"} /\ stage' = "removing"
    /\ d \in created /\ disk[d] # "none" /\ disk' = [disk EXCEPT ![d] = "none"]
    /\ UNCHANGED <<shard, shards, directory, created, owners, lookup, status, queue, asked, repairs, calls, load,
                   clashed, faults>>

\* ... or as much of it as can be; then _prepare forgets what the store knew.
Forgets ==
    /\ Quiet /\ stage \in {"checking", "removing"} /\ stage' = "preparing"
    /\ IF \A d \in created : disk[d] = "none" THEN UNCHANGED faults ELSE Fault
    /\ directory' = FALSE /\ shard' = [d \in Dict |-> 0] /\ created' = {}
    /\ InvalidateAll /\ health' = [d \in Dict |-> "available"] /\ clashed' = {}
    /\ UNCHANGED <<disk, shards, owners, queue, asked, repairs, calls, load>>

\* The directory is there again, and then its files; or the preparation fails.
Prepares ==
    /\ Quiet /\ stage = "preparing"
    /\ \/ ~directory /\ directory' = TRUE /\ UNCHANGED <<shard, shards, turns, faults>>
       \/ /\ directory /\ shards' = shards + 1 /\ Over /\ UNCHANGED <<directory, faults>>
          /\ shard' = [d \in Dict |-> IF disk[d] = "none" \/ d \in deleting THEN 0 ELSE shards + 1]
       \/ Fault /\ Over /\ UNCHANGED <<shard, shards, directory>>
    /\ UNCHANGED <<disk, created, owners, lookup, status, repairs, calls, load, clashed>>

-------------------------------------------------------------------------------
(* The import session *)

\* _getOrCreateShardState: a new container, unless there is one or it is retired.
Appends(d) ==
    /\ Quiet /\ importing /\ d \notin session /\ session' = session \cup {d} /\ Invalidate({d})
    /\ backoff' = backoff \ {d}
    /\ IF shard[d] # 0 \/ d \in deleting THEN UNCHANGED <<disk, shard, shards, created>>
       ELSE /\ shards' = shards + 1 /\ shard' = [shard EXCEPT ![d] = shards + 1]
            /\ disk' = [disk EXCEPT ![d] = "partial"] /\ created' = created \cup {d}
    /\ UNCHANGED <<directory, deleting, importing, health, turns, repairs, calls, load, clashed, faults>>

\* endImportSession: the containers are closed ...
Closes ==
    /\ Quiet /\ importing /\ Rollback \notin asked /\ \E d \in created : disk[d] = "partial"
    /\ disk' = [d \in Dict |-> IF d \in created THEN "good" ELSE disk[d]]
    /\ UNCHANGED <<shard, shards, directory, created, owners, lookup, status, turns, repairs, calls, load, clashed, faults>>

\* ... and the session is over.
EndsSession ==
    /\ Quiet /\ importing /\ Rollback \notin asked /\ \A d \in created : disk[d] = "good"
    /\ importing' = FALSE /\ session' = {}
    /\ health' = [d \in Dict |-> IF d \in session THEN "available" ELSE health[d]]
    /\ backoff' = backoff \ session
    /\ UNCHANGED <<files, deleting, lookup, turns, repairs, calls, load, clashed, faults>>

-------------------------------------------------------------------------------

Continuation ==
    \/ \E c \in Call : Loads(c) \/ Loaded(c) \/ RepairSeen(c) \/ Reloaded(c)
    \/ \E d \in Dict : RepairLoads(d) \/ RepairLoaded(d)

\* Nothing is under way: only here may the store stop, and TLC reports every other state
\* without a step as a deadlock.
Idle == queue = <<>> /\ tail = <<>> /\ \A c \in Call : phase[c] \in {"none", "done"}

Rests == Quiet /\ Idle /\ ~importing /\ UNCHANGED vars

RepairStep(d) ==
    \/ Superseded(d) \/ RepairBegins(d) \/ RepairReads(d) \/ RepairFails(d) \/ RepairCloses(d) \/ RepairClosed(d)
    \/ Repaired(d)

Mutates == Turn \/ Runs \/ Deleted \/ Abandons \/ Unrestored \/ (\E d \in Dict : Removes(d)) \/ Forgets \/ Prepares

Imports == Closes \/ EndsSession \/ \E d \in Dict : Appends(d)

Event ==
    \/ \E c \in Call : Begins(c)
    \/ \E l \in Loader : Read(l) \/ Finish(l)
    \/ \E d \in Dict : RepairStep(d) \/ RetryDue(d)
    \/ \E m \in Mutation : Ask(m)
    \/ Mutates \/ Imports \/ Rests

Next == Continuation \/ Event

Spec == Init /\ [][Next]_vars

FairSpec ==
    /\ Spec /\ WF_vars(Continuation) /\ WF_vars(Mutates)
    /\ WF_vars(\E d \in Dict : RepairStep(d)) /\ WF_vars(\E l \in Loader : Read(l) \/ Finish(l))

-------------------------------------------------------------------------------
(* Properties *)

Stamp == Nat \X Nat

Health == {"available", "repairPending", "repairing", "temporarilyUnavailable", "reimportRequired"}

StoreType ==
    /\ disk \in [Dict -> {"none", "partial", "good", "stale", "damaged"}]
    /\ shard \in [Dict -> Nat] /\ shards \in Nat /\ directory \in BOOLEAN /\ importing \in BOOLEAN
    /\ deleting \subseteq Dict /\ session \subseteq Dict /\ created \subseteq Dict /\ backoff \subseteq Dict
    /\ epoch \in Nat /\ gen \in [Dict -> Nat] /\ served \in [Dict -> Nat]
    /\ failure \in [Dict -> {"none", "transient", "lasting"}]
    /\ health \in [Dict -> Health]
    /\ clashed \subseteq Dict /\ faults \in Nat

TurnType ==
    /\ queue \in Seq(Mutation) /\ asked \subseteq Mutation
    /\ stage \in {"none", "draining", "deleting", "restoring", "checking", "removing", "preparing"}

RepairType ==
    /\ repair \in [Dict -> {"none", "queued", "reading", "writing", "closing", "closed", "rebuilt", "loading"}]
    /\ tail \in Seq(Dict) /\ cancelled \subseteq Dict /\ begun \in [Dict -> Stamp] /\ reload \subseteq Dict

LoadState ==
    [at : {"none", "open", "joined", "read", "yes", "no"}, stamp : Stamp, from : Nat,
     saw : {"none", "partial", "good", "stale", "damaged"}, owner : Loader \cup {Nobody}]

LoadType == registered \in [Dict -> Loader \cup {Nobody}] /\ load \in [Loader -> LoadState]

CallType ==
    /\ phase \in [Call -> {"none", "awaiting", "resumed", "loading", "repairing", "repaired", "unrepaired",
                           "reloading", "done"}]
    /\ seen \in [Call -> Stamp]

\* The variables hold values of the program's types.
TypeOK == StoreType /\ TurnType /\ RepairType /\ LoadType /\ CallType

\* A repair replaces no container while a mutation runs or an import session is under
\* way (_runExclusiveStorageMutation joins the repairs it has cancelled).
RepairsAlone ==
    (\E d \in Dict : repair[d] # "none") => ~importing /\ stage \in {"none", "draining"}

\* What a rollback leaves of d when it gives up the writes of an import, up to the next
\* time that _prepare forgets it or somebody invalidates it.
Abandoned(d) == stage = "restoring" \/ Now(d) = <<1, 0>>

\* A dictionary said to be under repair is: by a repair, by a call that is about to load
\* what was rebuilt, or by the import that writes it anew.
RepairsReal ==
    \A d \in Dict : health[d] = "repairing" /\ ~Abandoned(d) =>
        \/ repair[d] \in {"reading", "writing", "closing", "closed", "rebuilt", "loading"} \/ d \in session
        \/ \E c \in Call : Of[c] = d /\ phase[c] \in {"repaired", "reloading"}

\* Lookups are answered from the container that is in use, never from one that was
\* deleted, replaced or rolled back while it was being loaded.
ServedCurrent == \A d \in Dict : served[d] # 0 => served[d] = shard[d] /\ d \notin deleting /\ d \notin session

\* The container of d is one that an import session writes, or that a rollback was asked
\* to remove.
Provisional(d) == d \in created /\ (d \in session \/ Rollback \in asked)

\* A dictionary is condemned to be imported again only if the store has no container of
\* it, or that is missing, unfinished or damaged, or its record IDs clash with those of
\* another.
CondemnedForCause ==
    \A d \in Dict : health[d] = "reimportRequired" /\ ~Provisional(d) =>
        shard[d] = 0 \/ disk[d] \notin {"good", "stale"} \/ d \in clashed

\* And only a storage mutation lifts the sentence: no load or repair that was under way
\* makes it available again.
SentenceStands ==
    \A d \in Dict : health[d] = "reimportRequired" /\ health'[d] # "reimportRequired" =>
        stage # "none" \/ d \in session

Condemnation == []CondemnedForCause /\ [][SentenceStands]_vars

\* No repair, mutation and call wait for one another for good: whatever was requested,
\* the store comes to rest.
ComesToRest == []<>Idle

-------------------------------------------------------------------------------
(* The inductive invariant *)

Queued(m) == \E i \in DOMAIN queue : queue[i] = m

\* The steps of a repair up to the one that invalidates what was loaded, and all of them.
Rebuilding == {"reading", "writing", "closing", "closed"}
Repairing == Rebuilding \cup {"rebuilt", "loading"}

Condemned(d) == health[d] = "reimportRequired"

\* The stages of a rollback.
Restoring == {"restoring", "checking", "removing", "preparing"}

\* No mutation is asked for twice, and each stage belongs to the first of them.
QueueShape ==
    /\ \A i \in DOMAIN queue : queue[i] \in asked
    /\ \A i, j \in DOMAIN queue : queue[i] = queue[j] => i = j
    /\ stage # "none" => queue # <<>>
    /\ stage = "deleting" => \E d \in Delete : Head(queue) = <<"delete", d>> /\ health[d] # "repairing"
    /\ stage \in Restoring => Head(queue) = Rollback
    /\ epoch # 0 => Rollback \in asked /\ (stage \in Restoring \ {"restoring"} \/ ~Queued(Rollback))

\* What an import session and a rollback have of the store.
SessionShape ==
    /\ importing => stage \in {"none", "draining"} /\ created \subseteq session
    /\ importing \/ created # {} => Begin \in asked /\ ~Queued(Begin)
    /\ session # {} => importing
    /\ stage = "preparing" => \A d \in Dict : shard[d] = 0 /\ ~Condemned(d)

\* The order of the repairs, and the generation each of them works for.
RepairShape ==
    \A d \in Dict :
        /\ repair[d] # "none" =>
               /\ \E i \in DOMAIN tail : tail[i] = d
               /\ d \notin deleting
               /\ stage = "draining" => d \in cancelled
        /\ repair[d] \in Repairing => tail # <<>> /\ Head(tail) = d /\ (Condemned(d) => d \in clashed)
        /\ repair[d] \in Rebuilding \cup {"queued"} =>
               /\ begun[d] = Now(d) \/ Condemned(d)
               /\ d \in reload \/ \E c \in Call : Of[c] = d /\ phase[c] = "repairing" /\ seen[c] = begun[d]
        /\ repair[d] \in {"rebuilt", "loading"} => After(begun[d]) = Now(d) \/ Condemned(d)
        /\ repair[d] = "loading" /\ health[d] = "repairing" => load[d].at # "yes"

\* A load whose generation is not over is of the container in use.
LoadShape ==
    /\ \A d \in Dict : registered[d] # Nobody => On(registered[d]) = d
    /\ \A l \in Loader :
        LET d == On(l) IN
        /\ load[l].at = "joined" => load[l].owner \in Loader /\ On(load[l].owner) = d
        /\ load[l].at \in {"open", "read"} =>
               /\ load[l].stamp[1] <= epoch /\ (load[l].stamp[1] = epoch => load[l].stamp[2] <= gen[d])
               /\ load[l].stamp = Now(d) => load[l].from = shard[d] /\ shard[d] # 0 /\ d \notin deleting
    /\ \A c \in Call : phase[c] = "repaired" => Of[c] \notin deleting

\* Whoever takes a finished repair over relies on the generation that it published.
TakenOver(d) ==
    \E c \in Call :
        /\ Of[c] = d
        /\ \/ phase[c] = "repaired" /\ After(seen[c]) = Now(d)
           \/ phase[c] = "reloading" /\ seen[c] = Now(d) /\ load[c].at # "yes"

RepairsHeld ==
    \A d \in Dict : health[d] = "repairing" /\ ~Abandoned(d) =>
        repair[d] \in Repairing \/ d \in session \/ TakenOver(d)

StoreInv ==
    /\ TypeOK
    /\ RepairsAlone
    /\ ServedCurrent
    /\ QueueShape
    /\ SessionShape
    /\ RepairShape
    /\ LoadShape
    /\ RepairsHeld

\* A repair has the container for itself, is under way whenever it is announced, and
\* what it leaves behind serves lookups from the container in use; and what these rely
\* on holds: the order of the mutations and repairs, and the generations of the loads.
RepairInv == StoreInv /\ RepairsReal
=============================================================================
