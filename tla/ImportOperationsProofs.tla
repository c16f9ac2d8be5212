------------------------ MODULE ImportOperationsProofs ------------------------
(***************************************************************************)
(* The promises of the import-operation registry for any number of          *)
(* operations, any times of issue, any caps and any number of new workers.  *)
(* OperationsInv is inductive: each action has a lemma, one step per        *)
(* conjunct it can disturb.  The theorems at the end follow from it.        *)
(***************************************************************************)
EXTENDS ImportOperations, FiniteSetTheorems, TLAPS

-------------------------------------------------------------------------------
(* Pruning *)

\* Pruning forgets only settled operations, and only those too old to admit.
LEMMA PrunedEntryFacts ==
    ASSUME OperationsInv
    PROVE  /\ PrunedEntry \in [Operation -> State]
           /\ \A o \in Operation : PrunedEntry[o] \in {entry[o], "absent"}
           /\ \A o \in Operation : entry[o] \in {"queued", "running"} => PrunedEntry[o] = entry[o]
           /\ \A o \in Operation :
                 entry[o] # "absent" /\ PrunedEntry[o] = "absent" => ~Live(o)
<1>1. now \in Nat /\ Window \in Nat /\ IssuedAt \in [Operation -> Nat]
  BY OperationAssumption, CapAssumption DEF OperationsInv, TypeOK
<1>2. updatedAt \in [Operation -> Nat] /\ entry \in [Operation -> State]
  BY <1>1 DEF OperationsInv, TypeOK
<1>3. \A o \in Operation : entry[o] # "absent" => IssuedAt[o] <= updatedAt[o]
  BY DEF OperationsInv, BarredShape
<1> QED
  BY <1>1, <1>2, <1>3 DEF PrunedEntry, Settled, Live, State

\* The fence drops only what is too old to admit.
LEMMA PrunedFenceFacts ==
    ASSUME OperationsInv
    PROVE  PrunedFence \subseteq fence /\ \A o \in fence : o \in PrunedFence \/ ~Live(o)
BY DEF PrunedFence, OperationsInv, TypeOK

\* Of two times, the later one.
LEMMA LaterFacts ==
    ASSUME NEW s \in Nat, NEW t \in Nat
    PROVE  Later(s, t) \in {s, t} /\ s <= Later(s, t) /\ t <= Later(s, t)
BY DEF Later

\* Pruning leaves what waits and runs to the queue.
LEMMA PrunedRunShape ==
    ASSUME OperationsInv, entry' = PrunedEntry, UNCHANGED run
    PROVE  QueueShape' /\ RunShape'
<1> USE PrunedEntryFacts
<1>1. queue \in Seq(Operation) /\ active \in Operation \cup {Nobody}
  BY DEF OperationsInv, TypeOK
<1>2. QueueShape'
  BY <1>1 DEF OperationsInv, QueueShape, run
<1>3. RunShape'
  BY <1>1 DEF OperationsInv, RunShape, run
<1> QED
  BY <1>2, <1>3

\* Pruning changes no answer but to forget it.
LEMMA PrunedPublicationShape ==
    ASSUME OperationsInv, entry' = PrunedEntry,
           UNCHANGED <<run, receipts, admitted, aborted, stopped, landed>>
    PROVE  PublicationShape'
BY PrunedEntryFacts DEF OperationsInv, PublicationShape, AnswersTruthful, run

-------------------------------------------------------------------------------
(* Requests *)

\* What an admission does to the registry: the admitted ID waits, and nothing
\* that waited or ran is gone.
LEMMA EnqueueStep ==
    ASSUME OperationsInv, NEW o \in Operation, NEW kept \in [Operation -> State],
           Valid(o), NotBarred(o), Enqueue(o, kept),
           \A q \in Operation : kept[q] \in {entry[q], "absent"},
           \A q \in Operation : entry[q] \in {"queued", "running"} => kept[q] = entry[q],
           retired' \in 0 .. now, retired <= retired',
           \A q \in Operation :
              entry[q] # "absent" /\ kept[q] = "absent" => ~Live(q) \/ IssuedAt[q] <= retired',
           retired' < IssuedAt[o],
           UNCHANGED <<now, aborted, active, phase, receipts, refused, stopped, landed,
                       restarts>>
    PROVE  OperationsInv'
<1>1. now \in Nat /\ Window \in Nat /\ IssuedAt \in [Operation -> Nat] /\ retired \in Nat
  BY OperationAssumption, CapAssumption DEF OperationsInv, TypeOK
<1>2. entry' = [kept EXCEPT ![o] = "queued"] /\ updatedAt' = [updatedAt EXCEPT ![o] = now]
      /\ fence' = PrunedFence /\ queue' = Append(queue, o) /\ admitted' = admitted \cup {o}
  BY DEF Enqueue
<1>3. o \notin PrunedFence /\ Live(o) /\ IssuedAt[o] <= now /\ ~Barred(o)
  BY <1>1 DEF Valid, NotBarred, Barred, Live
<1>4. entry[o] = "absent" /\ o \notin admitted /\ o \notin refused
  <2>1. entry[o] = "absent"
    BY <1>3, PrunedEntryFacts DEF NotBarred
  <2>2. o \notin fence
    BY <1>3, PrunedFenceFacts
  <2> QED
    BY <1>3, <2>1, <2>2 DEF OperationsInv, BarredShape
<1>5. TypeOK'
  <2>1. entry' \in [Operation -> State]
    BY <1>2 DEF State
  <2>2. updatedAt' \in [Operation -> 0 .. now]
    BY <1>1, <1>2 DEF OperationsInv, TypeOK
  <2>3. queue' \in Seq(Operation)
    BY <1>2 DEF OperationsInv, TypeOK
  <2>4. fence' \subseteq {q \in Operation : IssuedAt[q] <= now}
    BY <1>2, PrunedFenceFacts DEF OperationsInv, TypeOK
  <2> QED
    BY <1>2, <2>1, <2>2, <2>3, <2>4 DEF OperationsInv, TypeOK
<1>6. QueueShape'
  <2>1. queue \in Seq(Operation)
    BY DEF OperationsInv, TypeOK
  <2>2. Len(queue') = Len(queue) + 1 /\ queue'[Len(queue) + 1] = o
        /\ \A i \in 1 .. Len(queue) : queue'[i] = queue[i] /\ queue[i] \in Operation
    BY <1>2, <2>1
  <2>3. \A i \in 1 .. Len(queue) : queue[i] # o
    BY <1>4, <2>2 DEF OperationsInv, QueueShape
  <2>4. o # active
    BY <1>4 DEF OperationsInv, RunShape, TypeOK, Phase
  <2>5. \A i \in 1 .. Len(queue) : entry'[queue[i]] = "queued"
    BY <1>2, <2>2, <2>3 DEF OperationsInv, QueueShape
  <2>6. entry'[o] = "queued"
    BY <1>2
  <2> QED
    BY <2>1, <2>2, <2>3, <2>4, <2>5, <2>6 DEF OperationsInv, QueueShape
<1>7. RunShape'
  BY <1>2, <1>4 DEF OperationsInv, RunShape, TypeOK, Phase
<1>8. BarredShape'
  <2>1. \A q \in Operation : Live(q)' <=> Live(q)
    BY DEF Live
  <2>2. \A q \in Operation : Barred(q) => Barred(q)'
    BY <1>1, <2>1 DEF Barred
  <2>3. \A q \in Operation : entry'[q] # "absent" => q \in admitted' /\ IssuedAt[q] <= updatedAt'[q]
    BY <1>1, <1>2, <1>3 DEF OperationsInv, BarredShape, TypeOK
  <2>4. \A q \in admitted' : entry'[q] # "absent" \/ Barred(q)'
    BY <1>2, <2>1, <2>2 DEF OperationsInv, BarredShape, TypeOK, Barred
  <2>5. \A q \in refused' : q \in fence' \/ Barred(q)'
    BY <1>2, <2>1, <2>2, PrunedFenceFacts DEF OperationsInv, BarredShape, TypeOK, Barred
  <2>6. refused' \cap admitted' = {}
    BY <1>2, <1>4 DEF OperationsInv, BarredShape
  <2> QED
    BY <2>3, <2>4, <2>5, <2>6 DEF BarredShape
<1>9. PublicationShape'
  BY <1>2, <1>4 DEF OperationsInv, PublicationShape, AnswersTruthful, TypeOK
<1> QED
  BY <1>5, <1>6, <1>7, <1>8, <1>9 DEF OperationsInv

\* A registry with room admits without forgetting anything but the too old.
LEMMA AdmitStep ==
    ASSUME NEW o \in Operation, OperationsInv, Admit(o)
    PROVE  OperationsInv'
<1>1. retired \in 0 .. now /\ retired < IssuedAt[o] /\ now \in Nat
  BY DEF Admit, NotBarred, OperationsInv, TypeOK
<1>2. Valid(o) /\ NotBarred(o) /\ Enqueue(o, PrunedEntry) /\ retired' = retired
      /\ UNCHANGED <<now, aborted, active, phase, receipts, refused, stopped, landed,
                     restarts>>
  BY DEF Admit
<1> QED
  BY <1>1, <1>2, PrunedEntryFacts, EnqueueStep

\* The evicted ID is behind the new horizon, the admitted one is not.
LEMMA AdmitEvictingStep ==
    ASSUME NEW o \in Operation, OperationsInv, AdmitEvicting(o)
    PROVE  OperationsInv'
<1>1. PICK old \in Evictable :
          /\ IssuedAt[old] < IssuedAt[o]
          /\ Enqueue(o, [PrunedEntry EXCEPT ![old] = "absent"])
          /\ retired' = Later(retired, IssuedAt[old])
  BY DEF AdmitEvicting
<1>2. Valid(o) /\ NotBarred(o)
      /\ UNCHANGED <<now, aborted, active, phase, receipts, refused, stopped, landed,
                     restarts>>
  BY DEF AdmitEvicting
<1>3. old \in Operation /\ Settled(PrunedEntry[old])
  BY DEF Evictable, Registered
<1>4. now \in Nat /\ retired \in 0 .. now /\ IssuedAt \in [Operation -> Nat]
  BY OperationAssumption DEF OperationsInv, TypeOK
<1>5. IssuedAt[old] \in Nat /\ IssuedAt[o] \in Nat /\ IssuedAt[o] <= now
  BY <1>2, <1>3, <1>4 DEF Valid
<1>6. /\ retired' \in 0 .. now /\ retired <= retired' /\ IssuedAt[old] <= retired'
      /\ retired' < IssuedAt[o]
  BY <1>1, <1>2, <1>4, <1>5, LaterFacts DEF NotBarred
<1> DEFINE kept == [PrunedEntry EXCEPT ![old] = "absent"]
<1>7. kept \in [Operation -> State]
  BY PrunedEntryFacts DEF State
<1>8. \A q \in Operation : kept[q] \in {entry[q], "absent"}
  BY PrunedEntryFacts
<1>9. \A q \in Operation : entry[q] \in {"queued", "running"} => kept[q] = entry[q]
  BY <1>3, PrunedEntryFacts DEF Settled
<1>10. \A q \in Operation :
          entry[q] # "absent" /\ kept[q] = "absent" => ~Live(q) \/ IssuedAt[q] <= retired'
  BY <1>6, PrunedEntryFacts
<1> QED
  BY <1>1, <1>2, <1>6, <1>7, <1>8, <1>9, <1>10, EnqueueStep

\* A refused admission and a status request only prune.
LEMMA PruneOnlyStep ==
    ASSUME OperationsInv, PruneOnly
    PROVE  OperationsInv'
<1>1. entry' = PrunedEntry /\ fence' = PrunedFence
      /\ UNCHANGED <<now, updatedAt, aborted, retired, run, receipts, history, restarts>>
  BY DEF PruneOnly
<1>2. TypeOK'
  BY <1>1, PrunedEntryFacts, PrunedFenceFacts DEF OperationsInv, TypeOK, run, history
<1>3. QueueShape' /\ RunShape'
  BY <1>1, PrunedRunShape
<1>4. BarredShape'
  BY <1>1, PrunedEntryFacts, PrunedFenceFacts
  DEF OperationsInv, BarredShape, TypeOK, history, Barred, Live
<1>5. PublicationShape'
  BY <1>1, PrunedPublicationShape DEF history
<1> QED
  BY <1>2, <1>3, <1>4, <1>5 DEF OperationsInv

\* A cancellation that arrives in time finds its operation unpublished, and
\* every later step of its run sees the signal.
LEMMA CancelAdmittedStep ==
    ASSUME NEW o \in Operation, OperationsInv, CancelAdmitted(o)
    PROVE  OperationsInv'
<1>1. entry' = PrunedEntry /\ fence' = PrunedFence
      /\ UNCHANGED <<now, updatedAt, retired, run, receipts, admitted, refused, landed,
                     restarts>>
  BY DEF CancelAdmitted
<1>2. aborted' \in {aborted, aborted \cup {o}} /\ stopped' \in {stopped, stopped \cup {o}}
  BY DEF CancelAdmitted
<1>3. TypeOK'
  BY <1>1, <1>2, PrunedEntryFacts, PrunedFenceFacts DEF OperationsInv, TypeOK, run
<1>4. QueueShape' /\ RunShape'
  BY <1>1, PrunedRunShape
<1>5. BarredShape'
  BY <1>1, PrunedEntryFacts, PrunedFenceFacts
  DEF OperationsInv, BarredShape, TypeOK, Barred, Live
<1>6. PublicationShape'
  <2>1. CASE stopped' = stopped /\ aborted' = aborted
    BY <1>1, <2>1, PrunedPublicationShape
  <2>2. CASE stopped' = stopped /\ aborted' = aborted \cup {o}
    BY <1>1, <2>2, PrunedEntryFacts DEF OperationsInv, PublicationShape, AnswersTruthful, run
  <2>3. CASE stopped' = stopped \cup {o} /\ stopped' # stopped
    <3>1. Owned(entry[o]) /\ aborted' = aborted \cup {o}
          /\ ~(active = o /\ phase \in {"finalizing", "committed"})
      BY <2>3 DEF CancelAdmitted
    <3>2. o \notin landed
      <4>1. CASE entry[o] = "queued"
        BY <4>1 DEF OperationsInv, PublicationShape
      <4>2. CASE entry[o] = "running"
        <5>1. o = active /\ phase # "idle" /\ phase # "opening"
          BY <4>2 DEF OperationsInv, PublicationShape, RunShape
        <5>2. phase = "importing"
          BY <3>1, <5>1 DEF OperationsInv, TypeOK, Phase
        <5> QED
          BY <5>1, <5>2 DEF OperationsInv, PublicationShape
      <4> QED
        BY <3>1, <4>1, <4>2 DEF Owned
    <3>3. o \in admitted
      BY <3>1 DEF OperationsInv, BarredShape, Owned
    <3> QED
      BY <1>1, <2>3, <3>1, <3>2, <3>3, PrunedEntryFacts
      DEF OperationsInv, PublicationShape, AnswersTruthful, run
  <2> QED
    BY <1>2, <2>1, <2>2, <2>3 DEF CancelAdmitted
<1> QED
  BY <1>3, <1>4, <1>5, <1>6 DEF OperationsInv

\* A cancelled ID is fenced, behind the horizon, or too old.
LEMMA CancelUnadmittedStep ==
    ASSUME NEW o \in Operation, OperationsInv, CancelUnadmitted(o)
    PROVE  OperationsInv'
<1>1. /\ PrunedEntry[o] = "absent" /\ entry' = PrunedEntry
      /\ refused' = IF o \notin admitted /\ IssuedAt[o] <= now THEN refused \cup {o}
                    ELSE refused
      /\ UNCHANGED <<now, updatedAt, aborted, run, receipts, admitted, stopped, landed,
                     restarts>>
  BY DEF CancelUnadmitted
<1>2. now \in Nat /\ retired \in 0 .. now /\ IssuedAt \in [Operation -> Nat] /\ Window \in Nat
  BY OperationAssumption, CapAssumption DEF OperationsInv, TypeOK
<1>3. /\ retired' \in 0 .. now /\ retired <= retired'
      /\ fence' \subseteq PrunedFence \cup {q \in {o} : IssuedAt[q] <= now}
      /\ \A q \in PrunedFence : q \in fence' \/ IssuedAt[q] <= retired'
      /\ IssuedAt[o] <= now => o \in fence' \/ IssuedAt[o] <= retired' \/ ~Live(o)
  <2>1. CASE Valid(o) /\ retired < IssuedAt[o] /\ o \notin PrunedFence
    <3>1. AddFence(o) /\ IssuedAt[o] <= now
      BY <2>1 DEF CancelUnadmitted, Valid
    <3>2. CASE Cardinality(PrunedFence) < FenceCap
      BY <1>2, <3>1, <3>2 DEF AddFence
    <3>3. CASE ~(Cardinality(PrunedFence) < FenceCap)
      <4>1. PICK old \in OldestFence :
               /\ fence' = (PrunedFence \ {old}) \cup {o}
               /\ retired' = Later(retired, IssuedAt[old])
        BY <3>1, <3>3 DEF AddFence
      <4>2. old \in Operation /\ IssuedAt[old] \in 0 .. now
        BY <1>2, <4>1, PrunedFenceFacts DEF OldestFence, OperationsInv, TypeOK
      <4>3. retired' \in {retired, IssuedAt[old]} /\ retired <= retired' /\ IssuedAt[old] <= retired'
        BY <1>2, <4>1, <4>2, LaterFacts
      <4> QED
        BY <1>2, <3>1, <4>1, <4>2, <4>3
    <3> QED
      BY <3>2, <3>3
  <2>2. CASE ~(Valid(o) /\ retired < IssuedAt[o] /\ o \notin PrunedFence)
    <3>1. fence' = PrunedFence /\ retired' = retired
      BY <2>2 DEF CancelUnadmitted
    <3> QED
      BY <1>2, <2>2, <3>1 DEF Valid
  <2> QED
    BY <2>1, <2>2
<1>4. TypeOK'
  <2>1. fence' \subseteq {q \in Operation : IssuedAt[q] <= now}
    BY <1>3, PrunedFenceFacts DEF OperationsInv, TypeOK
  <2> QED
    BY <1>1, <1>3, <2>1, PrunedEntryFacts DEF OperationsInv, TypeOK, run
<1>5. QueueShape' /\ RunShape'
  BY <1>1, PrunedRunShape
<1>6. BarredShape'
  <2>1. \A q \in Operation : Barred(q) => Barred(q)'
    BY <1>1, <1>2, <1>3 DEF Barred, Live
  <2>2. \A q \in Operation : ~Live(q) \/ IssuedAt[q] <= retired' => Barred(q)'
    BY <1>1 DEF Barred, Live
  <2>3. \A q \in Operation : entry'[q] # "absent" => q \in admitted' /\ IssuedAt[q] <= updatedAt'[q]
    BY <1>1, PrunedEntryFacts DEF OperationsInv, BarredShape
  <2>4. \A q \in admitted' : entry'[q] # "absent" \/ Barred(q)'
    BY <1>1, <2>1, <2>2, PrunedEntryFacts DEF OperationsInv, BarredShape, TypeOK
  <2>5. \A q \in refused : q \in fence' \/ Barred(q)'
    BY <1>3, <2>1, <2>2, PrunedFenceFacts DEF OperationsInv, BarredShape, TypeOK
  <2>6. IssuedAt[o] <= now => o \in fence' \/ Barred(o)'
    BY <1>3, <2>2
  <2>7. \A q \in refused' : q \in fence' \/ Barred(q)'
    BY <1>1, <2>5, <2>6
  <2>8. refused' \cap admitted' = {}
    BY <1>1 DEF OperationsInv, BarredShape
  <2> QED
    BY <2>3, <2>4, <2>7, <2>8 DEF BarredShape
<1>7. PublicationShape'
  BY <1>1, PrunedPublicationShape
<1> QED
  BY <1>4, <1>5, <1>6, <1>7 DEF OperationsInv

-------------------------------------------------------------------------------
(* The run of an admitted import *)

\* The import at the head of the queue becomes the one that runs.
LEMMA StartNextStep ==
    ASSUME OperationsInv, StartNext
    PROVE  OperationsInv'
<1>1. active = Nobody /\ queue # << >> /\ active' = Head(queue) /\ queue' = Tail(queue)
      /\ phase' = "opening"
      /\ UNCHANGED <<now, entry, updatedAt, aborted, fence, retired, receipts, history,
                     restarts>>
  BY DEF StartNext
<1>2. queue \in Seq(Operation) /\ Head(queue) = queue[1] /\ Len(queue) >= 1
      /\ Len(queue') = Len(queue) - 1 /\ \A i \in 1 .. Len(queue') : queue'[i] = queue[i + 1]
  BY <1>1 DEF OperationsInv, TypeOK
<1>3. active' \in Operation /\ entry[active'] = "queued"
  BY <1>1, <1>2 DEF OperationsInv, QueueShape
<1>4. TypeOK'
  BY <1>1, <1>2, <1>3 DEF OperationsInv, TypeOK, history, Phase
<1>5. QueueShape'
  BY <1>1, <1>2 DEF OperationsInv, QueueShape
<1>6. RunShape'
  BY <1>1, <1>3 DEF RunShape
<1>7. BarredShape'
  BY <1>1 DEF OperationsInv, BarredShape, Barred, Live, history
<1>8. PublicationShape'
  <2>1. phase = "idle"
    BY <1>1, OperationAssumption DEF OperationsInv, RunShape
  <2>2. \A q \in Operation : entry[q] # "running"
    BY <1>1, OperationAssumption DEF OperationsInv, PublicationShape
  <2> QED
    BY <1>1, <2>1, <2>2 DEF OperationsInv, PublicationShape, AnswersTruthful, history
<1> QED
  BY <1>4, <1>5, <1>6, <1>7, <1>8 DEF OperationsInv

\* An import that ends with a settled entry leaves the registry in order.
LEMMA SettleStep ==
    ASSUME OperationsInv, phase # "idle", NEW state \in State, Settled(state),
           state = "published" => active \in landed,
           state \in {"unpublished", "cancelled", "failed"} => active \notin landed,
           Settle(state), Finish,
           UNCHANGED <<now, aborted, fence, retired, receipts, history, restarts>>
    PROVE  OperationsInv'
<1>1. active \in Operation /\ entry[active] # "absent"
  BY DEF OperationsInv, RunShape, TypeOK, Phase
<1>2. now \in Nat /\ IssuedAt \in [Operation -> Nat] /\ IssuedAt[active] <= now
  BY <1>1, OperationAssumption DEF OperationsInv, TypeOK, BarredShape
<1>3. entry' = [entry EXCEPT ![active] = state] /\ updatedAt' = [updatedAt EXCEPT ![active] = now]
      /\ active' = Nobody /\ phase' = "idle" /\ queue' = queue
  BY DEF Settle, Finish
<1>4. TypeOK'
  BY <1>1, <1>2, <1>3 DEF OperationsInv, TypeOK, history, Phase
<1>5. QueueShape'
  <2>1. queue \in Seq(Operation) /\ \A i \in 1 .. Len(queue) : queue[i] \in Operation
    BY DEF OperationsInv, TypeOK
  <2>2. \A i \in 1 .. Len(queue) : queue[i] # Nobody
    BY <2>1, OperationAssumption
  <2> QED
    BY <1>1, <1>3, <2>1, <2>2 DEF OperationsInv, QueueShape, TypeOK
<1>6. RunShape'
  BY <1>3, OperationAssumption DEF RunShape
<1>7. BarredShape'
  <2>1. state # "absent"
    BY DEF Settled
  <2>2. \A q \in Operation : entry'[q] # "absent" => q \in admitted' /\ IssuedAt[q] <= updatedAt'[q]
    BY <1>1, <1>2, <1>3 DEF OperationsInv, BarredShape, TypeOK, history
  <2>3. \A q \in admitted' : entry'[q] # "absent" \/ Barred(q)'
    BY <1>3, <2>1 DEF OperationsInv, BarredShape, TypeOK, Barred, Live, history
  <2>4. \A q \in refused' : q \in fence' \/ Barred(q)'
    BY DEF OperationsInv, BarredShape, Barred, Live, history
  <2> QED
    BY <2>2, <2>3, <2>4 DEF OperationsInv, BarredShape, history
<1>8. PublicationShape'
  BY <1>1, <1>3 DEF OperationsInv, PublicationShape, AnswersTruthful, TypeOK, history, Settled
<1> QED
  BY <1>4, <1>5, <1>6, <1>7, <1>8 DEF OperationsInv

\* An import that ended before finalization, or was undone, has not published.
LEMMA EndUnpublishedStep ==
    ASSUME OperationsInv, PortMissing \/ ImportThrows \/ ImportUnpublished
    PROVE  OperationsInv'
<1>1. phase \in {"opening", "importing", "finalizing"}
  BY DEF PortMissing, ImportThrows, ImportUnpublished
<1>2. active \notin landed
  BY <1>1 DEF OperationsInv, PublicationShape, RunShape, TypeOK, Phase
<1>3. PICK state \in {"failed", "cancelled", "unpublished", "unknown"} : Settle(state)
  <2>1. CASE PortMissing
    BY <2>1 DEF PortMissing
  <2>2. CASE ImportThrows
    BY <2>2 DEF ImportThrows
  <2>3. CASE ImportUnpublished
    BY <2>3 DEF ImportUnpublished
  <2> QED
    BY <2>1, <2>2, <2>3
<1>4. Finish /\ UNCHANGED <<now, aborted, fence, retired, receipts, history, restarts>>
  BY DEF PortMissing, ImportThrows, ImportUnpublished
<1>5. state \in State /\ Settled(state) /\ state # "published"
  BY DEF State, Settled
<1> QED
  BY <1>1, <1>2, <1>3, <1>4, <1>5, SettleStep

\* A published import is answered as published.
LEMMA ImportPublishedStep ==
    ASSUME OperationsInv, ImportPublished
    PROVE  OperationsInv'
<1>1. phase = "committed" /\ active \in landed
  BY DEF ImportPublished, OperationsInv, PublicationShape
<1>2. "published" \in State /\ Settled("published")
  BY DEF State, Settled
<1> QED
  BY <1>1, <1>2, SettleStep DEF ImportPublished

\* The import runs, its operation unpublished.
LEMMA BeginImportStep ==
    ASSUME OperationsInv, BeginImport
    PROVE  OperationsInv'
<1>1. active \in Operation /\ entry[active] = "queued" /\ active \notin landed \cup receipts
  BY DEF BeginImport, OperationsInv, RunShape, PublicationShape
<1>2. entry' = [entry EXCEPT ![active] = "running"] /\ phase' = "importing"
      /\ UNCHANGED <<now, updatedAt, aborted, fence, retired, queue, active, receipts,
                     history, restarts>>
  BY DEF BeginImport
<1>3. TypeOK'
  BY <1>1, <1>2 DEF OperationsInv, TypeOK, State, Phase, history
<1>4. QueueShape'
  BY <1>1, <1>2 DEF OperationsInv, QueueShape, TypeOK
<1>5. RunShape'
  BY <1>1, <1>2 DEF RunShape, OperationsInv, TypeOK
<1>6. BarredShape'
  BY <1>1, <1>2 DEF OperationsInv, BarredShape, TypeOK, Barred, Live, history
<1>7. PublicationShape'
  BY <1>1, <1>2 DEF OperationsInv, PublicationShape, AnswersTruthful, TypeOK, history
<1> QED
  BY <1>3, <1>4, <1>5, <1>6, <1>7 DEF OperationsInv

\* Finalization begins without the signal, so without a cancellation that counts.
LEMMA BeginFinalizationStep ==
    ASSUME OperationsInv, BeginFinalization
    PROVE  OperationsInv'
<1>1. TypeOK' /\ QueueShape' /\ RunShape'
  BY DEF OperationsInv, TypeOK, QueueShape, RunShape, BeginFinalization, history, Phase
<1>2. BarredShape'
  BY DEF OperationsInv, BarredShape, BeginFinalization, Barred, Live, history
<1>3. PublicationShape'
  BY DEF OperationsInv, PublicationShape, AnswersTruthful, BeginFinalization, history
<1> QED
  BY <1>1, <1>2, <1>3 DEF OperationsInv

\* What is committed had not been cancelled in time.
LEMMA CommitStep ==
    ASSUME OperationsInv, Commit
    PROVE  OperationsInv'
<1>1. active \in Operation /\ entry[active] = "running" /\ active \notin stopped /\ active \in admitted
  BY DEF Commit, OperationsInv, RunShape, PublicationShape, BarredShape
<1>2. TypeOK' /\ QueueShape' /\ RunShape'
  BY <1>1 DEF OperationsInv, TypeOK, QueueShape, RunShape, Commit, Phase
<1>3. BarredShape'
  BY DEF OperationsInv, BarredShape, Commit, Barred, Live
<1>4. PublicationShape'
  BY <1>1 DEF OperationsInv, PublicationShape, AnswersTruthful, Commit
<1> QED
  BY <1>2, <1>3, <1>4 DEF OperationsInv

-------------------------------------------------------------------------------
(* The environment *)

\* Time only bars more.
LEMMA TickStep ==
    ASSUME OperationsInv, Tick
    PROVE  OperationsInv'
<1>1. now \in Nat /\ IssuedAt \in [Operation -> Nat] /\ Window \in Nat
  BY OperationAssumption, CapAssumption DEF OperationsInv, TypeOK
<1>2. TypeOK'
  <2>1. fence \subseteq {q \in Operation : IssuedAt[q] <= now + 1}
    BY <1>1 DEF OperationsInv, TypeOK
  <2>2. updatedAt \in [Operation -> 0 .. now + 1] /\ retired \in 0 .. now + 1
    BY <1>1 DEF OperationsInv, TypeOK
  <2> QED
    BY <1>1, <2>1, <2>2 DEF OperationsInv, TypeOK, Tick, request, run, history
<1>3. QueueShape' /\ RunShape'
  BY DEF OperationsInv, QueueShape, RunShape, Tick, request, run
<1>4. BarredShape'
  <2>1. \A q \in Operation : Barred(q) => Barred(q)'
    BY <1>1 DEF Barred, Live, Tick, request
  <2> QED
    BY <2>1 DEF OperationsInv, BarredShape, Tick, request, history, TypeOK
<1>5. PublicationShape'
  BY DEF OperationsInv, PublicationShape, AnswersTruthful, Tick, request, run, history
<1> QED
  BY <1>2, <1>3, <1>4, <1>5 DEF OperationsInv

\* A removed publication concerns no running import.
LEMMA RemoveDictionaryStep ==
    ASSUME NEW o \in Operation, OperationsInv, RemoveDictionary(o)
    PROVE  OperationsInv'
<1>1. TypeOK' /\ QueueShape' /\ RunShape'
  BY DEF OperationsInv, TypeOK, QueueShape, RunShape, RemoveDictionary, request, run, history
<1>2. BarredShape'
  BY DEF OperationsInv, BarredShape, RemoveDictionary, request, history, Barred, Live
<1>3. PublicationShape'
  BY DEF OperationsInv, PublicationShape, AnswersTruthful, RemoveDictionary, request, run,
         history
<1> QED
  BY <1>1, <1>2, <1>3 DEF OperationsInv

\* A new worker owes nothing.
LEMMA FreshWorker ==
    ASSUME now \in Nat, restarts \in Nat, receipts \subseteq Operation,
           entry = Absent, updatedAt = [o \in Operation |-> 0],
           aborted = {}, fence = {}, retired = 0, queue = << >>, active = Nobody,
           phase = "idle", admitted = {}, refused = {}, stopped = {}, landed = {}
    PROVE  OperationsInv
<1>1. TypeOK
  BY DEF TypeOK, Absent, State, Phase
<1>2. QueueShape /\ RunShape
  BY OperationAssumption DEF QueueShape, RunShape
<1>3. BarredShape /\ PublicationShape
  BY DEF BarredShape, PublicationShape, AnswersTruthful, Absent
<1> QED
  BY <1>1, <1>2, <1>3 DEF OperationsInv

\* Neither the first worker nor any later one starts with obligations.
LEMMA InitOperations == Init => OperationsInv
BY FreshWorker DEF Init

\* The worker is replaced; only the clock and the receipts survive.
LEMMA RestartStep ==
    ASSUME OperationsInv, Restart
    PROVE  OperationsInv'
<1>1. now' \in Nat /\ restarts' \in Nat /\ receipts' \subseteq Operation
  BY DEF Restart, OperationsInv, TypeOK
<1>2. /\ entry' = Absent /\ updatedAt' = [o \in Operation |-> 0]
      /\ aborted' = {} /\ fence' = {} /\ retired' = 0
      /\ queue' = << >> /\ active' = Nobody /\ phase' = "idle"
      /\ admitted' = {} /\ refused' = {} /\ stopped' = {} /\ landed' = {}
  BY DEF Restart
<1>3. TypeOK'
  BY <1>1, <1>2 DEF TypeOK, Absent, State, Phase
<1>4. QueueShape' /\ RunShape'
  BY <1>2, OperationAssumption DEF QueueShape, RunShape
<1>5. BarredShape' /\ PublicationShape'
  BY <1>2 DEF BarredShape, PublicationShape, AnswersTruthful, Absent
<1> QED
  BY <1>3, <1>4, <1>5 DEF OperationsInv

\* Every step preserves the invariant.
LEMMA NextOperations ==
    ASSUME OperationsInv, [Next]_vars
    PROVE  OperationsInv'
<1>1. CASE \E o \in Operation : Request(o)
  BY <1>1, AdmitStep, AdmitEvictingStep, CancelAdmittedStep, CancelUnadmittedStep,
     RemoveDictionaryStep DEF Request
<1>2. CASE PruneOnly
  BY <1>2, PruneOnlyStep
<1>3. CASE RunStep
  BY <1>3, StartNextStep, EndUnpublishedStep, BeginImportStep, BeginFinalizationStep,
     CommitStep, ImportPublishedStep DEF RunStep
<1>4. CASE Tick
  BY <1>4, TickStep
<1>5. CASE Restart
  BY <1>5, RestartStep
<1>6. CASE UNCHANGED vars
  BY <1>6 DEF vars, OperationsInv, TypeOK, QueueShape, RunShape, BarredShape,
              PublicationShape, AnswersTruthful, Barred, Live
<1> QED
  BY <1>1, <1>2, <1>3, <1>4, <1>5, <1>6 DEF Next

-------------------------------------------------------------------------------
(* Theorems *)

\* The registry, the fence, the horizon and the queue always agree: the
\* inductive invariant of the worker's import operations.
THEOREM OperationsInvariant == Spec => []OperationsInv
<1>1. Init => OperationsInv
  BY InitOperations
<1>2. OperationsInv /\ [Next]_vars => OperationsInv'
  BY NextOperations
<1> QED
  BY <1>1, <1>2, PTL DEF Spec

\* A cancellation that overtakes its import keeps it out.
THEOREM CancelledOperationsStayOut == Spec => []CancelledStayOut
<1>1. OperationsInv => CancelledStayOut
  BY DEF OperationsInv, BarredShape, CancelledStayOut
<1> QED
  BY <1>1, OperationsInvariant, PTL

\* What waits or runs can be found by its cancellation.
THEOREM OwnedOperationsStayRegistered == Spec => []OwnedStayRegistered
<1>1. OperationsInv => OwnedStayRegistered
  BY DEF OperationsInv, QueueShape, RunShape, OwnedStayRegistered
<1> QED
  BY <1>1, OperationsInvariant, PTL

\* A cancellation answered before finalization is never followed by a
\* publication.
THEOREM StoppedOperationsStayUnpublished == Spec => []StoppedStayUnpublished
<1>1. OperationsInv => StoppedStayUnpublished
  BY DEF OperationsInv, PublicationShape, StoppedStayUnpublished
<1> QED
  BY <1>1, OperationsInvariant, PTL

\* The registry never answers against the database.
THEOREM TerminalAnswersAreTrue == Spec => []AnswersTruthful
<1>1. OperationsInv => AnswersTruthful
  BY DEF OperationsInv, PublicationShape
<1> QED
  BY <1>1, OperationsInvariant, PTL

\* Neither eviction nor expiry lets a worker admit an ID again.
THEOREM OperationsAreAdmittedOnce == Spec => NoReadmission
<1>1. ASSUME OperationsInv, [Next]_vars
      PROVE  [AdmitsNew]_vars
  <2> SUFFICES ASSUME NEW o \in Operation, entry[o] = "absent", entry'[o] = "queued",
                      o \in admitted
               PROVE  FALSE
    BY DEF AdmitsNew
  <2>1. IssuedAt[o] <= retired \/ ~Live(o)
    BY <1>1 DEF OperationsInv, BarredShape, Barred
  <2>2. ASSUME NEW q \in Operation, Admit(q) \/ AdmitEvicting(q)
        PROVE  FALSE
    <3>1. q # o
      <4>1. IssuedAt \in [Operation -> Nat] /\ retired \in Nat
        BY <1>1, OperationAssumption DEF OperationsInv, TypeOK
      <4> QED
        BY <2>1, <2>2, <4>1 DEF Admit, AdmitEvicting, Valid, NotBarred
    <3>2. PrunedEntry[o] = "absent" /\ PrunedEntry \in [Operation -> State]
      BY <1>1, PrunedEntryFacts
    <3>3. CASE Admit(q)
      BY <3>1, <3>2, <3>3 DEF Admit, Enqueue
    <3>4. CASE AdmitEvicting(q)
      <4>1. PICK old \in Evictable : Enqueue(q, [PrunedEntry EXCEPT ![old] = "absent"])
        BY <3>4 DEF AdmitEvicting
      <4> QED
        BY <3>1, <3>2, <4>1 DEF Enqueue
    <3> QED
      BY <2>2, <3>3, <3>4
  <2>3. ASSUME entry' = PrunedEntry
        PROVE  FALSE
    BY <1>1, <2>3, PrunedEntryFacts
  <2>4. ASSUME NEW q \in Operation, Request(q)
        PROVE  FALSE
    BY <2>2, <2>3, <2>4 DEF Request, CancelAdmitted, CancelUnadmitted, RemoveDictionary, request
  <2>5. ASSUME RunStep
        PROVE  FALSE
    <3>1. entry \in [Operation -> State]
      BY <1>1 DEF OperationsInv, TypeOK
    <3>2. ASSUME NEW state, state # "queued", Settle(state)
          PROVE  FALSE
      BY <3>1, <3>2 DEF Settle
    <3> QED
      BY <2>5, <3>1, <3>2 DEF RunStep, StartNext, PortMissing, ImportThrows, BeginImport,
         BeginFinalization, ImportUnpublished, Commit, ImportPublished
  <2> QED
    BY <1>1, <2>3, <2>4, <2>5 DEF Next, PruneOnly, Tick, Restart, Absent, request, vars
<1> QED
  BY <1>1, OperationsInvariant, PTL DEF Spec, NoReadmission

\* What is on record as published is not published again, not even by a worker
\* that has never heard of it.
THEOREM PublicationsHappenOnce == Spec => PublishedOnce
<1>1. ASSUME OperationsInv, [Next]_vars
      PROVE  [CommitsNew]_vars
  BY <1>1 DEF OperationsInv, PublicationShape, CommitsNew
<1> QED
  BY <1>1, OperationsInvariant, PTL DEF Spec, PublishedOnce

-------------------------------------------------------------------------------
(* Bounds *)

\* The registry's entries and the fence are finite sets, and pruning makes
\* neither larger.
LEMMA PrunedCaps ==
    ASSUME OperationsInv, WithinCaps
    PROVE  /\ IsFiniteSet(Registered) /\ Cardinality(Registered) \in Nat
           /\ Cardinality(Registered) <= RegistryCap
           /\ IsFiniteSet(PrunedFence) /\ Cardinality(PrunedFence) \in Nat
           /\ Cardinality(PrunedFence) <= FenceCap
<1> DEFINE known == {o \in Operation : entry[o] # "absent"}
<1>1. IsFiniteSet(known) /\ IsFiniteSet(fence)
  BY OperationAssumption, FS_Subset DEF OperationsInv, TypeOK
<1>2. Registered \subseteq known /\ PrunedFence \subseteq fence
  BY PrunedEntryFacts, PrunedFenceFacts DEF Registered
<1>3. IsFiniteSet(Registered) /\ Cardinality(Registered) <= Cardinality(known)
  BY <1>1, <1>2, FS_Subset
<1>4. IsFiniteSet(PrunedFence) /\ Cardinality(PrunedFence) <= Cardinality(fence)
  BY <1>1, <1>2, FS_Subset
<1>5. /\ Cardinality(Registered) \in Nat /\ Cardinality(PrunedFence) \in Nat
      /\ Cardinality(known) \in Nat /\ Cardinality(fence) \in Nat
  BY <1>1, <1>3, <1>4, FS_CardinalityType
<1>6. Cardinality(known) <= RegistryCap /\ Cardinality(fence) <= FenceCap
  BY DEF WithinCaps
<1> QED
  BY <1>3, <1>4, <1>5, <1>6, CapAssumption

\* An admission adds one entry where there is room for one, or where it has
\* just made room.
LEMMA RegistryBound ==
    ASSUME OperationsInv, WithinCaps, NEW o \in Operation, Admit(o) \/ AdmitEvicting(o)
    PROVE  WithinCaps'
<1> DEFINE known == {q \in Operation : entry'[q] # "absent"}
<1>1. PrunedEntry \in [Operation -> State] /\ PrunedEntry[o] = "absent"
  BY PrunedEntryFacts DEF Admit, AdmitEvicting, NotBarred
<1>2. o \notin Registered
  BY <1>1 DEF Registered
<1>3. fence' = PrunedFence
  BY DEF Admit, AdmitEvicting, Enqueue
<1>4. Cardinality(known) <= RegistryCap
  <2>1. CASE Admit(o)
    <3>1. known = Registered \cup {o}
      BY <1>1, <2>1 DEF Admit, Enqueue, Registered
    <3>2. Cardinality(known) = Cardinality(Registered) + 1
      BY <1>2, <3>1, PrunedCaps, FS_AddElement
    <3> QED
      BY <2>1, <3>2, PrunedCaps, CapAssumption DEF Admit
  <2>2. CASE AdmitEvicting(o)
    <3>1. PICK old \in Evictable : entry' = [[PrunedEntry EXCEPT ![old] = "absent"] EXCEPT ![o] = "queued"]
      BY <2>2 DEF AdmitEvicting, Enqueue
    <3>2. old \in Registered /\ old \in Operation /\ old # o
      BY <1>2 DEF Evictable, Registered
    <3>3. known = (Registered \ {old}) \cup {o}
      BY <1>1, <3>1, <3>2 DEF Registered
    <3>4. IsFiniteSet(Registered \ {old})
          /\ Cardinality(Registered \ {old}) = Cardinality(Registered) - 1
      BY <3>2, PrunedCaps, FS_RemoveElement
    <3>5. Cardinality(known) = Cardinality(Registered \ {old}) + 1
      BY <1>2, <3>3, <3>4, FS_AddElement
    <3> QED
      BY <3>4, <3>5, PrunedCaps, CapAssumption
  <2> QED
    BY <2>1, <2>2
<1> QED
  BY <1>3, <1>4, PrunedCaps DEF WithinCaps

\* A new fence takes the place of an old one when there is no room.
LEMMA FenceBound ==
    ASSUME OperationsInv, WithinCaps, NEW o \in Operation, CancelUnadmitted(o)
    PROVE  WithinCaps'
<1>1. entry' = PrunedEntry /\ {q \in Operation : entry'[q] # "absent"} = Registered
  BY DEF CancelUnadmitted, Registered
<1>2. Cardinality(fence') <= FenceCap
  <2>1. CASE fence' = PrunedFence
    BY <2>1, PrunedCaps
  <2>2. CASE fence' # PrunedFence
    <3>1. AddFence(o) /\ o \notin PrunedFence
      BY <2>2 DEF CancelUnadmitted
    <3>2. CASE Cardinality(PrunedFence) < FenceCap
      <4>1. fence' = PrunedFence \cup {o}
        BY <3>1, <3>2 DEF AddFence
      <4>2. Cardinality(fence') = Cardinality(PrunedFence) + 1
        BY <3>1, <4>1, PrunedCaps, FS_AddElement
      <4> QED
        BY <3>2, <4>2, PrunedCaps, CapAssumption
    <3>3. CASE ~(Cardinality(PrunedFence) < FenceCap)
      <4>1. PICK old \in OldestFence : fence' = (PrunedFence \ {old}) \cup {o}
        BY <3>1, <3>3 DEF AddFence
      <4>2. old \in PrunedFence
        BY <4>1 DEF OldestFence
      <4>3. IsFiniteSet(PrunedFence \ {old})
            /\ Cardinality(PrunedFence \ {old}) = Cardinality(PrunedFence) - 1
        BY <4>2, PrunedCaps, FS_RemoveElement
      <4>4. Cardinality(fence') = Cardinality(PrunedFence \ {old}) + 1
        BY <3>1, <4>1, <4>3, FS_AddElement
      <4> QED
        BY <4>3, <4>4, PrunedCaps, CapAssumption
    <3> QED
      BY <3>2, <3>3
  <2> QED
    BY <2>1, <2>2
<1> QED
  BY <1>1, <1>2, PrunedCaps DEF WithinCaps

\* A run changes entries of the registry and removes or adds none.
LEMMA RunBound ==
    ASSUME OperationsInv, WithinCaps, RunStep
    PROVE  WithinCaps'
<1>1. fence' = fence
  BY DEF RunStep, StartNext, PortMissing, ImportThrows, BeginImport, BeginFinalization,
         ImportUnpublished, Commit, ImportPublished
<1>2. entry \in [Operation -> State] /\ (phase # "idle" => active \in Operation /\ entry[active] # "absent")
  BY DEF OperationsInv, TypeOK, RunShape, Phase
<1>3. ASSUME NEW state \in State \ {"absent"}, phase # "idle", entry' = [entry EXCEPT ![active] = state]
      PROVE  \A o \in Operation : entry'[o] # "absent" <=> entry[o] # "absent"
  BY <1>2, <1>3
<1>4. CASE StartNext \/ BeginFinalization \/ Commit
  BY <1>1, <1>4 DEF StartNext, BeginFinalization, Commit, WithinCaps
<1>5. CASE BeginImport
  <2>1. "running" \in State \ {"absent"}
    BY DEF State
  <2>2. phase # "idle" /\ entry' = [entry EXCEPT ![active] = "running"]
    BY <1>5 DEF BeginImport
  <2>3. {o \in Operation : entry'[o] # "absent"} = {o \in Operation : entry[o] # "absent"}
    BY <1>3, <2>1, <2>2
  <2> QED
    BY <1>1, <2>3 DEF WithinCaps
<1>6. CASE PortMissing \/ ImportThrows \/ ImportUnpublished \/ ImportPublished
  <2>1. phase # "idle"
    BY <1>6 DEF PortMissing, ImportThrows, ImportUnpublished, ImportPublished
  <2>2. PICK state \in State \ {"absent"} : entry' = [entry EXCEPT ![active] = state]
    BY <1>6 DEF PortMissing, ImportThrows, ImportUnpublished, ImportPublished, Settle, State
  <2>3. {o \in Operation : entry'[o] # "absent"} = {o \in Operation : entry[o] # "absent"}
    BY <1>3, <2>1, <2>2
  <2> QED
    BY <1>1, <2>3 DEF WithinCaps
<1> QED
  BY <1>4, <1>5, <1>6 DEF RunStep

\* Neither the registry nor the fence ever exceeds its cap.
THEOREM RegistriesKeepTheirBounds == Spec => []WithinCaps
<1>1. ASSUME \A o \in Operation : entry[o] = "absent", fence = {}
      PROVE  WithinCaps
  <2>1. {o \in Operation : entry[o] # "absent"} = {}
    BY <1>1
  <2> QED
    BY <1>1, <2>1, FS_EmptySet, CapAssumption DEF WithinCaps
<1>2. Init => WithinCaps
  BY <1>1 DEF Init, Absent
<1>3. ASSUME OperationsInv, WithinCaps, [Next]_vars
      PROVE  WithinCaps'
  <2>1. CASE \E o \in Operation : Admit(o) \/ AdmitEvicting(o)
    BY <1>3, <2>1, RegistryBound
  <2>2. CASE \E o \in Operation : CancelUnadmitted(o)
    BY <1>3, <2>2, FenceBound
  <2>3. CASE PruneOnly \/ \E o \in Operation : CancelAdmitted(o)
    <3>1. fence' = PrunedFence /\ {o \in Operation : entry'[o] # "absent"} = Registered
      BY <2>3 DEF PruneOnly, CancelAdmitted, Registered
    <3> QED
      BY <1>3, <3>1, PrunedCaps DEF WithinCaps
  <2>4. CASE RunStep
    BY <1>3, <2>4, RunBound
  <2>5. CASE Tick \/ (\E o \in Operation : RemoveDictionary(o)) \/ UNCHANGED vars
    BY <1>3, <2>5 DEF Tick, RemoveDictionary, request, vars, WithinCaps
  <2>6. CASE Restart
    <3>1. {o \in Operation : entry'[o] # "absent"} = {} /\ fence' = {}
      BY <2>6 DEF Restart, Absent
    <3> QED
      BY <3>1, FS_EmptySet, CapAssumption DEF WithinCaps
  <2> QED
    BY <1>3, <2>1, <2>2, <2>3, <2>4, <2>5, <2>6 DEF Next, Request
<1> QED
  BY <1>2, <1>3, OperationsInvariant, PTL DEF Spec

\* The registry remembers enough, loses no operation in progress and keeps to its
\* bounds, whatever they are.
THEOREM RegistryIsSound == Spec => []RegistrySound
BY OperationsInvariant, OwnedOperationsStayRegistered, RegistriesKeepTheirBounds, PTL
   DEF RegistrySound

=============================================================================
