------------------------ MODULE WorkerSchedulerProofs ------------------------
(***************************************************************************)
(* The promises of the request scheduler for any number of messages of any  *)
(* kinds and any number of failures.                                        *)
(*                                                                          *)
(* Most steps only carry requests that have started one stage further.      *)
(* Such an Advance keeps the order of the requests, whatever it does to the *)
(* database; what is left is the database, and the steps that are none:     *)
(* receipt, the queue's next request, and the end of a request.             *)
(***************************************************************************)
EXTENDS WorkerScheduler, FiniteSetTheorems, TLAPS

\* What the order of the requests rests on, and what their database rests on.
OrderInv == QueueShape /\ TurnShape /\ OrderShape /\ MutationAlone /\ InOrder
DatabaseInv == DatabaseShape /\ BodiesFindDatabase /\ PromiseSettles

\* The inductive invariant.
Inv == TypeOK /\ OrderInv /\ DatabaseInv /\ CountsExact

\* The import part of CountsExact.
ImportsExact ==
    /\ queuedImport = Cardinality(QueuedImports)
    /\ importActive =>
          current # Nobody /\ kind[current] = "import" /\ stage[current] = "body"

RunningStages == {"waiting", "joining", "closing", "resetting", "reopening", "body", "failed"}

\* The stages each kind of request can be in once it runs.
Fits(k, s) ==
    /\ k \in {"lookup", "status"} => s \in {"waiting", "body", "failed"}
    /\ s \in {"joining", "resetting", "reopening"} => k = "purge"
    /\ s = "closing" => k \in {"refresh", "suspend"}
    /\ s = "waiting" => k \notin {"suspend", "purge"}

\* A step that carries running requests on, and one that has drained into them.
Advance ==
    /\ UNCHANGED <<requests, turns>>
    /\ stage' \in [Request -> Stages]
    /\ \A r \in Request :
          \/ stage'[r] = stage[r]
          \/ /\ stage[r] \in RunningStages \/ Drained(r)
             /\ stage'[r] \in RunningStages /\ Fits(kind[r], stage'[r])

-------------------------------------------------------------------------------
(* Counting *)

\* Adding or removing one element changes the size of a finite set by one.
LEMMA CountSteps ==
    ASSUME NEW S, NEW T, NEW x, IsFiniteSet(S)
    PROVE  /\ Cardinality(S) \in Nat
           /\ T = S \cup {x} /\ x \notin S => Cardinality(T) = Cardinality(S) + 1
           /\ T = S \ {x} /\ x \in S => Cardinality(T) = Cardinality(S) - 1
<1>1. Cardinality(S) \in Nat
  BY FS_CardinalityType
<1>2. T = S \cup {x} /\ x \notin S => Cardinality(T) = Cardinality(S) + 1
  BY FS_AddElement
<1>3. T = S \ {x} /\ x \in S => Cardinality(T) = Cardinality(S) - 1
  BY FS_RemoveElement
<1> QED
  BY <1>1, <1>2, <1>3

\* The counted sets are finite, as the messages are.
LEMMA CountedFinite ==
    /\ IsFiniteSet(QueuedImports) /\ IsFiniteSet(PendingExclusive)
    /\ IsFiniteSet(QueuedImports') /\ IsFiniteSet(PendingExclusive')
<1>1. /\ QueuedImports \subseteq Request /\ PendingExclusive \subseteq Request
      /\ QueuedImports' \subseteq Request /\ PendingExclusive' \subseteq Request
  BY DEF QueuedImports, PendingExclusive, Pending
<1> QED
  BY <1>1, FS_Subset, RequestAssumption

\* A count of no pending exclusive request means that there is none.
LEMMA NoneExclusive ==
    ASSUME Inv, queuedExclusive = 0
    PROVE  /\ current = Nobody
           /\ \A r \in Request : kind[r] \in Exclusive => stage[r] = "answered"
<1>1. PendingExclusive = {}
  BY CountedFinite, FS_EmptySet DEF Inv, CountsExact
<1>2. \A r \in Request : kind[r] \in Exclusive => stage[r] = "answered"
  BY <1>1 DEF PendingExclusive, Pending, Finished, Exclusive, Kinds, Inv, OrderInv, QueueShape
<1>3. current = Nobody
  BY <1>2, RequestAssumption DEF Inv, TypeOK, OrderInv, TurnShape
<1> QED
  BY <1>2, <1>3

-------------------------------------------------------------------------------
(* Order *)

\* An Advance keeps the order of the requests, whatever it does to the database, and
\* the set of the exclusive requests that are counted.
LEMMA AdvanceOrder ==
    ASSUME Inv, Advance
    PROVE  OrderInv' /\ PendingExclusive' = PendingExclusive
<1> USE DEF Inv, OrderInv
<1>1. UNCHANGED <<kind, ahead, queue, current, awaited, queuedExclusive>>
  BY DEF Advance, requests, turns
<1>2. \A r \in Request :
         \/ stage'[r] = stage[r]
         \/ stage[r] \in RunningStages \cup {"draining"} /\ stage'[r] \in RunningStages
  BY DEF Advance, Drained
<1>3. QueueShape'
  BY <1>1, <1>2 DEF QueueShape, RunningStages
<1>4. ActiveLookups' = ActiveLookups
  BY <1>1 DEF ActiveLookups, Advance, Fits, RunningStages, Drained, TurnShape, Exclusive
<1>5. TurnShape'
  <2>1. \A r \in Request :
           r = current' <=> kind'[r] \in Exclusive /\ stage'[r] \notin {"queued", "answered"}
    BY <1>1, <1>2 DEF TurnShape, RunningStages
  <2>2. \A r \in Request : stage'[r] # stage[r] => Fits(kind[r], stage'[r])
    BY DEF Advance
  <2>3. \A r \in Request :
           /\ kind'[r] \in {"lookup", "status"} =>
                 stage'[r] \in {"queued", "waiting", "body", "failed", "answered"}
           /\ stage'[r] \in {"joining", "resetting", "reopening"} => kind'[r] = "purge"
           /\ stage'[r] = "closing" => kind'[r] \in {"refresh", "suspend"}
           /\ stage'[r] = "waiting" => kind'[r] \notin {"suspend", "purge"}
    BY <1>1, <2>2 DEF TurnShape, Fits
  <2>4. \A l \in awaited' : kind'[l] = "lookup" /\ stage'[l] # "queued"
    BY <1>1, <1>2 DEF TurnShape, TypeOK, RunningStages
  <2>5. current # Nobody /\ stage'[current] = "draining" => stage[current] = "draining"
    BY <1>2 DEF TypeOK, RunningStages
  <2> QED
    BY <1>1, <1>4, <2>1, <2>3, <2>4, <2>5 DEF TurnShape
<1>6. \A r \in Request : stage[r] = "answered" <=> stage'[r] = "answered"
  BY <1>2 DEF RunningStages
<1>7. OrderShape'
  <2>1. queue \in Seq(Request) /\ \A r \in Request : ahead[r] \subseteq Request
    BY DEF TypeOK
  <2>2. \A i \in DOMAIN queue : \A e \in ahead[queue[i]] :
           \/ stage'[e] = "answered" \/ e = current \/ e \in ActiveLookups
           \/ \E j \in DOMAIN queue : j < i /\ queue[j] = e
    BY <1>6, <2>1 DEF OrderShape
  <2>3. current # Nobody /\ stage'[current] = "draining" =>
           \A e \in ahead[current] : stage'[e] = "answered" \/ e \in ActiveLookups
    BY <1>2, <1>6, <2>1 DEF OrderShape, TypeOK, RunningStages
  <2> QED
    BY <1>1, <1>4, <2>2, <2>3 DEF OrderShape
<1>8. current # Nobody /\ Started(current)' => Started(current) \/ Drained(current)
  BY <1>1 DEF Started, Advance, RunningStages, Drained, TypeOK
<1>9. current # Nobody /\ Drained(current) => ActiveLookups = {}
  BY DEF Drained, TurnShape, ActiveLookups
<1>10. MutationAlone'
  BY <1>1, <1>4, <1>8, <1>9 DEF MutationAlone, Started
<1>11. InOrder'
  <2> SUFFICES ASSUME NEW r \in Request, NEW e \in ahead[r],
                      Started(r)', kind[r] # "status", kind[r] # "lookup" \/ kind[e] # "lookup"
               PROVE  stage'[e] = "answered"
    BY <1>1 DEF InOrder
  <2>1. e \in Request
    BY DEF TypeOK
  <2>2. CASE Started(r)
    BY <1>6, <2>1, <2>2 DEF InOrder
  <2>3. CASE ~Started(r)
    <3>1. r = current /\ current # Nobody /\ Drained(r) /\ stage[r] = "draining"
      BY <2>3, RequestAssumption DEF Advance, Started, RunningStages, Drained
    <3> QED
      BY <1>6, <1>9, <2>1, <3>1 DEF OrderShape
  <2> QED
    BY <2>2, <2>3
<1>12. PendingExclusive' = PendingExclusive
  BY <1>1, <1>2 DEF PendingExclusive, Pending, Finished, RunningStages
<1> QED
  BY <1>3, <1>5, <1>7, <1>10, <1>11, <1>12

\* A message arrives: it joins the queue, is answered, or starts because it is a
\* status request or nothing exclusive is pending.
LEMMA ArrivalOrder ==
    ASSUME Inv, NEW r \in Request, NEW k \in Kinds, NEW s, Arrives(r, k), Goes({r}, s),
           UNCHANGED <<current, awaited>>,
           \/ s = "queued" /\ k # "status" /\ queue' = Append(queue, r)
           \/ /\ UNCHANGED queue
              /\ \/ s = "answered"
                 \/ /\ s \in {"waiting", "body", "failed"}
                    /\ k = "status" \/ (k = "lookup" /\ queuedExclusive = 0)
    PROVE  OrderInv'
<1> USE DEF Inv, OrderInv
<1>1. /\ stage[r] = "unsent" /\ kind[r] = "none" /\ r # current /\ r \notin awaited
      /\ r \notin ActiveLookups
  BY DEF Arrives, QueueShape, TurnShape, ActiveLookups, Exclusive, Kinds
<1>2. /\ kind' = [kind EXCEPT ![r] = k] /\ ahead' = [ahead EXCEPT ![r] = Pending]
      /\ \A x \in Request : stage'[x] = IF x = r THEN s ELSE stage[x]
      /\ queue \in Seq(Request) /\ \A x \in Request : ahead[x] \subseteq Request
  BY DEF Arrives, Goes, TypeOK
<1>3. \A x \in Request : kind'[x] = IF x = r THEN k ELSE kind[x]
  BY <1>2 DEF TypeOK
<1>4. \A x \in Request : ahead'[x] = IF x = r THEN Pending ELSE ahead[x]
  BY <1>2 DEF TypeOK
<1>5. \A i \in DOMAIN queue : queue[i] \in Request /\ queue[i] # r /\ stage[queue[i]] = "queued"
  BY <1>1, <1>2 DEF QueueShape
<1>6. \/ UNCHANGED queue
      \/ /\ s = "queued" /\ DOMAIN queue' = 1..(Len(queue) + 1) /\ DOMAIN queue = 1..Len(queue)
         /\ queue'[Len(queue) + 1] = r /\ \A i \in DOMAIN queue : queue'[i] = queue[i]
  BY <1>2
<1>7. QueueShape'
  BY <1>1, <1>2, <1>3, <1>5, <1>6 DEF QueueShape, Kinds
<1>8. current # Nobody => current \in Request /\ queuedExclusive # 0
  BY NoneExclusive DEF TypeOK
<1>9. \A x \in Request : x # r =>
         (x \in ActiveLookups' <=> x \in ActiveLookups)
  BY <1>2, <1>3 DEF ActiveLookups
<1>10. current # Nobody => ActiveLookups' = ActiveLookups
  BY <1>1, <1>2, <1>3, <1>8 DEF ActiveLookups
<1>11. TurnShape'
  BY <1>1, <1>2, <1>3, <1>8, <1>10 DEF TurnShape, TypeOK, Exclusive, Kinds
<1>12. \A e \in Pending : kind[e] \notin {"none", "status"} /\ e \in Request /\ e # r
  BY <1>1 DEF Pending, Finished, QueueShape
<1>13. \A e \in Pending :
          e = current \/ e \in ActiveLookups \/ \E j \in DOMAIN queue : queue[j] = e
  <2> SUFFICES ASSUME NEW e \in Pending, stage[e] # "queued"
               PROVE  e = current \/ e \in ActiveLookups
    BY DEF QueueShape, Pending
  <2>1. e \in Request /\ kind[e] \in Exclusive \cup {"lookup"} /\ stage[e] # "answered"
    BY <1>12, KindAssumption DEF Pending, Finished, TypeOK, Exclusive, Kinds
  <2> QED
    BY <2>1 DEF TurnShape, ActiveLookups
<1>14. \A x \in Request : \A e \in ahead[x] : e \in Request /\ e # r
  BY <1>1, <1>2 DEF OrderShape
<1>15. OrderShape'
  <2>1. \A x \in Request : \A e \in ahead'[x] : kind'[e] \notin {"none", "status"}
    BY <1>3, <1>4, <1>12, <1>14 DEF OrderShape
  <2>2. \A i \in DOMAIN queue' : \A e \in ahead'[queue'[i]] :
           \/ stage'[e] = "answered" \/ e = current' \/ e \in ActiveLookups'
           \/ \E j \in DOMAIN queue' : j < i /\ queue'[j] = e
    <3> SUFFICES ASSUME NEW i \in DOMAIN queue', NEW e \in ahead'[queue'[i]]
                 PROVE  \/ stage'[e] = "answered" \/ e = current' \/ e \in ActiveLookups'
                        \/ \E j \in DOMAIN queue' : j < i /\ queue'[j] = e
      OBVIOUS
    <3>1. CASE i \in DOMAIN queue
      <4>1. queue'[i] = queue[i] /\ e \in ahead[queue[i]]
        BY <1>4, <1>5, <1>6, <3>1
      <4>2. e \in Request /\ e # r
        BY <1>5, <1>14, <3>1, <4>1
      <4>3. \/ stage[e] = "answered" \/ e = current \/ e \in ActiveLookups
            \/ \E j \in DOMAIN queue : j < i /\ queue[j] = e
        BY <3>1, <4>1 DEF OrderShape
      <4> QED
        BY <1>2, <1>6, <1>9, <4>2, <4>3
    <3>2. CASE i \notin DOMAIN queue
      <4>1. i = Len(queue) + 1 /\ queue'[i] = r /\ e \in Pending /\ DOMAIN queue = 1..Len(queue)
        BY <1>2, <1>4, <1>6, <3>2
      <4> QED
        BY <1>2, <1>6, <1>9, <1>12, <1>13, <4>1
    <3> QED
      BY <3>1, <3>2
  <2>3. current' # Nobody /\ stage'[current'] = "draining" =>
           \A e \in ahead'[current'] : stage'[e] = "answered" \/ e \in ActiveLookups'
    BY <1>1, <1>2, <1>4, <1>8, <1>10, <1>14 DEF OrderShape
  <2> QED
    BY <2>1, <2>2, <2>3 DEF OrderShape
<1>16. MutationAlone'
  BY <1>1, <1>2, <1>8, <1>10 DEF MutationAlone, Started
<1>17. InOrder'
  <2> SUFFICES ASSUME NEW x \in Request, NEW e \in ahead'[x], Started(x)',
                      kind'[x] # "status", kind'[x] # "lookup" \/ kind'[e] # "lookup"
               PROVE  stage'[e] = "answered"
    BY DEF InOrder
  <2>1. CASE x = r
    <3>1. k = "lookup" /\ queuedExclusive = 0 /\ e \in Pending /\ kind[e] # "lookup"
      BY <1>2, <1>3, <1>4, <1>12, <2>1 DEF Started
    <3>2. kind[e] \in Exclusive /\ stage[e] # "answered"
      BY <1>12, <3>1, KindAssumption DEF Pending, Finished, Exclusive, TypeOK, Kinds
    <3> QED
      BY <1>12, <3>1, <3>2, NoneExclusive
  <2>2. CASE x # r
    BY <1>2, <1>3, <1>4, <1>14, <2>2 DEF InOrder, Started
  <2> QED
    BY <2>1, <2>2
<1> QED
  BY <1>7, <1>11, <1>15, <1>16, <1>17

\* The head of the queue leaves it: a lookup starts, an exclusive request has its
\* turn and waits for the lookups that run.
LEMMA DequeueOrder ==
    ASSUME Inv, NEW s, current = Nobody, queue # << >>, queue' = Tail(queue),
           UNCHANGED requests, Goes({Head(queue)}, s),
           \/ /\ kind[Head(queue)] = "lookup" /\ s \in {"waiting", "body", "failed"}
              /\ UNCHANGED <<current, awaited>>
           \/ /\ kind[Head(queue)] # "lookup" /\ s = "draining"
              /\ current' = Head(queue) /\ awaited' = ActiveLookups
    PROVE  OrderInv'
<1> USE DEF Inv, OrderInv
<1> DEFINE h == Head(queue)
<1>1. /\ queue \in Seq(Request) /\ h \in Request /\ h = queue[1]
      /\ DOMAIN queue = 1..Len(queue) /\ Len(queue) \in Nat /\ Len(queue) > 0
      /\ DOMAIN queue' = 1..(Len(queue) - 1)
      /\ \A i \in DOMAIN queue' : queue'[i] = queue[i + 1] /\ i + 1 \in DOMAIN queue
  BY DEF TypeOK
<1>2. /\ stage[h] = "queued" /\ h # Nobody
      /\ kind[h] \in Exclusive \cup {"lookup"}
  <2>1. stage[h] = "queued" /\ 1 \in DOMAIN queue
    BY <1>1 DEF QueueShape
  <2>2. kind[h] \in Kind /\ kind[h] # "status"
    BY <1>1, <2>1 DEF QueueShape, TypeOK
  <2> QED
    BY <1>1, <2>1, <2>2, RequestAssumption, KindAssumption DEF Exclusive
<1>3. /\ UNCHANGED <<kind, ahead>>
      /\ \A r \in Request : stage'[r] = IF r = h THEN s ELSE stage[r]
      /\ \A r \in Request : ahead[r] \subseteq Request
  BY DEF requests, Goes, TypeOK
<1>4. \A i \in DOMAIN queue : i # 1 => queue[i] # h
  BY <1>1 DEF QueueShape
<1>5. QueueShape'
  <2>1. \A r \in Request : stage'[r] = "queued" <=> stage[r] = "queued" /\ r # h
    BY <1>3
  <2>2. \A r \in Request : (\E i \in DOMAIN queue' : queue'[i] = r) <=>
                           (\E i \in DOMAIN queue : queue[i] = r) /\ r # h
    <3>1. \A i \in DOMAIN queue : i # 1 => i - 1 \in DOMAIN queue' /\ queue'[i - 1] = queue[i]
      BY <1>1
    <3>2. \A i \in DOMAIN queue' : queue'[i] # h
      <4> SUFFICES ASSUME NEW i \in DOMAIN queue' PROVE queue'[i] # h
        OBVIOUS
      <4>1. i + 1 \in DOMAIN queue /\ i + 1 # 1 /\ queue'[i] = queue[i + 1]
        BY <1>1
      <4> QED
        BY <1>4, <4>1
    <3>3. \A i \in DOMAIN queue' : \E j \in DOMAIN queue : queue[j] = queue'[i]
      BY <1>1
    <3>4. \A i \in DOMAIN queue : queue[i] # h => \E j \in DOMAIN queue' : queue'[j] = queue[i]
      BY <1>1, <3>1
    <3> QED
      BY <3>2, <3>3, <3>4
  <2>3. \A i, j \in DOMAIN queue' : queue'[i] = queue'[j] => i = j
    BY <1>1 DEF QueueShape
  <2> QED
    BY <1>2, <1>3, <2>1, <2>2, <2>3 DEF QueueShape
<1>6. \A r \in Request :
         r \in ActiveLookups' <=> r \in ActiveLookups \/ (r = h /\ kind[h] = "lookup")
  BY <1>2, <1>3 DEF ActiveLookups, Exclusive, Kinds
<1>7. TurnShape'
  <2>1. CASE kind[h] = "lookup"
    BY <1>2, <1>3, <1>6, <2>1 DEF TurnShape, TypeOK, Exclusive, Kinds
  <2>2. CASE kind[h] # "lookup"
    <3>1. ActiveLookups' = ActiveLookups /\ kind[h] \in Exclusive /\ current' = h
      BY <1>2, <1>6, <2>2 DEF ActiveLookups
    <3>2. \A r \in Request :
             r = current' <=> kind'[r] \in Exclusive /\ stage'[r] \notin {"queued", "answered"}
      BY <1>3, <2>2, <3>1, RequestAssumption DEF TurnShape
    <3>3. \A l \in awaited' : kind'[l] = "lookup" /\ stage'[l] # "queued"
      BY <1>3, <2>2 DEF ActiveLookups
    <3> QED
      BY <1>3, <2>2, <3>1, <3>2, <3>3 DEF TurnShape, Exclusive
  <2> QED
    BY <2>1, <2>2
<1>8. \A e \in ahead[h] : stage[e] = "answered" \/ e \in ActiveLookups
  <2>1. \A e \in ahead[h] : e \in Request /\ ~ \E j \in DOMAIN queue : j < 1 /\ queue[j] = e
    BY <1>1, <1>3
  <2> QED
    BY <1>1, <2>1, RequestAssumption DEF OrderShape
<1>9. \A r \in Request : \A e \in ahead[r] : e \in Request
  BY <1>3
<1>10. OrderShape'
  <2>1. \A i \in DOMAIN queue' : \A e \in ahead'[queue'[i]] :
           \/ stage'[e] = "answered" \/ e = current' \/ e \in ActiveLookups'
           \/ \E j \in DOMAIN queue' : j < i /\ queue'[j] = e
    <3> SUFFICES ASSUME NEW i \in DOMAIN queue', NEW e \in ahead[queue[i + 1]]
                 PROVE  \/ stage'[e] = "answered" \/ e = current' \/ e \in ActiveLookups'
                        \/ \E j \in DOMAIN queue' : j < i /\ queue'[j] = e
      BY <1>1, <1>3
    <3>1. e \in Request /\ e # Nobody
      BY <1>1, <1>9, RequestAssumption
    <3>2. \/ stage[e] = "answered" \/ e \in ActiveLookups
          \/ \E j \in DOMAIN queue : j < i + 1 /\ queue[j] = e
      BY <1>1, <3>1 DEF OrderShape
    <3>3. CASE stage[e] = "answered" \/ e \in ActiveLookups
      BY <1>2, <1>3, <1>6, <3>1, <3>3
    <3>4. CASE \E j \in DOMAIN queue : j < i + 1 /\ queue[j] = e
      <4>1. PICK j \in DOMAIN queue : j < i + 1 /\ queue[j] = e
        BY <3>4
      <4>2. CASE j = 1
        BY <1>1, <1>6, <3>1, <4>1, <4>2
      <4>3. CASE j # 1
        <5>1. j - 1 \in DOMAIN queue' /\ j - 1 < i /\ queue'[j - 1] = e
          BY <1>1, <4>1, <4>3
        <5> QED
          BY <5>1
      <4> QED
        BY <4>2, <4>3
    <3> QED
      BY <3>2, <3>3, <3>4
  <2>2. current' # Nobody /\ stage'[current'] = "draining" =>
           \A e \in ahead'[current'] : stage'[e] = "answered" \/ e \in ActiveLookups'
    BY <1>1, <1>2, <1>3, <1>6, <1>8, <1>9
  <2> QED
    BY <1>3, <2>1, <2>2 DEF OrderShape
<1>11. MutationAlone'
  BY <1>1, <1>3 DEF MutationAlone, Started
<1>12. InOrder'
  <2> SUFFICES ASSUME NEW r \in Request, NEW e \in ahead[r], Started(r)',
                      kind[r] # "status", kind[r] # "lookup" \/ kind[e] # "lookup"
               PROVE  stage'[e] = "answered"
    BY <1>3 DEF InOrder
  <2>1. CASE r = h
    BY <1>2, <1>3, <1>8, <1>9, <2>1 DEF ActiveLookups, Started
  <2>2. CASE r # h
    BY <1>2, <1>3, <1>9, <2>2 DEF InOrder, Started
  <2> QED
    BY <2>1, <2>2
<1> QED
  BY <1>5, <1>7, <1>10, <1>11, <1>12

\* A running request ends; when it has the turn, it gives it up.
LEMMA EndOrder ==
    ASSUME Inv, NEW r \in Request, stage[r] \in {"body", "failed"}, Goes({r}, "answered"),
           UNCHANGED <<requests, queue>>,
           \/ kind[r] \in {"lookup", "status"} /\ UNCHANGED <<current, awaited>>
           \/ current = r /\ current' = Nobody /\ awaited' = {}
    PROVE  OrderInv'
<1> USE DEF Inv, OrderInv
<1>1. /\ UNCHANGED <<kind, ahead, queue>>
      /\ \A x \in Request : stage'[x] = IF x = r THEN "answered" ELSE stage[x]
      /\ \A x \in Request : ahead[x] \subseteq Request
      /\ queue \in Seq(Request)
  BY DEF requests, Goes, TypeOK
<1>2. QueueShape'
  BY <1>1 DEF QueueShape
<1>3. \A x \in Request : x \in ActiveLookups' <=> x \in ActiveLookups /\ x # r
  BY <1>1 DEF ActiveLookups
<1>4. current' = current => current # r
  BY RequestAssumption DEF TurnShape, Exclusive, Kinds
<1>5. TurnShape'
  BY <1>1, <1>3, <1>4, RequestAssumption DEF TurnShape, TypeOK, ActiveLookups, Exclusive, Kinds
<1>6. \A x \in Request : stage[x] = "answered" => stage'[x] = "answered"
  BY <1>1
<1>7. OrderShape'
  <2>1. \A i \in DOMAIN queue : \A e \in ahead[queue[i]] :
           \/ stage'[e] = "answered" \/ e = current' \/ e \in ActiveLookups'
           \/ \E j \in DOMAIN queue : j < i /\ queue[j] = e
    <3> SUFFICES ASSUME NEW i \in DOMAIN queue, NEW e \in ahead[queue[i]], e # r
                 PROVE  \/ stage'[e] = "answered" \/ e = current' \/ e \in ActiveLookups'
                        \/ \E j \in DOMAIN queue : j < i /\ queue[j] = e
      BY <1>1
    <3>1. e \in Request
      BY <1>1
    <3> QED
      BY <1>3, <1>4, <1>6, <3>1 DEF OrderShape
  <2>2. current' # Nobody /\ stage'[current'] = "draining" =>
           \A e \in ahead[current'] : stage'[e] = "answered" \/ e \in ActiveLookups'
    BY <1>1, <1>3, <1>4 DEF OrderShape, TypeOK
  <2> QED
    BY <1>1, <2>1, <2>2 DEF OrderShape
<1>8. MutationAlone'
  BY <1>1, <1>3, <1>4 DEF MutationAlone, Started, ActiveLookups, TypeOK
<1>9. InOrder'
  BY <1>1 DEF InOrder, Started
<1> QED
  BY <1>2, <1>5, <1>7, <1>8, <1>9

-------------------------------------------------------------------------------
(* Counts *)

\* Exact counts are natural numbers.
LEMMA CountsAreNaturals ==
    ASSUME CountsExact'
    PROVE  queuedImport' \in Nat /\ queuedExclusive' \in Nat
BY CountedFinite, FS_CardinalityType DEF CountsExact

\* Requests in W go on or throw: the import among them is no longer queued.
LEMMA MoveCounts ==
    ASSUME Inv, NEW W \in SUBSET Request, UNCHANGED <<kind, current>>, Proceed(W) \/ Fail(W),
           \A r \in W : kind[r] = "import" => stage[r] \in {"draining", "waiting"}
    PROVE  ImportsExact'
<1> USE DEF Inv, OrderInv
<1>1. PICK s \in {"body", "failed"} :
         /\ stage' = [r \in Request |-> IF r \in W THEN s ELSE stage[r]]
         /\ importActive' \in {importActive, importActive \/ (ImportIn(W) /\ s = "body")}
         /\ queuedImport' = IF ImportIn(W) THEN queuedImport - 1 ELSE queuedImport
  BY DEF Proceed, Fail, Goes
<1>2. queuedImport = Cardinality(QueuedImports)
  BY DEF CountsExact
<1>3. \A r \in W : kind[r] = "import" => r = current
  BY DEF TurnShape, Exclusive, Kinds
<1>4. CASE ImportIn(W)
  <2>1. QueuedImports' = QueuedImports \ {current} /\ current \in QueuedImports
    BY <1>1, <1>3, <1>4 DEF QueuedImports, ImportIn
  <2>2. ~importActive /\ current # Nobody
    BY <1>4, RequestAssumption DEF CountsExact, ImportIn
  <2>3. queuedImport' = Cardinality(QueuedImports')
    BY <1>1, <1>2, <1>4, <2>1, CountSteps, CountedFinite
  <2>4. importActive' => s = "body"
    BY <1>1, <2>2 DEF TypeOK
  <2> QED
    BY <1>1, <1>4, <2>2, <2>3, <2>4 DEF ImportsExact, ImportIn
<1>5. CASE ~ImportIn(W)
  <2>1. QueuedImports' = QueuedImports
    BY <1>1, <1>3, <1>5 DEF QueuedImports, ImportIn
  <2>2. importActive' => importActive
    BY <1>1, <1>5 DEF TypeOK
  <2>3. importActive => current \in Request /\ current \notin W /\ kind[current] = "import"
                        /\ stage[current] = "body" /\ current # Nobody
    BY <1>5 DEF CountsExact, ImportIn, TypeOK
  <2> QED
    BY <1>1, <1>2, <1>5, <2>1, <2>2, <2>3 DEF ImportsExact
<1> QED
  BY <1>4, <1>5

\* A request of another kind moves, or a draining import waits: nothing to count.
LEMMA KeepCounts ==
    ASSUME Inv, NEW r \in Request, NEW s, Goes({r}, s), UNCHANGED <<imports, kind, current>>,
           kind[r] # "import" \/ (stage[r] = "draining" /\ s = "waiting")
    PROVE  ImportsExact'
<1>1. \A x \in Request : stage'[x] = IF x = r THEN s ELSE stage[x]
  BY DEF Goes
<1>2. QueuedImports' = QueuedImports
  BY <1>1 DEF QueuedImports
<1>3. importActive => current # Nobody /\ kind[current] = "import" /\ stage[current] = "body"
                      /\ current \in Request
  BY DEF Inv, CountsExact, TypeOK
<1> QED
  BY <1>1, <1>2, <1>3 DEF ImportsExact, Inv, CountsExact, imports

\* A message arrives that is no import, or is one and is queued.
LEMMA ArrivalCounts ==
    ASSUME Inv, NEW r \in Request, NEW k \in Kinds, NEW s, Arrives(r, k), Goes({r}, s),
           UNCHANGED <<current, importActive>>,
           \/ (k # "import" \/ s = "answered") /\ UNCHANGED queuedImport
           \/ k = "import" /\ s = "queued" /\ queuedImport' = queuedImport + 1
    PROVE  ImportsExact'
<1> USE DEF Inv, OrderInv
<1>1. /\ \A x \in Request : stage'[x] = IF x = r THEN s ELSE stage[x]
      /\ \A x \in Request : kind'[x] = IF x = r THEN k ELSE kind[x]
      /\ kind[r] = "none" /\ stage[r] = "unsent" /\ r # current
  BY DEF Arrives, Goes, TypeOK, QueueShape, TurnShape, Exclusive, Kinds
<1>2. importActive => current # Nobody /\ kind[current] = "import" /\ stage[current] = "body"
                      /\ current \in Request
  BY DEF CountsExact, TypeOK
<1>3. CASE k # "import" \/ s = "answered"
  <2>1. QueuedImports' = QueuedImports
    BY <1>1, <1>3 DEF QueuedImports
  <2> QED
    BY <1>1, <1>2, <1>3, <2>1 DEF ImportsExact, CountsExact
<1>4. CASE k = "import" /\ s = "queued" /\ queuedImport' = queuedImport + 1
  <2>1. QueuedImports' = QueuedImports \cup {r} /\ r \notin QueuedImports
    BY <1>1, <1>4 DEF QueuedImports
  <2>2. queuedImport' = Cardinality(QueuedImports')
    BY <1>4, <2>1, CountSteps, CountedFinite DEF CountsExact
  <2> QED
    BY <1>1, <1>2, <2>2 DEF ImportsExact
<1> QED
  BY <1>3, <1>4

\* The exclusive requests that wait or run are counted when they arrive.
LEMMA ArrivalPending ==
    ASSUME Inv, NEW r \in Request, NEW k \in Kinds, NEW s \in Stages \ {"unsent"},
           Arrives(r, k), Goes({r}, s),
           \/ /\ k \in {"lookup", "status"} \/ s = "answered"
              /\ UNCHANGED queuedExclusive
           \/ k \in Exclusive /\ s # "answered" /\ queuedExclusive' = queuedExclusive + 1
    PROVE  queuedExclusive' = Cardinality(PendingExclusive')
<1> USE DEF Inv, OrderInv
<1>1. /\ \A x \in Request : stage'[x] = IF x = r THEN s ELSE stage[x]
      /\ \A x \in Request : kind'[x] = IF x = r THEN k ELSE kind[x]
      /\ stage[r] = "unsent"
  BY DEF Arrives, Goes, TypeOK
<1>2. CASE (k \in {"lookup", "status"} \/ s = "answered") /\ UNCHANGED queuedExclusive
  <2>1. PendingExclusive' = PendingExclusive
    BY <1>1, <1>2 DEF PendingExclusive, Pending, Finished
  <2> QED
    BY <1>2, <2>1 DEF CountsExact
<1>3. CASE k \in Exclusive /\ s # "answered" /\ queuedExclusive' = queuedExclusive + 1
  <2>1. PendingExclusive' = PendingExclusive \cup {r} /\ r \notin PendingExclusive
    BY <1>1, <1>3 DEF PendingExclusive, Pending, Finished, Exclusive, Kinds
  <2> QED
    BY <1>3, <2>1, CountSteps, CountedFinite DEF CountsExact
<1> QED
  BY <1>2, <1>3

-------------------------------------------------------------------------------
(* The database *)

\* _ensureDatabasePrepared carries its caller to one of three stages.
LEMMA EnsureMoves ==
    ASSUME Inv, NEW r \in Request, NEW w \in BOOLEAN, NEW p, EnsurePrepared(r, w, p)
    PROVE  /\ \E s \in {"waiting", "body", "failed"} : Goes({r}, s)
           /\ ready' \in BOOLEAN /\ promise' \in {"none", "open", "purge"}
           /\ db' \in {"closed", "opening", "halfopen", "open"}
           /\ faults' \in 0..MaxFaults /\ importActive' \in BOOLEAN
           /\ r # current => UNCHANGED imports
<1> USE DEF Inv, TypeOK
<1>1. \E s \in {"waiting", "body", "failed"} : Goes({r}, s)
  BY DEF EnsurePrepared, TranslatorPrepares, Proceed, Fail
<1>2. ready' \in BOOLEAN /\ promise' \in {"none", "open", "purge"}
      /\ db' \in {"closed", "opening", "halfopen", "open"}
  BY DEF EnsurePrepared, TranslatorPrepares
<1>3. faults' \in 0..MaxFaults
  BY KindAssumption DEF EnsurePrepared, TranslatorPrepares, Fault
<1>4. importActive' \in BOOLEAN /\ (r # current => UNCHANGED imports)
  BY DEF EnsurePrepared, TranslatorPrepares, Proceed, Fail, ImportIn, imports
<1> QED
  BY <1>1, <1>2, <1>3, <1>4

\* It counts an import out of the queue when it goes on or throws, not before.
LEMMA EnsureCounts ==
    ASSUME Inv, NEW w, NEW p, NEW r \in Request, EnsurePrepared(r, w, p),
           UNCHANGED <<kind, current>>, kind[r] = "import" => stage[r] = "draining"
    PROVE  ImportsExact'
<1>1. CASE Goes({r}, "waiting") /\ UNCHANGED imports
  BY <1>1, KeepCounts
<1>2. CASE Proceed({r}) \/ Fail({r})
  BY <1>2, MoveCounts
<1> QED
  BY <1>1, <1>2 DEF EnsurePrepared, TranslatorPrepares

\* It lets its caller past only with an open database, and leaves a promise that
\* something settles.  Only a status request asks while a purge is under way.
LEMMA EnsureDatabase ==
    ASSUME Inv, NEW r \in Request, NEW w, NEW p, EnsurePrepared(r, w, p),
           p = IsPrepared \/ (p = FALSE /\ r = current /\ stage[r] = "closing" /\ db = "open"),
           ~suspended', UNCHANGED current,
           \A x \in Request : x # r => kind'[x] = kind[x],
           kind'[r] \notin {"suspend", "purge"},
           (kind'[r] = "status" /\ r # current) \/ ~IsPurging,
           r # current => stage[r] \in {"unsent", "queued"}
    PROVE  DatabaseInv'
<1> USE DEF Inv, OrderInv, DatabaseInv
<1>1. PICK s \in {"waiting", "body", "failed"} :
         \A x \in Request : stage'[x] = IF x = r THEN s ELSE stage[x]
  BY DEF EnsurePrepared, TranslatorPrepares, Proceed, Fail, Goes
<1>2. current # Nobody => current \in Request
  BY DEF TypeOK
<1>3. IsPurging => r # current
  OBVIOUS
<1>4. IsPurging' = IsPurging
  BY <1>1, <1>2, <1>3 DEF IsPurging
<1>5. \/ s = "waiting" /\ promise # "none" /\ UNCHANGED <<promise, db>>
      \/ /\ s \in {"body", "failed"} /\ promise = "none" /\ IsPrepared
         /\ UNCHANGED <<promise, db>>
      \/ /\ s = "waiting" /\ promise = "none" /\ IsPurging /\ ~IsPrepared
         /\ promise' = "purge" /\ UNCHANGED db
      \/ /\ s = "waiting" /\ promise = "none" /\ ~IsPurging
         /\ ~IsPrepared \/ (r = current /\ stage[r] = "closing")
         /\ promise' = "open" /\ db' = "opening"
  BY <1>1, <1>2, <1>3 DEF EnsurePrepared, TranslatorPrepares, Proceed, Fail, Goes, IsPurging
<1>6. current # Nobody /\ stage'[current] \in {"resetting", "reopening", "closing"} =>
         r # current
  BY <1>1, <1>2
<1>7. DatabaseShape'
  <2>1. \A x \in Request : stage'[x] = "waiting" /\ kind'[x] # "status" =>
           promise' = "open" /\ ~suspended'
    BY <1>1, <1>4, <1>5 DEF DatabaseShape, PromiseSettles, TypeOK
  <2>2. current' # Nobody /\ stage'[current'] = "resetting" => db' = "closed"
    BY <1>1, <1>2, <1>5, <1>6 DEF DatabaseShape, IsPurging
  <2>3. current' # Nobody /\ stage'[current'] = "closing" => IsPrepared' /\ ~suspended'
    BY <1>1, <1>2, <1>5, <1>6 DEF DatabaseShape, IsPrepared
  <2>4. IsPurging' => promise' # "open"
    BY <1>4, <1>5 DEF DatabaseShape
  <2> QED
    BY <2>1, <2>2, <2>3, <2>4 DEF DatabaseShape
<1>8. BodiesFindDatabase'
  <2> SUFFICES ASSUME NEW x \in Request, stage'[x] = "body",
                      kind'[x] \notin {"status", "suspend", "purge"}
               PROVE  db' = "open"
    BY DEF BodiesFindDatabase
  <2>1. CASE x = r
    BY <1>1, <1>5, <2>1 DEF PromiseSettles, IsPrepared, IsPurging
  <2>2. CASE x # r
    <3>1. stage[x] = "body" /\ db = "open"
      BY <1>1, <2>2 DEF BodiesFindDatabase
    <3>2. CASE UNCHANGED db
      BY <3>1, <3>2
    <3>3. CASE db' # db
      <4>1. r = current /\ stage[r] = "closing"
        BY <1>5, <3>1, <3>3 DEF IsPrepared
      <4>2. ActiveLookups = {} /\ x # current
        BY <2>2, <4>1, RequestAssumption DEF MutationAlone, Started
      <4>3. kind[x] = kind'[x] /\ kind[x] # "none" /\ kind[x] # "lookup"
        BY <2>2, <3>1, <4>2 DEF QueueShape, ActiveLookups
      <4>4. kind[x] \in Exclusive
        BY <4>3, KindAssumption DEF TypeOK, Exclusive, Kinds
      <4> QED
        BY <3>1, <4>2, <4>4 DEF TurnShape
    <3> QED
      BY <3>2, <3>3
  <2> QED
    BY <2>1, <2>2
<1>9. PromiseSettles'
  <2>1. Waiting' # {} => promise' # "none"
    BY <1>1, <1>5 DEF PromiseSettles, Waiting
  <2>2. promise' = "open" => db' \in {"opening", "halfopen"}
    BY <1>5 DEF PromiseSettles
  <2>3. promise' = "purge" => IsPurging'
    BY <1>4, <1>5 DEF PromiseSettles
  <2>4. db' \in {"opening", "halfopen"} =>
           promise' = "open" \/ (current' # Nobody /\ stage'[current'] = "reopening")
    BY <1>1, <1>2, <1>3, <1>5 DEF PromiseSettles, IsPurging
  <2> QED
    BY <2>1, <2>2, <2>3, <2>4 DEF PromiseSettles
<1> QED
  BY <1>7, <1>8, <1>9

\* A step that opens, closes and settles nothing, and lets nobody past.
LEMMA KeepsDatabase ==
    ASSUME Inv, UNCHANGED <<db, promise, suspended>>,
           \A x \in Request :
              stage'[x] \in {"waiting", "body", "closing", "resetting", "reopening"} =>
              stage'[x] = stage[x] /\ kind'[x] = kind[x],
           IsPurging => current' = current /\ stage'[current] = stage[current],
           current' \in {current, Nobody} \/ (current' \in Request /\ stage'[current'] = "draining")
    PROVE  DatabaseInv'
<1> USE DEF Inv, DatabaseInv
<1>1. current # Nobody => current \in Request
  BY DEF TypeOK
<1>2. current' # Nobody /\ stage'[current'] \in {"closing", "resetting", "reopening"} =>
         current' = current /\ stage[current] = stage'[current] /\ kind'[current] = kind[current]
  BY <1>1
<1>3. DatabaseShape'
  BY <1>2 DEF DatabaseShape, IsPrepared, IsPurging
<1>4. BodiesFindDatabase'
  BY DEF BodiesFindDatabase
<1>5. Waiting' \subseteq Waiting
  BY DEF Waiting
<1>6. PromiseSettles'
  BY <1>5 DEF PromiseSettles, IsPurging
<1> QED
  BY <1>3, <1>4, <1>6

-------------------------------------------------------------------------------
(* The invariant: initial states *)

\* A worker that has received nothing satisfies the invariant.
LEMMA InitInv == Init => Inv
<1> SUFFICES ASSUME Init
             PROVE  Inv
  OBVIOUS
<1> USE DEF Init
<1>1. TypeOK
  <2>1. queue \in Seq(Request) /\ awaited \subseteq Request
    OBVIOUS
  <2>2. stage \in [Request -> Stages] /\ ahead \in [Request -> SUBSET Request]
    BY DEF Stages
  <2>3. kind \in [Request -> Kind \cup {"none"}] /\ faults \in 0..MaxFaults
    BY KindAssumption
  <2> QED
    BY <2>1, <2>2, <2>3 DEF TypeOK
<1>2. OrderInv
  BY RequestAssumption DEF OrderInv, QueueShape, TurnShape, OrderShape, MutationAlone, InOrder, Exclusive, Kinds
<1>3. DatabaseInv
  BY DEF DatabaseInv, DatabaseShape, BodiesFindDatabase, PromiseSettles, Waiting
<1>4. QueuedImports = {} /\ PendingExclusive = {}
  BY DEF QueuedImports, PendingExclusive, Pending, Finished
<1>5. CountsExact
  BY <1>4, FS_EmptySet DEF CountsExact
<1> QED
  BY <1>1, <1>2, <1>3, <1>5 DEF Inv

-------------------------------------------------------------------------------
(* Receipt *)

\* A status request bypasses the queue; it may start to open the database.
LEMMA ReceiveStatusStep ==
    ASSUME Inv, NEW r \in Request, ReceiveStatus(r)
    PROVE  Inv'
<1> USE DEF ReceiveStatus
<1>1. /\ Arrives(r, "status") /\ "status" \in Kinds
      /\ UNCHANGED <<queue, current, awaited, queuedExclusive, suspended>>
      /\ stage[r] = "unsent" /\ r # current
      /\ \A x \in Request : kind'[x] = IF x = r THEN "status" ELSE kind[x]
  BY DEF Arrives, turns, Kinds, Inv, OrderInv, QueueShape, TurnShape, TypeOK, Exclusive
<1>2. PICK s \in {"answered", "waiting", "body", "failed"} : Goes({r}, s)
  <2>1. CASE EnsurePrepared(r, ready, IsPrepared)
    <3>1. ready \in BOOLEAN
      BY DEF Inv, TypeOK
    <3> QED
      BY <2>1, <3>1, EnsureMoves
  <2> QED
    BY <2>1
<1>3. /\ UNCHANGED imports /\ ready' \in BOOLEAN /\ promise' \in {"none", "open", "purge"}
      /\ db' \in {"closed", "opening", "halfopen", "open"} /\ faults' \in 0..MaxFaults
  <2>1. CASE EnsurePrepared(r, ready, IsPrepared)
    <3>1. ready \in BOOLEAN
      BY DEF Inv, TypeOK
    <3> QED
      BY <1>1, <2>1, <3>1, EnsureMoves
  <2> QED
    BY <2>1 DEF Inv, TypeOK, imports
<1>4. OrderInv'
  BY <1>1, <1>2, ArrivalOrder
<1>5. DatabaseInv'
  <2>1. CASE Goes({r}, "answered") /\ UNCHANGED <<promise, db>>
    <3>1. /\ \A x \in Request : stage'[x] = IF x = r THEN "answered" ELSE stage[x]
          /\ current \in Request \cup {Nobody}
      BY <2>1 DEF Goes, Inv, TypeOK
    <3> QED
      BY <1>1, <2>1, <3>1, KeepsDatabase DEF IsPurging
  <2>2. CASE ~suspended /\ EnsurePrepared(r, ready, IsPrepared)
    <3>1. ~suspended' /\ kind'[r] = "status" /\ UNCHANGED current
      BY <1>1, <2>2
    <3> QED
      BY <1>1, <2>2, <3>1, EnsureDatabase
  <2> QED
    BY <2>1, <2>2
<1>6. CountsExact'
  <2>1. ImportsExact'
    BY <1>1, <1>2, <1>3, ArrivalCounts DEF imports
  <2>2. queuedExclusive' = Cardinality(PendingExclusive')
    BY <1>1, <1>2, ArrivalPending DEF Stages
  <2> QED
    BY <2>1, <2>2 DEF CountsExact, ImportsExact
<1>7. TypeOK'
  <2>1. kind' \in [Request -> Kind \cup {"none"}] /\ ahead' \in [Request -> SUBSET Request]
    BY <1>1 DEF Arrives, Pending, Inv, TypeOK
  <2>2. stage' \in [Request -> Stages]
    BY <1>2 DEF Goes, Stages, Inv, TypeOK
  <2> QED
    BY <1>1, <1>3, <1>6, <2>1, <2>2, CountsAreNaturals DEF Inv, TypeOK, imports
<1> QED
  BY <1>4, <1>5, <1>6, <1>7 DEF Inv

\* What every arrival keeps of the types.
LEMMA ArrivalTypes ==
    ASSUME Inv, NEW r \in Request, NEW k \in Kind, NEW s \in Stages, Arrives(r, k), Goes({r}, s)
    PROVE  /\ kind' \in [Request -> Kind \cup {"none"}] /\ ahead' \in [Request -> SUBSET Request]
           /\ stage' \in [Request -> Stages]
           /\ stage[r] = "unsent" /\ r # current /\ k \in Kinds
           /\ \A x \in Request : kind'[x] = IF x = r THEN k ELSE kind[x]
           /\ \A x \in Request : stage'[x] = IF x = r THEN s ELSE stage[x]
<1>1. kind' \in [Request -> Kind \cup {"none"}] /\ ahead' \in [Request -> SUBSET Request]
  BY DEF Arrives, Pending, Inv, TypeOK
<1>2. stage' \in [Request -> Stages] /\ \A x \in Request : stage'[x] = IF x = r THEN s ELSE stage[x]
  BY DEF Goes, Inv, TypeOK
<1>3. /\ stage[r] = "unsent" /\ r # current /\ k \in Kinds
      /\ \A x \in Request : kind'[x] = IF x = r THEN k ELSE kind[x]
  BY KindAssumption DEF Arrives, Inv, OrderInv, QueueShape, TurnShape, TypeOK, Exclusive, Kinds
<1> QED
  BY <1>1, <1>2, <1>3

\* A message that is refused or queued touches no database.
LEMMA ArrivalKeepsDatabase ==
    ASSUME Inv, NEW r \in Request, NEW k \in Kind, NEW s \in {"answered", "queued", "failed"},
           Arrives(r, k), Goes({r}, s), UNCHANGED <<current, db, promise, suspended>>
    PROVE  DatabaseInv'
<1>1. /\ stage[r] = "unsent" /\ r # current
      /\ \A x \in Request : kind'[x] = IF x = r THEN k ELSE kind[x]
      /\ \A x \in Request : stage'[x] = IF x = r THEN s ELSE stage[x]
  <2>1. s \in Stages
    BY DEF Stages
  <2> QED
    BY <2>1, ArrivalTypes
<1>2. current \in Request \cup {Nobody}
  BY DEF Inv, TypeOK
<1> QED
  BY <1>1, <1>2, KeepsDatabase DEF IsPurging

\* An import is refused, or counted twice and queued.
LEMMA ReceiveImportStep ==
    ASSUME Inv, NEW r \in Request, ReceiveImport(r)
    PROVE  Inv'
<1> USE DEF ReceiveImport
<1>1. Arrives(r, "import") /\ "import" \in Kind /\ "import" \in Exclusive /\ "import" \in Kinds
      /\ UNCHANGED <<current, awaited, importActive, suspended, ready, promise, db, faults>>
  BY DEF Arrives, Exclusive, Kinds, turns, database, Chain
<1>2. PICK s \in {"answered", "queued"} :
         /\ Goes({r}, s)
         /\ \/ s = "answered" /\ UNCHANGED <<queue, queuedExclusive, queuedImport>>
            \/ /\ s = "queued" /\ queue' = Append(queue, r)
               /\ queuedImport' = queuedImport + 1 /\ queuedExclusive' = queuedExclusive + 1
  BY DEF Chain, turns
<1>3. OrderInv'
  BY <1>1, <1>2, ArrivalOrder
<1>4. DatabaseInv'
  BY <1>1, <1>2, ArrivalKeepsDatabase
<1>5. CountsExact'
  <2>1. ImportsExact'
    BY <1>1, <1>2, ArrivalCounts
  <2>2. queuedExclusive' = Cardinality(PendingExclusive')
    BY <1>1, <1>2, ArrivalPending DEF Stages
  <2> QED
    BY <2>1, <2>2 DEF CountsExact, ImportsExact
<1>6. TypeOK'
  <2>1. s \in Stages /\ queue' \in Seq(Request)
    <3>1. queue \in Seq(Request)
      BY DEF Inv, TypeOK
    <3> QED
      BY <1>2, <3>1 DEF Stages
  <2>2. /\ kind' \in [Request -> Kind \cup {"none"}] /\ ahead' \in [Request -> SUBSET Request]
        /\ stage' \in [Request -> Stages]
    BY <1>1, <1>2, <2>1, ArrivalTypes
  <2> QED
    BY <1>1, <1>5, <2>1, <2>2, CountsAreNaturals DEF Inv, TypeOK
<1> QED
  BY <1>3, <1>4, <1>5, <1>6 DEF Inv

\* Any other exclusive request is refused, or counted and queued.
LEMMA ReceiveExclusiveStep ==
    ASSUME Inv, NEW r \in Request, NEW k \in Kind, ReceiveExclusive(r, k)
    PROVE  Inv'
<1> USE DEF ReceiveExclusive
<1>1. /\ Arrives(r, k) /\ k \in Exclusive /\ k \in Kinds /\ k # "import"
      /\ UNCHANGED <<current, awaited, imports, suspended, ready, promise, db, faults>>
  BY KindAssumption DEF Exclusive, turns, database, Chain
<1>2. PICK s \in {"answered", "queued"} :
         /\ Goes({r}, s)
         /\ \/ s = "answered" /\ UNCHANGED <<queue, queuedExclusive>>
            \/ /\ s = "queued" /\ queue' = Append(queue, r)
               /\ queuedExclusive' = queuedExclusive + 1
  BY DEF Chain, turns
<1>3. OrderInv'
  BY <1>1, <1>2, ArrivalOrder DEF Exclusive
<1>4. DatabaseInv'
  BY <1>1, <1>2, ArrivalKeepsDatabase
<1>5. CountsExact'
  <2>1. ImportsExact'
    BY <1>1, <1>2, ArrivalCounts DEF imports
  <2>2. queuedExclusive' = Cardinality(PendingExclusive')
    BY <1>1, <1>2, ArrivalPending DEF Stages
  <2> QED
    BY <2>1, <2>2 DEF CountsExact, ImportsExact
<1>6. TypeOK'
  <2>1. s \in Stages /\ queue' \in Seq(Request)
    <3>1. queue \in Seq(Request)
      BY DEF Inv, TypeOK
    <3> QED
      BY <1>2, <3>1 DEF Stages
  <2>2. /\ kind' \in [Request -> Kind \cup {"none"}] /\ ahead' \in [Request -> SUBSET Request]
        /\ stage' \in [Request -> Stages]
    BY <1>1, <1>2, <2>1, ArrivalTypes
  <2> QED
    BY <1>1, <1>5, <2>1, <2>2, CountsAreNaturals DEF Inv, TypeOK, imports
<1> QED
  BY <1>3, <1>4, <1>5, <1>6 DEF Inv

\* A lookup is refused, joins the queue, or starts because nothing exclusive is
\* pending.
LEMMA ReceiveLookupStep ==
    ASSUME Inv, NEW r \in Request, ReceiveLookup(r)
    PROVE  Inv'
<1> USE DEF ReceiveLookup
<1>1. /\ Arrives(r, "lookup") /\ "lookup" \in Kind /\ "lookup" \in Kinds
      /\ UNCHANGED <<current, awaited, queuedExclusive, suspended>>
      /\ stage[r] = "unsent" /\ r # current /\ ready \in BOOLEAN
      /\ \A x \in Request : kind'[x] = IF x = r THEN "lookup" ELSE kind[x]
  BY DEF Arrives, turns, database, Chain, StartLookup, Kinds, Inv, OrderInv, QueueShape,
         TurnShape, TypeOK, Exclusive
<1>2. CASE \/ Goes({r}, "answered") /\ UNCHANGED <<queue, imports, database, faults>>
           \/ /\ Goes({r}, "queued") /\ queue' = Append(queue, r)
              /\ UNCHANGED <<imports, database, faults>>
           \/ Fail({r}) /\ UNCHANGED <<queue, suspended, ready, promise, db, faults>>
              /\ queuedExclusive = 0
  <2>1. PICK s \in {"answered", "queued", "failed"} :
           /\ Goes({r}, s)
           /\ UNCHANGED <<imports, database, faults>>
           /\ \/ s \in {"answered", "failed"} /\ UNCHANGED queue
              \/ s = "queued" /\ queue' = Append(queue, r)
           /\ s = "failed" => queuedExclusive = 0
    BY <1>1, <1>2 DEF Fail, ImportIn, imports, database
  <2>2. s \in Stages /\ queue' \in Seq(Request) /\ UNCHANGED <<db, promise, suspended>>
    <3>1. queue \in Seq(Request)
      BY DEF Inv, TypeOK
    <3>2. s \in Stages /\ queue' \in Seq(Request)
      BY <2>1, <3>1 DEF Stages
    <3> QED
      BY <2>1, <3>2 DEF database
  <2>3. OrderInv'
    BY <1>1, <2>1, ArrivalOrder
  <2>4. DatabaseInv'
    BY <1>1, <2>1, <2>2, ArrivalKeepsDatabase
  <2>5. CountsExact'
    <3>1. ImportsExact'
      BY <1>1, <2>1, ArrivalCounts DEF imports
    <3>2. queuedExclusive' = Cardinality(PendingExclusive')
      BY <1>1, <2>1, <2>2, ArrivalPending
    <3> QED
      BY <3>1, <3>2 DEF CountsExact, ImportsExact
  <2>6. TypeOK'
    <3>1. /\ kind' \in [Request -> Kind \cup {"none"}] /\ ahead' \in [Request -> SUBSET Request]
          /\ stage' \in [Request -> Stages]
      BY <1>1, <2>1, <2>2, ArrivalTypes
    <3> QED
      BY <1>1, <2>1, <2>2, <2>5, <3>1, CountsAreNaturals DEF Inv, TypeOK, imports, database
  <2> QED
    BY <2>3, <2>4, <2>5, <2>6 DEF Inv
<1>3. CASE /\ ~suspended /\ queuedExclusive = 0
           /\ EnsurePrepared(r, ready, IsPrepared) /\ UNCHANGED queue
  <2>1. PICK s \in {"waiting", "body", "failed"} : Goes({r}, s)
    BY <1>1, <1>3, EnsureMoves
  <2>2. /\ UNCHANGED imports /\ ready' \in BOOLEAN /\ promise' \in {"none", "open", "purge"}
        /\ db' \in {"closed", "opening", "halfopen", "open"} /\ faults' \in 0..MaxFaults
    BY <1>1, <1>3, EnsureMoves
  <2>3. OrderInv'
    BY <1>1, <1>3, <2>1, ArrivalOrder
  <2>4. DatabaseInv'
    <3>1. current = Nobody
      BY <1>3, NoneExclusive
    <3>2. ~suspended' /\ kind'[r] = "lookup" /\ UNCHANGED current /\ ~IsPurging
      BY <1>1, <1>3, <3>1 DEF IsPurging
    <3> QED
      BY <1>1, <1>3, <3>2, EnsureDatabase
  <2>5. CountsExact'
    <3>1. ImportsExact'
      BY <1>1, <2>1, <2>2, ArrivalCounts DEF imports
    <3>2. queuedExclusive' = Cardinality(PendingExclusive')
      BY <1>1, <2>1, ArrivalPending DEF Stages
    <3> QED
      BY <3>1, <3>2 DEF CountsExact, ImportsExact
  <2>6. TypeOK'
    <3>1. /\ kind' \in [Request -> Kind \cup {"none"}] /\ ahead' \in [Request -> SUBSET Request]
          /\ stage' \in [Request -> Stages]
      BY <1>1, <2>1, ArrivalTypes DEF Stages
    <3> QED
      BY <1>1, <1>3, <2>2, <2>5, <3>1, CountsAreNaturals DEF Inv, TypeOK, imports
  <2> QED
    BY <2>3, <2>4, <2>5, <2>6 DEF Inv
<1> QED
  BY <1>2, <1>3 DEF StartLookup, Chain, turns, database

-------------------------------------------------------------------------------
(* The queue *)

\* A lookup that comes out of the queue starts: nothing has the turn.
LEMMA DequeueLookupStep ==
    ASSUME Inv, DequeueLookup
    PROVE  Inv'
<1> USE DEF DequeueLookup
<1> DEFINE h == Head(queue)
<1>1. /\ h \in Request /\ kind[h] = "lookup" /\ queue' \in Seq(Request)
      /\ h = queue[1] /\ 1 \in DOMAIN queue
  BY DEF Inv, TypeOK
<1>2. stage[h] = "queued" /\ h # current /\ ready \in BOOLEAN /\ ~IsPurging
  BY <1>1, RequestAssumption DEF Inv, OrderInv, QueueShape, TypeOK, IsPurging
<1>3. UNCHANGED <<kind, ahead, current, awaited, queuedExclusive, suspended>>
  BY DEF requests, StartLookup
<1>4. PICK s \in {"waiting", "body", "failed"} :
         /\ Goes({h}, s) /\ UNCHANGED imports
         /\ ready' \in BOOLEAN /\ promise' \in {"none", "open", "purge"}
         /\ db' \in {"closed", "opening", "halfopen", "open"} /\ faults' \in 0..MaxFaults
  <2>1. CASE Fail({h}) /\ UNCHANGED <<ready, promise, db, faults>>
    BY <1>2, <2>1 DEF Fail, ImportIn, Inv, TypeOK, imports
  <2>2. CASE EnsurePrepared(h, ready, IsPrepared)
    BY <1>1, <1>2, <2>2, EnsureMoves
  <2> QED
    BY <2>1, <2>2 DEF StartLookup
<1>5. \A x \in Request : stage'[x] = IF x = h THEN s ELSE stage[x]
  BY <1>4 DEF Goes
<1>6. OrderInv'
  BY <1>1, <1>3, <1>4, DequeueOrder
<1>7. DatabaseInv'
  <2>1. CASE Fail({h}) /\ UNCHANGED <<promise, db>>
    <3>1. \A x \in Request : stage'[x] = IF x = h THEN "failed" ELSE stage[x]
      BY <2>1 DEF Fail, Goes
    <3> QED
      BY <1>2, <1>3, <2>1, <3>1, KeepsDatabase
  <2>2. CASE ~suspended /\ EnsurePrepared(h, ready, IsPrepared)
    <3>1. ~suspended' /\ kind'[h] = "lookup"
      BY <1>1, <1>3, <2>2
    <3> QED
      BY <1>1, <1>2, <1>3, <2>2, <3>1, EnsureDatabase
  <2> QED
    BY <2>1, <2>2 DEF StartLookup
<1>8. CountsExact'
  <2>1. ImportsExact'
    BY <1>1, <1>3, <1>4, KeepCounts
  <2>2. PendingExclusive' = PendingExclusive
    BY <1>1, <1>3, <1>5 DEF PendingExclusive, Pending, Finished
  <2> QED
    BY <1>3, <2>1, <2>2 DEF CountsExact, ImportsExact, Inv
<1>9. TypeOK'
  <2>1. stage' \in [Request -> Stages]
    BY <1>4 DEF Goes, Stages, Inv, TypeOK
  <2> QED
    BY <1>1, <1>3, <1>4, <1>8, <2>1, CountsAreNaturals DEF Inv, TypeOK, imports
<1> QED
  BY <1>6, <1>7, <1>8, <1>9 DEF Inv

\* An exclusive request gets the turn and takes its snapshot of the lookups.
LEMMA DequeueExclusiveStep ==
    ASSUME Inv, DequeueExclusive
    PROVE  Inv'
<1> USE DEF DequeueExclusive
<1> DEFINE h == Head(queue)
<1>1. /\ h \in Request /\ kind[h] # "lookup" /\ queue' \in Seq(Request)
      /\ h = queue[1] /\ 1 \in DOMAIN queue
  BY DEF Inv, TypeOK
<1>2. stage[h] = "queued" /\ ~IsPurging /\ ~importActive
  BY <1>1 DEF Inv, OrderInv, QueueShape, TypeOK, IsPurging, CountsExact
<1>3. UNCHANGED <<kind, ahead, queuedExclusive, imports, suspended, ready, promise, db, faults>>
  BY DEF requests, database
<1>4. \A x \in Request : stage'[x] = IF x = h THEN "draining" ELSE stage[x]
  BY DEF Goes
<1>5. OrderInv'
  BY <1>1, <1>3, DequeueOrder
<1>6. DatabaseInv'
  BY <1>1, <1>2, <1>3, <1>4, KeepsDatabase
<1>7. CountsExact'
  <2>1. QueuedImports' = QueuedImports /\ PendingExclusive' = PendingExclusive
    BY <1>2, <1>3, <1>4 DEF QueuedImports, PendingExclusive, Pending, Finished
  <2> QED
    BY <1>2, <1>3, <2>1 DEF CountsExact, Inv, imports
<1>8. TypeOK'
  <2>1. stage' \in [Request -> Stages] /\ awaited' \subseteq Request
    BY DEF Goes, Stages, ActiveLookups, Inv, TypeOK
  <2> QED
    BY <1>1, <1>3, <2>1 DEF Inv, TypeOK, imports
<1> QED
  BY <1>5, <1>6, <1>7, <1>8 DEF Inv

-------------------------------------------------------------------------------
(* The end of a request *)

\* A lookup or a status request ends; nothing exclusive is counted out for it.
LEMMA AnswerStep ==
    ASSUME Inv, NEW r \in Request, Answer(r)
    PROVE  Inv'
<1> USE DEF Answer, Shared
<1>1. /\ UNCHANGED <<kind, ahead, queue, current, awaited, queuedExclusive>>
      /\ UNCHANGED <<imports, suspended, ready, promise, db, faults>>
  BY DEF requests, turns, database
<1>2. /\ \A x \in Request : stage'[x] = IF x = r THEN "answered" ELSE stage[x]
      /\ r # current /\ current \in Request \cup {Nobody}
  BY DEF Goes, Inv, TypeOK, OrderInv, TurnShape, Exclusive
<1>3. OrderInv'
  BY <1>1, EndOrder
<1>4. DatabaseInv'
  BY <1>1, <1>2, KeepsDatabase DEF IsPurging
<1>5. CountsExact'
  <2>1. ImportsExact'
    BY <1>1, KeepCounts
  <2>2. PendingExclusive' = PendingExclusive
    BY <1>1, <1>2 DEF PendingExclusive, Pending, Finished
  <2> QED
    BY <1>1, <2>1, <2>2 DEF CountsExact, ImportsExact, Inv
<1>6. TypeOK'
  <2>1. stage' \in [Request -> Stages]
    BY DEF Goes, Stages, Inv, TypeOK
  <2> QED
    BY <1>1, <2>1 DEF Inv, TypeOK, imports
<1> QED
  BY <1>3, <1>4, <1>5, <1>6 DEF Inv

\* An exclusive request ends, gives up its turn and is counted out.
LEMMA FinishExclusiveStep ==
    ASSUME Inv, NEW r \in Request, FinishExclusive(r)
    PROVE  Inv'
<1> USE DEF FinishExclusive
<1>1. UNCHANGED <<kind, ahead, queue, queuedImport, suspended, ready, promise, db, faults>>
  BY DEF requests, database
<1>2. /\ \A x \in Request : stage'[x] = IF x = r THEN "answered" ELSE stage[x]
      /\ kind[r] \in Exclusive /\ ~IsPurging
  BY RequestAssumption DEF Goes, Inv, OrderInv, TurnShape, IsPurging
<1>3. OrderInv'
  BY EndOrder
<1>4. DatabaseInv'
  BY <1>1, <1>2, KeepsDatabase
<1>5. CountsExact'
  <2>1. QueuedImports' = QueuedImports
    BY <1>1, <1>2 DEF QueuedImports
  <2>2. PendingExclusive' = PendingExclusive \ {r} /\ r \in PendingExclusive
    BY <1>1, <1>2 DEF PendingExclusive, Pending, Finished, Exclusive
  <2>3. queuedExclusive' = Cardinality(PendingExclusive')
    BY <2>2, CountSteps, CountedFinite DEF CountsExact, Inv
  <2>4. ~importActive'
    BY DEF CountsExact, Inv, TypeOK
  <2> QED
    BY <1>1, <2>1, <2>3, <2>4 DEF CountsExact, Inv
<1>6. TypeOK'
  <2>1. stage' \in [Request -> Stages] /\ importActive' \in BOOLEAN
    BY DEF Goes, Stages, Inv, TypeOK
  <2> QED
    BY <1>1, <1>5, <2>1, CountsAreNaturals DEF Inv, TypeOK
<1> QED
  BY <1>3, <1>4, <1>5, <1>6 DEF Inv

-------------------------------------------------------------------------------
(* Steps that carry running requests on *)

\* An Advance needs only its database and its import count checked.
LEMMA AdvanceInv ==
    ASSUME Inv, Advance, DatabaseInv', ImportsExact', importActive' \in BOOLEAN,
           suspended' \in BOOLEAN, ready' \in BOOLEAN, promise' \in {"none", "open", "purge"},
           db' \in {"closed", "opening", "halfopen", "open"}, faults' \in 0..MaxFaults
    PROVE  Inv'
<1>1. OrderInv' /\ PendingExclusive' = PendingExclusive
  BY AdvanceOrder
<1>2. UNCHANGED <<kind, ahead, queue, current, awaited, queuedExclusive>>
      /\ stage' \in [Request -> Stages]
  BY DEF Advance, requests, turns
<1>3. CountsExact'
  BY <1>1, <1>2 DEF CountsExact, ImportsExact, Inv
<1>4. TypeOK'
  BY <1>2, <1>3, CountsAreNaturals DEF TypeOK, Inv
<1> QED
  BY <1>1, <1>3, <1>4 DEF Inv

\* The request that has its turn has drained the lookups, or started: apart from
\* status requests nothing else waits or works.
LEMMA Alone ==
    ASSUME Inv, current # Nobody, Drained(current) \/ Started(current),
           NEW x \in Request, x # current, stage[x] \in {"waiting", "body"}
    PROVE  kind[x] = "status"
<1> USE DEF Inv, OrderInv
<1>1. ActiveLookups = {}
  BY DEF Drained, TurnShape, MutationAlone, ActiveLookups
<1>2. kind[x] # "none" /\ kind[x] # "lookup"
  BY <1>1 DEF QueueShape, ActiveLookups
<1>3. kind[x] \notin Exclusive
  BY DEF TurnShape
<1> QED
  BY <1>2, <1>3, KindAssumption DEF TypeOK, Exclusive, Kinds

\* The request that has its turn moves alone.
LEMMA MoveAdvance ==
    ASSUME Inv, NEW r \in Request, r = current, Drained(r) \/ stage[r] \in RunningStages,
           NEW s \in RunningStages, Goes({r}, s), Fits(kind[r], s), UNCHANGED <<requests, turns>>
    PROVE  /\ Advance
           /\ \A x \in Request : stage'[x] = IF x = r THEN s ELSE stage[x]
           /\ UNCHANGED <<kind, current>>
<1>1. \A x \in Request : stage'[x] = IF x = r THEN s ELSE stage[x]
  BY DEF Goes
<1>2. stage' \in [Request -> Stages]
  BY DEF Goes, RunningStages, Stages, Inv, TypeOK
<1> QED
  BY <1>1, <1>2 DEF Advance, requests, turns

\* Exclusive requests which prepare the database, at once or after its close.
LEMMA InvokeEnsure ==
    ASSUME Inv, NEW r \in Request, NEW w \in BOOLEAN, NEW p, EnsurePrepared(r, w, p),
           r = current,
           \/ Drained(r) /\ p = IsPrepared
           \/ stage[r] = "closing" /\ db = "open" /\ p = FALSE /\ kind[r] = "refresh",
           kind[r] \in {"mutation", "import", "translatorPrepare", "refresh", "resume"},
           suspended' = FALSE, UNCHANGED <<requests, turns>>
    PROVE  Inv'
<1>1. UNCHANGED <<kind, current>> /\ ~IsPurging
  BY DEF requests, turns, IsPurging, Drained
<1>2. PICK s \in {"waiting", "body", "failed"} : Goes({r}, s)
  BY EnsureMoves
<1>3. Advance
  BY <1>2, MoveAdvance DEF RunningStages, Fits
<1>4. DatabaseInv'
  BY <1>1, EnsureDatabase
<1>5. ImportsExact'
  BY <1>1, EnsureCounts DEF Drained
<1>6. /\ ready' \in BOOLEAN /\ promise' \in {"none", "open", "purge"} /\ suspended' \in BOOLEAN
      /\ db' \in {"closed", "opening", "halfopen", "open"}
      /\ faults' \in 0..MaxFaults /\ importActive' \in BOOLEAN
  BY EnsureMoves
<1> QED
  BY <1>3, <1>4, <1>5, <1>6, AdvanceInv

\* A mutation or an import prepares the database once it has drained.
LEMMA InvokePreparedStep ==
    ASSUME Inv, NEW r \in Request, InvokePrepared(r)
    PROVE  Inv'
BY InvokeEnsure DEF InvokePrepared, Drained, Shared, Inv, TypeOK

\* Translator preparation does, whatever the ready flag says.
LEMMA InvokeTranslatorPrepareStep ==
    ASSUME Inv, NEW r \in Request, InvokeTranslatorPrepare(r)
    PROVE  Inv'
BY InvokeEnsure DEF InvokeTranslatorPrepare, Drained, Shared, Inv, TypeOK

\* A resume lifts the suspension first, and prepares the database then.
LEMMA InvokeResumeStep ==
    ASSUME Inv, NEW r \in Request, InvokeResume(r)
    PROVE  Inv'
BY InvokeEnsure DEF InvokeResume, Drained, Shared, Inv, TypeOK

\* A request refused for suspension throws; an import among them is counted out.
LEMMA InvokeSuspendedStep ==
    ASSUME Inv, NEW r \in Request, InvokeSuspended(r)
    PROVE  Inv'
<1> USE DEF InvokeSuspended, Shared
<1>1. r = current /\ stage[r] = "draining" /\ current # Nobody /\ Fail({r})
      /\ UNCHANGED <<suspended, ready, promise, db, faults>>
  BY RequestAssumption DEF Drained, database
<1>2. /\ Advance /\ UNCHANGED <<kind, current>>
      /\ \A x \in Request : stage'[x] = IF x = r THEN "failed" ELSE stage[x]
  BY <1>1, MoveAdvance DEF Fail, Fits, RunningStages
<1>3. DatabaseInv'
  BY <1>1, <1>2, KeepsDatabase DEF IsPurging
<1>4. ImportsExact'
  BY <1>1, <1>2, MoveCounts
<1> QED
  BY <1>1, <1>2, <1>3, <1>4, AdvanceInv DEF Fail, Inv, TypeOK

\* A refresh closes an open database, or prepares a closed one.
LEMMA InvokeRefreshStep ==
    ASSUME Inv, NEW r \in Request, InvokeRefresh(r)
    PROVE  Inv'
<1> USE DEF InvokeRefresh, Shared
<1>1. r = current /\ stage[r] = "draining" /\ current # Nobody /\ kind[r] = "refresh"
  BY RequestAssumption DEF Drained
<1>2. CASE IsPrepared
  <2>1. /\ Goes({r}, "closing") /\ UNCHANGED <<imports, suspended, promise, db, faults>>
        /\ ready' = FALSE
    BY <1>2
  <2>2. /\ Advance /\ UNCHANGED <<kind, current>>
        /\ \A x \in Request : stage'[x] = IF x = r THEN "closing" ELSE stage[x]
    BY <1>1, <2>1, MoveAdvance DEF Fits, RunningStages
  <2>3. DatabaseInv'
    BY <1>1, <1>2, <2>1, <2>2 DEF Inv, DatabaseInv, DatabaseShape, BodiesFindDatabase,
                                  PromiseSettles, Waiting, IsPurging, IsPrepared
  <2>4. ImportsExact'
    BY <1>1, <2>1, <2>2, KeepCounts
  <2> QED
    BY <2>1, <2>2, <2>3, <2>4, AdvanceInv DEF Inv, TypeOK, imports
<1>3. CASE ~IsPrepared
  <2>1. EnsurePrepared(r, FALSE, FALSE) /\ ~suspended /\ UNCHANGED suspended
    BY <1>3
  <2>2. suspended' = FALSE
    BY <2>1 DEF Inv, TypeOK
  <2>3. IsPrepared = FALSE
    BY <1>3 DEF IsPrepared
  <2> QED
    BY <1>1, <2>1, <2>2, <2>3, InvokeEnsure
<1> QED
  BY <1>2, <1>3

\* A suspension leaves only status requests, whom it owes no database.
LEMMA InvokeSuspendStep ==
    ASSUME Inv, NEW r \in Request, InvokeSuspend(r)
    PROVE  Inv'
<1> USE DEF InvokeSuspend, Shared
<1>1. /\ r = current /\ stage[r] = "draining" /\ current # Nobody /\ kind[r] = "suspend"
      /\ UNCHANGED <<imports, promise, db, faults>> /\ suspended' = TRUE /\ ready' = FALSE
  BY RequestAssumption DEF Drained
<1>2. PICK s \in {"closing", "body"} : Goes({r}, s) /\ (s = "closing" => IsPrepared)
  OBVIOUS
<1>3. /\ Advance /\ UNCHANGED <<kind, current>>
      /\ \A x \in Request : stage'[x] = IF x = r THEN s ELSE stage[x]
  BY <1>1, <1>2, MoveAdvance DEF Fits, RunningStages
<1>4. DatabaseInv'
  <2>1. \A x \in Request : x # r /\ stage[x] \in {"waiting", "body"} => kind[x] = "status"
    BY <1>1, Alone
  <2> QED
    BY <1>1, <1>2, <1>3, <2>1 DEF Inv, DatabaseInv, DatabaseShape, BodiesFindDatabase,
                                  PromiseSettles, Waiting, IsPurging, IsPrepared
<1>5. ImportsExact'
  BY <1>1, <1>2, <1>3, KeepCounts
<1> QED
  BY <1>1, <1>3, <1>4, <1>5, AdvanceInv DEF Inv, TypeOK, imports

\* The close of a refresh or of a suspension ends: nothing that needs the open
\* database works meanwhile.
LEMMA ClosesStep ==
    ASSUME Inv, NEW r \in Request, Closes(r)
    PROVE  Inv'
<1> USE DEF Closes, Shared
<1>1. r = current /\ stage[r] = "closing" /\ current # Nobody /\ db = "open"
  BY RequestAssumption
<1>2. CASE kind[r] = "refresh" /\ EnsurePrepared(r, ready, FALSE)
  <2>1. suspended' = FALSE /\ ready \in BOOLEAN
    BY <1>1, <1>2 DEF Inv, TypeOK, DatabaseInv, DatabaseShape
  <2> QED
    BY <1>1, <1>2, <2>1, InvokeEnsure
<1>3. CASE \E s \in {"body", "failed"} :
              /\ Goes({r}, s) /\ db' = "closed" /\ faults' \in 0..MaxFaults
              /\ s = "body" => kind[r] = "suspend"
              /\ UNCHANGED <<imports, suspended, ready, promise>>
  <2>1. PICK s \in {"body", "failed"} : Goes({r}, s) /\ (s = "body" => kind[r] = "suspend")
    BY <1>3
  <2>2. /\ Advance /\ UNCHANGED <<kind, current>>
        /\ \A x \in Request : stage'[x] = IF x = r THEN s ELSE stage[x]
    BY <1>1, <2>1, MoveAdvance DEF Fits, RunningStages
  <2>3. DatabaseInv'
    <3>1. \A x \in Request : x # r /\ stage[x] \in {"waiting", "body"} => kind[x] = "status"
      BY <1>1, Alone DEF Started
    <3> QED
      BY <1>1, <1>3, <2>1, <2>2, <3>1 DEF Inv, DatabaseInv, DatabaseShape, BodiesFindDatabase,
                                          PromiseSettles, Waiting, IsPurging
  <2>4. kind[r] # "import"
    BY <1>1 DEF Inv, OrderInv, TurnShape
  <2>5. ImportsExact'
    BY <1>3, <2>1, <2>2, <2>4, KeepCounts
  <2> QED
    BY <1>3, <2>2, <2>3, <2>5, AdvanceInv DEF Inv, TypeOK, imports
<1>4. Fault => faults' \in 0..MaxFaults
  BY KindAssumption DEF Fault, Inv, TypeOK
<1>5. CASE /\ kind[r] = "suspend" /\ Goes({r}, "body") /\ db' = "closed"
           /\ UNCHANGED <<imports, ready, promise, faults>>
  <2>1. faults' \in 0..MaxFaults
    BY <1>5 DEF Inv, TypeOK
  <2> QED
    BY <1>3, <1>5, <2>1
<1>6. CASE /\ Fault /\ Goes({r}, "failed") /\ db' = "closed"
           /\ UNCHANGED <<imports, ready, promise>>
  BY <1>3, <1>4, <1>6
<1> QED
  BY <1>2, <1>5, <1>6

\* A purge joins a preparation in flight, or takes the database away.
LEMMA InvokePurgeStep ==
    ASSUME Inv, NEW r \in Request, InvokePurge(r)
    PROVE  Inv'
<1> USE DEF InvokePurge, Shared
<1>1. /\ r = current /\ current # Nobody /\ kind[r] = "purge"
      /\ Drained(r) \/ stage[r] = "joining"
      /\ UNCHANGED <<imports, suspended, promise, faults>>
  BY RequestAssumption DEF Drained, Inv, OrderInv, TurnShape
<1>2. CASE promise # "none"
  <2>1. /\ Advance /\ UNCHANGED <<kind, current>>
        /\ \A x \in Request : stage'[x] = IF x = r THEN "joining" ELSE stage[x]
    BY <1>1, <1>2, MoveAdvance DEF Fits, RunningStages
  <2>2. DatabaseInv'
    BY <1>1, <1>2, <2>1, KeepsDatabase DEF IsPurging, Drained
  <2>3. ImportsExact'
    BY <1>1, <1>2, <2>1, KeepCounts
  <2> QED
    BY <1>1, <1>2, <2>1, <2>2, <2>3, AdvanceInv DEF Inv, TypeOK, imports
<1>3. CASE promise = "none"
  <2>1. /\ Advance /\ UNCHANGED <<kind, current>>
        /\ \A x \in Request : stage'[x] = IF x = r THEN "resetting" ELSE stage[x]
    BY <1>1, <1>3, MoveAdvance DEF Fits, RunningStages
  <2>2. DatabaseInv'
    <3>1. \A x \in Request : x # r /\ stage[x] \in {"waiting", "body"} => kind[x] = "status"
      BY <1>1, Alone DEF Started
    <3> QED
      BY <1>1, <1>3, <2>1, <3>1 DEF Inv, DatabaseInv, DatabaseShape, BodiesFindDatabase,
                                    PromiseSettles, Waiting, IsPurging
  <2>3. ImportsExact'
    BY <1>1, <1>3, <2>1, KeepCounts
  <2> QED
    BY <1>1, <1>3, <2>1, <2>2, <2>3, AdvanceInv DEF Inv, TypeOK, imports
<1> QED
  BY <1>2, <1>3

\* The purge opens its new database; requests that ask meanwhile wait for the purge.
LEMMA PurgeReopensStep ==
    ASSUME Inv, NEW r \in Request, PurgeReopens(r)
    PROVE  Inv'
<1> USE DEF PurgeReopens, Shared
<1>1. r = current /\ current # Nobody /\ kind[r] = "purge" /\ stage[r] = "resetting"
  BY RequestAssumption DEF Inv, OrderInv, TurnShape
<1>2. /\ Advance /\ UNCHANGED <<kind, current>>
      /\ \A x \in Request : stage'[x] = IF x = r THEN "reopening" ELSE stage[x]
  BY <1>1, MoveAdvance DEF Fits, RunningStages
<1>3. DatabaseInv'
  <2>1. \A x \in Request : x # r /\ stage[x] \in {"waiting", "body"} => kind[x] = "status"
    BY <1>1, Alone DEF Started
  <2> QED
    BY <1>1, <1>2, <2>1 DEF Inv, DatabaseInv, DatabaseShape, BodiesFindDatabase,
                            PromiseSettles, Waiting, IsPurging
<1>4. ImportsExact'
  BY <1>1, <1>2, KeepCounts
<1> QED
  BY <1>2, <1>3, <1>4, AdvanceInv DEF Inv, TypeOK, imports

\* Several requests move to the same stage: the waiting ones, and the request that
\* has its turn.
LEMMA ManyAdvance ==
    ASSUME Inv, NEW W \in SUBSET Request, NEW s \in {"body", "failed"}, Goes(W, s),
           \A x \in W : stage[x] \in RunningStages, UNCHANGED <<requests, turns>>
    PROVE  /\ Advance /\ UNCHANGED <<kind, current>>
           /\ \A x \in Request : stage'[x] = IF x \in W THEN s ELSE stage[x]
<1>1. \A x \in Request : stage'[x] = IF x \in W THEN s ELSE stage[x]
  BY DEF Goes
<1>2. stage' \in [Request -> Stages]
  BY DEF Goes, Stages, Inv, TypeOK
<1> QED
  BY <1>1, <1>2 DEF Advance, Fits, RunningStages, requests, turns

\* The purge ends, and with it everything that waited for it.
LEMMA PurgeEndsStep ==
    ASSUME Inv, NEW r \in Request, PurgeEnds(r)
    PROVE  Inv'
<1> USE DEF PurgeEnds, Shared
<1>1. /\ r = current /\ current # Nobody /\ kind[r] = "purge" /\ stage[r] = "reopening"
      /\ IsPurging /\ promise # "open"
  BY RequestAssumption DEF Inv, OrderInv, TurnShape, DatabaseInv, DatabaseShape, IsPurging
<1>2. promise = "none" => Waiting = {}
  BY DEF Inv, DatabaseInv, PromiseSettles
<1>3. \E W \in SUBSET Request : W = Waiting \cup {r} /\ (Proceed(W) \/ Fail(W))
  <2>1. Waiting \cup {r} \in SUBSET Request
    BY DEF Waiting
  <2>2. promise # "purge" => {r} = Waiting \cup {r}
    BY <1>1, <1>2 DEF Inv, TypeOK
  <2>3. Proceed(Waiting \cup {r}) \/ Fail(Waiting \cup {r})
    BY <2>2 DEF TranslatorPrepares
  <2> QED
    BY <2>1, <2>3
<1>4. PICK W \in SUBSET Request : W = Waiting \cup {r} /\ (Proceed(W) \/ Fail(W))
  BY <1>3
<1>5. PICK s \in {"body", "failed"} : Goes(W, s)
  BY <1>4 DEF Proceed, Fail
<1>6. \A x \in W : stage[x] \in RunningStages
  BY <1>1, <1>4 DEF Waiting, RunningStages
<1>7. /\ Advance /\ UNCHANGED <<kind, current>>
      /\ \A x \in Request : stage'[x] = IF x \in W THEN s ELSE stage[x]
  BY <1>5, <1>6, ManyAdvance
<1>8. \A x \in Request : x # r /\ stage[x] \in {"waiting", "body"} => kind[x] = "status"
  BY <1>1, Alone DEF Started
<1>9. DatabaseInv'
  <2>1. Waiting' = {} /\ ~IsPurging' /\ db' \in {"open", "closed"} /\ promise' = "none"
    BY <1>1, <1>4, <1>7 DEF Waiting, IsPurging
  <2>2. \A x \in Request : stage'[x] = "body" => kind[x] \in {"status", "purge"}
    BY <1>1, <1>4, <1>7, <1>8 DEF Waiting
  <2>3. stage'[current'] = s
    BY <1>1, <1>4, <1>7
  <2> QED
    BY <1>7, <2>1, <2>2, <2>3 DEF DatabaseInv, DatabaseShape, BodiesFindDatabase,
                                  PromiseSettles, Waiting
<1>10. ImportsExact'
  <2>1. \A x \in W : kind[x] = "import" => stage[x] \in {"draining", "waiting"}
    BY <1>1, <1>4 DEF Waiting
  <2> QED
    BY <1>4, <1>7, <2>1, MoveCounts
<1>11. importActive' \in BOOLEAN
  BY <1>4 DEF Proceed, Fail, Inv, TypeOK
<1>12. faults' \in 0..MaxFaults /\ ready' \in BOOLEAN
  <2>1. Fault => faults' \in 0..MaxFaults
    BY KindAssumption DEF Fault, Inv, TypeOK
  <2> QED
    BY <2>1 DEF TranslatorPrepares, Inv, TypeOK
<1>13. /\ suspended' \in BOOLEAN /\ db' \in {"closed", "opening", "halfopen", "open"}
       /\ promise' \in {"none", "open", "purge"}
  BY DEF Inv, TypeOK
<1> QED
  BY <1>7, <1>9, <1>10, <1>11, <1>12, <1>13, AdvanceInv

\* Everybody who waits for the opening goes on, or fails with it; so does a close
\* that waits for it.  Nobody but status requests is past the preparation then,
\* as no database was open.
LEMMA OpeningEndsStep ==
    ASSUME Inv, OpeningEnds
    PROVE  Inv'
<1> USE DEF OpeningEnds
<1>1. /\ promise = "open" /\ db \in {"opening", "halfopen"} /\ ~IsPurging
      /\ UNCHANGED <<requests, turns, suspended>>
  BY DEF Inv, DatabaseInv, DatabaseShape, PromiseSettles
<1>2. \E V \in SUBSET Request, t \in {"body", "failed"} :
         /\ Waiting \subseteq V /\ V \subseteq Waiting \cup Closing
         /\ Goes(V, t) /\ (Proceed(V) \/ Fail(V))
         /\ promise' = "none"
         /\ \/ db = "halfopen" /\ db' = "open" /\ V = Waiting
            \/ db' = "closed" /\ t = "failed" /\ V = Waiting \cup Closing
  <2>1. Waiting \in SUBSET Request /\ Waiting \cup Closing \in SUBSET Request
    BY DEF Waiting, Closing
  <2>2. CASE db = "halfopen" /\ db' = "open" /\ promise' = "none" /\ Proceed(Waiting)
    BY <2>1, <2>2 DEF Proceed
  <2>3. CASE db = "halfopen" /\ db' = "open" /\ promise' = "none" /\ Fail(Waiting)
    BY <2>1, <2>3 DEF Fail
  <2>4. CASE db' = "closed" /\ promise' = "none" /\ Fail(Waiting \cup Closing)
    BY <2>1, <2>4 DEF Fail
  <2> QED
    BY <2>2, <2>3, <2>4 DEF TranslatorPrepares, PreparationFails
<1>3. PICK V \in SUBSET Request, t \in {"body", "failed"} :
         /\ Waiting \subseteq V /\ V \subseteq Waiting \cup Closing
         /\ Goes(V, t) /\ (Proceed(V) \/ Fail(V))
         /\ promise' = "none"
         /\ \/ db = "halfopen" /\ db' = "open" /\ V = Waiting
            \/ db' = "closed" /\ t = "failed" /\ V = Waiting \cup Closing
  BY <1>2
<1>4. \A x \in V : stage[x] \in {"waiting", "closing"}
  BY <1>3 DEF Waiting, Closing
<1>5. /\ Advance /\ UNCHANGED <<kind, current>>
      /\ \A x \in Request : stage'[x] = IF x \in V THEN t ELSE stage[x]
  BY <1>1, <1>3, <1>4, ManyAdvance DEF RunningStages
<1>6. current # Nobody => current \in Request
  BY DEF Inv, TypeOK
<1>7. ~IsPurging'
  BY <1>1, <1>5, <1>6 DEF IsPurging
<1>8. DatabaseInv'
  <2>1. Waiting' = {}
    BY <1>3, <1>5 DEF Waiting
  <2>2. \A x \in Request :
           stage[x] = "body" => kind[x] \in {"status", "suspend", "purge"}
    BY <1>1 DEF Inv, DatabaseInv, BodiesFindDatabase
  <2>3. \A x \in Request : stage[x] = "waiting" /\ kind[x] # "status" => ~suspended
    BY DEF Inv, DatabaseInv, DatabaseShape
  <2>4. BodiesFindDatabase'
    BY <1>1, <1>3, <1>5, <2>2, <2>3 DEF BodiesFindDatabase, Waiting
  <2>5. PromiseSettles'
    BY <1>3, <2>1 DEF PromiseSettles
  <2>6. current' # Nobody /\ stage'[current'] = "closing" =>
           db' = "open" /\ stage[current] = "closing"
    BY <1>3, <1>5, <1>6 DEF Closing
  <2>7. DatabaseShape'
    <3>1. \A x \in Request : stage'[x] # "waiting"
      BY <2>1 DEF Waiting
    <3>2. ~(current' # Nobody /\ stage'[current'] = "resetting")
      BY <1>7 DEF IsPurging
    <3>3. current' # Nobody /\ stage'[current'] = "closing" =>
             IsPrepared' /\ (kind'[current'] = "refresh" => ~suspended')
      BY <1>1, <1>5, <2>6 DEF IsPrepared, Inv, DatabaseInv, DatabaseShape
    <3> QED
      BY <1>7, <3>1, <3>2, <3>3 DEF DatabaseShape
  <2> QED
    BY <2>4, <2>5, <2>7 DEF DatabaseInv
<1>9. ImportsExact'
  <2>1. \A x \in V : kind[x] = "import" => stage[x] \in {"draining", "waiting"}
    BY <1>4 DEF Inv, OrderInv, TurnShape
  <2> QED
    BY <1>3, <1>5, <2>1, MoveCounts
<1>10. importActive' \in BOOLEAN
  BY <1>3 DEF Proceed, Fail, Inv, TypeOK
<1>11. faults' \in 0..MaxFaults /\ ready' \in BOOLEAN
  <2>1. Fault => faults' \in 0..MaxFaults
    BY KindAssumption DEF Fault, Inv, TypeOK
  <2> QED
    BY <2>1 DEF TranslatorPrepares, PreparationFails, Inv, TypeOK
<1>12. /\ suspended' \in BOOLEAN /\ db' \in {"closed", "opening", "halfopen", "open"}
       /\ promise' \in {"none", "open", "purge"}
  BY <1>1, <1>3 DEF Inv, TypeOK
<1> QED
  BY <1>5, <1>8, <1>9, <1>10, <1>11, <1>12, AdvanceInv

\* The connection comes into being: nobody is told yet.
LEMMA OpeningConnectsStep ==
    ASSUME Inv, OpeningConnects
    PROVE  Inv'
<1> USE DEF OpeningConnects
<1>1. /\ UNCHANGED <<kind, ahead, stage, queue, current, awaited, queuedExclusive, imports>>
      /\ UNCHANGED <<suspended, ready, promise, faults>> /\ db = "opening" /\ db' = "halfopen"
  BY DEF requests, turns
<1>2. Advance
  BY DEF Advance, Inv, TypeOK
<1>3. DatabaseInv'
  BY <1>1 DEF Inv, DatabaseInv, DatabaseShape, BodiesFindDatabase, PromiseSettles, Waiting,
              IsPurging, IsPrepared
<1>4. ImportsExact'
  BY <1>1 DEF ImportsExact, QueuedImports, imports, Inv, CountsExact
<1> QED
  BY <1>1, <1>2, <1>3, <1>4, AdvanceInv DEF Inv, TypeOK, imports

-------------------------------------------------------------------------------
(* The invariant holds *)

\* Every step keeps the invariant.
LEMMA NextInv == Inv /\ [Next]_vars => Inv'
<1> SUFFICES ASSUME Inv, [Next]_vars
             PROVE  Inv'
  OBVIOUS
<1>1. CASE Receive
  BY <1>1, ReceiveStatusStep, ReceiveImportStep, ReceiveLookupStep, ReceiveExclusiveStep
     DEF Receive
<1>2. CASE OpeningConnects \/ OpeningEnds
  BY <1>2, OpeningConnectsStep, OpeningEndsStep
<1>3. CASE DequeueLookup \/ DequeueExclusive
  BY <1>3, DequeueLookupStep, DequeueExclusiveStep
<1>4. CASE \E r \in Request : Work(r)
  <2> SUFFICES ASSUME NEW r \in Request, Work(r)
               PROVE  Inv'
    BY <1>4
  <2>1. CASE InvokeSuspended(r) \/ InvokePrepared(r) \/ InvokeTranslatorPrepare(r)
    BY <2>1, InvokeSuspendedStep, InvokePreparedStep, InvokeTranslatorPrepareStep
  <2>2. CASE InvokeRefresh(r) \/ InvokeSuspend(r) \/ InvokeResume(r) \/ InvokePurge(r)
    BY <2>2, InvokeRefreshStep, InvokeSuspendStep, InvokeResumeStep, InvokePurgeStep
  <2>3. CASE Closes(r) \/ PurgeReopens(r) \/ PurgeEnds(r)
    BY <2>3, ClosesStep, PurgeReopensStep, PurgeEndsStep
  <2>4. CASE Answer(r) \/ FinishExclusive(r)
    BY <2>4, AnswerStep, FinishExclusiveStep
  <2> QED
    BY <2>1, <2>2, <2>3, <2>4 DEF Work
<1>5. CASE UNCHANGED vars
  BY <1>5 DEF vars, Inv, TypeOK, OrderInv, QueueShape, TurnShape, OrderShape, MutationAlone,
              InOrder, DatabaseInv, DatabaseShape, BodiesFindDatabase, PromiseSettles,
              CountsExact, ActiveLookups, Started, IsPrepared, IsPurging, Waiting,
              QueuedImports, PendingExclusive, Pending
<1> QED
  BY <1>1, <1>2, <1>3, <1>4, <1>5 DEF Next

\* The inductive invariant holds.
LEMMA InvHolds == Spec => []Inv
<1> QED
  BY InitInv, NextInv, PTL DEF Spec

\* The queue, the turns, the order and the database are in the shapes that the
\* scheduler's code relies on, for any messages and any failures.
THEOREM SchedulerInvariant == Spec => []SchedulerInv
<1>1. Inv => SchedulerInv
  BY DEF Inv, OrderInv, DatabaseInv, SchedulerInv
<1> QED
  BY <1>1, InvHolds, PTL

\* No lookup runs while an exclusive request works on the database: those that ran
\* have been waited for, and none has started since (_onMessage, _handle).
THEOREM ExclusiveRequestsRunAlone == Spec => []MutationAlone
<1>1. Inv => MutationAlone
  BY DEF Inv, OrderInv
<1> QED
  BY <1>1, InvHolds, PTL

\* Requests take effect in the order in which their messages came.
THEOREM RequestsTakeEffectInOrder == Spec => []InOrder
<1>1. Inv => InOrder
  BY DEF Inv, OrderInv
<1> QED
  BY <1>1, InvHolds, PTL

\* What has passed _ensureDatabasePrepared works on an open database to which
\* access is not suspended, until it ends.
THEOREM BodiesFindAnOpenDatabase == Spec => []BodiesFindDatabase
<1>1. Inv => BodiesFindDatabase
  BY DEF Inv, DatabaseInv
<1> QED
  BY <1>1, InvHolds, PTL

\* Nobody waits for a preparation that nothing settles: the shared promise is
\* there exactly while an opening or a purge is on its way.
THEOREM PreparationsSettle == Spec => []PromiseSettles
<1>1. Inv => PromiseSettles
  BY DEF Inv, DatabaseInv
<1> QED
  BY <1>1, InvHolds, PTL

\* The counters of queued requests and imports are exact on every path, failures
\* included.
THEOREM CountersAreExact == Spec => []CountsExact
<1>1. Inv => CountsExact
  BY DEF Inv
<1> QED
  BY <1>1, InvHolds, PTL

\* Queue, shared promise and counters stay true together.
THEOREM BookkeepingIsSound == Spec => []BookkeepingSound
BY SchedulerInvariant, PreparationsSettle, CountersAreExact, PTL DEF BookkeepingSound

=============================================================================
