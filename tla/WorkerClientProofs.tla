------------------------- MODULE WorkerClientProofs -------------------------
(***************************************************************************)
(* The promises of the worker client for any number of calls of any kinds,  *)
(* and any number of workers that break.                                     *)
(*                                                                          *)
(* ClientInv is inductive as it stands: a request on its way to a worker     *)
(* that is alive has somebody who waits for it, so the worker runs only what *)
(* is wanted, and its responses are known.                                   *)
(***************************************************************************)
EXTENDS WorkerClient, TLAPS

\* A client without requests satisfies the invariant.
LEMMA InitInv == Init => ClientInv
<1> SUFFICES ASSUME Init
             PROVE  ClientInv
  OBVIOUS
<1>1. TypeOK
  <2>1. stage \in [Call -> {"idle", "pending", "retrying", "returned", "failed"}]
    BY DEF Init
  <2>2. attempt \in [Call -> 0..2] /\ late \in [Call -> BOOLEAN] /\ runs \in [Call -> Nat]
    BY DEF Init
  <2>3. worker = 1 /\ fatal = FALSE
    BY DEF Init
  <2>4. handlers = {} /\ oneWay = {} /\ inbox = {} /\ broken = {} /\ responses = {}
    BY DEF Init
  <2>5. fatal \in BOOLEAN /\ broken \subseteq 1..worker
    BY <2>3, <2>4
  <2>7. worker \in Nat \ {0}
    BY <2>3, SMT
  <2>6. handlers \subseteq Ids /\ oneWay \subseteq Ids /\ inbox \subseteq Ids
        /\ responses \subseteq [id : Ids, valid : BOOLEAN]
    BY <2>4
  <2> HIDE DEF Init
  <2> QED
    BY <2>1, <2>2, <2>5, <2>6, <2>7 DEF TypeOK
<1> USE DEF Init
<1>2. WaitingShape
  BY DEF WaitingShape, Waiting
<1>3. TransitShape
  BY DEF TransitShape
<1>4. AttemptShape
  BY DEF AttemptShape, Waiting, Attempts
<1> QED
  BY <1>1, <1>2, <1>3, <1>4 DEF ClientInv

\* The allowed number of attempts is one or two.
LEMMA AttemptsRange == \A c \in Call : Attempts(c) \in 1..2
BY DEF Attempts

\* The end of a worker leaves nobody waiting.
LEMMA SetFatalInv ==
    ASSUME ClientInv, NEW w, NEW t \in BOOLEAN, SetFatal(w, t),
           responses' \subseteq responses, UNCHANGED <<late, broken, runs>>
    PROVE  ClientInv'
<1> USE DEF ClientInv
<1>1. CASE ~Alive(w)
  BY <1>1 DEF SetFatal, client, TypeOK, WaitingShape, TransitShape, AttemptShape, Waiting, Ids, Alive
<1>2. CASE Alive(w)
  <2>1. /\ fatal' = TRUE /\ handlers' = {} /\ oneWay' = {} /\ inbox' = {}
        /\ UNCHANGED <<attempt, worker>>
        /\ stage' = Rejected({c \in Call : stage[c] = "pending"}, t)
    BY <1>2 DEF SetFatal
  <2>2. \A c \in Call :
           \/ stage'[c] = stage[c] /\ stage[c] # "pending"
           \/ stage[c] = "pending" /\ stage'[c] = "failed"
           \/ stage[c] = "pending" /\ stage'[c] = "retrying" /\ attempt[c] < Attempts(c)
    BY <2>1 DEF Rejected
  <2>3. TypeOK'
    <3>1. stage' \in [Call -> {"idle", "pending", "retrying", "returned", "failed"}]
      BY <2>1 DEF Rejected, TypeOK
    <3> QED
      BY <2>1, <3>1 DEF TypeOK, Ids
  <2>4. WaitingShape'
    BY <2>1, <2>2 DEF WaitingShape, Waiting
  <2>5. TransitShape'
    BY <2>1 DEF TransitShape, Waiting, Alive
  <2>6. AttemptShape'
    BY <2>1, <2>2 DEF AttemptShape, Waiting, Attempts
  <2> QED
    BY <2>3, <2>4, <2>5, <2>6
<1> QED
  BY <1>1, <1>2

\* A request is made: for a call that has an attempt left, and for which nobody
\* waits.
LEMMA RequestInv ==
    ASSUME ClientInv, NEW c \in Call, Request(c),
           stage[c] = "idle" \/ (stage[c] = "retrying" /\ ~late[c])
    PROVE  ClientInv'
<1> USE DEF ClientInv
<1>1. /\ attempt[c] < Attempts(c) /\ Attempts(c) \in 1..2 /\ attempt[c] \in Nat /\ ~late[c]
      /\ \A id \in Waiting : id.call # c
  BY AttemptsRange DEF AttemptShape, WaitingShape, TypeOK
<1>2. Waiting \subseteq Ids /\ inbox \subseteq Waiting /\ worker \in Nat
  BY DEF TransitShape, TypeOK, Waiting
<1>3. CASE NotRestarted(c)
  <2> USE <1>3 DEF NotRestarted, outside
  <2>1. TypeOK'
    BY <1>1 DEF TypeOK, Ids
  <2>2. WaitingShape'
    BY <1>1 DEF WaitingShape, TypeOK, Waiting
  <2>3. TransitShape'
    BY DEF TransitShape, Waiting, Alive
  <2>4. AttemptShape'
    BY <1>1, <1>2 DEF AttemptShape, TypeOK, Waiting, Attempts, Ids
  <2> QED
    BY <2>1, <2>2, <2>3, <2>4
<1>4. CASE Begin(c) /\ fatal' = FALSE /\ UNCHANGED <<late, responses, broken, runs>>
           /\ \E s \in {"pending", "failed"} : stage' = [stage EXCEPT ![c] = s]
           /\ (Posted(c) \/ NotCloned(c))
  <2>1. /\ worker' = Current /\ Current \in Nat \ {0} /\ 1..worker \subseteq 1..worker'
        /\ NewId(c) \in Ids' /\ NewId(c).call = c /\ NewId(c).worker = worker'
        /\ NewId(c).attempt = attempt'[c] /\ Ids \subseteq Ids'
        /\ attempt' = [attempt EXCEPT ![c] = @ + 1]
    BY <1>1, <1>4 DEF Begin, Current, NewId, Ids, TypeOK
  <2>2. fatal => Waiting = {}
    BY DEF WaitingShape
  <2>3. \A id \in Waiting : worker' = worker
    BY <2>1, <2>2 DEF Current
  <2>4. \A m \in responses : m.id.worker = worker' => Alive(m.id.worker)
    BY <2>1 DEF TypeOK, Ids, Alive, Current
  <2>5. \A m \in responses : m.id.attempt <= attempt[m.id.call] /\ m.id \in Ids
    BY DEF AttemptShape, TypeOK
  <2>6. NewId(c) \notin Waiting /\ \A m \in responses : m.id # NewId(c)
    BY <1>1, <2>1, <2>5 DEF TypeOK
  <2>7. CASE Posted(c)
    <3> USE <2>7 DEF Posted
    <3>1. /\ Waiting' = Waiting \cup {NewId(c)} /\ inbox' = inbox \cup {NewId(c)}
          /\ handlers' \subseteq handlers \cup {NewId(c)}
          /\ oneWay' \subseteq oneWay \cup {NewId(c)}
          /\ NewId(c) \in handlers' \ handlers => Kind[c] # "oneway"
          /\ NewId(c) \in oneWay' \ oneWay => Kind[c] = "oneway"
      BY DEF Waiting
    <3>2. TypeOK'
      <4>1. /\ stage' \in [Call -> {"idle", "pending", "retrying", "returned", "failed"}]
            /\ attempt' \in [Call -> 0..2]
        BY <1>1, <1>4, <2>1 DEF TypeOK
      <4>2. /\ handlers' \subseteq Ids' /\ oneWay' \subseteq Ids' /\ inbox' \subseteq Ids'
            /\ responses \subseteq [id : Ids', valid : BOOLEAN] /\ broken \subseteq 1..worker'
        BY <2>1, <3>1 DEF TypeOK
      <4> QED
        BY <1>4, <2>1, <4>1, <4>2 DEF TypeOK
    <3>3. WaitingShape'
      BY <1>1, <1>2, <2>1, <2>3, <2>6, <3>1 DEF WaitingShape, TypeOK, Ids, Waiting
    <3>4. TransitShape'
      BY <2>4, <2>6, <3>1 DEF TransitShape, Alive
    <3>5. AttemptShape'
      BY <1>1, <1>2, <2>1, <2>5, <3>1 DEF AttemptShape, TypeOK, Ids, Attempts
    <3> QED
      BY <3>2, <3>3, <3>4, <3>5
  <2>8. CASE NotCloned(c)
    <3> USE <2>8 DEF NotCloned, outside
    <3>1. Waiting' = Waiting /\ inbox' = inbox
      BY DEF Waiting
    <3>2. TypeOK'
      <4>1. /\ stage' \in [Call -> {"idle", "pending", "retrying", "returned", "failed"}]
            /\ attempt' \in [Call -> 0..2]
        BY <1>1, <1>4, <2>1 DEF TypeOK
      <4>2. /\ handlers' \subseteq Ids' /\ oneWay' \subseteq Ids' /\ inbox' \subseteq Ids'
            /\ responses \subseteq [id : Ids', valid : BOOLEAN] /\ broken \subseteq 1..worker'
        BY <2>1, <3>1 DEF TypeOK
      <4> QED
        BY <1>4, <2>1, <4>1, <4>2 DEF TypeOK
    <3>3. WaitingShape'
      BY <1>1, <1>2, <2>1, <2>3, <3>1 DEF WaitingShape, TypeOK, Ids
    <3>4. TransitShape'
      BY <2>4, <3>1 DEF TransitShape, Alive
    <3>5. AttemptShape'
      BY <1>1, <1>2, <2>1, <2>5, <3>1 DEF AttemptShape, TypeOK, Ids, Attempts
    <3> QED
      BY <3>2, <3>3, <3>4, <3>5
  <2> QED
    BY <1>4, <2>7, <2>8
<1>5. CASE NotPosted(c)
  <2> USE <1>5 DEF NotPosted
  <2>1. /\ worker' = Current /\ Current \in Nat \ {0} /\ 1..worker \subseteq 1..worker'
        /\ Current \in 1..worker' /\ Ids \subseteq Ids'
        /\ attempt' = [attempt EXCEPT ![c] = @ + 1]
    BY DEF Begin, Current, Ids, TypeOK
  <2>2. \A d \in Call : stage'[d] = IF stage[d] = "pending" \/ d = c THEN "failed" ELSE stage[d]
    BY DEF Rejected
  <2>3. TypeOK'
    <3>1. stage' \in [Call -> {"idle", "pending", "retrying", "returned", "failed"}]
      BY DEF Rejected, TypeOK
    <3>2. attempt' \in [Call -> 0..2]
      BY <1>1, <2>1 DEF TypeOK
    <3>3. /\ handlers' = {} /\ oneWay' = {} /\ inbox' = {} /\ fatal' = TRUE
          /\ responses' \subseteq [id : Ids', valid : BOOLEAN]
          /\ broken' \subseteq 1..worker'
      BY <2>1 DEF TypeOK
    <3> QED
      BY <2>1, <3>1, <3>2, <3>3 DEF TypeOK
  <2>4. handlers' = {} /\ oneWay' = {} /\ Waiting' = {} /\ inbox' = {} /\ fatal' = TRUE
    BY DEF Waiting
  <2>5. WaitingShape'
    BY <2>2, <2>4 DEF WaitingShape
  <2>6. TransitShape'
    BY <2>4 DEF TransitShape, Alive
  <2>7. AttemptShape'
    <3>1. \A d \in Call : attempt'[d] = IF d = c THEN attempt[d] + 1 ELSE attempt[d]
      BY <2>1 DEF TypeOK
    <3>2. \A d \in Call : attempt[d] \in Nat /\ runs[d] \in Nat /\ attempt'[d] >= attempt[d]
      BY <3>1 DEF TypeOK
    <3>3. \A m \in responses : m.id.attempt <= attempt'[m.id.call]
      <4> SUFFICES ASSUME NEW m \in responses
                   PROVE  m.id.attempt <= attempt'[m.id.call]
        OBVIOUS
      <4>1. m.id.call \in Call /\ m.id.attempt \in Nat /\ m.id.attempt <= attempt[m.id.call]
        BY DEF AttemptShape, TypeOK, Ids
      <4> QED
        BY <3>1, <3>2, <4>1
    <3>4. \A d \in Call :
             /\ attempt'[d] <= Attempts(d) /\ runs[d] <= attempt'[d]
             /\ stage'[d] = "idle" <=> attempt'[d] = 0
             /\ stage'[d] = "retrying" => attempt'[d] < Attempts(d)
             /\ late[d] => stage'[d] # "idle"
      <4> SUFFICES ASSUME NEW d \in Call
                   PROVE  /\ attempt'[d] <= Attempts(d) /\ runs[d] <= attempt'[d]
                          /\ stage'[d] = "idle" <=> attempt'[d] = 0
                          /\ stage'[d] = "retrying" => attempt'[d] < Attempts(d)
                          /\ late[d] => stage'[d] # "idle"
        OBVIOUS
      <4>1. /\ attempt[d] <= Attempts(d) /\ runs[d] <= attempt[d]
            /\ stage[d] = "idle" <=> attempt[d] = 0
            /\ stage[d] = "retrying" => attempt[d] < Attempts(d)
            /\ late[d] => stage[d] # "idle"
            /\ attempt[d] \in Nat /\ runs[d] \in Nat /\ Attempts(d) \in 1..2
        BY <3>2, AttemptsRange DEF AttemptShape
      <4> HIDE DEF NotPosted
      <4>2. CASE d = c
        BY <1>1, <2>2, <3>1, <4>1, <4>2
      <4>3. CASE d # c
        BY <2>2, <3>1, <4>1, <4>3
      <4> QED
        BY <4>2, <4>3
    <3>5. UNCHANGED late /\ UNCHANGED responses /\ UNCHANGED runs
      BY <1>5 DEF NotPosted
    <3> HIDE DEF NotPosted
    <3> QED
      BY <2>4, <3>3, <3>4, <3>5 DEF AttemptShape, Attempts
  <2> QED
    BY <2>3, <2>5, <2>6, <2>7
<1> QED
  BY <1>3, <1>4, <1>5 DEF Request, Posted, NotCloned, outside

\* A worker runs a request: nobody else's, and not twice.
LEMMA RunsInv ==
    ASSUME ClientInv, NEW id \in inbox, Runs(id)
    PROVE  ClientInv'
<1> USE DEF ClientInv, Runs
<1>1. /\ id \in Waiting /\ id \in Ids /\ id.call \in Call /\ id.worker = worker
      /\ runs[id.call] < attempt[id.call]
      /\ \A j \in inbox : j # id => j.call # id.call
  BY DEF TypeOK, Ids, WaitingShape, TransitShape, AttemptShape
<1>2. UNCHANGED <<client, late>> /\ Waiting' = Waiting /\ Ids' = Ids
  BY DEF client, Waiting, Ids
<1>3. /\ responses \subseteq responses'
      /\ \A m \in responses' \ responses :
            \/ m = [id |-> id, valid |-> TRUE]
            \/ m = [id |-> id, valid |-> FALSE] /\ worker \in broken'
      /\ \A m, n \in responses' \ responses : m = n
  <2>1. CASE responses' = responses \cup {[id |-> id, valid |-> TRUE]}
    <3>1. \A m \in responses' \ responses : m = [id |-> id, valid |-> TRUE]
      BY <2>1
    <3> QED
      BY <2>1, <3>1
  <2>2. CASE responses' = responses \cup {[id |-> id, valid |-> FALSE]} /\ worker \in broken'
    <3>1. \A m \in responses' \ responses : m = [id |-> id, valid |-> FALSE]
      BY <2>2
    <3> QED
      BY <2>2, <3>1
  <2>3. CASE responses' = responses
    BY <2>3
  <2> QED
    BY <2>1, <2>2, <2>3
<1>5. \A c \in Call : runs'[c] = IF c = id.call THEN runs[c] + 1 ELSE runs[c]
  BY DEF TypeOK
<1>6. TypeOK'
  <2>1. broken' \subseteq 1..worker
    <3>1. worker \in 1..worker /\ broken \subseteq 1..worker
      BY DEF TypeOK
    <3> QED
      BY <3>1
  <2>2. responses' \subseteq [id : Ids, valid : BOOLEAN]
    <3> SUFFICES ASSUME NEW m \in responses', m \notin responses
                 PROVE  m \in [id : Ids, valid : BOOLEAN]
      BY DEF TypeOK
    <3>1. CASE m = [id |-> id, valid |-> TRUE]
      BY <1>1, <3>1
    <3>2. CASE m = [id |-> id, valid |-> FALSE]
      BY <1>1, <3>2
    <3> QED
      BY <1>3, <3>1, <3>2
  <2>3. runs' \in [Call -> Nat] /\ inbox' \subseteq Ids
    BY <1>1 DEF TypeOK
  <2> QED
    BY <1>2, <2>1, <2>2, <2>3 DEF TypeOK, client
<1>7. WaitingShape'
  BY <1>2 DEF WaitingShape, client
<1>8. TransitShape'
  <2>1. inbox' \subseteq Waiting'
    BY <1>2 DEF TransitShape
  <2>2. \A m \in responses : m.id # id /\ m.id \in Ids
    BY DEF TransitShape, TypeOK
  <2>3. broken \subseteq broken'
    OBVIOUS
  <2>4. ASSUME NEW m \in responses'
        PROVE  /\ Alive(m.id.worker)' => m.id \in Waiting'
               /\ m.id \notin inbox' /\ runs'[m.id.call] > 0
               /\ ~m.valid => m.id.worker \in broken'
    <3>1. CASE m \in responses
      BY <1>2, <1>5, <2>2, <2>3, <3>1 DEF TransitShape, Alive, client, Ids, TypeOK
    <3>2. CASE m \notin responses
      BY <1>1, <1>2, <1>3, <1>5, <3>2 DEF TypeOK
    <3> QED
      BY <3>1, <3>2
  <2>5. \A m, n \in responses' : m.id = n.id => m = n
    BY <1>3, <2>2 DEF TransitShape
  <2> QED
    BY <2>1, <2>4, <2>5 DEF TransitShape
<1>9. AttemptShape'
  <2>1. \A m \in responses' : m.id.attempt <= attempt[m.id.call]
    BY <1>1, <1>3 DEF AttemptShape, TransitShape
  <2> QED
    BY <1>1, <1>2, <1>5, <2>1 DEF AttemptShape, client, TypeOK, Ids, Attempts
<1> QED
  BY <1>6, <1>7, <1>8, <1>9

\* A response settles the call that waits for it, or is stale, or ends the worker.
LEMMA ResponseInv ==
    ASSUME ClientInv, NEW m \in responses, Response(m)
    PROVE  ClientInv'
<1> USE DEF ClientInv, Response
<1>1. responses' = responses \ {m} /\ UNCHANGED <<late, broken, runs>> /\ m.id \in Ids
      /\ m.id.call \in Call
  BY DEF TypeOK, Ids
<1>2. CASE UNCHANGED <<client, inbox>>
  BY <1>1, <1>2 DEF client, TypeOK, WaitingShape, TransitShape, AttemptShape, Waiting, Ids, Alive
<1>3. CASE m.id \in Waiting /\ Alive(m.id.worker) /\ Settles(m.id)
  <2> USE <1>3 DEF Settles
  <2>1. /\ Waiting' = Waiting \ {m.id} /\ m.id \notin inbox
        /\ \A j \in Waiting : j # m.id => j.call # m.id.call
        /\ \A n \in responses' : n.id # m.id
    BY <1>1 DEF Waiting, WaitingShape, TransitShape
  <2>2. TypeOK'
    BY <1>1 DEF TypeOK, Ids
  <2>3. WaitingShape'
    BY <1>1, <2>1 DEF WaitingShape, TypeOK, Waiting, Ids
  <2>4. TransitShape'
    BY <1>1, <2>1 DEF TransitShape, Alive
  <2>5. AttemptShape'
    BY <1>1, <2>1 DEF AttemptShape, TypeOK, Attempts, WaitingShape
  <2> QED
    BY <2>2, <2>3, <2>4, <2>5
<1>4. CASE SetFatal(worker, TRUE)
  BY <1>1, <1>4, SetFatalInv
<1> QED
  BY <1>2, <1>3, <1>4 DEF IsStale, Alive, Waiting

\* Every step keeps the invariant.
LEMMA NextInv == ClientInv /\ [Next]_vars => ClientInv'
<1> SUFFICES ASSUME ClientInv, [Next]_vars
             PROVE  ClientInv'
  OBVIOUS
<1>1. ASSUME NEW c \in Call, Client(c)
      PROVE  ClientInv'
  <2>1. CASE Issue(c)
    BY <2>1, RequestInv DEF Issue
  <2>2. CASE stage[c] = "retrying" /\ ~late[c] /\ Request(c)
    BY <2>2, RequestInv
  <2>3. CASE /\ stage[c] = "retrying" /\ stage' = [stage EXCEPT ![c] = "failed"]
             /\ UNCHANGED <<attempt, late, worker, fatal, handlers, oneWay, inbox, outside>>
    <3>1. TypeOK'
      BY <2>3 DEF ClientInv, TypeOK, Ids, outside
    <3>2. WaitingShape' /\ TransitShape'
      BY <2>3 DEF ClientInv, TypeOK, WaitingShape, TransitShape, Waiting, Alive, outside
    <3>3. AttemptShape'
      BY <2>3 DEF ClientInv, TypeOK, AttemptShape, Waiting, Attempts, outside
    <3> QED
      BY <3>1, <3>2, <3>3 DEF ClientInv
  <2>4. CASE DeadlinePasses(c)
    <3> USE <2>4 DEF DeadlinePasses, client, outside
    <3>1. TypeOK'
      BY DEF ClientInv, TypeOK, Ids
    <3>2. WaitingShape' /\ TransitShape'
      BY DEF ClientInv, WaitingShape, TransitShape, Waiting, Alive
    <3>3. AttemptShape'
      BY DEF ClientInv, TypeOK, AttemptShape, Waiting, Attempts
    <3> QED
      BY <3>1, <3>2, <3>3 DEF ClientInv
  <2> QED
    BY <1>1, <2>1, <2>2, <2>3, <2>4 DEF Client, Retry
<1>2. ASSUME NEW id \in handlers, TimesOut(id)
      PROVE  ClientInv'
  BY <1>2, SetFatalInv DEF TimesOut, outside
<1>3. ASSUME NEW w \in broken, WorkerFails(w)
      PROVE  ClientInv'
  BY <1>3, SetFatalInv DEF WorkerFails, outside
<1>4. CASE Breaks
  <2> USE <1>4 DEF Breaks, client
  <2>1. TypeOK'
    <3>1. broken' \subseteq 1..worker
      BY DEF ClientInv, TypeOK
    <3> QED
      BY <3>1 DEF ClientInv, TypeOK, Ids
  <2>2. WaitingShape' /\ TransitShape' /\ AttemptShape'
    BY DEF ClientInv, WaitingShape, TransitShape, AttemptShape, Waiting, Alive, Attempts
  <2> QED
    BY <2>1, <2>2 DEF ClientInv
<1>5. CASE UNCHANGED vars
  BY <1>5 DEF vars, ClientInv, TypeOK, WaitingShape, TransitShape, AttemptShape, Waiting,
              Ids, Alive, Attempts
<1> QED
  BY <1>1, <1>2, <1>3, <1>4, <1>5, RunsInv, ResponseInv DEF Next

\* Whoever waits is registered with the worker that is there, what a living worker
\* holds is wanted, and each attempt runs at most once.
THEOREM ClientInvariant == Spec => []ClientInv
<1> QED
  BY InitInv, NextInv, PTL DEF Spec

\* Only a worker that has broken, or has let a deadline pass, is terminated.
THEOREM HealthyWorkersAreKept == Spec => HealthyWorkerKept
<1> DEFINE Kept ==
      ~fatal /\ fatal' =>
         worker \in broken \/ worker' \in broken' \/ \E c \in Call : stage[c] = "pending" /\ late[c]
<1>1. ClientInv /\ [Next]_vars => [Kept]_vars
  <2> SUFFICES ASSUME ClientInv, Next, ~fatal, fatal'
               PROVE  worker \in broken \/ worker' \in broken'
                      \/ \E c \in Call : stage[c] = "pending" /\ late[c]
    OBVIOUS
  <2>1. ASSUME NEW c \in Call, Client(c)
        PROVE  worker' \in broken'
    BY <2>1 DEF Client, Issue, Retry, DeadlinePasses, Request, NotRestarted, Posted, NotCloned,
                NotPosted, Begin, client
  <2>2. ASSUME NEW id \in handlers, TimesOut(id)
        PROVE  \E c \in Call : stage[c] = "pending" /\ late[c]
    BY <2>2 DEF TimesOut, ClientInv, TypeOK, Ids, WaitingShape, Waiting
  <2>3. ASSUME NEW w \in broken, WorkerFails(w)
        PROVE  worker \in broken
    BY <2>3 DEF WorkerFails, SetFatal, client, Alive
  <2>4. ASSUME NEW m \in responses, Response(m)
        PROVE  worker \in broken
    BY <2>4 DEF Response, IsStale, Settles, client, ClientInv, TransitShape, Waiting, Alive
  <2>5. ~Breaks /\ ~\E id \in inbox : Runs(id)
    BY DEF Breaks, Runs, client
  <2> QED
    BY <2>1, <2>2, <2>3, <2>4, <2>5 DEF Next
<1> QED
  BY <1>1, ClientInvariant, PTL DEF Spec, HealthyWorkerKept

\* Nothing is sent for a call whose deadline has passed.
THEOREM RequestsAreSentInTime == Spec => SentInTime
<1> DEFINE InTime == \A c \in Call : late[c] => \A id \in inbox' \ inbox : id.call # c
<1>1. ClientInv /\ [Next]_vars => [InTime]_vars
  <2> SUFFICES ASSUME ClientInv, Next, NEW id \in inbox' \ inbox, late[id.call], id.call \in Call
               PROVE  FALSE
    OBVIOUS
  <2>1. \E c \in Call : Client(c) /\ Posted(c)
    BY DEF Next, Client, Issue, Retry, DeadlinePasses, Request, NotRestarted, NotCloned, NotPosted,
           TimesOut, WorkerFails, SetFatal, Breaks, Runs, Response, Settles, client
  <2>2. PICK c \in Call : Client(c) /\ Posted(c)
    BY <2>1
  <2>3. id.call = c
    BY <2>2 DEF Posted, NewId
  <2>4. stage[c] # "idle" /\ UNCHANGED late
    BY <2>2, <2>3 DEF ClientInv, AttemptShape, Posted
  <2>5. attempt'[c] # attempt[c]
    BY <2>2 DEF Posted, Begin, ClientInv, TypeOK
  <2> QED
    BY <2>2, <2>3, <2>4, <2>5 DEF Client, Issue, Retry, DeadlinePasses, client
<1> QED
  BY <1>1, ClientInvariant, PTL DEF Spec, SentInTime

\* The client implements calls that run at most once, or twice if they are lookups,
\* and never after their caller has been told that they failed.
THEOREM ImplementsCalls == Spec => CallsSpec
<1> DEFINE St == [c \in Call |-> IF stage[c] = "retrying" THEN "pending" ELSE stage[c]]
           Rep == {c \in Call : Kind[c] = "lookup"}
           FailTogether(D) ==
               /\ \A c \in D : St[c] \in {"idle", "pending"}
               /\ St' = [c \in Call |-> IF c \in D THEN "failed" ELSE St[c]]
               /\ UNCHANGED runs
<1>1. Init => Calls!Init
  BY DEF Init, Calls!Init
<1>2. ClientInv /\ [Next]_vars => [Calls!Next]_Calls!vars
  <2> SUFFICES ASSUME ClientInv, [Next]_vars
               PROVE  Calls!Next \/ UNCHANGED <<St, runs>>
    BY DEF Calls!vars
  <2>1. ASSUME NEW w, SetFatal(w, TRUE), UNCHANGED runs
        PROVE  Calls!Next \/ UNCHANGED <<St, runs>>
    <3>1. CASE Alive(w)
      <4> DEFINE C == {c \in Call : stage[c] = "pending" /\ stage'[c] = "failed"}
      <4>1. stage' = Rejected({c \in Call : stage[c] = "pending"}, TRUE)
        BY <2>1, <3>1 DEF SetFatal
      <4>2. C \in SUBSET Call /\ FailTogether(C)
        BY <2>1, <4>1 DEF Rejected
      <4> HIDE DEF C
      <4> QED
        BY <4>2 DEF Calls!Next, Calls!Fail
    <3>2. CASE ~Alive(w)
      BY <2>1, <3>2 DEF SetFatal, client
    <3> QED
      BY <3>1, <3>2
  <2>2. ASSUME NEW c \in Call, Client(c)
        PROVE  Calls!Next \/ UNCHANGED <<St, runs>>
    <3>1. CASE /\ stage[c] \in {"idle", "retrying"} /\ stage' = [stage EXCEPT ![c] = "failed"]
               /\ UNCHANGED runs
      <4>1. {c} \in SUBSET Call /\ Calls!Fail({c})
        BY <3>1 DEF ClientInv, TypeOK, Calls!Fail
      <4> QED
        BY <4>1 DEF Calls!Next
    <3>2. CASE stage[c] \in {"idle", "retrying"} /\ NotPosted(c)
      <4> DEFINE C == {d \in Call : stage[d] = "pending" \/ d = c}
      <4>1. C \in SUBSET Call /\ FailTogether(C)
        BY <3>2 DEF NotPosted, Rejected
      <4> HIDE DEF C
      <4> QED
        BY <4>1 DEF Calls!Next, Calls!Fail
    <3>3. CASE stage[c] = "idle" /\ Posted(c)
      <4>1. St[c] = "idle" /\ St' = [St EXCEPT ![c] = "pending"] /\ UNCHANGED runs
        BY <3>3 DEF Posted, ClientInv, TypeOK
      <4> QED
        BY <4>1 DEF Calls!Next, Calls!Issue
    <3>4. CASE stage[c] = "retrying" /\ Posted(c)
      BY <3>4 DEF Posted, ClientInv, TypeOK
    <3>5. CASE DeadlinePasses(c)
      BY <3>5 DEF DeadlinePasses, client, outside
    <3> QED
      BY <2>2, <3>1, <3>2, <3>3, <3>4, <3>5
         DEF Client, Issue, Retry, Request, NotRestarted, NotCloned, outside
  <2>3. ASSUME NEW id \in inbox, Runs(id)
        PROVE  Calls!Next
    <3>1. /\ id.call \in Call /\ stage[id.call] = "pending" /\ runs[id.call] < attempt[id.call]
          /\ attempt[id.call] <= Attempts(id.call) /\ runs[id.call] \in Nat
          /\ attempt[id.call] \in Nat
      BY DEF ClientInv, TypeOK, Ids, TransitShape, WaitingShape, AttemptShape
    <3>2. runs[id.call] = 0 \/ (runs[id.call] = 1 /\ id.call \in Rep)
      BY <3>1 DEF Attempts
    <3>3. St[id.call] = "pending" /\ UNCHANGED St
      BY <2>3, <3>1 DEF Runs, client
    <3>4. runs' = [runs EXCEPT ![id.call] = @ + 1]
      BY <2>3 DEF Runs
    <3> QED
      BY <3>1, <3>2, <3>3, <3>4 DEF Calls!Next, Calls!Run
  <2>4. ASSUME NEW m \in responses, Response(m)
        PROVE  Calls!Next \/ UNCHANGED <<St, runs>>
    <3>1. CASE SetFatal(worker, TRUE)
      BY <2>1, <2>4, <3>1 DEF Response
    <3>2. CASE m.id \in Waiting /\ Settles(m.id)
      <4>1. m.id.call \in Call /\ stage[m.id.call] = "pending" /\ runs[m.id.call] > 0
        BY <3>2 DEF ClientInv, TypeOK, Ids, WaitingShape, TransitShape, Waiting
      <4>2. St[m.id.call] = "pending" /\ St' = [St EXCEPT ![m.id.call] = "returned"]
            /\ UNCHANGED runs
        BY <2>4, <3>2, <4>1 DEF Settles, Response, ClientInv, TypeOK
      <4> QED
        BY <4>1, <4>2 DEF Calls!Next, Calls!Return
    <3>3. CASE UNCHANGED client
      BY <2>4, <3>3 DEF Response, client
    <3> QED
      BY <2>4, <3>1, <3>2, <3>3 DEF Response, Waiting
  <2>5. CASE Breaks \/ UNCHANGED vars
    BY <2>5 DEF Breaks, client, vars
  <2>6. ASSUME NEW w \in broken, WorkerFails(w)
        PROVE  Calls!Next \/ UNCHANGED <<St, runs>>
    BY <2>1, <2>6 DEF WorkerFails, outside
  <2>7. ASSUME NEW id \in handlers, TimesOut(id)
        PROVE  Calls!Next \/ UNCHANGED <<St, runs>>
    BY <2>1, <2>7 DEF TimesOut, outside
  <2> HIDE DEF St
  <2> QED
    BY <2>2, <2>3, <2>4, <2>5, <2>6, <2>7 DEF Next
<1> QED
  BY <1>1, <1>2, ClientInvariant, PTL DEF Spec, CallsSpec, Calls!Spec
=============================================================================
