------------------------ MODULE ImportOwnershipProofs ------------------------
(***************************************************************************)
(* Proofs about ImportOwnership, for any sessions, imports and faults.       *)
(***************************************************************************)
EXTENDS ImportOwnership, TLAPS

\* An operation that changes keeps all but its registration, and loses that only when
\* nothing more is to be expected of it.
LEMMA BecomesShape ==
    ASSUME op \in [Op -> Record], NEW k \in Op, NEW r \in Record, Becomes(k, r)
    PROVE  \E q \in Record :
             /\ op' = [op EXCEPT ![k] = q]
             /\ q = r \/ (q = [r EXCEPT !.registered = FALSE] /\ r.registered /\ Forgettable(r))
<1>1. CASE r.registered /\ Forgettable(r)
  <2>1. [r EXCEPT !.registered = FALSE] \in Record
    BY DEF Record
  <2>2. QED
    BY <1>1, <2>1 DEF Becomes
<1>2. CASE ~(r.registered /\ Forgettable(r))
  BY <1>2 DEF Becomes
<1>3. QED
  BY <1>1, <1>2

\* A release that is asked for, or not, keeps the types of its variables.
LEMMA ReleaseKeeps ==
    ASSUME orphaned \subseteq Owner, NEW o \in Owner, NEW f, NEW rest \in Seq(Request), ReleaseOrphaned(o,
       f, rest)
    PROVE  orphaned' \subseteq Owner /\ requests' \in Seq(Request)
<1>1. [what |-> "release", owner |-> o] \in Request
  BY DEF Request
<1>2. QED
  BY <1>1 DEF ReleaseOrphaned

\* So does a change of an operation.
LEMMA BecomesKeeps ==
    ASSUME TypeOK, NEW k \in Op, NEW r \in Record, Becomes(k, r)
    PROVE  op' \in [Op -> Record] /\ orphaned' \subseteq Owner /\ requests' \in Seq(Request)
<1>1. op' \in [Op -> Record]
  BY BecomesShape DEF TypeOK
<1>2. By[k] \in Owner
  BY OwnerAssumption
<1>3. QED
  BY <1>1, <1>2, ReleaseKeeps DEF Becomes, Retired, TypeOK

\* The forms in which the handlers change an operation.
LEMMA RecordKeeps ==
    ASSUME NEW r \in Record
    PROVE  /\ Settled(r) \in Record /\ Reconciling(r) \in Record /\ Released(r) \in Record /\ Left(r) \in Record
           /\ Unacknowledged(r) \in Record /\ Undecided(r) \in Record
           /\ [r EXCEPT !.settled = TRUE] \in Record
           /\ [r EXCEPT !.reconciling = FALSE] \in Record
           /\ [r EXCEPT !.registered = TRUE] \in Record /\ [r EXCEPT !.registered = FALSE] \in Record
           /\ [r EXCEPT !.completed = TRUE, !.relay = FALSE] \in Record
           /\ [r EXCEPT !.settled = TRUE, !.completed = TRUE, !.relay = FALSE] \in Record
           /\ [r EXCEPT !.attempted = TRUE, !.relay = TRUE] \in Record
           /\ Reconciling([r EXCEPT !.relay = FALSE]) \in Record
BY DEF Record, Settled, Reconciling, Released, Left, Unacknowledged, Undecided

\* Every step keeps the types.
LEMMA TypeStep == OwnershipInv /\ [Next]_vars => TypeOK'
<1> SUFFICES ASSUME OwnershipInv, [Next]_vars PROVE TypeOK'
  OBVIOUS
<1>1. ASSUME NEW o \in Owner, Connect(o) PROVE TypeOK'
  <2> USE DEF OwnershipInv, TypeOK
  <2>1. op' \in [Op -> Record] /\ orphaned' \subseteq Owner /\ requests' \in Seq(Request)
    BY <1>1 DEF Connect, Ask, Request, session
  <2>3. /\ connected' \subseteq Owner /\ connects' \in [Owner -> Nat] /\ owners' \subseteq Owner
             /\ cancelling' \subseteq Op /\ purge' \subseteq Op /\ freeing' \subseteq Owner /\ faults' \in Nat
             /\ announced' \subseteq Op /\ silent' \subseteq Op
    BY <1>1 DEF Connect, Ask, session, purging
  <2>4. /\ call' \in [Op -> {"none", "before", "sent", "ended"}] /\ mail' \in [Op -> {"none"} \cup Outcomes]
             /\ worker' \in [Op -> Open \cup Outcomes \cup {"refused", "purged"}]
    BY <1>1 DEF Connect, Ask, session, purging, Open, Outcomes
  <2>5. QED
    BY <2>1, <2>3, <2>4
<1>2. ASSUME NEW o \in Owner, Disconnect(o) PROVE TypeOK'
  <2> USE DEF OwnershipInv, TypeOK
  <2>1. op' \in [Op -> Record]
    BY <1>2, RecordKeeps DEF Disconnect
  <2>2. orphaned' \subseteq Owner /\ requests' \in Seq(Request)
    <3>1. [what |-> "release", owner |-> o] \in Request
      BY DEF Request
    <3>2. CASE Registered(op, o) = {}
      <4>1. requests' = Append(requests, [what |-> "release", owner |-> o]) /\ UNCHANGED orphaned
        BY <1>2, <3>2 DEF Disconnect, Ask
      <4>2. QED
        BY <3>1, <4>1
    <3>3. CASE Registered(op, o) # {}
      BY <1>2, <3>3 DEF Disconnect
    <3>4. QED
      BY <3>2, <3>3
  <2>3. /\ connected' \subseteq Owner /\ connects' \in [Owner -> Nat] /\ owners' \subseteq Owner
             /\ cancelling' \subseteq Op /\ purge' \subseteq Op /\ freeing' \subseteq Owner /\ faults' \in Nat
             /\ announced' \subseteq Op /\ silent' \subseteq Op
    BY <1>2 DEF Disconnect, Ask, Registered, session, purging
  <2>4. /\ call' \in [Op -> {"none", "before", "sent", "ended"}] /\ mail' \in [Op -> {"none"} \cup Outcomes]
             /\ worker' \in [Op -> Open \cup Outcomes \cup {"refused", "purged"}]
    BY <1>2 DEF Disconnect, Ask, Registered, session, purging, Open, Outcomes
  <2>5. QED
    BY <2>1, <2>2, <2>3, <2>4
<1>3. ASSUME NEW o \in Owner, EndSession(o) PROVE TypeOK'
  <2> USE DEF OwnershipInv, TypeOK
  <2>1. op' \in [Op -> Record] /\ orphaned' \subseteq Owner /\ requests' \in Seq(Request)
    BY <1>3 DEF EndSession, Ask, Request, session
  <2>3. /\ connected' \subseteq Owner /\ connects' \in [Owner -> Nat] /\ owners' \subseteq Owner
             /\ cancelling' \subseteq Op /\ purge' \subseteq Op /\ freeing' \subseteq Owner /\ faults' \in Nat
             /\ announced' \subseteq Op /\ silent' \subseteq Op
    BY <1>3 DEF EndSession, Ask, session, purging
  <2>4. /\ call' \in [Op -> {"none", "before", "sent", "ended"}] /\ mail' \in [Op -> {"none"} \cup Outcomes]
             /\ worker' \in [Op -> Open \cup Outcomes \cup {"refused", "purged"}]
    BY <1>3 DEF EndSession, Ask, session, purging, Open, Outcomes
  <2>5. QED
    BY <2>1, <2>3, <2>4
<1>4. ASSUME NEW o \in Owner, FreeSession(o) PROVE TypeOK'
  <2> USE DEF OwnershipInv, TypeOK
  <2>1. op' \in [Op -> Record] /\ orphaned' \subseteq Owner /\ requests' \in Seq(Request)
    BY <1>4, ReleaseKeeps DEF FreeSession
  <2>3. /\ connected' \subseteq Owner /\ connects' \in [Owner -> Nat] /\ owners' \subseteq Owner
             /\ cancelling' \subseteq Op /\ purge' \subseteq Op /\ freeing' \subseteq Owner /\ faults' \in Nat
             /\ announced' \subseteq Op /\ silent' \subseteq Op
    BY <1>4 DEF FreeSession, ReleaseOrphaned, session, purging
  <2>4. /\ call' \in [Op -> {"none", "before", "sent", "ended"}] /\ mail' \in [Op -> {"none"} \cup Outcomes]
             /\ worker' \in [Op -> Open \cup Outcomes \cup {"refused", "purged"}]
    BY <1>4 DEF FreeSession, ReleaseOrphaned, session, purging, Open, Outcomes
  <2>5. QED
    BY <2>1, <2>3, <2>4
<1>5. ASSUME NEW k \in Op, Register(k) PROVE TypeOK'
  <2> USE DEF OwnershipInv, TypeOK
  <2>1. op' \in [Op -> Record] /\ orphaned' \subseteq Owner /\ requests' \in Seq(Request)
    BY <1>5, RecordKeeps DEF Register, session
  <2>3. /\ connected' \subseteq Owner /\ connects' \in [Owner -> Nat] /\ owners' \subseteq Owner
             /\ cancelling' \subseteq Op /\ purge' \subseteq Op /\ freeing' \subseteq Owner /\ faults' \in Nat
             /\ announced' \subseteq Op /\ silent' \subseteq Op
    BY <1>5 DEF Register, session, purging
  <2>4. /\ call' \in [Op -> {"none", "before", "sent", "ended"}] /\ mail' \in [Op -> {"none"} \cup Outcomes]
             /\ worker' \in [Op -> Open \cup Outcomes \cup {"refused", "purged"}]
    BY <1>5 DEF Register, session, purging, Open, Outcomes
  <2>5. QED
    BY <2>1, <2>3, <2>4
<1>6. ASSUME NEW k \in Op, Send(k) PROVE TypeOK'
  <2> USE DEF OwnershipInv, TypeOK
  <2>1. op' \in [Op -> Record] /\ orphaned' \subseteq Owner /\ requests' \in Seq(Request)
    BY <1>6, RecordKeeps DEF Send, session
  <2>3. /\ connected' \subseteq Owner /\ connects' \in [Owner -> Nat] /\ owners' \subseteq Owner
             /\ cancelling' \subseteq Op /\ purge' \subseteq Op /\ freeing' \subseteq Owner /\ faults' \in Nat
             /\ announced' \subseteq Op /\ silent' \subseteq Op
    BY <1>6 DEF Send, session, purging
  <2>4. /\ call' \in [Op -> {"none", "before", "sent", "ended"}] /\ mail' \in [Op -> {"none"} \cup Outcomes]
             /\ worker' \in [Op -> Open \cup Outcomes \cup {"refused", "purged"}]
    BY <1>6 DEF Send, session, purging, Open, Outcomes
  <2>5. QED
    BY <2>1, <2>3, <2>4
<1>7. ASSUME NEW k \in Op, Deliver(k) PROVE TypeOK'
  <2> USE DEF OwnershipInv, TypeOK
  <2>1. op' \in [Op -> Record] /\ orphaned' \subseteq Owner /\ requests' \in Seq(Request)
    BY <1>7 DEF Deliver, Request, session
  <2>3. /\ connected' \subseteq Owner /\ connects' \in [Owner -> Nat] /\ owners' \subseteq Owner
             /\ cancelling' \subseteq Op /\ purge' \subseteq Op /\ freeing' \subseteq Owner /\ faults' \in Nat
             /\ announced' \subseteq Op /\ silent' \subseteq Op
    BY <1>7 DEF Deliver, session, purging
  <2>4. /\ call' \in [Op -> {"none", "before", "sent", "ended"}] /\ mail' \in [Op -> {"none"} \cup Outcomes]
             /\ worker' \in [Op -> Open \cup Outcomes \cup {"refused", "purged"}]
    BY <1>7 DEF Deliver, session, purging, Open, Outcomes
  <2>5. QED
    BY <2>1, <2>3, <2>4
<1>8. ASSUME NEW k \in Op, NotSent(k) PROVE TypeOK'
  <2> USE DEF OwnershipInv, TypeOK
  <2>1. op' \in [Op -> Record] /\ orphaned' \subseteq Owner /\ requests' \in Seq(Request)
    <3>1. \E r \in Record : Becomes(k, r)
      BY <1>8, RecordKeeps DEF NotSent
    <3>2. QED
      BY <3>1, BecomesKeeps
  <2>3. /\ connected' \subseteq Owner /\ connects' \in [Owner -> Nat] /\ owners' \subseteq Owner
             /\ cancelling' \subseteq Op /\ purge' \subseteq Op /\ freeing' \subseteq Owner /\ faults' \in Nat
             /\ announced' \subseteq Op /\ silent' \subseteq Op
    BY <1>8 DEF NotSent, session, purging
  <2>4. /\ call' \in [Op -> {"none", "before", "sent", "ended"}] /\ mail' \in [Op -> {"none"} \cup Outcomes]
             /\ worker' \in [Op -> Open \cup Outcomes \cup {"refused", "purged"}]
    BY <1>8 DEF NotSent, session, purging, Open, Outcomes
  <2>5. QED
    BY <2>1, <2>3, <2>4
<1>9. ASSUME NEW k \in Op, SentEnds(k) PROVE TypeOK'
  <2> USE DEF OwnershipInv, TypeOK
  <2>1. op' \in [Op -> Record] /\ orphaned' \subseteq Owner /\ requests' \in Seq(Request)
    <3>1. \E r \in Record : Becomes(k, r)
      BY <1>9, RecordKeeps DEF SentEnds, Fault
    <3>2. QED
      BY <3>1, BecomesKeeps
  <2>3. /\ connected' \subseteq Owner /\ connects' \in [Owner -> Nat] /\ owners' \subseteq Owner
             /\ cancelling' \subseteq Op /\ purge' \subseteq Op /\ freeing' \subseteq Owner /\ faults' \in Nat
             /\ announced' \subseteq Op /\ silent' \subseteq Op
    BY <1>9 DEF SentEnds, Fault, session, purging
  <2>4. /\ call' \in [Op -> {"none", "before", "sent", "ended"}] /\ mail' \in [Op -> {"none"} \cup Outcomes]
             /\ worker' \in [Op -> Open \cup Outcomes \cup {"refused", "purged"}]
    BY <1>9 DEF SentEnds, Fault, session, purging, Open, Outcomes
  <2>5. QED
    BY <2>1, <2>3, <2>4
<1>10. ASSUME NEW k \in Op, WorkerEnds(k) PROVE TypeOK'
  <2> USE DEF OwnershipInv, TypeOK
  <2>1. op' \in [Op -> Record] /\ orphaned' \subseteq Owner /\ requests' \in Seq(Request)
    BY <1>10 DEF WorkerEnds, Fault, Request, session
  <2>3. /\ connected' \subseteq Owner /\ connects' \in [Owner -> Nat] /\ owners' \subseteq Owner
             /\ cancelling' \subseteq Op /\ purge' \subseteq Op /\ freeing' \subseteq Owner /\ faults' \in Nat
             /\ announced' \subseteq Op /\ silent' \subseteq Op
    BY <1>10 DEF WorkerEnds, Fault, session, purging
  <2>4. /\ call' \in [Op -> {"none", "before", "sent", "ended"}] /\ mail' \in [Op -> {"none"} \cup Outcomes]
             /\ worker' \in [Op -> Open \cup Outcomes \cup {"refused", "purged"}]
    BY <1>10 DEF WorkerEnds, Fault, session, purging, Open, Outcomes
  <2>5. QED
    BY <2>1, <2>3, <2>4
<1>11. ASSUME NEW k \in Op, Receive(k) PROVE TypeOK'
  <2> USE DEF OwnershipInv, TypeOK
  <2>1. op' \in [Op -> Record] /\ orphaned' \subseteq Owner /\ requests' \in Seq(Request)
    <3>1. CASE UNCHANGED <<op, orphaned, requests>>
      BY <3>1
    <3>2. CASE op' = [op EXCEPT ![k] = Reconciling(Undecided(op[k]))] /\ UNCHANGED <<orphaned, requests>>
      <4>1. Undecided(op[k]) \in Record
        BY RecordKeeps
      <4>2. QED
        BY <3>2, <4>1, RecordKeeps
    <3>3. CASE Complete(k, mail[k] = "published")
      BY <3>3, RecordKeeps, BecomesKeeps DEF Complete
    <3>4. QED
      BY <1>11, <3>1, <3>2, <3>3 DEF Receive
  <2>3. /\ connected' \subseteq Owner /\ connects' \in [Owner -> Nat] /\ owners' \subseteq Owner
             /\ cancelling' \subseteq Op /\ purge' \subseteq Op /\ freeing' \subseteq Owner /\ faults' \in Nat
             /\ announced' \subseteq Op /\ silent' \subseteq Op
    BY <1>11 DEF Receive, Complete, Undecided, session, purging
  <2>4. /\ call' \in [Op -> {"none", "before", "sent", "ended"}] /\ mail' \in [Op -> {"none"} \cup Outcomes]
             /\ worker' \in [Op -> Open \cup Outcomes \cup {"refused", "purged"}]
    BY <1>11 DEF Receive, Complete, Undecided, session, purging, Open, Outcomes
  <2>5. QED
    BY <2>1, <2>3, <2>4
<1>12. ASSUME NEW k \in Op, QueryEnds(k) PROVE TypeOK'
  <2> USE DEF OwnershipInv, TypeOK
  <2>1. op' \in [Op -> Record] /\ orphaned' \subseteq Owner /\ requests' \in Seq(Request)
    <3>1. [op[k] EXCEPT !.reconciling = FALSE] \in Record
      BY RecordKeeps
    <3>2. \E r \in Record : Becomes(k, r)
      BY <1>12, <3>1, RecordKeeps DEF QueryEnds, Answer
    <3>3. QED
      BY <3>2, BecomesKeeps
  <2>3. /\ connected' \subseteq Owner /\ connects' \in [Owner -> Nat] /\ owners' \subseteq Owner
             /\ cancelling' \subseteq Op /\ purge' \subseteq Op /\ freeing' \subseteq Owner /\ faults' \in Nat
             /\ announced' \subseteq Op /\ silent' \subseteq Op
    BY <1>12 DEF QueryEnds, Answer, Decided, Fault, session, purging
  <2>4. /\ call' \in [Op -> {"none", "before", "sent", "ended"}] /\ mail' \in [Op -> {"none"} \cup Outcomes]
             /\ worker' \in [Op -> Open \cup Outcomes \cup {"refused", "purged"}]
    BY <1>12 DEF QueryEnds, Answer, Decided, Fault, session, purging, Open, Outcomes
  <2>5. QED
    BY <2>1, <2>3, <2>4
<1>13. ASSUME NEW k \in Op, CancelEnds(k) PROVE TypeOK'
  <2> USE DEF OwnershipInv, TypeOK
  <2>1. op' \in [Op -> Record] /\ orphaned' \subseteq Owner /\ requests' \in Seq(Request)
    BY <1>13, BecomesKeeps DEF CancelEnds
  <2>3. /\ connected' \subseteq Owner /\ connects' \in [Owner -> Nat] /\ owners' \subseteq Owner
             /\ cancelling' \subseteq Op /\ purge' \subseteq Op /\ freeing' \subseteq Owner /\ faults' \in Nat
             /\ announced' \subseteq Op /\ silent' \subseteq Op
    BY <1>13 DEF CancelEnds, session, purging
  <2>4. /\ call' \in [Op -> {"none", "before", "sent", "ended"}] /\ mail' \in [Op -> {"none"} \cup Outcomes]
             /\ worker' \in [Op -> Open \cup Outcomes \cup {"refused", "purged"}]
    BY <1>13 DEF CancelEnds, session, purging, Open, Outcomes
  <2>5. QED
    BY <2>1, <2>3, <2>4
<1>14. ASSUME NEW k \in Op, Garbled(k) PROVE TypeOK'
  <2> USE DEF OwnershipInv, TypeOK
  <2>1. op' \in [Op -> Record] /\ orphaned' \subseteq Owner /\ requests' \in Seq(Request)
    BY <1>14, RecordKeeps DEF Garbled, Fault, session
  <2>3. /\ connected' \subseteq Owner /\ connects' \in [Owner -> Nat] /\ owners' \subseteq Owner
             /\ cancelling' \subseteq Op /\ purge' \subseteq Op /\ freeing' \subseteq Owner /\ faults' \in Nat
             /\ announced' \subseteq Op /\ silent' \subseteq Op
    BY <1>14 DEF Garbled, Fault, session, purging
  <2>4. /\ call' \in [Op -> {"none", "before", "sent", "ended"}] /\ mail' \in [Op -> {"none"} \cup Outcomes]
             /\ worker' \in [Op -> Open \cup Outcomes \cup {"refused", "purged"}]
    BY <1>14 DEF Garbled, Fault, session, purging, Open, Outcomes
  <2>5. QED
    BY <2>1, <2>3, <2>4
<1>15. ASSUME NEW k \in Op, TransportFails(k) PROVE TypeOK'
  <2> USE DEF OwnershipInv, TypeOK
  <2>1. op' \in [Op -> Record] /\ orphaned' \subseteq Owner /\ requests' \in Seq(Request)
    BY <1>15, RecordKeeps DEF TransportFails, Fault, session
  <2>3. /\ connected' \subseteq Owner /\ connects' \in [Owner -> Nat] /\ owners' \subseteq Owner
             /\ cancelling' \subseteq Op /\ purge' \subseteq Op /\ freeing' \subseteq Owner /\ faults' \in Nat
             /\ announced' \subseteq Op /\ silent' \subseteq Op
    BY <1>15 DEF TransportFails, Fault, session, purging
  <2>4. /\ call' \in [Op -> {"none", "before", "sent", "ended"}] /\ mail' \in [Op -> {"none"} \cup Outcomes]
             /\ worker' \in [Op -> Open \cup Outcomes \cup {"refused", "purged"}]
    BY <1>15 DEF TransportFails, Fault, session, purging, Open, Outcomes
  <2>5. QED
    BY <2>1, <2>3, <2>4
<1>16. ASSUME NEW k \in Op, Recovered(k) PROVE TypeOK'
  <2> USE DEF OwnershipInv, TypeOK
  <2>1. op' \in [Op -> Record] /\ orphaned' \subseteq Owner /\ requests' \in Seq(Request)
    BY <1>16 DEF Recovered, Request, session
  <2>3. /\ connected' \subseteq Owner /\ connects' \in [Owner -> Nat] /\ owners' \subseteq Owner
             /\ cancelling' \subseteq Op /\ purge' \subseteq Op /\ freeing' \subseteq Owner /\ faults' \in Nat
             /\ announced' \subseteq Op /\ silent' \subseteq Op
    BY <1>16 DEF Recovered, session, purging
  <2>4. /\ call' \in [Op -> {"none", "before", "sent", "ended"}] /\ mail' \in [Op -> {"none"} \cup Outcomes]
             /\ worker' \in [Op -> Open \cup Outcomes \cup {"refused", "purged"}]
    BY <1>16 DEF Recovered, session, purging, Open, Outcomes
  <2>5. QED
    BY <2>1, <2>3, <2>4
<1>17. ASSUME NEW k \in Op, PageAsks(k) PROVE TypeOK'
  <2> USE DEF OwnershipInv, TypeOK
  <2>1. op' \in [Op -> Record] /\ orphaned' \subseteq Owner /\ requests' \in Seq(Request)
    <3>1. \E r \in Record : Becomes(k, r)
      BY <1>17, RecordKeeps DEF PageAsks, Answer, Unanswered, Decided
    <3>2. QED
      BY <3>1, BecomesKeeps
  <2>3. /\ connected' \subseteq Owner /\ connects' \in [Owner -> Nat] /\ owners' \subseteq Owner
             /\ cancelling' \subseteq Op /\ purge' \subseteq Op /\ freeing' \subseteq Owner /\ faults' \in Nat
             /\ announced' \subseteq Op /\ silent' \subseteq Op
    BY <1>17 DEF PageAsks, Answer, Unanswered, Decided, session, purging
  <2>4. /\ call' \in [Op -> {"none", "before", "sent", "ended"}] /\ mail' \in [Op -> {"none"} \cup Outcomes]
             /\ worker' \in [Op -> Open \cup Outcomes \cup {"refused", "purged"}]
    BY <1>17 DEF PageAsks, Answer, Unanswered, Decided, session, purging, Open, Outcomes
  <2>5. QED
    BY <2>1, <2>3, <2>4
<1>18. ASSUME Transition PROVE TypeOK'
  <2> USE DEF OwnershipInv, TypeOK
  <2>1. op' \in [Op -> Record] /\ orphaned' \subseteq Owner /\ requests' \in Seq(Request)
    <3>1. Head(requests) \in Request /\ Tail(requests) \in Seq(Request)
      BY <1>18 DEF Transition
    <3>2. Head(requests).owner \in Owner
      BY <3>1 DEF Request
    <3>3. op' \in [Op -> Record]
      BY <1>18, RecordKeeps DEF Transition
    <3>4. QED
      BY <1>18, <3>1, <3>2, <3>3, ReleaseKeeps DEF Transition
  <2>2. Head(requests) \in Request /\ Head(requests).owner \in Owner
    <3>1. Head(requests) \in Request
      BY <1>18 DEF Transition
    <3>2. QED
      BY <3>1 DEF Request
  <2>3. /\ connected' \subseteq Owner /\ connects' \in [Owner -> Nat] /\ owners' \subseteq Owner
             /\ cancelling' \subseteq Op /\ purge' \subseteq Op /\ freeing' \subseteq Owner /\ faults' \in Nat
             /\ announced' \subseteq Op /\ silent' \subseteq Op
    BY <1>18, <2>2 DEF Transition, Registered, ReleaseOrphaned, session, purging
  <2>4. /\ call' \in [Op -> {"none", "before", "sent", "ended"}] /\ mail' \in [Op -> {"none"} \cup Outcomes]
             /\ worker' \in [Op -> Open \cup Outcomes \cup {"refused", "purged"}]
    BY <1>18 DEF Transition, Registered, ReleaseOrphaned, session, purging, Open, Outcomes
  <2>5. QED
    BY <2>1, <2>3, <2>4
<1>19. ASSUME PurgeBegins PROVE TypeOK'
  <2> USE DEF OwnershipInv, TypeOK
  <2>1. op' \in [Op -> Record] /\ orphaned' \subseteq Owner /\ requests' \in Seq(Request)
    BY <1>19 DEF PurgeBegins, Request, session
  <2>3. /\ connected' \subseteq Owner /\ connects' \in [Owner -> Nat] /\ owners' \subseteq Owner
             /\ cancelling' \subseteq Op /\ purge' \subseteq Op /\ freeing' \subseteq Owner /\ faults' \in Nat
             /\ announced' \subseteq Op /\ silent' \subseteq Op
    BY <1>19 DEF PurgeBegins, session, purging
  <2>4. /\ call' \in [Op -> {"none", "before", "sent", "ended"}] /\ mail' \in [Op -> {"none"} \cup Outcomes]
             /\ worker' \in [Op -> Open \cup Outcomes \cup {"refused", "purged"}]
    BY <1>19 DEF PurgeBegins, session, purging, Open, Outcomes
  <2>5. QED
    BY <2>1, <2>3, <2>4
<1>20. ASSUME PurgeEnds PROVE TypeOK'
  <2> USE DEF OwnershipInv, TypeOK
  <2>1. op' \in [Op -> Record] /\ orphaned' \subseteq Owner /\ requests' \in Seq(Request)
    BY <1>20, RecordKeeps DEF PurgeEnds, session
  <2>3. /\ connected' \subseteq Owner /\ connects' \in [Owner -> Nat] /\ owners' \subseteq Owner
             /\ cancelling' \subseteq Op /\ purge' \subseteq Op /\ freeing' \subseteq Owner /\ faults' \in Nat
             /\ announced' \subseteq Op /\ silent' \subseteq Op
    BY <1>20, OwnerAssumption DEF PurgeEnds, Superseded, session, purging
  <2>4. /\ call' \in [Op -> {"none", "before", "sent", "ended"}] /\ mail' \in [Op -> {"none"} \cup Outcomes]
             /\ worker' \in [Op -> Open \cup Outcomes \cup {"refused", "purged"}]
    BY <1>20 DEF PurgeEnds, Superseded, session, purging, Open, Outcomes
  <2>5. QED
    BY <2>1, <2>3, <2>4
<1>21. CASE UNCHANGED vars
  BY <1>21 DEF vars, TypeOK, OwnershipInv, session, purging
<1>22. QED
  BY <1>1, <1>2, <1>3, <1>4, <1>5, <1>6, <1>7, <1>8, <1>9, <1>10, <1>11, <1>12, <1>13, <1>14, <1>15, <1>16,
     <1>17, <1>18, <1>19, <1>20, <1>21 DEF Next, Step

-------------------------------------------------------------------------------
(* The shape of an operation does not depend on whether a query runs. *)

Alike(q, r) ==
    /\ q.cancelled = r.cancelled /\ q.settled = r.settled /\ q.completed = r.completed
    /\ q.attempted = r.attempted /\ q.relay = r.relay /\ q.unknown = r.unknown

Shape(k) == CallShape(k) /\ RelayShape(k) /\ OpenShape(k)

\* A query that is asked for changes nothing else.
LEMMA ReconcilingAlike ==
    ASSUME NEW r \in Record
    PROVE  Alike(Reconciling(r), r) /\ Reconciling(r).registered = r.registered
BY DEF Alike, Reconciling, Record

\* What an operation that changes looks like.
LEMMA BecomesAlike ==
    ASSUME op \in [Op -> Record], NEW k \in Op, NEW r \in Record, Becomes(k, r)
    PROVE  /\ Alike(op'[k], r)
           /\ op'[k].registered => r.registered
           /\ r.registered /\ ~op'[k].registered =>
                r.settled /\ (r.completed \/ (r.cancelled /\ ~r.relay))
           /\ \A j \in Op : j # k => op'[j] = op[j]
<1>1. PICK q \in Record :
        /\ op' = [op EXCEPT ![k] = q]
        /\ q = r \/ (q = [r EXCEPT !.registered = FALSE] /\ r.registered /\ Forgettable(r))
  BY BecomesShape
<1>2. op'[k] = q /\ \A j \in Op : j # k => op'[j] = op[j]
  BY <1>1
<1>3. CASE q = r
  BY <1>2, <1>3 DEF Alike
<1>4. CASE q = [r EXCEPT !.registered = FALSE] /\ r.registered /\ Forgettable(r)
  BY <1>2, <1>4 DEF Alike, Record, Forgettable
<1>5. QED
  BY <1>1, <1>3, <1>4

\* An operation which a step does not touch keeps its shape.
LEMMA OtherKept ==
    ASSUME NEW j \in Op, Shape(j), op'[j] = op[j], call'[j] = call[j], mail'[j] = mail[j],
       worker'[j] = worker[j],
           By[j] \in owners => By[j] \in owners', j \in silent => j \in silent',
              j \in announced => j \in announced'
    PROVE  Shape(j)'
BY DEF Shape, CallShape, RelayShape, OpenShape

\* An operation of which nothing but its answer and its registration changes.
LEMMA AnsweredShape ==
    ASSUME TypeOK, NEW k \in Op, Shape(k), NEW r \in Record, Alike(r, op[k]), r.registered = op[k].registered,
           Becomes(k, r), call[k] # "none" \/ r = op[k],
           UNCHANGED <<call, mail, worker, owners, silent>>, k \in announced => k \in announced'
    PROVE  Shape(k)'
<1>1. /\ Alike(op'[k], r) /\ (op'[k].registered => r.registered)
      /\ r.registered /\ ~op'[k].registered => r.settled /\ (r.completed \/ (r.cancelled /\ ~r.relay))
  BY BecomesAlike DEF TypeOK
<1>2. Alike(op'[k], op[k])
  BY <1>1 DEF Alike
<1>3. call'[k] = "none" => op'[k] = Fresh
  BY DEF Becomes, Fresh, Shape, CallShape, TypeOK
<1>4. CallShape(k)'
  BY <1>1, <1>2, <1>3 DEF Alike, Shape, CallShape
<1>5. RelayShape(k)'
  BY <1>1, <1>2 DEF Alike, Shape, CallShape, RelayShape
<1>6. OpenShape(k)'
  BY <1>1, <1>2 DEF Alike, Shape, CallShape, RelayShape, OpenShape
<1>7. QED
  BY <1>4, <1>5, <1>6 DEF Shape

\* An operation whose outcome becomes known, and is announced when it is a publication.
LEMMA CompletedShape ==
    ASSUME TypeOK, NEW k \in Op, Shape(k), op[k].registered, op[k].attempted, worker[k] \notin {"none",
       "running", "unknown"},
           NEW r \in Record, r.attempted, r.completed, ~r.relay, r.cancelled = op[k].cancelled,
              r.unknown = op[k].unknown,
           call[k] = "ended" \/ r.settled = op[k].settled, Becomes(k, r), r.registered,
           UNCHANGED <<call, worker, owners, silent>>, mail'[k] \in {"none", mail[k]},
           k \in announced => k \in announced', worker[k] = "published" => k \in announced'
    PROVE  Shape(k)'
<1>1. /\ Alike(op'[k], r)
      /\ ~op'[k].registered => r.settled
  BY BecomesAlike DEF TypeOK
<1>2. call[k] # "none"
  BY DEF Shape, CallShape, Fresh
<1>3. CallShape(k)'
  BY <1>1, <1>2 DEF Alike, Shape, CallShape
<1>4. RelayShape(k)'
  BY <1>1 DEF Alike, Shape, RelayShape
<1>5. OpenShape(k)'
  BY <1>1 DEF Alike, Shape, OpenShape, Open
<1>6. QED
  BY <1>3, <1>4, <1>5 DEF Shape

\* An authoritative answer, once an import has one.
LEMMA AnswerShape ==
    ASSUME TypeOK, NEW k \in Op, Shape(k), Decided(k), NEW r \in Record, Alike(r, op[k]),
           r.registered = op[k].registered, call[k] # "none", Answer(k, r),
           UNCHANGED <<call, mail, worker, owners, silent>>
    PROVE  Shape(k)'
<1>1. CASE ~(op[k].registered /\ ~op[k].completed)
  BY <1>1, AnsweredShape DEF Answer
<1>2. CASE op[k].registered /\ ~op[k].completed
  <2> DEFINE q == [r EXCEPT !.completed = TRUE, !.relay = FALSE]
  <2>1. op[k].attempted /\ worker[k] \notin {"none", "running", "unknown"}
    BY DEF Decided, Shape, OpenShape
  <2>2. /\ q \in Record /\ q.attempted /\ q.completed /\ ~q.relay /\ q.cancelled = op[k].cancelled
        /\ q.unknown = op[k].unknown /\ q.settled = op[k].settled /\ q.registered
    BY <1>2, <2>1 DEF Record, Alike
  <2>3. Becomes(k, q) /\ announced' = IF worker[k] = "published" THEN announced \cup {k} ELSE announced
    BY <1>2 DEF Answer
  <2>4. mail'[k] = mail[k]
    OBVIOUS
  <2> HIDE DEF q
  <2>5. QED
    BY <1>2, <2>1, <2>2, <2>3, <2>4, CompletedShape
<1>3. QED
  BY <1>1, <1>2

\* Every step keeps request, relay and outcome in agreement.
LEMMA ShapeStep == OwnershipInv /\ [Next]_vars => (\A j \in Op : Shape(j))'
<1> SUFFICES ASSUME OwnershipInv, [Next]_vars PROVE (\A j \in Op : Shape(j))'
  OBVIOUS
<1>1. ASSUME NEW o \in Owner, Connect(o) PROVE (\A j \in Op : Shape(j))'
  BY <1>1 DEF Connect, Ask, Fresh, Record, TypeOK, Open, Outcomes, OwnershipInv, Shape, CallShape,
     RelayShape, OpenShape, session, purging
<1>2. ASSUME NEW o \in Owner, Disconnect(o) PROVE (\A j \in Op : Shape(j))'
  <2> USE DEF OwnershipInv, TypeOK
  <2> SUFFICES ASSUME NEW j \in Op PROVE Shape(j)'
    OBVIOUS
  <2>1. Shape(j) /\ op[j] \in Record
    BY DEF Shape
  <2>2. UNCHANGED <<call, mail, worker, owners, silent, announced>>
    BY <1>2 DEF Disconnect
  <2>3. CASE op'[j] = op[j]
    BY <2>1, <2>2, <2>3, OtherKept
  <2>4. CASE op[j].registered /\ op'[j] = Left(op[j])
    <3>1. /\ op'[j].registered /\ op'[j].settled = op[j].settled /\ op'[j].completed = op[j].completed
          /\ op'[j].attempted = op[j].attempted /\ op'[j].relay = op[j].relay /\ op'[j].unknown = op[j].unknown
          /\ op[j].cancelled => op'[j].cancelled
      BY <2>1, <2>4 DEF Left, Reconciling, Record
    <3>2. call[j] # "none"
      BY <2>1, <2>4 DEF Shape, CallShape, Fresh
    <3>3. CallShape(j)' /\ RelayShape(j)'
      BY <2>1, <2>2, <3>1, <3>2, <2>4 DEF Shape, CallShape, RelayShape
    <3>4. OpenShape(j)'
      BY <2>1, <2>2, <3>1, <2>4 DEF Shape, OpenShape
    <3>5. QED
      BY <3>3, <3>4 DEF Shape
  <2>5. QED
    BY <1>2, <2>3, <2>4 DEF Disconnect, Registered
<1>3. ASSUME NEW o \in Owner, EndSession(o) PROVE (\A j \in Op : Shape(j))'
  BY <1>3 DEF EndSession, Ask, Fresh, Record, TypeOK, Open, Outcomes, OwnershipInv, Shape, CallShape,
     RelayShape, OpenShape, session, purging
<1>4. ASSUME NEW o \in Owner, FreeSession(o) PROVE (\A j \in Op : Shape(j))'
  BY <1>4 DEF FreeSession, ReleaseOrphaned, Fresh, Record, TypeOK, Open, Outcomes, OwnershipInv, Shape,
     CallShape, RelayShape, OpenShape, session, purging
<1>5. ASSUME NEW k \in Op, Register(k) PROVE (\A j \in Op : Shape(j))'
  <2> USE DEF OwnershipInv, TypeOK
  <2>1. \A j \in Op : Shape(j)
    BY DEF Shape
  <2>2. \A j \in Op \ {k} : op'[j] = op[j]
    BY <1>5 DEF Register
  <2>3. Shape(k)'
    BY <1>5, <2>1 DEF Register, session, Fresh, Record, Open, Outcomes, Shape, CallShape, RelayShape, OpenShape
  <2>4. \A j \in Op \ {k} : Shape(j)'
    <3> SUFFICES ASSUME NEW j \in Op \ {k} PROVE Shape(j)'
      OBVIOUS
    <3>1. call'[j] = call[j] /\ mail'[j] = mail[j] /\ worker'[j] = worker[j]
      BY <1>5 DEF Register
    <3>2. owners' = owners /\ (j \in silent => j \in silent') /\ (j \in announced => j \in announced')
      BY <1>5 DEF Register, session
    <3>3. QED
      BY <2>1, <2>2, <3>1, <3>2, OtherKept
  <2>5. QED
    BY <2>3, <2>4
<1>6. ASSUME NEW k \in Op, Send(k) PROVE (\A j \in Op : Shape(j))'
  <2> USE DEF OwnershipInv, TypeOK
  <2>1. \A j \in Op : Shape(j)
    BY DEF Shape
  <2>2. \A j \in Op \ {k} : op'[j] = op[j]
    BY <1>6 DEF Send
  <2>3. Shape(k)'
    BY <1>6, <2>1 DEF Send, session, Fresh, Record, Open, Outcomes, Shape, CallShape, RelayShape, OpenShape
  <2>4. \A j \in Op \ {k} : Shape(j)'
    <3> SUFFICES ASSUME NEW j \in Op \ {k} PROVE Shape(j)'
      OBVIOUS
    <3>1. call'[j] = call[j] /\ mail'[j] = mail[j] /\ worker'[j] = worker[j]
      BY <1>6 DEF Send
    <3>2. owners' = owners /\ (j \in silent => j \in silent') /\ (j \in announced => j \in announced')
      BY <1>6 DEF Send, session
    <3>3. QED
      BY <2>1, <2>2, <3>1, <3>2, OtherKept
  <2>5. QED
    BY <2>3, <2>4
<1>7. ASSUME NEW k \in Op, Deliver(k) PROVE (\A j \in Op : Shape(j))'
  <2> USE DEF OwnershipInv, TypeOK
  <2>1. \A j \in Op : Shape(j)
    BY DEF Shape
  <2>2. \A j \in Op \ {k} : op'[j] = op[j]
    BY <1>7 DEF Deliver
  <2>3. Shape(k)'
    BY <1>7, <2>1 DEF Deliver, session, Fresh, Record, Open, Outcomes, Shape, CallShape, RelayShape, OpenShape
  <2>4. \A j \in Op \ {k} : Shape(j)'
    <3> SUFFICES ASSUME NEW j \in Op \ {k} PROVE Shape(j)'
      OBVIOUS
    <3>1. call'[j] = call[j] /\ mail'[j] = mail[j] /\ worker'[j] = worker[j]
      BY <1>7 DEF Deliver
    <3>2. owners' = owners /\ (j \in silent => j \in silent') /\ (j \in announced => j \in announced')
      BY <1>7 DEF Deliver, session
    <3>3. QED
      BY <2>1, <2>2, <3>1, <3>2, OtherKept
  <2>5. QED
    BY <2>3, <2>4
<1>8. ASSUME NEW k \in Op, NotSent(k) PROVE (\A j \in Op : Shape(j))'
  <2> USE DEF OwnershipInv, TypeOK
  <2>1. \A j \in Op : Shape(j)
    BY DEF Shape
  <2>2. \A j \in Op \ {k} : op'[j] = op[j]
    BY <1>8, RecordKeeps, BecomesAlike DEF NotSent
  <2>3. Shape(k)'
    <3>1. Settled(op[k]) \in Record
      BY RecordKeeps
    <3>2. Alike(op'[k], Settled(op[k])) /\ (op'[k].registered => op[k].registered)
      BY <1>8, <3>1, BecomesAlike DEF NotSent, Settled, Record
    <3>3. op[k].registered /\ ~op[k].settled /\ ~op[k].attempted
      BY <1>8, <2>1 DEF NotSent, Shape, CallShape
    <3>4. op'[k].completed /\ ~op'[k].attempted /\ op'[k].relay = op[k].relay /\ op'[k].unknown = op[k].unknown
      BY <3>2, <3>3 DEF Alike, Settled, Record
    <3>5. op'[k].registered /\ ~op'[k].cancelled => op[k].registered /\ ~op[k].cancelled
      BY <3>2 DEF Alike, Settled, Record
    <3>6. UNCHANGED <<mail, worker, owners, silent, announced>> /\ call'[k] = "ended"
      BY <1>8 DEF NotSent
    <3>7. QED
      BY <2>1, <3>3, <3>4, <3>5, <3>6 DEF Shape, CallShape, RelayShape, OpenShape, Open, Outcomes
  <2>4. \A j \in Op \ {k} : Shape(j)'
    <3> SUFFICES ASSUME NEW j \in Op \ {k} PROVE Shape(j)'
      OBVIOUS
    <3>1. call'[j] = call[j] /\ mail'[j] = mail[j] /\ worker'[j] = worker[j]
      BY <1>8 DEF NotSent
    <3>2. owners' = owners /\ (j \in silent => j \in silent') /\ (j \in announced => j \in announced')
      BY <1>8 DEF NotSent, session
    <3>3. QED
      BY <2>1, <2>2, <3>1, <3>2, OtherKept
  <2>5. QED
    BY <2>3, <2>4
<1>9. ASSUME NEW k \in Op, SentEnds(k) PROVE (\A j \in Op : Shape(j))'
  <2> USE DEF OwnershipInv, TypeOK
  <2>1. \A j \in Op : Shape(j)
    BY DEF Shape
  <2>2. \A j \in Op \ {k} : op'[j] = op[j]
    <3>1. [op[k] EXCEPT !.settled = TRUE] \in Record /\ Unacknowledged(op[k]) \in Record
          /\ [op[k] EXCEPT !.settled = TRUE, !.completed = TRUE, !.relay = FALSE] \in Record
      BY RecordKeeps
    <3>2. QED
      BY <1>9, <3>1, BecomesAlike DEF SentEnds
  <2>3. Shape(k)'
    <3>1. UNCHANGED <<mail, owners, announced>> /\ call[k] = "sent" /\ call'[k] = "ended"
      BY <1>9 DEF SentEnds
    <3>2. op[k].registered /\ op[k].attempted
      BY <2>1, <3>1 DEF Shape, CallShape
    <3>3. ASSUME NEW r \in Record, Becomes(k, r), UNCHANGED worker, k \in silent => k \in silent',
                 r.cancelled = op[k].cancelled, r.completed = op[k].completed, r.attempted, r.registered,
                 r.relay = op[k].relay, r.unknown = op[k].unknown
          PROVE  Shape(k)'
      <4>1. /\ Alike(op'[k], r)
            /\ ~op'[k].registered => r.completed \/ (r.cancelled /\ ~r.relay)
        BY <3>3, BecomesAlike
      <4>2. /\ op'[k].cancelled = op[k].cancelled /\ op'[k].completed = op[k].completed /\ op'[k].attempted
            /\ op'[k].relay = op[k].relay /\ op'[k].unknown = op[k].unknown
        BY <3>3, <4>1 DEF Alike
      <4>3. CallShape(k)'
        BY <3>1 DEF CallShape
      <4>4. RelayShape(k)'
        BY <2>1, <3>1, <3>2, <3>3, <4>1, <4>2 DEF Shape, RelayShape
      <4>5. OpenShape(k)'
        BY <2>1, <3>1, <3>2, <3>3, <4>1, <4>2 DEF Shape, RelayShape, OpenShape
      <4>6. QED
        BY <4>3, <4>4, <4>5 DEF Shape
    <3>4. CASE Becomes(k, [op[k] EXCEPT !.settled = TRUE]) /\ UNCHANGED <<worker, silent>>
      <4> DEFINE r == [op[k] EXCEPT !.settled = TRUE]
      <4>1. /\ r \in Record /\ r.cancelled = op[k].cancelled /\ r.completed = op[k].completed /\ r.attempted
            /\ r.registered /\ r.relay = op[k].relay /\ r.unknown = op[k].unknown
        BY <3>2 DEF Record
      <4> HIDE DEF r
      <4>2. QED
        BY <3>3, <3>4, <4>1 DEF r
    <3>5. CASE Becomes(k, Unacknowledged(op[k])) /\ UNCHANGED worker /\ silent' = silent \cup {k}
      <4> DEFINE r == Unacknowledged(op[k])
      <4>1. /\ r \in Record /\ r.cancelled = op[k].cancelled /\ r.completed = op[k].completed /\ r.attempted
            /\ r.registered /\ r.relay = op[k].relay /\ r.unknown = op[k].unknown
        BY <3>2 DEF Record, Unacknowledged, Reconciling
      <4> HIDE DEF r
      <4>2. QED
        BY <3>3, <3>5, <4>1 DEF r
    <3>6. CASE /\ worker[k] = "none" /\ worker' = [worker EXCEPT ![k] = "refused"] /\ UNCHANGED silent
               /\ Becomes(k, [op[k] EXCEPT !.settled = TRUE, !.completed = TRUE, !.relay = FALSE])
      <4> DEFINE r == [op[k] EXCEPT !.settled = TRUE, !.completed = TRUE, !.relay = FALSE]
      <4>1. r \in Record /\ r.cancelled = op[k].cancelled /\ r.completed /\ r.attempted /\ ~r.relay /\ r.unknown = op[k].unknown
        BY <3>2 DEF Record
      <4> HIDE DEF r
      <4>2. Alike(op'[k], r) /\ (op'[k].registered => r.registered)
        BY <3>6, <4>1, BecomesAlike DEF r
      <4>3. op'[k].cancelled = op[k].cancelled /\ op'[k].completed /\ op'[k].attempted /\ ~op'[k].relay /\ op'[k].unknown = op[k].unknown
        BY <4>1, <4>2 DEF Alike
      <4>4. ~op[k].unknown /\ mail[k] = "none" /\ worker'[k] = "refused"
        BY <2>1, <3>6 DEF Shape, RelayShape, Outcomes
      <4>5. CallShape(k)'
        BY <3>1 DEF CallShape
      <4>6. RelayShape(k)'
        BY <3>1, <4>3, <4>4 DEF RelayShape
      <4>7. OpenShape(k)'
        BY <2>1, <3>1, <3>2, <4>2, <4>3, <4>4 DEF Shape, OpenShape, Open
      <4>8. QED
        BY <4>5, <4>6, <4>7 DEF Shape
    <3>7. QED
      BY <1>9, <3>4, <3>5, <3>6 DEF SentEnds
  <2>4. \A j \in Op \ {k} : Shape(j)'
    <3> SUFFICES ASSUME NEW j \in Op \ {k} PROVE Shape(j)'
      OBVIOUS
    <3>1. call'[j] = call[j] /\ mail'[j] = mail[j] /\ worker'[j] = worker[j]
      BY <1>9 DEF SentEnds
    <3>2. owners' = owners /\ (j \in silent => j \in silent') /\ (j \in announced => j \in announced')
      BY <1>9 DEF SentEnds, session
    <3>3. QED
      BY <2>1, <2>2, <3>1, <3>2, OtherKept
  <2>5. QED
    BY <2>3, <2>4
<1>10. ASSUME NEW k \in Op, WorkerEnds(k) PROVE (\A j \in Op : Shape(j))'
  <2> USE DEF OwnershipInv, TypeOK
  <2>1. \A j \in Op : Shape(j)
    BY DEF Shape
  <2>2. \A j \in Op \ {k} : op'[j] = op[j]
    BY <1>10 DEF WorkerEnds, Fault
  <2>3. Shape(k)'
    BY <1>10, <2>1 DEF WorkerEnds, Fault, session, Fresh, Record, Open, Outcomes, Shape, CallShape,
       RelayShape, OpenShape
  <2>4. \A j \in Op \ {k} : Shape(j)'
    <3> SUFFICES ASSUME NEW j \in Op \ {k} PROVE Shape(j)'
      OBVIOUS
    <3>1. call'[j] = call[j] /\ mail'[j] = mail[j] /\ worker'[j] = worker[j]
      BY <1>10 DEF WorkerEnds
    <3>2. owners' = owners /\ (j \in silent => j \in silent') /\ (j \in announced => j \in announced')
      BY <1>10 DEF WorkerEnds, session
    <3>3. QED
      BY <2>1, <2>2, <3>1, <3>2, OtherKept
  <2>5. QED
    BY <2>3, <2>4
<1>11. ASSUME NEW k \in Op, Receive(k) PROVE (\A j \in Op : Shape(j))'
  <2> USE DEF OwnershipInv, TypeOK
  <2>1. \A j \in Op : Shape(j)
    BY DEF Shape
  <2>2. \A j \in Op \ {k} : op'[j] = op[j]
    <3>1. [op[k] EXCEPT !.completed = TRUE, !.relay = FALSE] \in Record
      BY RecordKeeps
    <3>2. CASE Complete(k, mail[k] = "published")
      BY <3>1, <3>2, BecomesAlike DEF Complete
    <3>3. QED
      BY <1>11, <3>2 DEF Receive
  <2>3. Shape(k)'
    <3>1. UNCHANGED <<call, worker, owners>> /\ mail'[k] = "none" /\ mail[k] # "none"
      BY <1>11 DEF Receive
    <3>2. CASE ~op[k].relay
      <4>1. UNCHANGED <<op, announced, silent>>
        BY <1>11, <3>2 DEF Receive
      <4>2. QED
        BY <2>1, <3>1, <4>1 DEF Shape, CallShape, RelayShape, OpenShape
    <3>3. CASE op[k].relay /\ mail[k] = "unknown"
      <4>1. /\ op'[k] = Reconciling(Undecided(op[k])) /\ op[k].registered /\ op[k].attempted
            /\ silent' = silent \cup {k} /\ UNCHANGED announced
        BY <1>11, <3>3, <2>1 DEF Receive, Shape, RelayShape
      <4>2. Undecided(op[k]) \in Record
        BY RecordKeeps
      <4>3. Alike(op'[k], [op[k] EXCEPT !.unknown = TRUE, !.relay = FALSE]) /\ op'[k].registered
        BY <4>1, <4>2, ReconcilingAlike DEF Undecided, Record
      <4>4. /\ op'[k].cancelled = op[k].cancelled /\ op'[k].settled = op[k].settled
            /\ op'[k].completed = op[k].completed /\ op'[k].attempted /\ ~op'[k].relay /\ op'[k].unknown
        BY <4>1, <4>3 DEF Alike, Record
      <4>5. call[k] # "none"
        BY <2>1, <4>1 DEF Shape, CallShape, Fresh
      <4>6. CallShape(k)'
        BY <2>1, <3>1, <4>1, <4>3, <4>4, <4>5 DEF Shape, CallShape
      <4>7. worker[k] \in Outcomes
        BY <2>1, <3>3 DEF Shape, RelayShape
      <4>8. RelayShape(k)'
        BY <3>1, <4>1, <4>4, <4>7 DEF RelayShape
      <4>9. OpenShape(k)'
        BY <2>1, <3>1, <3>3, <4>1, <4>3, <4>4 DEF Shape, RelayShape, OpenShape
      <4>10. QED
        BY <4>6, <4>8, <4>9 DEF Shape
    <3>4. CASE op[k].relay /\ mail[k] # "unknown"
      <4> DEFINE r == [op[k] EXCEPT !.completed = TRUE, !.relay = FALSE]
      <4>1. /\ Becomes(k, r) /\ UNCHANGED silent /\ op[k].registered /\ op[k].attempted /\ ~op[k].completed
            /\ announced' = IF mail[k] = "published" THEN announced \cup {k} ELSE announced
        BY <1>11, <3>4, <2>1 DEF Receive, Complete, Shape, RelayShape
      <4>2. mail[k] \in {"published", "failed"} /\ worker[k] = mail[k]
        BY <2>1, <3>1, <3>4 DEF Shape, RelayShape, Outcomes
      <4>3. r \in Record
        BY RecordKeeps
      <4>4. /\ r.attempted /\ r.completed /\ ~r.relay /\ r.cancelled = op[k].cancelled /\ r.registered
            /\ r.unknown = op[k].unknown /\ r.settled = op[k].settled
        BY <4>1 DEF Record
      <4>5. /\ k \in announced => k \in announced'
            /\ worker[k] = "published" => k \in announced'
        BY <4>1, <4>2
      <4> HIDE DEF r
      <4>6. QED
        BY <2>1, <3>1, <4>1, <4>2, <4>3, <4>4, <4>5, CompletedShape
    <3>5. QED
      BY <3>2, <3>3, <3>4
  <2>4. \A j \in Op \ {k} : Shape(j)'
    <3> SUFFICES ASSUME NEW j \in Op \ {k} PROVE Shape(j)'
      OBVIOUS
    <3>1. call'[j] = call[j] /\ mail'[j] = mail[j] /\ worker'[j] = worker[j]
      BY <1>11 DEF Receive
    <3>2. owners' = owners /\ (j \in silent => j \in silent') /\ (j \in announced => j \in announced')
      BY <1>11 DEF Receive, session, Complete
    <3>3. QED
      BY <2>1, <2>2, <3>1, <3>2, OtherKept
  <2>5. QED
    BY <2>3, <2>4
<1>12. ASSUME NEW k \in Op, QueryEnds(k) PROVE (\A j \in Op : Shape(j))'
  <2> USE DEF OwnershipInv, TypeOK
  <2>1. \A j \in Op : Shape(j)
    BY DEF Shape
  <2>2. \A j \in Op \ {k} : op'[j] = op[j]
    BY <1>12, RecordKeeps, BecomesAlike DEF QueryEnds, Answer
  <2>3. Shape(k)'
    <3> DEFINE r == [op[k] EXCEPT !.reconciling = FALSE]
    <3>1. r \in Record /\ Alike(r, op[k]) /\ r.registered = op[k].registered /\ call[k] # "none"
      <4>1. r \in Record
        BY RecordKeeps
      <4>2. Alike(r, op[k]) /\ r.registered = op[k].registered
        BY DEF Record, Alike
      <4>3. call[k] # "none"
        BY <1>12, <2>1 DEF QueryEnds, Shape, CallShape, Fresh
      <4> HIDE DEF r
      <4>4. QED
        BY <4>1, <4>2, <4>3
    <3>2. UNCHANGED <<call, mail, worker, owners, silent>> /\ op[k].reconciling
      BY <1>12 DEF QueryEnds
    <3>3. CASE Becomes(k, r) /\ UNCHANGED announced
      BY <2>1, <3>1, <3>2, <3>3, AnsweredShape
    <3>4. CASE Decided(k) /\ Answer(k, r)
      BY <2>1, <3>1, <3>2, <3>4, AnswerShape
    <3>5. QED
      BY <1>12, <3>3, <3>4 DEF QueryEnds
  <2>4. \A j \in Op \ {k} : Shape(j)'
    <3> SUFFICES ASSUME NEW j \in Op \ {k} PROVE Shape(j)'
      OBVIOUS
    <3>1. call'[j] = call[j] /\ mail'[j] = mail[j] /\ worker'[j] = worker[j]
      BY <1>12 DEF QueryEnds
    <3>2. owners' = owners /\ (j \in silent => j \in silent') /\ (j \in announced => j \in announced')
      BY <1>12 DEF QueryEnds, session, Answer
    <3>3. QED
      BY <2>1, <2>2, <3>1, <3>2, OtherKept
  <2>5. QED
    BY <2>3, <2>4
<1>13. ASSUME NEW k \in Op, CancelEnds(k) PROVE (\A j \in Op : Shape(j))'
  <2> USE DEF OwnershipInv, TypeOK
  <2>1. \A j \in Op : Shape(j)
    BY DEF Shape
  <2>2. \A j \in Op \ {k} : op'[j] = op[j]
    BY <1>13, BecomesAlike DEF CancelEnds
  <2>3. Shape(k)'
    <3>1. UNCHANGED <<call, mail, worker, owners, silent, announced>> /\ Becomes(k, op[k])
      BY <1>13 DEF CancelEnds
    <3>2. QED
      BY <2>1, <3>1, AnsweredShape DEF Alike
  <2>4. \A j \in Op \ {k} : Shape(j)'
    <3> SUFFICES ASSUME NEW j \in Op \ {k} PROVE Shape(j)'
      OBVIOUS
    <3>1. call'[j] = call[j] /\ mail'[j] = mail[j] /\ worker'[j] = worker[j]
      BY <1>13 DEF CancelEnds
    <3>2. owners' = owners /\ (j \in silent => j \in silent') /\ (j \in announced => j \in announced')
      BY <1>13 DEF CancelEnds, session
    <3>3. QED
      BY <2>1, <2>2, <3>1, <3>2, OtherKept
  <2>5. QED
    BY <2>3, <2>4
<1>14. ASSUME NEW k \in Op, Garbled(k) PROVE (\A j \in Op : Shape(j))'
  <2> USE DEF OwnershipInv, TypeOK
  <2>1. \A j \in Op : Shape(j)
    BY DEF Shape
  <2>2. \A j \in Op \ {k} : op'[j] = op[j]
    BY <1>14 DEF Garbled, Reconciling, Fault
  <2>3. Shape(k)'
    BY <1>14, <2>1 DEF Garbled, Reconciling, Fault, session, Fresh, Record, Open, Outcomes, Shape,
       CallShape, RelayShape, OpenShape
  <2>4. \A j \in Op \ {k} : Shape(j)'
    <3> SUFFICES ASSUME NEW j \in Op \ {k} PROVE Shape(j)'
      OBVIOUS
    <3>1. call'[j] = call[j] /\ mail'[j] = mail[j] /\ worker'[j] = worker[j]
      BY <1>14 DEF Garbled
    <3>2. owners' = owners /\ (j \in silent => j \in silent') /\ (j \in announced => j \in announced')
      BY <1>14 DEF Garbled, session
    <3>3. QED
      BY <2>1, <2>2, <3>1, <3>2, OtherKept
  <2>5. QED
    BY <2>3, <2>4
<1>15. ASSUME NEW k \in Op, TransportFails(k) PROVE (\A j \in Op : Shape(j))'
  <2> USE DEF OwnershipInv, TypeOK
  <2>1. \A j \in Op : Shape(j)
    BY DEF Shape
  <2>2. \A j \in Op \ {k} : op'[j] = op[j]
    BY <1>15 DEF TransportFails, Reconciling, Fault
  <2>3. Shape(k)'
    BY <1>15, <2>1 DEF TransportFails, Reconciling, Fault, session, Fresh, Record, Open, Outcomes, Shape,
       CallShape, RelayShape, OpenShape
  <2>4. \A j \in Op \ {k} : Shape(j)'
    <3> SUFFICES ASSUME NEW j \in Op \ {k} PROVE Shape(j)'
      OBVIOUS
    <3>1. call'[j] = call[j] /\ mail'[j] = mail[j] /\ worker'[j] = worker[j]
      BY <1>15 DEF TransportFails
    <3>2. owners' = owners /\ (j \in silent => j \in silent') /\ (j \in announced => j \in announced')
      BY <1>15 DEF TransportFails, session
    <3>3. QED
      BY <2>1, <2>2, <3>1, <3>2, OtherKept
  <2>5. QED
    BY <2>3, <2>4
<1>16. ASSUME NEW k \in Op, Recovered(k) PROVE (\A j \in Op : Shape(j))'
  <2> USE DEF OwnershipInv, TypeOK
  <2>1. \A j \in Op : Shape(j)
    BY DEF Shape
  <2>2. \A j \in Op \ {k} : op'[j] = op[j]
    BY <1>16 DEF Recovered
  <2>3. Shape(k)'
    BY <1>16, <2>1 DEF Recovered, session, Fresh, Record, Open, Outcomes, Shape, CallShape, RelayShape,
       OpenShape
  <2>4. \A j \in Op \ {k} : Shape(j)'
    <3> SUFFICES ASSUME NEW j \in Op \ {k} PROVE Shape(j)'
      OBVIOUS
    <3>1. call'[j] = call[j] /\ mail'[j] = mail[j] /\ worker'[j] = worker[j]
      BY <1>16 DEF Recovered
    <3>2. owners' = owners /\ (j \in silent => j \in silent') /\ (j \in announced => j \in announced')
      BY <1>16 DEF Recovered, session
    <3>3. QED
      BY <2>1, <2>2, <3>1, <3>2, OtherKept
  <2>5. QED
    BY <2>3, <2>4
<1>17. ASSUME NEW k \in Op, PageAsks(k) PROVE (\A j \in Op : Shape(j))'
  <2> USE DEF OwnershipInv, TypeOK
  <2>1. \A j \in Op : Shape(j)
    BY DEF Shape
  <2>2. \A j \in Op \ {k} : op'[j] = op[j]
    BY <1>17, RecordKeeps, BecomesAlike DEF PageAsks, Answer
  <2>3. Shape(k)'
    <3>1. UNCHANGED <<call, mail, worker, owners, silent>> /\ Decided(k) /\ Answer(k, op[k])
      BY <1>17 DEF PageAsks
    <3>2. op[k] \in Record /\ Alike(op[k], op[k])
      BY DEF Alike
    <3>3. call[k] # "none"
      BY <1>17, <2>1 DEF PageAsks, Unanswered, Shape, CallShape, Fresh
    <3>4. QED
      BY <2>1, <3>1, <3>2, <3>3, AnswerShape
  <2>4. \A j \in Op \ {k} : Shape(j)'
    <3> SUFFICES ASSUME NEW j \in Op \ {k} PROVE Shape(j)'
      OBVIOUS
    <3>1. call'[j] = call[j] /\ mail'[j] = mail[j] /\ worker'[j] = worker[j]
      BY <1>17 DEF PageAsks
    <3>2. owners' = owners /\ (j \in silent => j \in silent') /\ (j \in announced => j \in announced')
      BY <1>17 DEF PageAsks, session, Answer
    <3>3. QED
      BY <2>1, <2>2, <3>1, <3>2, OtherKept
  <2>5. QED
    BY <2>3, <2>4
<1>18. ASSUME Transition PROVE (\A j \in Op : Shape(j))'
  <2> USE DEF OwnershipInv, TypeOK
  <2> SUFFICES ASSUME NEW j \in Op PROVE Shape(j)'
    OBVIOUS
  <2>1. Shape(j) /\ op[j] \in Record
    BY DEF Shape
  <2>2. UNCHANGED <<call, mail, worker, silent, announced>>
    BY <1>18 DEF Transition
  <2>3. CASE op' = op /\ owners \subseteq owners'
    BY <2>1, <2>2, <2>3, OtherKept
  <2>4. ASSUME NEW o, owners' = owners \ {o},
               op' = [i \in Op |-> IF i \in Registered(op, o) THEN Released(op[i]) ELSE op[i]]
        PROVE  Shape(j)'
    <3>1. CASE By[j] # o
      <4>1. op'[j] = op[j]
        BY <2>4, <3>1 DEF Registered
      <4>2. QED
        BY <2>1, <2>2, <2>4, <3>1, <4>1, OtherKept
    <3>2. CASE By[j] = o /\ ~op[j].registered
      <4>1. op'[j] = op[j]
        BY <2>4, <3>2 DEF Registered
      <4>2. QED
        BY <2>1, <2>2, <3>2, <4>1 DEF Shape, CallShape, RelayShape, OpenShape
    <3>3. CASE By[j] = o /\ op[j].registered
      <4>1. op'[j] = Released(op[j])
        BY <2>4, <3>3 DEF Registered
      <4>2. /\ op'[j].registered /\ op'[j].settled = op[j].settled /\ op'[j].completed = op[j].completed
            /\ op'[j].attempted = op[j].attempted /\ op'[j].relay = op[j].relay /\ op'[j].unknown = op[j].unknown
            /\ op'[j].cancelled
        BY <2>1, <3>3, <4>1 DEF Released, Record
      <4>3. call[j] # "none"
        BY <2>1, <3>3 DEF Shape, CallShape, Fresh
      <4>4. CallShape(j)' /\ RelayShape(j)'
        BY <2>1, <2>2, <4>2, <4>3, <3>3 DEF Shape, CallShape, RelayShape
      <4>5. OpenShape(j)'
        BY <2>1, <2>2, <4>2, <3>3 DEF Shape, OpenShape
      <4>6. QED
        BY <4>4, <4>5 DEF Shape
    <3>4. QED
      BY <3>1, <3>2, <3>3
  <2>5. QED
    BY <1>18, <2>3, <2>4 DEF Transition
<1>19. ASSUME PurgeBegins PROVE (\A j \in Op : Shape(j))'
  BY <1>19 DEF PurgeBegins, Fresh, Record, TypeOK, Open, Outcomes, OwnershipInv, Shape, CallShape,
     RelayShape, OpenShape, session, purging
<1>20. ASSUME PurgeEnds PROVE (\A j \in Op : Shape(j))'
  <2> USE DEF OwnershipInv, TypeOK
  <2> SUFFICES ASSUME NEW j \in Op PROVE Shape(j)'
    OBVIOUS
  <2>1. Shape(j) /\ op[j] \in Record
    BY DEF Shape
  <2>2. UNCHANGED <<call, mail, owners, silent, announced>>
    BY <1>20 DEF PurgeEnds, session
  <2>3. CASE j \notin purge
    <3>1. op'[j] = op[j] /\ worker'[j] = worker[j]
      BY <1>20, <2>3 DEF PurgeEnds
    <3>2. QED
      BY <2>1, <2>2, <3>1, OtherKept
  <2>4. CASE j \in purge
    <3>1. /\ op[j].unknown /\ ~op[j].relay /\ mail[j] = "none" /\ worker[j] # "none"
          /\ op[j].attempted /\ worker'[j] = "purged"
      BY <1>20, <2>1, <2>4 DEF PurgeEnds, Shape, RelayShape, OpenShape, Outcomes
    <3>2. \/ op'[j] = op[j]
          \/ op'[j] = [op[j] EXCEPT !.registered = FALSE] /\ op[j].settled
      BY <1>20 DEF PurgeEnds, Superseded
    <3>3. /\ op'[j].registered => op[j].registered
          /\ ~op'[j].registered => op[j].settled \/ op'[j] = op[j]
          /\ Alike(op'[j], op[j])
      BY <2>1, <3>2 DEF Alike, Record
    <3>4. call[j] # "none"
      BY <2>1, <3>1 DEF Shape, CallShape, Fresh
    <3>5. CallShape(j)'
      BY <2>1, <2>2, <3>3, <3>4 DEF Shape, CallShape, Alike
    <3>6. RelayShape(j)'
      BY <2>1, <2>2, <3>1, <3>3 DEF Shape, RelayShape, Alike
    <3>7. OpenShape(j)'
      BY <2>1, <2>2, <3>1, <3>3 DEF Shape, OpenShape, Alike, Open
    <3>8. QED
      BY <3>5, <3>6, <3>7 DEF Shape
  <2>5. QED
    BY <2>3, <2>4
<1>21. CASE UNCHANGED vars
  BY <1>21 DEF vars, OwnershipInv, session, purging, Shape, CallShape, RelayShape, OpenShape
<1>22. QED
  BY <1>1, <1>2, <1>3, <1>4, <1>5, <1>6, <1>7, <1>8, <1>9, <1>10, <1>11, <1>12, <1>13, <1>14, <1>15, <1>16,
     <1>17, <1>18, <1>19, <1>20, <1>21 DEF Next, Step

\* None of these forms forgets that an outcome is unknown.
LEMMA UnknownKept ==
    ASSUME NEW r \in Record
    PROVE  /\ Settled(r).unknown = r.unknown /\ Unacknowledged(r).unknown = r.unknown
           /\ r.unknown => Undecided(r).unknown
           /\ [r EXCEPT !.settled = TRUE].unknown = r.unknown
           /\ [r EXCEPT !.reconciling = FALSE].unknown = r.unknown
           /\ [r EXCEPT !.completed = TRUE, !.relay = FALSE].unknown = r.unknown
           /\ [r EXCEPT !.settled = TRUE, !.completed = TRUE, !.relay = FALSE].unknown = r.unknown
BY DEF Record, Settled, Reconciling, Unacknowledged, Undecided

\* What a purge has captured stays undecided.
LEMMA PurgeStep == OwnershipInv /\ [Next]_vars => (\A j \in purge : op[j].unknown)'
<1> SUFFICES ASSUME OwnershipInv, [Next]_vars PROVE (\A j \in purge : op[j].unknown)'
  OBVIOUS
<1>1. ASSUME NEW o \in Owner, Connect(o) PROVE (\A j \in purge : op[j].unknown)'
  <2> USE DEF OwnershipInv, TypeOK
  <2>1. QED
    BY <1>1 DEF Connect, Ask, Record, session, purging
<1>2. ASSUME NEW o \in Owner, Disconnect(o) PROVE (\A j \in purge : op[j].unknown)'
  <2> USE DEF OwnershipInv, TypeOK
  <2>1. \A j \in Op : op[j].unknown => op'[j].unknown
    BY <1>2 DEF Disconnect, Ask, Left, Reconciling, Registered, Record
  <2>2. QED
    BY <1>2, <2>1 DEF Disconnect, purging
<1>3. ASSUME NEW o \in Owner, EndSession(o) PROVE (\A j \in purge : op[j].unknown)'
  <2> USE DEF OwnershipInv, TypeOK
  <2>1. QED
    BY <1>3 DEF EndSession, Ask, Record, session, purging
<1>4. ASSUME NEW o \in Owner, FreeSession(o) PROVE (\A j \in purge : op[j].unknown)'
  <2> USE DEF OwnershipInv, TypeOK
  <2>1. QED
    BY <1>4 DEF FreeSession, ReleaseOrphaned, Record, session, purging
<1>5. ASSUME NEW k \in Op, Register(k) PROVE (\A j \in purge : op[j].unknown)'
  <2> USE DEF OwnershipInv, TypeOK
  <2>1. QED
    BY <1>5 DEF Register, Record, session, purging
<1>6. ASSUME NEW k \in Op, Send(k) PROVE (\A j \in purge : op[j].unknown)'
  <2> USE DEF OwnershipInv, TypeOK
  <2>1. QED
    BY <1>6 DEF Send, Record, session, purging
<1>7. ASSUME NEW k \in Op, Deliver(k) PROVE (\A j \in purge : op[j].unknown)'
  <2> USE DEF OwnershipInv, TypeOK
  <2>1. QED
    BY <1>7 DEF Deliver, Record, session, purging
<1>8. ASSUME NEW k \in Op, NotSent(k) PROVE (\A j \in purge : op[j].unknown)'
  <2> USE DEF OwnershipInv, TypeOK
  <2>1. \E r \in Record : Becomes(k, r) /\ r.unknown = op[k].unknown
    BY <1>8, RecordKeeps, UnknownKept DEF NotSent
  <2>2. PICK r \in Record : Becomes(k, r) /\ r.unknown = op[k].unknown
    BY <2>1
  <2>3. Alike(op'[k], r) /\ (\A j \in Op : j # k => op'[j] = op[j])
    BY <2>2, BecomesAlike
  <2>4. QED
    BY <1>8, <2>2, <2>3 DEF NotSent, Alike, purging
<1>9. ASSUME NEW k \in Op, SentEnds(k) PROVE (\A j \in purge : op[j].unknown)'
  <2> USE DEF OwnershipInv, TypeOK
  <2>1. \E r \in Record : Becomes(k, r) /\ r.unknown = op[k].unknown
    BY <1>9, RecordKeeps, UnknownKept DEF SentEnds
  <2>2. PICK r \in Record : Becomes(k, r) /\ r.unknown = op[k].unknown
    BY <2>1
  <2>3. Alike(op'[k], r) /\ (\A j \in Op : j # k => op'[j] = op[j])
    BY <2>2, BecomesAlike
  <2>4. QED
    BY <1>9, <2>2, <2>3 DEF SentEnds, Alike, purging
<1>10. ASSUME NEW k \in Op, WorkerEnds(k) PROVE (\A j \in purge : op[j].unknown)'
  <2> USE DEF OwnershipInv, TypeOK
  <2>1. QED
    BY <1>10 DEF WorkerEnds, Fault, Record, session, purging
<1>11. ASSUME NEW k \in Op, Receive(k) PROVE (\A j \in purge : op[j].unknown)'
  <2> USE DEF OwnershipInv, TypeOK
  <2>1. CASE Complete(k, mail[k] = "published")
    <3> DEFINE r == [op[k] EXCEPT !.completed = TRUE, !.relay = FALSE]
    <3>1. r \in Record /\ r.unknown = op[k].unknown
      BY RecordKeeps, UnknownKept
    <3>2. Becomes(k, r)
      BY <2>1 DEF Complete
    <3>3. Alike(op'[k], r) /\ (\A j \in Op : j # k => op'[j] = op[j])
      BY <3>1, <3>2, BecomesAlike
    <3>4. QED
      BY <1>11, <3>1, <3>3 DEF Receive, Alike, purging
  <2>2. CASE op' = op
    BY <1>11, <2>2 DEF Receive, purging
  <2>3. CASE op' = [op EXCEPT ![k] = Reconciling(Undecided(op[k]))]
    <3>1. Undecided(op[k]) \in Record /\ (op[k].unknown => Undecided(op[k]).unknown)
      BY RecordKeeps, UnknownKept
    <3>2. op[k].unknown => op'[k].unknown
      BY <2>3, <3>1, ReconcilingAlike DEF Alike
    <3>3. QED
      BY <1>11, <2>3, <3>2 DEF Receive, purging
  <2>4. QED
    BY <1>11, <2>1, <2>2, <2>3 DEF Receive
<1>12. ASSUME NEW k \in Op, QueryEnds(k) PROVE (\A j \in purge : op[j].unknown)'
  <2> USE DEF OwnershipInv, TypeOK
  <2>1. \E r \in Record : Becomes(k, r) /\ r.unknown = op[k].unknown
    <3> DEFINE q == [op[k] EXCEPT !.reconciling = FALSE]
    <3>1. q \in Record /\ q.unknown = op[k].unknown
      BY RecordKeeps, UnknownKept
    <3> HIDE DEF q
    <3>2. CASE Becomes(k, q)
      BY <3>1, <3>2
    <3>3. CASE Becomes(k, [q EXCEPT !.completed = TRUE, !.relay = FALSE])
      <4> DEFINE c == [q EXCEPT !.completed = TRUE, !.relay = FALSE]
      <4>1. c \in Record /\ c.unknown = op[k].unknown
        BY <3>1, RecordKeeps, UnknownKept
      <4> HIDE DEF c
      <4>2. QED
        BY <3>3, <4>1 DEF c
    <3>4. QED
      BY <1>12, <3>2, <3>3 DEF QueryEnds, Answer, q
  <2>2. PICK r \in Record : Becomes(k, r) /\ r.unknown = op[k].unknown
    BY <2>1
  <2>3. Alike(op'[k], r) /\ (\A j \in Op : j # k => op'[j] = op[j])
    BY <2>2, BecomesAlike
  <2>4. QED
    BY <1>12, <2>2, <2>3 DEF QueryEnds, Alike, purging
<1>13. ASSUME NEW k \in Op, CancelEnds(k) PROVE (\A j \in purge : op[j].unknown)'
  <2> USE DEF OwnershipInv, TypeOK
  <2>1. \E r \in Record : Becomes(k, r) /\ r.unknown = op[k].unknown
    BY <1>13 DEF CancelEnds
  <2>2. PICK r \in Record : Becomes(k, r) /\ r.unknown = op[k].unknown
    BY <2>1
  <2>3. Alike(op'[k], r) /\ (\A j \in Op : j # k => op'[j] = op[j])
    BY <2>2, BecomesAlike
  <2>4. QED
    BY <1>13, <2>2, <2>3 DEF CancelEnds, Alike, purging
<1>14. ASSUME NEW k \in Op, Garbled(k) PROVE (\A j \in purge : op[j].unknown)'
  <2> USE DEF OwnershipInv, TypeOK
  <2>1. op[k].unknown => op'[k].unknown
    BY <1>14 DEF Garbled, Reconciling, Fault, Record
  <2>2. QED
    BY <1>14, <2>1 DEF Garbled, Reconciling, Fault, purging
<1>15. ASSUME NEW k \in Op, TransportFails(k) PROVE (\A j \in purge : op[j].unknown)'
  <2> USE DEF OwnershipInv, TypeOK
  <2>1. op[k].unknown => op'[k].unknown
    BY <1>15 DEF TransportFails, Reconciling, Fault, Record
  <2>2. QED
    BY <1>15, <2>1 DEF TransportFails, Reconciling, Fault, purging
<1>16. ASSUME NEW k \in Op, Recovered(k) PROVE (\A j \in purge : op[j].unknown)'
  <2> USE DEF OwnershipInv, TypeOK
  <2>1. QED
    BY <1>16 DEF Recovered, Record, session, purging
<1>17. ASSUME NEW k \in Op, PageAsks(k) PROVE (\A j \in purge : op[j].unknown)'
  <2> USE DEF OwnershipInv, TypeOK
  <2>1. \E r \in Record : Becomes(k, r) /\ r.unknown = op[k].unknown
    BY <1>17, RecordKeeps, UnknownKept DEF PageAsks, Answer
  <2>2. PICK r \in Record : Becomes(k, r) /\ r.unknown = op[k].unknown
    BY <2>1
  <2>3. Alike(op'[k], r) /\ (\A j \in Op : j # k => op'[j] = op[j])
    BY <2>2, BecomesAlike
  <2>4. QED
    BY <1>17, <2>2, <2>3 DEF PageAsks, Alike, purging
<1>18. ASSUME Transition PROVE (\A j \in purge : op[j].unknown)'
  <2> USE DEF OwnershipInv, TypeOK
  <2>1. \A j \in Op : op[j].unknown => op'[j].unknown
    BY <1>18 DEF Transition, Released, Registered, ReleaseOrphaned, Record
  <2>2. QED
    BY <1>18, <2>1 DEF Transition, purging
<1>19. ASSUME PurgeBegins PROVE (\A j \in purge : op[j].unknown)'
  <2> USE DEF OwnershipInv, TypeOK
  <2>1. QED
    BY <1>19 DEF PurgeBegins, Record, session, purging
<1>20. ASSUME PurgeEnds PROVE (\A j \in purge : op[j].unknown)'
  <2> USE DEF OwnershipInv, TypeOK
  <2>1. QED
    BY <1>20 DEF PurgeEnds, Superseded, Record, session, purging
<1>21. CASE UNCHANGED vars
  BY <1>21 DEF vars, OwnershipInv, purging
<1>22. QED
  BY <1>1, <1>2, <1>3, <1>4, <1>5, <1>6, <1>7, <1>8, <1>9, <1>10, <1>11, <1>12, <1>13, <1>14, <1>15, <1>16,
     <1>17, <1>18, <1>19, <1>20, <1>21 DEF Next, Step

-------------------------------------------------------------------------------
(* The initial state, and the theorems *)

LEMMA InitInv == Init => OwnershipInv
<1> SUFFICES ASSUME Init PROVE OwnershipInv
  OBVIOUS
<1>1. Fresh \in Record
  BY DEF Fresh, Record
<1>2. requests \in Seq(Request)
  BY DEF Init
<1>3. TypeOK
  <2>1. /\ op \in [Op -> Record] /\ call \in [Op -> {"none", "before", "sent", "ended"}]
        /\ mail \in [Op -> {"none"} \cup Outcomes]
        /\ worker \in [Op -> Open \cup Outcomes \cup {"refused", "purged"}]
    BY <1>1 DEF Init, Open, Outcomes
  <2>2. connects \in [Owner -> Nat] /\ faults \in Nat
    BY DEF Init
  <2>3. QED
    BY <1>2, <2>1, <2>2 DEF Init, TypeOK
<1>4. ASSUME NEW k \in Op PROVE CallShape(k) /\ RelayShape(k) /\ OpenShape(k)
  BY DEF Init, CallShape, RelayShape, OpenShape, Fresh, Open
<1>5. QED
  BY <1>3, <1>4 DEF Init, OwnershipInv

\* The registry of _ownedDictionaryImports, the sessions and the dictionary worker stay
\* in agreement, whatever messages are lost.
THEOREM OwnershipInvariant == Spec => []OwnershipInv
<1>1. OwnershipInv /\ [Next]_vars => OwnershipInv'
  BY TypeStep, ShapeStep, PurgeStep DEF OwnershipInv, Shape
<1>2. QED
  BY InitInv, <1>1, PTL DEF Spec

\* _retireOwnedDictionaryImport never drops an import that may still change the
\* dictionaries while its session is kept only for it.
THEOREM SessionIsKept == Spec => []SessionKept
<1>1. OwnershipInv => SessionKept
  BY DEF OwnershipInv, TypeOK, SessionKept, OpenShape, Open
<1>2. QED
  BY OwnershipInvariant, <1>1, PTL

\* A publication reaches the pages, or its session owes it to them, before
\* _retireOwnedDictionaryImport or _retirePurgedOrphanedDictionaryImports forgets the
\* import, unless the session was ended explicitly and no answer had come through.
THEOREM PublicationIsAnnounced == Spec => []PublicationAnnounced
<1>1. OwnershipInv => PublicationAnnounced
  BY DEF OwnershipInv, PublicationAnnounced, OpenShape
<1>2. QED
  BY OwnershipInvariant, <1>1, PTL
=============================================================================
